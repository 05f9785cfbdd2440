----------------------------- MODULE ValueLists -----------------------------
(***************************************************************************)
(* What a careful script may believe of the lists of falconCore: a list    *)
(* variable, or the list inside a message, is a sequence of values of its  *)
(* own, and a call changes the one it names and no other.                  *)
(***************************************************************************)
EXTENDS Naturals, Sequences, SequencesExt

CONSTANTS Vars, Holders, Values

VARIABLES
  var,    \* the value in each element variable of the script
  value   \* the values in each list

vars == <<var, value>>

Init ==
  /\ var \in [Vars -> Values]
  /\ value = [h \in Holders |-> <<>>]

\* What one call may make of the list s.
Edits(s) ==
  {<<>>}
  \cup {InsertAt(s, i, var[x]) : i \in 1 .. Len(s) + 1, x \in Vars}
  \cup {ReplaceAt(s, i, var[x]) : i \in 1 .. Len(s), x \in Vars}
  \cup {RemoveAt(s, i) : i \in 1 .. Len(s)}

\* The elements of s that are in S, in the order of s.
InOrder(I, n) ==
  {f \in UNION {[1 .. k -> I] : k \in 0 .. n} :
     Range(f) = I /\ \A i, j \in DOMAIN f : i < j => f[i] < f[j]}
Selected(s, S) ==
  {[i \in DOMAIN f |-> s[f[i]]] : f \in InOrder({i \in DOMAIN s : s[i] \in S}, Len(s))}

\* The lists a call may build: from element variables, from other lists.
Built(n) ==
  {value[h] : h \in Holders} \cup {<<v>> : v \in Values}
  \cup (UNION {{[i \in 1 .. k |-> var[xs[i]]] : xs \in [1 .. k -> Vars]} : k \in 0 .. n})
  \cup (UNION {Selected(value[g], Range(value[h])) : g \in Holders, h \in Holders})

Load(x) == \E v \in Values : var' = [var EXCEPT ![x] = v] /\ UNCHANGED value

Edit(h) ==
  /\ \E s \in Edits(value[h]) \cup Built(2) : value' = [value EXCEPT ![h] = s]
  /\ UNCHANGED var

Pop(h, x) ==
  /\ value[h] # <<>>
  /\ value' = [value EXCEPT ![h] = Front(@)]
  /\ var' = [var EXCEPT ![x] = Last(value[h])]

Next == \/ \E x \in Vars : Load(x) \/ \E h \in Holders : Pop(h, x)
        \/ \E h \in Holders : Edit(h)

Spec == Init /\ [][Next]_vars
=============================================================================
