------------------------------ MODULE GateMap -------------------------------
(***************************************************************************)
(* A Map from gates to values, as Direction and Point keep one: the pair   *)
(* of arrays keys_ and values_ is one sequence of [gate, value] entries.   *)
(*                                                                         *)
(* A Gate is an object that carries a name.  Map compares gates by content *)
(* (array-wrapper.cpp:202, 227), that is by name; direction-wrapper.cpp    *)
(* compares the objects themselves.  An operator here takes the equality   *)
(* its caller uses as a set: the gates that count as equal to g.           *)
(***************************************************************************)
EXTENDS Integers, Sequences

Entry(g, v) == [gate |-> g, value |-> v]

\* Some entry is for a gate of the set.
Holds(entries, same) == \E i \in 1 .. Len(entries) : entries[i].gate \in same

\* The position of the first such entry.
FirstOf(entries, same) ==
  CHOOSE i \in 1 .. Len(entries) :
    /\ entries[i].gate \in same
    /\ \A h \in 1 .. i - 1 : entries[h].gate \notin same

\* Map.Set
Put(entries, same, g, v) ==
  IF Holds(entries, same)
  THEN LET at == FirstOf(entries, same) IN
       [i \in 1 .. Len(entries) |->
          IF i = at THEN Entry(entries[i].gate, v) ELSE entries[i]]
  ELSE Append(entries, Entry(g, v))

\* Map.Remove
Drop(entries, same) ==
  IF Holds(entries, same)
  THEN LET at == FirstOf(entries, same) IN
       [j \in 1 .. Len(entries) - 1 |->
          IF j < at THEN entries[j] ELSE entries[j + 1]]
  ELSE entries

\* Map.Get of a gate that is there, and 0 for one that is not.
ValueOf(entries, same) ==
  IF Holds(entries, same) THEN entries[FirstOf(entries, same)].value ELSE 0

\* A Map lists a gate once.
OncePerGate(entries) ==
  \A i, j \in 1 .. Len(entries) : entries[i].gate = entries[j].gate => i = j
=============================================================================
