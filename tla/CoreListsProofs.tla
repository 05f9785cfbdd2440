--------------------------- MODULE CoreListsProofs ---------------------------
(***************************************************************************)
(* The lists of falconCore for any variables, messages, objects and        *)
(* bounds: a transform that SetIndex writes into is in one place, and the  *)
(* pointers and copies of the wrappers implement lists of values.          *)
(*                                                                         *)
(* Every step of the seven classes is one of six: a list gets new          *)
(* contents (Refill), is built anew (Build) or handed on (KeepList,        *)
(* ReadList), a variable gets an object of a list (Hold) or a new one      *)
(* (HoldCopy, NewElement), or takes the last one (Take).  A lemma for each *)
(* says that it keeps the invariant, another that it is a step of          *)
(* ValueLists.                                                             *)
(***************************************************************************)
EXTENDS CoreLists, TLAPS

Transforms == {"PortTransforms", "Waveform"}
\* The classes whose lists a message keeps.
Kept == {"Ports", "Connections", "DeviceVoltageStates"}

Typed ==
  /\ class \in Classes
  /\ elem \in [Vars -> Objs]
  /\ content \in [Objs -> Values]
  /\ list \in [Holders -> Lists]
  /\ items \in [Lists -> Seq(Objs)]
  /\ \A c \in Lists : Len(items[c]) <= MaxLen
  /\ lent \subseteq Names

\* The variables that a call may change the list of: no one else has it.
Mine(n) == n \notin lent \/ class \notin Kept
Apart == \A n \in Names : Mine(n) => \A h \in Holders : list[h] = list[n] => h = n

\* The objects of a list are in this one place.
Alone(n) ==
  \A i \in DOMAIN Of(n) :
    /\ Of(n)[i] \notin Range(elem)
    /\ \A h \in Holders : \A j \in DOMAIN Of(h) : Of(h)[j] = Of(n)[i] => h = n /\ j = i

IInv ==
  /\ Typed
  /\ Apart
  /\ class \in Transforms => \A n \in Names \ lent : Alone(n)

-----------------------------------------------------------------------------
(* Sequences.                                                              *)

\* A stretch of a sequence.
LEMMA SubSeqIs ==
  ASSUME NEW S, NEW s \in Seq(S), NEW m \in 1 .. Len(s) + 1, NEW n \in m - 1 .. Len(s)
  PROVE  /\ SubSeq(s, m, n) \in Seq(S)
         /\ Len(SubSeq(s, m, n)) = (n + 1) - m
         /\ \A j \in 1 .. (n + 1) - m : SubSeq(s, m, n)[j] = s[(m + j) - 1]
<1>1. Len(s) \in Nat /\ m \in Nat /\ n \in Nat OBVIOUS
<1>2. \A j \in m .. n : s[j] \in S BY <1>1
<1> QED BY <1>1, <1>2

\* One after the other.
LEMMA CatIs ==
  ASSUME NEW S, NEW a \in Seq(S), NEW b \in Seq(S)
  PROVE  /\ a \o b \in Seq(S)
         /\ Len(a \o b) = Len(a) + Len(b)
         /\ \A j \in 1 .. Len(a) + Len(b) :
              (a \o b)[j] = IF j <= Len(a) THEN a[j] ELSE b[j - Len(a)]
OBVIOUS

\* Leaving one element out.
LEMMA RemoveAtIs ==
  ASSUME NEW S, NEW s \in Seq(S), NEW i \in 1 .. Len(s)
  PROVE  /\ RemoveAt(s, i) \in Seq(S)
         /\ Len(RemoveAt(s, i)) = Len(s) - 1
         /\ \A j \in 1 .. Len(s) - 1 :
              RemoveAt(s, i)[j] = IF j < i THEN s[j] ELSE s[j + 1]
<1> DEFINE a == SubSeq(s, 1, i - 1)
           b == SubSeq(s, i + 1, Len(s))
<1>1. Len(s) \in Nat OBVIOUS
<1>2. /\ a \in Seq(S) /\ Len(a) = i - 1
      /\ \A j \in 1 .. i - 1 : a[j] = s[j]
  <2>1. 1 \in 1 .. Len(s) + 1 /\ i - 1 \in 1 - 1 .. Len(s) BY <1>1
  <2> HIDE DEF a
  <2>2. a \in Seq(S) /\ Len(a) = ((i - 1) + 1) - 1
        /\ \A j \in 1 .. ((i - 1) + 1) - 1 : a[j] = s[(1 + j) - 1]
    BY <2>1, SubSeqIs DEF a
  <2> QED BY <2>2
<1>3. /\ b \in Seq(S) /\ Len(b) = Len(s) - i
      /\ \A j \in 1 .. Len(s) - i : b[j] = s[i + j]
  <2>1. i + 1 \in 1 .. Len(s) + 1 /\ Len(s) \in (i + 1) - 1 .. Len(s) BY <1>1
  <2> HIDE DEF b
  <2>2. b \in Seq(S) /\ Len(b) = (Len(s) + 1) - (i + 1)
        /\ \A j \in 1 .. (Len(s) + 1) - (i + 1) : b[j] = s[((i + 1) + j) - 1]
    BY <2>1, SubSeqIs DEF b
  <2> QED BY <1>1, <2>2
<1>4. RemoveAt(s, i) = a \o b BY DEF RemoveAt
<1> HIDE DEF a, b
<1>5. /\ a \o b \in Seq(S) /\ Len(a \o b) = Len(s) - 1
      /\ \A j \in 1 .. Len(s) - 1 : (a \o b)[j] = IF j <= i - 1 THEN a[j] ELSE b[j - (i - 1)]
  <2>1. /\ a \o b \in Seq(S) /\ Len(a \o b) = Len(a) + Len(b)
        /\ \A j \in 1 .. Len(a) + Len(b) :
             (a \o b)[j] = IF j <= Len(a) THEN a[j] ELSE b[j - Len(a)]
    BY <1>2, <1>3, CatIs
  <2> QED BY <1>1, <1>2, <1>3, <2>1
<1>6. \A j \in 1 .. Len(s) - 1 : j > i - 1 => b[j - (i - 1)] = s[j + 1]
  <2> SUFFICES ASSUME NEW j \in 1 .. Len(s) - 1, j > i - 1 PROVE b[j - (i - 1)] = s[j + 1]
    OBVIOUS
  <2>1. j - (i - 1) \in 1 .. Len(s) - i /\ i + (j - (i - 1)) = j + 1 BY <1>1
  <2> QED BY <1>3, <2>1
<1> QED BY <1>1, <1>2, <1>4, <1>5, <1>6

\* Putting one in.
Inserted(s, i, e, j) == IF j < i THEN s[j] ELSE IF j = i THEN e ELSE s[j - 1]
LEMMA InsertAtIs ==
  ASSUME NEW S, NEW s \in Seq(S), NEW i \in 1 .. Len(s) + 1, NEW e \in S
  PROVE  /\ InsertAt(s, i, e) \in Seq(S)
         /\ Len(InsertAt(s, i, e)) = Len(s) + 1
         /\ \A j \in 1 .. Len(s) + 1 :
              InsertAt(s, i, e)[j] = Inserted(s, i, e, j)
<1>1. Len(s) \in Nat OBVIOUS
<1>2. SubSeq(s, 1, i - 1) \in Seq(S) /\ Len(SubSeq(s, 1, i - 1)) = i - 1
  BY <1>1
<1>3. SubSeq(s, i, Len(s)) \in Seq(S) /\ Len(SubSeq(s, i, Len(s))) = Len(s) - i + 1
  BY <1>1
<1>4. \A j \in 1 .. i - 1 : SubSeq(s, 1, i - 1)[j] = s[j]
  BY <1>1
<1>5. \A j \in 1 .. Len(s) - i + 1 : SubSeq(s, i, Len(s))[j] = s[i + j - 1]
  BY <1>1
<1>6. <<e>> \in Seq(S) /\ Len(<<e>>) = 1 /\ <<e>>[1] = e OBVIOUS
<1> DEFINE t == SubSeq(s, 1, i - 1) \o <<e>>
<1>7. t \in Seq(S) /\ Len(t) = i
  BY <1>1, <1>2, <1>6
<1>8. \A j \in 1 .. i : t[j] = IF j < i THEN s[j] ELSE e
  BY <1>1, <1>2, <1>4, <1>6
<1>9. InsertAt(s, i, e) = t \o SubSeq(s, i, Len(s))
  BY DEF InsertAt
<1> HIDE DEF t
<1>10. \A j \in 1 .. Len(s) + 1 :
         InsertAt(s, i, e)[j] = IF j <= i THEN t[j] ELSE SubSeq(s, i, Len(s))[j - i]
  BY <1>1, <1>3, <1>7, <1>9
<1>11. \A j \in 1 .. Len(s) + 1 : j > i => SubSeq(s, i, Len(s))[j - i] = s[j - 1]
  BY <1>1, <1>5
<1>12. InsertAt(s, i, e) \in Seq(S) /\ Len(InsertAt(s, i, e)) = Len(s) + 1
  BY <1>1, <1>3, <1>7, <1>9
<1> QED BY <1>1, <1>8, <1>10, <1>11, <1>12 DEF Inserted

\* Taking the last one off.
LEMMA FrontIs ==
  ASSUME NEW S, NEW s \in Seq(S), s # <<>>
  PROVE  /\ Front(s) \in Seq(S) /\ Last(s) \in S
         /\ Len(s) \in DOMAIN s
         /\ Len(Front(s)) = Len(s) - 1
         /\ \A j \in 1 .. Len(s) - 1 : Front(s)[j] = s[j]
<1>1. Len(s) \in Nat /\ Len(s) # 0 OBVIOUS
<1>2. /\ SubSeq(s, 1, Len(s) - 1) \in Seq(S) /\ Len(SubSeq(s, 1, Len(s) - 1)) = Len(s) - 1
      /\ \A j \in 1 .. Len(s) - 1 : SubSeq(s, 1, Len(s) - 1)[j] = s[j]
  <2>1. 1 \in 1 .. Len(s) + 1 /\ Len(s) - 1 \in 1 - 1 .. Len(s) BY <1>1
  <2> DEFINE a == SubSeq(s, 1, Len(s) - 1)
  <2> HIDE DEF a
  <2>2. a \in Seq(S) /\ Len(a) = ((Len(s) - 1) + 1) - 1
        /\ \A j \in 1 .. ((Len(s) - 1) + 1) - 1 : a[j] = s[(1 + j) - 1]
    BY <2>1, SubSeqIs DEF a
  <2>3. a \in Seq(S) /\ Len(a) = Len(s) - 1 /\ \A j \in 1 .. Len(s) - 1 : a[j] = s[j]
    BY <1>1, <2>2
  <2> QED BY <2>3 DEF a
<1>3. Len(s) \in DOMAIN s /\ s[Len(s)] \in S BY <1>1
<1> QED BY <1>2, <1>3 DEF Front, Last

\* A sequence is its length and its elements.
LEMMA SameSeq ==
  ASSUME NEW S, NEW T, NEW s \in Seq(S), NEW t \in Seq(T), Len(s) = Len(t),
         \A i \in 1 .. Len(s) : s[i] = t[i]
  PROVE  s = t
OBVIOUS

\* An enumeration of some positions of a sequence.
LEMMA Picked ==
  ASSUME NEW S, NEW s \in Seq(S), NEW I \in SUBSET DOMAIN s, NEW n \in Nat,
         NEW f \in InOrder(I, n)
  PROVE  /\ [i \in DOMAIN f |-> s[f[i]]] \in Seq(S)
         /\ \E k \in Nat : DOMAIN f = 1 .. k
         /\ \A i \in DOMAIN f : f[i] \in I
<1>1. PICK k \in 0 .. n : f \in [1 .. k -> I] BY DEF InOrder
<1>2. k \in Nat /\ DOMAIN f = 1 .. k BY <1>1
<1>3. \A i \in 1 .. k : f[i] \in 1 .. Len(s) BY <1>1
<1> QED BY <1>1, <1>2, <1>3

-----------------------------------------------------------------------------
(* A step of any class leaves what Settle says.                            *)

LEMMA SettleIs ==
  ASSUME Typed,
         NEW el \in [Vars -> Objs], NEW ct \in [Objs -> Values],
         NEW ls \in [Holders -> Lists], NEW it \in [Lists -> Seq(Objs)],
         Settle(el, ct, ls, it), lent' \subseteq Names
  PROVE  /\ Typed' /\ elem' = el /\ list' = ls /\ class' = class
         /\ \A h \in Holders : items'[list'[h]] = it[ls[h]]
         /\ \A x \in Vars : content'[elem'[x]] = ct[el[x]]
         /\ \A h \in Holders : \A i \in DOMAIN it[ls[h]] :
              content'[it[ls[h]][i]] = ct[it[ls[h]][i]]
<1>1. elem' = el /\ list' = ls /\ class' = class BY DEF Settle
<1>2. items' = [c \in Lists |-> IF \E h \in Holders : ls[h] = c THEN it[c] ELSE <<>>]
  BY DEF Settle
<1>3. content' = [o \in Objs |-> IF o \in Reached(el, ls, it) THEN ct[o] ELSE Blank]
  BY DEF Settle
<1>4. Blank \in Values BY ValuesAssumption DEF Blank
<1>5. items' \in [Lists -> Seq(Objs)] BY <1>2
<1>6. content' \in [Objs -> Values] BY <1>3, <1>4
<1>7. \A c \in Lists : Len(items'[c]) <= MaxLen BY DEF Settle
<1>8. Typed' BY <1>1, <1>5, <1>6, <1>7 DEF Typed
<1>9. \A h \in Holders : items'[list'[h]] = it[ls[h]] BY <1>1, <1>2
<1>10. \A x \in Vars : content'[elem'[x]] = ct[el[x]]
  <2>1. \A x \in Vars : el[x] \in Objs /\ el[x] \in Reached(el, ls, it) BY DEF Reached
  <2> QED BY <1>1, <1>3, <2>1
<1>11. \A h \in Holders : \A i \in DOMAIN it[ls[h]] :
         content'[it[ls[h]][i]] = ct[it[ls[h]][i]]
  <2> SUFFICES ASSUME NEW h \in Holders, NEW i \in DOMAIN it[ls[h]]
               PROVE  content'[it[ls[h]][i]] = ct[it[ls[h]][i]]
    OBVIOUS
  <2>1. it[ls[h]] \in Seq(Objs) OBVIOUS
  <2>2. it[ls[h]][i] \in Objs BY <2>1
  <2>3. it[ls[h]][i] \in Reached(el, ls, it) BY DEF Reached, Range
  <2> QED BY <1>3, <2>2, <2>3
<1> QED BY <1>1, <1>8, <1>9, <1>10, <1>11

LEMMA Initially == Init => IInv
<1> SUFFICES ASSUME Init PROVE IInv OBVIOUS
<1>1. Typed
  <2>1. <<>> \in Seq(Objs) /\ Len(<<>>) = 0 OBVIOUS
  <2> QED BY <2>1, MaxLenAssumption DEF Init, Typed
<1>2. Apart
  <2>1. Names \subseteq Holders BY DEF Holders
  <2> QED BY <2>1 DEF Init, Apart
<1>3. \A n \in Names : Alone(n)
  <2>1. \A n \in Names : list[n] \in Lists BY DEF Init, Holders
  <2>2. \A n \in Names : Of(n) = <<>> BY <2>1 DEF Init, Of
  <2> QED BY <2>2 DEF Alone
<1> QED BY <1>1, <1>2, <1>3 DEF IInv

\* What is typed.
LEMMA OneList ==
  ASSUME Typed, NEW h \in Holders
  PROVE  /\ list[h] \in Lists /\ Of(h) \in Seq(Objs)
         /\ \A i \in DOMAIN Of(h) : Of(h)[i] \in Objs
<1>1. list[h] \in Lists /\ Of(h) \in Seq(Objs) BY DEF Typed, Of
<1> QED BY <1>1

\* An object that is nowhere.
LEMMA FreshIs ==
  ASSUME NEW o \in FreshObjs
  PROVE  /\ o \in Objs
         /\ \A x \in Vars : elem[x] # o
         /\ \A h \in Holders : \A i \in DOMAIN Of(h) : Of(h)[i] # o
BY DEF FreshObjs, Reached, Range, Of

-----------------------------------------------------------------------------
(* The six kinds of steps keep the invariant.                              *)

\* New contents for a list, from its own objects and new ones, each once
\* unless the script has lent them.
LEMMA RefillKeeps ==
  ASSUME IInv, NEW n \in Names, Mine(n), NEW objs \in Seq(Objs),
         NEW ct \in [Objs -> Values], Refill(n, objs, ct),
         class \in Transforms =>
           /\ Range(objs) \subseteq Range(Of(n)) \cup FreshObjs
           /\ n \notin lent => \A i, j \in DOMAIN objs : objs[i] = objs[j] => i = j
  PROVE  IInv'
<1> USE DEF IInv
<1>1. n \in Holders BY DEF Holders
<1> DEFINE it == [items EXCEPT ![list[n]] = objs]
<1>2. it \in [Lists -> Seq(Objs)] BY DEF Typed
<1>3. elem \in [Vars -> Objs] /\ list \in [Holders -> Lists] BY DEF Typed
<1>4. Settle(elem, ct, list, it) /\ lent' = lent BY DEF Refill
<1>5. lent' \subseteq Names BY <1>4 DEF Typed
<1> HIDE DEF it
<1>6. /\ Typed' /\ elem' = elem /\ list' = list /\ class' = class
      /\ \A h \in Holders : items'[list'[h]] = it[list[h]]
  BY <1>2, <1>3, <1>4, <1>5, SettleIs
<1>7. \A h \in Holders \ {n} : list[h] # list[n] BY <1>1 DEF Apart
<1>8. it[list[n]] = objs /\ \A h \in Holders \ {n} : it[list[h]] = Of(h)
  BY <1>1, <1>3, <1>7 DEF it, Of, Typed
<1>9. items'[list'[n]] = objs /\ \A h \in Holders \ {n} : items'[list'[h]] = Of(h)
  BY <1>1, <1>6, <1>8
<1>10. Apart' BY <1>4, <1>6 DEF Apart, Mine
<1>11. ASSUME class \in Transforms, NEW m \in Names \ lent PROVE Alone(m)'
  <2> SUFFICES ASSUME NEW i \in DOMAIN items'[list'[m]]
               PROVE  /\ items'[list'[m]][i] \notin Range(elem)
                      /\ \A h \in Holders : \A j \in DOMAIN items'[list'[h]] :
                           items'[list'[h]][j] = items'[list'[m]][i] => h = m /\ j = i
    BY <1>6 DEF Alone, Of
  <2>1. Alone(m) BY <1>11
  <2>2. \A j \in DOMAIN objs : objs[j] \in FreshObjs \/ \E k \in DOMAIN Of(n) : objs[j] = Of(n)[k]
    BY <1>11 DEF Range
  <2>3. CASE m = n
    <3>1. i \in DOMAIN objs BY <1>9, <2>3
    <3>2. objs[i] \notin Range(elem)
      <4>1. CASE objs[i] \in FreshObjs
        BY <1>3, <4>1, FreshIs DEF Range
      <4>2. CASE \E k \in DOMAIN Of(n) : objs[i] = Of(n)[k] BY <2>1, <2>3, <4>2 DEF Alone
      <4> QED BY <2>2, <3>1, <4>1, <4>2
    <3>3. \A h \in Holders \ {n} : \A j \in DOMAIN Of(h) : Of(h)[j] # objs[i]
      <4>1. CASE objs[i] \in FreshObjs
        BY <4>1, FreshIs
      <4>2. CASE \E k \in DOMAIN Of(n) : objs[i] = Of(n)[k] BY <2>1, <2>3, <4>2 DEF Alone
      <4> QED BY <2>2, <3>1, <4>1, <4>2
    <3>4. \A j \in DOMAIN objs : objs[j] = objs[i] => j = i BY <1>11, <2>3, <3>1
    <3> QED BY <1>9, <2>3, <3>2, <3>3, <3>4
  <2>4. CASE m # n
    <3>1. m \in Holders \ {n} BY <2>4 DEF Holders
    <3>2. items'[list'[m]] = Of(m) /\ i \in DOMAIN Of(m) BY <1>9, <3>1
    <3>3. \A j \in DOMAIN objs : objs[j] # Of(m)[i]
      <4>1. \A o \in FreshObjs : o # Of(m)[i] BY <3>1, <3>2, FreshIs
      <4>2. \A k \in DOMAIN Of(n) : Of(n)[k] # Of(m)[i]
        BY <1>1, <2>1, <2>4, <3>2 DEF Alone
      <4> QED BY <2>2, <4>1, <4>2
    <3> QED BY <1>9, <2>1, <3>1, <3>2, <3>3 DEF Alone
  <2> QED BY <2>3, <2>4
<1> QED BY <1>4, <1>6, <1>10, <1>11

\* A list built anew, from objects of the script, which are then lent, or from
\* new ones.
LEMMA BuildKeeps ==
  ASSUME IInv, NEW n \in Holders, NEW objs \in Seq(Objs),
         NEW ct \in [Objs -> Values], Build(n, objs, ct),
         lent' \subseteq Names, lent \ {n} \subseteq lent',
         class \in Transforms =>
           /\ Range(objs) \subseteq Range(elem) \cup FreshObjs
           /\ n \notin lent' =>
                /\ Range(objs) \subseteq FreshObjs
                /\ \A i, j \in DOMAIN objs : objs[i] = objs[j] => i = j
  PROVE  IInv'
<1> USE DEF IInv
<1>0. PICK c \in FreshLists(n) :
        Settle(elem, ct, [list EXCEPT ![n] = c], [items EXCEPT ![c] = objs])
  BY DEF Build
<1> DEFINE ls == [list EXCEPT ![n] = c]
           it == [items EXCEPT ![c] = objs]
<1>1. Settle(elem, ct, ls, it) BY <1>0
<1>2. /\ elem \in [Vars -> Objs] /\ list \in [Holders -> Lists]
      /\ items \in [Lists -> Seq(Objs)]
  BY DEF Typed
<1>3. c \in Lists /\ \A g \in Holders \ {n} : list[g] # c BY DEF FreshLists
<1>4. ls \in [Holders -> Lists] /\ it \in [Lists -> Seq(Objs)] BY <1>2, <1>3
<1>5. /\ ls[n] = c /\ it[ls[n]] = objs
      /\ \A g \in Holders \ {n} : ls[g] = list[g] /\ it[ls[g]] = Of(g)
  BY <1>2, <1>3 DEF Of
<1> HIDE DEF ls, it
<1>6. /\ Typed' /\ elem' = elem /\ list' = ls /\ class' = class
      /\ \A h \in Holders : items'[list'[h]] = it[ls[h]]
  <2>1. /\ Typed /\ lent' \subseteq Names /\ elem \in [Vars -> Objs]
        /\ ls \in [Holders -> Lists] /\ it \in [Lists -> Seq(Objs)]
    BY <1>2, <1>4
  <2> QED BY ONLY <1>1, <2>1, SettleIs, ct \in [Objs -> Values]
<1>7. items'[list'[n]] = objs /\ \A h \in Holders \ {n} : items'[list'[h]] = Of(h)
  BY <1>5, <1>6
<1>8. Apart'
  <2> SUFFICES ASSUME NEW m \in Names, Mine(m)', NEW h \in Holders, list'[h] = list'[m]
               PROVE  h = m
    BY DEF Apart
  <2>1. m \in Holders BY DEF Holders
  <2>2. CASE m = n \/ h = n BY <1>3, <1>5, <1>6, <2>1, <2>2
  <2>3. CASE m # n /\ h # n
    <3>1. Mine(m) BY <1>6, <2>3 DEF Mine
    <3> QED BY <1>5, <1>6, <2>1, <2>3, <3>1 DEF Apart
  <2> QED BY <2>2, <2>3
<1>9. ASSUME class \in Transforms, NEW m \in Names \ lent' PROVE Alone(m)'
  <2> SUFFICES ASSUME NEW i \in DOMAIN items'[list'[m]]
               PROVE  /\ items'[list'[m]][i] \notin Range(elem)
                      /\ \A h \in Holders : \A j \in DOMAIN items'[list'[h]] :
                           items'[list'[h]][j] = items'[list'[m]][i] => h = m /\ j = i
    BY <1>6 DEF Alone, Of
  <2>1. CASE m = n
    <3>1. i \in DOMAIN objs /\ objs[i] \in FreshObjs BY <1>7, <1>9, <2>1 DEF Range
    <3>2. objs[i] \notin Range(elem) BY <1>2, <3>1, FreshIs DEF Range
    <3>3. \A h \in Holders \ {n} : \A j \in DOMAIN Of(h) : Of(h)[j] # objs[i]
      BY <3>1, FreshIs
    <3>4. \A j \in DOMAIN objs : objs[j] = objs[i] => j = i BY <1>9, <2>1, <3>1
    <3> QED BY <1>7, <2>1, <3>2, <3>3, <3>4
  <2>2. CASE m # n
    <3>1. m \in Holders \ {n} /\ m \in Names \ lent BY <2>2 DEF Holders
    <3>2. Alone(m) BY <1>9, <3>1
    <3>3. items'[list'[m]] = Of(m) /\ i \in DOMAIN Of(m) BY <1>7, <3>1
    <3>4. \A j \in DOMAIN objs : objs[j] # Of(m)[i]
      <4>1. \A o \in FreshObjs : o # Of(m)[i] BY <3>1, <3>3, FreshIs
      <4>2. Of(m)[i] \notin Range(elem) BY <3>2, <3>3 DEF Alone
      <4>3. \A j \in DOMAIN objs : objs[j] \in Range(elem) \cup FreshObjs
        BY <1>9 DEF Range
      <4> QED BY <4>1, <4>2, <4>3
    <3> QED BY <1>7, <3>1, <3>2, <3>3, <3>4 DEF Alone
  <2> QED BY <2>1, <2>2
<1> QED BY <1>6, <1>8, <1>9

\* A list handed on is no longer the script's to change.
LEMMA HandOnKeeps ==
  ASSUME IInv, class \in Kept, NEW m \in Messages, NEW n \in Names,
         KeepList(m, n) \/ ReadList(m, n)
  PROVE  IInv'
<1> USE DEF IInv
<1>1. n \in Holders /\ m \in Holders BY DEF Holders
<1>2. /\ elem \in [Vars -> Objs] /\ list \in [Holders -> Lists]
      /\ items \in [Lists -> Seq(Objs)] /\ content \in [Objs -> Values]
      /\ lent \subseteq Names
  BY DEF Typed
<1>3. PICK ls \in [Holders -> Lists] :
        /\ Settle(elem, content, ls, items)
        /\ ls = [list EXCEPT ![m] = list[n]] \/ ls = [list EXCEPT ![n] = list[m]]
  <2>1. /\ [list EXCEPT ![m] = list[n]] \in [Holders -> Lists]
        /\ [list EXCEPT ![n] = list[m]] \in [Holders -> Lists]
    BY <1>1, <1>2
  <2> QED BY <2>1 DEF KeepList, ReadList
<1>4. lent' = lent \cup {n} BY DEF KeepList, ReadList
<1>5. Typed' /\ list' = ls /\ class' = class BY <1>2, <1>3, <1>4, SettleIs
<1>6. Apart'
  <2> SUFFICES ASSUME NEW p \in Names, Mine(p)', NEW h \in Holders, ls[h] = ls[p]
               PROVE  h = p
    BY <1>5 DEF Apart
  <2>1. p # n /\ p # m /\ Mine(p) BY <1>4, <1>5, NamesAssumption DEF Mine
  <2>2. \A g \in Holders : list[g] = list[p] => g = p BY <2>1 DEF Apart
  <2>3. ls[p] = list[p] BY <1>2, <1>3, <2>1 DEF Holders
  <2>4. ls[h] = list[h] \/ (h \in {m, n} /\ ls[h] \in {list[m], list[n]})
    BY <1>1, <1>2, <1>3
  <2> QED BY <1>1, <2>1, <2>2, <2>3, <2>4
<1>7. class' \notin Transforms BY <1>5 DEF Kept, Transforms
<1> QED BY <1>5, <1>6, <1>7

\* An object for an element variable: for transforms a new one.
LEMMA HoldKeeps ==
  ASSUME IInv, NEW x \in Vars, NEW o \in Objs, NEW ct \in [Objs -> Values],
         Settle([elem EXCEPT ![x] = o], ct, list, items), lent' = lent,
         class \in Transforms => o \in FreshObjs
  PROVE  IInv'
<1> USE DEF IInv
<1>1. /\ elem \in [Vars -> Objs] /\ list \in [Holders -> Lists]
      /\ items \in [Lists -> Seq(Objs)] /\ lent \subseteq Names
  BY DEF Typed
<1> DEFINE el == [elem EXCEPT ![x] = o]
<1>2. el \in [Vars -> Objs] BY <1>1
<1>3. Range(el) \subseteq Range(elem) \cup {o} BY <1>1 DEF Range
<1>0. Settle(el, ct, list, items) OBVIOUS
<1> HIDE DEF el
<1>4. /\ Typed' /\ elem' = el /\ list' = list /\ class' = class
      /\ \A h \in Holders : items'[list'[h]] = Of(h)
  BY <1>0, <1>1, <1>2, SettleIs DEF Of
<1>5. Apart' BY <1>4 DEF Apart, Mine
<1>6. ASSUME class \in Transforms, NEW m \in Names \ lent PROVE Alone(m)'
  <2>1. m \in Holders /\ Alone(m) BY <1>6 DEF Holders
  <2>2. \A i \in DOMAIN Of(m) : Of(m)[i] # o BY <1>6, <2>1, FreshIs
  <2>3. \A i \in DOMAIN Of(m) : Of(m)[i] \notin Range(el)
    BY <1>3, <2>1, <2>2 DEF Alone
  <2> QED BY <1>4, <2>1, <2>3 DEF Alone, Of
<1> QED BY <1>4, <1>5, <1>6

\* The last object of a list moves to a variable.
LEMMA TakeKeeps ==
  ASSUME IInv, NEW n \in Names, Mine(n), NEW x \in Vars, Take(n, x)
  PROVE  IInv'
<1> USE DEF IInv
<1>1. /\ elem \in [Vars -> Objs] /\ list \in [Holders -> Lists]
      /\ items \in [Lists -> Seq(Objs)] /\ lent \subseteq Names
      /\ content \in [Objs -> Values]
  BY DEF Typed
<1>2. n \in Holders BY DEF Holders
<1>3. Of(n) \in Seq(Objs) /\ Of(n) # <<>> BY <1>2, OneList DEF Take
<1> DEFINE el == [elem EXCEPT ![x] = Last(Of(n))]
           it == [items EXCEPT ![list[n]] = Front(Of(n))]
           z == Len(Of(n))
<1>4. /\ Front(Of(n)) \in Seq(Objs) /\ Last(Of(n)) \in Objs
      /\ z \in DOMAIN Of(n) /\ Last(Of(n)) = Of(n)[z]
      /\ \A i \in DOMAIN Front(Of(n)) :
           i \in DOMAIN Of(n) /\ i # z /\ Front(Of(n))[i] = Of(n)[i]
  <2>1. /\ Front(Of(n)) \in Seq(Objs) /\ Last(Of(n)) \in Objs
        /\ z \in DOMAIN Of(n)
        /\ Len(Front(Of(n))) = z - 1
        /\ \A j \in 1 .. z - 1 : Front(Of(n))[j] = Of(n)[j]
    BY <1>3, FrontIs
  <2>2. DOMAIN Front(Of(n)) = 1 .. z - 1 /\ DOMAIN Of(n) = 1 .. z /\ z \in Nat
    BY <1>3, <2>1
  <2>3. Last(Of(n)) = Of(n)[z] BY DEF Last
  <2> QED BY <2>1, <2>2, <2>3
<1>5. el \in [Vars -> Objs] /\ it \in [Lists -> Seq(Objs)] BY <1>1, <1>4
<1>6. Range(el) \subseteq Range(elem) \cup {Of(n)[z]} BY <1>1, <1>4 DEF Range
<1>7. Settle(el, content, list, it) /\ lent' = lent /\ lent' \subseteq Names
  BY <1>1 DEF Take
<1>8. it[list[n]] = Front(Of(n)) /\ \A h \in Holders \ {n} : it[list[h]] = Of(h)
  <2>1. \A h \in Holders \ {n} : list[h] # list[n] BY DEF Apart
  <2> QED BY <1>1, <1>2, <2>1 DEF Of
<1> HIDE DEF el, it, z
<1>9. /\ Typed' /\ elem' = el /\ list' = list /\ class' = class
      /\ \A h \in Holders : items'[list'[h]] = it[list[h]]
  <2>1. Settle(el, content, list, it) /\ lent' \subseteq Names BY <1>7
  <2>2. list \in [Holders -> Lists] /\ content \in [Objs -> Values] BY <1>1
  <2> QED BY ONLY <1>5, <2>1, <2>2, Typed, SettleIs
<1>10. Apart' BY <1>7, <1>9 DEF Apart, Mine
<1>11. ASSUME class \in Transforms, NEW m \in Names \ lent PROVE Alone(m)'
  <2>1. m \in Holders /\ Alone(m) BY <1>11 DEF Holders
  <2>2. \A i \in DOMAIN it[list[m]] :
          i \in DOMAIN Of(m) /\ it[list[m]][i] = Of(m)[i] /\ Of(m)[i] # Of(n)[z]
    <3>1. CASE m = n BY <1>2, <1>4, <1>8, <2>1, <3>1 DEF Alone
    <3>2. CASE m # n BY <1>2, <1>4, <1>8, <2>1, <3>2 DEF Alone
    <3> QED BY <3>1, <3>2
  <2>3. \A h \in Holders : \A j \in DOMAIN it[list[h]] :
          j \in DOMAIN Of(h) /\ it[list[h]][j] = Of(h)[j]
    BY <1>2, <1>4, <1>8
  <2>4. \A i \in DOMAIN it[list[m]] : it[list[m]][i] \notin Range(el)
    BY <1>6, <2>1, <2>2 DEF Alone
  <2> QED BY <1>9, <2>1, <2>2, <2>3, <2>4 DEF Alone, Of
<1> QED BY <1>7, <1>9, <1>10, <1>11

-----------------------------------------------------------------------------
(* So does every operation.                                                *)

\* The objects of a list that is not lent are different.
LEMMA OnceEach ==
  ASSUME IInv, class \in Transforms, NEW n \in Names, n \notin lent
  PROVE  \A i, j \in DOMAIN Of(n) : Of(n)[i] = Of(n)[j] => i = j
BY DEF IInv, Alone, Holders

LEMMA InsertRefKeeps ==
  ASSUME IInv, class \notin Transforms, NEW n \in Names, Mine(n), NEW x \in Vars,
         NEW i \in 1 .. Len(Of(n)) + 1, InsertRef(n, i, x)
  PROVE  IInv'
<1>1. Of(n) \in Seq(Objs) BY OneList DEF IInv, Holders
<1>2. elem[x] \in Objs /\ content \in [Objs -> Values] BY DEF IInv, Typed
<1>3. InsertAt(Of(n), i, elem[x]) \in Seq(Objs) BY <1>1, <1>2, InsertAtIs
<1> QED BY <1>2, <1>3, RefillKeeps DEF InsertRef

LEMMA InsertCopyKeeps ==
  ASSUME IInv, NEW n \in Names, Mine(n), NEW x \in Vars,
         NEW i \in 1 .. Len(Of(n)) + 1, InsertCopy(n, i, x)
  PROVE  IInv'
<1>1. Of(n) \in Seq(Objs) /\ n \in Holders BY OneList DEF IInv, Holders
<1>2. elem[x] \in Objs /\ content \in [Objs -> Values] BY DEF IInv, Typed
<1>3. PICK o \in FreshObjs :
        Refill(n, InsertAt(Of(n), i, o), [content EXCEPT ![o] = content[elem[x]]])
  BY DEF InsertCopy
<1>4. o \in Objs /\ \A j \in DOMAIN Of(n) : Of(n)[j] # o BY <1>1, FreshIs
<1> DEFINE objs == InsertAt(Of(n), i, o)
<1>5. [content EXCEPT ![o] = content[elem[x]]] \in [Objs -> Values] BY <1>2, <1>4
<1>6. /\ objs \in Seq(Objs) /\ Len(objs) = Len(Of(n)) + 1
      /\ \A j \in 1 .. Len(Of(n)) + 1 :
           objs[j] = IF j < i THEN Of(n)[j] ELSE IF j = i THEN o ELSE Of(n)[j - 1]
  BY <1>1, <1>4, InsertAtIs DEF Inserted
<1> HIDE DEF objs
<1>7. DOMAIN objs = 1 .. Len(Of(n)) + 1 /\ DOMAIN Of(n) = 1 .. Len(Of(n))
  BY <1>1, <1>6
<1>8. \A j \in DOMAIN objs :
        \/ j < i /\ j \in DOMAIN Of(n) /\ objs[j] = Of(n)[j]
        \/ j = i /\ objs[j] = o
        \/ j > i /\ j - 1 \in DOMAIN Of(n) /\ objs[j] = Of(n)[j - 1]
  BY <1>1, <1>6, <1>7
<1>9. Range(objs) \subseteq Range(Of(n)) \cup FreshObjs BY <1>8 DEF Range
<1>10. ASSUME class \in Transforms, n \notin lent
       PROVE  \A j, k \in DOMAIN objs : objs[j] = objs[k] => j = k
  <2>1. \A j, k \in DOMAIN Of(n) : Of(n)[j] = Of(n)[k] => j = k BY <1>10, OnceEach
  <2>2. \A j \in DOMAIN objs : j \in Int BY <1>7
  <2> QED BY <1>4, <1>8, <2>1, <2>2
<1> QED BY <1>3, <1>5, <1>6, <1>9, <1>10, RefillKeeps DEF objs

LEMMA ReplaceRefKeeps ==
  ASSUME IInv, class \notin Transforms, NEW n \in Names, Mine(n), NEW x \in Vars,
         NEW i \in 1 .. Len(Of(n)), ReplaceRef(n, i, x)
  PROVE  IInv'
<1>1. Of(n) \in Seq(Objs) BY OneList DEF IInv, Holders
<1>2. elem[x] \in Objs /\ content \in [Objs -> Values] BY DEF IInv, Typed
<1>3. ReplaceAt(Of(n), i, elem[x]) \in Seq(Objs) BY <1>1, <1>2 DEF ReplaceAt
<1> QED BY <1>2, <1>3, RefillKeeps DEF ReplaceRef

LEMMA OverwriteKeeps ==
  ASSUME IInv, NEW n \in Names, Mine(n), NEW x \in Vars,
         NEW i \in 1 .. Len(Of(n)), Overwrite(n, i, x)
  PROVE  IInv'
<1>1. Of(n) \in Seq(Objs) BY OneList DEF IInv, Holders
<1>2. elem[x] \in Objs /\ content \in [Objs -> Values] BY DEF IInv, Typed
<1>3. [content EXCEPT ![Of(n)[i]] = content[elem[x]]] \in [Objs -> Values] BY <1>2
<1>4. class \in Transforms /\ n \notin lent =>
        \A j, k \in DOMAIN Of(n) : Of(n)[j] = Of(n)[k] => j = k
  BY OnceEach
<1> QED BY <1>1, <1>3, <1>4, RefillKeeps DEF Overwrite

LEMMA RemoveFromKeeps ==
  ASSUME IInv, NEW n \in Names, Mine(n), NEW i \in 1 .. Len(Of(n)), RemoveFrom(n, i)
  PROVE  IInv'
<1>1. Of(n) \in Seq(Objs) BY OneList DEF IInv, Holders
<1>2. content \in [Objs -> Values] BY DEF IInv, Typed
<1> DEFINE objs == RemoveAt(Of(n), i)
<1>3. /\ objs \in Seq(Objs) /\ Len(objs) = Len(Of(n)) - 1
      /\ \A j \in 1 .. Len(Of(n)) - 1 :
           objs[j] = IF j < i THEN Of(n)[j] ELSE Of(n)[j + 1]
  BY <1>1, RemoveAtIs
<1> HIDE DEF objs
<1>4. DOMAIN objs = 1 .. Len(Of(n)) - 1 /\ DOMAIN Of(n) = 1 .. Len(Of(n))
  BY <1>1, <1>3
<1>5. \A j \in DOMAIN objs :
        \/ j < i /\ j \in DOMAIN Of(n) /\ objs[j] = Of(n)[j]
        \/ j >= i /\ j + 1 \in DOMAIN Of(n) /\ objs[j] = Of(n)[j + 1]
  BY <1>1, <1>3, <1>4
<1>6. Range(objs) \subseteq Range(Of(n)) BY <1>5 DEF Range
<1>7. ASSUME class \in Transforms, n \notin lent
      PROVE  \A j, k \in DOMAIN objs : objs[j] = objs[k] => j = k
  <2>1. \A j, k \in DOMAIN Of(n) : Of(n)[j] = Of(n)[k] => j = k BY <1>7, OnceEach
  <2>2. \A j \in DOMAIN objs : j \in Int BY <1>4
  <2> QED BY <1>5, <2>1, <2>2
<1> QED BY <1>2, <1>3, <1>6, <1>7, RefillKeeps DEF RemoveFrom, objs

LEMMA RemoveAllKeeps ==
  ASSUME IInv, NEW n \in Names, Mine(n), RemoveAll(n)
  PROVE  IInv'
<1>1. content \in [Objs -> Values] BY DEF IInv, Typed
<1>2. <<>> \in Seq(Objs) /\ DOMAIN <<>> = {} OBVIOUS
<1> QED BY <1>1, <1>2, RefillKeeps DEF RemoveAll, Range

LEMMA VarKeeps ==
  ASSUME IInv, NEW x \in Vars
  PROVE  /\ \A o \in Objs : class \notin Transforms /\ Hold(x, o) => IInv'
         /\ \A o \in Objs : HoldCopy(x, o) => IInv'
         /\ \A v \in Values : NewElement(x, v) => IInv'
<1>1. content \in [Objs -> Values] BY DEF IInv, Typed
<1>2. \A c \in FreshObjs : c \in Objs BY FreshIs
<1>3. \A c \in Objs : \A v \in Values : [content EXCEPT ![c] = v] \in [Objs -> Values]
  BY <1>1
<1>4. ASSUME NEW o \in Objs, class \notin Transforms, Hold(x, o) PROVE IInv'
  BY <1>1, <1>4, HoldKeeps DEF Hold
<1>5. ASSUME NEW o \in Objs, HoldCopy(x, o) PROVE IInv'
  <2>1. content[o] \in Values BY <1>1
  <2> QED BY <1>2, <1>3, <1>5, <2>1, HoldKeeps DEF HoldCopy
<1>6. ASSUME NEW v \in Values, NewElement(x, v) PROVE IInv'
  BY <1>2, <1>3, <1>6, HoldKeeps DEF NewElement
<1> QED BY <1>4, <1>5, <1>6

\* New, and the transforms' New, which lend what they are given.
LEMMA NewKeeps ==
  ASSUME IInv, NEW n \in Names, NEW xs \in Arrays, New(n, xs),
         \/ class \notin Transforms /\ lent' = lent \ {n}
         \/ TransformsLent(n, xs)
  PROVE  IInv'
<1>1. content \in [Objs -> Values] /\ elem \in [Vars -> Objs] /\ lent \subseteq Names
  BY DEF IInv, Typed
<1>2. PICK k \in 0 .. 2 : xs \in [1 .. k -> Vars] BY DEF Arrays
<1> DEFINE objs == [i \in DOMAIN xs |-> elem[xs[i]]]
<1>3. objs \in [1 .. k -> Objs] BY <1>1, <1>2
<1>4. objs \in Seq(Objs) BY <1>2, <1>3
<1>5. Range(objs) \subseteq Range(elem) BY <1>1, <1>2 DEF Range
<1>6. xs = <<>> => DOMAIN objs = {} /\ Range(objs) = {} BY DEF Range
<1>7. lent' \subseteq Names /\ lent \ {n} \subseteq lent' BY <1>1 DEF TransformsLent
<1>8. class \in Transforms /\ n \notin lent' => xs = <<>> BY DEF TransformsLent
<1>9. Build(n, objs, content) BY DEF New
<1> HIDE DEF objs
<1>10. n \in Holders BY DEF Holders
<1> QED BY <1>1, <1>4, <1>5, <1>6, <1>7, <1>8, <1>9, <1>10, BuildKeeps

\* A copy of a list, each object once.
LEMMA FromJSONKeeps ==
  ASSUME IInv, NEW n \in Holders, NEW h \in Holders, FromJSON(n, h)
  PROVE  IInv'
<1>1. content \in [Objs -> Values] /\ lent \subseteq Names
  BY DEF IInv, Typed
<1>2. Of(h) \in Seq(Objs) /\ Len(Of(h)) \in Nat BY OneList DEF IInv
<1> DEFINE ct(copy) == [o \in Objs |->
                         IF \E i \in DOMAIN copy : copy[i] = o
                         THEN content[Of(h)[CHOOSE i \in DOMAIN copy : copy[i] = o]]
                         ELSE content[o]]
<1>3. PICK copy \in Copies(Len(Of(h))) : Build(n, copy, ct(copy)) BY DEF FromJSON
<1>4. /\ copy \in [1 .. Len(Of(h)) -> FreshObjs]
      /\ \A i, j \in 1 .. Len(Of(h)) : copy[i] = copy[j] => i = j
  BY DEF Copies
<1>5. DOMAIN copy = 1 .. Len(Of(h)) /\ Range(copy) \subseteq FreshObjs
  BY <1>4 DEF Range
<1>6. copy \in Seq(Objs)
  <2>1. copy \in [1 .. Len(Of(h)) -> Objs] BY <1>4, FreshIs
  <2> QED BY <1>2, <2>1
<1>7. ct(copy) \in [Objs -> Values]
  <2>1. ASSUME NEW o \in Objs, NEW i \in DOMAIN copy, copy[i] = o
        PROVE  content[Of(h)[CHOOSE j \in DOMAIN copy : copy[j] = o]] \in Values
    <3>1. (CHOOSE j \in DOMAIN copy : copy[j] = o) \in DOMAIN Of(h) BY <1>2, <1>5, <2>1
    <3>2. \A j \in DOMAIN Of(h) : Of(h)[j] \in Objs BY <1>2
    <3> QED BY <1>1, <3>1, <3>2
  <2>2. \A o \in Objs : content[o] \in Values BY <1>1
  <2> QED BY <2>1, <2>2
<1> HIDE DEF ct
<1>8. lent' = lent \ {n} BY DEF FromJSON
<1> QED BY <1>1, <1>3, <1>4, <1>5, <1>6, <1>7, <1>8, BuildKeeps

-----------------------------------------------------------------------------
(* And every step of each class.                                           *)

LEMMA Element ==
  ASSUME IInv, NEW h \in Holders, NEW i \in DOMAIN Of(h)
  PROVE  Of(h)[i] \in Objs
BY OneList DEF IInv

LEMMA Ends ==
  ASSUME IInv, NEW n \in Names
  PROVE  /\ n \in Holders /\ DOMAIN Of(n) = 1 .. Len(Of(n))
         /\ Len(Of(n)) + 1 \in 1 .. Len(Of(n)) + 1
<1>1. n \in Holders BY DEF Holders
<1>2. Of(n) \in Seq(Objs) BY <1>1, OneList DEF IInv
<1> QED BY <1>1, <1>2

LEMMA PortsKeep ==
  ASSUME IInv, NEW n \in Names, PortsStep(n)
  PROVE  IInv'
<1>1. class = "Ports" /\ class \in Kept /\ class \notin Transforms
  BY DEF PortsStep, Kept, Transforms
<1>2. Own(n) => Mine(n) BY DEF Own, Mine
<1>3. Names \subseteq Holders /\ Messages \subseteq Holders BY DEF Holders
<1>4. ASSUME NEW xs \in Arrays, PortsNew(n, xs) PROVE IInv'
  BY <1>1, <1>4, NewKeeps DEF PortsNew
<1>5. ASSUME NEW h \in Holders, PortsFromJSON(n, h) PROVE IInv'
  BY <1>3, <1>5, FromJSONKeeps DEF PortsFromJSON
<1>6. ASSUME NEW x \in Vars, PortsPushBack(n, x) PROVE IInv'
  BY <1>1, <1>2, <1>6, Ends, InsertRefKeeps DEF PortsPushBack
<1>7. ASSUME NEW x \in Vars, NEW i \in 1 .. Len(Of(n)) + 1, PortsInsert(n, i, x) PROVE IInv'
  BY <1>1, <1>2, <1>7, InsertRefKeeps DEF PortsInsert
<1>8. ASSUME NEW x \in Vars, NEW i \in 1 .. Len(Of(n)), PortsGetIndex(n, i, x) PROVE IInv'
  BY <1>1, <1>8, Ends, Element, VarKeeps DEF PortsGetIndex
<1>9. ASSUME NEW x \in Vars, NEW v \in Values, PortsFindQueryMatch(n, v, x) PROVE IInv'
  BY <1>1, <1>9, Ends, Element, VarKeeps DEF PortsFindQueryMatch
<1>10. ASSUME NEW i \in 1 .. Len(Of(n)), PortsErase(n, i) PROVE IInv'
  BY <1>2, <1>10, RemoveFromKeeps DEF PortsErase
<1>11. ASSUME PortsClear(n) PROVE IInv'
  BY <1>2, <1>11, RemoveAllKeeps DEF PortsClear
<1>12. ASSUME NEW m \in Messages, SettingRequestNew(m, n) \/ SettingRequestGetters(m, n)
       PROVE  IInv'
  BY <1>1, <1>12, HandOnKeeps DEF SettingRequestNew, SettingRequestGetters
<1>13. ASSUME NEW m \in Messages, NEW h \in Holders, SettingRequestFromJSON(m, h)
       PROVE  IInv'
  BY <1>3, <1>13, FromJSONKeeps DEF SettingRequestFromJSON, ReceiveList
<1> QED
  BY <1>4, <1>5, <1>6, <1>7, <1>8, <1>9, <1>10, <1>11, <1>12, <1>13 DEF PortsStep

LEMMA ConnectionsKeep ==
  ASSUME IInv, NEW n \in Names, ConnectionsStep(n)
  PROVE  IInv'
<1>1. class = "Connections" /\ class \in Kept /\ class \notin Transforms
  BY DEF ConnectionsStep, Kept, Transforms
<1>2. Own(n) => Mine(n) BY DEF Own, Mine
<1>3. Names \subseteq Holders /\ Messages \subseteq Holders BY DEF Holders
<1>4. ASSUME NEW xs \in Arrays, ConnectionsNew(n, xs) PROVE IInv'
  BY <1>1, <1>4, NewKeeps DEF ConnectionsNew
<1>5. ASSUME NEW h \in Holders, ConnectionsFromJSON(n, h) PROVE IInv'
  BY <1>3, <1>5, FromJSONKeeps DEF ConnectionsFromJSON
<1>6. ASSUME NEW x \in Vars, ConnectionsPushBack(n, x) PROVE IInv'
  BY <1>1, <1>2, <1>6, Ends, InsertRefKeeps DEF ConnectionsPushBack
<1>7. ASSUME NEW x \in Vars, NEW i \in 1 .. Len(Of(n)) + 1, ConnectionsInsert(n, i, x)
      PROVE  IInv'
  BY <1>1, <1>2, <1>7, InsertRefKeeps DEF ConnectionsInsert
<1>8. ASSUME NEW x \in Vars, NEW i \in 1 .. Len(Of(n)), ConnectionsGetIndex(n, i, x)
      PROVE  IInv'
  BY <1>1, <1>8, Ends, Element, VarKeeps DEF ConnectionsGetIndex
<1>9. ASSUME NEW i \in 1 .. Len(Of(n)), ConnectionsErase(n, i) PROVE IInv'
  BY <1>2, <1>9, RemoveFromKeeps DEF ConnectionsErase
<1>10. ASSUME ConnectionsClear(n) PROVE IInv'
  BY <1>2, <1>10, RemoveAllKeeps DEF ConnectionsClear
<1>11. content \in [Objs -> Values] /\ lent \subseteq Names BY DEF IInv, Typed
<1>12. ASSUME NEW g \in Holders, NEW h \in Holders, ConnectionsIntersection(n, g, h)
       PROVE  IInv'
  <2> DEFINE I == {i \in DOMAIN Of(g) :
                     content[Of(g)[i]] \in {content[p] : p \in Range(Of(h))}}
  <2>1. PICK f \in InOrder(I, Len(Of(g))) : Build(n, [i \in DOMAIN f |-> Of(g)[f[i]]], content)
    BY <1>12 DEF ConnectionsIntersection
  <2>2. Of(g) \in Seq(Objs) /\ Len(Of(g)) \in Nat BY OneList DEF IInv
  <2>3. I \in SUBSET DOMAIN Of(g) OBVIOUS
  <2> HIDE DEF I
  <2>4. [i \in DOMAIN f |-> Of(g)[f[i]]] \in Seq(Objs) BY <2>2, <2>3, Picked
  <2>5. lent' = lent \ {n} BY <1>12 DEF ConnectionsIntersection
  <2> QED BY <1>1, <1>3, <1>11, <2>1, <2>4, <2>5, BuildKeeps
<1>13. ASSUME NEW m \in Messages, GroupGates(m, n) PROVE IInv'
  BY <1>1, <1>13, HandOnKeeps DEF GroupGates
<1>14. ASSUME NEW m \in Messages, GroupOrder(m, n) PROVE IInv'
  <2>1. Of(m) \in Seq(Objs) BY <1>3, OneList DEF IInv
  <2> QED BY <1>1, <1>3, <1>11, <1>14, <2>1, BuildKeeps DEF GroupOrder
<1>15. ASSUME NEW m \in Messages, NEW h \in Holders, GroupFromJSON(m, h) PROVE IInv'
  BY <1>3, <1>15, FromJSONKeeps DEF GroupFromJSON, ReceiveList
<1> QED
  BY <1>4, <1>5, <1>6, <1>7, <1>8, <1>9, <1>10, <1>12, <1>13, <1>14, <1>15
  DEF ConnectionsStep

LEMMA ChannelsKeep ==
  ASSUME IInv, NEW n \in Names, ChannelsStep(n)
  PROVE  IInv'
<1>1. class = "Channels" /\ class \notin Kept /\ class \notin Transforms
  BY DEF ChannelsStep, Kept, Transforms
<1>2. Mine(n) BY <1>1 DEF Mine
<1>3. Names \subseteq Holders BY DEF Holders
<1>4. ASSUME NEW xs \in Arrays, ChannelsNew(n, xs) PROVE IInv'
  BY <1>1, <1>4, NewKeeps DEF ChannelsNew
<1>5. ASSUME NEW h \in Names, ChannelsFromJSON(n, h) PROVE IInv'
  BY <1>3, <1>5, FromJSONKeeps DEF ChannelsFromJSON
<1>6. ASSUME NEW x \in Vars, ChannelsPushBack(n, x) PROVE IInv'
  BY <1>1, <1>2, <1>6, Ends, InsertRefKeeps DEF ChannelsPushBack
<1>7. ASSUME NEW x \in Vars, NEW i \in 1 .. Len(Of(n)) + 1, ChannelsInsert(n, i, x)
      PROVE  IInv'
  BY <1>1, <1>2, <1>7, InsertRefKeeps DEF ChannelsInsert
<1>8. ASSUME NEW x \in Vars, NEW i \in 1 .. Len(Of(n)), ChannelsGetIndex(n, i, x)
      PROVE  IInv'
  BY <1>1, <1>8, Ends, Element, VarKeeps DEF ChannelsGetIndex
<1>9. ASSUME NEW x \in Vars, NEW i \in 1 .. Len(Of(n)), ChannelsSetIndex(n, i, x)
      PROVE  IInv'
  BY <1>1, <1>2, <1>9, ReplaceRefKeeps DEF ChannelsSetIndex
<1>10. ASSUME NEW x \in Vars, ChannelsPopBack(n, x) PROVE IInv'
  BY <1>2, <1>10, TakeKeeps DEF ChannelsPopBack
<1>11. ASSUME NEW i \in 1 .. Len(Of(n)), ChannelsErase(n, i) PROVE IInv'
  BY <1>2, <1>11, RemoveFromKeeps DEF ChannelsErase
<1>12. ASSUME ChannelsClear(n) PROVE IInv'
  BY <1>2, <1>12, RemoveAllKeeps DEF ChannelsClear
<1> QED
  BY <1>4, <1>5, <1>6, <1>7, <1>8, <1>9, <1>10, <1>11, <1>12 DEF ChannelsStep

LEMMA PortTransformsKeep ==
  ASSUME IInv, NEW n \in Names, PortTransformsStep(n)
  PROVE  IInv'
<1>1. class = "PortTransforms" /\ class \notin Kept
  BY DEF PortTransformsStep, Kept
<1>2. Mine(n) BY <1>1 DEF Mine
<1>3. Names \subseteq Holders BY DEF Holders
<1>4. ASSUME NEW xs \in Arrays, PortTransformsNew(n, xs) PROVE IInv'
  BY <1>4, NewKeeps DEF PortTransformsNew
<1>5. ASSUME NEW h \in Names, PortTransformsFromJSON(n, h) PROVE IInv'
  BY <1>3, <1>5, FromJSONKeeps DEF PortTransformsFromJSON
<1>6. ASSUME NEW x \in Vars, PortTransformsPushBack(n, x) PROVE IInv'
  BY <1>2, <1>6, Ends, InsertCopyKeeps DEF PortTransformsPushBack
<1>7. ASSUME NEW x \in Vars, NEW i \in 1 .. Len(Of(n)) + 1, PortTransformsInsert(n, i, x)
      PROVE  IInv'
  BY <1>2, <1>7, InsertCopyKeeps DEF PortTransformsInsert
<1>8. ASSUME NEW x \in Vars, NEW i \in 1 .. Len(Of(n)), PortTransformsGetIndex(n, i, x)
      PROVE  IInv'
  BY <1>8, Ends, Element, VarKeeps DEF PortTransformsGetIndex
<1>9. ASSUME NEW x \in Vars, NEW i \in 1 .. Len(Of(n)), PortTransformsSetIndex(n, i, x)
      PROVE  IInv'
  BY <1>2, <1>9, OverwriteKeeps DEF PortTransformsSetIndex
<1>10. ASSUME NEW i \in 1 .. Len(Of(n)), PortTransformsErase(n, i) PROVE IInv'
  BY <1>2, <1>10, RemoveFromKeeps DEF PortTransformsErase
<1>11. ASSUME PortTransformsClear(n) PROVE IInv'
  BY <1>2, <1>11, RemoveAllKeeps DEF PortTransformsClear
<1> QED
  BY <1>4, <1>5, <1>6, <1>7, <1>8, <1>9, <1>10, <1>11 DEF PortTransformsStep

LEMMA WaveformKeeps ==
  ASSUME IInv, NEW n \in Names, WaveformStep(n)
  PROVE  IInv'
<1>1. class = "Waveform" /\ class \notin Kept
  BY DEF WaveformStep, Kept
<1>2. Mine(n) BY <1>1 DEF Mine
<1>3. Names \subseteq Holders BY DEF Holders
<1>4. ASSUME NEW xs \in Arrays,
             WaveformNew(n, xs) \/ WaveformNewCartesian(n, xs) \/ WaveformNewCartesian1D(n, xs)
      PROVE  IInv'
  BY <1>4, NewKeeps DEF WaveformNew, WaveformNewCartesian, WaveformNewCartesian1D
<1>5. ASSUME NEW v \in Values, WaveformNewIdentity(n, v) PROVE IInv'
  <2>1. PICK o \in FreshObjs : Build(n, <<o>>, [content EXCEPT ![o] = v])
    BY <1>5 DEF WaveformNewIdentity
  <2>2. content \in [Objs -> Values] /\ lent \subseteq Names BY DEF IInv, Typed
  <2>3. o \in Objs BY FreshIs
  <2>4. [content EXCEPT ![o] = v] \in [Objs -> Values] BY <2>2, <2>3
  <2> DEFINE s == <<o>>
  <2>5. /\ s \in Seq(Objs) /\ Range(s) \subseteq FreshObjs
        /\ \A i, j \in DOMAIN s : s[i] = s[j] => i = j
    BY <2>3 DEF Range
  <2>6. lent' = lent \ {n} BY <1>5 DEF WaveformNewIdentity
  <2>7. Build(n, s, [content EXCEPT ![o] = v]) BY <2>1
  <2> HIDE DEF s
  <2> QED BY <1>3, <2>2, <2>4, <2>5, <2>6, <2>7, BuildKeeps
<1>6. ASSUME NEW h \in Names, WaveformFromJSON(n, h) PROVE IInv'
  BY <1>3, <1>6, FromJSONKeeps DEF WaveformFromJSON
<1>7. ASSUME NEW x \in Vars, WaveformPushBack(n, x) PROVE IInv'
  BY <1>2, <1>7, Ends, InsertCopyKeeps DEF WaveformPushBack
<1>8. ASSUME NEW x \in Vars, WaveformPopBack(n, x) PROVE IInv'
  BY <1>2, <1>8, TakeKeeps DEF WaveformPopBack
<1>9. ASSUME NEW x \in Vars, NEW i \in 1 .. Len(Of(n)) + 1, WaveformInsert(n, i, x)
      PROVE  IInv'
  BY <1>2, <1>9, InsertCopyKeeps DEF WaveformInsert
<1>10. ASSUME NEW x \in Vars, NEW i \in 1 .. Len(Of(n)), WaveformGetIndex(n, i, x)
       PROVE  IInv'
  BY <1>10, Ends, Element, VarKeeps DEF WaveformGetIndex
<1>11. ASSUME NEW x \in Vars, NEW i \in 1 .. Len(Of(n)), WaveformSetIndex(n, i, x)
       PROVE  IInv'
  BY <1>2, <1>11, OverwriteKeeps DEF WaveformSetIndex
<1>12. ASSUME NEW i \in 1 .. Len(Of(n)), WaveformErase(n, i) PROVE IInv'
  BY <1>2, <1>12, RemoveFromKeeps DEF WaveformErase
<1>13. ASSUME WaveformClear(n) PROVE IInv'
  BY <1>2, <1>13, RemoveAllKeeps DEF WaveformClear
<1> QED
  BY <1>4, <1>5, <1>6, <1>7, <1>8, <1>9, <1>10, <1>11, <1>12, <1>13 DEF WaveformStep

LEMMA DeviceVoltageStatesKeep ==
  ASSUME IInv, NEW n \in Names, DeviceVoltageStatesStep(n)
  PROVE  IInv'
<1>1. class = "DeviceVoltageStates" /\ class \in Kept /\ class \notin Transforms
  BY DEF DeviceVoltageStatesStep, Kept, Transforms
<1>2. Own(n) => Mine(n) BY DEF Own, Mine
<1>3. Names \subseteq Holders /\ Messages \subseteq Holders BY DEF Holders
<1>4. ASSUME NEW xs \in Arrays, DeviceVoltageStatesNew(n, xs) PROVE IInv'
  BY <1>1, <1>4, NewKeeps DEF DeviceVoltageStatesNew
<1>5. ASSUME NEW h \in Holders, DeviceVoltageStatesFromJSON(n, h) PROVE IInv'
  BY <1>3, <1>5, FromJSONKeeps DEF DeviceVoltageStatesFromJSON
<1>6. ASSUME NEW x \in Vars, DeviceVoltageStatesAddState(n, x) PROVE IInv'
  BY <1>1, <1>2, <1>6, Ends, InsertRefKeeps DEF DeviceVoltageStatesAddState
<1>7. ASSUME NEW x \in Vars, NEW i \in 1 .. Len(Of(n)) + 1,
             DeviceVoltageStatesInsert(n, i, x)
      PROVE  IInv'
  BY <1>1, <1>2, <1>7, InsertRefKeeps DEF DeviceVoltageStatesInsert
<1>8. ASSUME NEW x \in Vars, NEW v \in Values, DeviceVoltageStatesFindState(n, v, x)
      PROVE  IInv'
  BY <1>8, Ends, Element, VarKeeps DEF DeviceVoltageStatesFindState
<1>9. ASSUME DeviceVoltageStatesClear(n) PROVE IInv'
  BY <1>2, <1>9, RemoveAllKeeps DEF DeviceVoltageStatesClear
<1>10. ASSUME NEW m \in Messages,
              VoltageStatesResponseNew(m, n) \/ VoltageStatesResponseStates(m, n)
       PROVE  IInv'
  BY <1>1, <1>10, HandOnKeeps DEF VoltageStatesResponseNew, VoltageStatesResponseStates
<1>11. ASSUME NEW m \in Messages, NEW h \in Holders, VoltageStatesResponseFromJSON(m, h)
       PROVE  IInv'
  BY <1>3, <1>11, FromJSONKeeps DEF VoltageStatesResponseFromJSON, ReceiveList
<1> QED
  BY <1>4, <1>5, <1>6, <1>7, <1>8, <1>9, <1>10, <1>11 DEF DeviceVoltageStatesStep

LEMMA CoupledLabelledDomainKeeps ==
  ASSUME IInv, NEW n \in Names, CoupledLabelledDomainStep(n)
  PROVE  IInv'
<1>1. class = "CoupledLabelledDomain" /\ class \notin Kept /\ class \notin Transforms
  BY DEF CoupledLabelledDomainStep, Kept, Transforms
<1>2. Mine(n) BY <1>1 DEF Mine
<1>3. Names \subseteq Holders BY DEF Holders
<1>4. ASSUME NEW xs \in Arrays, CoupledLabelledDomainNew(n, xs) PROVE IInv'
  BY <1>1, <1>4, NewKeeps DEF CoupledLabelledDomainNew
<1>5. ASSUME NEW h \in Names, CoupledLabelledDomainFromJSON(n, h) PROVE IInv'
  BY <1>3, <1>5, FromJSONKeeps DEF CoupledLabelledDomainFromJSON
<1>6. ASSUME NEW x \in Vars, CoupledLabelledDomainPushBack(n, x) PROVE IInv'
  BY <1>1, <1>2, <1>6, Ends, InsertRefKeeps DEF CoupledLabelledDomainPushBack
<1>7. ASSUME NEW x \in Vars, NEW v \in Values, CoupledLabelledDomainGetDomain(n, v, x)
      PROVE  IInv'
  BY <1>1, <1>7, Ends, Element, VarKeeps DEF CoupledLabelledDomainGetDomain
<1>8. ASSUME NEW x \in Vars, NEW i \in 1 .. Len(Of(n)) + 1,
             CoupledLabelledDomainInsert(n, i, x)
      PROVE  IInv'
  BY <1>1, <1>2, <1>8, InsertRefKeeps DEF CoupledLabelledDomainInsert
<1>9. ASSUME NEW x \in Vars, NEW i \in 1 .. Len(Of(n)),
             CoupledLabelledDomainGetIndex(n, i, x)
      PROVE  IInv'
  BY <1>1, <1>9, Ends, Element, VarKeeps DEF CoupledLabelledDomainGetIndex
<1>10. ASSUME NEW i \in 1 .. Len(Of(n)), CoupledLabelledDomainErase(n, i) PROVE IInv'
  BY <1>2, <1>10, RemoveFromKeeps DEF CoupledLabelledDomainErase
<1>11. ASSUME CoupledLabelledDomainClear(n) PROVE IInv'
  BY <1>2, <1>11, RemoveAllKeeps DEF CoupledLabelledDomainClear
<1> QED
  BY <1>4, <1>5, <1>6, <1>7, <1>8, <1>9, <1>10, <1>11 DEF CoupledLabelledDomainStep

LEMMA Inductive == Spec => []IInv
<1>1. IInv /\ [Next]_vars => IInv'
  <2> SUFFICES ASSUME IInv, [Next]_vars PROVE IInv' OBVIOUS
  <2>1. ASSUME NEW x \in Vars, NEW v \in Values, NewElement(x, v) PROVE IInv'
    BY <2>1, VarKeeps
  <2>2. ASSUME NEW n \in Names,
               \/ PortsStep(n) \/ ConnectionsStep(n) \/ ChannelsStep(n)
               \/ PortTransformsStep(n) \/ WaveformStep(n)
               \/ DeviceVoltageStatesStep(n) \/ CoupledLabelledDomainStep(n)
        PROVE  IInv'
    BY <2>2, PortsKeep, ConnectionsKeep, ChannelsKeep, PortTransformsKeep, WaveformKeeps,
       DeviceVoltageStatesKeep, CoupledLabelledDomainKeeps
  <2>3. CASE UNCHANGED vars
    BY <2>3 DEF vars, IInv, Typed, Apart, Mine, Alone, Of
  <2> QED BY <2>1, <2>2, <2>3 DEF Next
<1> QED BY <1>1, Initially, PTL DEF Spec

\* No list grows beyond the bound, and every element is an object.
THEOREM ListsTyped == Spec => []TypeOK
<1>1. IInv => TypeOK
  <2> SUFFICES ASSUME IInv PROVE TypeOK OBVIOUS
  <2>1. ASSUME NEW c \in Lists
        PROVE  items[c] \in UNION {[1 .. k -> Objs] : k \in 0 .. MaxLen}
    <3>1. items[c] \in Seq(Objs) /\ Len(items[c]) <= MaxLen BY DEF IInv, Typed
    <3>2. Len(items[c]) \in 0 .. MaxLen /\ items[c] \in [1 .. Len(items[c]) -> Objs]
      BY <3>1, MaxLenAssumption
    <3> QED BY <3>2
  <2> QED BY <2>1 DEF IInv, Typed, TypeOK
<1> QED BY <1>1, Inductive, PTL

\* A transform that SetIndex may write into is in one place only, whatever
\* copies, insertions and moves came before.
THEOREM TransformsWrittenInOnePlace == Spec => []WrittenInOnePlace
<1>1. IInv => WrittenInOnePlace BY DEF IInv, Transforms, Alone, WrittenInOnePlace
<1> QED BY <1>1, Inductive, PTL

-----------------------------------------------------------------------------
(* The wrappers implement lists of values.                                 *)

\* What a script sees.
VarNow == [x \in Vars |-> content[elem[x]]]
ValueNow == [h \in Holders |-> [i \in DOMAIN Of(h) |-> content[Of(h)[i]]]]

LEMMA AnEdit ==
  ASSUME NEW h \in Holders, NEW s, s \in Abstract!Edits(ValueNow[h]) \cup Abstract!Built(2),
         ValueNow' = [ValueNow EXCEPT ![h] = s], VarNow' = VarNow
  PROVE  Abstract!Next
BY DEF Abstract!Next, Abstract!Edit, VarNow, ValueNow

\* ValueLists takes the operators on sequences from the same module.
LEMMA SameOperators ==
  ASSUME NEW s, NEW i, NEW e
  PROVE  /\ Abstract!InsertAt(s, i, e) = InsertAt(s, i, e)
         /\ Abstract!ReplaceAt(s, i, e) = ReplaceAt(s, i, e)
         /\ Abstract!RemoveAt(s, i) = RemoveAt(s, i)
         /\ Abstract!Front(s) = Front(s) /\ Abstract!Last(s) = Last(s)
         /\ Abstract!Range(s) = Range(s)
BY DEF Abstract!InsertAt, InsertAt, Abstract!ReplaceAt, ReplaceAt, Abstract!RemoveAt,
       RemoveAt, Abstract!Front, Front, Abstract!Last, Last, Abstract!Range, Range

LEMMA TheEdits ==
  ASSUME NEW s
  PROVE  /\ <<>> \in Abstract!Edits(s)
         /\ \A i \in 1 .. Len(s) + 1, x \in Vars :
              InsertAt(s, i, VarNow[x]) \in Abstract!Edits(s)
         /\ \A i \in 1 .. Len(s), x \in Vars :
              ReplaceAt(s, i, VarNow[x]) \in Abstract!Edits(s)
         /\ \A i \in 1 .. Len(s) : RemoveAt(s, i) \in Abstract!Edits(s)
<1>1. <<>> \in Abstract!Edits(s) BY DEF Abstract!Edits
<1>2. \A i \in 1 .. Len(s) + 1, x \in Vars :
        Abstract!InsertAt(s, i, VarNow[x]) \in Abstract!Edits(s)
  BY DEF Abstract!Edits, VarNow
<1>3. \A i \in 1 .. Len(s), x \in Vars :
        Abstract!ReplaceAt(s, i, VarNow[x]) \in Abstract!Edits(s)
  BY DEF Abstract!Edits, VarNow
<1>4. \A i \in 1 .. Len(s) : Abstract!RemoveAt(s, i) \in Abstract!Edits(s)
  BY DEF Abstract!Edits
<1> QED BY <1>1, <1>2, <1>3, <1>4, SameOperators

LEMMA TheBuilt ==
  /\ \A xs \in Arrays : [i \in DOMAIN xs |-> VarNow[xs[i]]] \in Abstract!Built(2)
  /\ \A h \in Holders : ValueNow[h] \in Abstract!Built(2)
  /\ \A v \in Values : <<v>> \in Abstract!Built(2)
  /\ \A g, h \in Holders :
       \A f \in InOrder({i \in DOMAIN ValueNow[g] : ValueNow[g][i] \in Range(ValueNow[h])},
                     Len(ValueNow[g])) :
         [i \in DOMAIN f |-> ValueNow[g][f[i]]] \in Abstract!Built(2)
<1> DEFINE From(j) == {[i \in 1 .. j |-> VarNow[ys[i]]] : ys \in [1 .. j -> Vars]}
<1>0. Abstract!Built(2) =
        {ValueNow[h] : h \in Holders} \cup {<<v>> : v \in Values}
        \cup (UNION {From(j) : j \in 0 .. 2})
        \cup (UNION {Abstract!Selected(ValueNow[g], Abstract!Range(ValueNow[h])) :
                       g \in Holders, h \in Holders})
  BY DEF Abstract!Built, ValueNow, VarNow
<1> HIDE DEF From
<1>1. \A h \in Holders : ValueNow[h] \in Abstract!Built(2)
  BY <1>0
<1>2. \A v \in Values : <<v>> \in Abstract!Built(2)
  BY <1>0
<1>3. ASSUME NEW xs \in Arrays
      PROVE  [i \in DOMAIN xs |-> VarNow[xs[i]]] \in Abstract!Built(2)
  <2>1. PICK k \in 0 .. 2 : xs \in [1 .. k -> Vars] BY DEF Arrays
  <2>2. DOMAIN xs = 1 .. k BY <2>1
  <2>3. [i \in 1 .. k |-> VarNow[xs[i]]] \in From(k) BY <2>1, Zenon DEF From
  <2>4. From(k) \subseteq Abstract!Built(2) BY <1>0
  <2> QED BY <2>2, <2>3, <2>4, Zenon
<1>4. ASSUME NEW g \in Holders, NEW h \in Holders,
             NEW f \in InOrder({i \in DOMAIN ValueNow[g] :
                                  ValueNow[g][i] \in Range(ValueNow[h])},
                               Len(ValueNow[g]))
      PROVE  [i \in DOMAIN f |-> ValueNow[g][f[i]]] \in Abstract!Built(2)
  <2> DEFINE I == {i \in DOMAIN ValueNow[g] : ValueNow[g][i] \in Range(ValueNow[h])}
  <2> HIDE DEF I
  <2>1. \A J, n : InOrder(J, n) = Abstract!InOrder(J, n)
    BY SameOperators DEF InOrder, Abstract!InOrder
  <2>2. [i \in DOMAIN f |-> ValueNow[g][f[i]]]
          \in Abstract!Selected(ValueNow[g], Range(ValueNow[h]))
    BY <2>1 DEF Abstract!Selected
  <2>3. Abstract!Selected(ValueNow[g], Abstract!Range(ValueNow[h])) \subseteq Abstract!Built(2)
    BY <1>0
  <2> QED BY <2>2, <2>3, SameOperators
<1> QED BY <1>1, <1>2, <1>3, <1>4

\* The contents of the objects of a list.
On(ct, objs) == [i \in DOMAIN objs |-> ct[objs[i]]]

LEMMA NowIs ==
  /\ ValueNow = [h \in Holders |-> On(content, Of(h))]
  /\ \A h \in Holders : ValueNow[h] = On(content, Of(h))
  /\ \A x \in Vars : VarNow[x] = content[elem[x]]
BY DEF ValueNow, VarNow, On

LEMMA SettledNow ==
  ASSUME Typed,
         NEW el \in [Vars -> Objs], NEW ct \in [Objs -> Values],
         NEW ls \in [Holders -> Lists], NEW it \in [Lists -> Seq(Objs)],
         Settle(el, ct, ls, it), lent' \subseteq Names
  PROVE  /\ \A x \in Vars : VarNow'[x] = ct[el[x]]
         /\ \A h \in Holders : ValueNow'[h] = On(ct, it[ls[h]])
<1>1. /\ \A h \in Holders : items'[list'[h]] = it[ls[h]]
      /\ \A x \in Vars : content'[elem'[x]] = ct[el[x]]
      /\ \A h \in Holders : \A i \in DOMAIN it[ls[h]] :
           content'[it[ls[h]][i]] = ct[it[ls[h]][i]]
  BY SettleIs
<1>2. \A x \in Vars : VarNow'[x] = ct[el[x]] BY <1>1 DEF VarNow
<1>3. ASSUME NEW h \in Holders
      PROVE  [i \in DOMAIN items'[list'[h]] |-> content'[items'[list'[h]][i]]]
               = On(ct, it[ls[h]])
  BY <1>1 DEF On
<1>4. \A h \in Holders : ValueNow'[h] = On(ct, it[ls[h]])
  BY <1>3 DEF ValueNow, Of
<1> QED BY <1>2, <1>4

\* A function of the variables or of the lists is its values.
LEMMA SameVars ==
  ASSUME NEW S, NEW f \in [Vars -> S], \A x \in Vars : VarNow'[x] = f[x]
  PROVE  VarNow' = f
BY DEF VarNow

LEMMA SameLists ==
  ASSUME NEW S, NEW f \in [Holders -> S], \A h \in Holders : ValueNow'[h] = f[h]
  PROVE  ValueNow' = f
BY DEF ValueNow

LEMMA NowTyped ==
  ASSUME Typed
  PROVE  VarNow \in [Vars -> Values] /\ ValueNow \in [Holders -> Seq(Values)]
<1>1. VarNow \in [Vars -> Values] BY DEF Typed, VarNow
<1>2. ASSUME NEW h \in Holders PROVE [i \in DOMAIN Of(h) |-> content[Of(h)[i]]] \in Seq(Values)
  <2>1. Of(h) \in Seq(Objs) BY OneList
  <2>2. /\ DOMAIN Of(h) = 1 .. Len(Of(h)) /\ Len(Of(h)) \in Nat
        /\ \A i \in DOMAIN Of(h) : content[Of(h)[i]] \in Values
    BY <2>1 DEF Typed
  <2> QED BY <2>2
<1> QED BY <1>1, <1>2 DEF ValueNow

LEMMA EditNow ==
  ASSUME Typed, NEW n \in Holders, NEW s, ValueNow'[n] = s,
         \A h \in Holders \ {n} : ValueNow'[h] = ValueNow[h]
  PROVE  ValueNow' = [ValueNow EXCEPT ![n] = s]
<1> DEFINE f == [ValueNow EXCEPT ![n] = s]
<1>1. f \in [Holders -> Seq(Values) \cup {s}] BY NowTyped
<1>2. \A h \in Holders : ValueNow'[h] = f[h] BY NowTyped
<1> HIDE DEF f
<1>3. ValueNow' = f BY <1>1, <1>2, SameLists
<1> QED BY <1>3 DEF f

LEMMA LoadNow ==
  ASSUME Typed, NEW x \in Vars, NEW v, VarNow'[x] = v,
         \A y \in Vars \ {x} : VarNow'[y] = VarNow[y]
  PROVE  VarNow' = [VarNow EXCEPT ![x] = v]
<1> DEFINE f == [VarNow EXCEPT ![x] = v]
<1>1. f \in [Vars -> Values \cup {v}] BY NowTyped
<1>2. \A y \in Vars : VarNow'[y] = f[y] BY NowTyped
<1> HIDE DEF f
<1>3. VarNow' = f BY <1>1, <1>2, SameVars
<1> QED BY <1>3 DEF f

LEMMA RefillIs ==
  ASSUME IInv, NEW n \in Names, Mine(n), NEW objs \in Seq(Objs),
         NEW ct \in [Objs -> Values], Refill(n, objs, ct),
         \A x \in Vars : ct[elem[x]] = content[elem[x]],
         \A h \in Holders \ {n} : \A i \in DOMAIN Of(h) : ct[Of(h)[i]] = content[Of(h)[i]]
  PROVE  VarNow' = VarNow /\ ValueNow' = [ValueNow EXCEPT ![n] = On(ct, objs)]
<1>1. /\ elem \in [Vars -> Objs] /\ list \in [Holders -> Lists]
      /\ items \in [Lists -> Seq(Objs)] /\ lent \subseteq Names
  BY DEF IInv, Typed
<1>2. n \in Holders /\ \A h \in Holders \ {n} : list[h] # list[n]
  BY DEF IInv, Apart, Holders
<1> DEFINE it == [items EXCEPT ![list[n]] = objs]
<1>3. it \in [Lists -> Seq(Objs)] BY <1>1
<1>4. it[list[n]] = objs /\ \A h \in Holders \ {n} : it[list[h]] = Of(h)
  BY <1>1, <1>2 DEF Of
<1>5. Settle(elem, ct, list, it) /\ lent' = lent BY DEF Refill
<1> HIDE DEF it
<1>6. /\ \A x \in Vars : VarNow'[x] = ct[elem[x]]
      /\ \A h \in Holders : ValueNow'[h] = On(ct, it[list[h]])
  <2>1. Typed BY DEF IInv
  <2> QED BY <1>1, <1>3, <1>5, <2>1, SettledNow
<1>7. VarNow' = VarNow
  <2>1. \A x \in Vars : VarNow'[x] = VarNow[x] BY <1>6, NowIs
  <2> QED BY <2>1, NowTyped, SameVars DEF IInv
<1>8. \A h \in Holders \ {n} : On(ct, it[list[h]]) = ValueNow[h]
  BY <1>4, NowIs DEF On
<1>9. ValueNow' = [ValueNow EXCEPT ![n] = On(ct, objs)]
  BY <1>2, <1>4, <1>6, <1>8, EditNow DEF IInv
<1> QED BY <1>7, <1>9

LEMMA BuildIs ==
  ASSUME IInv, NEW n \in Holders, NEW objs \in Seq(Objs),
         NEW ct \in [Objs -> Values], Build(n, objs, ct), lent' \subseteq Names,
         \A o \in Objs \ FreshObjs : ct[o] = content[o]
  PROVE  VarNow' = VarNow /\ ValueNow' = [ValueNow EXCEPT ![n] = On(ct, objs)]
<1>1. /\ elem \in [Vars -> Objs] /\ list \in [Holders -> Lists]
      /\ items \in [Lists -> Seq(Objs)]
  BY DEF IInv, Typed
<1>2. PICK c \in FreshLists(n) :
        Settle(elem, ct, [list EXCEPT ![n] = c], [items EXCEPT ![c] = objs])
  BY DEF Build
<1> DEFINE ls == [list EXCEPT ![n] = c]
           it == [items EXCEPT ![c] = objs]
<1>3. c \in Lists /\ \A g \in Holders \ {n} : list[g] # c BY DEF FreshLists
<1>4. ls \in [Holders -> Lists] /\ it \in [Lists -> Seq(Objs)] BY <1>1, <1>3
<1>5. it[ls[n]] = objs /\ \A g \in Holders \ {n} : it[ls[g]] = Of(g)
  BY <1>1, <1>3 DEF Of
<1>6. Settle(elem, ct, ls, it) BY <1>2
<1> HIDE DEF ls, it
<1>7. /\ \A x \in Vars : VarNow'[x] = ct[elem[x]]
      /\ \A h \in Holders : ValueNow'[h] = On(ct, it[ls[h]])
  <2>1. Typed /\ lent' \subseteq Names /\ ct \in [Objs -> Values]
        /\ elem \in [Vars -> Objs]
    BY <1>1 DEF IInv
  <2> QED BY ONLY <1>4, <1>6, <2>1, SettledNow
<1>8. /\ \A x \in Vars : ct[elem[x]] = content[elem[x]]
      /\ \A h \in Holders : \A i \in DOMAIN Of(h) : ct[Of(h)[i]] = content[Of(h)[i]]
  BY <1>1, FreshIs, OneList DEF IInv
<1>9. VarNow' = VarNow
  <2>1. \A x \in Vars : VarNow'[x] = VarNow[x] BY <1>7, <1>8, NowIs
  <2> QED BY <2>1, NowTyped, SameVars DEF IInv
<1>10. \A h \in Holders \ {n} : On(ct, it[ls[h]]) = ValueNow[h]
  BY <1>5, <1>8, NowIs DEF On
<1>11. ValueNow' = [ValueNow EXCEPT ![n] = On(ct, objs)]
  BY <1>5, <1>7, <1>10, EditNow DEF IInv
<1> QED BY <1>9, <1>11

LEMMA HoldIs ==
  ASSUME IInv, NEW x \in Vars, NEW o \in Objs, NEW ct \in [Objs -> Values],
         Settle([elem EXCEPT ![x] = o], ct, list, items), lent' = lent,
         \A p \in Objs \ FreshObjs : ct[p] = content[p]
  PROVE  Abstract!Next
<1>1. /\ elem \in [Vars -> Objs] /\ list \in [Holders -> Lists]
      /\ items \in [Lists -> Seq(Objs)] /\ lent \subseteq Names
  BY DEF IInv, Typed
<1> DEFINE el == [elem EXCEPT ![x] = o]
<1>2. el \in [Vars -> Objs] BY <1>1
<1>3. Settle(el, ct, list, items) OBVIOUS
<1>4. el[x] = o /\ \A y \in Vars \ {x} : el[y] = elem[y] BY <1>1
<1> HIDE DEF el
<1>5. /\ \A y \in Vars : VarNow'[y] = ct[el[y]]
      /\ \A h \in Holders : ValueNow'[h] = On(ct, items[list[h]])
  <2>1. Typed BY DEF IInv
  <2> QED BY <1>1, <1>2, <1>3, <2>1, SettledNow
<1>6. /\ \A y \in Vars : ct[elem[y]] = content[elem[y]]
      /\ \A h \in Holders : \A i \in DOMAIN Of(h) : ct[Of(h)[i]] = content[Of(h)[i]]
  BY <1>1, FreshIs, OneList DEF IInv
<1>7. VarNow' = [VarNow EXCEPT ![x] = ct[o]]
  BY <1>4, <1>5, <1>6, NowIs, LoadNow DEF IInv
<1>8. \A h \in Holders : On(ct, items[list[h]]) = On(content, Of(h))
  BY <1>6 DEF On, Of
<1>9. ValueNow' = ValueNow
  <2>1. \A h \in Holders : ValueNow'[h] = ValueNow[h] BY <1>5, <1>8, NowIs
  <2> QED BY <2>1, NowTyped, SameLists DEF IInv
<1>10. ct[o] \in Values OBVIOUS
<1> QED BY <1>7, <1>9, <1>10 DEF Abstract!Next, Abstract!Load, VarNow, ValueNow

LEMMA TakeIs ==
  ASSUME IInv, NEW n \in Names, Mine(n), NEW x \in Vars, Take(n, x)
  PROVE  Abstract!Next
<1>1. /\ elem \in [Vars -> Objs] /\ list \in [Holders -> Lists]
      /\ items \in [Lists -> Seq(Objs)] /\ lent \subseteq Names
      /\ content \in [Objs -> Values]
  BY DEF IInv, Typed
<1>2. n \in Holders /\ \A h \in Holders \ {n} : list[h] # list[n]
  BY DEF IInv, Apart, Holders
<1>3. Of(n) \in Seq(Objs) /\ Of(n) # <<>> BY <1>2, OneList DEF IInv, Take
<1> DEFINE el == [elem EXCEPT ![x] = Last(Of(n))]
           it == [items EXCEPT ![list[n]] = Front(Of(n))]
<1>4. /\ Front(Of(n)) \in Seq(Objs) /\ Last(Of(n)) \in Objs
      /\ Len(Of(n)) \in DOMAIN Of(n)
      /\ Len(Front(Of(n))) = Len(Of(n)) - 1
      /\ \A j \in 1 .. Len(Of(n)) - 1 : Front(Of(n))[j] = Of(n)[j]
  BY <1>3, FrontIs
<1>5. el \in [Vars -> Objs] /\ it \in [Lists -> Seq(Objs)] BY <1>1, <1>4
<1>6. Settle(el, content, list, it) /\ lent' = lent BY DEF Take
<1>7. it[list[n]] = Front(Of(n)) /\ \A h \in Holders \ {n} : it[list[h]] = Of(h)
  BY <1>1, <1>2 DEF Of
<1>8. el[x] = Last(Of(n)) /\ \A y \in Vars \ {x} : el[y] = elem[y] BY <1>1
<1> HIDE DEF el, it
<1>9. /\ \A y \in Vars : VarNow'[y] = content[el[y]]
      /\ \A h \in Holders : ValueNow'[h] = On(content, it[list[h]])
  <2>1. Typed BY DEF IInv
  <2> QED BY <1>1, <1>5, <1>6, <2>1, SettledNow
<1> DEFINE v == ValueNow[n]
<1>10. v = On(content, Of(n)) /\ v \in Seq(Values) /\ Len(v) = Len(Of(n))
  <2>1. On(content, Of(n)) \in [1 .. Len(Of(n)) -> Values] BY <1>1, <1>3 DEF On
  <2>2. Len(Of(n)) \in Nat BY <1>3
  <2> QED BY <1>2, <2>1, <2>2, NowIs
<1> HIDE DEF v
<1>11. v # <<>> BY <1>3, <1>10
<1>12. /\ Front(v) \in Seq(Values) /\ Len(Front(v)) = Len(v) - 1
       /\ \A j \in 1 .. Len(v) - 1 : Front(v)[j] = v[j]
  BY <1>10, <1>11, FrontIs
<1>13. Last(v) = content[Last(Of(n))] BY <1>3, <1>4, <1>10 DEF Last, On
<1>14. On(content, Front(Of(n))) = Front(v)
  <2> DEFINE a == Front(Of(n))
             b == Front(v)
  <2>1. DOMAIN a = 1 .. Len(v) - 1 /\ DOMAIN b = 1 .. Len(v) - 1
    BY <1>4, <1>10, <1>12
  <2>2. b = [j \in 1 .. Len(v) - 1 |-> v[j]] BY <1>12, <2>1
  <2>3. \A j \in 1 .. Len(v) - 1 : content[a[j]] = v[j]
    BY <1>3, <1>4, <1>10 DEF On
  <2> HIDE DEF a, b
  <2> QED BY <2>1, <2>2, <2>3 DEF On, a, b
<1>15. VarNow' = [VarNow EXCEPT ![x] = Last(v)]
  BY <1>8, <1>9, <1>13, NowIs, LoadNow DEF IInv
<1>16. ValueNow' = [ValueNow EXCEPT ![n] = Front(v)]
  BY <1>2, <1>7, <1>9, <1>14, NowIs, EditNow DEF IInv
<1>17. /\ ValueNow[n] # <<>>
       /\ ValueNow' = [ValueNow EXCEPT ![n] = Abstract!Front(ValueNow[n])]
       /\ VarNow' = [VarNow EXCEPT ![x] = Abstract!Last(ValueNow[n])]
  BY <1>11, <1>15, <1>16, SameOperators DEF v
<1>18. Abstract!Pop(n, x) BY <1>17 DEF Abstract!Pop, VarNow, ValueNow
<1> QED BY <1>2, <1>18 DEF Abstract!Next

LEMMA HandOnIs ==
  ASSUME IInv, NEW m \in Messages, NEW n \in Names,
         KeepList(m, n) \/ ReadList(m, n)
  PROVE  Abstract!Next
<1>1. /\ elem \in [Vars -> Objs] /\ list \in [Holders -> Lists]
      /\ items \in [Lists -> Seq(Objs)] /\ content \in [Objs -> Values]
      /\ lent \subseteq Names /\ Typed
  BY DEF IInv, Typed
<1>2. n \in Holders /\ m \in Holders BY DEF Holders
<1>3. ASSUME NEW g \in Holders, NEW h \in Holders, lent' = lent \cup {n},
             Settle(elem, content, [list EXCEPT ![g] = list[h]], items)
      PROVE  Abstract!Next
  <2> DEFINE ls == [list EXCEPT ![g] = list[h]]
  <2>1. ls \in [Holders -> Lists] BY <1>1
  <2>2. ls[g] = list[h] /\ \A f \in Holders \ {g} : ls[f] = list[f] BY <1>1
  <2>3. Settle(elem, content, ls, items) BY <1>3
  <2>4. lent' \subseteq Names BY <1>1, <1>3
  <2> HIDE DEF ls
  <2>5. /\ \A x \in Vars : VarNow'[x] = content[elem[x]]
        /\ \A f \in Holders : ValueNow'[f] = On(content, items[ls[f]])
    BY <1>1, <2>1, <2>3, <2>4, SettledNow
  <2>6. VarNow' = VarNow
    <3>1. \A x \in Vars : VarNow'[x] = VarNow[x] BY <2>5, NowIs
    <3> QED BY <1>1, <3>1, NowTyped, SameVars
  <2>7. ValueNow' = [ValueNow EXCEPT ![g] = ValueNow[h]]
    <3>1. /\ ValueNow'[g] = ValueNow[h]
          /\ \A f \in Holders \ {g} : ValueNow'[f] = ValueNow[f]
      BY <2>2, <2>5, NowIs DEF Of
    <3> QED BY <1>1, <3>1, EditNow
  <2> QED BY <2>6, <2>7, TheBuilt, AnEdit
<1> QED BY <1>2, <1>3 DEF KeepList, ReadList

-----------------------------------------------------------------------------
(* What an operation on objects does to the values.                        *)

LEMMA OnIs ==
  ASSUME NEW ct \in [Objs -> Values], NEW s \in Seq(Objs)
  PROVE  /\ On(ct, s) \in Seq(Values) /\ Len(On(ct, s)) = Len(s)
         /\ \A i \in 1 .. Len(s) : On(ct, s)[i] = ct[s[i]]
<1>1. Len(s) \in Nat /\ DOMAIN s = 1 .. Len(s) OBVIOUS
<1>2. On(ct, s) \in [1 .. Len(s) -> Values] BY DEF On
<1>3. On(ct, s) \in Seq(Values) /\ Len(On(ct, s)) = Len(s) BY <1>1, <1>2
<1> QED BY <1>3 DEF On

LEMMA OnInsert ==
  ASSUME NEW ct \in [Objs -> Values], NEW s \in Seq(Objs), NEW i \in 1 .. Len(s) + 1,
         NEW o \in Objs
  PROVE  On(ct, InsertAt(s, i, o)) = InsertAt(On(ct, s), i, ct[o])
<1> DEFINE t == InsertAt(s, i, o)
           v == On(ct, s)
           e == ct[o]
           w == InsertAt(v, i, e)
<1>1. v \in Seq(Values) /\ Len(v) = Len(s) /\ \A j \in 1 .. Len(s) : v[j] = ct[s[j]]
  BY OnIs
<1>2. /\ t \in Seq(Objs) /\ Len(t) = Len(s) + 1
      /\ \A j \in 1 .. Len(s) + 1 :
           t[j] = IF j < i THEN s[j] ELSE IF j = i THEN o ELSE s[j - 1]
  BY InsertAtIs DEF Inserted
<1> HIDE DEF t, v
<1>3. e \in Values /\ i \in 1 .. Len(v) + 1 BY <1>1
<1> HIDE DEF e, Inserted
<1>4. /\ w \in Seq(Values) /\ Len(w) = Len(v) + 1
      /\ \A j \in 1 .. Len(v) + 1 :
           w[j] = Inserted(v, i, e, j)
  <2>1. \A q \in Seq(Values) : \A k \in 1 .. Len(q) + 1 : \A d \in Values :
          /\ InsertAt(q, k, d) \in Seq(Values) /\ Len(InsertAt(q, k, d)) = Len(q) + 1
          /\ \A j \in 1 .. Len(q) + 1 : InsertAt(q, k, d)[j] = Inserted(q, k, d, j)
    BY InsertAtIs
  <2>2. v \in Seq(Values) BY <1>1
  <2> QED BY <1>3, <2>1, <2>2, Zenon
<1> HIDE DEF w
<1>5. On(ct, t) \in Seq(Values) /\ Len(On(ct, t)) = Len(t)
      /\ \A j \in 1 .. Len(t) : On(ct, t)[j] = ct[t[j]]
  BY <1>2, OnIs
<1>6. Len(s) \in Nat OBVIOUS
<1>7. ASSUME NEW j \in 1 .. Len(s) + 1 PROVE On(ct, t)[j] = w[j]
  <2>1. CASE j < i BY <1>1, <1>2, <1>4, <1>5, <1>6, <2>1 DEF Inserted
  <2>2. CASE j = i BY <1>1, <1>2, <1>4, <1>5, <1>6, <2>2 DEF e, Inserted
  <2>3. CASE j > i
    <3>1. j - 1 \in 1 .. Len(s) BY <1>6, <2>3
    <3>2. t[j] = s[j - 1] /\ w[j] = v[j - 1] BY <1>1, <1>2, <1>4, <1>6, <2>3 DEF Inserted
    <3> QED BY <1>1, <1>2, <1>5, <3>1, <3>2
  <2> QED BY <1>6, <2>1, <2>2, <2>3
<1>8. On(ct, t) = w BY <1>1, <1>2, <1>4, <1>5, <1>7, SameSeq
<1> QED BY <1>8 DEF t, w, v, e

LEMMA OnRemove ==
  ASSUME NEW ct \in [Objs -> Values], NEW s \in Seq(Objs), NEW i \in 1 .. Len(s)
  PROVE  On(ct, RemoveAt(s, i)) = RemoveAt(On(ct, s), i)
<1> DEFINE t == RemoveAt(s, i)
           v == On(ct, s)
           w == RemoveAt(v, i)
<1>1. v \in Seq(Values) /\ Len(v) = Len(s) /\ \A j \in 1 .. Len(s) : v[j] = ct[s[j]]
  BY OnIs
<1>2. /\ t \in Seq(Objs) /\ Len(t) = Len(s) - 1
      /\ \A j \in 1 .. Len(s) - 1 : t[j] = IF j < i THEN s[j] ELSE s[j + 1]
  BY RemoveAtIs
<1> HIDE DEF t, v
<1>3. i \in 1 .. Len(v) BY <1>1
<1>4. /\ w \in Seq(Values) /\ Len(w) = Len(v) - 1
      /\ \A j \in 1 .. Len(v) - 1 : w[j] = IF j < i THEN v[j] ELSE v[j + 1]
  BY <1>1, <1>3, RemoveAtIs
<1> HIDE DEF w
<1>5. On(ct, t) \in Seq(Values) /\ Len(On(ct, t)) = Len(t)
      /\ \A j \in 1 .. Len(t) : On(ct, t)[j] = ct[t[j]]
  BY <1>2, OnIs
<1>6. Len(s) \in Nat OBVIOUS
<1>7. ASSUME NEW j \in 1 .. Len(s) - 1 PROVE On(ct, t)[j] = w[j]
  <2>1. j \in 1 .. Len(s) /\ j + 1 \in 1 .. Len(s) BY <1>6
  <2>2. \/ t[j] = s[j] /\ w[j] = v[j]
        \/ t[j] = s[j + 1] /\ w[j] = v[j + 1]
    BY <1>1, <1>2, <1>4
  <2> QED BY <1>1, <1>2, <1>5, <2>1, <2>2
<1>8. On(ct, t) = w BY <1>1, <1>2, <1>4, <1>5, <1>7, SameSeq
<1> QED BY <1>8 DEF t, w, v

LEMMA OnReplace ==
  ASSUME NEW ct \in [Objs -> Values], NEW s \in Seq(Objs), NEW i \in 1 .. Len(s),
         NEW o \in Objs
  PROVE  On(ct, ReplaceAt(s, i, o)) = ReplaceAt(On(ct, s), i, ct[o])
BY DEF On, ReplaceAt

-----------------------------------------------------------------------------
(* Every operation is a step of ValueLists.                                *)

LEMMA InsertRefIs ==
  ASSUME IInv, NEW n \in Names, Mine(n), NEW x \in Vars,
         NEW i \in 1 .. Len(Of(n)) + 1, InsertRef(n, i, x)
  PROVE  Abstract!Next
<1>1. Of(n) \in Seq(Objs) /\ n \in Holders BY OneList DEF IInv, Holders
<1>2. elem[x] \in Objs /\ content \in [Objs -> Values] BY DEF IInv, Typed
<1>3. InsertAt(Of(n), i, elem[x]) \in Seq(Objs) BY <1>1, <1>2, InsertAtIs
<1>4. /\ VarNow' = VarNow
      /\ ValueNow' = [ValueNow EXCEPT ![n] = On(content, InsertAt(Of(n), i, elem[x]))]
  BY <1>2, <1>3, RefillIs DEF InsertRef
<1>5. On(content, InsertAt(Of(n), i, elem[x])) = InsertAt(ValueNow[n], i, VarNow[x])
  BY <1>1, <1>2, OnInsert, NowIs
<1>6. i \in 1 .. Len(ValueNow[n]) + 1 BY <1>1, <1>2, OnIs, NowIs
<1> QED BY <1>1, <1>4, <1>5, <1>6, TheEdits, AnEdit

LEMMA InsertCopyIs ==
  ASSUME IInv, NEW n \in Names, Mine(n), NEW x \in Vars,
         NEW i \in 1 .. Len(Of(n)) + 1, InsertCopy(n, i, x)
  PROVE  Abstract!Next
<1>1. Of(n) \in Seq(Objs) /\ n \in Holders BY OneList DEF IInv, Holders
<1>2. elem[x] \in Objs /\ content \in [Objs -> Values] BY DEF IInv, Typed
<1>3. PICK o \in FreshObjs :
        Refill(n, InsertAt(Of(n), i, o), [content EXCEPT ![o] = content[elem[x]]])
  BY DEF InsertCopy
<1> DEFINE ct == [content EXCEPT ![o] = content[elem[x]]]
<1>4. /\ o \in Objs /\ \A y \in Vars : elem[y] # o
      /\ \A h \in Holders : \A j \in DOMAIN Of(h) : Of(h)[j] # o
  BY FreshIs
<1>5. /\ ct \in [Objs -> Values] /\ ct[o] = VarNow[x]
      /\ \A p \in Objs \ {o} : ct[p] = content[p]
  BY <1>2, <1>4, NowIs
<1>6. Refill(n, InsertAt(Of(n), i, o), ct) BY <1>3
<1> HIDE DEF ct
<1>7. InsertAt(Of(n), i, o) \in Seq(Objs) BY <1>1, <1>4, InsertAtIs
<1>8. \A y \in Vars : ct[elem[y]] = content[elem[y]] BY <1>4, <1>5 DEF IInv, Typed
<1>9. \A h \in Holders : \A j \in DOMAIN Of(h) : ct[Of(h)[j]] = content[Of(h)[j]]
  BY <1>4, <1>5, OneList DEF IInv
<1>10. /\ VarNow' = VarNow
       /\ ValueNow' = [ValueNow EXCEPT ![n] = On(ct, InsertAt(Of(n), i, o))]
  BY <1>5, <1>6, <1>7, <1>8, <1>9, RefillIs
<1>11. On(ct, Of(n)) = ValueNow[n] BY <1>1, <1>9, NowIs DEF On
<1>12. On(ct, InsertAt(Of(n), i, o)) = InsertAt(ValueNow[n], i, VarNow[x])
  BY <1>1, <1>4, <1>5, <1>11, OnInsert
<1>13. i \in 1 .. Len(ValueNow[n]) + 1 BY <1>1, <1>2, OnIs, NowIs
<1> QED BY <1>1, <1>10, <1>12, <1>13, TheEdits, AnEdit

LEMMA ReplaceRefIs ==
  ASSUME IInv, NEW n \in Names, Mine(n), NEW x \in Vars,
         NEW i \in 1 .. Len(Of(n)), ReplaceRef(n, i, x)
  PROVE  Abstract!Next
<1>1. Of(n) \in Seq(Objs) /\ n \in Holders BY OneList DEF IInv, Holders
<1>2. elem[x] \in Objs /\ content \in [Objs -> Values] BY DEF IInv, Typed
<1>3. ReplaceAt(Of(n), i, elem[x]) \in Seq(Objs) BY <1>1, <1>2 DEF ReplaceAt
<1>4. /\ VarNow' = VarNow
      /\ ValueNow' = [ValueNow EXCEPT ![n] = On(content, ReplaceAt(Of(n), i, elem[x]))]
  BY <1>2, <1>3, RefillIs DEF ReplaceRef
<1>5. On(content, ReplaceAt(Of(n), i, elem[x])) = ReplaceAt(ValueNow[n], i, VarNow[x])
  BY <1>1, <1>2, OnReplace, NowIs
<1>6. i \in 1 .. Len(ValueNow[n]) BY <1>1, <1>2, OnIs, NowIs
<1> QED BY <1>1, <1>4, <1>5, <1>6, TheEdits, AnEdit

\* Writing into an object changes one value, as the object is in one place.
LEMMA OverwriteIs ==
  ASSUME IInv, class \in Transforms, NEW n \in Names, Own(n), NEW x \in Vars,
         NEW i \in 1 .. Len(Of(n)), Overwrite(n, i, x)
  PROVE  Abstract!Next
<1>1. Of(n) \in Seq(Objs) /\ n \in Holders BY OneList DEF IInv, Holders
<1>2. /\ elem \in [Vars -> Objs] /\ elem[x] \in Objs /\ content \in [Objs -> Values]
      /\ Mine(n)
  BY DEF IInv, Typed, Own, Mine
<1>3. Alone(n) BY DEF IInv, Own
<1> DEFINE o == Of(n)[i]
           ct == [content EXCEPT ![o] = content[elem[x]]]
<1>4. i \in DOMAIN Of(n) /\ o \in Objs BY <1>1
<1>5. /\ ct \in [Objs -> Values] /\ ct[o] = VarNow[x]
      /\ \A p \in Objs \ {o} : ct[p] = content[p]
  BY <1>2, <1>4, NowIs
<1>6. Refill(n, Of(n), ct) BY DEF Overwrite
<1>7. /\ \A y \in Vars : elem[y] # o
      /\ \A h \in Holders \ {n} : \A j \in DOMAIN Of(h) : Of(h)[j] # o
      /\ \A j \in DOMAIN Of(n) : Of(n)[j] = o => j = i
  BY <1>1, <1>2, <1>3, <1>4 DEF Alone, Range
<1> HIDE DEF o, ct
<1>8. \A y \in Vars : ct[elem[y]] = content[elem[y]] BY <1>2, <1>5, <1>7
<1>9. \A h \in Holders \ {n} : \A j \in DOMAIN Of(h) : ct[Of(h)[j]] = content[Of(h)[j]]
  BY <1>5, <1>7, OneList DEF IInv
<1>10. /\ VarNow' = VarNow
       /\ ValueNow' = [ValueNow EXCEPT ![n] = On(ct, Of(n))]
  BY <1>1, <1>2, <1>5, <1>6, <1>8, <1>9, RefillIs
<1>11. On(ct, Of(n)) = ReplaceAt(ValueNow[n], i, VarNow[x])
  <2>1. ValueNow[n] = On(content, Of(n)) BY <1>1, NowIs
  <2>2. \A j \in DOMAIN Of(n) : Of(n)[j] \in Objs BY <1>1
  <2>3. \A j \in DOMAIN Of(n) : ct[Of(n)[j]] = IF j = i THEN VarNow[x] ELSE content[Of(n)[j]]
    BY <1>5, <1>7, <2>2 DEF o
  <2> QED BY <1>4, <2>1, <2>3 DEF On, ReplaceAt
<1>12. i \in 1 .. Len(ValueNow[n]) BY <1>1, <1>2, OnIs, NowIs
<1> QED BY <1>1, <1>10, <1>11, <1>12, TheEdits, AnEdit

LEMMA RemoveIs ==
  ASSUME IInv, NEW n \in Names, Mine(n)
  PROVE  /\ \A i \in 1 .. Len(Of(n)) : RemoveFrom(n, i) => Abstract!Next
         /\ RemoveAll(n) => Abstract!Next
<1>1. Of(n) \in Seq(Objs) /\ n \in Holders BY OneList DEF IInv, Holders
<1>2. content \in [Objs -> Values] BY DEF IInv, Typed
<1>3. ASSUME NEW i \in 1 .. Len(Of(n)), RemoveFrom(n, i) PROVE Abstract!Next
  <2>1. RemoveAt(Of(n), i) \in Seq(Objs) BY <1>1, RemoveAtIs
  <2>2. /\ VarNow' = VarNow
        /\ ValueNow' = [ValueNow EXCEPT ![n] = On(content, RemoveAt(Of(n), i))]
    BY <1>2, <1>3, <2>1, RefillIs DEF RemoveFrom
  <2>3. On(content, RemoveAt(Of(n), i)) = RemoveAt(ValueNow[n], i)
    BY <1>1, <1>2, OnRemove, NowIs
  <2>4. i \in 1 .. Len(ValueNow[n]) BY <1>1, <1>2, OnIs, NowIs
  <2> QED BY <1>1, <2>2, <2>3, <2>4, TheEdits, AnEdit
<1>4. ASSUME RemoveAll(n) PROVE Abstract!Next
  <2> DEFINE s == <<>>
  <2>1. s \in Seq(Objs) /\ On(content, s) = <<>> BY DEF On
  <2>2. Refill(n, s, content) BY <1>4 DEF RemoveAll
  <2> HIDE DEF s
  <2>3. /\ VarNow' = VarNow
        /\ ValueNow' = [ValueNow EXCEPT ![n] = On(content, s)]
    BY <1>2, <2>1, <2>2, RefillIs
  <2> QED BY <1>1, <2>1, <2>3, TheEdits, AnEdit
<1> QED BY <1>3, <1>4

LEMMA VarIs ==
  ASSUME IInv, NEW x \in Vars
  PROVE  /\ \A o \in Objs : Hold(x, o) => Abstract!Next
         /\ \A o \in Objs : HoldCopy(x, o) => Abstract!Next
         /\ \A v \in Values : NewElement(x, v) => Abstract!Next
<1>1. content \in [Objs -> Values] BY DEF IInv, Typed
<1>2. \A c \in FreshObjs : c \in Objs BY FreshIs
<1>3. \A c \in FreshObjs : \A v \in Values :
        /\ [content EXCEPT ![c] = v] \in [Objs -> Values]
        /\ \A p \in Objs \ FreshObjs : [content EXCEPT ![c] = v][p] = content[p]
  BY <1>1, <1>2
<1>4. ASSUME NEW o \in Objs, Hold(x, o) PROVE Abstract!Next
  BY <1>1, <1>4, HoldIs DEF Hold
<1>5. ASSUME NEW o \in Objs, HoldCopy(x, o) PROVE Abstract!Next
  <2>1. content[o] \in Values BY <1>1
  <2> QED BY <1>2, <1>3, <1>5, <2>1, HoldIs DEF HoldCopy
<1>6. ASSUME NEW v \in Values, NewElement(x, v) PROVE Abstract!Next
  BY <1>2, <1>3, <1>6, HoldIs DEF NewElement
<1> QED BY <1>4, <1>5, <1>6

LEMMA NewIs ==
  ASSUME IInv, NEW n \in Names, NEW xs \in Arrays, New(n, xs),
         lent' = lent \ {n} \/ TransformsLent(n, xs)
  PROVE  Abstract!Next
<1>1. content \in [Objs -> Values] /\ elem \in [Vars -> Objs] /\ lent \subseteq Names
  BY DEF IInv, Typed
<1>2. PICK k \in 0 .. 2 : xs \in [1 .. k -> Vars] BY DEF Arrays
<1> DEFINE objs == [i \in DOMAIN xs |-> elem[xs[i]]]
<1>3. objs \in [1 .. k -> Objs] BY <1>1, <1>2
<1>4. objs \in Seq(Objs) BY <1>2, <1>3
<1>5. On(content, objs) = [i \in DOMAIN xs |-> VarNow[xs[i]]]
  BY <1>1, <1>2, NowIs DEF On
<1>6. lent' \subseteq Names BY <1>1 DEF TransformsLent
<1>7. Build(n, objs, content) BY DEF New
<1> HIDE DEF objs
<1>8. n \in Holders BY DEF Holders
<1>9. VarNow' = VarNow /\ ValueNow' = [ValueNow EXCEPT ![n] = On(content, objs)]
  BY <1>1, <1>4, <1>6, <1>7, <1>8, BuildIs
<1>10. On(content, objs) \in Abstract!Built(2) BY <1>5, TheBuilt
<1> QED BY <1>8, <1>9, <1>10, AnEdit

LEMMA FromJSONIs ==
  ASSUME IInv, NEW n \in Holders, NEW h \in Holders, FromJSON(n, h)
  PROVE  Abstract!Next
<1>1. content \in [Objs -> Values] /\ lent \subseteq Names
  BY DEF IInv, Typed
<1>2. Of(h) \in Seq(Objs) /\ Len(Of(h)) \in Nat /\ DOMAIN Of(h) = 1 .. Len(Of(h))
  BY OneList DEF IInv
<1> DEFINE of(copy) == [o \in Objs |->
                         IF \E i \in DOMAIN copy : copy[i] = o
                         THEN content[Of(h)[CHOOSE i \in DOMAIN copy : copy[i] = o]]
                         ELSE content[o]]
<1>3. PICK copy \in Copies(Len(Of(h))) : Build(n, copy, of(copy)) BY DEF FromJSON
<1> DEFINE ct == of(copy)
<1>4. /\ copy \in [1 .. Len(Of(h)) -> FreshObjs]
      /\ \A i, j \in 1 .. Len(Of(h)) : copy[i] = copy[j] => i = j
  BY DEF Copies
<1>5. DOMAIN copy = DOMAIN Of(h) /\ \A i \in DOMAIN Of(h) : copy[i] \in FreshObjs
  BY <1>2, <1>4
<1>6. copy \in Seq(Objs)
  <2>1. copy \in [1 .. Len(Of(h)) -> Objs] BY <1>4, FreshIs
  <2> QED BY <1>2, <2>1
<1>7. \A i \in DOMAIN Of(h) : ct[copy[i]] = content[Of(h)[i]]
  <2> SUFFICES ASSUME NEW i \in DOMAIN Of(h) PROVE ct[copy[i]] = content[Of(h)[i]]
    OBVIOUS
  <2>1. copy[i] \in Objs BY <1>5, FreshIs
  <2>2. (CHOOSE j \in DOMAIN copy : copy[j] = copy[i]) = i BY <1>2, <1>4, <1>5
  <2> QED BY <1>5, <2>1, <2>2
<1>8. \A o \in Objs \ FreshObjs : ct[o] = content[o] BY <1>5
<1>9. ct \in [Objs -> Values]
  <2>0. DOMAIN ct = Objs /\ ct = [o \in Objs |-> ct[o]] OBVIOUS
  <2>3. \A o \in Objs : (~\E i \in DOMAIN copy : copy[i] = o) => ct[o] = content[o]
    OBVIOUS
  <2> HIDE DEF ct
  <2>1. \A o \in Objs : content[o] \in Values BY <1>1
  <2>2. ASSUME NEW o \in Objs PROVE ct[o] \in Values
    <3>1. CASE \E i \in DOMAIN copy : copy[i] = o
      <4>1. PICK i \in DOMAIN Of(h) : copy[i] = o BY <1>5, <3>1
      <4>2. Of(h)[i] \in Objs BY <1>2
      <4> QED BY <1>7, <2>1, <4>1, <4>2
    <3>2. CASE ~\E i \in DOMAIN copy : copy[i] = o BY <2>1, <2>3, <3>2
    <3> QED BY <3>1, <3>2
  <2> QED BY <2>0, <2>2
<1> HIDE DEF ct
<1>10. On(ct, copy) = ValueNow[h] BY <1>5, <1>7, NowIs DEF On
<1>11. lent' \subseteq Names BY <1>1 DEF FromJSON
<1>12. VarNow' = VarNow /\ ValueNow' = [ValueNow EXCEPT ![n] = On(ct, copy)]
  <2>1. Build(n, copy, ct) BY <1>3 DEF ct
  <2> QED BY <1>6, <1>8, <1>9, <1>11, <2>1, BuildIs
<1> QED BY <1>10, <1>12, TheBuilt, AnEdit

-----------------------------------------------------------------------------
(* So is every step of each class.                                         *)

LEMMA PortsIs ==
  ASSUME IInv, NEW n \in Names, PortsStep(n)
  PROVE  Abstract!Next
<1>1. class = "Ports" /\ class \in Kept /\ class \notin Transforms
  BY DEF PortsStep, Kept, Transforms
<1>2. Own(n) => Mine(n) BY DEF Own, Mine
<1>3. Names \subseteq Holders /\ Messages \subseteq Holders BY DEF Holders
<1>4. ASSUME NEW xs \in Arrays, PortsNew(n, xs) PROVE Abstract!Next
  BY <1>1, <1>4, NewIs DEF PortsNew
<1>5. ASSUME NEW h \in Holders, PortsFromJSON(n, h) PROVE Abstract!Next
  BY <1>3, <1>5, FromJSONIs DEF PortsFromJSON
<1>6. ASSUME NEW x \in Vars, PortsPushBack(n, x) PROVE Abstract!Next
  BY <1>1, <1>2, <1>6, Ends, InsertRefIs DEF PortsPushBack
<1>7. ASSUME NEW x \in Vars, NEW i \in 1 .. Len(Of(n)) + 1, PortsInsert(n, i, x) PROVE Abstract!Next
  BY <1>1, <1>2, <1>7, InsertRefIs DEF PortsInsert
<1>8. ASSUME NEW x \in Vars, NEW i \in 1 .. Len(Of(n)), PortsGetIndex(n, i, x) PROVE Abstract!Next
  BY <1>1, <1>8, Ends, Element, VarIs DEF PortsGetIndex
<1>9. ASSUME NEW x \in Vars, NEW v \in Values, PortsFindQueryMatch(n, v, x) PROVE Abstract!Next
  BY <1>1, <1>9, Ends, Element, VarIs DEF PortsFindQueryMatch
<1>10. ASSUME NEW i \in 1 .. Len(Of(n)), PortsErase(n, i) PROVE Abstract!Next
  BY <1>2, <1>10, RemoveIs DEF PortsErase
<1>11. ASSUME PortsClear(n) PROVE Abstract!Next
  BY <1>2, <1>11, RemoveIs DEF PortsClear
<1>12. ASSUME NEW m \in Messages, SettingRequestNew(m, n) \/ SettingRequestGetters(m, n)
       PROVE  Abstract!Next
  BY <1>1, <1>12, HandOnIs DEF SettingRequestNew, SettingRequestGetters
<1>13. ASSUME NEW m \in Messages, NEW h \in Holders, SettingRequestFromJSON(m, h)
       PROVE  Abstract!Next
  BY <1>3, <1>13, FromJSONIs DEF SettingRequestFromJSON, ReceiveList
<1> QED
  BY <1>4, <1>5, <1>6, <1>7, <1>8, <1>9, <1>10, <1>11, <1>12, <1>13 DEF PortsStep

LEMMA ConnectionsIs ==
  ASSUME IInv, NEW n \in Names, ConnectionsStep(n)
  PROVE  Abstract!Next
<1>1. class = "Connections" /\ class \in Kept /\ class \notin Transforms
  BY DEF ConnectionsStep, Kept, Transforms
<1>2. Own(n) => Mine(n) BY DEF Own, Mine
<1>3. Names \subseteq Holders /\ Messages \subseteq Holders BY DEF Holders
<1>4. ASSUME NEW xs \in Arrays, ConnectionsNew(n, xs) PROVE Abstract!Next
  BY <1>1, <1>4, NewIs DEF ConnectionsNew
<1>5. ASSUME NEW h \in Holders, ConnectionsFromJSON(n, h) PROVE Abstract!Next
  BY <1>3, <1>5, FromJSONIs DEF ConnectionsFromJSON
<1>6. ASSUME NEW x \in Vars, ConnectionsPushBack(n, x) PROVE Abstract!Next
  BY <1>1, <1>2, <1>6, Ends, InsertRefIs DEF ConnectionsPushBack
<1>7. ASSUME NEW x \in Vars, NEW i \in 1 .. Len(Of(n)) + 1, ConnectionsInsert(n, i, x)
      PROVE  Abstract!Next
  BY <1>1, <1>2, <1>7, InsertRefIs DEF ConnectionsInsert
<1>8. ASSUME NEW x \in Vars, NEW i \in 1 .. Len(Of(n)), ConnectionsGetIndex(n, i, x)
      PROVE  Abstract!Next
  BY <1>1, <1>8, Ends, Element, VarIs DEF ConnectionsGetIndex
<1>9. ASSUME NEW i \in 1 .. Len(Of(n)), ConnectionsErase(n, i) PROVE Abstract!Next
  BY <1>2, <1>9, RemoveIs DEF ConnectionsErase
<1>10. ASSUME ConnectionsClear(n) PROVE Abstract!Next
  BY <1>2, <1>10, RemoveIs DEF ConnectionsClear
<1>11. content \in [Objs -> Values] /\ lent \subseteq Names BY DEF IInv, Typed
<1>12. ASSUME NEW g \in Holders, NEW h \in Holders, ConnectionsIntersection(n, g, h)
       PROVE  Abstract!Next
  <2> DEFINE I == {i \in DOMAIN Of(g) :
                     content[Of(g)[i]] \in {content[p] : p \in Range(Of(h))}}
  <2>1. PICK f \in InOrder(I, Len(Of(g))) : Build(n, [i \in DOMAIN f |-> Of(g)[f[i]]], content)
    BY <1>12 DEF ConnectionsIntersection
  <2>2. Of(g) \in Seq(Objs) /\ Len(Of(g)) \in Nat BY OneList DEF IInv
  <2>3. I \in SUBSET DOMAIN Of(g) OBVIOUS
  <2> HIDE DEF I
  <2> DEFINE objs == [i \in DOMAIN f |-> Of(g)[f[i]]]
  <2>4. /\ objs \in Seq(Objs) /\ DOMAIN objs = DOMAIN f
        /\ \A i \in DOMAIN f : f[i] \in DOMAIN Of(g) /\ objs[i] = Of(g)[f[i]]
    BY <2>2, <2>3, Picked
  <2>5. lent' \subseteq Names BY <1>11, <1>12 DEF ConnectionsIntersection
  <2>6. Build(n, objs, content) BY <2>1
  <2> HIDE DEF objs
  <2>7. VarNow' = VarNow /\ ValueNow' = [ValueNow EXCEPT ![n] = On(content, objs)]
    BY <1>3, <1>11, <2>4, <2>5, <2>6, BuildIs
  <2>8. /\ DOMAIN ValueNow[g] = DOMAIN Of(g) /\ Len(ValueNow[g]) = Len(Of(g))
        /\ \A i \in DOMAIN Of(g) : ValueNow[g][i] = content[Of(g)[i]]
    BY <1>11, <2>2, OnIs, NowIs DEF On
  <2>9. {content[p] : p \in Range(Of(h))} = Range(ValueNow[h])
    BY NowIs DEF On, Range
  <2>10. I = {i \in DOMAIN ValueNow[g] : ValueNow[g][i] \in Range(ValueNow[h])}
    BY <2>8, <2>9 DEF I
  <2>11. f \in InOrder({i \in DOMAIN ValueNow[g] : ValueNow[g][i] \in Range(ValueNow[h])},
                       Len(ValueNow[g]))
    BY <2>1, <2>8, <2>10
  <2>12. On(content, objs) = [i \in DOMAIN f |-> ValueNow[g][f[i]]]
    BY <2>4, <2>8 DEF On
  <2>13. On(content, objs) \in Abstract!Built(2) BY <2>11, <2>12, TheBuilt
  <2> QED BY <1>3, <2>7, <2>13, AnEdit
<1>13. ASSUME NEW m \in Messages, GroupGates(m, n) PROVE Abstract!Next
  BY <1>1, <1>13, HandOnIs DEF GroupGates
<1>14. ASSUME NEW m \in Messages, GroupOrder(m, n) PROVE Abstract!Next
  <2>1. Of(m) \in Seq(Objs) BY <1>3, OneList DEF IInv
  <2>2. lent' \subseteq Names /\ Build(n, Of(m), content) BY <1>11, <1>14 DEF GroupOrder
  <2>3. VarNow' = VarNow /\ ValueNow' = [ValueNow EXCEPT ![n] = ValueNow[m]]
    BY <1>3, <1>11, <2>1, <2>2, BuildIs, NowIs
  <2> QED BY <1>3, <2>3, TheBuilt, AnEdit
<1>15. ASSUME NEW m \in Messages, NEW h \in Holders, GroupFromJSON(m, h) PROVE Abstract!Next
  BY <1>3, <1>15, FromJSONIs DEF GroupFromJSON, ReceiveList
<1> QED
  BY <1>4, <1>5, <1>6, <1>7, <1>8, <1>9, <1>10, <1>12, <1>13, <1>14, <1>15
  DEF ConnectionsStep

LEMMA ChannelsIs ==
  ASSUME IInv, NEW n \in Names, ChannelsStep(n)
  PROVE  Abstract!Next
<1>1. class = "Channels" /\ class \notin Kept /\ class \notin Transforms
  BY DEF ChannelsStep, Kept, Transforms
<1>2. Mine(n) BY <1>1 DEF Mine
<1>3. Names \subseteq Holders BY DEF Holders
<1>4. ASSUME NEW xs \in Arrays, ChannelsNew(n, xs) PROVE Abstract!Next
  BY <1>1, <1>4, NewIs DEF ChannelsNew
<1>5. ASSUME NEW h \in Names, ChannelsFromJSON(n, h) PROVE Abstract!Next
  BY <1>3, <1>5, FromJSONIs DEF ChannelsFromJSON
<1>6. ASSUME NEW x \in Vars, ChannelsPushBack(n, x) PROVE Abstract!Next
  BY <1>1, <1>2, <1>6, Ends, InsertRefIs DEF ChannelsPushBack
<1>7. ASSUME NEW x \in Vars, NEW i \in 1 .. Len(Of(n)) + 1, ChannelsInsert(n, i, x)
      PROVE  Abstract!Next
  BY <1>1, <1>2, <1>7, InsertRefIs DEF ChannelsInsert
<1>8. ASSUME NEW x \in Vars, NEW i \in 1 .. Len(Of(n)), ChannelsGetIndex(n, i, x)
      PROVE  Abstract!Next
  BY <1>1, <1>8, Ends, Element, VarIs DEF ChannelsGetIndex
<1>9. ASSUME NEW x \in Vars, NEW i \in 1 .. Len(Of(n)), ChannelsSetIndex(n, i, x)
      PROVE  Abstract!Next
  BY <1>1, <1>2, <1>9, ReplaceRefIs DEF ChannelsSetIndex
<1>10. ASSUME NEW x \in Vars, ChannelsPopBack(n, x) PROVE Abstract!Next
  BY <1>2, <1>10, TakeIs DEF ChannelsPopBack
<1>11. ASSUME NEW i \in 1 .. Len(Of(n)), ChannelsErase(n, i) PROVE Abstract!Next
  BY <1>2, <1>11, RemoveIs DEF ChannelsErase
<1>12. ASSUME ChannelsClear(n) PROVE Abstract!Next
  BY <1>2, <1>12, RemoveIs DEF ChannelsClear
<1> QED
  BY <1>4, <1>5, <1>6, <1>7, <1>8, <1>9, <1>10, <1>11, <1>12 DEF ChannelsStep

LEMMA PortTransformsIs ==
  ASSUME IInv, NEW n \in Names, PortTransformsStep(n)
  PROVE  Abstract!Next
<1>1. class = "PortTransforms" /\ class \notin Kept /\ class \in Transforms
  BY DEF PortTransformsStep, Kept, Transforms
<1>2. Mine(n) BY <1>1 DEF Mine
<1>3. Names \subseteq Holders BY DEF Holders
<1>4. ASSUME NEW xs \in Arrays, PortTransformsNew(n, xs) PROVE Abstract!Next
  BY <1>4, NewIs DEF PortTransformsNew
<1>5. ASSUME NEW h \in Names, PortTransformsFromJSON(n, h) PROVE Abstract!Next
  BY <1>3, <1>5, FromJSONIs DEF PortTransformsFromJSON
<1>6. ASSUME NEW x \in Vars, PortTransformsPushBack(n, x) PROVE Abstract!Next
  BY <1>2, <1>6, Ends, InsertCopyIs DEF PortTransformsPushBack
<1>7. ASSUME NEW x \in Vars, NEW i \in 1 .. Len(Of(n)) + 1, PortTransformsInsert(n, i, x)
      PROVE  Abstract!Next
  BY <1>2, <1>7, InsertCopyIs DEF PortTransformsInsert
<1>8. ASSUME NEW x \in Vars, NEW i \in 1 .. Len(Of(n)), PortTransformsGetIndex(n, i, x)
      PROVE  Abstract!Next
  BY <1>8, Ends, Element, VarIs DEF PortTransformsGetIndex
<1>9. ASSUME NEW x \in Vars, NEW i \in 1 .. Len(Of(n)), PortTransformsSetIndex(n, i, x)
      PROVE  Abstract!Next
  BY <1>1, <1>9, OverwriteIs DEF PortTransformsSetIndex
<1>10. ASSUME NEW i \in 1 .. Len(Of(n)), PortTransformsErase(n, i) PROVE Abstract!Next
  BY <1>2, <1>10, RemoveIs DEF PortTransformsErase
<1>11. ASSUME PortTransformsClear(n) PROVE Abstract!Next
  BY <1>2, <1>11, RemoveIs DEF PortTransformsClear
<1> QED
  BY <1>4, <1>5, <1>6, <1>7, <1>8, <1>9, <1>10, <1>11 DEF PortTransformsStep

LEMMA WaveformIs ==
  ASSUME IInv, NEW n \in Names, WaveformStep(n)
  PROVE  Abstract!Next
<1>1. class = "Waveform" /\ class \notin Kept /\ class \in Transforms
  BY DEF WaveformStep, Kept, Transforms
<1>2. Mine(n) BY <1>1 DEF Mine
<1>3. Names \subseteq Holders BY DEF Holders
<1>4. ASSUME NEW xs \in Arrays,
             WaveformNew(n, xs) \/ WaveformNewCartesian(n, xs) \/ WaveformNewCartesian1D(n, xs)
      PROVE  Abstract!Next
  BY <1>4, NewIs DEF WaveformNew, WaveformNewCartesian, WaveformNewCartesian1D
<1>5. ASSUME NEW v \in Values, WaveformNewIdentity(n, v) PROVE Abstract!Next
  <2>1. PICK o \in FreshObjs : Build(n, <<o>>, [content EXCEPT ![o] = v])
    BY <1>5 DEF WaveformNewIdentity
  <2>2. content \in [Objs -> Values] /\ lent \subseteq Names BY DEF IInv, Typed
  <2>3. o \in Objs BY FreshIs
  <2>4. [content EXCEPT ![o] = v] \in [Objs -> Values] BY <2>2, <2>3
  <2> DEFINE s == <<o>>
             ct == [content EXCEPT ![o] = v]
  <2>5. /\ s \in Seq(Objs) /\ On(ct, s) = <<v>> /\ ct \in [Objs -> Values]
        /\ \A p \in Objs \ FreshObjs : ct[p] = content[p]
    BY <2>2, <2>3, <2>4 DEF On
  <2>6. lent' \subseteq Names BY <1>5, <2>2 DEF WaveformNewIdentity
  <2>7. Build(n, s, ct) BY <2>1
  <2> HIDE DEF s, ct
  <2>8. VarNow' = VarNow /\ ValueNow' = [ValueNow EXCEPT ![n] = <<v>>]
    BY <1>3, <2>5, <2>6, <2>7, BuildIs
  <2> QED BY <1>3, <2>8, TheBuilt, AnEdit
<1>6. ASSUME NEW h \in Names, WaveformFromJSON(n, h) PROVE Abstract!Next
  BY <1>3, <1>6, FromJSONIs DEF WaveformFromJSON
<1>7. ASSUME NEW x \in Vars, WaveformPushBack(n, x) PROVE Abstract!Next
  BY <1>2, <1>7, Ends, InsertCopyIs DEF WaveformPushBack
<1>8. ASSUME NEW x \in Vars, WaveformPopBack(n, x) PROVE Abstract!Next
  BY <1>2, <1>8, TakeIs DEF WaveformPopBack
<1>9. ASSUME NEW x \in Vars, NEW i \in 1 .. Len(Of(n)) + 1, WaveformInsert(n, i, x)
      PROVE  Abstract!Next
  BY <1>2, <1>9, InsertCopyIs DEF WaveformInsert
<1>10. ASSUME NEW x \in Vars, NEW i \in 1 .. Len(Of(n)), WaveformGetIndex(n, i, x)
       PROVE  Abstract!Next
  BY <1>10, Ends, Element, VarIs DEF WaveformGetIndex
<1>11. ASSUME NEW x \in Vars, NEW i \in 1 .. Len(Of(n)), WaveformSetIndex(n, i, x)
       PROVE  Abstract!Next
  BY <1>1, <1>11, OverwriteIs DEF WaveformSetIndex
<1>12. ASSUME NEW i \in 1 .. Len(Of(n)), WaveformErase(n, i) PROVE Abstract!Next
  BY <1>2, <1>12, RemoveIs DEF WaveformErase
<1>13. ASSUME WaveformClear(n) PROVE Abstract!Next
  BY <1>2, <1>13, RemoveIs DEF WaveformClear
<1> QED
  BY <1>4, <1>5, <1>6, <1>7, <1>8, <1>9, <1>10, <1>11, <1>12, <1>13 DEF WaveformStep

LEMMA DeviceVoltageStatesIs ==
  ASSUME IInv, NEW n \in Names, DeviceVoltageStatesStep(n)
  PROVE  Abstract!Next
<1>1. class = "DeviceVoltageStates" /\ class \in Kept /\ class \notin Transforms
  BY DEF DeviceVoltageStatesStep, Kept, Transforms
<1>2. Own(n) => Mine(n) BY DEF Own, Mine
<1>3. Names \subseteq Holders /\ Messages \subseteq Holders BY DEF Holders
<1>4. ASSUME NEW xs \in Arrays, DeviceVoltageStatesNew(n, xs) PROVE Abstract!Next
  BY <1>1, <1>4, NewIs DEF DeviceVoltageStatesNew
<1>5. ASSUME NEW h \in Holders, DeviceVoltageStatesFromJSON(n, h) PROVE Abstract!Next
  BY <1>3, <1>5, FromJSONIs DEF DeviceVoltageStatesFromJSON
<1>6. ASSUME NEW x \in Vars, DeviceVoltageStatesAddState(n, x) PROVE Abstract!Next
  BY <1>1, <1>2, <1>6, Ends, InsertRefIs DEF DeviceVoltageStatesAddState
<1>7. ASSUME NEW x \in Vars, NEW i \in 1 .. Len(Of(n)) + 1,
             DeviceVoltageStatesInsert(n, i, x)
      PROVE  Abstract!Next
  BY <1>1, <1>2, <1>7, InsertRefIs DEF DeviceVoltageStatesInsert
<1>8. ASSUME NEW x \in Vars, NEW v \in Values, DeviceVoltageStatesFindState(n, v, x)
      PROVE  Abstract!Next
  BY <1>8, Ends, Element, VarIs DEF DeviceVoltageStatesFindState
<1>9. ASSUME DeviceVoltageStatesClear(n) PROVE Abstract!Next
  BY <1>2, <1>9, RemoveIs DEF DeviceVoltageStatesClear
<1>10. ASSUME NEW m \in Messages,
              VoltageStatesResponseNew(m, n) \/ VoltageStatesResponseStates(m, n)
       PROVE  Abstract!Next
  BY <1>1, <1>10, HandOnIs DEF VoltageStatesResponseNew, VoltageStatesResponseStates
<1>11. ASSUME NEW m \in Messages, NEW h \in Holders, VoltageStatesResponseFromJSON(m, h)
       PROVE  Abstract!Next
  BY <1>3, <1>11, FromJSONIs DEF VoltageStatesResponseFromJSON, ReceiveList
<1> QED
  BY <1>4, <1>5, <1>6, <1>7, <1>8, <1>9, <1>10, <1>11 DEF DeviceVoltageStatesStep

LEMMA CoupledLabelledDomainIs ==
  ASSUME IInv, NEW n \in Names, CoupledLabelledDomainStep(n)
  PROVE  Abstract!Next
<1>1. class = "CoupledLabelledDomain" /\ class \notin Kept /\ class \notin Transforms
  BY DEF CoupledLabelledDomainStep, Kept, Transforms
<1>2. Mine(n) BY <1>1 DEF Mine
<1>3. Names \subseteq Holders BY DEF Holders
<1>4. ASSUME NEW xs \in Arrays, CoupledLabelledDomainNew(n, xs) PROVE Abstract!Next
  BY <1>1, <1>4, NewIs DEF CoupledLabelledDomainNew
<1>5. ASSUME NEW h \in Names, CoupledLabelledDomainFromJSON(n, h) PROVE Abstract!Next
  BY <1>3, <1>5, FromJSONIs DEF CoupledLabelledDomainFromJSON
<1>6. ASSUME NEW x \in Vars, CoupledLabelledDomainPushBack(n, x) PROVE Abstract!Next
  BY <1>1, <1>2, <1>6, Ends, InsertRefIs DEF CoupledLabelledDomainPushBack
<1>7. ASSUME NEW x \in Vars, NEW v \in Values, CoupledLabelledDomainGetDomain(n, v, x)
      PROVE  Abstract!Next
  BY <1>1, <1>7, Ends, Element, VarIs DEF CoupledLabelledDomainGetDomain
<1>8. ASSUME NEW x \in Vars, NEW i \in 1 .. Len(Of(n)) + 1,
             CoupledLabelledDomainInsert(n, i, x)
      PROVE  Abstract!Next
  BY <1>1, <1>2, <1>8, InsertRefIs DEF CoupledLabelledDomainInsert
<1>9. ASSUME NEW x \in Vars, NEW i \in 1 .. Len(Of(n)),
             CoupledLabelledDomainGetIndex(n, i, x)
      PROVE  Abstract!Next
  BY <1>1, <1>9, Ends, Element, VarIs DEF CoupledLabelledDomainGetIndex
<1>10. ASSUME NEW i \in 1 .. Len(Of(n)), CoupledLabelledDomainErase(n, i) PROVE Abstract!Next
  BY <1>2, <1>10, RemoveIs DEF CoupledLabelledDomainErase
<1>11. ASSUME CoupledLabelledDomainClear(n) PROVE Abstract!Next
  BY <1>2, <1>11, RemoveIs DEF CoupledLabelledDomainClear
<1> QED
  BY <1>4, <1>5, <1>6, <1>7, <1>8, <1>9, <1>10, <1>11 DEF CoupledLabelledDomainStep

LEMMA StartIs == Init => Abstract!Init
<1> SUFFICES ASSUME Init PROVE Abstract!Init OBVIOUS
<1>1. IInv BY Initially
<1>2. VarNow \in [Vars -> Values] BY <1>1, NowTyped DEF IInv
<1>3. \A h \in Holders : list[h] \in Lists BY DEF Init
<1>4. \A h \in Holders : Of(h) = <<>> BY <1>3 DEF Init, Of
<1>5. ValueNow = [h \in Holders |-> <<>>] BY <1>4 DEF ValueNow
<1> QED BY <1>2, <1>5 DEF Abstract!Init, VarNow, ValueNow

LEMMA StepIs == IInv /\ [Next]_vars => [Abstract!Next]_(Abstract!vars)
<1> SUFFICES ASSUME IInv, [Next]_vars PROVE [Abstract!Next]_(Abstract!vars) OBVIOUS
<1>1. ASSUME NEW x \in Vars, NEW v \in Values, NewElement(x, v) PROVE Abstract!Next
  BY <1>1, VarIs
<1>2. ASSUME NEW n \in Names,
             \/ PortsStep(n) \/ ConnectionsStep(n) \/ ChannelsStep(n)
             \/ PortTransformsStep(n) \/ WaveformStep(n)
             \/ DeviceVoltageStatesStep(n) \/ CoupledLabelledDomainStep(n)
      PROVE  Abstract!Next
  BY <1>2, PortsIs, ConnectionsIs, ChannelsIs, PortTransformsIs, WaveformIs,
     DeviceVoltageStatesIs, CoupledLabelledDomainIs
<1>3. CASE UNCHANGED vars
  <2>1. UNCHANGED VarNow /\ UNCHANGED ValueNow
    BY <1>3 DEF vars, VarNow, ValueNow, Of
  <2> QED BY <2>1 DEF Abstract!vars, VarNow, ValueNow
<1> QED BY <1>1, <1>2, <1>3 DEF Next

\* With pointers and copies the wrappers implement lists of values, for a
\* script that keeps to the rules.
THEOREM PointersImplementValues == Spec => ListsAreValues
<1>1. Spec => Abstract!Init /\ [][Abstract!Next]_(Abstract!vars)
  BY Inductive, StartIs, StepIs, PTL DEF Spec
<1> QED BY <1>1 DEF ListsAreValues, Abstract!Spec
=============================================================================
