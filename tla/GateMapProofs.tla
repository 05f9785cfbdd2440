---------------------------- MODULE GateMapProofs ---------------------------
(***************************************************************************)
(* What Put and Drop do to a Map that lists a gate once, gates compared by *)
(* name: the keys they leave, in which order, and the values under them.   *)
(***************************************************************************)
EXTENDS GateMap, TLAPS

\* Entries of known length and known elements are a sequence of entries.
LEMMA EntrySeq ==
  ASSUME NEW S, NEW n \in Nat, NEW f \in [1 .. n -> S]
  PROVE  f \in Seq(S) /\ Len(f) = n
OBVIOUS

\* In a Map that lists a gate once, the first entry for a gate is the one for it.
LEMMA FirstIsOnly ==
  ASSUME NEW e, Len(e) \in Nat, OncePerGate(e), NEW i \in 1 .. Len(e)
  PROVE  FirstOf(e, {e[i].gate}) = i
  <1> DEFINE P(j) == /\ e[j].gate \in {e[i].gate}
                     /\ \A h \in 1 .. j - 1 : e[h].gate \notin {e[i].gate}
  <1>1. P(i) BY DEF OncePerGate
  <1>2. \A j \in 1 .. Len(e) : P(j) => j = i BY DEF OncePerGate
  <1> QED BY <1>1, <1>2 DEF FirstOf

\* A gate the Map holds has a first entry, for it.
LEMMA FirstFound ==
  ASSUME NEW e, Len(e) \in Nat, OncePerGate(e), NEW g, Holds(e, {g})
  PROVE  /\ FirstOf(e, {g}) \in 1 .. Len(e)
         /\ e[FirstOf(e, {g})].gate = g
  <1>1. PICK i \in 1 .. Len(e) : e[i].gate = g BY DEF Holds
  <1> QED BY <1>1, FirstIsOnly

\* r is e with the gate g set to v: the gates of e in their order, followed by
\* g if it is new, each once, and every other gate with the value it had.
IsPut(T, e, g, v, r) ==
  /\ r \in Seq(T)
  /\ OncePerGate(r)
  /\ Len(r) = IF Holds(e, {g}) THEN Len(e) ELSE Len(e) + 1
  /\ \A i \in 1 .. Len(r) :
       r[i] = IF i <= Len(e) /\ e[i].gate # g THEN e[i] ELSE Entry(g, v)
  /\ \A i \in 1 .. Len(r) :
       r[i].gate = IF i <= Len(e) THEN e[i].gate ELSE g

\* r is e without the entry at position at.
IsCut(T, e, at, r) ==
  /\ r \in Seq(T)
  /\ OncePerGate(r)
  /\ Len(r) = Len(e) - 1
  /\ \A i \in 1 .. Len(r) : r[i] = IF i < at THEN e[i] ELSE e[i + 1]

LEMMA PutHeld ==
  ASSUME NEW T, NEW e \in Seq(T), OncePerGate(e), NEW g, NEW v, Entry(g, v) \in T,
         NEW at \in 1 .. Len(e), e[at].gate = g,
         NEW r, r = [i \in 1 .. Len(e) |-> IF i = at THEN Entry(g, v) ELSE e[i]]
  PROVE  IsPut(T, e, g, v, r)
  <1>1. Len(e) \in Nat /\ Entry(g, v).gate = g BY DEF Entry
  <1>2. r \in [1 .. Len(e) -> T] OBVIOUS
  <1>3. r \in Seq(T) /\ Len(r) = Len(e) BY <1>1, <1>2, EntrySeq
  <1>4. Holds(e, {g}) BY DEF Holds
  <1>5. \A i \in 1 .. Len(e) : e[i].gate = g <=> i = at BY DEF OncePerGate
  <1>6. \A i \in 1 .. Len(e) : r[i].gate = e[i].gate BY <1>1
  <1>7. OncePerGate(r) BY <1>3, <1>6 DEF OncePerGate
  <1> QED BY <1>1, <1>3, <1>4, <1>5, <1>6, <1>7 DEF IsPut

LEMMA PutNew ==
  ASSUME NEW T, NEW e \in Seq(T), OncePerGate(e), NEW g, NEW v, Entry(g, v) \in T,
         ~Holds(e, {g}), NEW r, r = Append(e, Entry(g, v))
  PROVE  IsPut(T, e, g, v, r)
  <1>1. Len(e) \in Nat /\ Entry(g, v).gate = g BY DEF Entry
  <1>2. r \in Seq(T) /\ Len(r) = Len(e) + 1 OBVIOUS
  <1>3. \A i \in 1 .. Len(r) : r[i] = IF i <= Len(e) THEN e[i] ELSE Entry(g, v)
    BY <1>1, <1>2
  <1>4. \A i \in 1 .. Len(e) : e[i].gate # g BY DEF Holds
  <1>5. OncePerGate(r) BY <1>1, <1>2, <1>3, <1>4 DEF OncePerGate
  <1> QED BY <1>1, <1>2, <1>3, <1>4, <1>5 DEF IsPut

\* Map.Set does what IsPut says.
LEMMA PutResult ==
  ASSUME NEW T, NEW e \in Seq(T), OncePerGate(e), NEW g, NEW v, Entry(g, v) \in T
  PROVE  IsPut(T, e, g, v, Put(e, {g}, g, v))
  <1>1. CASE Holds(e, {g})
    <2>0. FirstOf(e, {g}) \in 1 .. Len(e) /\ e[FirstOf(e, {g})].gate = g
      <3>1. Len(e) \in Nat OBVIOUS
      <3> QED BY <1>1, <3>1, FirstFound
    <2>1. PICK at \in 1 .. Len(e) : at = FirstOf(e, {g}) /\ e[at].gate = g
      BY <2>0
    <2>2. Put(e, {g}, g, v) =
            [i \in 1 .. Len(e) |-> IF i = at THEN Entry(g, v) ELSE e[i]]
      BY <1>1, <2>1 DEF Put
    <2> QED BY <2>1, <2>2, PutHeld
  <1>2. CASE ~Holds(e, {g})
    BY <1>2, PutNew DEF Put
  <1> QED BY <1>1, <1>2

LEMMA CutResult ==
  ASSUME NEW T, NEW e \in Seq(T), OncePerGate(e), NEW at \in 1 .. Len(e),
         NEW r, r = [j \in 1 .. Len(e) - 1 |-> IF j < at THEN e[j] ELSE e[j + 1]]
  PROVE  IsCut(T, e, at, r)
  <1>1. Len(e) \in Nat /\ Len(e) - 1 \in Nat OBVIOUS
  <1>2. r \in [1 .. Len(e) - 1 -> T] OBVIOUS
  <1>3. r \in Seq(T) /\ Len(r) = Len(e) - 1 BY <1>1, <1>2, EntrySeq
  <1>4. \A i \in 1 .. Len(r) : r[i] = IF i < at THEN e[i] ELSE e[i + 1]
    BY <1>3
  <1>5. OncePerGate(r) BY <1>1, <1>3, <1>4 DEF OncePerGate
  <1> QED BY <1>3, <1>4, <1>5 DEF IsCut

\* Map.Remove of a gate at position at cuts that entry.
LEMMA DropResult ==
  ASSUME NEW T, NEW e \in Seq(T), OncePerGate(e),
         NEW at \in 1 .. Len(e)
  PROVE  IsCut(T, e, at, Drop(e, {e[at].gate}))
  <1>1. FirstOf(e, {e[at].gate}) = at BY FirstIsOnly
  <1>2. Holds(e, {e[at].gate}) BY DEF Holds
  <1>3. Drop(e, {e[at].gate}) =
          [j \in 1 .. Len(e) - 1 |-> IF j < at THEN e[j] ELSE e[j + 1]]
    BY <1>1, <1>2 DEF Drop
  <1> QED BY <1>3, CutResult
=============================================================================
