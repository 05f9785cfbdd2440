------------------------------ MODULE KeyValue ------------------------------
(***************************************************************************)
(* What a Map promises (libs/collections/map/map.fal): a partial function  *)
(* from keys to values.  answer is what the last call returned.            *)
(***************************************************************************)
EXTENDS FiniteSets

CONSTANTS Keys, Values

\* Answers of a call: a runtime error, a flag, a value, a number of entries.
Failed == <<"failed">>
Flag(b) == <<"flag", b>>
Value(v) == <<"value", v>>
Count(n) == <<"count", n>>

VARIABLES store, answer

vars == <<store, answer>>

Init == store = [k \in {} |-> {}] /\ answer = Failed

Set(k, v) ==
  /\ store' = [x \in DOMAIN store \cup {k} |-> IF x = k THEN v ELSE store[x]]
  /\ UNCHANGED answer

Remove(k) ==
  /\ answer' = Flag(k \in DOMAIN store)
  /\ store' = [x \in DOMAIN store \ {k} |-> store[x]]

Clear == store' = [k \in {} |-> {}] /\ UNCHANGED answer

Get(k) ==
  /\ answer' = IF k \in DOMAIN store THEN Value(store[k]) ELSE Failed
  /\ UNCHANGED store

GetOr(k, default) ==
  /\ answer' = Value(IF k \in DOMAIN store THEN store[k] ELSE default)
  /\ UNCHANGED store

Has(k) == answer' = Flag(k \in DOMAIN store) /\ UNCHANGED store

Size == answer' = Count(Cardinality(DOMAIN store)) /\ UNCHANGED store

Next ==
  \/ \E k \in Keys, v \in Values : Set(k, v) \/ GetOr(k, v)
  \/ \E k \in Keys : Remove(k) \/ Get(k) \/ Has(k)
  \/ Clear \/ Size

Spec == Init /\ [][Next]_vars
=============================================================================
