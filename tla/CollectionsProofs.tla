-------------------------- MODULE CollectionsProofs -------------------------
(***************************************************************************)
(* Proofs about Collections for any keys, values and items and any bounds: *)
(* where the script leaves the arrays of a Map alone they stay paired, and *)
(* together they implement the partial function of KeyValue; and whatever  *)
(* it writes to them, an iterator sweeps what is there.                    *)
(***************************************************************************)
EXTENDS Collections, FiniteSetTheorems, WellFoundedInduction, TLAPS

\* Two paired arrays, and the function they stand for.
Distinct(ks) == \A i, j \in 1 .. Len(ks) : ks[i] = ks[j] => i = j
Pair(ks, vs) ==
  /\ ks \in Seq(Keys) /\ vs \in Seq(Values)
  /\ Len(ks) = Len(vs) /\ Distinct(ks)
MapOf(ks, vs) == [k \in RangeOf(ks) |-> At(vs, IndexOf(ks, k))]

IInv == Pair(keys_, values_)

-----------------------------------------------------------------------------
(* Looking a key up.                                                       *)

LEMMA IndexFound ==
  ASSUME NEW ks \in Seq(Keys), Distinct(ks), NEW i \in 1 .. Len(ks)
  PROVE  IndexOf(ks, ks[i]) = i - 1
  <1> DEFINE P(j) == ks[j] = ks[i] /\ \A h \in 1 .. j - 1 : ks[h] # ks[i]
  <1>1. Len(ks) \in Nat OBVIOUS
  <1>2. P(i) BY <1>1 DEF Distinct
  <1>3. \A j \in 1 .. Len(ks) : P(j) => j = i BY <1>1 DEF Distinct
  <1>4. (CHOOSE j \in 1 .. Len(ks) : P(j)) = i BY <1>2, <1>3
  <1>5. \E j \in 1 .. Len(ks) : ks[j] = ks[i] OBVIOUS
  <1> QED BY <1>4, <1>5 DEF IndexOf

LEMMA IndexMissing ==
  ASSUME NEW ks, NEW k, ~HasElement(ks, k)
  PROVE  IndexOf(ks, k) = -1
BY DEF HasElement, IndexOf

LEMMA MapAt ==
  ASSUME NEW ks, NEW vs, Pair(ks, vs), NEW i \in 1 .. Len(ks)
  PROVE  /\ ks[i] \in DOMAIN MapOf(ks, vs)
         /\ MapOf(ks, vs)[ks[i]] = vs[i]
  <1>1. ks[i] \in RangeOf(ks) BY DEF RangeOf
  <1>2. IndexOf(ks, ks[i]) = i - 1 BY IndexFound DEF Pair
  <1>3. MapOf(ks, vs)[ks[i]] = vs[IndexOf(ks, ks[i]) + 1]
    BY <1>1 DEF MapOf, At
  <1>4. Len(ks) \in Nat BY DEF Pair
  <1>5. i - 1 + 1 = i BY <1>4
  <1> QED BY <1>1, <1>2, <1>3, <1>5 DEF MapOf

LEMMA MapDomain ==
  ASSUME NEW ks, NEW vs, NEW k
  PROVE  k \in DOMAIN MapOf(ks, vs) <=> HasElement(ks, k)
BY DEF MapOf, RangeOf, HasElement

\* A function with the same keys and values is the function.
HasEntries(f, ks, vs) ==
  /\ f = [k \in RangeOf(ks) |-> f[k]]
  /\ \A i \in 1 .. Len(ks) : f[ks[i]] = vs[i]

LEMMA MapIs ==
  ASSUME NEW ks, NEW vs, Pair(ks, vs), NEW f, HasEntries(f, ks, vs)
  PROVE  f = MapOf(ks, vs)
  <1> DEFINE S == RangeOf(ks)
  <1>1. \A k \in S : f[k] = MapOf(ks, vs)[k]
    <2> TAKE k \in S
    <2>1. PICK i \in 1 .. Len(ks) : k = ks[i] BY DEF RangeOf
    <2> QED BY <2>1, MapAt DEF HasEntries
  <1>2. MapOf(ks, vs) = [k \in S |-> MapOf(ks, vs)[k]] BY DEF MapOf
  <1> QED BY <1>1, <1>2 DEF HasEntries

-----------------------------------------------------------------------------
(* Set and Remove on paired arrays.                                        *)

\* N is M with key k set to v; N is M without key k.
IsUpdate(M, N, k, v) ==
  N = [x \in DOMAIN M \cup {k} |-> IF x = k THEN v ELSE M[x]]
IsRemoval(M, N, k) == N = [x \in DOMAIN M \ {k} |-> M[x]]

LEMMA Overwrite ==
  ASSUME NEW ks, NEW vs, Pair(ks, vs), NEW i \in 1 .. Len(ks), NEW v \in Values,
         NEW ws, ws = [vs EXCEPT ![i] = v]
  PROVE  /\ Pair(ks, ws)
         /\ IsUpdate(MapOf(ks, vs), MapOf(ks, ws), ks[i], v)
  <1>1. ws \in Seq(Values) /\ Len(ws) = Len(vs) BY DEF Pair
  <1>2. \A j \in 1 .. Len(ks) : ws[j] = IF j = i THEN v ELSE vs[j] BY DEF Pair
  <1>3. Pair(ks, ws) BY <1>1 DEF Pair
  <1> DEFINE S == DOMAIN MapOf(ks, vs) \cup {ks[i]}
             f == [k \in S |-> IF k = ks[i] THEN v ELSE MapOf(ks, vs)[k]]
  <1>4. S = RangeOf(ks) BY DEF MapOf, RangeOf
  <1>5. \A j \in 1 .. Len(ks) : f[ks[j]] = ws[j]
    <2> TAKE j \in 1 .. Len(ks)
    <2>1. ks[j] \in S BY <1>4 DEF RangeOf
    <2>2. f[ks[j]] = IF ks[j] = ks[i] THEN v ELSE MapOf(ks, vs)[ks[j]] BY <2>1
    <2>3. ks[j] = ks[i] <=> j = i BY DEF Pair, Distinct
    <2> QED BY <1>2, <2>2, <2>3, MapAt
  <1>6. PICK g : g = f OBVIOUS
  <1>7. HasEntries(g, ks, ws)
    BY <1>4, <1>5, <1>6 DEF HasEntries
  <1>8. g = MapOf(ks, ws) BY <1>3, <1>7, MapIs
  <1> QED BY <1>3, <1>6, <1>8 DEF IsUpdate

LEMMA Extend ==
  ASSUME NEW ks, NEW vs, Pair(ks, vs), NEW k \in Keys, ~HasElement(ks, k),
         NEW v \in Values,
         NEW ls, ls = Append(ks, k), NEW ws, ws = Append(vs, v)
  PROVE  /\ Pair(ls, ws)
         /\ IsUpdate(MapOf(ks, vs), MapOf(ls, ws), k, v)
  <1>1. Len(ks) \in Nat /\ Len(ls) = Len(ks) + 1 BY DEF Pair
  <1>2. \A j \in 1 .. Len(ls) : ls[j] = IF j <= Len(ks) THEN ks[j] ELSE k
    BY <1>1 DEF Pair
  <1>3. \A j \in 1 .. Len(ls) : ws[j] = IF j <= Len(ks) THEN vs[j] ELSE v
    BY <1>1 DEF Pair
  <1>4. \A j \in 1 .. Len(ks) : ks[j] # k BY DEF HasElement
  <1>5. Distinct(ls)
    <2>1. Distinct(ks) BY DEF Pair
    <2> QED BY <1>1, <1>2, <1>4, <2>1 DEF Distinct
  <1>6. Pair(ls, ws) BY <1>5 DEF Pair
  <1> DEFINE S == DOMAIN MapOf(ks, vs) \cup {k}
             f == [x \in S |-> IF x = k THEN v ELSE MapOf(ks, vs)[x]]
  <1>7. S = RangeOf(ls)
    <2>1. DOMAIN MapOf(ks, vs) = {ks[j] : j \in 1 .. Len(ks)}
      BY DEF MapOf, RangeOf
    <2>2. ASSUME NEW x \in S PROVE \E j \in 1 .. Len(ls) : ls[j] = x
      <3>1. CASE x = k BY <1>1, <1>2, <3>1
      <3>2. CASE x # k
        <4>1. PICK j \in 1 .. Len(ks) : x = ks[j] BY <2>1, <3>2
        <4> QED BY <1>1, <1>2, <4>1
      <3> QED BY <3>1, <3>2
    <2>3. ASSUME NEW j \in 1 .. Len(ls) PROVE ls[j] \in S
      BY <1>1, <1>2, <2>1
    <2> QED BY <2>2, <2>3 DEF RangeOf
  <1>8. \A j \in 1 .. Len(ls) : f[ls[j]] = ws[j]
    <2> TAKE j \in 1 .. Len(ls)
    <2>1. ls[j] \in S BY <1>7 DEF RangeOf
    <2>2. CASE j <= Len(ks)
      <3>1. j \in 1 .. Len(ks) BY <1>1, <2>2
      <3>2. ls[j] = ks[j] /\ ws[j] = vs[j] /\ ks[j] # k
        BY <1>2, <1>3, <1>4, <2>2, <3>1
      <3>3. MapOf(ks, vs)[ks[j]] = vs[j] BY <3>1, MapAt
      <3> QED BY <2>1, <3>2, <3>3
    <2>3. CASE ~(j <= Len(ks)) BY <1>2, <1>3, <2>1, <2>3
    <2> QED BY <2>2, <2>3
  <1>9. PICK g : g = f OBVIOUS
  <1>10. HasEntries(g, ls, ws)
    BY <1>7, <1>8, <1>9 DEF HasEntries
  <1>11. g = MapOf(ls, ws) BY <1>6, <1>10, MapIs
  <1> QED BY <1>6, <1>9, <1>11 DEF IsUpdate

\* Erasing one position from an array.
IsCut(T, e, at, r) ==
  /\ r \in Seq(T) /\ Len(r) = Len(e) - 1
  /\ \A j \in 1 .. Len(r) : r[j] = IF j < at THEN e[j] ELSE e[j + 1]

LEMMA Erased ==
  ASSUME NEW T, NEW e \in Seq(T), NEW at \in 1 .. Len(e)
  PROVE  IsCut(T, e, at, EraseFrom(e, at - 1))
  <1>0. PICK r : r = EraseFrom(e, at - 1) OBVIOUS
  <1>1. Len(e) \in Nat /\ Len(e) - 1 \in Nat OBVIOUS
  <1>2. \A j \in 1 .. Len(e) - 1 : j <= at - 1 <=> j < at OBVIOUS
  <1>3. r = [j \in 1 .. Len(e) - 1 |-> IF j < at THEN e[j] ELSE e[j + 1]]
    BY <1>0, <1>2 DEF EraseFrom
  <1>4. \A j \in 1 .. Len(e) - 1 : j \in 1 .. Len(e) /\ j + 1 \in 1 .. Len(e)
    BY <1>1
  <1>5. r \in [1 .. Len(e) - 1 -> T] BY <1>3, <1>4
  <1>6. r \in Seq(T) /\ Len(r) = Len(e) - 1 BY <1>1, <1>5
  <1>7. IsCut(T, e, at, r) BY <1>3, <1>6 DEF IsCut
  <1> QED BY <1>0, <1>7

LEMMA Cut ==
  ASSUME NEW ks, NEW vs, Pair(ks, vs), NEW at \in 1 .. Len(ks),
         NEW ls, ls = EraseFrom(ks, at - 1), NEW ws, ws = EraseFrom(vs, at - 1)
  PROVE  /\ Pair(ls, ws)
         /\ IsRemoval(MapOf(ks, vs), MapOf(ls, ws), ks[at])
  <1>1. /\ ks \in Seq(Keys) /\ vs \in Seq(Values) /\ Len(vs) = Len(ks)
        /\ Distinct(ks) /\ Len(ks) \in Nat
    BY DEF Pair
  <1>2. /\ ls \in Seq(Keys) /\ Len(ls) = Len(ks) - 1
        /\ \A j \in 1 .. Len(ls) : ls[j] = IF j < at THEN ks[j] ELSE ks[j + 1]
    <2>1. IsCut(Keys, ks, at, ls) BY <1>1, Erased
    <2> QED BY <2>1 DEF IsCut
  <1>3. /\ ws \in Seq(Values) /\ Len(ws) = Len(ks) - 1
        /\ \A j \in 1 .. Len(ls) : ws[j] = IF j < at THEN vs[j] ELSE vs[j + 1]
    <2>1. IsCut(Values, vs, at, ws) BY <1>1, Erased
    <2> QED BY <1>1, <1>2, <2>1 DEF IsCut
  <1> DEFINE from(j) == IF j < at THEN j ELSE j + 1
  <1>4. \A j \in 1 .. Len(ls) :
          /\ from(j) \in 1 .. Len(ks) /\ from(j) # at
          /\ ls[j] = ks[from(j)] /\ ws[j] = vs[from(j)]
    BY <1>1, <1>2, <1>3
  <1>5. \A h, j \in 1 .. Len(ls) : from(h) = from(j) => h = j BY <1>1, <1>2
  <1>6. \A i \in 1 .. Len(ks) \ {at} : \E j \in 1 .. Len(ls) : from(j) = i
    <2> TAKE i \in 1 .. Len(ks) \ {at}
    <2>1. CASE i < at BY <1>1, <1>2, <2>1
    <2>2. CASE ~(i < at)
      <3>1. i - 1 \in 1 .. Len(ls) /\ from(i - 1) = i BY <1>1, <1>2, <2>2
      <3> QED BY <3>1
    <2> QED BY <2>1, <2>2
  <1> HIDE DEF from
  <1>7. Distinct(ls) BY <1>1, <1>4, <1>5 DEF Distinct
  <1>8. Pair(ls, ws) BY <1>2, <1>3, <1>7 DEF Pair
  <1> DEFINE S == DOMAIN MapOf(ks, vs) \ {ks[at]}
             f == [x \in S |-> MapOf(ks, vs)[x]]
  <1>9. DOMAIN MapOf(ks, vs) = {ks[j] : j \in 1 .. Len(ks)}
    BY DEF MapOf, RangeOf
  <1>10. S = RangeOf(ls)
    <2>1. ASSUME NEW x \in S PROVE \E j \in 1 .. Len(ls) : ls[j] = x
      <3>1. PICK i \in 1 .. Len(ks) : x = ks[i] /\ i # at BY <1>9
      <3>2. PICK j \in 1 .. Len(ls) : from(j) = i BY <1>6, <3>1
      <3> QED BY <1>4, <3>1, <3>2
    <2>2. ASSUME NEW j \in 1 .. Len(ls) PROVE ls[j] \in S
      <3>1. from(j) \in 1 .. Len(ks) /\ from(j) # at /\ ls[j] = ks[from(j)]
        BY <1>4
      <3>2. ks[from(j)] # ks[at] BY <1>1, <3>1 DEF Distinct
      <3> QED BY <1>9, <3>1, <3>2
    <2> QED BY <2>1, <2>2 DEF RangeOf
  <1>11. \A j \in 1 .. Len(ls) : f[ls[j]] = ws[j]
    <2> TAKE j \in 1 .. Len(ls)
    <2>1. ls[j] \in S BY <1>10 DEF RangeOf
    <2>2. from(j) \in 1 .. Len(ks) /\ ls[j] = ks[from(j)] /\ ws[j] = vs[from(j)]
      BY <1>4
    <2>3. MapOf(ks, vs)[ks[from(j)]] = vs[from(j)] BY <2>2, MapAt
    <2> QED BY <2>1, <2>2, <2>3
  <1>12. PICK g : g = f OBVIOUS
  <1>13. HasEntries(g, ls, ws)
    BY <1>10, <1>11, <1>12 DEF HasEntries
  <1>14. g = MapOf(ls, ws) BY <1>8, <1>13, MapIs
  <1> QED BY <1>8, <1>12, <1>14 DEF IsRemoval

-----------------------------------------------------------------------------
(* The Map's calls, each as a call of the partial function.                *)

LEMMA EntriesAre == Entries = MapOf(keys_, values_)
BY DEF Entries, MapOf

LEMMA EntriesWillBe == Entries' = MapOf(keys_', values_')
BY DEF Entries, MapOf, RangeOf, At, IndexOf

\* The position of a key, as the calls find it.
LEMMA Lookup ==
  ASSUME IInv, NEW k, HasElement(keys_, k)
  PROVE  \E i \in 1 .. Len(keys_) :
           /\ keys_[i] = k /\ IndexOf(keys_, k) = i - 1
           /\ k \in DOMAIN Entries /\ Entries[k] = values_[i]
  <1>1. PICK i \in 1 .. Len(keys_) : keys_[i] = k BY DEF HasElement
  <1>2. IndexOf(keys_, keys_[i]) = i - 1 BY IndexFound DEF IInv, Pair
  <1>3. /\ keys_[i] \in DOMAIN MapOf(keys_, values_)
        /\ MapOf(keys_, values_)[keys_[i]] = values_[i]
    BY MapAt DEF IInv
  <1> QED BY <1>1, <1>2, <1>3, EntriesAre

\* A key that HasElement does not find is not in the function.
LEMMA NoEntry ==
  ASSUME NEW k, ~HasElement(keys_, k)
  PROVE  k \notin DOMAIN Entries /\ IndexOf(keys_, k) = -1
BY EntriesAre, MapDomain, IndexMissing

\* What Get and GetOr read for a key that is there.
LEMMA Read ==
  ASSUME IInv, NEW k, HasElement(keys_, k)
  PROVE  /\ k \in DOMAIN Entries
         /\ IndexOf(keys_, k) # -1
         /\ InBounds(values_, IndexOf(keys_, k))
         /\ At(values_, IndexOf(keys_, k)) = Entries[k]
  <1>1. PICK i \in 1 .. Len(keys_) :
          /\ keys_[i] = k /\ IndexOf(keys_, k) = i - 1
          /\ k \in DOMAIN Entries /\ Entries[k] = values_[i]
    BY Lookup
  <1>2. Len(keys_) \in Nat /\ Len(values_) = Len(keys_) BY DEF IInv, Pair
  <1>3. i \in Int /\ 1 <= i /\ i <= Len(values_) BY <1>2
  <1>4. i - 1 + 1 = i /\ i - 1 # -1 /\ 0 <= i - 1 /\ i - 1 < Len(values_)
    BY <1>2, <1>3
  <1> QED BY <1>1, <1>4 DEF InBounds, At

LEMMA SetRefines ==
  ASSUME IInv, NEW k \in Keys, NEW v \in Values, MapSet(k, v)
  PROVE  IInv' /\ KV!Set(k, v)
  <1>1. answer' = answer BY DEF MapSet
  <1>2. CASE HasElement(keys_, k)
    <2>1. PICK i \in 1 .. Len(keys_) : keys_[i] = k /\ IndexOf(keys_, k) = i - 1
      BY <1>2, Lookup
    <2>2. keys_' = keys_ /\ values_' = SetAt(values_, IndexOf(keys_, k), v)
      BY <1>2 DEF MapSet, PushEntry
    <2>3. IndexOf(keys_, k) + 1 = i
      <3>1. Len(keys_) \in Nat BY DEF IInv, Pair
      <3> QED BY <2>1, <3>1
    <2>4. values_' = [values_ EXCEPT ![i] = v] BY <2>2, <2>3 DEF SetAt
    <2>5. /\ Pair(keys_, values_')
          /\ IsUpdate(MapOf(keys_, values_), MapOf(keys_, values_'), keys_[i], v)
      BY <2>4, Overwrite DEF IInv
    <2> QED BY <1>1, <2>1, <2>2, <2>5, EntriesAre, EntriesWillBe
            DEF IInv, IsUpdate, KV!Set
  <1>3. CASE ~HasElement(keys_, k)
    <2>1. keys_' = Append(keys_, k) /\ values_' = Append(values_, v)
      BY <1>3 DEF MapSet, PushEntry
    <2>2. /\ Pair(keys_', values_')
          /\ IsUpdate(MapOf(keys_, values_), MapOf(keys_', values_'), k, v)
      BY <1>3, <2>1, Extend DEF IInv
    <2> QED BY <1>1, <2>2, EntriesAre, EntriesWillBe DEF IInv, IsUpdate, KV!Set
  <1> QED BY <1>2, <1>3

LEMMA RemoveRefines ==
  ASSUME IInv, NEW k \in Keys, MapRemove(k)
  PROVE  IInv' /\ KV!Remove(k)
  <1>2. CASE HasElement(keys_, k)
    <2>1. PICK i \in 1 .. Len(keys_) :
            keys_[i] = k /\ IndexOf(keys_, k) = i - 1 /\ k \in DOMAIN Entries
      BY <1>2, Lookup
    <2>2. IndexOf(keys_, k) # -1
      <3>1. Len(keys_) \in Nat BY DEF IInv, Pair
      <3> QED BY <2>1, <3>1
    <2>3. /\ keys_' = EraseFrom(keys_, i - 1) /\ values_' = EraseFrom(values_, i - 1)
          /\ answer' = Flag(TRUE)
      BY <1>2, <2>1, <2>2, Read DEF MapRemove
    <2>4. /\ Pair(keys_', values_')
          /\ IsRemoval(MapOf(keys_, values_), MapOf(keys_', values_'), keys_[i])
      BY <2>3, Cut DEF IInv
    <2>5. (k \in DOMAIN Entries) = TRUE BY <2>1
    <2>6. IsRemoval(Entries, Entries', k) BY <2>1, <2>4, EntriesAre, EntriesWillBe
    <2> QED BY <2>3, <2>4, <2>5, <2>6 DEF IInv, IsRemoval, KV!Remove, Flag, KV!Flag
  <1>3. CASE ~HasElement(keys_, k)
    <2>1. IndexOf(keys_, k) = -1 BY <1>3, IndexMissing
    <2>2. keys_' = keys_ /\ values_' = values_ /\ answer' = Flag(FALSE)
      BY <2>1 DEF MapRemove
    <2>3. k \notin DOMAIN Entries BY <1>3, EntriesAre, MapDomain
    <2>4. Entries = [x \in DOMAIN Entries |-> Entries[x]] BY DEF Entries
    <2>5. Entries' = Entries BY <2>2, EntriesAre, EntriesWillBe
    <2>6. DOMAIN Entries \ {k} = DOMAIN Entries BY <2>3
    <2>7. Entries' = [x \in DOMAIN Entries \ {k} |-> Entries[x]]
      BY <2>4, <2>5, <2>6
    <2>8. IInv' BY <2>2 DEF IInv
    <2>9. (k \in DOMAIN Entries) = FALSE BY <2>3
    <2> QED BY <2>2, <2>7, <2>8, <2>9 DEF KV!Remove, Flag, KV!Flag
  <1> QED BY <1>2, <1>3

LEMMA ClearRefines ==
  ASSUME MapClear
  PROVE  IInv' /\ KV!Clear
  <1>1. keys_' = <<>> /\ values_' = <<>> /\ answer' = answer BY DEF MapClear
  <1>2. Pair(<<>>, <<>>) BY DEF Pair, Distinct
  <1>3. RangeOf(<<>>) = {} BY DEF RangeOf
  <1>4. MapOf(<<>>, <<>>) = [k \in {} |-> {}] BY <1>3 DEF MapOf
  <1>5. IInv' BY <1>1, <1>2 DEF IInv
  <1>6. Entries' = [k \in {} |-> {}] BY <1>1, <1>4, EntriesWillBe
  <1> QED BY <1>1, <1>5, <1>6 DEF KV!Clear

\* A call that leaves both arrays alone leaves the function alone.
LEMMA SameArrays ==
  ASSUME IInv, keys_' = keys_, values_' = values_
  PROVE  IInv' /\ Entries' = Entries
BY EntriesAre, EntriesWillBe DEF IInv

LEMMA GetRefines ==
  ASSUME IInv, NEW k \in Keys, MapGet(k)
  PROVE  IInv' /\ KV!Get(k)
  <1>1. IInv' /\ Entries' = Entries BY SameArrays DEF MapGet
  <1>2. CASE HasElement(keys_, k)
    BY <1>1, <1>2, Read DEF MapGet, KV!Get, Value, KV!Value
  <1>3. CASE ~HasElement(keys_, k)
    <2>1. ~InBounds(values_, IndexOf(keys_, k)) BY <1>3, NoEntry DEF InBounds
    <2> QED BY <1>1, <1>3, <2>1, NoEntry DEF MapGet, KV!Get, Failed, KV!Failed
  <1> QED BY <1>2, <1>3

LEMMA GetOrRefines ==
  ASSUME IInv, NEW k \in Keys, NEW v \in Values, MapGetOr(k, v)
  PROVE  IInv' /\ KV!GetOr(k, v)
  <1>1. IInv' /\ Entries' = Entries BY SameArrays DEF MapGetOr
  <1>2. CASE HasElement(keys_, k)
    BY <1>1, <1>2, Read DEF MapGetOr, KV!GetOr, Value, KV!Value
  <1>3. CASE ~HasElement(keys_, k)
    BY <1>1, <1>3, NoEntry DEF MapGetOr, KV!GetOr, Value, KV!Value
  <1> QED BY <1>2, <1>3

LEMMA ContainsRefines ==
  ASSUME IInv, NEW k \in Keys, MapContains(k)
  PROVE  IInv' /\ KV!Has(k)
  <1>1. IInv' /\ Entries' = Entries BY SameArrays DEF MapContains
  <1>2. HasElement(keys_, k) <=> k \in DOMAIN Entries BY EntriesAre, MapDomain
  <1>3. HasElement(keys_, k) \in BOOLEAN BY DEF HasElement
  <1>4. CASE HasElement(keys_, k)
    <2>1. HasElement(keys_, k) = TRUE BY <1>3, <1>4
    <2>2. answer' = <<"flag", TRUE>> BY <2>1 DEF MapContains, Flag
    <2>3. (k \in DOMAIN Entries) = TRUE BY <1>2, <1>4
    <2> QED BY <1>1, <2>2, <2>3 DEF KV!Has, KV!Flag
  <1>5. CASE ~HasElement(keys_, k)
    <2>1. HasElement(keys_, k) = FALSE BY <1>3, <1>5
    <2>2. answer' = <<"flag", FALSE>> BY <2>1 DEF MapContains, Flag
    <2>3. (k \in DOMAIN Entries) = FALSE BY <1>2, <1>5
    <2> QED BY <1>1, <2>2, <2>3 DEF KV!Has, KV!Flag
  <1> QED BY <1>4, <1>5

\* The number of keys is the size of the function.
LEMMA SizeIs == IInv => Cardinality(DOMAIN Entries) = Len(keys_)
  <1> SUFFICES ASSUME IInv PROVE Cardinality(DOMAIN Entries) = Len(keys_)
    OBVIOUS
  <1>1. Len(keys_) \in Nat /\ Distinct(keys_) /\ keys_ \in Seq(Keys)
    BY DEF IInv, Pair
  <1>2. DOMAIN Entries = RangeOf(keys_) BY DEF Entries
  <1> DEFINE f == [i \in 1 .. Len(keys_) |-> keys_[i]]
  <1>3. f \in [1 .. Len(keys_) -> RangeOf(keys_)] BY DEF RangeOf
  <1>4. f \in Injection(1 .. Len(keys_), RangeOf(keys_))
    BY <1>1, <1>3 DEF Distinct, Injection, IsInjective
  <1>5. f \in Surjection(1 .. Len(keys_), RangeOf(keys_))
    BY <1>3 DEF RangeOf, Surjection
  <1>6. ExistsBijection(1 .. Len(keys_), RangeOf(keys_))
    BY <1>4, <1>5 DEF Bijection, ExistsBijection
  <1> QED BY <1>1, <1>2, <1>6, FS_CountingElements

LEMMA SizeRefines ==
  ASSUME IInv, MapSize
  PROVE  IInv' /\ KV!Size
  <1>1. IInv' /\ Entries' = Entries BY SameArrays DEF MapSize
  <1>2. KV!Cardinality(DOMAIN Entries) = Cardinality(DOMAIN Entries)
    BY DEF KV!Cardinality, Cardinality, KV!IsFiniteSet, IsFiniteSet
  <1> QED BY <1>1, <1>2, SizeIs DEF MapSize, KV!Size, Count, KV!Count

\* Writing into Values() sets the key beside the place written.
LEMMA ValuesRefines ==
  ASSUME IInv, NEW i \in Int, NEW v \in Values, ArraySetIndex("values", i, v)
  PROVE  IInv' /\ \E k \in Keys : KV!Set(k, v)
  <1>1. Len(keys_) \in Nat /\ Len(values_) = Len(keys_) BY DEF IInv, Pair
  <1>2. i + 1 \in 1 .. Len(keys_) BY <1>1 DEF ArraySetIndex, ArrayAt, InBounds
  <1>3. PICK j \in 1 .. Len(keys_) : j = i + 1 BY <1>2
  <1>4. /\ keys_' = keys_ /\ answer' = answer
        /\ values_' = [values_ EXCEPT ![j] = v]
    BY <1>3 DEF ArraySetIndex, Store, ArrayAt, SetAt
  <1>5. /\ Pair(keys_, values_')
        /\ IsUpdate(MapOf(keys_, values_), MapOf(keys_, values_'), keys_[j], v)
    BY <1>4, Overwrite DEF IInv
  <1>6. keys_[j] \in Keys BY DEF IInv, Pair
  <1>7. KV!Set(keys_[j], v)
    BY <1>4, <1>5, EntriesAre, EntriesWillBe DEF IsUpdate, KV!Set
  <1> QED BY <1>4, <1>5, <1>6, <1>7 DEF IInv

-----------------------------------------------------------------------------
(* The theorems.                                                           *)

LEMMA InitRefines == Init => IInv /\ KV!Init
  <1> SUFFICES ASSUME Init PROVE IInv /\ KV!Init OBVIOUS
  <1>1. keys_ = <<>> /\ values_ = <<>> /\ answer = Failed BY DEF Init
  <1>2. IInv BY <1>1 DEF IInv, Pair, Distinct
  <1>3. RangeOf(keys_) = {} BY <1>1 DEF RangeOf
  <1>4. Entries = [k \in {} |-> {}] BY <1>3 DEF Entries
  <1> QED BY <1>1, <1>2, <1>4 DEF KV!Init, Failed, KV!Failed

LEMMA MapStep == IInv /\ MapNext => IInv' /\ KV!Next
  <1> SUFFICES ASSUME IInv, MapNext PROVE IInv' /\ KV!Next OBVIOUS
  <1>1. ASSUME NEW k \in Keys, NEW v \in Values, MapSet(k, v) \/ MapGetOr(k, v)
        PROVE  IInv' /\ KV!Next
    BY <1>1, SetRefines, GetOrRefines DEF KV!Next
  <1>2. ASSUME NEW k \in Keys, MapRemove(k) \/ MapGet(k) \/ MapContains(k)
        PROVE  IInv' /\ KV!Next
    BY <1>2, RemoveRefines, GetRefines, ContainsRefines DEF KV!Next
  <1>3. CASE MapClear BY <1>3, ClearRefines DEF KV!Next
  <1>4. CASE MapSize BY <1>4, SizeRefines DEF KV!Next
  <1> QED BY <1>1, <1>2, <1>3, <1>4 DEF MapNext

\* The other calls of a careful script do not touch the Map, or put a value in
\* place of another.
LEMMA OtherStep ==
  ASSUME careful, NEW name \in Arrays, ArrayNext(name)
  PROVE  \/ keys_' = keys_ /\ values_' = values_ /\ answer' = answer
         \/ \E i \in Int, v \in Values : ArraySetIndex("values", i, v)
  <1>1. CASE name = "list"
    BY <1>1 DEF ArrayNext, ArrayPushBack, ArrayPopBack, ArraySetIndex, ArrayInsert,
                ArrayErase, ArrayClear, Store, mapVars
  <1>2. CASE name # "list"
    <2>1. ~Writes(name) BY <1>2 DEF Writes
    <2>2. PICK i \in 0 .. Len(ArrayAt(name)), x \in Members(name) :
            ArraySetIndex(name, i, x)
      BY <2>1 DEF ArrayNext, ArrayPushBack, ArrayPopBack, ArrayInsert, ArrayErase, ArrayClear
    <2>3. name = "values" BY <2>1, <2>2 DEF ArraySetIndex, Replaces
    <2> QED BY <2>2, <2>3 DEF Members
  <1> QED BY <1>1, <1>2

LEMMA IteratorStep ==
  IteratorNext => keys_' = keys_ /\ values_' = values_ /\ answer' = answer
BY DEF IteratorNext, IteratorNew, Beginning, End, Increment, Decrement, Evaluate, mapVars

\* A script stays what it is.
LEMMA CarefulStays == [Next]_vars => careful' = careful
  <1>1. MapNext => careful' = careful
    BY DEF MapNext, MapSet, PushEntry, MapRemove, MapClear, MapGet, MapGetOr, MapContains,
           MapSize, Touches, itVars
  <1>2. ASSUME NEW name \in Arrays, ArrayNext(name) PROVE careful' = careful
    BY <1>2 DEF ArrayNext, ArrayPushBack, ArrayPopBack, ArraySetIndex, ArrayInsert,
                ArrayErase, ArrayClear, Store, Touches, itVars
  <1>3. IteratorNext => careful' = careful
    BY DEF IteratorNext, IteratorNew, Beginning, End, Increment, Decrement, Evaluate, itVars
  <1> QED BY <1>1, <1>2, <1>3 DEF Next, vars

LEMMA StepRefines ==
  IInv /\ careful /\ [Next]_vars => IInv' /\ [KV!Next]_(KV!vars)
  <1> SUFFICES ASSUME IInv, careful, [Next]_vars PROVE IInv' /\ [KV!Next]_(KV!vars)
    OBVIOUS
  <1>1. CASE MapNext BY <1>1, MapStep
  <1>2. ASSUME keys_' = keys_, values_' = values_, answer' = answer
        PROVE  IInv' /\ [KV!Next]_(KV!vars)
    BY <1>2, SameArrays DEF KV!vars
  <1>3. ASSUME NEW i \in Int, NEW v \in Values, ArraySetIndex("values", i, v)
        PROVE  IInv' /\ [KV!Next]_(KV!vars)
    BY <1>3, ValuesRefines DEF KV!Next
  <1>4. CASE \E name \in Arrays : ArrayNext(name)
    BY <1>2, <1>3, <1>4, OtherStep
  <1>5. CASE IteratorNext BY <1>2, <1>5, IteratorStep
  <1>6. CASE UNCHANGED vars BY <1>2, <1>6 DEF vars
  <1> QED BY <1>1, <1>4, <1>5, <1>6 DEF Next

LEMMA Inductive == Spec => [](careful => IInv)
  <1>1. Init => (careful => IInv) BY InitRefines
  <1>2. (careful => IInv) /\ [Next]_vars => (careful => IInv)'
    BY StepRefines, CarefulStays
  <1> QED BY <1>1, <1>2, PTL DEF Spec

\* The arrays of a Map stay paired, whatever is called on the Map, for a script
\* that does not write to what Keys() and Values() give it, other than values in
\* place of values (map.fal:69-96).
THEOREM MapPaired == Spec => []Paired
  <1>1. (careful => IInv) => Paired BY DEF IInv, Pair, Distinct, Paired
  <1> QED BY <1>1, Inductive, PTL

\* A Map is a partial function from keys to values for such a script: each of its
\* calls changes it and answers as the call of KeyValue does (map.fal:23-116).
THEOREM MapIsAFunction == Spec => MapImplements
  <1>1. Init => (careful => KV!Init) BY InitRefines
  <1>2. (careful => IInv) /\ [Next]_vars => [careful => KV!Next]_<<careful, KV!vars>>
    BY StepRefines, CarefulStays
  <1> QED BY <1>1, <1>2, Inductive, PTL DEF Spec, MapImplements

-----------------------------------------------------------------------------
(* The iterator.  A sweep stays on the elements it has passed: a change of *)
(* the array is ahead of it, or ends it.  The script may write what it     *)
(* likes to any of the three arrays.                                       *)

SweepInv ==
  sweeping =>
    /\ 0 <= index_ /\ index_ < Len(Contents)
    /\ path \in Seq(Elements) /\ Len(path) = index_ + 1
    /\ \A j \in 1 .. index_ + 1 : path[j] = Contents[j]

\* The arrays a change has made: of the same elements up to position i.
SameUpTo(i, e, r) ==
  /\ i \in Int /\ i <= Len(e) /\ i <= Len(r)
  /\ \A j \in 1 .. i : r[j] = e[j]

LEMMA SmallSeqs ==
  ASSUME NEW T
  PROVE  <<>> \in Seq(T) /\ \A x \in T : <<x>> \in Seq(T)
OBVIOUS

LEMMA FlagsAreAnswers ==
  /\ Failed \in Answers /\ Failed \in Found
  /\ \A b \in BOOLEAN : Flag(b) \in Answers
  /\ \A v \in Values : Value(v) \in Answers
  /\ \A n \in Nat : Count(n) \in Answers
  /\ \A x \in Elements : Value(x) \in Found /\ Value(x) # Failed
BY DEF Answers, Found, Elements, Failed, Flag, Value, Count

LEMMA CutType ==
  ASSUME NEW T, NEW e \in Seq(T), NEW at \in 1 .. Len(e)
  PROVE  /\ EraseFrom(e, at - 1) \in Seq(T)
         /\ SameUpTo(at - 1, e, EraseFrom(e, at - 1))
  <1>0. PICK r : r = EraseFrom(e, at - 1) OBVIOUS
  <1>1. IsCut(T, e, at, r) BY <1>0, Erased
  <1>2. r \in Seq(T) /\ SameUpTo(at - 1, e, r) BY <1>1 DEF IsCut, SameUpTo
  <1> QED BY <1>0, <1>2

LEMMA InsertType ==
  ASSUME NEW T, NEW e \in Seq(T), NEW i \in 0 .. Len(e), NEW x \in T
  PROVE  /\ InsertIn(e, i, x) \in Seq(T)
         /\ SameUpTo(i, e, InsertIn(e, i, x))
  <1>0. PICK r : r = InsertIn(e, i, x) OBVIOUS
  <1> DEFINE n == Len(e) + 1
             h(j) == IF j <= i THEN e[j] ELSE IF j = i + 1 THEN x ELSE e[j - 1]
  <1>1. n \in Nat OBVIOUS
  <1>2. \A j \in 1 .. n : h(j) \in T OBVIOUS
  <1>3. r = [j \in 1 .. n |-> h(j)] BY <1>0 DEF InsertIn
  <1>4. \A j \in 1 .. i : h(j) = e[j] OBVIOUS
  <1> HIDE DEF h
  <1>5. r \in [1 .. n -> T] BY <1>2, <1>3
  <1>6. r \in Seq(T) /\ Len(r) = n BY <1>1, <1>5
  <1>7. SameUpTo(i, e, r) BY <1>3, <1>4, <1>6 DEF SameUpTo
  <1> QED BY <1>0, <1>6, <1>7

\* IndexOf gives a position of the array, or -1.
LEMMA IndexInside ==
  ASSUME NEW T, NEW e \in Seq(T), NEW k
  PROVE  /\ HasElement(e, k) => IndexOf(e, k) + 1 \in 1 .. Len(e)
         /\ IndexOf(e, k) \in Int
         /\ IndexOf(e, k) # -1 => HasElement(e, k)
  <1> DEFINE P(j) == e[j] = k /\ \A h \in 1 .. j - 1 : e[h] # k
             S == {j \in 1 .. Len(e) : e[j] = k}
  <1>1. CASE HasElement(e, k)
    <2>1. S \subseteq Nat /\ S # {} BY <1>1 DEF HasElement
    <2>2. PICK j \in S : \A h \in S : ~(<<h, j>> \in OpToRel(<, Nat))
      BY <2>1, WFMin, NatLessThanWellFounded
    <2>3. \A h \in S : ~(h < j) BY <2>1, <2>2 DEF OpToRel
    <2>4. P(j) BY <2>3
    <2>5. (CHOOSE h \in 1 .. Len(e) : P(h)) \in 1 .. Len(e) BY <2>4
    <2>6. IndexOf(e, k) = (CHOOSE h \in 1 .. Len(e) : P(h)) - 1
      BY <1>1 DEF IndexOf, HasElement
    <2>7. PICK c : c = CHOOSE h \in 1 .. Len(e) : P(h) OBVIOUS
    <2> HIDE DEF P
    <2>8. c \in 1 .. Len(e) /\ IndexOf(e, k) = c - 1 /\ Len(e) \in Nat
      BY <2>5, <2>6, <2>7
    <2> QED BY <1>1, <2>8
  <1>2. CASE ~HasElement(e, k) BY <1>2, IndexMissing
  <1> QED BY <1>1, <1>2

\* A change of the arrays names at position i, as Touches records it.
LEMMA TouchSweep ==
  ASSUME TypeOK, SweepInv, NEW names, NEW i, Touches(names, i),
         walked \in names => SameUpTo(i, Contents, Contents'),
         walked \notin names => Contents' = Contents
  PROVE  SweepInv'
  <1> SUFFICES ASSUME sweeping'
               PROVE  /\ 0 <= index_' /\ index_' < Len(Contents')
                      /\ path' \in Seq(Elements) /\ Len(path') = index_' + 1
                      /\ \A j \in 1 .. index_' + 1 : path'[j] = (Contents')[j]
    BY DEF SweepInv
  <1>1. sweeping /\ walked' = walked /\ index_' = index_ /\ path' = path /\ index_ \in Int
    BY DEF Touches, TypeOK
  <1>2. CASE walked \in names
    <2>1. index_ < i BY <1>1, <1>2 DEF Touches
    <2>2. \A j \in 1 .. index_ + 1 : (Contents')[j] = Contents[j]
      BY <1>1, <1>2, <2>1 DEF SameUpTo
    <2> QED BY <1>1, <1>2, <2>1, <2>2 DEF SweepInv, SameUpTo
  <1>3. CASE walked \notin names
    BY <1>1, <1>3 DEF SweepInv
  <1> QED BY <1>2, <1>3

\* Calls on the Map.
LEMMA MapKeeps ==
  ASSUME TypeOK, SweepInv, MapNext
  PROVE  TypeOK' /\ SweepInv'
  <1>0. /\ keys_ \in Seq(Keys) /\ values_ \in Seq(Values) /\ list \in Seq(Items)
        /\ Len(keys_) \in Nat /\ Len(values_) \in Nat /\ walked \in Arrays
    BY DEF TypeOK
  <1>1. ASSUME keys_' \in Seq(Keys), values_' \in Seq(Values), answer' \in Answers,
               NEW names, NEW i, Touches(names, i), list' = list, item' = item,
               walked \in names => SameUpTo(i, Contents, Contents'),
               walked \notin names => Contents' = Contents
        PROVE  TypeOK' /\ SweepInv'
    BY <1>0, <1>1, TouchSweep DEF TypeOK, Touches
  <1>2. ASSUME answer' \in Answers, UNCHANGED <<keys_, values_, list, item, itVars>>
        PROVE  TypeOK' /\ SweepInv'
    BY <1>2 DEF TypeOK, SweepInv, Contents, ArrayAt, itVars, sweepVars
  <1>3. ASSUME NEW k \in Keys, NEW v \in Values, MapSet(k, v)
        PROVE  TypeOK' /\ SweepInv'
    <2>1. CASE HasElement(keys_, k)
      <3>1. PICK i \in Int : i = IndexOf(keys_, k) BY <1>0, IndexInside
      <3>2. /\ InBounds(values_, i) /\ values_' = SetAt(values_, i, v) /\ keys_' = keys_
            /\ Touches({"values"}, i) /\ UNCHANGED <<answer, list, item>>
        BY <1>3, <2>1, <3>1 DEF MapSet
      <3>3. values_' \in Seq(Values) /\ SameUpTo(i, values_, values_')
        BY <1>0, <3>2 DEF SetAt, InBounds, SameUpTo
      <3>4. walked \in {"values"} => SameUpTo(i, Contents, Contents')
        BY <3>2, <3>3 DEF Contents, ArrayAt, Touches
      <3>5. walked \notin {"values"} => Contents' = Contents
        BY <3>2 DEF Contents, ArrayAt, Touches
      <3> QED BY <1>0, <1>1, <3>2, <3>3, <3>4, <3>5 DEF TypeOK
    <2>2. CASE ~HasElement(keys_, k)
      <3> DEFINE names == {walked} \cap {"keys", "values"}
      <3>1. /\ keys_' = Append(keys_, k) /\ values_' = Append(values_, v)
            /\ Touches(names, Len(Contents)) /\ UNCHANGED <<answer, list, item>>
        BY <1>3, <2>2 DEF MapSet, PushEntry
      <3>2. keys_' \in Seq(Keys) /\ values_' \in Seq(Values)
        BY <1>0, <3>1
      <3>3. /\ SameUpTo(Len(keys_), keys_, keys_')
            /\ SameUpTo(Len(values_), values_, values_')
        BY <1>0, <3>1 DEF SameUpTo
      <3>4. walked \in names => SameUpTo(Len(Contents), Contents, Contents')
        BY <3>1, <3>3 DEF Contents, ArrayAt, Touches
      <3>5. walked \notin names => Contents' = Contents
        BY <3>1 DEF Contents, ArrayAt, Touches
      <3> HIDE DEF names
      <3> QED BY <1>1, <3>1, <3>2, <3>4, <3>5 DEF TypeOK
    <2> QED BY <2>1, <2>2
  <1>4. ASSUME NEW k \in Keys, MapGet(k) \/ \E v \in Values : MapGetOr(k, v)
        PROVE  TypeOK' /\ SweepInv'
    <2>1. PICK i \in Int : i = IndexOf(keys_, k) BY <1>0, IndexInside
    <2>2. InBounds(values_, i) => At(values_, i) \in Values
      BY <1>0 DEF InBounds, At
    <2>3. \/ answer' = Failed \/ \E v \in Values : answer' = Value(v)
          \/ InBounds(values_, i) /\ answer' = Value(At(values_, i))
      BY <1>4, <2>1 DEF MapGetOr, MapGet
    <2>4. answer' \in Answers BY <2>2, <2>3, FlagsAreAnswers
    <2> QED BY <1>2, <1>4, <2>4 DEF MapGetOr, MapGet
  <1>5. ASSUME NEW k \in Keys, MapRemove(k)
        PROVE  TypeOK' /\ SweepInv'
    <2>1. PICK i \in Int : i = IndexOf(keys_, k) BY <1>0, IndexInside
    <2>2. CASE i = -1
      BY <1>2, <1>5, <2>1, <2>2, FlagsAreAnswers DEF MapRemove, InBounds
    <2>3. CASE i # -1
      <3>1. i + 1 \in 1 .. Len(keys_) /\ i + 1 - 1 = i
        BY <1>0, <2>1, <2>3, IndexInside
      <3>2. keys_' = EraseFrom(keys_, i + 1 - 1) /\ UNCHANGED <<list, item>>
        BY <1>5, <2>1, <2>3, <3>1 DEF MapRemove
      <3>3. keys_' \in Seq(Keys) /\ SameUpTo(i, keys_, keys_')
        BY <1>0, <3>1, <3>2, CutType
      <3>4. CASE InBounds(values_, i)
        <4>1. /\ values_' = EraseFrom(values_, i + 1 - 1)
              /\ answer' = Flag(TRUE) /\ Touches({"keys", "values"}, i)
          BY <1>5, <2>1, <2>3, <3>1, <3>4 DEF MapRemove
        <4>2. i + 1 \in 1 .. Len(values_) BY <1>0, <3>1, <3>4 DEF InBounds
        <4>3. values_' \in Seq(Values) /\ SameUpTo(i, values_, values_')
          BY <1>0, <3>1, <4>1, <4>2, CutType
        <4>4. walked \in {"keys", "values"} => SameUpTo(i, Contents, Contents')
          BY <3>3, <4>1, <4>3 DEF Contents, ArrayAt, Touches
        <4>5. walked \notin {"keys", "values"} => Contents' = Contents
          BY <3>2, <4>1 DEF Contents, ArrayAt, Touches
        <4>6. answer' \in Answers BY <4>1, FlagsAreAnswers
        <4> QED BY <1>1, <3>2, <3>3, <4>1, <4>3, <4>4, <4>5, <4>6
      <3>5. CASE ~InBounds(values_, i)
        <4>1. values_' = values_ /\ answer' = Failed /\ Touches({"keys"}, i)
          BY <1>5, <2>1, <2>3, <3>5 DEF MapRemove
        <4>2. walked \in {"keys"} => SameUpTo(i, Contents, Contents')
          BY <3>3, <4>1 DEF Contents, ArrayAt, Touches
        <4>3. walked \notin {"keys"} => Contents' = Contents
          BY <3>2, <4>1 DEF Contents, ArrayAt, Touches
        <4>4. answer' \in Answers BY <4>1, FlagsAreAnswers
        <4> QED BY <1>0, <1>1, <3>2, <3>3, <4>1, <4>2, <4>3, <4>4
      <3> QED BY <3>4, <3>5
    <2> QED BY <2>2, <2>3
  <1>6. ASSUME NEW k \in Keys, MapContains(k)
        PROVE  TypeOK' /\ SweepInv'
    <2>1. HasElement(keys_, k) \in BOOLEAN BY DEF HasElement
    <2>2. answer' \in Answers BY <1>6, <2>1, FlagsAreAnswers DEF MapContains
    <2> QED BY <1>2, <1>6, <2>2 DEF MapContains
  <1>7. CASE MapClear
    <2>1. /\ keys_' = <<>> /\ values_' = <<>> /\ UNCHANGED <<answer, list, item>>
          /\ Touches({"keys", "values"}, 0)
      BY <1>7 DEF MapClear
    <2>2. SameUpTo(0, keys_, keys_') /\ SameUpTo(0, values_, values_')
      BY <1>0, <2>1 DEF SameUpTo
    <2>3. walked \in {"keys", "values"} => SameUpTo(0, Contents, Contents')
      BY <2>1, <2>2 DEF Contents, ArrayAt, Touches
    <2>4. walked \notin {"keys", "values"} => Contents' = Contents
      BY <2>1 DEF Contents, ArrayAt, Touches
    <2>5. keys_' \in Seq(Keys) /\ values_' \in Seq(Values) BY <2>1
    <2> QED BY <1>1, <2>1, <2>3, <2>4, <2>5 DEF TypeOK
  <1>8. CASE MapSize
    <2>1. answer' \in Answers BY <1>0, <1>8, FlagsAreAnswers DEF MapSize
    <2> QED BY <1>2, <1>8, <2>1 DEF MapSize
  <1> QED BY <1>3, <1>4, <1>5, <1>6, <1>7, <1>8 DEF MapNext

\* Calls on an array, the script's own or the Map's.
LEMMA ArrayKeeps ==
  ASSUME TypeOK, SweepInv, NEW name \in Arrays, ArrayNext(name)
  PROVE  TypeOK' /\ SweepInv'
  <1> DEFINE T == Members(name)
  <1>0. PICK arr \in Seq(T) : arr = ArrayAt(name) /\ Len(arr) \in Nat
    BY DEF TypeOK, ArrayAt, Members, Arrays
  <1>m. T \subseteq Elements BY DEF Members, Elements
  <1> HIDE DEF T
  <1>1. ASSUME NEW new \in Seq(T), NEW i, SameUpTo(i, arr, new), Store(name, new, i),
               item' \in Found
        PROVE  TypeOK' /\ SweepInv'
    <2>1. keys_' \in Seq(Keys) /\ values_' \in Seq(Values) /\ list' \in Seq(Items)
      BY <1>1 DEF TypeOK, Store, T, Members, Arrays
    <2>2. TypeOK' BY <1>1, <2>1 DEF TypeOK, Store, Touches
    <2>3. walked \in {name} => SameUpTo(i, Contents, Contents')
      BY <1>0, <1>1 DEF Store, Touches, Contents, ArrayAt, Arrays
    <2>4. walked \notin {name} => Contents' = Contents
      BY <1>1 DEF Store, Touches, Contents, ArrayAt, TypeOK, Arrays
    <2>5. SweepInv' BY <1>1, <2>3, <2>4, TouchSweep DEF Store
    <2> QED BY <2>2, <2>5
  <1>k. item \in Found BY DEF TypeOK
  <1>2. ASSUME NEW x \in T, ArrayPushBack(name, x)
        PROVE  TypeOK' /\ SweepInv'
    <2>1. PICK new : new = Append(arr, x) OBVIOUS
    <2>2. new \in Seq(T) /\ SameUpTo(Len(arr), arr, new)
      BY <1>0, <2>1 DEF SameUpTo
    <2> QED BY <1>0, <1>1, <1>2, <1>k, <2>1, <2>2 DEF ArrayPushBack
  <1>3. CASE ArrayPopBack(name)
    <2>1. CASE arr = <<>>
      <3>1. item' = Failed /\ UNCHANGED <<mapVars, list, itVars>>
        BY <1>0, <1>3, <2>1 DEF ArrayPopBack
      <3> QED BY <3>1, FlagsAreAnswers
              DEF TypeOK, SweepInv, Contents, ArrayAt, mapVars, itVars, sweepVars
    <2>2. CASE arr # <<>>
      <3>1. Len(arr) \in 1 .. Len(arr) BY <1>0, <2>2
      <3>2. arr[Len(arr)] \in Elements BY <1>0, <1>m, <3>1
      <3>3. PICK new : new = SubSeq(arr, 1, Len(arr) - 1) OBVIOUS
      <3>4. new \in Seq(T) /\ SameUpTo(Len(arr) - 1, arr, new)
        BY <1>0, <3>1, <3>3 DEF SameUpTo
      <3>5. item' = Value(arr[Len(arr)]) /\ Store(name, new, Len(arr) - 1)
        BY <1>0, <1>3, <2>2, <3>3 DEF ArrayPopBack
      <3> QED BY <1>1, <3>2, <3>4, <3>5, FlagsAreAnswers
    <2> QED BY <2>1, <2>2
  <1>4. ASSUME NEW i \in 0 .. Len(arr), NEW x \in T, ArraySetIndex(name, i, x)
        PROVE  TypeOK' /\ SweepInv'
    <2>1. PICK new : new = SetAt(arr, i, x) OBVIOUS
    <2>2. InBounds(arr, i) /\ Store(name, new, i) /\ item' = item
      BY <1>0, <1>4, <2>1 DEF ArraySetIndex
    <2>3. new \in Seq(T) /\ SameUpTo(i, arr, new)
      BY <1>0, <2>1, <2>2 DEF SetAt, InBounds, SameUpTo
    <2> QED BY <1>1, <1>k, <2>2, <2>3
  <1>5. ASSUME NEW i \in 0 .. Len(arr), NEW x \in T, ArrayInsert(name, i, x)
        PROVE  TypeOK' /\ SweepInv'
    <2>1. PICK new : new = InsertIn(arr, i, x) OBVIOUS
    <2>2. new \in Seq(T) /\ SameUpTo(i, arr, new) BY <1>0, <2>1, InsertType
    <2> QED BY <1>0, <1>1, <1>5, <1>k, <2>1, <2>2 DEF ArrayInsert
  <1>6. ASSUME NEW i \in 0 .. Len(arr), ArrayErase(name, i)
        PROVE  TypeOK' /\ SweepInv'
    <2>1. i + 1 \in 1 .. Len(arr) /\ i + 1 - 1 = i
      BY <1>0, <1>6 DEF ArrayErase, InBounds
    <2>2. PICK new : new = EraseFrom(arr, i + 1 - 1) OBVIOUS
    <2>3. new \in Seq(T) /\ SameUpTo(i, arr, new)
      BY <1>0, <2>1, <2>2, CutType
    <2>4. Store(name, new, i) /\ item' = item
      BY <1>0, <1>6, <2>1, <2>2 DEF ArrayErase
    <2> QED BY <1>1, <1>k, <2>3, <2>4
  <1>7. CASE ArrayClear(name)
    <2>1. <<>> \in Seq(T) /\ SameUpTo(0, arr, <<>>) BY <1>0 DEF SameUpTo
    <2> QED BY <1>1, <1>7, <1>k, <2>1 DEF ArrayClear
  <1> QED BY <1>0, <1>2, <1>3, <1>4, <1>5, <1>6, <1>7 DEF ArrayNext, T

\* Calls on the iterator.
LEMMA IteratorKeeps ==
  ASSUME TypeOK, SweepInv, IteratorNext
  PROVE  TypeOK' /\ SweepInv'
  <1>0. /\ keys_ \in Seq(Keys) /\ values_ \in Seq(Values) /\ list \in Seq(Items)
        /\ walked \in Arrays /\ index_ \in Nat \cup {-1}
        /\ path \in Seq(Elements) /\ sweeping \in BOOLEAN
    BY DEF TypeOK
  <1>1. \A name \in Arrays : ArrayAt(name) \in Seq(Elements) /\ Len(ArrayAt(name)) \in Nat
    BY <1>0 DEF Arrays, ArrayAt, Elements
  <1>2. Contents \in Seq(Elements) /\ Len(Contents) \in Nat
    BY <1>0, <1>1 DEF Contents
  <1>3. ASSUME NEW e \in Seq(Elements), StartOf(e), UNCHANGED <<mapVars, list, item, careful>>,
               walked' \in Arrays, Contents' = e
        PROVE  TypeOK' /\ SweepInv'
    <2>1. e # <<>> => /\ Len(e) \in Nat /\ 0 < Len(e) /\ e[1] \in Elements
      OBVIOUS
    <2>2. path' \in Seq(Elements) /\ sweeping' \in BOOLEAN /\ index_' = 0
      BY <1>3, <2>1, SmallSeqs, Zenon DEF StartOf
    <2>3. TypeOK' BY <1>3, <2>2 DEF TypeOK, mapVars
    <2>4. sweeping' => path' = <<e[1]>> /\ e # <<>> BY <1>3 DEF StartOf
    <2>5. SweepInv' BY <1>3, <2>1, <2>2, <2>4 DEF SweepInv
    <2> QED BY <2>3, <2>5
  <1>4. ASSUME NEW name \in Arrays, IteratorNew(name)
        PROVE  TypeOK' /\ SweepInv'
    <2>1. Contents' = ArrayAt(name)
      BY <1>4 DEF IteratorNew, Contents, ArrayAt, mapVars
    <2> QED BY <1>1, <1>3, <1>4, <2>1 DEF IteratorNew
  <1>5. CASE Beginning
    <2>1. Contents' = Contents BY <1>5 DEF Beginning, Contents, ArrayAt, mapVars
    <2> QED BY <1>0, <1>2, <1>3, <1>5, <2>1 DEF Beginning
  <1>6. CASE End \/ Decrement
    <2>1. index_' \in Nat \cup {-1} /\ path' = <<>> /\ sweeping' = FALSE
      BY <1>0, <1>2, <1>6 DEF End, Decrement, HasPrevious
    <2>2. UNCHANGED <<keys_, values_, answer, list, item, walked, careful>>
      BY <1>6 DEF End, Decrement, mapVars
    <2>3. TypeOK' BY <2>1, <2>2, SmallSeqs DEF TypeOK
    <2>4. SweepInv' BY <2>1 DEF SweepInv
    <2> QED BY <2>3, <2>4
  <1>7. CASE Increment
    <2>1. /\ index_' = index_ + 1 /\ index_' < Len(Contents) /\ index_' \in Nat
          /\ sweeping' = sweeping /\ Contents' = Contents
      BY <1>0, <1>2, <1>7 DEF Increment, HasNext, Contents, ArrayAt, mapVars
    <2>2. Contents[index_ + 2] \in Elements
      BY <1>0, <1>2, <2>1
    <2>3. CASE sweeping
      <3>1. index_ + 1 + 1 = index_ + 2 BY <1>0
      <3>2. path' = Append(path, Contents[index_ + 2])
        BY <1>7, <2>3, <3>1 DEF Increment, At
      <3>3. path' \in Seq(Elements) BY <1>0, <2>2, <3>2
      <3>4. TypeOK' BY <1>7, <2>1, <3>3 DEF Increment, TypeOK, mapVars
      <3>5. \A j \in 1 .. index_ + 2 : path'[j] = Contents[j]
        BY <1>0, <2>3, <3>2 DEF SweepInv
      <3>6. SweepInv' BY <1>0, <2>1, <2>3, <3>2, <3>3, <3>5 DEF SweepInv
      <3> QED BY <3>4, <3>6
    <2>4. CASE ~sweeping
      <3>1. TypeOK' BY <1>7, <2>1, <2>4 DEF Increment, TypeOK, mapVars
      <3>2. SweepInv' BY <2>1, <2>4 DEF SweepInv
      <3> QED BY <3>1, <3>2
    <2> QED BY <2>3, <2>4
  <1>8. CASE Evaluate
    <2>1. InBounds(Contents, index_) => At(Contents, index_) \in Elements
      BY <1>0, <1>2 DEF InBounds, At
    <2>2. item' \in Found BY <1>8, <2>1, FlagsAreAnswers DEF Evaluate
    <2> QED BY <1>8, <2>2
            DEF Evaluate, TypeOK, SweepInv, Contents, ArrayAt, mapVars, itVars, sweepVars
  <1> QED BY <1>4, <1>5, <1>6, <1>7, <1>8 DEF IteratorNext

LEMMA SweepInductive == Spec => [](TypeOK /\ SweepInv)
  <1>1. Init => TypeOK /\ SweepInv
    <2> SUFFICES ASSUME Init PROVE TypeOK /\ SweepInv OBVIOUS
    <2>1. keys_ \in Seq(Keys) /\ values_ \in Seq(Values) /\ list \in Seq(Items)
      BY SmallSeqs DEF Init
    <2>2. path \in Seq(Elements) BY SmallSeqs DEF Init
    <2>3. index_ \in Nat \cup {-1} /\ sweeping \in BOOLEAN /\ ~sweeping BY DEF Init
    <2>4. SweepInv BY <2>3 DEF SweepInv
    <2> QED BY <2>1, <2>2, <2>3, <2>4, FlagsAreAnswers DEF Init, TypeOK, Arrays
  <1>2. TypeOK /\ SweepInv /\ [Next]_vars => TypeOK' /\ SweepInv'
    <2>1. CASE UNCHANGED vars BY <2>1 DEF vars, TypeOK, SweepInv, Contents, ArrayAt
    <2> QED BY <2>1, MapKeeps, ArrayKeeps, IteratorKeeps DEF Next
  <1> QED BY <1>1, <1>2, PTL DEF Spec

-----------------------------------------------------------------------------
\* The arrays, the answers and the iterator have their types, whatever a script
\* writes to any of the arrays.
THEOREM CollectionsTyped == Spec => []TypeOK
BY SweepInductive, PTL

\* A sweep that reaches the end of its array has stood on each of the elements
\* that are there, in order, whatever the script has added or removed ahead of
\* it (iterator.fal:24-67).
THEOREM SweepCoversAll == Spec => []SweepCovers
  <1>1. TypeOK /\ SweepInv => SweepCovers
    <2> SUFFICES ASSUME TypeOK, SweepInv, sweeping, ~HasNext PROVE path = Contents
      BY DEF SweepCovers
    <2>1. Contents \in Seq(Elements) BY DEF TypeOK, Contents, ArrayAt, Elements
    <2>2. Len(Contents) = index_ + 1 /\ Len(path) = index_ + 1
      BY <2>1 DEF TypeOK, SweepInv, HasNext
    <2> QED BY <2>1, <2>2 DEF SweepInv
  <1> QED BY <1>1, SweepInductive, PTL

\* Evaluate never raises while a sweep goes on (iterator.fal:80-82).
THEOREM SweepsDoNotRaise == Spec => SweepNeverRaises
  <1>1. TypeOK /\ SweepInv /\ [Next]_vars => [Evaluate /\ sweeping => item' # Failed]_vars
    <2> SUFFICES ASSUME TypeOK, SweepInv, Evaluate, sweeping PROVE item' # Failed
      OBVIOUS
    <2>1. Contents \in Seq(Elements) BY DEF TypeOK, Contents, ArrayAt, Elements
    <2>2. InBounds(Contents, index_) BY <2>1 DEF SweepInv, InBounds
    <2>3. At(Contents, index_) \in Elements
      BY <2>1, <2>2 DEF TypeOK, InBounds, At
    <2> QED BY <2>2, <2>3, FlagsAreAnswers DEF Evaluate
  <1> QED BY <1>1, SweepInductive, PTL DEF Spec, SweepNeverRaises
=============================================================================
