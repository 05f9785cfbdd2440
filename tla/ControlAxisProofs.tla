-------------------------- MODULE ControlAxisProofs -------------------------
(***************************************************************************)
(* Proofs about ControlAxis for any number of axes, gates and Voltages and *)
(* any range of voltages: what the positional loops of ToPoint rely on     *)
(* holds of a script that respects the domain of its axes (InDomain), and  *)
(* it makes ToPoint affine.                                                *)
(***************************************************************************)
EXTENDS ControlAxis, GateMapProofs

Loose == [gate : Gates, value : Int]

\* The Maps of all axes are well formed, and aligned if the script is InDomain.
GoodPair(o, d) ==
  /\ o \in Seq(OffsetEntries) /\ OncePerGate(o)
  /\ d \in Seq(Loose) /\ OncePerGate(d)
  /\ InDomain => GatesOf(o) = GatesOf(d)
GoodMaps(off, dir) ==
  /\ off \in [Axes -> Seq(OffsetEntries)]
  /\ dir \in [Axes -> Seq(Loose)]
  /\ \A a \in Axes : GoodPair(off[a], dir[a])

IInv == TypeOK /\ (InDomain => Aligned)

-----------------------------------------------------------------------------
(* Sequences of entries.                                                   *)

LEMMA SameGates ==
  ASSUME NEW S, NEW T, NEW e \in Seq(S), NEW f \in Seq(T)
  PROVE  GatesOf(e) = GatesOf(f) <=>
           /\ Len(e) = Len(f)
           /\ \A i \in 1 .. Len(e) : e[i].gate = f[i].gate
  <1>1. Len(e) \in Nat /\ Len(f) \in Nat OBVIOUS
  <1>2. ASSUME GatesOf(e) = GatesOf(f)
        PROVE  /\ Len(e) = Len(f)
               /\ \A i \in 1 .. Len(e) : e[i].gate = f[i].gate
    <2>1. DOMAIN GatesOf(e) = 1 .. Len(e) /\ DOMAIN GatesOf(f) = 1 .. Len(f)
      BY DEF GatesOf
    <2>2. 1 .. Len(e) = 1 .. Len(f) BY <1>2, <2>1
    <2>3. Len(e) = Len(f) BY <1>1, <2>2
    <2>4. \A i \in 1 .. Len(e) : GatesOf(e)[i] = e[i].gate BY DEF GatesOf
    <2>5. \A i \in 1 .. Len(f) : GatesOf(f)[i] = f[i].gate BY DEF GatesOf
    <2> QED BY <1>2, <2>3, <2>4, <2>5
  <1>3. ASSUME Len(e) = Len(f), \A i \in 1 .. Len(e) : e[i].gate = f[i].gate
        PROVE  GatesOf(e) = GatesOf(f)
    BY <1>3 DEF GatesOf
  <1> QED BY <1>2, <1>3

\* Entries that keep their gates list each of them once, as before.
LEMMA Relabelled ==
  ASSUME NEW S, NEW T, NEW e \in Seq(S), OncePerGate(e),
         NEW r \in [1 .. Len(e) -> T],
         \A i \in 1 .. Len(e) : r[i].gate = e[i].gate
  PROVE  r \in Seq(T) /\ OncePerGate(r) /\ GatesOf(r) = GatesOf(e)
  <1>1. Len(e) \in Nat OBVIOUS
  <1>2. r \in Seq(T) /\ Len(r) = Len(e) BY <1>1, EntrySeq
  <1>3. OncePerGate(r) BY <1>2 DEF OncePerGate
  <1>4. GatesOf(r) = GatesOf(e) BY <1>2, SameGates
  <1> QED BY <1>2, <1>3, <1>4

LEMMA ScaledEntries ==
  ASSUME NEW e \in Seq(Loose), OncePerGate(e), NEW f \in Int
  PROVE  /\ Scale(e, f) \in Seq(Loose) /\ OncePerGate(Scale(e, f))
         /\ GatesOf(Scale(e, f)) = GatesOf(e)
  <1>1. \A i \in 1 .. Len(e) :
          /\ Scale(e, f)[i] \in Loose
          /\ Scale(e, f)[i].gate = e[i].gate
    <2> TAKE i \in 1 .. Len(e)
    <2>1. e[i] \in Loose OBVIOUS
    <2>2. Scale(e, f)[i] = Entry(e[i].gate, e[i].value * f) BY DEF Scale
    <2>3. e[i].value * f \in Int BY <2>1 DEF Loose
    <2> QED BY <2>1, <2>2, <2>3 DEF Loose, Entry
  <1>2. Scale(e, f) \in [1 .. Len(e) -> Loose] BY <1>1 DEF Scale
  <1> QED BY <1>1, <1>2, Relabelled

\* Setting a gate in two Maps that list the same gates keeps them so.
LEMMA PutBoth ==
  ASSUME NEW S, NEW T, NEW e \in Seq(S), NEW f \in Seq(T),
         GatesOf(e) = GatesOf(f), NEW g, NEW v, NEW w, NEW r, NEW s,
         IsPut(S, e, g, v, r), IsPut(T, f, g, w, s)
  PROVE  GatesOf(r) = GatesOf(s)
  <1>1. Len(e) = Len(f) /\ \A i \in 1 .. Len(e) : e[i].gate = f[i].gate
    BY SameGates
  <1>2. Holds(e, {g}) <=> Holds(f, {g}) BY <1>1 DEF Holds
  <1>3. r \in Seq(S) /\ s \in Seq(T) BY DEF IsPut
  <1>4. Len(r) = Len(s) BY <1>1, <1>2 DEF IsPut
  <1>5. \A i \in 1 .. Len(r) : r[i].gate = IF i <= Len(e) THEN e[i].gate ELSE g
    BY DEF IsPut
  <1>6. \A i \in 1 .. Len(s) : s[i].gate = IF i <= Len(f) THEN f[i].gate ELSE g
    BY DEF IsPut
  <1>7. Len(e) \in Nat /\ Len(r) \in Nat BY <1>3
  <1>8. \A i \in 1 .. Len(r) : r[i].gate = s[i].gate
    BY <1>1, <1>4, <1>5, <1>6, <1>7
  <1> QED BY <1>3, <1>4, <1>8, SameGates

\* Setting a gate that a Map holds keeps its gates.
LEMMA PutThere ==
  ASSUME NEW T, NEW e \in Seq(T), NEW g, NEW v, NEW r,
         IsPut(T, e, g, v, r), Holds(e, {g})
  PROVE  GatesOf(r) = GatesOf(e)
  <1>1. r \in Seq(T) /\ Len(r) = Len(e) BY DEF IsPut
  <1>2. \A i \in 1 .. Len(r) : r[i].gate = e[i].gate BY <1>1 DEF IsPut
  <1> QED BY <1>1, <1>2, SameGates

LEMMA DropOne ==
  ASSUME NEW T, NEW e \in Seq(T), OncePerGate(e), NEW g
  PROVE  Drop(e, {g}) \in Seq(T) /\ OncePerGate(Drop(e, {g}))
  <1>1. CASE Holds(e, {g})
    <2>1. PICK at \in 1 .. Len(e) : e[at].gate = g BY <1>1 DEF Holds
    <2>2. IsCut(T, e, at, Drop(e, {g})) BY <2>1, DropResult
    <2> QED BY <2>2 DEF IsCut
  <1>2. CASE ~Holds(e, {g}) BY <1>2 DEF Drop
  <1> QED BY <1>1, <1>2

\* Removing a gate from two Maps that list the same gates keeps them so.
LEMMA DropBoth ==
  ASSUME NEW S, NEW T, NEW e \in Seq(S), NEW f \in Seq(T),
         OncePerGate(e), OncePerGate(f), GatesOf(e) = GatesOf(f), NEW g
  PROVE  GatesOf(Drop(e, {g})) = GatesOf(Drop(f, {g}))
  <1>0. Len(e) \in Nat /\ Len(f) \in Nat OBVIOUS
  <1>1. Len(e) = Len(f) /\ \A i \in 1 .. Len(e) : e[i].gate = f[i].gate
    BY SameGates
  <1>2. CASE Holds(e, {g})
    <2>1. PICK at \in 1 .. Len(e) : e[at].gate = g BY <1>2 DEF Holds
    <2>2. IsCut(S, e, at, Drop(e, {g})) BY <2>1, DropResult
    <2>3. at \in 1 .. Len(f) /\ f[at].gate = g BY <1>1, <2>1
    <2>4. IsCut(T, f, at, Drop(f, {g})) BY <2>3, DropResult
    <2> DEFINE r == Drop(e, {g})  s == Drop(f, {g})
    <2> HIDE DEF r, s
    <2>5. r \in Seq(S) /\ s \in Seq(T) /\ Len(r) = Len(e) - 1 /\ Len(s) = Len(r)
      BY <1>1, <2>2, <2>4 DEF IsCut, r, s
    <2>6. \A i \in 1 .. Len(r) :
            /\ r[i] = IF i < at THEN e[i] ELSE e[i + 1]
            /\ s[i] = IF i < at THEN f[i] ELSE f[i + 1]
      BY <2>2, <2>4, <2>5 DEF IsCut, r, s
    <2>7. ASSUME NEW i \in 1 .. Len(r) PROVE r[i].gate = s[i].gate
      <3>1. i \in 1 .. Len(e) /\ i + 1 \in 1 .. Len(e) BY <1>0, <2>5
      <3>2. CASE i < at BY <1>1, <2>6, <3>1, <3>2
      <3>3. CASE ~(i < at) BY <1>1, <2>6, <3>1, <3>3
      <3> QED BY <3>2, <3>3
    <2>8. GatesOf(r) = GatesOf(s) BY <2>5, <2>7, SameGates
    <2> QED BY <2>8 DEF r, s
  <1>3. CASE ~Holds(e, {g})
    <2>1. ~Holds(f, {g}) BY <1>1, <1>3 DEF Holds
    <2> QED BY <1>3, <2>1 DEF Drop
  <1> QED BY <1>2, <1>3

-----------------------------------------------------------------------------
(* The Maps of all axes.                                                   *)

LEMMA MapsGood == IInv => GoodMaps(offset, direction)
  <1> SUFFICES ASSUME IInv PROVE GoodMaps(offset, direction) OBVIOUS
  <1> USE DEF IInv, TypeOK
  <1>1. DirectionEntries \subseteq Loose
    BY LevelsAssumption DEF DirectionEntries, Loose
  <1>2. \A a \in Axes : direction[a] \in Seq(Loose)
    <2> TAKE a \in Axes
    <2>1. direction[a] \in Seq(DirectionEntries) OBVIOUS
    <2> QED BY <1>1, <2>1
  <1>3. \A a \in Axes : GoodPair(offset[a], direction[a])
    BY <1>2 DEF GoodPair, Aligned
  <1> QED BY <1>2, <1>3 DEF GoodMaps

LEMMA ReplaceMaps ==
  ASSUME NEW off, NEW dir, GoodMaps(off, dir), NEW a \in Axes,
         NEW o, NEW d, GoodPair(o, d)
  PROVE  GoodMaps([off EXCEPT ![a] = o], [dir EXCEPT ![a] = d])
BY DEF GoodMaps, GoodPair

LEMMA ReplaceOffset ==
  ASSUME NEW off, NEW dir, GoodMaps(off, dir), NEW a \in Axes,
         NEW o, GoodPair(o, dir[a])
  PROVE  GoodMaps([off EXCEPT ![a] = o], dir)
BY DEF GoodMaps, GoodPair

LEMMA ReplaceDirection ==
  ASSUME NEW off, NEW dir, GoodMaps(off, dir), NEW a \in Axes,
         NEW d, GoodPair(off[a], d)
  PROVE  GoodMaps(off, [dir EXCEPT ![a] = d])
BY DEF GoodMaps, GoodPair

\* Entries with values in range are entries of a direction.
LEMMA InRange ==
  ASSUME NEW d \in Seq(Loose), ValuesOf(d) \subseteq Amplitudes
  PROVE  d \in Seq(DirectionEntries)
  <1>1. Len(d) \in Nat /\ d \in [1 .. Len(d) -> Loose] OBVIOUS
  <1>2. \A i \in 1 .. Len(d) : d[i] \in Loose /\ d[i].value \in Amplitudes
    BY <1>1 DEF ValuesOf
  <1>3. \A i \in 1 .. Len(d) : d[i] \in DirectionEntries
    BY <1>2 DEF Loose, DirectionEntries
  <1>4. d \in [1 .. Len(d) -> DirectionEntries] BY <1>1, <1>3
  <1> QED BY <1>1, <1>4, EntrySeq

\* Any change that leaves the Maps good keeps the invariant.
LEMMA BecomeKeeps ==
  ASSUME NEW off, NEW dir, NEW level, GoodMaps(off, dir),
         Become(off, dir, level)
  PROVE  IInv'
  <1>1. offset' = off /\ direction' = dir BY DEF Become
  <1>2. volt' \in [Volts -> Offsets]
    <2>1. \A v \in Volts : volt'[v] \in Offsets BY DEF Become
    <2>2. volt' = [v \in Volts |->
                    IF \E a \in Axes : v \in ValuesOf(off[a])
                    THEN level[v] ELSE 0]
      BY DEF Become
    <2> QED BY <2>1, <2>2
  <1>3. \A a \in Axes : dir[a] \in Seq(DirectionEntries)
    <2> TAKE a \in Axes
    <2>1. dir[a] \in Seq(Loose) BY DEF GoodMaps, GoodPair
    <2>2. ValuesOf(dir[a]) \subseteq Amplitudes BY DEF Become
    <2> QED BY <2>1, <2>2, InRange
  <1>4. off \in [Axes -> Seq(OffsetEntries)] BY DEF GoodMaps
  <1>5. dir \in [Axes -> Seq(DirectionEntries)] BY <1>3 DEF GoodMaps
  <1>6. \A a \in Axes : OncePerGate(off[a]) /\ OncePerGate(dir[a])
    BY DEF GoodMaps, GoodPair
  <1>7. InDomain => \A a \in Axes : GatesOf(off[a]) = GatesOf(dir[a])
    BY DEF GoodMaps, GoodPair
  <1>8. TypeOK' BY <1>1, <1>2, <1>4, <1>5, <1>6 DEF TypeOK
  <1>9. InDomain => Aligned' BY <1>1, <1>7 DEF Aligned
  <1> QED BY <1>8, <1>9 DEF IInv

-----------------------------------------------------------------------------
(* Axes made from other axes.                                              *)

BuiltFrom(r, a, dir) ==
  \E copy \in [1 .. Len(offset[a]) -> Volts] : \E level :
    Become([offset EXCEPT ![r] =
              [i \in DOMAIN copy |-> Entry(offset[a][i].gate, copy[i])]],
           [direction EXCEPT ![r] = dir], level)

\* A clone of an offset lists the gates of the offset.
LEMMA CopyKeeps ==
  ASSUME NEW e \in Seq(OffsetEntries), OncePerGate(e),
         NEW copy \in [1 .. Len(e) -> Volts],
         NEW o, o = [i \in 1 .. Len(e) |-> Entry(e[i].gate, copy[i])]
  PROVE  o \in Seq(OffsetEntries) /\ OncePerGate(o) /\ GatesOf(o) = GatesOf(e)
  <1>1. \A i \in 1 .. Len(e) : e[i] \in OffsetEntries OBVIOUS
  <1>2. \A i \in 1 .. Len(e) : e[i].gate \in Gates BY <1>1 DEF OffsetEntries
  <1>3. o \in [1 .. Len(e) -> OffsetEntries]
    BY <1>2 DEF OffsetEntries, Entry
  <1>4. \A i \in 1 .. Len(e) : o[i].gate = e[i].gate BY DEF Entry
  <1> QED BY <1>3, <1>4, Relabelled

LEMMA BuiltKeeps ==
  ASSUME IInv, NEW r \in Axes, NEW a \in Axes,
         NEW dir \in Seq(Loose), OncePerGate(dir),
         InDomain => GatesOf(offset[a]) = GatesOf(dir), BuiltFrom(r, a, dir)
  PROVE  IInv'
  <1>1. PICK copy \in [1 .. Len(offset[a]) -> Volts] : \E level :
          Become([offset EXCEPT ![r] =
                    [i \in DOMAIN copy |-> Entry(offset[a][i].gate, copy[i])]],
                 [direction EXCEPT ![r] = dir], level)
    BY DEF BuiltFrom
  <1>2. PICK o : o = [i \in 1 .. Len(offset[a]) |->
                        Entry(offset[a][i].gate, copy[i])]
    OBVIOUS
  <1>3. PICK level : Become([offset EXCEPT ![r] = o],
                            [direction EXCEPT ![r] = dir], level)
    BY <1>1, <1>2
  <1>4. offset[a] \in Seq(OffsetEntries) /\ OncePerGate(offset[a])
    BY DEF IInv, TypeOK
  <1>5. /\ o \in Seq(OffsetEntries) /\ OncePerGate(o)
        /\ GatesOf(o) = GatesOf(offset[a])
    BY <1>2, <1>4, CopyKeeps
  <1>6. GoodPair(o, dir) BY <1>5 DEF GoodPair
  <1>7. GoodMaps([offset EXCEPT ![r] = o], [direction EXCEPT ![r] = dir])
    BY <1>6, MapsGood, ReplaceMaps
  <1> QED BY <1>3, <1>7, BecomeKeeps

\* The value of a Map under a gate, 0 if it has none, is a number.
LEMMA ValueIsInt ==
  ASSUME NEW e \in Seq(Loose), OncePerGate(e), NEW g
  PROVE  ValueOf(e, {g}) \in Int
  <1>1. CASE Holds(e, {g})
    <2>1. Len(e) \in Nat OBVIOUS
    <2>2. FirstOf(e, {g}) \in 1 .. Len(e) BY <1>1, <2>1, FirstFound
    <2>3. e[FirstOf(e, {g})] \in Loose BY <2>2
    <2> QED BY <1>1, <2>3 DEF ValueOf, Loose
  <1>2. CASE ~Holds(e, {g}) BY <1>2 DEF ValueOf
  <1> QED BY <1>1, <1>2

\* The value of a Map under a gate it lists is the one beside the gate.
LEMMA ValueBeside ==
  ASSUME NEW T, NEW e \in Seq(T), OncePerGate(e), NEW i \in 1 .. Len(e)
  PROVE  ValueOf(e, {e[i].gate}) = e[i].value
  <1>1. Len(e) \in Nat OBVIOUS
  <1>2. FirstOf(e, {e[i].gate}) = i BY <1>1, FirstIsOnly
  <1>3. Holds(e, {e[i].gate}) BY DEF Holds
  <1> QED BY <1>2, <1>3 DEF ValueOf

-----------------------------------------------------------------------------
(* The constructors.                                                       *)

\* What IInv says of one axis.
LEMMA OneAxis ==
  ASSUME IInv, NEW a \in Axes
  PROVE  /\ offset[a] \in Seq(OffsetEntries) /\ OncePerGate(offset[a])
         /\ direction[a] \in Seq(Loose) /\ OncePerGate(direction[a])
         /\ InDomain => GatesOf(offset[a]) = GatesOf(direction[a])
         /\ GoodPair(offset[a], direction[a])
  <1>1. GoodPair(offset[a], direction[a]) BY MapsGood DEF GoodMaps
  <1> QED BY <1>1 DEF GoodPair

LEMMA CloneBuilds ==
  ASSUME NEW r, NEW a, NEW dir, Clone(r, a, dir)
  PROVE  BuiltFrom(r, a, dir)
BY DEF Clone, Build, BuiltFrom, FreshFor

LEMMA NewKeeps ==
  ASSUME IInv, NEW a \in Axes, New(a)
  PROVE  IInv'
  <1>1. GoodPair(<<>>, <<>>) BY DEF GoodPair, OncePerGate
  <1>2. GoodMaps([offset EXCEPT ![a] = <<>>], [direction EXCEPT ![a] = <<>>])
    BY <1>1, MapsGood, ReplaceMaps
  <1> QED BY <1>2, BecomeKeeps DEF New

LEMMA FromPointAndDirectionKeeps ==
  ASSUME IInv, NEW r \in Axes, NEW a \in Axes, NEW b \in Axes,
         NewFromPointAndDirection(r, a, b)
  PROVE  IInv'
  <1>1. BuiltFrom(r, a, direction[b])
    BY CloneBuilds DEF NewFromPointAndDirection
  <1>2. InDomain => GatesOf(offset[a]) = GatesOf(direction[b])
    BY DEF NewFromPointAndDirection
  <1>3. direction[b] \in Seq(Loose) /\ OncePerGate(direction[b]) BY OneAxis
  <1> QED BY <1>1, <1>2, <1>3, BuiltKeeps

LEMMA ScaledKeeps ==
  ASSUME IInv, NEW r \in Axes, NEW a \in Axes, NEW f \in Factors, Scaled(r, a, f)
  PROVE  IInv'
  <1>1. BuiltFrom(r, a, Scale(direction[a], f))
    BY CloneBuilds DEF Scaled
  <1>2. f \in Int BY LevelsAssumption
  <1>3. /\ Scale(direction[a], f) \in Seq(Loose)
        /\ OncePerGate(Scale(direction[a], f))
        /\ GatesOf(Scale(direction[a], f)) = GatesOf(direction[a])
    BY <1>2, OneAxis, ScaledEntries
  <1> QED BY <1>1, <1>3, OneAxis, BuiltKeeps

LEMMA ShiftedKeeps ==
  ASSUME IInv, NEW r \in Axes, NEW a \in Axes, NEW b \in Axes, Shifted(r, a, b)
  PROVE  IInv'
  <1>1. BuiltFrom(r, a, direction[a])
    BY DEF Shifted, Build, BuiltFrom, FreshFor
  <1> QED BY <1>1, OneAxis, BuiltKeeps

\* The voltages of offsets and of the Points ToPoint returns are numbers.
LEMMA OffsetIsInt ==
  ASSUME IInv, NEW a \in Axes, NEW i \in 1 .. Len(offset[a])
  PROVE  OffsetOf(a, i) \in Int
  <1>1. offset[a][i] \in OffsetEntries BY OneAxis
  <1>2. offset[a][i].value \in Volts BY <1>1 DEF OffsetEntries
  <1>3. volt \in [Volts -> Offsets] BY DEF IInv, TypeOK
  <1> QED BY <1>2, <1>3, LevelsAssumption DEF OffsetOf

LEMMA CoefficientIsInt ==
  ASSUME IInv, NEW a \in Axes, NEW i, NEW c \in CoefficientsAt(a, i)
  PROVE  c \in Int
  <1> DEFINE d == direction[a]
  <1>1. d \in Seq(Loose) /\ OncePerGate(d) BY OneAxis
  <1>2. \A x \in ValuesOf(d) : x \in Int
    <2>1. \A j \in 1 .. Len(d) : d[j] \in Loose BY <1>1
    <2> QED BY <2>1 DEF ValuesOf, Loose
  <1>3. ValueOf(d, {d[i].gate}) \in Int BY <1>1, ValueIsInt
  <1>4. c = 0 \/ c = ValueOf(d, {d[i].gate}) \/ c \in ValuesOf(d)
    BY DEF CoefficientsAt
  <1> QED BY <1>2, <1>3, <1>4

LEMMA PointIsInt ==
  ASSUME IInv, NEW a \in Axes, NEW coord \in Coords, NEW point \in ToPoint(a, coord),
         NEW i \in 1 .. Len(offset[a])
  PROVE  point[i] \in Int
  <1>1. point[i] \in PointAt(a, coord, i) BY DEF ToPoint
  <1>2. PICK c \in CoefficientsAt(a, i) : point[i] = OffsetOf(a, i) + coord * c
    BY <1>1 DEF PointAt
  <1>3. c \in Int /\ OffsetOf(a, i) \in Int /\ coord \in Int
    BY CoefficientIsInt, OffsetIsInt, LevelsAssumption
  <1>4. coord * c \in Int BY <1>3
  <1> QED BY <1>2, <1>3, <1>4

LEMMA FromPointsKeeps ==
  ASSUME IInv, NEW r \in Axes, NEW a \in Axes, NEW b \in Axes, NEW c \in Coords,
         NewFromPoints(r, a, b, c)
  PROVE  IInv'
  <1>1. PICK point \in ToPoint(b, c) : BuiltFrom(r, a, Between(a, point))
    BY CloneBuilds DEF NewFromPoints
  <1>3. Len(offset[a]) <= Len(offset[b]) BY DEF NewFromPoints
  <1>4. \A i \in 1 .. Len(offset[a]) :
          /\ Between(a, point)[i] \in Loose
          /\ Between(a, point)[i].gate = offset[a][i].gate
    <2> TAKE i \in 1 .. Len(offset[a])
    <2>1. Len(offset[a]) \in Nat /\ Len(offset[b]) \in Nat BY OneAxis
    <2>2. i \in 1 .. Len(offset[b]) BY <1>3, <2>1
    <2>3. point[i] \in Int BY <2>2, PointIsInt
    <2>4. OffsetOf(a, i) \in Int BY OffsetIsInt
    <2>5. offset[a][i] \in OffsetEntries BY OneAxis
    <2>6. offset[a][i].gate \in Gates BY <2>5 DEF OffsetEntries
    <2>7. Between(a, point)[i] =
            Entry(offset[a][i].gate, point[i] - OffsetOf(a, i))
      BY DEF Between
    <2> QED BY <2>3, <2>4, <2>6, <2>7 DEF Loose, Entry
  <1>5. Between(a, point) \in [1 .. Len(offset[a]) -> Loose]
    BY <1>4 DEF Between
  <1>6. offset[a] \in Seq(OffsetEntries) /\ OncePerGate(offset[a]) BY OneAxis
  <1>7. /\ Between(a, point) \in Seq(Loose)
        /\ OncePerGate(Between(a, point))
        /\ GatesOf(Between(a, point)) = GatesOf(offset[a])
    <2>1. \A e \in Seq(OffsetEntries) : \A d \in [1 .. Len(e) -> Loose] :
            /\ OncePerGate(e)
            /\ \A i \in 1 .. Len(e) : d[i].gate = e[i].gate
            => d \in Seq(Loose) /\ OncePerGate(d) /\ GatesOf(d) = GatesOf(e)
      BY Relabelled
    <2> QED BY <1>4, <1>5, <1>6, <2>1
  <1> QED BY <1>1, <1>7, BuiltKeeps

-----------------------------------------------------------------------------
(* The modifiers.                                                          *)

\* An axis whose offset has g set, to any Voltage.
LEMMA PutOffset ==
  ASSUME IInv, NEW a \in Axes, NEW g \in Gates, NEW v \in Volts
  PROVE  IsPut(OffsetEntries, offset[a], g, v, Put(offset[a], {g}, g, v))
  <1>1. Entry(g, v) \in OffsetEntries BY DEF Entry, OffsetEntries
  <1> QED BY <1>1, OneAxis, PutResult

LEMMA PutAmplitude ==
  ASSUME IInv, NEW a \in Axes, NEW g \in Gates, NEW x \in Int
  PROVE  IsPut(Loose, direction[a], g, x, Put(direction[a], {g}, g, x))
  <1>1. Entry(g, x) \in Loose BY DEF Entry, Loose
  <1> QED BY <1>1, OneAxis, PutResult

\* Offset and direction list a gate alike in a script that is InDomain.
LEMMA InBoth ==
  ASSUME IInv, InDomain, NEW a \in Axes, NEW g
  PROVE  /\ g \in Domain(a) <=> Holds(offset[a], {g})
         /\ Holds(offset[a], {g}) <=> Holds(direction[a], {g})
  <1>1. g \in Domain(a) <=> Holds(offset[a], {g}) BY DEF Domain, Holds
  <1>2. /\ Len(offset[a]) = Len(direction[a])
        /\ \A i \in 1 .. Len(offset[a]) :
             offset[a][i].gate = direction[a][i].gate
    BY OneAxis, SameGates
  <1> QED BY <1>1, <1>2 DEF Holds

\* Setting the offset of a gate of the domain.
LEMMA OffsetPutKeeps ==
  ASSUME IInv, NEW a \in Axes, NEW g \in Gates, NEW v \in Volts,
         InDomain => g \in Domain(a), NEW level,
         Become(WithOffset(a, g, v), direction, level)
  PROVE  IInv'
  <1>1. PICK r : r = Put(offset[a], {g}, g, v) OBVIOUS
  <1>2. IsPut(OffsetEntries, offset[a], g, v, r) BY <1>1, PutOffset
  <1>3. r \in Seq(OffsetEntries) /\ OncePerGate(r) BY <1>2 DEF IsPut
  <1>4. InDomain => GatesOf(r) = GatesOf(offset[a])
    <2> HAVE InDomain
    <2>1. Holds(offset[a], {g}) BY InBoth
    <2>2. offset[a] \in Seq(OffsetEntries) BY OneAxis
    <2> QED BY <1>2, <2>1, <2>2, PutThere
  <1>5. GoodPair(r, direction[a]) BY <1>3, <1>4, OneAxis DEF GoodPair
  <1>6. GoodMaps([offset EXCEPT ![a] = r], direction)
    BY <1>5, MapsGood, ReplaceOffset
  <1>7. offset \in [Axes -> Seq(OffsetEntries)] BY DEF IInv, TypeOK
  <1>8. WithOffset(a, g, v) = [offset EXCEPT ![a] = r]
    BY <1>1, <1>7 DEF WithOffset
  <1> QED BY <1>6, <1>8, BecomeKeeps

\* Setting the amplitude of a gate of the domain.
LEMMA AmplitudePutKeeps ==
  ASSUME IInv, NEW a \in Axes, NEW g \in Gates, NEW x \in Int,
         InDomain => Holds(direction[a], {g}), NEW level,
         Become(offset, WithAmplitude(a, g, x), level)
  PROVE  IInv'
  <1>1. PICK r : r = Put(direction[a], {g}, g, x) OBVIOUS
  <1>2. IsPut(Loose, direction[a], g, x, r) BY <1>1, PutAmplitude
  <1>3. r \in Seq(Loose) /\ OncePerGate(r) BY <1>2 DEF IsPut
  <1>4. InDomain => GatesOf(r) = GatesOf(direction[a])
    BY <1>2, OneAxis, PutThere
  <1>5. GoodPair(offset[a], r) BY <1>3, <1>4, OneAxis DEF GoodPair
  <1>6. GoodMaps(offset, [direction EXCEPT ![a] = r])
    BY <1>5, MapsGood, ReplaceDirection
  <1>7. direction \in [Axes -> Seq(DirectionEntries)] BY DEF IInv, TypeOK
  <1>8. WithAmplitude(a, g, x) = [direction EXCEPT ![a] = r]
    BY <1>1, <1>7 DEF WithAmplitude
  <1> QED BY <1>6, <1>8, BecomeKeeps

LEMMA ExtendDomainKeeps ==
  ASSUME IInv, NEW a \in Axes, NEW g \in Gates, NEW v \in Volts,
         NEW x \in Offsets, NEW amp \in Amplitudes, ExtendDomain(a, g, v, x, amp)
  PROVE  IInv'
  <1>0. amp \in Int BY LevelsAssumption
  <1>1. PICK r : r = Put(offset[a], {g}, g, v) OBVIOUS
  <1>2. PICK s : s = Put(direction[a], {g}, g, amp) OBVIOUS
  <1>3. IsPut(OffsetEntries, offset[a], g, v, r) BY <1>1, PutOffset
  <1>4. IsPut(Loose, direction[a], g, amp, s) BY <1>0, <1>2, PutAmplitude
  <1>5. /\ r \in Seq(OffsetEntries) /\ OncePerGate(r)
        /\ s \in Seq(Loose) /\ OncePerGate(s)
    BY <1>3, <1>4 DEF IsPut
  <1>6. InDomain => GatesOf(r) = GatesOf(s) BY <1>3, <1>4, OneAxis, PutBoth
  <1>7. GoodPair(r, s) BY <1>5, <1>6 DEF GoodPair
  <1>8. GoodMaps([offset EXCEPT ![a] = r], [direction EXCEPT ![a] = s])
    BY <1>7, MapsGood, ReplaceMaps
  <1>9. /\ offset \in [Axes -> Seq(OffsetEntries)]
        /\ direction \in [Axes -> Seq(DirectionEntries)]
    BY DEF IInv, TypeOK
  <1>10. /\ WithOffset(a, g, v) = [offset EXCEPT ![a] = r]
         /\ WithAmplitude(a, g, amp) = [direction EXCEPT ![a] = s]
    BY <1>1, <1>2, <1>9 DEF WithOffset, WithAmplitude
  <1>11. Become([offset EXCEPT ![a] = r], [direction EXCEPT ![a] = s],
                [volt EXCEPT ![v] = x])
    BY <1>10 DEF ExtendDomain
  <1> QED BY <1>8, <1>11, BecomeKeeps

LEMMA RescaleKeeps ==
  ASSUME IInv, NEW a \in Axes, NEW f \in Factors, Rescale(a, f)
  PROVE  IInv'
  <1>1. f \in Int BY LevelsAssumption
  <1>2. PICK s : s = Scale(direction[a], f) OBVIOUS
  <1>3. /\ s \in Seq(Loose) /\ OncePerGate(s)
        /\ GatesOf(s) = GatesOf(direction[a])
    BY <1>1, <1>2, OneAxis, ScaledEntries
  <1>4. GoodPair(offset[a], s) BY <1>3, OneAxis DEF GoodPair
  <1>5. GoodMaps(offset, [direction EXCEPT ![a] = s])
    BY <1>4, MapsGood, ReplaceDirection
  <1>6. direction \in [Axes -> Seq(DirectionEntries)] BY DEF IInv, TypeOK
  <1>7. Become(offset, [direction EXCEPT ![a] = s], volt)
    BY <1>2, <1>6 DEF Rescale
  <1> QED BY <1>5, <1>7, BecomeKeeps

LEMMA ZeroOffsetsKeeps ==
  ASSUME IInv, NEW a \in Axes, ZeroOffsets(a)
  PROVE  IInv'
BY MapsGood, BecomeKeeps DEF ZeroOffsets

LEMMA SetOffsetKeeps ==
  ASSUME IInv, NEW a \in Axes, NEW g \in Gates, NEW v \in Volts, NEW x \in Offsets,
         SetOffset(a, g, v, x)
  PROVE  IInv'
BY OffsetPutKeeps DEF SetOffset

LEMMA ShiftOffsetKeeps ==
  ASSUME IInv, NEW a \in Axes, NEW g \in Gates, NEW v \in Volts,
         NEW delta \in Amplitudes, ShiftOffset(a, g, v, delta)
  PROVE  IInv'
BY OffsetPutKeeps DEF ShiftOffset

LEMMA SetAmplitudeKeeps ==
  ASSUME IInv, NEW a \in Axes, NEW g \in Gates, NEW x \in Amplitudes,
         SetAmplitude(a, g, x)
  PROVE  IInv'
  <1>1. x \in Int BY LevelsAssumption
  <1>2. InDomain => Holds(direction[a], {g}) BY InBoth DEF SetAmplitude
  <1>3. Become(offset, WithAmplitude(a, g, x), volt) BY DEF SetAmplitude
  <1> QED BY <1>1, <1>2, <1>3, AmplitudePutKeeps

LEMMA ShiftAmplitudeKeeps ==
  ASSUME IInv, NEW a \in Axes, NEW g \in Gates, NEW delta \in Amplitudes,
         ShiftAmplitude(a, g, delta)
  PROVE  IInv'
  <1>1. GetAmplitude(a, g) \in Int BY OneAxis, ValueIsInt DEF GetAmplitude
  <1>2. delta \in Int BY LevelsAssumption
  <1>3. GetAmplitude(a, g) + delta \in Int BY <1>1, <1>2
  <1>4. Holds(direction[a], {g}) BY DEF ShiftAmplitude
  <1>5. Become(offset, WithAmplitude(a, g, GetAmplitude(a, g) + delta), volt)
    BY DEF ShiftAmplitude
  <1> QED BY <1>3, <1>4, <1>5, AmplitudePutKeeps

LEMMA RemoveGateKeeps ==
  ASSUME IInv, NEW a \in Axes, NEW g \in Gates, RemoveGate(a, g)
  PROVE  IInv'
  <1>1. PICK r : r = Drop(offset[a], {g}) OBVIOUS
  <1>2. PICK s : s = Drop(direction[a], {g}) OBVIOUS
  <1>3. r \in Seq(OffsetEntries) /\ OncePerGate(r) BY <1>1, OneAxis, DropOne
  <1>4. s \in Seq(Loose) /\ OncePerGate(s) BY <1>2, OneAxis, DropOne
  <1>5. InDomain => GatesOf(r) = GatesOf(s)
    <2> HAVE InDomain
    <2>1. GatesOf(offset[a]) = GatesOf(direction[a]) BY OneAxis
    <2>2. /\ offset[a] \in Seq(OffsetEntries) /\ OncePerGate(offset[a])
          /\ direction[a] \in Seq(Loose) /\ OncePerGate(direction[a])
      BY OneAxis
    <2>3. GatesOf(Drop(offset[a], {g})) = GatesOf(Drop(direction[a], {g}))
      <3>1. \A e \in Seq(OffsetEntries), f \in Seq(Loose) :
              OncePerGate(e) /\ OncePerGate(f) /\ GatesOf(e) = GatesOf(f)
              => GatesOf(Drop(e, {g})) = GatesOf(Drop(f, {g}))
        BY DropBoth
      <3> QED BY <2>1, <2>2, <3>1
    <2> QED BY <1>1, <1>2, <2>3
  <1>6. GoodPair(r, s) BY <1>3, <1>4, <1>5 DEF GoodPair
  <1>7. GoodMaps([offset EXCEPT ![a] = r], [direction EXCEPT ![a] = s])
    BY <1>6, MapsGood, ReplaceMaps
  <1>8. /\ offset \in [Axes -> Seq(OffsetEntries)]
        /\ direction \in [Axes -> Seq(DirectionEntries)]
    BY DEF IInv, TypeOK
  <1>9. Become([offset EXCEPT ![a] = r], [direction EXCEPT ![a] = s], volt)
    BY <1>1, <1>2, <1>8 DEF RemoveGate
  <1> QED BY <1>7, <1>9, BecomeKeeps

-----------------------------------------------------------------------------
(* The theorems.                                                           *)

LEMMA InitHolds == Init => IInv
  <1> SUFFICES ASSUME Init PROVE IInv OBVIOUS
  <1>1. \A a \in Axes : offset[a] = <<>> /\ direction[a] = <<>> BY DEF Init
  <1>2. OncePerGate(<<>>) BY DEF OncePerGate
  <1>3. TypeOK BY <1>1, <1>2, LevelsAssumption DEF TypeOK, Init
  <1>4. Aligned BY <1>1 DEF Aligned
  <1> QED BY <1>3, <1>4 DEF IInv

LEMMA StepKeeps == IInv /\ [Next]_vars => IInv'
  <1> SUFFICES ASSUME IInv, [Next]_vars PROVE IInv' OBVIOUS
  <1>1. CASE UNCHANGED vars BY <1>1 DEF vars, IInv, TypeOK, Aligned
  <1>2. ASSUME NEW a \in Axes, New(a) \/ ZeroOffsets(a) PROVE IInv'
    BY <1>2, NewKeeps, ZeroOffsetsKeeps
  <1>3. ASSUME NEW r \in Axes, NEW a \in Axes, NEW b \in Axes,
               NewFromPointAndDirection(r, a, b) \/ Shifted(r, a, b)
        PROVE  IInv'
    BY <1>3, FromPointAndDirectionKeeps, ShiftedKeeps
  <1>4. ASSUME NEW r \in Axes, NEW a \in Axes, NEW b \in Axes, NEW c \in Coords,
               NewFromPoints(r, a, b, c)
        PROVE  IInv'
    BY <1>4, FromPointsKeeps
  <1>5. ASSUME NEW r \in Axes, NEW a \in Axes, NEW f \in Factors,
               Scaled(r, a, f) \/ Rescale(a, f)
        PROVE  IInv'
    BY <1>5, ScaledKeeps, RescaleKeeps
  <1>6. ASSUME NEW a \in Axes, NEW g \in Gates, NEW v \in Volts, NEW x \in Offsets,
               \/ SetOffset(a, g, v, x)
               \/ \E amp \in Amplitudes : ExtendDomain(a, g, v, x, amp)
        PROVE  IInv'
    BY <1>6, SetOffsetKeeps, ExtendDomainKeeps
  <1>7. ASSUME NEW a \in Axes, NEW g \in Gates, NEW delta \in Amplitudes,
               \/ SetAmplitude(a, g, delta) \/ ShiftAmplitude(a, g, delta)
               \/ \E v \in Volts : ShiftOffset(a, g, v, delta)
        PROVE  IInv'
    BY <1>7, SetAmplitudeKeeps, ShiftAmplitudeKeeps, ShiftOffsetKeeps
  <1>8. ASSUME NEW a \in Axes, NEW g \in Gates, RemoveGate(a, g) PROVE IInv'
    BY <1>8, RemoveGateKeeps
  <1> QED BY <1>1, <1>2, <1>3, <1>4, <1>5, <1>6, <1>7, <1>8 DEF Next

\* ToPoint adds the amplitude of each gate, times the coordinate, to the offset
\* of that gate when offset and direction list their gates alike.
LEMMA AlignedIsAffine == IInv /\ Aligned => ToPointIsAffine
  <1> SUFFICES ASSUME IInv, Aligned, NEW a \in Axes, NEW coord \in Coords,
                      NEW point \in ToPoint(a, coord),
                      NEW i \in 1 .. Len(offset[a])
               PROVE  point[i] = GetOffset(a, offset[a][i].gate)
                                 + coord * GetAmplitude(a, offset[a][i].gate)
    BY DEF ToPointIsAffine
  <1>1. /\ Len(offset[a]) = Len(direction[a])
        /\ direction[a][i].gate = offset[a][i].gate
    BY OneAxis, SameGates DEF Aligned
  <1>2. i <= Len(direction[a]) /\ direction[a] # <<>>
    <2>1. Len(direction[a]) \in Nat BY OneAxis
    <2> QED BY <1>1, <2>1
  <1>3. CoefficientsAt(a, i) = {GetAmplitude(a, offset[a][i].gate)}
    BY <1>1, <1>2 DEF CoefficientsAt, GetAmplitude
  <1>4. OffsetOf(a, i) = GetOffset(a, offset[a][i].gate)
    BY OneAxis, ValueBeside DEF OffsetOf, GetOffset
  <1>5. point[i] \in PointAt(a, coord, i) BY DEF ToPoint
  <1> QED BY <1>3, <1>4, <1>5 DEF PointAt

LEMMA Inductive == Spec => []IInv
BY InitHolds, StepKeeps, PTL DEF Spec

\* The Maps of every axis hold a gate once, with a value in range, whatever a
\* script calls (Map.Set and Map.Remove keep Maps well formed).
THEOREM TypeCorrect == Spec => []TypeOK
  <1>1. IInv => TypeOK BY DEF IInv
  <1> QED BY <1>1, Inductive, PTL

\* A script that changes domains with ExtendDomain and RemoveGate only keeps
\* the gates of offset and direction in one order (controlAxis.fal:141-208).
THEOREM AxesAligned == InDomain => (Spec => []Aligned)
  <1> SUFFICES ASSUME InDomain PROVE Spec => []Aligned OBVIOUS
  <1>1. IInv => Aligned BY DEF IInv
  <1> QED BY <1>1, Inductive, PTL

\* In such a script ToPoint is what its documentation says
\* (controlAxis.fal:230-236), though it pairs gates by position.
THEOREM ToPointAffine == InDomain => (Spec => []ToPointIsAffine)
  <1> SUFFICES ASSUME InDomain PROVE Spec => []ToPointIsAffine OBVIOUS
  <1>1. IInv => ToPointIsAffine BY AlignedIsAffine DEF IInv
  <1> QED BY <1>1, Inductive, PTL

-----------------------------------------------------------------------------
(* Directions between points.                                              *)

\* The direction from the offset of one axis to a point of another subtracts
\* voltages of the same gate when both axes list their gates alike.
LEMMA AlignedGoesThrough == IInv /\ Aligned => ThroughPoints
  <1> SUFFICES ASSUME IInv, Aligned, NEW a \in Axes, NEW b \in Axes, NEW c \in Coords,
                      GatesOf(offset[a]) = GatesOf(offset[b]),
                      NEW point \in ToPoint(b, c), NEW g \in Domain(a)
               PROVE  ValueOf(Between(a, point), {g}) =
                        (GetOffset(b, g) + c * GetAmplitude(b, g)) - GetOffset(a, g)
    BY DEF ThroughPoints
  <1>1. /\ offset[a] \in Seq(OffsetEntries) /\ OncePerGate(offset[a])
        /\ offset[b] \in Seq(OffsetEntries) /\ OncePerGate(offset[b])
        /\ direction[b] \in Seq(Loose)
        /\ GatesOf(offset[b]) = GatesOf(direction[b])
    BY OneAxis DEF Aligned
  <1>2. PICK i \in 1 .. Len(offset[a]) : offset[a][i].gate = g BY DEF Domain
  <1>3. Len(offset[a]) = Len(offset[b]) /\ offset[b][i].gate = g
    BY <1>1, <1>2, SameGates
  <1>4. Domain(b) = {direction[b][j].gate : j \in 1 .. Len(direction[b])}
    <2>1. /\ Len(offset[b]) = Len(direction[b])
          /\ \A j \in 1 .. Len(offset[b]) : offset[b][j].gate = direction[b][j].gate
      BY <1>1, SameGates
    <2> QED BY <2>1 DEF Domain
  <1>5. i \in 1 .. Len(offset[b]) BY <1>3
  <1>6. point[i] = GetOffset(b, g) + c * GetAmplitude(b, g)
    BY <1>3, <1>4, <1>5, AlignedIsAffine DEF ToPointIsAffine
  <1>7. OffsetOf(a, i) = GetOffset(a, g)
    BY <1>1, <1>2, ValueBeside DEF OffsetOf, GetOffset
  <1>8. \A j \in 1 .. Len(offset[a]) :
          /\ Between(a, point)[j].gate = offset[a][j].gate
          /\ Between(a, point)[j].value = point[j] - OffsetOf(a, j)
    BY DEF Between, Entry
  <1>9. DOMAIN Between(a, point) = 1 .. Len(offset[a]) BY DEF Between
  <1> DEFINE T == {Between(a, point)[j] : j \in 1 .. Len(offset[a])}
  <1>10. \A e \in Seq(OffsetEntries) : \A d \in [1 .. Len(e) -> T] :
           OncePerGate(e) /\ (\A j \in 1 .. Len(e) : d[j].gate = e[j].gate)
           => d \in Seq(T) /\ OncePerGate(d) /\ GatesOf(d) = GatesOf(e)
    BY Relabelled
  <1>11. Between(a, point) \in [1 .. Len(offset[a]) -> T] BY DEF Between
  <1>12. /\ Between(a, point) \in Seq(T) /\ OncePerGate(Between(a, point))
         /\ GatesOf(Between(a, point)) = GatesOf(offset[a])
    BY <1>1, <1>8, <1>10, <1>11
  <1>13. Len(Between(a, point)) = Len(offset[a]) BY <1>1, <1>12, SameGates
  <1>14. ValueOf(Between(a, point), {Between(a, point)[i].gate}) = Between(a, point)[i].value
    BY <1>12, <1>13, ValueBeside
  <1>15. Between(a, point)[i].gate = g /\ Between(a, point)[i].value = point[i] - OffsetOf(a, i)
    BY <1>2, <1>8
  <1>16. ValueOf(Between(a, point), {g}) = point[i] - GetOffset(a, g)
    BY <1>7, <1>14, <1>15, Zenon
  <1> QED BY <1>6, <1>16, Zenon

-----------------------------------------------------------------------------
(* What a call on one axis does to the others.                             *)

OthersKeep == \E r \in Axes : \A b \in Axes \ {r} : ReadingOf(b)' = ReadingOf(b)

\* New entries for one axis, and levels that leave the Voltages of the others.
LEMMA OnlyOneChanges ==
  ASSUME IInv, NEW r \in Axes, NEW o, NEW d, NEW level,
         Become([offset EXCEPT ![r] = o], [direction EXCEPT ![r] = d], level),
         \A b \in Axes \ {r} : \A v \in ValuesOf(offset[b]) : level[v] = volt[v]
  PROVE  OthersKeep
  <1> SUFFICES ASSUME NEW b \in Axes \ {r} PROVE ReadingOf(b)' = ReadingOf(b)
    BY DEF OthersKeep
  <1>1. offset'[b] = offset[b] /\ direction'[b] = direction[b]
    BY DEF Become, IInv, TypeOK
  <1>2. \A v \in Volts : v \in ValuesOf(offset[b]) => volt'[v] = level[v]
    BY <1>1 DEF Become, ValuesOf
  <1>3. ASSUME NEW i \in 1 .. Len(offset[b])
        PROVE  volt'[offset[b][i].value] = volt[offset[b][i].value]
    <2>1. offset[b][i] \in OffsetEntries BY OneAxis
    <2>2. offset[b][i].value \in Volts /\ offset[b][i].value \in ValuesOf(offset[b])
      BY <2>1 DEF OffsetEntries, ValuesOf
    <2> QED BY <1>2, <2>2
  <1>4. [i \in 1 .. Len(offset'[b]) |->
           <<offset'[b][i].gate, volt'[offset'[b][i].value]>>]
        = [i \in 1 .. Len(offset[b]) |-> <<offset[b][i].gate, volt[offset[b][i].value]>>]
    BY <1>1, <1>3
  <1> QED BY <1>1, <1>4 DEF ReadingOf, OffsetOf

LEMMA SameOffset == IInv => \A a \in Axes : offset = [offset EXCEPT ![a] = offset[a]]
BY DEF IInv, TypeOK

LEMMA SameDirection ==
  IInv => \A a \in Axes : direction = [direction EXCEPT ![a] = direction[a]]
BY DEF IInv, TypeOK

\* The Voltages of a new offset are new.
LEMMA BuildKeepsOthers ==
  ASSUME IInv, NEW r \in Axes, NEW a \in Axes, NEW levels, NEW dir, Build(r, a, levels, dir)
  PROVE  OthersKeep
  <1>1. PICK copy \in [1 .. Len(offset[a]) -> FreshFor(r)] :
          Become([offset EXCEPT ![r] =
                    [i \in DOMAIN copy |-> Entry(offset[a][i].gate, copy[i])]],
                 [direction EXCEPT ![r] = dir],
                 [v \in Volts |->
                    IF \E i \in DOMAIN copy : copy[i] = v
                    THEN levels[CHOOSE i \in DOMAIN copy : copy[i] = v]
                    ELSE volt[v]])
    BY DEF Build
  <1> DEFINE level == [v \in Volts |->
                         IF \E i \in DOMAIN copy : copy[i] = v
                         THEN levels[CHOOSE i \in DOMAIN copy : copy[i] = v]
                         ELSE volt[v]]
  <1>2. ASSUME NEW b \in Axes \ {r}, NEW v \in ValuesOf(offset[b])
        PROVE  level[v] = volt[v]
    <2>1. v \in Volts
      <3>1. PICK i \in 1 .. Len(offset[b]) : v = offset[b][i].value
        BY <1>2 DEF ValuesOf
      <3>2. offset[b][i] \in OffsetEntries BY <3>1, OneAxis
      <3> QED BY <3>1, <3>2 DEF OffsetEntries
    <2>2. v \notin FreshFor(r) BY DEF FreshFor
    <2> QED BY <2>1, <2>2
  <1> HIDE DEF level
  <1>3. Become([offset EXCEPT ![r] =
                    [i \in DOMAIN copy |-> Entry(offset[a][i].gate, copy[i])]],
               [direction EXCEPT ![r] = dir], level)
    BY <1>1 DEF level
  <1> QED BY <1>2, <1>3, OnlyOneChanges

\* A Voltage put in an axis has the value that other axes see already.
LEMMA PutKeepsOthers ==
  ASSUME IInv, NEW a \in Axes, NEW g, NEW v \in Volts, NEW x, NEW d,
         Stores(a, g, v, x) \/ v \in FreshFor(a),
         Become(WithOffset(a, g, v), [direction EXCEPT ![a] = d], [volt EXCEPT ![v] = x])
  PROVE  OthersKeep
  <1> DEFINE level == [volt EXCEPT ![v] = x]
  <1>1. ASSUME NEW b \in Axes \ {a}, NEW w \in ValuesOf(offset[b])
        PROVE  level[w] = volt[w]
    <2>1. volt \in [Volts -> Offsets] BY DEF IInv, TypeOK
    <2>2. CASE w = v
      <3>1. v \notin FreshFor(a) BY <2>2 DEF FreshFor
      <3>2. v \in UNION {ValuesOf(IF c = a THEN Drop(offset[a], {g}) ELSE offset[c]) :
                         c \in Axes}
        BY <2>2
      <3>3. volt[v] = x BY <3>1, <3>2 DEF Stores
      <3> QED BY <2>1, <2>2, <3>3
    <2>3. CASE w # v BY <2>1, <2>3
    <2> QED BY <2>2, <2>3
  <1> HIDE DEF level
  <1>2. Become([offset EXCEPT ![a] = Put(offset[a], {g}, g, v)],
               [direction EXCEPT ![a] = d], level)
    BY DEF WithOffset, level
  <1> QED BY <1>1, <1>2, OnlyOneChanges

LEMMA StepsKeepOthers ==
  IInv /\ Next /\ (\A a \in Axes : ~ZeroOffsets(a)) => OthersKeep
  <1> SUFFICES ASSUME IInv, Next, \A a \in Axes : ~ZeroOffsets(a) PROVE OthersKeep
    OBVIOUS
  <1>1. ASSUME NEW a \in Axes, New(a) PROVE OthersKeep
    BY <1>1, OnlyOneChanges DEF New
  <1>2. ASSUME NEW r \in Axes, NEW a \in Axes, NEW b \in Axes,
               NewFromPointAndDirection(r, a, b) \/ Shifted(r, a, b)
        PROVE  OthersKeep
    BY <1>2, BuildKeepsOthers DEF NewFromPointAndDirection, Shifted, Clone
  <1>3. ASSUME NEW r \in Axes, NEW a \in Axes, NEW b \in Axes, NEW c \in Coords,
               NewFromPoints(r, a, b, c)
        PROVE  OthersKeep
    BY <1>3, BuildKeepsOthers DEF NewFromPoints, Clone
  <1>4. ASSUME NEW r \in Axes, NEW a \in Axes, NEW f \in Factors, Scaled(r, a, f)
        PROVE  OthersKeep
    BY <1>4, BuildKeepsOthers DEF Scaled, Clone
  <1>5. ASSUME NEW a \in Axes, NEW d, Become(offset, [direction EXCEPT ![a] = d], volt)
        PROVE  OthersKeep
    <2>1. Become([offset EXCEPT ![a] = offset[a]], [direction EXCEPT ![a] = d], volt)
      BY <1>5, SameOffset
    <2> QED BY <2>1, OnlyOneChanges
  <1>6. ASSUME NEW a \in Axes, NEW f \in Factors, Rescale(a, f) PROVE OthersKeep
    BY <1>5, <1>6 DEF Rescale
  <1>7. ASSUME NEW a \in Axes, NEW g \in Gates, NEW delta \in Amplitudes,
               SetAmplitude(a, g, delta) \/ ShiftAmplitude(a, g, delta)
        PROVE  OthersKeep
    BY <1>5, <1>7 DEF SetAmplitude, ShiftAmplitude, WithAmplitude
  <1>8. ASSUME NEW a \in Axes, NEW g \in Gates, NEW v \in Volts, NEW x \in Offsets,
               NEW amp \in Amplitudes, ExtendDomain(a, g, v, x, amp)
        PROVE  OthersKeep
    BY <1>8, PutKeepsOthers DEF ExtendDomain, WithAmplitude
  <1>9. ASSUME NEW a \in Axes, NEW g \in Gates, NEW v \in Volts, NEW x \in Offsets,
               SetOffset(a, g, v, x)
        PROVE  OthersKeep
    <2>1. Become(WithOffset(a, g, v), [direction EXCEPT ![a] = direction[a]],
                 [volt EXCEPT ![v] = x])
      BY <1>9, SameDirection DEF SetOffset
    <2> QED BY <1>9, <2>1, PutKeepsOthers DEF SetOffset
  <1>10. ASSUME NEW a \in Axes, NEW g \in Gates, NEW v \in Volts,
                NEW delta \in Amplitudes, ShiftOffset(a, g, v, delta)
         PROVE  OthersKeep
    <2>1. Become(WithOffset(a, g, v), [direction EXCEPT ![a] = direction[a]],
                 [volt EXCEPT ![v] = GetOffset(a, g) + delta])
      BY <1>10, SameDirection DEF ShiftOffset
    <2> QED BY <1>10, <2>1, PutKeepsOthers DEF ShiftOffset
  <1>11. ASSUME NEW a \in Axes, NEW g \in Gates, RemoveGate(a, g) PROVE OthersKeep
    BY <1>11, OnlyOneChanges DEF RemoveGate
  <1> QED
    BY <1>1, <1>2, <1>3, <1>4, <1>6, <1>7, <1>8, <1>9, <1>10, <1>11 DEF Next

\* In a script that keeps the gates in one order, the axis from one point to
\* another has their difference for direction, gate by gate
\* (controlAxis.fal:122-124).
THEOREM AxisThroughPoints == InDomain => (Spec => []ThroughPoints)
  <1> SUFFICES ASSUME InDomain PROVE Spec => []ThroughPoints OBVIOUS
  <1>1. IInv => ThroughPoints BY AlignedGoesThrough DEF IInv
  <1> QED BY <1>1, Inductive, PTL

\* Whatever Voltages axes share, only ZeroOffsets shows through them: any other
\* call leaves every axis but one as it read before, in any script
\* (control-axis-wrapper.cpp: the clones, and the new Voltages of ShiftOffset).
THEOREM AxesStayApart == Spec => CallsChangeOneAxis
  <1>1. IInv /\ [Next]_vars =>
          [(\A a \in Axes : ~ZeroOffsets(a)) =>
             \E r \in Axes : \A a \in Axes \ {r} : ReadingOf(a)' = ReadingOf(a)]_vars
    BY StepsKeepOthers DEF OthersKeep
  <1> QED BY <1>1, Inductive, PTL DEF Spec, CallsChangeOneAxis
=============================================================================
