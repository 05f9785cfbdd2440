---------------------------- MODULE ControlAxis -----------------------------
(***************************************************************************)
(* The ControlAxes of libs/control/controlAxis that a script holds: each   *)
(* has an offset, a Point that maps gates to Voltage objects, and a        *)
(* Direction that maps gates to coefficients.  The axis compares gates by  *)
(* name everywhere, so a gate is its name here.                            *)
(*                                                                         *)
(* Voltages are objects: an offset given to two axes is one Voltage, which *)
(* ZeroOffsets writes to.  Scaled, Shifted and the constructors clone all  *)
(* they copy.  ToPoint builds a new Point and changes nothing, so it is an *)
(* operator; a script uses its result to build an axis through two points. *)
(*                                                                         *)
(* An access past the end of an array is undefined: of the outcomes that   *)
(* let the script go on, every one is allowed.                             *)
(***************************************************************************)
EXTENDS GateMap, FiniteSets

CONSTANTS
  Axes,      \* the script's variables of type ControlAxis
  Gates,     \* the gates
  Volts,     \* the Voltage objects
  InDomain,  \* the script changes the domain of an axis with ExtendDomain and
             \* RemoveGate only, and pairs points and directions that list
             \* their gates in one order
  Factors,   \* the factors of Scaled and Rescale
  Coords,    \* the coordinates of ToPoint
  Offsets,   \* bound: the voltages an offset may have
  Amplitudes \* bound: the coefficients a direction may have

ASSUME InDomainAssumption == InDomain \in BOOLEAN
ASSUME LevelsAssumption ==
  /\ 0 \in Offsets
  /\ \A S \in {Offsets, Amplitudes, Factors, Coords} : S \subseteq Int

VARIABLES
  offset,     \* axis.offset_: entries of gates and Voltage objects
  direction,  \* axis.direction_: entries of gates and coefficients
  volt        \* Voltage::value_

vars == <<offset, direction, volt>>

OffsetEntries == [gate : Gates, value : Volts]
DirectionEntries == [gate : Gates, value : Amplitudes]

GatesOf(entries) == [i \in 1 .. Len(entries) |-> entries[i].gate]
ValuesOf(entries) == {entries[i].value : i \in 1 .. Len(entries)}
Scale(entries, f) ==
  [i \in 1 .. Len(entries) |-> Entry(entries[i].gate, entries[i].value * f)]

\* The value of the i-th offset, the offset and the amplitude of gate g.
OffsetOf(a, i) == volt[offset[a][i].value]
GetOffset(a, g) == volt[ValueOf(offset[a], {g})]
GetAmplitude(a, g) == ValueOf(direction[a], {g})

Init ==
  /\ offset = [a \in Axes |-> <<>>]
  /\ direction = [a \in Axes |-> <<>>]
  /\ volt = [v \in Volts |-> 0]

\* The new state.  Voltages out of use are freed.
Become(off, dir, level) ==
  /\ offset' = off /\ direction' = dir
  /\ volt' = [v \in Volts |->
               IF \E a \in Axes : v \in ValuesOf(off[a]) THEN level[v] ELSE 0]
  /\ \A v \in Volts : volt'[v] \in Offsets
  /\ \A a \in Axes : ValuesOf(dir[a]) \subseteq Amplitudes

\* Voltages an axis r may take for a new object: no other axis has them.
FreshFor(r) == Volts \ UNION {ValuesOf(offset[b]) : b \in Axes \ {r}}

\* MUTANT of Build: the clone keeps the Voltages it should copy.
Build_Shallow(r, a, levels, dir) ==
  Become([offset EXCEPT ![r] = offset[a]], [direction EXCEPT ![r] = dir],
         [v \in Volts |->
            IF v \in ValuesOf(offset[a])
            THEN levels[CHOOSE i \in 1 .. Len(offset[a]) : offset[a][i].value = v]
            ELSE volt[v]])

\* Axis r gets a clone of the offset of axis a, with the value levels[i] for its
\* i-th gate, and the direction dir.
Build(r, a, levels, dir) ==
  \E copy \in [1 .. Len(offset[a]) -> FreshFor(r)] :
    /\ \A i, j \in DOMAIN copy : copy[i] = copy[j] => i = j
    /\ Become([offset EXCEPT ![r] =
                 [i \in DOMAIN copy |-> Entry(offset[a][i].gate, copy[i])]],
              [direction EXCEPT ![r] = dir],
              [v \in Volts |->
                 IF \E i \in DOMAIN copy : copy[i] = v
                 THEN levels[CHOOSE i \in DOMAIN copy : copy[i] = v]
                 ELSE volt[v]])

\* The same, every gate with the value it has.
Clone(r, a, dir) ==
  Build(r, a, [i \in 1 .. Len(offset[a]) |-> OffsetOf(a, i)], dir)

-----------------------------------------------------------------------------
(* ToPoint.                                                                *)

\* MUTANT of CoefficientsAt: the inner loop looks for the first gate.
CoefficientsAt_First(a, i) ==
  IF direction[a] = <<>> THEN {0} ELSE {direction[a][1].value}

\* What the inner loop finds for the i-th gate of the offset: it looks for the
\* i-th gate of the direction, in the direction.
CoefficientsAt(a, i) ==
  LET dir == direction[a] IN
  IF dir = <<>> THEN {0}
  ELSE IF i <= Len(dir) THEN {ValueOf(dir, {dir[i].gate})}
  ELSE {0} \cup ValuesOf(dir)

\* The voltages the i-th gate of the returned Point may have.
PointAt(a, coord, i) ==
  {OffsetOf(a, i) + coord * c : c \in CoefficientsAt(a, i)}

\* The Points ToPoint may return, in the order of the offset's gates.
ToPoint(a, coord) ==
  LET at == 1 .. Len(offset[a]) IN
  {f \in [at -> UNION {PointAt(a, coord, i) : i \in at}] :
     \A i \in at : f[i] \in PointAt(a, coord, i)}

-----------------------------------------------------------------------------
(* Construction.  Offsets and directions come from the accessors Offset()  *)
(* and Direction() of axes.                                                *)

New(a) ==
  Become([offset EXCEPT ![a] = <<>>], [direction EXCEPT ![a] = <<>>], volt)

NewFromPointAndDirection(r, a, b) ==
  /\ InDomain => GatesOf(offset[a]) = GatesOf(direction[b])
  /\ Clone(r, a, direction[b])

\* MUTANT of Between: the point itself becomes the amplitude.
Between_NoDifference(a, point) ==
  [i \in 1 .. Len(offset[a]) |-> Entry(offset[a][i].gate, point[i])]

\* From the offset of a to a point, gates paired by position.
Between(a, point) ==
  [i \in 1 .. Len(offset[a]) |->
     Entry(offset[a][i].gate, point[i] - OffsetOf(a, i))]

\* The axis through a.Offset() and b.ToPoint(coord).  A point with fewer gates
\* than the offset is read past its end: undefined behaviour, left out.
NewFromPoints(r, a, b, coord) ==
  /\ InDomain => GatesOf(offset[a]) = GatesOf(offset[b])
  /\ Len(offset[a]) <= Len(offset[b])
  /\ \E point \in ToPoint(b, coord) : Clone(r, a, Between(a, point))

Scaled(r, a, factor) == Clone(r, a, Scale(direction[a], factor))

\* a.Shifted(b.Direction()).  An axis without gates is undefined behaviour.
Shifted(r, a, b) ==
  /\ offset[a] # <<>>
  /\ Build(r, a,
           [i \in 1 .. Len(offset[a]) |->
              OffsetOf(a, i) + GetAmplitude(b, offset[a][i].gate)],
           direction[a])

-----------------------------------------------------------------------------
(* Modifiers.                                                              *)

Domain(a) == {offset[a][i].gate : i \in 1 .. Len(offset[a])}

\* The offsets of a with Voltage v for gate g: v is one a script holds already,
\* with its value, or a new one of value x.
Stores(a, g, v, x) ==
  v \in UNION {ValuesOf(IF b = a THEN Drop(offset[a], {g}) ELSE offset[b]) :
               b \in Axes}
  => volt[v] = x

WithOffset(a, g, v) == [offset EXCEPT ![a] = Put(@, {g}, g, v)]
WithAmplitude(a, g, x) == [direction EXCEPT ![a] = Put(@, {g}, g, x)]

\* MUTANT of ExtendDomain: the direction gets the gate a second time.
ExtendDomain_Pushes(a, g, v, x, amp) ==
  /\ Stores(a, g, v, x)
  /\ Become(WithOffset(a, g, v),
            [direction EXCEPT ![a] = Append(@, Entry(g, amp))],
            [volt EXCEPT ![v] = x])

ExtendDomain(a, g, v, x, amp) ==
  /\ Stores(a, g, v, x)
  /\ Become(WithOffset(a, g, v), WithAmplitude(a, g, amp),
            [volt EXCEPT ![v] = x])

Rescale(a, scale) ==
  Become(offset, [direction EXCEPT ![a] = Scale(@, scale)], volt)

SetOffset(a, g, v, x) ==
  /\ InDomain => g \in Domain(a)
  /\ Stores(a, g, v, x)
  /\ Become(WithOffset(a, g, v), direction, [volt EXCEPT ![v] = x])

\* A new Voltage replaces the old one.  A missing gate raises.
ShiftOffset(a, g, v, delta) ==
  /\ g \in Domain(a)
  /\ v \in FreshFor(a) \ ValuesOf(Drop(offset[a], {g}))
  /\ Become(WithOffset(a, g, v), direction,
            [volt EXCEPT ![v] = GetOffset(a, g) + delta])

\* In place, Voltage by Voltage.
ZeroOffsets(a) ==
  Become(offset, direction,
         [v \in Volts |-> IF v \in ValuesOf(offset[a]) THEN 0 ELSE volt[v]])

SetAmplitude(a, g, x) ==
  /\ InDomain => g \in Domain(a)
  /\ Become(offset, WithAmplitude(a, g, x), volt)

ShiftAmplitude(a, g, delta) ==
  /\ Holds(direction[a], {g})
  /\ Become(offset, WithAmplitude(a, g, GetAmplitude(a, g) + delta), volt)

\* MUTANT of RemoveGate: the direction keeps the gate.
RemoveGate_OffsetOnly(a, g) ==
  Become([offset EXCEPT ![a] = Drop(@, {g})], direction, volt)

RemoveGate(a, g) ==
  Become([offset EXCEPT ![a] = Drop(@, {g})],
         [direction EXCEPT ![a] = Drop(@, {g})], volt)

Next ==
  \/ \E a \in Axes : New(a) \/ ZeroOffsets(a)
  \/ \E r, a, b \in Axes :
       NewFromPointAndDirection(r, a, b) \/ Shifted(r, a, b)
  \/ \E r, a, b \in Axes, c \in Coords : NewFromPoints(r, a, b, c)
  \/ \E r, a \in Axes, f \in Factors : Scaled(r, a, f) \/ Rescale(a, f)
  \/ \E a \in Axes, g \in Gates, v \in Volts, x \in Offsets :
       \/ SetOffset(a, g, v, x)
       \/ \E amp \in Amplitudes : ExtendDomain(a, g, v, x, amp)
  \/ \E a \in Axes, g \in Gates, delta \in Amplitudes :
       \/ SetAmplitude(a, g, delta) \/ ShiftAmplitude(a, g, delta)
       \/ \E v \in Volts : ShiftOffset(a, g, v, delta)
  \/ \E a \in Axes, g \in Gates : RemoveGate(a, g)

Spec == Init /\ [][Next]_vars

-----------------------------------------------------------------------------
(* Properties.                                                             *)

\* Every variable has its type; a Point and a Direction are Maps, which hold a
\* gate once.
TypeOK ==
  /\ offset \in [Axes -> Seq(OffsetEntries)]
  /\ direction \in [Axes -> Seq(DirectionEntries)]
  /\ volt \in [Volts -> Offsets]
  /\ \A a \in Axes : OncePerGate(offset[a]) /\ OncePerGate(direction[a])

\* Offset and direction of an axis list the same gates in the same order: what
\* the positional loops of ToPoint and NewFromPoints rely on
\* (control-axis-wrapper.cpp:257-268, 340-353).
Aligned == \A a \in Axes : GatesOf(offset[a]) = GatesOf(direction[a])

\* For each gate in the domain, ToPoint returns offset + coordinate *
\* amplitude (controlAxis.fal:230-236).
ToPointIsAffine ==
  \A a \in Axes, coord \in Coords :
    Domain(a) = {direction[a][i].gate : i \in 1 .. Len(direction[a])} =>
      \A point \in ToPoint(a, coord), i \in 1 .. Len(offset[a]) :
        LET g == offset[a][i].gate IN
        point[i] = GetOffset(a, g) + coord * GetAmplitude(a, g)

\* The direction from a point of one axis to a point of another is their
\* difference, gate by gate, when both list their gates in one order
\* (controlAxis.fal:122-124).
ThroughPoints ==
  \A a, b \in Axes, c \in Coords :
    GatesOf(offset[a]) = GatesOf(offset[b]) =>
      \A point \in ToPoint(b, c), g \in Domain(a) :
        ValueOf(Between(a, point), {g}) =
          (GetOffset(b, g) + c * GetAmplitude(b, g)) - GetOffset(a, g)

\* Only ZeroOffsets reaches other axes through Voltages they share; any other
\* call leaves all axes but one with the values they had.
ReadingOf(a) ==
  <<[i \in 1 .. Len(offset[a]) |-> <<offset[a][i].gate, OffsetOf(a, i)>>],
    direction[a]>>
CallsChangeOneAxis ==
  [][(\A a \in Axes : ~ZeroOffsets(a)) =>
       \E r \in Axes : \A a \in Axes \ {r} : ReadingOf(a)' = ReadingOf(a)]_vars
=============================================================================
