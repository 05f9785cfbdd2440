----------------------------- MODULE Directions -----------------------------
(***************************************************************************)
(* The Directions of libs/control/direction, held by the variables of a    *)
(* script.  A Direction refers to the arrays of its Map; clone_struct      *)
(* copies the structs around the arrays and shares the arrays, so Scale,   *)
(* Add and Subtract write into their receiver and return a second          *)
(* Direction on the same arrays.                                           *)
(*                                                                         *)
(* A Gate is an object and carries a name, which two objects may have in   *)
(* common.  The wrapper compares the objects (direction-wrapper.cpp:58,    *)
(* 239), Map the names, so a Direction may have two entries for one name.  *)
(*                                                                         *)
(* Coefficients are integers of at most MaxCoeff; a quotient that is not   *)
(* one is left out (Exact).                                                *)
(***************************************************************************)
EXTENDS GateMap, FiniteSets, Functions

CONSTANTS
  Dirs,      \* the script's variables of type Direction
  Stores,    \* pairs of arrays, one for each live Map at least
  None,      \* an unassigned variable
  Gates,     \* the Gate objects
  Names,     \* their names
  NameOf,    \* the name each object carries
  Factors,   \* the factors Scale is called with
  MaxCoeff,  \* bound on the magnitude of a coefficient
  MaxGates   \* bound on the number of entries of a Direction

ASSUME NameOfAssumption == NameOf \in [Gates -> Names]
ASSUME GatesAssumption == IsFiniteSet(Gates)
ASSUME NoneAssumption == None \notin Stores
ASSUME BoundsAssumption == MaxCoeff \in Nat /\ MaxGates \in Nat /\ Factors \subseteq Int

VARIABLES
  dir_,   \* the arrays each variable's Direction refers to
  store   \* the entries of each pair of arrays

vars == <<dir_, store>>

Coeffs == -MaxCoeff .. MaxCoeff
Entries == [gate : Gates, value : Coeffs]

SameName(g) == {h \in Gates : NameOf[h] = NameOf[g]}
Of(d) == store[dir_[d]]
Assigned == {d \in Dirs : dir_[d] # None}
Bounded(entries) ==
  /\ Len(entries) <= MaxGates
  /\ \A i \in 1 .. Len(entries) : entries[i].value \in Coeffs

Init ==
  /\ dir_ = [d \in Dirs |-> None]
  /\ store = [s \in Stores |-> <<>>]

-----------------------------------------------------------------------------
(* Arithmetic of direction-wrapper.cpp, on entries.                        *)

\* coefficient_at: gates are compared as objects.
coefficient_at(entries, g) == ValueOf(entries, {g})

norm_squared(entries) ==
  SumFunction([i \in 1 .. Len(entries) |-> entries[i].value * entries[i].value])

\* MUTANT of DotOf: coefficients are paired by position.
DotOf_ByPosition(self, other) ==
  SumFunction([i \in 1 .. IF Len(self) <= Len(other) THEN Len(self)
                          ELSE Len(other) |->
                 self[i].value * other[i].value])

DotOf(self, other) ==
  SumFunction([i \in 1 .. Len(self) |->
                 self[i].value * coefficient_at(other, self[i].gate)])

\* The loop of Scale.  Project's factor is the quotient num / den.
Exact(entries, num, den) ==
  \A i \in 1 .. Len(entries) : (entries[i].value * num) % den = 0
Quotient(n, den) == IF n < 0 THEN -((-n) \div den) ELSE n \div den
ScaleOf(entries, num, den) ==
  [i \in 1 .. Len(entries) |->
     Entry(entries[i].gate, Quotient(entries[i].value * num, den))]

\* MUTANT of PlusOf: a gate the result lacks is pushed for Subtract as it is.
PlusOf_UnsignedPush(self, other, sign) ==
  LET result[i \in 0 .. Len(other)] ==
        IF i = 0 THEN self
        ELSE IF Holds(result[i - 1], {other[i].gate})
        THEN Put(result[i - 1], {other[i].gate}, other[i].gate,
                 coefficient_at(result[i - 1], other[i].gate)
                   + sign * other[i].value)
        ELSE Append(result[i - 1], other[i])
  IN  result[Len(other)]

\* MUTANT of PlusOf: the loop does not look for the gate.
PlusOf_AlwaysPushes(self, other, sign) ==
  self \o [i \in 1 .. Len(other) |->
             Entry(other[i].gate, sign * other[i].value)]

\* The loop of Add and, with sign -1, of Subtract: it runs over other's arrays
\* and writes into the result's, even when they are the same arrays.
PlusOf(self, other, sign) ==
  LET result[i \in 0 .. Len(other)] ==
        IF i = 0 THEN self
        ELSE LET last == result[i - 1] IN
             Put(last, {other[i].gate}, other[i].gate,
                 coefficient_at(last, other[i].gate) + sign * other[i].value)
  IN  result[Len(other)]

-----------------------------------------------------------------------------
(* Routines of Direction.  Arrays that no variable refers to are freed.    *)

Becomes(dir, content) ==
  /\ dir_' = dir
  /\ store' = [s \in Stores |->
                 IF \E d \in Dirs : dir[d] = s THEN content[s] ELSE <<>>]
  /\ \A s \in Stores : Bounded(content[s])

Writes(d, entries) == Becomes(dir_, [store EXCEPT ![dir_[d]] = entries])

\* r = d.Op(): d's arrays get the entries, and r refers to them too.
Returns(r, d, entries) ==
  Becomes([dir_ EXCEPT ![r] = dir_[d]], [store EXCEPT ![dir_[d]] = entries])

New(d) ==
  \E s \in Stores :
    /\ \A e \in Dirs \ {d} : dir_[e] # s
    /\ Becomes([dir_ EXCEPT ![d] = s], [store EXCEPT ![s] = <<>>])

\* MUTANT of SetCoefficient: a gate that is there is pushed again.
SetCoefficient_AlwaysPushes(d, g, c) ==
  /\ d \in Assigned
  /\ Writes(d, Append(Of(d), Entry(g, c)))

SetCoefficient(d, g, c) ==
  /\ d \in Assigned
  /\ Writes(d, Put(Of(d), SameName(g), g, c))

\* MUTANT of RemoveGate: the entry is blanked and stays.
RemoveGate_Blanks(d, g) ==
  /\ d \in Assigned
  /\ Holds(Of(d), SameName(g))
  /\ Writes(d, [Of(d) EXCEPT ![FirstOf(Of(d), SameName(g))].gate = None])

RemoveGate(d, g) ==
  /\ d \in Assigned
  /\ Writes(d, Drop(Of(d), SameName(g)))

Scale(r, d, factor) ==
  /\ d \in Assigned
  /\ Returns(r, d, ScaleOf(Of(d), factor, 1))

Add(r, d, other) ==
  /\ {d, other} \subseteq Assigned
  /\ Returns(r, d, PlusOf(Of(d), Of(other), 1))

Subtract(r, d, other) ==
  /\ {d, other} \subseteq Assigned
  /\ Returns(r, d, PlusOf(Of(d), Of(other), -1))

\* projected = other.Scale(...), or unassigned when other is zero.
Project(r, d, other) ==
  LET denom == DotOf(Of(other), Of(other))
      dot   == DotOf(Of(d), Of(other)) IN
  /\ {d, other} \subseteq Assigned
  /\ \/ /\ denom # 0
        /\ Exact(Of(other), dot, denom)
        /\ Returns(r, other, ScaleOf(Of(other), dot, denom))
     \/ /\ denom = 0
        /\ Becomes([dir_ EXCEPT ![r] = None], store)

\* MUTANT of Orthogonalize: the projection is taken the other way round.
Orthogonalize_Swapped(d, other) ==
  LET denom == DotOf(Of(d), Of(d))
      dot   == DotOf(Of(d), Of(other)) IN
  /\ {d, other} \subseteq Assigned
  /\ denom # 0
  /\ Exact(Of(d), dot, denom)
  /\ Writes(d, PlusOf(Of(d), ScaleOf(Of(d), dot, denom), -1))

\* Project(other) rescales other; then this is subtracted from, in place.
\* With other zero there is no projection, and Subtract raises.
Orthogonalize(d, other) ==
  LET denom == DotOf(Of(other), Of(other))
      dot   == DotOf(Of(d), Of(other))
      projected ==
        [store EXCEPT ![dir_[other]] = ScaleOf(Of(other), dot, denom)] IN
  /\ {d, other} \subseteq Assigned
  /\ \/ /\ denom # 0
        /\ Exact(Of(other), dot, denom)
        /\ Becomes(dir_, [projected EXCEPT ![dir_[d]] =
                             PlusOf(@, projected[dir_[other]], -1)])
     \/ denom = 0 /\ UNCHANGED vars

\* In place.  A zero direction is left alone.
Normalize(d) ==
  /\ d \in Assigned
  /\ \/ /\ norm_squared(Of(d)) = 0
        /\ UNCHANGED vars
     \/ \E norm \in 1 .. MaxCoeff :
          /\ norm * norm = norm_squared(Of(d))
          /\ Exact(Of(d), 1, norm)
          /\ Writes(d, ScaleOf(Of(d), 1, norm))

\* r = d in the script shares the Direction.
Assign(r, d) ==
  /\ d \in Assigned
  /\ Becomes([dir_ EXCEPT ![r] = dir_[d]], store)

Next ==
  \/ \E d \in Dirs : New(d) \/ Normalize(d)
  \/ \E d \in Dirs, g \in Gates : RemoveGate(d, g)
  \/ \E d \in Dirs, g \in Gates, c \in Coeffs : SetCoefficient(d, g, c)
  \/ \E r, d \in Dirs, f \in Factors : Scale(r, d, f)
  \/ \E r, d, other \in Dirs :
        Add(r, d, other) \/ Subtract(r, d, other) \/ Project(r, d, other)
  \/ \E d, other \in Dirs : Orthogonalize(d, other) \/ Assign(d, other)

Spec == Init /\ [][Next]_vars

-----------------------------------------------------------------------------
(* Properties.  A Direction denotes a vector with one component for each   *)
(* Gate object.                                                            *)

VectorOf(entries) ==
  [g \in Gates |->
     SumFunction([i \in 1 .. Len(entries) |->
                    IF entries[i].gate = g THEN entries[i].value ELSE 0])]
Inner(u, v) == SumFunction([g \in DOMAIN u |-> u[g] * v[g]])

\* Every variable has its type.
TypeOK ==
  /\ dir_ \in [Dirs -> Stores \cup {None}]
  /\ store \in [Stores -> Seq(Entries)]

\* However Directions are combined, scaled and shared, and whichever of two
\* gates of one name the Map finds first, no Gate object has two coefficients:
\* the loops of the wrapper, which stop at the first, see all there is
\* (direction-wrapper.cpp:57-62, 238-245).
OneCoefficientEach ==
  \A s \in Stores : \A i, j \in 1 .. Len(store[s]) :
    store[s][i].gate = store[s][j].gate => i = j

\* Dot is the inner product of the two vectors (direction.fal:112), whatever
\* the order of their entries.
DotIsInner ==
  \A d, other \in Assigned :
    DotOf(Of(d), Of(other)) = Inner(VectorOf(Of(d)), VectorOf(Of(other)))

\* Add and Subtract return the sum and the difference of what their operands
\* were, also when operands and result share their arrays
\* (direction.fal:118-122).
SumsRight ==
  [][\A r, d, other \in Dirs :
       /\ Add(r, d, other) =>
            VectorOf(store'[dir_'[r]]) =
              [g \in Gates |-> VectorOf(Of(d))[g] + VectorOf(Of(other))[g]]
       /\ Subtract(r, d, other) =>
            VectorOf(store'[dir_'[r]]) =
              [g \in Gates |-> VectorOf(Of(d))[g] - VectorOf(Of(other))[g]]
    ]_vars

\* After Orthogonalize the direction has no component along what the other
\* one was, although computing the projection has rescaled that one
\* (direction.fal:98-109).
OrthogonalAfter ==
  [][\A d, other \in Assigned :
       Orthogonalize(d, other) =>
         Inner(VectorOf(store'[dir_'[d]]), VectorOf(Of(other))) = 0]_vars

\* What GetCoefficient tells a script of each name, 0 for one that is not there.
NamedCoefficients(entries) ==
  [n \in Names |-> ValueOf(entries, {g \in Gates : NameOf[g] = n})]

\* The Gate objects of entries.
Listed(entries) == {entries[i].gate : i \in 1 .. Len(entries)}

\* Dot is the inner product of what GetCoefficient gives for each name, when the
\* two Directions know a name by one object only (direction.fal:112).  For the
\* others it is not: the wrapper looks for the object, GetCoefficient for the
\* name.
DotOfNamed ==
  \A d, other \in Assigned :
    (\A g, h \in Listed(Of(d)) \cup Listed(Of(other)) : NameOf[g] = NameOf[h] => g = h)
      => DotOf(Of(d), Of(other)) =
           Inner(NamedCoefficients(Of(d)), NamedCoefficients(Of(other)))
=============================================================================
