-------------------------- MODULE DirectionsProofs --------------------------
(***************************************************************************)
(* Theorems about Directions.  The loops of the wrapper are recursive      *)
(* functions and sums; what they compute for directions of every length is *)
(* proved by induction.  The induction principles of the library quantify  *)
(* over a predicate; those below over a set, which the provers can take.   *)
(***************************************************************************)
EXTENDS Directions, GateMapProofs, FiniteSetTheorems, WellFoundedInduction

(* Induction, on numbers and on finite sets.                               *)

LEMMA Least ==
  ASSUME NEW T \in SUBSET Nat, T # {}
  PROVE  \E x \in T : \A y \in T : x <= y
<1> DEFINE R == {p \in Nat \X Nat : p[1] < p[2]}
<1>1. IsWellFoundedOn(R, Nat)
  BY NatLessThanWellFounded DEF OpToRel
<1>2. ASSUME NEW y \in T, NEW x \in T, ~(<<y, x>> \in R) PROVE x <= y
  BY <1>2
<1> HIDE DEF R
<1>3. PICK x \in T : \A y \in T : ~(<<y, x>> \in R)
  BY <1>1, WFMin
<1> QED BY <1>2, <1>3

LEMMA Induct ==
  ASSUME NEW S, 0 \in S, \A n \in Nat : n \in S => n + 1 \in S
  PROVE  \A n \in Nat : n \in S
<1>1. SUFFICES ASSUME Nat \ S # {} PROVE FALSE
  OBVIOUS
<1>2. PICK x \in Nat \ S : \A y \in Nat \ S : x <= y
  BY <1>1, Least
<1>3. x # 0
  BY <1>2
<1>4. x - 1 \in S
  BY <1>2, <1>3
<1> QED BY <1>2, <1>3, <1>4

\* What holds of a subset of S when it holds of the smaller ones holds of all.
LEMMA InductSets ==
  ASSUME NEW S, IsFiniteSet(S), NEW Q,
         \A T \in SUBSET S : (\A U \in SUBSET T : U # T => U \in Q) => T \in Q
  PROVE  \A T \in SUBSET S : T \in Q
<1> DEFINE Bad == {T \in SUBSET S : T \notin Q}
<1>1. SUFFICES ASSUME Bad # {} PROVE FALSE
  OBVIOUS
<1>2. IsWellFoundedOn(StrictSubsetOrdering(S), SUBSET S)
  BY FS_StrictSubsetOrderingWellFounded, FS_FiniteSubsetsOfFinite
<1>3. Bad \subseteq SUBSET S
  OBVIOUS
<1>4. PICK T \in Bad : \A U \in Bad : ~(<<U, T>> \in StrictSubsetOrdering(S))
  <2> HIDE DEF Bad
  <2> QED BY <1>1, <1>2, <1>3, WFMin
<1>5. \A U \in SUBSET T : U # T => U \in Q
  BY <1>4 DEF StrictSubsetOrdering
<1> QED BY <1>4, <1>5

-----------------------------------------------------------------------------
(* Sums over finite sets, SumFunctionOnSet of the community modules.       *)

Chosen(s) == CHOOSE x \in s : TRUE

\* h adds up f over every subset of S.
Adds(h, f, S) ==
  h = [s \in SUBSET S |->
         IF s = {} THEN 0 ELSE f[Chosen(s)] + h[s \ {Chosen(s)}]]

LEMMA ChosenIn == ASSUME NEW s, s # {} PROVE Chosen(s) \in s
BY DEF Chosen

LEMMA SumIsAdded ==
  ASSUME NEW f, NEW S
  PROVE  SumFunctionOnSet(f, S) = (CHOOSE h : Adds(h, f, S))[S]
BY Zenon
DEF SumFunctionOnSet, FoldFunctionOnSet, MapThenFoldSet, Adds, Chosen

LEMMA AddsExists ==
  ASSUME NEW f, NEW S, IsFiniteSet(S)
  PROVE  \E h : Adds(h, f, S)
<1> DEFINE Upto(n) == {s \in SUBSET S : Cardinality(s) <= n}
           Good(h, n) ==
             h = [s \in Upto(n) |->
                    IF s = {} THEN 0 ELSE f[Chosen(s)] + h[s \ {Chosen(s)}]]
           N == {n \in Nat : \E h : Good(h, n)}
<1>1. ASSUME NEW s \in SUBSET S, s # {}
      PROVE  /\ s \ {Chosen(s)} \in SUBSET S
             /\ Cardinality(s) \in Nat /\ Cardinality(s) > 0
             /\ Cardinality(s \ {Chosen(s)}) = Cardinality(s) - 1
  <2>1. IsFiniteSet(s) /\ Chosen(s) \in s
    BY <1>1, FS_Subset, ChosenIn
  <2>2. Cardinality(s) \in Nat /\ Cardinality(s) # 0
    BY <1>1, <2>1, FS_CardinalityType, FS_EmptySet
  <2>3. Cardinality(s \ {Chosen(s)}) = Cardinality(s) - 1
    BY <2>1, FS_RemoveElement
  <2> QED BY <2>2, <2>3
<1>2. 0 \in N
  <2>1. ASSUME NEW s \in Upto(0), s # {} PROVE FALSE
    <3>1. s \in SUBSET S /\ Cardinality(s) <= 0
      OBVIOUS
    <3>2. Cardinality(s) \in Nat /\ Cardinality(s) > 0
      BY <1>1, <2>1, <3>1
    <3> QED BY <3>1, <3>2
  <2>2. Good([s \in Upto(0) |-> 0], 0)
    BY <2>1
  <2> QED BY <2>2
<1>3. ASSUME NEW n \in Nat, n \in N PROVE n + 1 \in N
  <2>1. PICK h : Good(h, n)
    BY <1>3
  <2> DEFINE k == [s \in Upto(n + 1) |->
                     IF s = {} THEN 0 ELSE f[Chosen(s)] + h[s \ {Chosen(s)}]]
  <2>2. ASSUME NEW s \in Upto(n) PROVE k[s] = h[s]
    <3>1. Cardinality(s) \in Nat
      BY FS_Subset, FS_CardinalityType
    <3>2. s \in Upto(n + 1)
      BY <3>1
    <3>3. h[s] = IF s = {} THEN 0 ELSE f[Chosen(s)] + h[s \ {Chosen(s)}]
      BY <2>1
    <3> QED BY <3>2, <3>3
  <2>3. ASSUME NEW s \in Upto(n + 1), s # {}
        PROVE  k[s \ {Chosen(s)}] = h[s \ {Chosen(s)}]
    <3>1. s \ {Chosen(s)} \in Upto(n)
      BY <1>1, <2>3
    <3> QED BY <2>2, <3>1
  <2>4. Good(k, n + 1)
    BY <2>3
  <2>5. \E g : Good(g, n + 1)
    <3> HIDE DEF k, Good
    <3> QED BY <2>4
  <2> HIDE DEF Good
  <2> QED BY <2>5
<1>4. Cardinality(S) \in N
  <2> HIDE DEF N
  <2> QED BY <1>2, <1>3, Induct, FS_CardinalityType
<1>5. Upto(Cardinality(S)) = SUBSET S
  BY FS_Subset, FS_CardinalityType
<1> QED BY <1>4, <1>5 DEF Adds

LEMMA AddsAgree ==
  ASSUME NEW f, NEW S, IsFiniteSet(S), NEW T \in SUBSET S,
         NEW h, Adds(h, f, S), NEW k, Adds(k, f, T)
  PROVE  h[T] = k[T]
<1> DEFINE Q == {s \in SUBSET T : h[s] = k[s]}
<1>1. IsFiniteSet(T)
  BY FS_Subset
<1>2. ASSUME NEW s \in SUBSET T, \A u \in SUBSET s : u # s => u \in Q
      PROVE  s \in Q
  <2>1. h[s] = IF s = {} THEN 0 ELSE f[Chosen(s)] + h[s \ {Chosen(s)}]
    BY DEF Adds
  <2>2. k[s] = IF s = {} THEN 0 ELSE f[Chosen(s)] + k[s \ {Chosen(s)}]
    BY DEF Adds
  <2>3. s # {} => s \ {Chosen(s)} \in Q
    BY <1>2, ChosenIn
  <2> QED BY <2>1, <2>2, <2>3
<1>3. T \in Q
  <2> HIDE DEF Q
  <2> QED BY <1>1, <1>2, InductSets
<1> QED BY <1>3

LEMMA SumEmpty ==
  ASSUME NEW f PROVE SumFunctionOnSet(f, {}) = 0
<1>1. \E h : Adds(h, f, {})
  BY AddsExists, FS_EmptySet
<1>2. Adds(CHOOSE h : Adds(h, f, {}), f, {})
  BY <1>1
<1> QED BY <1>2, SumIsAdded DEF Adds

LEMMA SumChosen ==
  ASSUME NEW f, NEW S, IsFiniteSet(S), S # {}
  PROVE  SumFunctionOnSet(f, S) =
           f[Chosen(S)] + SumFunctionOnSet(f, S \ {Chosen(S)})
<1> DEFINE T == S \ {Chosen(S)}
<1>1. IsFiniteSet(T) /\ T \in SUBSET S
  BY FS_Subset
<1>2. PICK h : Adds(h, f, S) /\ h = CHOOSE g : Adds(g, f, S)
  BY AddsExists
<1>3. PICK k : Adds(k, f, T) /\ k = CHOOSE g : Adds(g, f, T)
  BY <1>1, AddsExists
<1>4. h[T] = k[T]
  <2> HIDE DEF T
  <2> QED BY <1>1, <1>2, <1>3, AddsAgree
<1>5. h[S] = f[Chosen(S)] + h[T]
  BY <1>2 DEF Adds
<1> QED BY <1>2, <1>3, <1>4, <1>5, SumIsAdded

\* A sum is split off its term at any element.
LEMMA SumPick ==
  ASSUME NEW f, NEW S, IsFiniteSet(S), \A x \in S : f[x] \in Int
  PROVE  /\ SumFunctionOnSet(f, S) \in Int
         /\ \A x \in S : SumFunctionOnSet(f, S) =
                           f[x] + SumFunctionOnSet(f, S \ {x})
<1> DEFINE Sum(s) == SumFunctionOnSet(f, s)
           Good(s) == Sum(s) \in Int /\ \A x \in s : Sum(s) = f[x] + Sum(s \ {x})
           Q == {s \in SUBSET S : Good(s)}
<1>1. ASSUME NEW s \in SUBSET S, \A u \in SUBSET s : u # s => u \in Q
      PROVE  s \in Q
  <2>1. CASE s = {}
    BY <2>1, SumEmpty
  <2>2. CASE s # {}
    <3> DEFINE c == Chosen(s)
    <3>1. c \in s /\ f[c] \in Int
      BY <2>2, ChosenIn
    <3>2. Sum(s) = f[c] + Sum(s \ {c})
      BY <2>2, SumChosen, FS_Subset
    <3>3. \A u \in SUBSET s : u # s => Good(u)
      BY <1>1
    <3> HIDE DEF c, Good
    <3>4. Good(s \ {c})
      BY <3>1, <3>3
    <3>5. Sum(s) \in Int
      BY <3>1, <3>2, <3>4 DEF Good
    <3>6. ASSUME NEW x \in s, x # c PROVE Sum(s) = f[x] + Sum(s \ {x})
      <4>1. x \in s \ {c} /\ c \in s \ {x} /\ f[x] \in Int
        BY <3>1, <3>6
      <4>2. Good(s \ {x})
        BY <3>3, <3>6
      <4>3. Sum(s \ {c}) = f[x] + Sum((s \ {c}) \ {x})
        BY <3>4, <4>1 DEF Good
      <4>4. Sum(s \ {x}) = f[c] + Sum((s \ {x}) \ {c})
        BY <4>1, <4>2 DEF Good
      <4>5. (s \ {x}) \ {c} = (s \ {c}) \ {x}
        OBVIOUS
      <4>6. Good((s \ {c}) \ {x})
        BY <3>1, <3>3
      <4> DEFINE a == Sum((s \ {c}) \ {x})
      <4>7. a \in Int
        BY <4>6 DEF Good
      <4>8. Sum(s) = f[c] + (f[x] + a) /\ Sum(s \ {x}) = f[c] + a
        BY <3>2, <4>3, <4>4, <4>5
      <4> HIDE DEF a, Sum
      <4> QED BY <3>1, <4>1, <4>7, <4>8
    <3>7. Good(s)
      BY <3>2, <3>5, <3>6 DEF Good
    <3> QED BY <3>7
  <2> QED BY <2>1, <2>2
<1>2. S \in Q
  <2> HIDE DEF Q
  <2> QED BY <1>1, InductSets
<1> QED BY <1>2

\* What holds of the empty set, and of a set when it holds of it without one
\* of its elements.
LEMMA InductElements ==
  ASSUME NEW S, IsFiniteSet(S), NEW Q, {} \in Q,
         \A T \in SUBSET S : \A x \in T : T \ {x} \in Q => T \in Q
  PROVE  S \in Q
<1>1. ASSUME NEW T \in SUBSET S, \A U \in SUBSET T : U # T => U \in Q
      PROVE  T \in Q
  <2>1. CASE T # {}
    <3>1. PICK x \in T : TRUE
      BY <2>1
    <3>2. T \ {x} \in Q
      BY <1>1
    <3> QED BY <3>2
  <2> QED BY <2>1
<1> QED BY <1>1, InductSets

Combines(S, w, c, u, d, z) == \A g \in S : w[g] = c * u[g] + d * z[g]

\* The sum of the pointwise combination c * f + d * g.
LEMMA SumLinear ==
  ASSUME NEW S, IsFiniteSet(S), NEW c \in Int, NEW d \in Int,
         NEW f, \A x \in S : f[x] \in Int, NEW g, \A x \in S : g[x] \in Int,
         NEW h, Combines(S, h, c, f, d, g)
  PROVE  SumFunctionOnSet(h, S) =
           c * SumFunctionOnSet(f, S) + d * SumFunctionOnSet(g, S)
<1> DEFINE Good(s) == SumFunctionOnSet(h, s) =
                        c * SumFunctionOnSet(f, s) + d * SumFunctionOnSet(g, s)
           Q == {s \in SUBSET S : Good(s)}
<1>0. \A x \in S : h[x] \in Int /\ h[x] = c * f[x] + d * g[x]
  BY DEF Combines
<1>1. {} \in Q
  BY SumEmpty
<1>2. ASSUME NEW T \in SUBSET S, NEW x \in T, T \ {x} \in Q PROVE T \in Q
  <2>1. IsFiniteSet(T) /\ IsFiniteSet(T \ {x})
    BY FS_Subset
  <2>2. /\ SumFunctionOnSet(f, T \ {x}) \in Int
        /\ SumFunctionOnSet(g, T \ {x}) \in Int
    BY <2>1, SumPick
  <2>3. /\ SumFunctionOnSet(f, T) = f[x] + SumFunctionOnSet(f, T \ {x})
        /\ SumFunctionOnSet(g, T) = g[x] + SumFunctionOnSet(g, T \ {x})
        /\ SumFunctionOnSet(h, T) = h[x] + SumFunctionOnSet(h, T \ {x})
    BY <1>0, <2>1, SumPick
  <2>4. Good(T \ {x})
    BY <1>2
  <2>5. Good(T)
    <3>1. \A p, q, r, t \in Int : c * p + d * q + (c * r + d * t) = c * (p + r) + d * (q + t)
      OBVIOUS
    <3>2. h[x] = c * f[x] + d * g[x] /\ f[x] \in Int /\ g[x] \in Int
      BY <1>0
    <3> QED BY <2>2, <2>3, <2>4, <3>1, <3>2
  <2> QED BY <2>5
<1>3. S \in Q
  <2> HIDE DEF Q
  <2> QED BY <1>1, <1>2, InductElements
<1> QED BY <1>3

\* Terms moved to other indices, one each, add up to the same; other indices
\* count nothing.
LEMMA SumMoved ==
  ASSUME NEW S, IsFiniteSet(S), NEW T, IsFiniteSet(T), NEW p \in [S -> T],
         \A x, y \in S : p[x] = p[y] => x = y,
         NEW f, NEW g, \A y \in T : g[y] \in Int,
         \A x \in S : f[x] = g[p[x]],
         \A y \in T : (\A x \in S : p[x] # y) => g[y] = 0
  PROVE  SumFunctionOnSet(f, S) = SumFunctionOnSet(g, T)
<1> DEFINE Sum(s) == SumFunctionOnSet(g, {p[x] : x \in s})
           Good(s) == SumFunctionOnSet(f, s) = Sum(s)
           Q == {s \in SUBSET S : Good(s)}
           Zero == {y \in T : \A x \in S : p[x] # y}
           Image == {p[x] : x \in S}
<1>1. \A x \in S : f[x] \in Int
  OBVIOUS
<1>2. {} \in Q
  <2>1. {p[x] : x \in {}} = {}
    OBVIOUS
  <2> QED BY <2>1, SumEmpty
<1>3. ASSUME NEW s \in SUBSET S, NEW x \in s, s \ {x} \in Q PROVE s \in Q
  <2> DEFINE Im == {p[z] : z \in s}
  <2>1. IsFiniteSet(s) /\ IsFiniteSet(Im) /\ Im \subseteq T /\ p[x] \in Im
    <3>1. Im \subseteq T
      OBVIOUS
    <3> QED BY <3>1, FS_Subset
  <2>2. {p[z] : z \in s \ {x}} = Im \ {p[x]}
    OBVIOUS
  <2>3. SumFunctionOnSet(f, s) = f[x] + SumFunctionOnSet(f, s \ {x})
    BY <1>1, <2>1, SumPick
  <2>4. SumFunctionOnSet(g, Im) = g[p[x]] + SumFunctionOnSet(g, Im \ {p[x]})
    <3> HIDE DEF Im
    <3>1. \A y \in Im : g[y] \in Int
      BY <2>1
    <3> QED BY <2>1, <3>1, SumPick
  <2>5. Good(s)
    <3>1. SumFunctionOnSet(f, s \ {x}) = SumFunctionOnSet(g, Im \ {p[x]})
      BY <1>3, <2>2
    <3> QED BY <2>3, <2>4, <3>1
  <2> QED BY <2>5
<1>4. SumFunctionOnSet(f, S) = SumFunctionOnSet(g, Image)
  <2>1. S \in Q
    <3> HIDE DEF Q
    <3> QED BY <1>2, <1>3, InductElements
  <2> QED BY <2>1
<1> DEFINE Rest(z) == SumFunctionOnSet(g, Image \cup z) = SumFunctionOnSet(g, Image)
           R == {z \in SUBSET Zero : Rest(z)}
<1>5. {} \in R
  OBVIOUS
<1>6. Image \cup Zero = T /\ IsFiniteSet(Zero)
  BY FS_Subset
<1>7. ASSUME NEW z \in SUBSET Zero, NEW y \in z, z \ {y} \in R PROVE z \in R
  <2> DEFINE W == Image \cup z
  <2>1. W \in SUBSET T /\ IsFiniteSet(W) /\ y \in W
    <3>1. W \in SUBSET T
      OBVIOUS
    <3> QED BY <3>1, FS_Subset
  <2>2. Image \cup (z \ {y}) = W \ {y} /\ g[y] = 0
    OBVIOUS
  <2>3. \A v \in W \ {y} : g[v] \in Int
    BY <2>1
  <2>4. /\ SumFunctionOnSet(g, W) = g[y] + SumFunctionOnSet(g, W \ {y})
        /\ SumFunctionOnSet(g, W \ {y}) \in Int
    <3> HIDE DEF W
    <3>1. IsFiniteSet(W \ {y})
      BY <2>1, FS_Subset
    <3> QED BY <2>1, <2>3, <3>1, SumPick
  <2>5. SumFunctionOnSet(g, W \ {y}) = SumFunctionOnSet(g, Image)
    BY <1>7, <2>2
  <2> QED BY <2>2, <2>4, <2>5
<1>8. Zero \in R
  <2> HIDE DEF R, Zero
  <2> QED BY <1>5, <1>6, <1>7, InductElements
<1> QED BY <1>4, <1>6, <1>8

LEMMA SumOnly ==
  ASSUME NEW T, IsFiniteSet(T), NEW g, \A y \in T : g[y] \in Int, NEW x \in T,
         \A y \in T : y # x => g[y] = 0
  PROVE  SumFunctionOnSet(g, T) = g[x]
<1> DEFINE p == [z \in {x} |-> x]
<1>1. IsFiniteSet({x}) /\ {x} \ {x} = {}
  BY FS_Singleton
<1>2. p \in [{x} -> T] /\ p[x] = x
  OBVIOUS
<1>3. SumFunctionOnSet(g, {x}) = SumFunctionOnSet(g, T)
  <2> HIDE DEF p
  <2> QED BY <1>1, <1>2, SumMoved
<1>4. SumFunctionOnSet(g, {x}) = g[x] + SumFunctionOnSet(g, {x} \ {x})
  BY <1>1, SumPick
<1> QED BY <1>1, <1>3, <1>4, SumEmpty

LEMMA SumZero ==
  ASSUME NEW T, IsFiniteSet(T), NEW g, \A y \in T : g[y] = 0
  PROVE  SumFunctionOnSet(g, T) = 0
<1>1. CASE T = {}
  BY <1>1, SumEmpty
<1>2. CASE T # {}
  <2>1. PICK x \in T : TRUE
    BY <1>2
  <2>2. \A y \in T : g[y] \in Int
    OBVIOUS
  <2> QED BY <2>1, <2>2, SumOnly
<1> QED BY <1>1, <1>2

LEMMA SumNatural ==
  ASSUME NEW T, IsFiniteSet(T), NEW g, \A y \in T : g[y] \in Nat
  PROVE  /\ SumFunctionOnSet(g, T) \in Nat
         /\ SumFunctionOnSet(g, T) = 0 => \A y \in T : g[y] = 0
<1> DEFINE Q == {s \in SUBSET T : SumFunctionOnSet(g, s) \in Nat}
<1>1. {} \in Q
  BY SumEmpty
<1>2. ASSUME NEW s \in SUBSET T, NEW x \in s, s \ {x} \in Q PROVE s \in Q
  BY <1>2, SumPick, FS_Subset
<1>3. ASSUME NEW s \in SUBSET T PROVE SumFunctionOnSet(g, s) \in Nat
  <2>1. \A u \in SUBSET s : \A x \in u : u \ {x} \in Q => u \in Q
    BY <1>2
  <2>2. IsFiniteSet(s)
    BY FS_Subset
  <2>3. s \in Q
    <3> HIDE DEF Q
    <3> QED BY <1>1, <2>1, <2>2, InductElements
  <2> QED BY <2>3
<1>4. ASSUME NEW x \in T, SumFunctionOnSet(g, T) = 0 PROVE g[x] = 0
  <2>1. SumFunctionOnSet(g, T) = g[x] + SumFunctionOnSet(g, T \ {x})
    BY SumPick
  <2>2. SumFunctionOnSet(g, T \ {x}) \in Nat
    BY <1>3
  <2> QED BY <1>4, <2>1, <2>2
<1> QED BY <1>3, <1>4

-----------------------------------------------------------------------------
(* Entries.                                                                *)

Coefficients == [gate : Gates, value : Int]

\* What the arrays of a Direction hold: a sequence of coefficients in which no
\* gate comes twice.
IsDirection(e) == e \in Seq(Coefficients) /\ OncePerGate(e)

LEMMA EntryTyped ==
  ASSUME NEW e, IsDirection(e)
  PROVE  /\ Len(e) \in Nat
         /\ \A i \in 1 .. Len(e) : /\ e[i] \in Coefficients
                                   /\ e[i].gate \in Gates /\ e[i].value \in Int
<1>1. e \in Seq(Coefficients)
  BY DEF IsDirection
<1>2. Len(e) \in Nat /\ \A i \in 1 .. Len(e) : e[i] \in Coefficients
  BY <1>1
<1>3. \A c \in Coefficients : c.gate \in Gates /\ c.value \in Int
  BY DEF Coefficients
<1> QED BY <1>2, <1>3

\* The coefficient of a gate that is there, and of one that is not.
LEMMA ValueHeld ==
  ASSUME NEW e, IsDirection(e), NEW i \in 1 .. Len(e)
  PROVE  ValueOf(e, {e[i].gate}) = e[i].value
<1>1. FirstOf(e, {e[i].gate}) = i
  BY EntryTyped, FirstIsOnly DEF IsDirection
<1>2. Holds(e, {e[i].gate})
  BY DEF Holds
<1> QED BY <1>1, <1>2 DEF ValueOf

LEMMA ValueMissing ==
  ASSUME NEW e, NEW g, \A i \in 1 .. Len(e) : e[i].gate # g
  PROVE  ValueOf(e, {g}) = 0
BY DEF ValueOf, Holds

LEMMA ValueTyped ==
  ASSUME NEW e, IsDirection(e), NEW g
  PROVE  ValueOf(e, {g}) \in Int
<1>1. CASE \E i \in 1 .. Len(e) : e[i].gate = g
  BY <1>1, ValueHeld, EntryTyped
<1>2. CASE \A i \in 1 .. Len(e) : e[i].gate # g
  <2>1. ValueOf(e, {g}) = 0
    BY <1>2, ValueMissing
  <2> QED BY <2>1
<1> QED BY <1>1, <1>2

\* Map.Set sets one coefficient and keeps the others.
LEMMA PutValues ==
  ASSUME NEW e, IsDirection(e), NEW g \in Gates, NEW v \in Int
  PROVE  /\ IsDirection(Put(e, {g}, g, v))
         /\ \A h \in Gates : ValueOf(Put(e, {g}, g, v), {h}) =
                               IF h = g THEN v ELSE ValueOf(e, {h})
<1> DEFINE r == Put(e, {g}, g, v)
<1>0. Entry(g, v) \in Coefficients /\ Entry(g, v).value = v /\ Entry(g, v).gate = g
  BY DEF Entry, Coefficients
<1>1. IsPut(Coefficients, e, g, v, r)
  BY <1>0, PutResult DEF IsDirection
<1> HIDE DEF r
<1>2. IsDirection(r)
  BY <1>1 DEF IsPut, IsDirection
<1>3. Len(e) \in Nat /\ Len(r) \in Nat
  BY <1>2, EntryTyped
<1>4. ASSUME NEW h \in Gates
      PROVE  ValueOf(r, {h}) = IF h = g THEN v ELSE ValueOf(e, {h})
  <2>1. CASE h = g
    <3>1. PICK i \in 1 .. Len(r) : r[i].gate = g
      <4>1. CASE Holds(e, {g})
        <5>1. PICK i \in 1 .. Len(e) : e[i].gate = g
          BY <4>1 DEF Holds
        <5>2. i \in 1 .. Len(r) /\ r[i].gate = g
          BY <1>1, <1>3, <4>1, <5>1 DEF IsPut
        <5> QED BY <5>2
      <4>2. CASE ~Holds(e, {g})
        <5>1. Len(r) = Len(e) + 1
          BY <1>1, <4>2 DEF IsPut
        <5>2. Len(r) \in 1 .. Len(r) /\ ~(Len(r) <= Len(e))
          BY <1>3, <5>1
        <5>3. r[Len(r)].gate = g
          BY <1>1, <5>2 DEF IsPut
        <5> QED BY <5>2, <5>3
      <4> QED BY <4>1, <4>2
    <3>2. r[i].value = v
      BY <1>0, <1>1, <1>3, <3>1 DEF IsPut
    <3> QED BY <1>2, <2>1, <3>1, <3>2, ValueHeld
  <2>2. CASE h # g
    <3>1. CASE \E i \in 1 .. Len(e) : e[i].gate = h
      <4>1. PICK i \in 1 .. Len(e) : e[i].gate = h
        BY <3>1
      <4>2. i \in 1 .. Len(r) /\ r[i] = e[i]
        BY <1>1, <1>3, <2>2, <4>1 DEF IsPut
      <4>3. ValueOf(r, {h}) = r[i].value /\ ValueOf(e, {h}) = e[i].value
        BY <1>2, <4>1, <4>2, ValueHeld
      <4> QED BY <2>2, <4>2, <4>3
    <3>2. CASE \A i \in 1 .. Len(e) : e[i].gate # h
      <4>1. ASSUME NEW i \in 1 .. Len(r) PROVE r[i].gate # h
        <5>1. r[i].gate = IF i <= Len(e) THEN e[i].gate ELSE g
          BY <1>1 DEF IsPut
        <5>2. i <= Len(e) => i \in 1 .. Len(e)
          BY <1>3
        <5> QED BY <2>2, <3>2, <5>1, <5>2
      <4> QED BY <2>2, <3>2, <4>1, ValueMissing
    <3> QED BY <3>1, <3>2
  <2> QED BY <2>1, <2>2
<1> QED BY <1>2, <1>4 DEF r

\* result is the loop of Add and Subtract after each of its rounds.
Loop(result, a, b, sign) ==
  result = [i \in 0 .. Len(b) |->
              IF i = 0 THEN a
              ELSE Put(result[i - 1], {b[i].gate}, b[i].gate,
                       coefficient_at(result[i - 1], b[i].gate)
                         + sign * b[i].value)]

LEMMA LoopExists ==
  ASSUME NEW a, NEW b, Len(b) \in Nat, NEW sign
  PROVE  \E result : Loop(result, a, b, sign)
<1> DEFINE Next1(x, i) == Put(x, {b[i].gate}, b[i].gate,
                              coefficient_at(x, b[i].gate) + sign * b[i].value)
           Good(h, n) == h = [i \in 0 .. n |->
                                IF i = 0 THEN a ELSE Next1(h[i - 1], i)]
           N == {n \in Nat : \E h : Good(h, n)}
<1> HIDE DEF Next1
<1>1. 0 \in N
  <2>1. Good([i \in 0 .. 0 |-> a], 0)
    OBVIOUS
  <2>2. \E h : Good(h, 0)
    <3> HIDE DEF Good
    <3> QED BY <2>1
  <2> HIDE DEF Good
  <2> QED BY <2>2
<1>2. ASSUME NEW n \in Nat, n \in N PROVE n + 1 \in N
  <2>1. PICK h : Good(h, n)
    BY <1>2
  <2> DEFINE k == [i \in 0 .. n + 1 |-> IF i = 0 THEN a ELSE Next1(h[i - 1], i)]
  <2>2. ASSUME NEW i \in 0 .. n PROVE k[i] = h[i]
    <3>1. h[i] = IF i = 0 THEN a ELSE Next1(h[i - 1], i)
      BY <2>1
    <3> QED BY <3>1
  <2>3. ASSUME NEW i \in 0 .. n + 1, i # 0 PROVE k[i - 1] = h[i - 1]
    <3>1. i - 1 \in 0 .. n
      BY <2>3
    <3> HIDE DEF k
    <3> QED BY <2>2, <3>1
  <2>4. Good(k, n + 1)
    BY <2>3
  <2>5. \E g : Good(g, n + 1)
    <3> HIDE DEF k, Good
    <3> QED BY <2>4
  <2> HIDE DEF Good
  <2> QED BY <2>5
<1>3. Len(b) \in N
  <2> HIDE DEF N
  <2> QED BY <1>1, <1>2, Induct
<1> QED BY <1>3 DEF Loop, Next1

LEMMA PlusIsLoop ==
  ASSUME NEW a, NEW b, Len(b) \in Nat, NEW sign
  PROVE  \E result : /\ Loop(result, a, b, sign)
                     /\ PlusOf(a, b, sign) = result[Len(b)]
<1>1. PlusOf(a, b, sign) = (CHOOSE h : Loop(h, a, b, sign))[Len(b)]
  BY Zenon DEF PlusOf, Loop
<1>2. Loop(CHOOSE h : Loop(h, a, b, sign), a, b, sign)
  BY LoopExists
<1> QED BY <1>1, <1>2

\* Add and Subtract combine the coefficients gate by gate.
LEMMA PlusValues ==
  ASSUME NEW a, IsDirection(a), NEW b, IsDirection(b), NEW sign \in Int
  PROVE  /\ IsDirection(PlusOf(a, b, sign))
         /\ \A h \in Gates : ValueOf(PlusOf(a, b, sign), {h}) =
                               ValueOf(a, {h}) + sign * ValueOf(b, {h})
<1>1. Len(b) \in Nat
  BY EntryTyped
<1>2. PICK result : /\ Loop(result, a, b, sign)
                    /\ PlusOf(a, b, sign) = result[Len(b)]
  BY <1>1, PlusIsLoop
<1> DEFINE Seen(i, h) == \E j \in 1 .. i : b[j].gate = h
           Good(i) == /\ IsDirection(result[i])
                      /\ \A h \in Gates :
                           ValueOf(result[i], {h}) =
                             ValueOf(a, {h})
                               + IF Seen(i, h) THEN sign * ValueOf(b, {h}) ELSE 0
           N == {i \in Nat : i <= Len(b) => Good(i)}
<1>3. 0 \in N
  <2>1. result[0] = a
    BY <1>1, <1>2 DEF Loop
  <2>2. \A h \in Gates : ~Seen(0, h)
    OBVIOUS
  <2>3. ASSUME NEW h \in Gates PROVE ValueOf(a, {h}) \in Int
    <3> HIDE DEF Seen
    <3> QED BY ValueTyped
  <2>4. Good(0)
    <3> HIDE DEF Seen
    <3> QED BY <2>1, <2>2, <2>3
  <2> HIDE DEF Good
  <2> QED BY <2>4
<1>4. ASSUME NEW i \in Nat, i \in N PROVE i + 1 \in N
  <2>1. SUFFICES ASSUME i + 1 <= Len(b) PROVE Good(i + 1)
    OBVIOUS
  <2>2. Good(i) /\ i + 1 \in 1 .. Len(b) /\ i + 1 \in 0 .. Len(b) /\ i + 1 # 0
    BY <1>1, <1>4, <2>1
  <2> DEFINE g == b[i + 1].gate
             c == b[i + 1].value
             r == result[i]
             v == ValueOf(r, {g}) + sign * c
  <2>3. result[i + 1] = Put(r, {g}, g, v)
    <3>1. (i + 1) - 1 = i
      OBVIOUS
    <3> QED BY <1>2, <2>2, <3>1 DEF Loop, coefficient_at
  <2>4. g \in Gates /\ c \in Int /\ ValueOf(b, {g}) = c
    BY <2>2, EntryTyped, ValueHeld
  <2>5. ValueOf(r, {g}) = ValueOf(a, {g})
    <3>1. ~Seen(i, g)
      <4>1. ASSUME NEW j \in 1 .. i, b[j].gate = g PROVE FALSE
        <5>1. j \in 1 .. Len(b) /\ j # i + 1
          BY <1>1, <2>1
        <5> QED BY <2>2, <4>1, <5>1 DEF IsDirection, OncePerGate
      <4> QED BY <4>1
    <3>2. ValueOf(a, {g}) \in Int
      BY ValueTyped
    <3> HIDE DEF Seen, g
    <3> QED BY <2>2, <2>4, <3>1, <3>2
  <2>6. v \in Int
    <3>1. ValueOf(r, {g}) \in Int
      BY <2>2, ValueTyped
    <3> HIDE DEF g, r, c
    <3> QED BY <2>4, <3>1
  <2>7. /\ IsDirection(result[i + 1])
        /\ \A h \in Gates : ValueOf(result[i + 1], {h}) =
                              IF h = g THEN v ELSE ValueOf(r, {h})
    <3>1. IsDirection(r)
      BY <2>2
    <3> HIDE DEF g, r, c, v
    <3> QED BY <2>3, <2>4, <2>6, <3>1, PutValues
  <2>8. ASSUME NEW h \in Gates
        PROVE  ValueOf(result[i + 1], {h}) =
                 ValueOf(a, {h})
                   + IF Seen(i + 1, h) THEN sign * ValueOf(b, {h}) ELSE 0
    <3>1. CASE h = g
      <4>1. Seen(i + 1, h)
        BY <3>1
      <4>2. v = ValueOf(a, {h}) + sign * ValueOf(b, {h})
        <5> HIDE DEF g, r, c
        <5> QED BY <2>4, <2>5, <3>1
      <4> HIDE DEF Seen, v, r, g
      <4> QED BY <2>7, <3>1, <4>1, <4>2
    <3>2. CASE h # g
      <4>1. Seen(i + 1, h) <=> Seen(i, h)
        BY <3>2
      <4>2. ValueOf(r, {h}) =
              ValueOf(a, {h})
                + IF Seen(i, h) THEN sign * ValueOf(b, {h}) ELSE 0
        BY <2>2
      <4> HIDE DEF Seen, v, r, g
      <4> QED BY <2>7, <3>2, <4>1, <4>2
    <3> QED BY <3>1, <3>2
  <2> HIDE DEF Seen
  <2> QED BY <2>7, <2>8
<1>5. Good(Len(b))
  <2>1. Len(b) \in N
    <3> HIDE DEF N
    <3> QED BY <1>1, <1>3, <1>4, Induct
  <2> HIDE DEF Good
  <2> QED BY <1>1, <2>1
<1>6. ASSUME NEW h \in Gates
      PROVE  (IF Seen(Len(b), h) THEN sign * ValueOf(b, {h}) ELSE 0)
               = sign * ValueOf(b, {h})
  <2>1. ~Seen(Len(b), h) => ValueOf(b, {h}) = 0
    BY ValueMissing
  <2>2. sign * 0 = 0
    OBVIOUS
  <2> HIDE DEF Seen
  <2> QED BY <2>1, <2>2
<1> HIDE DEF Seen
<1> QED BY <1>2, <1>5, <1>6

LEMMA Division ==
  ASSUME NEW n \in Int, NEW den \in Nat, den > 0
  PROVE  /\ Quotient(n, den) \in Int
         /\ n % den = 0 => Quotient(n, den) * den = n
<1>1. ASSUME NEW m \in Int
      PROVE  /\ m \div den \in Int
             /\ m % den = 0 => (m \div den) * den = m
             /\ m % den = 0 => (-m) % den = 0
  <2>1. m \div den \in Int /\ m % den \in Int
    OBVIOUS
  <2>2. m = (den * (m \div den)) + (m % den)
    OBVIOUS
  <2>3. ASSUME m % den = 0 PROVE (-m) % den = 0
    <3> DEFINE q == m \div den
               k == (-m) \div den
               r == (-m) % den
    <3>1. m = den * q /\ q \in Int
      BY <2>1, <2>2, <2>3
    <3>2. k \in Int /\ r \in Int /\ 0 <= r /\ r < den
      OBVIOUS
    <3>3. -m = (den * k) + r
      OBVIOUS
    <3> HIDE DEF q, k, r
    <3>4. r = den * ((-q) - k)
      BY <3>1, <3>2, <3>3
    <3>5. \A t \in Int : t >= 1 => den * t >= den
      OBVIOUS
    <3>6. \A t \in Int : t <= -1 => den * t <= -den
      OBVIOUS
    <3>7. (-q) - k = 0
      <4>1. (-q) - k \in Int
        BY <3>1, <3>2
      <4> QED BY <3>2, <3>4, <3>5, <3>6, <4>1
    <3>8. r = 0
      BY <3>4, <3>7
    <3> QED BY <3>8 DEF r
  <2>4. \A q \in Int : den * q = q * den
    OBVIOUS
  <2> QED BY <2>1, <2>2, <2>3, <2>4
<1>2. \A q \in Int : (-q) * den = -(den * q) /\ q * den = den * q
  OBVIOUS
<1>3. -n \in Int /\ -(-n) = n
  OBVIOUS
<1> QED BY <1>1, <1>2, <1>3 DEF Quotient

\* Scale multiplies each coefficient, where it divides evenly.
LEMMA ScaleValues ==
  ASSUME NEW e, IsDirection(e), NEW num \in Int, NEW den \in Nat, den > 0
  PROVE  /\ IsDirection(ScaleOf(e, num, den))
         /\ Exact(e, num, den) =>
              \A h \in Gates :
                ValueOf(ScaleOf(e, num, den), {h}) * den = ValueOf(e, {h}) * num
<1> DEFINE r == ScaleOf(e, num, den)
<1>1. Len(e) \in Nat /\ \A i \in 1 .. Len(e) : /\ e[i].gate \in Gates
                                               /\ e[i].value \in Int
  BY EntryTyped
<1>2. ASSUME NEW i \in 1 .. Len(e)
      PROVE  /\ r[i].gate = e[i].gate
             /\ r[i].value = Quotient(e[i].value * num, den)
             /\ r[i] \in Coefficients
  <2>1. r[i] = Entry(e[i].gate, Quotient(e[i].value * num, den))
    BY DEF ScaleOf
  <2>2. e[i].value * num \in Int
    BY <1>1
  <2>3. Quotient(e[i].value * num, den) \in Int
    BY <2>2, Division
  <2> HIDE DEF r
  <2> QED BY <1>1, <2>1, <2>3 DEF Entry, Coefficients
<1>3. r \in [1 .. Len(e) -> Coefficients]
  <2>1. r = [i \in 1 .. Len(e) |-> r[i]]
    BY DEF ScaleOf
  <2> HIDE DEF r
  <2> QED BY <1>2, <2>1
<1> HIDE DEF r
<1>4. r \in Seq(Coefficients) /\ Len(r) = Len(e)
  BY <1>1, <1>3, EntrySeq
<1>5. IsDirection(r)
  BY <1>2, <1>4 DEF IsDirection, OncePerGate
<1>6. ASSUME Exact(e, num, den), NEW h \in Gates
      PROVE  ValueOf(r, {h}) * den = ValueOf(e, {h}) * num
  <2>1. CASE \E i \in 1 .. Len(e) : e[i].gate = h
    <3>1. PICK i \in 1 .. Len(e) : e[i].gate = h
      BY <2>1
    <3>2. ValueOf(r, {h}) = r[i].value /\ ValueOf(e, {h}) = e[i].value
      BY <1>2, <1>4, <1>5, <3>1, ValueHeld
    <3>3. e[i].value * num \in Int /\ (e[i].value * num) % den = 0
      BY <1>1, <1>6 DEF Exact
    <3>4. Quotient(e[i].value * num, den) * den = e[i].value * num
      BY <3>3, Division
    <3> QED BY <1>2, <3>2, <3>4
  <2>2. CASE \A i \in 1 .. Len(e) : e[i].gate # h
    <3>1. \A i \in 1 .. Len(r) : r[i].gate # h
      BY <1>2, <1>4, <2>2
    <3>2. ValueOf(r, {h}) = 0 /\ ValueOf(e, {h}) = 0
      BY <2>2, <3>1, ValueMissing
    <3> QED BY <3>2
  <2> QED BY <2>1, <2>2
<1> QED BY <1>5, <1>6 DEF r

-----------------------------------------------------------------------------
(* Directions as vectors.                                                  *)

LEMMA SumFunctionIs ==
  ASSUME NEW D, NEW f, f = [x \in D |-> f[x]]
  PROVE  SumFunction(f) = SumFunctionOnSet(f, D)
<1>1. DOMAIN f = D
  OBVIOUS
<1> QED BY <1>1 DEF SumFunction

\* A component is the coefficient of the gate.
LEMMA VectorIs ==
  ASSUME NEW e, IsDirection(e)
  PROVE  /\ VectorOf(e) \in [Gates -> Int]
         /\ \A g \in Gates : VectorOf(e)[g] = ValueOf(e, {g})
<1> DEFINE D == 1 .. Len(e)
           term(g) == [i \in D |-> IF e[i].gate = g THEN e[i].value ELSE 0]
<1>1. /\ Len(e) \in Nat
      /\ \A i \in D : e[i].gate \in Gates /\ e[i].value \in Int
  BY EntryTyped
<1>2. IsFiniteSet(D)
  BY <1>1, FS_Interval
<1>3. ASSUME NEW g \in Gates
      PROVE  /\ VectorOf(e)[g] = SumFunctionOnSet(term(g), D)
             /\ \A i \in D : term(g)[i] = IF e[i].gate = g THEN e[i].value ELSE 0
             /\ \A i \in D : term(g)[i] \in Int
  <2>1. VectorOf(e)[g] = SumFunction(term(g))
    BY DEF VectorOf
  <2>2. term(g) = [i \in D |-> term(g)[i]]
    OBVIOUS
  <2>3. SumFunction(term(g)) = SumFunctionOnSet(term(g), D)
    <3> HIDE DEF term, D
    <3> QED BY <2>2, SumFunctionIs
  <2> QED BY <1>1, <2>1, <2>3
<1>4. VectorOf(e) = [g \in Gates |-> VectorOf(e)[g]]
  BY DEF VectorOf
<1> HIDE DEF term, D
<1>5. \A g \in Gates : VectorOf(e)[g] \in Int
  BY <1>2, <1>3, SumPick
<1>6. ASSUME NEW g \in Gates PROVE VectorOf(e)[g] = ValueOf(e, {g})
  <2>1. CASE \E i \in D : e[i].gate = g
    <3>1. PICK i \in D : e[i].gate = g
      BY <2>1
    <3>2. \A j \in D : j # i => term(g)[j] = 0
      BY <1>3, <3>1 DEF IsDirection, OncePerGate, D
    <3>3. term(g)[i] = e[i].value
      BY <1>3, <3>1
    <3>4. ValueOf(e, {g}) = e[i].value
      BY <3>1, ValueHeld DEF D
    <3>5. SumFunctionOnSet(term(g), D) = term(g)[i]
      BY <1>2, <1>3, <3>2, SumOnly
    <3> QED BY <1>3, <3>3, <3>4, <3>5
  <2>2. CASE \A i \in D : e[i].gate # g
    <3>1. SumFunctionOnSet(term(g), D) = 0
      BY <1>2, <1>3, <2>2, SumZero
    <3>2. ValueOf(e, {g}) = 0
      BY <2>2, ValueMissing DEF D
    <3> QED BY <1>3, <3>1, <3>2
  <2> QED BY <2>1, <2>2
<1> QED BY <1>4, <1>5, <1>6

\* The vector of a sum, and of a multiple.
LEMMA VectorPlus ==
  ASSUME NEW a, IsDirection(a), NEW b, IsDirection(b), NEW sign \in Int,
         NEW g \in Gates
  PROVE  VectorOf(PlusOf(a, b, sign))[g] =
           VectorOf(a)[g] + sign * VectorOf(b)[g]
<1>1. IsDirection(PlusOf(a, b, sign))
  BY PlusValues
<1>2. ValueOf(PlusOf(a, b, sign), {g}) = ValueOf(a, {g}) + sign * ValueOf(b, {g})
  BY PlusValues
<1> QED BY <1>1, <1>2, VectorIs

LEMMA VectorScale ==
  ASSUME NEW e, IsDirection(e), NEW num \in Int, NEW den \in Nat, den > 0,
         Exact(e, num, den), NEW g \in Gates
  PROVE  VectorOf(ScaleOf(e, num, den))[g] * den = VectorOf(e)[g] * num
<1>1. IsDirection(ScaleOf(e, num, den))
  BY ScaleValues
<1>2. ValueOf(ScaleOf(e, num, den), {g}) * den = ValueOf(e, {g}) * num
  BY ScaleValues
<1> QED BY <1>1, <1>2, VectorIs

Products(u, v) == [g \in Gates |-> u[g] * v[g]]

LEMMA InnerIs ==
  ASSUME NEW u \in [Gates -> Int], NEW v \in [Gates -> Int]
  PROVE  /\ Inner(u, v) = SumFunctionOnSet(Products(u, v), Gates)
         /\ Inner(u, v) \in Int
<1>1. Inner(u, v) = SumFunction(Products(u, v))
  <2>1. DOMAIN u = Gates
    OBVIOUS
  <2> QED BY <2>1 DEF Inner, Products
<1>2. /\ Products(u, v) = [g \in Gates |-> Products(u, v)[g]]
      /\ \A g \in Gates : Products(u, v)[g] \in Int
  BY DEF Products
<1>3. Inner(u, v) = SumFunctionOnSet(Products(u, v), Gates)
  BY <1>1, <1>2, SumFunctionIs
<1>4. SumFunctionOnSet(Products(u, v), Gates) \in Int
  BY <1>2, SumPick, GatesAssumption
<1> QED BY <1>3, <1>4

\* The inner product is linear in its first vector.
LEMMA InnerLinear ==
  ASSUME NEW u \in [Gates -> Int], NEW z \in [Gates -> Int],
         NEW v \in [Gates -> Int], NEW w \in [Gates -> Int],
         NEW c \in Int, NEW d \in Int,
         Combines(Gates, w, c, u, d, z)
  PROVE  Inner(w, v) = c * Inner(u, v) + d * Inner(z, v)
<1> DEFINE F == Products(u, v)
           G == Products(z, v)
           H == Products(w, v)
<1>1. ASSUME NEW g \in Gates
      PROVE  /\ F[g] \in Int /\ G[g] \in Int
             /\ H[g] = c * F[g] + d * G[g]
  <2>1. F[g] = u[g] * v[g] /\ G[g] = z[g] * v[g] /\ H[g] = w[g] * v[g]
    BY DEF Products
  <2>2. \A p, q, r \in Int : (c * p + d * q) * r = c * (p * r) + d * (q * r)
    OBVIOUS
  <2>3. w[g] = c * u[g] + d * z[g] /\ u[g] \in Int /\ z[g] \in Int /\ v[g] \in Int
    BY DEF Combines
  <2>4. F[g] \in Int /\ G[g] \in Int
    BY <2>1, <2>3
  <2>5. H[g] = (c * u[g] + d * z[g]) * v[g]
    BY <2>1, <2>3
  <2> HIDE DEF F, G, H
  <2> QED BY <2>1, <2>2, <2>3, <2>4, <2>5
<1> HIDE DEF F, G, H
<1>2. SumFunctionOnSet(H, Gates) =
        c * SumFunctionOnSet(F, Gates) + d * SumFunctionOnSet(G, Gates)
  <2>1. Combines(Gates, H, c, F, d, G)
    BY <1>1 DEF Combines
  <2>2. (\A g \in Gates : F[g] \in Int) /\ (\A g \in Gates : G[g] \in Int)
    BY <1>1
  <2>3. IsFiniteSet(Gates)
    BY GatesAssumption
  <2> QED BY ONLY <2>1, <2>2, <2>3, c \in Int, d \in Int, SumLinear
<1> QED BY <1>2, InnerIs DEF F, G, H

\* A vector that has inner product 0 with itself is 0, and the product is
\* never negative.
LEMMA InnerSelf ==
  ASSUME NEW v \in [Gates -> Int]
  PROVE  /\ Inner(v, v) \in Nat
         /\ Inner(v, v) = 0 => \A g \in Gates : v[g] = 0
<1>1. \A x \in Int : x * x \in Nat /\ (x * x = 0 => x = 0)
  OBVIOUS
<1>2. \A g \in Gates : /\ Products(v, v)[g] = v[g] * v[g]
                       /\ Products(v, v)[g] \in Nat
  BY <1>1 DEF Products
<1>3. /\ SumFunctionOnSet(Products(v, v), Gates) \in Nat
      /\ SumFunctionOnSet(Products(v, v), Gates) = 0 =>
           \A g \in Gates : Products(v, v)[g] = 0
  BY <1>2, SumNatural, GatesAssumption
<1> QED BY <1>1, <1>2, <1>3, InnerIs

\* A zero vector has inner product 0 with every vector.
LEMMA InnerZero ==
  ASSUME NEW u \in [Gates -> Int], NEW v \in [Gates -> Int],
         \A g \in Gates : u[g] = 0 \/ v[g] = 0
  PROVE  Inner(u, v) = 0
<1>1. ASSUME NEW g \in Gates PROVE Products(u, v)[g] = 0
  <2>1. Products(u, v)[g] = u[g] * v[g] /\ u[g] \in Int /\ v[g] \in Int
    BY DEF Products
  <2>2. \A x \in Int : x * 0 = 0 /\ 0 * x = 0
    OBVIOUS
  <2> QED BY <2>1, <2>2
<1> QED BY <1>1, SumZero, InnerIs, GatesAssumption

\* Dot, which runs over the entries, is the inner product, which runs over the
\* gates.
LEMMA DotInner ==
  ASSUME NEW a, IsDirection(a), NEW b, IsDirection(b)
  PROVE  DotOf(a, b) = Inner(VectorOf(a), VectorOf(b))
<1> DEFINE D == 1 .. Len(a)
           f == [i \in D |-> a[i].value * coefficient_at(b, a[i].gate)]
           u == VectorOf(a)
           v == VectorOf(b)
           p == [i \in D |-> a[i].gate]
<1>1. /\ Len(a) \in Nat
      /\ \A i \in D : a[i].gate \in Gates /\ a[i].value \in Int
  BY EntryTyped
<1>2. IsFiniteSet(D)
  BY <1>1, FS_Interval
<1>3. DotOf(a, b) = SumFunctionOnSet(f, D)
  <2>1. DotOf(a, b) = SumFunction(f)
    BY DEF DotOf
  <2>2. f = [i \in D |-> f[i]]
    OBVIOUS
  <2> HIDE DEF f, D
  <2> QED BY <2>1, <2>2, SumFunctionIs
<1>4. u \in [Gates -> Int] /\ v \in [Gates -> Int]
  BY VectorIs
<1>5. p \in [D -> Gates]
  BY <1>1
<1>6. \A i, j \in D : p[i] = p[j] => i = j
  BY <1>1 DEF IsDirection, OncePerGate
<1>7. ASSUME NEW i \in D PROVE f[i] = Products(u, v)[p[i]]
  <2>1. f[i] = a[i].value * ValueOf(b, {a[i].gate})
    BY DEF coefficient_at
  <2>2. p[i] = a[i].gate /\ p[i] \in Gates
    BY <1>1
  <2> HIDE DEF p, f
  <2>3. u[p[i]] = ValueOf(a, {a[i].gate}) /\ v[p[i]] = ValueOf(b, {a[i].gate})
    BY <2>2, VectorIs
  <2>4. ValueOf(a, {a[i].gate}) = a[i].value
    BY ValueHeld
  <2>5. Products(u, v)[p[i]] = u[p[i]] * v[p[i]]
    BY <2>2 DEF Products
  <2> HIDE DEF u, v
  <2> QED BY <2>1, <2>3, <2>4, <2>5
<1>8. ASSUME NEW g \in Gates, \A i \in D : p[i] # g PROVE Products(u, v)[g] = 0
  <2>1. u[g] = 0
    <3>1. \A i \in 1 .. Len(a) : a[i].gate # g
      BY <1>8
    <3>2. ValueOf(a, {g}) = 0
      BY <3>1, ValueMissing
    <3> QED BY <3>2, VectorIs
  <2>2. Products(u, v)[g] = u[g] * v[g] /\ v[g] \in Int
    BY <1>4 DEF Products
  <2>3. \A x \in Int : 0 * x = 0
    OBVIOUS
  <2> HIDE DEF u, v
  <2> QED BY <2>1, <2>2, <2>3
<1>9. \A g \in Gates : Products(u, v)[g] \in Int
  <2> HIDE DEF u, v
  <2> QED BY <1>4 DEF Products
<1>10. SumFunctionOnSet(f, D) = SumFunctionOnSet(Products(u, v), Gates)
  <2> HIDE DEF f, D, u, v, p
  <2> QED BY <1>2, <1>5, <1>6, <1>7, <1>8, <1>9, SumMoved, GatesAssumption
<1> HIDE DEF u, v, f, D
<1>11. Inner(u, v) = SumFunctionOnSet(Products(u, v), Gates)
  BY <1>4, InnerIs
<1> QED BY <1>3, <1>10, <1>11 DEF u, v

-----------------------------------------------------------------------------
(* The invariant.                                                          *)

IInv == TypeOK /\ \A s \in Stores : OncePerGate(store[s])

LEMMA StoresDirections ==
  ASSUME IInv
  PROVE  /\ \A s \in Stores : IsDirection(store[s])
         /\ \A d \in Assigned : /\ d \in Dirs /\ dir_[d] \in Stores
                                /\ Of(d) = store[dir_[d]] /\ IsDirection(Of(d))
<1>1. ASSUME NEW s \in Stores PROVE IsDirection(store[s])
  <2>1. store[s] \in Seq(Entries)
    BY DEF IInv, TypeOK
  <2>2. Entries \subseteq Coefficients
    BY DEF Entries, Coefficients, Coeffs
  <2>3. store[s] \in Seq(Coefficients)
    BY <2>1, <2>2
  <2> QED BY <2>3 DEF IsDirection, IInv
<1>2. ASSUME NEW d \in Assigned PROVE d \in Dirs /\ dir_[d] \in Stores
  BY DEF Assigned, IInv, TypeOK
<1> QED BY <1>1, <1>2 DEF Of

\* Whatever a routine writes, if it writes directions, the invariant holds.
LEMMA BecomesKeeps ==
  ASSUME IInv, NEW dir \in [Dirs -> Stores \cup {None}],
         NEW content, \A s \in Stores : IsDirection(content[s]),
         Becomes(dir, content)
  PROVE  IInv'
<1>1. ASSUME NEW s \in Stores PROVE content[s] \in Seq(Entries)
  <2>1. /\ Len(content[s]) \in Nat
        /\ \A i \in 1 .. Len(content[s]) : content[s][i] \in Coefficients
    BY EntryTyped
  <2>2. \A i \in 1 .. Len(content[s]) : content[s][i].value \in Coeffs
    BY DEF Becomes, Bounded
  <2>3. \A i \in 1 .. Len(content[s]) : content[s][i] \in Entries
    BY <2>1, <2>2 DEF Coefficients, Entries
  <2>4. content[s] \in Seq(Coefficients)
    BY DEF IsDirection
  <2>5. content[s] \in [1 .. Len(content[s]) -> Entries]
    BY <2>3, <2>4
  <2> QED BY <2>1, <2>5, EntrySeq
<1>2. \A s \in Stores : OncePerGate(content[s])
  BY DEF IsDirection
<1>3. /\ dir_' = dir
      /\ store' = [s \in Stores |->
                     IF \E d \in Dirs : dir[d] = s THEN content[s] ELSE <<>>]
  BY DEF Becomes
<1>4. OncePerGate(<<>>) /\ <<>> \in Seq(Entries)
  BY DEF OncePerGate
<1>5. \A s \in Stores : store'[s] \in Seq(Entries) /\ OncePerGate(store'[s])
  BY <1>1, <1>2, <1>3, <1>4
<1>6. store' \in [Stores -> Seq(Entries)]
  BY <1>3, <1>5
<1> QED BY <1>3, <1>5, <1>6 DEF IInv, TypeOK

\* A routine that returns r on d's arrays.
LEMMA ReturnsKeeps ==
  ASSUME IInv, NEW r \in Dirs, NEW d \in Assigned, NEW e, IsDirection(e),
         Returns(r, d, e) \/ Writes(d, e)
  PROVE  IInv'
<1>1. /\ dir_[d] \in Stores /\ d \in Dirs
      /\ dir_ \in [Dirs -> Stores \cup {None}]
      /\ [dir_ EXCEPT ![r] = dir_[d]] \in [Dirs -> Stores \cup {None}]
  BY StoresDirections DEF IInv, TypeOK
<1> DEFINE content == [store EXCEPT ![dir_[d]] = e]
<1>2. \A s \in Stores : IsDirection(content[s])
  BY <1>1, StoresDirections DEF IInv, TypeOK
<1>3. \/ Becomes([dir_ EXCEPT ![r] = dir_[d]], content)
      \/ Becomes(dir_, content)
  BY DEF Returns, Writes
<1> HIDE DEF content
<1> QED BY <1>1, <1>2, <1>3, BecomesKeeps

\* The first entry for a gate of the set.
LEMMA FirstOfSame ==
  ASSUME NEW e, Len(e) \in Nat, NEW same, Holds(e, same)
  PROVE  FirstOf(e, same) \in 1 .. Len(e)
<1> DEFINE T == {i \in 1 .. Len(e) : e[i].gate \in same}
<1>1. T \in SUBSET Nat /\ T # {}
  BY DEF Holds
<1>2. PICK i \in T : \A j \in T : i <= j
  <2> HIDE DEF T
  <2> QED BY <1>1, Least
<1>3. /\ i \in 1 .. Len(e) /\ e[i].gate \in same
      /\ \A h \in 1 .. i - 1 : e[h].gate \notin same
  BY <1>2
<1> QED BY <1>3 DEF FirstOf

\* Map finds a gate by name: what it sets or drops is the entry of one object.
LEMMA SameIsOne ==
  ASSUME NEW e, IsDirection(e), NEW same, Holds(e, same)
  PROVE  \E at \in 1 .. Len(e) : /\ FirstOf(e, same) = at
                                 /\ FirstOf(e, {e[at].gate}) = at
                                 /\ Holds(e, {e[at].gate})
<1>1. Len(e) \in Nat
  BY EntryTyped
<1>2. PICK at \in 1 .. Len(e) : FirstOf(e, same) = at
  BY <1>1, FirstOfSame
<1> QED BY <1>1, <1>2, FirstIsOnly DEF IsDirection, Holds

LEMMA PutSame ==
  ASSUME NEW e, IsDirection(e), NEW g \in Gates, NEW v
  PROVE  \E h \in Gates : Put(e, SameName(g), g, v) = Put(e, {h}, h, v)
<1>0. g \in SameName(g)
  BY DEF SameName
<1>1. CASE Holds(e, SameName(g))
  <2>1. PICK at \in 1 .. Len(e) : /\ FirstOf(e, SameName(g)) = at
                                  /\ FirstOf(e, {e[at].gate}) = at
                                  /\ Holds(e, {e[at].gate})
    BY <1>1, SameIsOne
  <2>2. Put(e, SameName(g), g, v) = Put(e, {e[at].gate}, e[at].gate, v)
    BY <1>1, <2>1 DEF Put
  <2> QED BY <2>2, EntryTyped
<1>2. CASE ~Holds(e, SameName(g))
  <2>1. ~Holds(e, {g})
    BY <1>0, <1>2 DEF Holds
  <2> QED BY <1>2, <2>1 DEF Put
<1> QED BY <1>1, <1>2

LEMMA DropTyped ==
  ASSUME NEW e, IsDirection(e), NEW same
  PROVE  IsDirection(Drop(e, same))
<1>1. CASE Holds(e, same)
  <2>1. PICK at \in 1 .. Len(e) : /\ FirstOf(e, same) = at
                                  /\ FirstOf(e, {e[at].gate}) = at
                                  /\ Holds(e, {e[at].gate})
    BY <1>1, SameIsOne
  <2>2. Drop(e, same) = Drop(e, {e[at].gate})
    BY <1>1, <2>1 DEF Drop
  <2>3. IsCut(Coefficients, e, at, Drop(e, {e[at].gate}))
    BY DropResult DEF IsDirection
  <2> QED BY <2>2, <2>3 DEF IsCut, IsDirection
<1>2. CASE ~Holds(e, same)
  BY <1>2 DEF Drop
<1> QED BY <1>1, <1>2

LEMMA DotTyped ==
  ASSUME NEW a, IsDirection(a), NEW b, IsDirection(b)
  PROVE  /\ DotOf(a, b) \in Int /\ DotOf(b, b) \in Nat
         /\ DotOf(b, b) # 0 => DotOf(b, b) > 0
<1>1. VectorOf(a) \in [Gates -> Int] /\ VectorOf(b) \in [Gates -> Int]
  BY VectorIs
<1>2. DotOf(a, b) \in Int
  BY <1>1, DotInner, InnerIs
<1>3. DotOf(b, b) \in Nat
  BY <1>1, DotInner, InnerSelf
<1> QED BY <1>2, <1>3

\* What Orthogonalize computes with is a direction.
LEMMA RescaledTyped ==
  ASSUME NEW a, IsDirection(a), NEW b, IsDirection(b), DotOf(b, b) # 0
  PROVE  IsDirection(ScaleOf(b, DotOf(a, b), DotOf(b, b)))
BY DotTyped, ScaleValues

LEMMA StepIInv ==
  ASSUME IInv, [Next]_vars
  PROVE  IInv'
<1>1. \A s \in Stores : IsDirection(store[s])
  BY StoresDirections
<1>2. \A d \in Assigned : d \in Dirs /\ dir_[d] \in Stores /\ IsDirection(Of(d))
  BY StoresDirections
<1>3. dir_ \in [Dirs -> Stores \cup {None}] /\ store \in [Stores -> Seq(Entries)]
  BY DEF IInv, TypeOK
<1>4. CASE UNCHANGED vars
  BY <1>4 DEF vars, IInv, TypeOK
<1>5. ASSUME NEW d \in Dirs, New(d) PROVE IInv'
  <2>1. PICK s \in Stores :
          Becomes([dir_ EXCEPT ![d] = s], [store EXCEPT ![s] = <<>>])
    BY <1>5 DEF New
  <2>2. IsDirection(<<>>)
    BY DEF IsDirection, OncePerGate
  <2> DEFINE content == [store EXCEPT ![s] = <<>>]
  <2>3. \A u \in Stores : IsDirection(content[u])
    BY <1>1, <1>3, <2>2
  <2>4. [dir_ EXCEPT ![d] = s] \in [Dirs -> Stores \cup {None}]
    BY <1>3
  <2>5. Becomes([dir_ EXCEPT ![d] = s], content)
    BY <2>1
  <2> HIDE DEF content
  <2> QED BY <2>3, <2>4, <2>5, BecomesKeeps
<1>6. ASSUME NEW d \in Dirs, Normalize(d) PROVE IInv'
  <2>1. CASE UNCHANGED vars
    BY <1>4, <2>1
  <2>2. CASE ~UNCHANGED vars
    <3>1. PICK norm \in 1 .. MaxCoeff : Writes(d, ScaleOf(Of(d), 1, norm))
      BY <1>6, <2>2 DEF Normalize
    <3>2. d \in Assigned
      BY <1>6 DEF Normalize
    <3>3. norm \in Nat /\ norm > 0 /\ 1 \in Int
      BY BoundsAssumption
    <3>4. IsDirection(ScaleOf(Of(d), 1, norm))
      BY <1>2, <3>2, <3>3, ScaleValues
    <3> QED BY <3>1, <3>2, <3>4, ReturnsKeeps
  <2> QED BY <2>1, <2>2
<1>7. ASSUME NEW d \in Dirs, NEW g \in Gates, RemoveGate(d, g) PROVE IInv'
  <2>1. d \in Assigned /\ Writes(d, Drop(Of(d), SameName(g)))
    BY <1>7 DEF RemoveGate
  <2>2. IsDirection(Drop(Of(d), SameName(g)))
    BY <1>2, <2>1, DropTyped
  <2> QED BY <2>1, <2>2, ReturnsKeeps
<1>8. ASSUME NEW d \in Dirs, NEW g \in Gates, NEW c \in Coeffs, SetCoefficient(d, g, c)
      PROVE  IInv'
  <2>1. d \in Assigned /\ Writes(d, Put(Of(d), SameName(g), g, c))
    BY <1>8 DEF SetCoefficient
  <2>2. c \in Int
    BY BoundsAssumption DEF Coeffs
  <2>3. IsDirection(Put(Of(d), SameName(g), g, c))
    <3>1. PICK h \in Gates : Put(Of(d), SameName(g), g, c) = Put(Of(d), {h}, h, c)
      BY <1>2, <2>1, PutSame
    <3> QED BY <1>2, <2>1, <2>2, <3>1, PutValues
  <2> QED BY <2>1, <2>3, ReturnsKeeps
<1>9. ASSUME NEW r \in Dirs, NEW d \in Dirs, NEW f \in Factors, Scale(r, d, f) PROVE IInv'
  <2>1. d \in Assigned /\ Returns(r, d, ScaleOf(Of(d), f, 1))
    BY <1>9 DEF Scale
  <2>2. f \in Int /\ 1 \in Nat /\ 1 > 0
    BY BoundsAssumption
  <2>3. IsDirection(ScaleOf(Of(d), f, 1))
    BY <1>2, <2>1, <2>2, ScaleValues
  <2> QED BY <2>1, <2>3, ReturnsKeeps
<1>10. ASSUME NEW r \in Dirs, NEW d \in Dirs, NEW other \in Dirs,
              Add(r, d, other) \/ Subtract(r, d, other)
       PROVE  IInv'
  <2>1. PICK sign \in Int : /\ d \in Assigned /\ other \in Assigned
                            /\ Returns(r, d, PlusOf(Of(d), Of(other), sign))
    <3>1. 1 \in Int /\ -1 \in Int
      OBVIOUS
    <3> QED BY <1>10, <3>1 DEF Add, Subtract
  <2>2. IsDirection(PlusOf(Of(d), Of(other), sign))
    BY <1>2, <2>1, PlusValues
  <2> QED BY <2>1, <2>2, ReturnsKeeps
<1>11. ASSUME NEW r \in Dirs, NEW d \in Dirs, NEW other \in Dirs, Project(r, d, other)
       PROVE  IInv'
  <2> DEFINE denom == DotOf(Of(other), Of(other))
             dot == DotOf(Of(d), Of(other))
  <2>1. d \in Assigned /\ other \in Assigned
    BY <1>11 DEF Project
  <2>2. CASE /\ denom # 0
             /\ Returns(r, other, ScaleOf(Of(other), dot, denom))
    <3>1. IsDirection(ScaleOf(Of(other), dot, denom))
      BY <1>2, <2>1, <2>2, RescaledTyped
    <3> HIDE DEF denom, dot
    <3> QED BY <2>1, <2>2, <3>1, ReturnsKeeps
  <2>3. CASE Becomes([dir_ EXCEPT ![r] = None], store)
    <3>1. [dir_ EXCEPT ![r] = None] \in [Dirs -> Stores \cup {None}]
      BY <1>3
    <3> QED BY <1>1, <2>3, <3>1, BecomesKeeps
  <2> QED BY <1>11, <2>2, <2>3 DEF Project
<1>12. ASSUME NEW d \in Dirs, NEW other \in Dirs, Orthogonalize(d, other) PROVE IInv'
  <2> DEFINE denom == DotOf(Of(other), Of(other))
             dot == DotOf(Of(d), Of(other))
             scaled == ScaleOf(Of(other), dot, denom)
             projected == [store EXCEPT ![dir_[other]] = scaled]
             content == [projected EXCEPT ![dir_[d]] =
                           PlusOf(@, projected[dir_[other]], -1)]
  <2>1. d \in Assigned /\ other \in Assigned
    BY <1>12 DEF Orthogonalize
  <2>2. CASE UNCHANGED vars
    BY <1>4, <2>2
  <2>3. CASE denom # 0 /\ Becomes(dir_, content)
    <3>1. IsDirection(scaled)
      BY <1>2, <2>1, <2>3, RescaledTyped
    <3> HIDE DEF scaled
    <3>2. /\ \A s \in Stores : IsDirection(projected[s])
          /\ DOMAIN projected = Stores
      BY <1>1, <1>3, <3>1
    <3> HIDE DEF projected
    <3>3. IsDirection(PlusOf(projected[dir_[d]], projected[dir_[other]], -1))
      <4>1. -1 \in Int
        OBVIOUS
      <4>2. IsDirection(projected[dir_[d]]) /\ IsDirection(projected[dir_[other]])
        BY <1>2, <2>1, <3>2
      <4> QED BY <4>1, <4>2, PlusValues
    <3>4. \A s \in Stores : IsDirection(content[s])
      BY <1>2, <2>1, <3>2, <3>3
    <3> HIDE DEF content
    <3> QED BY <1>3, <2>3, <3>4, BecomesKeeps
  <2> QED BY <1>12, <2>2, <2>3 DEF Orthogonalize
<1>13. ASSUME NEW r \in Dirs, NEW d \in Dirs, Assign(r, d) PROVE IInv'
  <2>1. d \in Assigned /\ Becomes([dir_ EXCEPT ![r] = dir_[d]], store)
    BY <1>13 DEF Assign
  <2>2. [dir_ EXCEPT ![r] = dir_[d]] \in [Dirs -> Stores \cup {None}]
    BY <1>2, <1>3, <2>1
  <2> QED BY <1>1, <2>1, <2>2, BecomesKeeps
<1> QED
  BY <1>4, <1>5, <1>6, <1>7, <1>8, <1>9, <1>10, <1>11, <1>12, <1>13 DEF Next

LEMMA Inductive == Spec => []IInv
<1>1. Init => IInv
  <2> SUFFICES ASSUME Init PROVE IInv
    OBVIOUS
  <2>1. OncePerGate(<<>>) /\ <<>> \in Seq(Entries)
    BY DEF OncePerGate
  <2> QED BY <2>1 DEF Init, IInv, TypeOK
<1>2. IInv /\ [Next]_vars => IInv'
  BY StepIInv
<1> QED BY <1>1, <1>2, PTL DEF Spec

-----------------------------------------------------------------------------
(* What the routines compute.                                              *)

\* The array of a variable that a routine has written is what it wrote.
LEMMA BecomesAt ==
  ASSUME NEW dir, NEW content, Becomes(dir, content),
         NEW d \in Dirs, dir[d] \in Stores
  PROVE  dir_'[d] = dir[d] /\ store'[dir_'[d]] = content[dir[d]]
BY DEF Becomes

LEMMA ReturnsAt ==
  ASSUME IInv, NEW r \in Dirs, NEW d \in Assigned, NEW e, Returns(r, d, e)
  PROVE  store'[dir_'[r]] = e
<1> DEFINE dir == [dir_ EXCEPT ![r] = dir_[d]]
           content == [store EXCEPT ![dir_[d]] = e]
<1>1. dir_[d] \in Stores
  BY StoresDirections
<1>2. dir[r] = dir_[d] /\ content[dir_[d]] = e
  BY <1>1 DEF IInv, TypeOK
<1>3. Becomes(dir, content)
  BY DEF Returns
<1> HIDE DEF dir, content
<1> QED BY <1>1, <1>2, <1>3, BecomesAt

LEMMA SumOfVectors ==
  ASSUME IInv, NEW r \in Dirs, NEW d \in Assigned, NEW other \in Assigned,
         NEW sign \in Int, Returns(r, d, PlusOf(Of(d), Of(other), sign))
  PROVE  VectorOf(store'[dir_'[r]]) =
           [g \in Gates |-> VectorOf(Of(d))[g] + sign * VectorOf(Of(other))[g]]
<1> DEFINE p == PlusOf(Of(d), Of(other), sign)
<1>1. store'[dir_'[r]] = p
  BY ReturnsAt
<1>2. IsDirection(Of(d)) /\ IsDirection(Of(other))
  BY StoresDirections
<1>3. IsDirection(p)
  BY <1>2, PlusValues
<1>4. \A g \in Gates : VectorOf(p)[g] =
        VectorOf(Of(d))[g] + sign * VectorOf(Of(other))[g]
  BY <1>2, VectorPlus
<1> HIDE DEF p
<1>5. VectorOf(p) \in [Gates -> Int]
  BY <1>3, VectorIs
<1> QED BY <1>1, <1>4, <1>5

LEMMA StepSums ==
  ASSUME IInv, NEW r \in Dirs, NEW d \in Dirs, NEW other \in Dirs
  PROVE  /\ Add(r, d, other) =>
              VectorOf(store'[dir_'[r]]) =
                [g \in Gates |-> VectorOf(Of(d))[g] + VectorOf(Of(other))[g]]
         /\ Subtract(r, d, other) =>
              VectorOf(store'[dir_'[r]]) =
                [g \in Gates |-> VectorOf(Of(d))[g] - VectorOf(Of(other))[g]]
<1>1. 1 \in Int /\ -1 \in Int
  OBVIOUS
<1>2. ASSUME d \in Assigned, other \in Assigned
      PROVE  \A g \in Gates : /\ VectorOf(Of(d))[g] \in Int
                              /\ VectorOf(Of(other))[g] \in Int
  <2>1. IsDirection(Of(d)) /\ IsDirection(Of(other))
    BY <1>2, StoresDirections
  <2> QED BY <2>1, VectorIs
<1>3. ASSUME Add(r, d, other)
      PROVE  VectorOf(store'[dir_'[r]]) =
               [g \in Gates |-> VectorOf(Of(d))[g] + VectorOf(Of(other))[g]]
  <2>1. /\ d \in Assigned /\ other \in Assigned
        /\ Returns(r, d, PlusOf(Of(d), Of(other), 1))
    BY <1>3 DEF Add
  <2>2. VectorOf(store'[dir_'[r]]) =
          [g \in Gates |-> VectorOf(Of(d))[g] + 1 * VectorOf(Of(other))[g]]
    BY <1>1, <2>1, SumOfVectors
  <2>3. \A g \in Gates : VectorOf(Of(d))[g] + 1 * VectorOf(Of(other))[g] =
                           VectorOf(Of(d))[g] + VectorOf(Of(other))[g]
    BY <1>2, <2>1
  <2> QED BY <2>2, <2>3
<1>4. ASSUME Subtract(r, d, other)
      PROVE  VectorOf(store'[dir_'[r]]) =
               [g \in Gates |-> VectorOf(Of(d))[g] - VectorOf(Of(other))[g]]
  <2>1. /\ d \in Assigned /\ other \in Assigned
        /\ Returns(r, d, PlusOf(Of(d), Of(other), -1))
    BY <1>4 DEF Subtract
  <2>2. PICK m \in Int : m = -1
    BY <1>1
  <2>3. Returns(r, d, PlusOf(Of(d), Of(other), m))
    BY <2>1, <2>2
  <2>4. VectorOf(store'[dir_'[r]]) =
          [g \in Gates |-> VectorOf(Of(d))[g] + m * VectorOf(Of(other))[g]]
    BY ONLY IInv, <2>1, <2>2, <2>3, SumOfVectors
  <2>5. \A g \in Gates : VectorOf(Of(d))[g] + m * VectorOf(Of(other))[g] =
                           VectorOf(Of(d))[g] - VectorOf(Of(other))[g]
    BY <1>2, <2>1, <2>2
  <2> QED BY <2>4, <2>5
<1> QED BY <1>3, <1>4

\* a minus its projection on b has inner product 0 with b.
LEMMA RestIsOrthogonal ==
  ASSUME NEW a, IsDirection(a), NEW b, IsDirection(b),
         DotOf(b, b) # 0, Exact(b, DotOf(a, b), DotOf(b, b))
  PROVE  Inner(VectorOf(PlusOf(a, ScaleOf(b, DotOf(a, b), DotOf(b, b)), -1)),
               VectorOf(b)) = 0
<1> DEFINE den == DotOf(b, b)
           dot == DotOf(a, b)
           c == ScaleOf(b, dot, den)
           u == VectorOf(a)
           v == VectorOf(b)
           w == VectorOf(c)
           p == PlusOf(a, c, -1)
           z == VectorOf(p)
<1>1. den \in Nat /\ den > 0 /\ dot \in Int /\ -1 \in Int
  BY DotTyped
<1>2. IsDirection(c)
  BY RescaledTyped
<1> HIDE DEF den, dot
<1>3. \A g \in Gates : w[g] * den = v[g] * dot
  <2>1. Exact(b, dot, den)
    BY DEF dot, den
  <2> QED BY <1>1, <2>1, VectorScale
<1> HIDE DEF c
<1>4. IsDirection(p) /\ \A g \in Gates : z[g] = u[g] + (-1) * w[g]
  <2>1. PICK m \in Int : m = -1
    BY <1>1
  <2>2. IsDirection(PlusOf(a, c, m))
    BY <1>2, PlusValues
  <2>3. \A g \in Gates : VectorOf(PlusOf(a, c, m))[g] = u[g] + m * w[g]
    BY <1>2, VectorPlus
  <2> QED BY <2>1, <2>2, <2>3
<1> HIDE DEF p
<1>5. /\ u \in [Gates -> Int] /\ v \in [Gates -> Int] /\ w \in [Gates -> Int]
      /\ z \in [Gates -> Int]
  BY <1>2, <1>4, VectorIs
<1>6. den = Inner(v, v) /\ dot = Inner(u, v)
  BY DotInner DEF den, dot
<1> HIDE DEF u, v, w, z
<1> DEFINE zd == [g \in Gates |-> den * z[g] + 0 * z[g]]
<1>7. \A g \in Gates : zd[g] = den * u[g] + (-dot) * v[g]
  <2> TAKE g \in Gates
  <2>1. u[g] \in Int /\ v[g] \in Int /\ w[g] \in Int /\ z[g] \in Int
    BY <1>5
  <2>2. zd[g] = den * z[g]
    <3>1. \A x \in Int : den * x + 0 * x = den * x
      BY <1>1
    <3> QED BY <2>1, <3>1
  <2>3. z[g] = u[g] - w[g]
    BY <1>4, <2>1
  <2>4. den * (u[g] - w[g]) = den * u[g] - w[g] * den
    BY <1>1, <2>1
  <2>5. (-dot) * v[g] = -(v[g] * dot)
    BY <1>1, <2>1
  <2>6. den * u[g] \in Int /\ v[g] * dot \in Int
    BY <1>1, <2>1
  <2> HIDE DEF zd
  <2> QED BY <1>3, <2>2, <2>3, <2>4, <2>5, <2>6
<1>8. zd \in [Gates -> Int]
  BY <1>1, <1>5
<1>9. Inner(zd, v) = den * Inner(z, v) + 0 * Inner(z, v)
  <2>1. Combines(Gates, zd, den, z, 0, z)
    BY DEF Combines
  <2>2. den \in Int /\ 0 \in Int
    BY <1>1
  <2> HIDE DEF zd
  <2> QED BY <1>5, <1>8, <2>1, <2>2, InnerLinear
<1>10. Inner(zd, v) = den * Inner(u, v) + (-dot) * Inner(v, v)
  <2>1. den \in Int /\ -dot \in Int
    BY <1>1
  <2> HIDE DEF zd
  <2>2. Combines(Gates, zd, den, u, -dot, v)
    BY <1>7 DEF Combines
  <2> QED BY <1>5, <1>8, <2>1, <2>2, InnerLinear
<1> HIDE DEF zd
<1>11. Inner(z, v) \in Int
  BY <1>5, InnerIs
<1>12. den * dot + (-dot) * den = 0
  BY <1>1
<1>13. den * Inner(z, v) = 0
  <2>1. \A x \in Int : den * x + 0 * x = den * x
    BY <1>1
  <2> QED BY <1>6, <1>9, <1>10, <1>11, <1>12, <2>1
<1>14. Inner(z, v) = 0
  <2>1. \A x \in Int : den * x = 0 => x = 0
    BY <1>1
  <2> QED BY <1>11, <1>13, <2>1
<1> QED BY <1>14 DEF z, v, p, c, dot, den

LEMMA StepOrthogonal ==
  ASSUME IInv, NEW d \in Assigned, NEW other \in Assigned,
         Orthogonalize(d, other)
  PROVE  Inner(VectorOf(store'[dir_'[d]]), VectorOf(Of(other))) = 0
<1> DEFINE a == Of(d)
           b == Of(other)
           scaled == ScaleOf(b, DotOf(a, b), DotOf(b, b))
           projected == [store EXCEPT ![dir_[other]] = scaled]
           content == [projected EXCEPT ![dir_[d]] =
                         PlusOf(@, projected[dir_[other]], -1)]
<1>1. /\ IsDirection(a) /\ IsDirection(b) /\ d \in Dirs
      /\ dir_[d] \in Stores /\ dir_[other] \in Stores
      /\ a = store[dir_[d]] /\ b = store[dir_[other]]
  BY StoresDirections
<1>2. VectorOf(a) \in [Gates -> Int] /\ VectorOf(b) \in [Gates -> Int]
  BY <1>1, VectorIs
<1>3. CASE DotOf(b, b) = 0 /\ UNCHANGED vars
  <2>1. \A g \in Gates : VectorOf(b)[g] = 0
    BY <1>1, <1>2, <1>3, DotInner, InnerSelf
  <2>2. store'[dir_'[d]] = a
    BY <1>1, <1>3 DEF vars
  <2> HIDE DEF a, b
  <2>3. Inner(VectorOf(a), VectorOf(b)) = 0
    BY <1>2, <2>1, InnerZero
  <2> QED BY <2>2, <2>3 DEF b
<1>4. CASE /\ DotOf(b, b) # 0 /\ Exact(b, DotOf(a, b), DotOf(b, b))
           /\ Becomes(dir_, content)
  <2>1. DOMAIN store = Stores
    BY DEF IInv, TypeOK
  <2>2. content[dir_[d]] = PlusOf(projected[dir_[d]], scaled, -1)
    <3> HIDE DEF scaled
    <3> QED BY <1>1, <2>1
  <2>3. store'[dir_'[d]] = content[dir_[d]]
    <3> HIDE DEF content
    <3> QED BY <1>1, <1>4, BecomesAt
  <2>4. CASE dir_[d] # dir_[other]
    <3>1. projected[dir_[d]] = a
      BY <1>1, <2>1, <2>4
    <3>2. Inner(VectorOf(PlusOf(a, scaled, -1)), VectorOf(b)) = 0
      <4> HIDE DEF a, b
      <4> QED BY <1>1, <1>4, RestIsOrthogonal DEF scaled
    <3> HIDE DEF content, projected, scaled
    <3> QED BY <2>2, <2>3, <3>1, <3>2
  <2>5. CASE dir_[d] = dir_[other]
    <3>1. projected[dir_[d]] = scaled
      <4> HIDE DEF scaled
      <4> QED BY <1>1, <2>1, <2>5
    <3>2. IsDirection(scaled)
      <4> HIDE DEF a, b
      <4> QED BY <1>1, <1>4, RescaledTyped DEF scaled
    <3> HIDE DEF scaled, content, projected, b
    <3> DEFINE p == PlusOf(scaled, scaled, -1)
    <3>3. IsDirection(p) /\ -1 \in Int
      <4>1. -1 \in Int
        OBVIOUS
      <4> QED BY <3>2, <4>1, PlusValues
    <3>4. VectorOf(scaled) \in [Gates -> Int] /\ VectorOf(p) \in [Gates -> Int]
      <4> HIDE DEF p
      <4> QED BY <3>2, <3>3, VectorIs
    <3>5. ASSUME NEW g \in Gates PROVE VectorOf(p)[g] = 0
      <4>1. VectorOf(p)[g] = VectorOf(scaled)[g] + (-1) * VectorOf(scaled)[g]
        BY <3>2, <3>3, VectorPlus
      <4>2. VectorOf(scaled)[g] \in Int
        BY <3>4
      <4> HIDE DEF p
      <4> QED BY <4>1, <4>2
    <3>6. Inner(VectorOf(p), VectorOf(b)) = 0
      <4> HIDE DEF p
      <4> QED BY <1>2, <3>4, <3>5, InnerZero
    <3> QED BY <2>2, <2>3, <3>1, <3>6 DEF b
  <2> QED BY <2>4, <2>5
<1> QED BY <1>3, <1>4 DEF Orthogonalize

-----------------------------------------------------------------------------
(* The results.                                                            *)

\* Variables and arrays have their types, and coefficients stay in bounds.
THEOREM DirectionsTyped == Spec => []TypeOK
<1>1. IInv => TypeOK
  BY DEF IInv
<1> QED BY <1>1, Inductive, PTL

\* No Gate object has two coefficients, though Map finds gates by name and the
\* wrapper finds them by object.
THEOREM OneCoefficientPerGate == Spec => []OneCoefficientEach
<1>1. IInv => OneCoefficientEach
  BY DEF IInv, OneCoefficientEach, OncePerGate
<1> QED BY <1>1, Inductive, PTL

\* Dot is the inner product of the vectors of its operands.
THEOREM DotIsInnerProduct == Spec => []DotIsInner
<1>1. IInv => DotIsInner
  <2> SUFFICES ASSUME IInv, NEW d \in Assigned, NEW other \in Assigned
               PROVE  DotOf(Of(d), Of(other)) =
                        Inner(VectorOf(Of(d)), VectorOf(Of(other)))
    BY DEF DotIsInner
  <2>1. IsDirection(Of(d)) /\ IsDirection(Of(other))
    BY StoresDirections
  <2> QED BY <2>1, DotInner
<1> QED BY <1>1, Inductive, PTL

\* Add and Subtract are vector addition and subtraction, on shared arrays too.
THEOREM SumsAreVectorSums == Spec => SumsRight
<1>1. IInv /\ [Next]_vars =>
        [\A r, d, other \in Dirs :
           /\ Add(r, d, other) =>
                VectorOf(store'[dir_'[r]]) =
                  [g \in Gates |-> VectorOf(Of(d))[g] + VectorOf(Of(other))[g]]
           /\ Subtract(r, d, other) =>
                VectorOf(store'[dir_'[r]]) =
                  [g \in Gates |-> VectorOf(Of(d))[g] - VectorOf(Of(other))[g]]
        ]_vars
  BY StepSums
<1> QED BY <1>1, Inductive, PTL DEF Spec, SumsRight

\* Orthogonalize leaves no component along the other direction.
THEOREM OrthogonalizeWorks == Spec => OrthogonalAfter
<1>1. IInv /\ [Next]_vars =>
        [\A d, other \in Assigned :
           Orthogonalize(d, other) =>
             Inner(VectorOf(store'[dir_'[d]]), VectorOf(Of(other))) = 0]_vars
  BY StepOrthogonal
<1> QED BY <1>1, Inductive, PTL DEF Spec, OrthogonalAfter
=============================================================================
