--------------------------- MODULE BindingsProofs ---------------------------
(***************************************************************************)
(* For tables and scripts of any size: when each row of the tables is      *)
(* sound by itself, no chain of calls, arrays and elements breaks a type.  *)
(***************************************************************************)
EXTENDS Bindings, TLAPS

\* The class of any type is one of Classes, and each box of a class is a type.
LEMMA HandlesParts ==
  ASSUME NEW t \in Handles
  PROVE  One(t.of) \in Handles /\ Array(t.of) \in Handles /\ Axes(t.of) \in Handles
<1>1. PICK c \in Classes : t = One(c) \/ t = Array(c) \/ t = Axes(c)
  BY DEF Handles
<1>2. t.of = c
  BY <1>1 DEF One, Array, Axes
<1> QED
  BY <1>2 DEF Handles

\* What an object declared as t may be: one of t, or the Nil left in its place.
Fits(u, t) == Is(u, t) \/ Absent(u, t)

\* A literal's two types are one type.
LEMMA SoundIsHonest ==
  ASSUME NEW c \in Scripted
  PROVE  /\ Sound(One(c)) \in [type : Handles, real : Handles]
         /\ Fits(Sound(One(c)).real, Sound(One(c)).type)
<1>1. c \in Classes
  BY DEF Classes
<1> QED
  BY <1>1 DEF Sound, Fits, Is, Handles

\* The element of what is honestly a collection is honestly an element.
LEMMA ElementsAreHonest ==
  ASSUME NEW t \in Handles, NEW u \in Handles, Fits(t, u)
  PROVE  Fits(One(t.of), One(u.of))
<1>1. CASE Absent(t, u)
  BY <1>1 DEF Fits, Absent, IsNil, One
<1>2. CASE Is(t, u) /\ t.of = u.of
  BY <1>2 DEF Fits, Is
<1>3. CASE Is(t, u) /\ <<t.of, u.of>> \in Derives
  <2>1. t.of \notin Plain \cup {NilClass} /\ u.of \notin Plain \cup {NilClass}
    BY <1>3, DerivesAssumption
  <2> QED
    BY <1>3, <2>1 DEF Fits, Is, One
<1> QED
  BY <1>1, <1>2, <1>3 DEF Fits, Is

Honest == TypeOK /\ HandlesHonest

LEMMA InitHonest == Init => Honest
BY SoundIsHonest DEF Init, Honest, TypeOK, HandlesHonest, Fits

\* One variable gets a handle that is honest.
LEMMA SetHonest ==
  ASSUME Honest, NEW y \in Vars, NEW t \in Handles, NEW r \in Handles, Fits(r, t),
         held' = [held EXCEPT ![y] = [type |-> t, real |-> r]]
  PROVE  Honest'
<1>1. TypeOK'
  BY DEF Honest, TypeOK
<1>2. HandlesHonest'
  <2> SUFFICES ASSUME NEW x \in Vars PROVE Fits(held'[x].real, held'[x].type)
    BY DEF HandlesHonest, Fits
  <2>1. CASE x = y
    BY <2>1 DEF Honest, TypeOK
  <2>2. CASE x # y
    BY <2>2 DEF Honest, TypeOK, HandlesHonest, Fits
  <2> QED
    BY <2>1, <2>2
<1> QED
  BY <1>1, <1>2 DEF Honest

LEMMA LiteralHonest ==
  ASSUME Honest, NEW x \in Vars, Literal(x)
  PROVE  Honest'
<1> PICK c \in Scripted : held' = [held EXCEPT ![x] = Sound(One(c))]
  BY DEF Literal
<1> QED
  BY SoundIsHonest, SetHonest DEF Sound

LEMMA CollectHonest ==
  ASSUME Honest, NEW x \in Vars, NEW y \in Vars, Collect(x, y)
  PROVE  Honest'
<1> DEFINE t(box) == [box |-> box, of |-> held[x].type.of]
           r(box) == [box |-> box, of |-> held[x].real.of]
<1> PICK box \in {"Array", "Axes"} :
           held' = [held EXCEPT ![y] = [type |-> t(box), real |-> r(box)]]
  BY DEF Collect
<1>1. held[x].type \in Handles /\ held[x].real \in Handles
  BY DEF Honest, TypeOK
<1>2. t(box) \in Handles /\ r(box) \in Handles
  BY <1>1, HandlesParts DEF Array, Axes
<1>3. Fits(r(box), t(box))
  BY DEF Honest, HandlesHonest, Fits, Is, Absent, IsNil
<1> QED
  BY <1>2, <1>3, SetHonest

LEMMA ElementHonest ==
  ASSUME Honest, NEW x \in Vars, NEW y \in Vars, Element(x, y)
  PROVE  Honest'
<1>1. /\ held[x].type \in Handles /\ held[x].real \in Handles
      /\ Fits(held[x].real, held[x].type)
  BY DEF Honest, TypeOK, HandlesHonest, Fits
<1>2. One(held[x].type.of) \in Handles /\ One(held[x].real.of) \in Handles
  BY <1>1, HandlesParts
<1>3. Fits(One(held[x].real.of), One(held[x].type.of))
  BY <1>1, ElementsAreHonest
<1> QED
  BY <1>2, <1>3, SetHonest DEF Element

LEMMA GiveHonest ==
  ASSUME RowsAreSound, Honest, NEW c \in Calls, NEW y \in Vars, Returns(c), Give(c, y)
  PROVE  Honest'
<1>1. CASE c.asked.result = Nothing
  BY <1>1 DEF Give, Honest, TypeOK, HandlesHonest
<1>2. CASE c.asked.result # Nothing
  <2>1. /\ c.asked.result \in Handles /\ c.by.makes \in Handles
        /\ Fits(c.by.makes, c.asked.result)
    BY <1>2 DEF RowsAreSound, Fits, Absent, LeftOut, IsNil, Nil, One
  <2>2. held' = [held EXCEPT ![y] = [type |-> c.asked.result, real |-> c.by.makes]]
    BY <1>2 DEF Give
  <2> QED
    BY <2>1, <2>2, SetHonest
<1> QED
  BY <1>1, <1>2

LEMMA NextHonest == ASSUME RowsAreSound PROVE Honest /\ [Next]_held => Honest'
<1> SUFFICES ASSUME Honest, [Next]_held PROVE Honest'
  OBVIOUS
<1>1. CASE \E x \in Vars : Literal(x)
  BY <1>1, LiteralHonest
<1>2. CASE \E x, y \in Vars : Collect(x, y) \/ Element(x, y)
  BY <1>2, CollectHonest, ElementHonest
<1>3. CASE \E c \in Calls, y \in Vars : CallAlone(c, y)
  BY <1>3, GiveHonest DEF CallAlone
<1>4. CASE \E c \in Calls, x, y \in Vars : \E k \in Operands(c) : Call(c, k, x, y)
  BY <1>4, GiveHonest DEF Call
<1>5. CASE UNCHANGED held
  BY <1>5 DEF Honest, TypeOK, HandlesHonest
<1> QED
  BY <1>1, <1>2, <1>3, <1>4, <1>5 DEF Next

\* What is honest is not misread by a wrapper whose row is sound.
LEMMA HonestIsNotMisread == ASSUME RowsAreSound PROVE Honest => NothingMisread
<1> SUFFICES ASSUME Honest, NEW x \in Vars, NEW c \in Calls, NEW k \in Operands(c),
                    Passes(x, c, k), Reads(c, k)
             PROVE  \/ ReadFrom(c, k, held[x].real) = Throws
                    \/ Is(held[x].real, ReadFrom(c, k, held[x].real))
  BY DEF NothingMisread
<1>1. held[x].type \in Accepted(c, k)
  BY DEF Passes
<1>2. held[x].real \in Handles
  BY DEF Honest, TypeOK
<1>3. CASE Is(held[x].real, held[x].type)
  BY <1>1, <1>2, <1>3 DEF RowsAreSound
<1>4. CASE Absent(held[x].real, held[x].type)
  \* Nil is no plain value, and no read of an object takes it.
  <2>1. held[x].real.of = NilClass /\ held[x].real.box # "plain"
    BY <1>2, <1>4 DEF Absent, IsNil, Handles, One, Array, Axes, Plain, NilClass
  <2> QED
    BY <2>1 DEF ReadFrom, ReadAs, IsNil
<1> QED
  BY <1>3, <1>4 DEF Honest, HandlesHonest

-----------------------------------------------------------------------------
\* Sound rows keep every script type-correct.
THEOREM BindingsTyped == ASSUME RowsAreSound PROVE Spec => []TypeOK
<1>1. Honest => TypeOK
  BY DEF Honest
<1> QED
  BY InitHonest, NextHonest, <1>1, PTL DEF Spec

\* Sound rows keep the object in every variable one of its declared type, or the
\* Nil that some routine leaves in place of it.
THEOREM BindingsHonest == ASSUME RowsAreSound PROVE Spec => []HandlesHonest
<1>1. Honest => HandlesHonest
  BY DEF Honest
<1> QED
  BY InitHonest, NextHonest, <1>1, PTL DEF Spec

\* Sound rows keep every wrapper from reading an object as what it is not.
THEOREM BindingsNotMisread == ASSUME RowsAreSound PROVE Spec => []NothingMisread
BY InitHonest, NextHonest, HonestIsNotMisread, PTL DEF Spec

-----------------------------------------------------------------------------
(* The calls that are let through are answered.                            *)

\* An array in a variable declared as axes holds elements of a class that some
\* routine returns that way.
Boxed(u, t) == u.box = t.box \/ u.of \in Unboxed \cup {NilClass}
BoxesKnown == \A x \in Vars : Boxed(held[x].real, held[x].type)

\* The element of an object that is honest is boxed as its type says.
LEMMA ElementBoxes ==
  ASSUME NEW t \in Handles, NEW u \in Handles, Fits(t, u)
  PROVE  Boxed(One(t.of), One(u.of))
<1>1. CASE t.of = u.of
  BY <1>1 DEF Boxed
<1>2. CASE <<t.of, u.of>> \in Derives
  <2>1. t.of \notin Plain \cup {NilClass} /\ u.of \notin Plain \cup {NilClass}
    BY <1>2, DerivesAssumption
  <2> QED
    BY <2>1 DEF One, Boxed
<1>3. CASE t.of = NilClass
  BY <1>3 DEF Boxed, One
<1> QED
  BY <1>1, <1>2, <1>3 DEF Fits, Is, Absent, IsNil

\* One variable gets a handle whose boxes agree or are known.
LEMMA SetBoxes ==
  ASSUME Honest, BoxesKnown, NEW y \in Vars, NEW t, NEW r,
         Boxed(r, t),
         held' = [held EXCEPT ![y] = [type |-> t, real |-> r]]
  PROVE  BoxesKnown'
<1> SUFFICES ASSUME NEW x \in Vars
             PROVE  Boxed(held'[x].real, held'[x].type)
  BY DEF BoxesKnown
<1>1. CASE x = y
  BY <1>1 DEF Honest, TypeOK
<1>2. CASE x # y
  BY <1>2 DEF Honest, TypeOK, BoxesKnown
<1> QED
  BY <1>1, <1>2

LEMMA GiveBoxes ==
  ASSUME RowsAreSound, Honest, BoxesKnown, NEW c \in Calls, NEW y \in Vars,
         Returns(c), Give(c, y)
  PROVE  BoxesKnown'
<1>1. CASE c.asked.result = Nothing
  BY <1>1 DEF Give, BoxesKnown
<1>2. CASE c.asked.result # Nothing
  <2>1. Is(c.by.makes, c.asked.result) \/ c.by.makes = Nil
    BY <1>2 DEF RowsAreSound
  <2>2. Boxed(c.by.makes, c.asked.result)
    BY <2>1 DEF Is, Unboxed, Boxed, Nil, One
  <2>3. held' = [held EXCEPT ![y] = [type |-> c.asked.result, real |-> c.by.makes]]
    BY <1>2 DEF Give
  <2> QED
    BY <2>2, <2>3, SetBoxes
<1> QED
  BY <1>1, <1>2

LEMMA NextBoxes ==
  ASSUME RowsAreSound, Honest, BoxesKnown, [Next]_held
  PROVE  BoxesKnown'
<1>1. ASSUME NEW x \in Vars, Literal(x) PROVE BoxesKnown'
  <2>1. PICK c \in Scripted :
          held' = [held EXCEPT ![x] = [type |-> One(c), real |-> One(c)]]
    BY <1>1 DEF Literal, Sound
  <2> QED
    BY <2>1, SetBoxes DEF Boxed
<1>2. ASSUME NEW x \in Vars, NEW y \in Vars, Collect(x, y) PROVE BoxesKnown'
  <2> DEFINE t(box) == [box |-> box, of |-> held[x].type.of]
             r(box) == [box |-> box, of |-> held[x].real.of]
  <2>1. PICK box \in {"Array", "Axes"} :
          held' = [held EXCEPT ![y] = [type |-> t(box), real |-> r(box)]]
    BY <1>2 DEF Collect
  <2>2. Boxed(r(box), t(box))
    BY DEF Boxed
  <2> HIDE DEF t, r
  <2> QED
    BY <2>1, <2>2, SetBoxes
<1>3. ASSUME NEW x \in Vars, NEW y \in Vars, Element(x, y) PROVE BoxesKnown'
  <2>1. /\ held[x].type \in Handles /\ held[x].real \in Handles
        /\ Fits(held[x].real, held[x].type)
    BY DEF Honest, TypeOK, HandlesHonest, Fits
  <2>2. Boxed(One(held[x].real.of), One(held[x].type.of))
    BY <2>1, ElementBoxes
  <2> QED
    BY <1>3, <2>2, SetBoxes DEF Element
<1>4. ASSUME NEW c \in Calls, NEW y \in Vars, Returns(c), Give(c, y) PROVE BoxesKnown'
  BY <1>4, GiveBoxes
<1>5. CASE UNCHANGED held
  BY <1>5 DEF BoxesKnown
<1> QED
  BY <1>1, <1>2, <1>3, <1>4, <1>5 DEF Next, Call, CallAlone

LEMMA KnownIsServed ==
  ASSUME RowsServe, Honest, BoxesKnown
  PROVE  Served
<1>1. SUFFICES ASSUME NEW x \in Vars, NEW c \in Calls, NEW k \in Operands(c),
                      Passes(x, c, k), ~IsNil(held[x].real)
               PROVE  Reads(c, k) /\ ReadFrom(c, k, held[x].real) # Throws
  BY DEF Served
<1>2. held[x].type \in Accepted(c, k) /\ held[x].real \in Handles
  BY <1>1 DEF Passes, Honest, TypeOK
<1>3. Is(held[x].real, held[x].type)
  BY <1>1 DEF Honest, HandlesHonest, Absent
<1>4. Arrives(held[x].real, held[x].type)
  BY <1>1, <1>3 DEF BoxesKnown, Boxed, Arrives, IsNil
<1> QED
  BY <1>2, <1>4 DEF RowsServe

\* What a row promises of an object that reaches it by one declared type holds
\* for what reaches it through a chain of any length, with arrays that pass for
\* axes, subclasses and elements in between: no wrapper refuses, or fails to
\* read, an operand that the engine let through and that is not Nil.
THEOREM BindingsServed == ASSUME RowsAreSound, RowsServe PROVE Spec => []Served
<1>1. Init => BoxesKnown
  <2>1. SUFFICES ASSUME Init, NEW x \in Vars
                 PROVE  Boxed(held[x].real, held[x].type)
    BY DEF BoxesKnown
  <2>2. PICK c \in Scripted : held[x] = Sound(One(c))
    BY <2>1 DEF Init
  <2> QED
    BY <2>2 DEF Sound, Boxed
<1>2. Honest /\ BoxesKnown /\ [Next]_held => BoxesKnown'
  BY NextBoxes
<1>3. Honest /\ BoxesKnown => Served
  BY KnownIsServed
<1> QED
  BY InitHonest, NextHonest, <1>1, <1>2, <1>3, PTL DEF Spec
=============================================================================
