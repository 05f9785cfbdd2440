------------------------------ MODULE Bindings ------------------------------
(***************************************************************************)
(* A script that calls the routines of the library.                        *)
(*                                                                         *)
(* The engine lets a call through when each operand has a type the .fal    *)
(* file declares; the wrapper then reads the operand its own way, which is *)
(* a cast that nothing checks, and packs its result under the type it      *)
(* chooses.  So each value has two types: the one it was declared with,    *)
(* which is all that the script and the engine know, and the one of the    *)
(* object that was really packed.                                          *)
(*                                                                         *)
(* A call with several operands reads each on its own, and so one operand  *)
(* of a call is followed at a time; the others are sound ones.             *)
(***************************************************************************)
EXTENDS BindingTypes

CONSTANTS
  Declared,  \* the routines of the .fal files
  Wrapped,   \* the wrappers
  Derives,   \* <<c, b>>: the C++ class c is derived from b
  Scripted,  \* the classes whose values a script writes itself
  Avoided,   \* <<class, routine>>: the routines this script does not call
  Vars       \* the script's variables

ASSUME DerivesAssumption ==
  \A c \in Derives : {c[1], c[2]} \cap (Plain \cup {NilClass}) = {}

VARIABLE held   \* what each variable holds: the type it was declared with
                \* and the type of the object in it

Classes == Plain \cup {NilClass} \cup Scripted \cup {d.class : d \in Declared}
           \cup {d.result.of : d \in Declared} \cup {c[1] : c \in Derives}
Handles == {One(c) : c \in Classes} \cup {Array(c) : c \in Classes}
           \cup {Axes(c) : c \in Classes}

\* What this script may call, and each call with the wrapper that serves it:
\* the one of the same class and routine, whichever overload is meant.
Called == {d \in Declared : <<d.class, d.routine>> \notin Avoided}
Names == {<<w.class, w.routine>> : w \in Wrapped}
Calls == {c \in [asked : Called, by : Wrapped] :
            c.asked.class = c.by.class /\ c.asked.routine = c.by.routine}

\* The operands of a call, and the types the engine lets through as operand k.
Operands(c) == DOMAIN c.asked.params \cup ({"this"} \cap DOMAIN c.by.reads)
Accepted(c, k) ==
  IF k \in DOMAIN c.asked.params THEN c.asked.params[k] ELSE {One(c.asked.class)}

Returns(c) == c.by.makes # Throws
Reads(c, k) == k \in DOMAIN c.by.reads
ReadFrom(c, k, t) == ReadAs(c.by.reads[k], t)

\* An object of type t is one of type u.  An array does for axes: scripts hold
\* in Axes what a routine gives as an Array.
Is(t, u) ==
  /\ t.box = u.box \/ (t.box = "Array" /\ u.box = "Axes")
  /\ t.of = u.of \/ <<t.of, u.of>> \in Derives

\* The classes of the results that some wrapper may leave out, and an object
\* that was: Nil, alone or in an array or axes, under one of these classes.
LeftOut == {c.asked.result.of : c \in {d \in Calls : d.by.makes = Nil}}
Absent(t, u) == IsNil(t) /\ u.of \in LeftOut

Sound(t) == [type |-> t, real |-> t]

-----------------------------------------------------------------------------
Init == held \in [Vars -> {Sound(One(c)) : c \in Scripted}]

\* The script writes a number, a string or a map.
Literal(x) == \E c \in Scripted : held' = [held EXCEPT ![x] = Sound(One(c))]

\* y becomes an array, or axes, of the value of x.
Collect(x, y) ==
  /\ held[x].type \in {One(c) : c \in Classes}
  /\ \E box \in {"Array", "Axes"} :
       held' = [held EXCEPT ![y] = [type |-> [box |-> box, of |-> held[x].type.of],
                                    real |-> [box |-> box, of |-> held[x].real.of]]]

\* Were every element given to the script as an object with a handle.
Element_Boxed(x, y) ==
  /\ held[x].type.box \in {"Array", "Axes"}
  /\ held' = [held EXCEPT ![y] = [type |-> One(held[x].type.of),
                                  real |-> [box |-> "object", of |-> held[x].real.of]]]

\* y becomes an element of the array or the axes x.
Element(x, y) ==
  /\ held[x].type.box \in {"Array", "Axes"}
  /\ held' = [held EXCEPT ![y] = [type |-> One(held[x].type.of),
                                  real |-> One(held[x].real.of)]]

\* x, as operand k of call c, is of a type the engine lets through.
Passes(x, c, k) == k \in Operands(c) /\ held[x].type \in Accepted(c, k)

\* What the wrapper packs is given to the script under the declared type.
Give(c, y) ==
  held' = IF c.asked.result = Nothing THEN held
          ELSE [held EXCEPT ![y] = [type |-> c.asked.result, real |-> c.by.makes]]

\* A call with x as operand k.  A wrapper that throws ends the script.
Call(c, k, x, y) ==
  /\ Returns(c)
  /\ Passes(x, c, k)
  /\ Reads(c, k) => ReadFrom(c, k, held[x].real) # Throws
  /\ Give(c, y)

\* A call that takes no operand.
CallAlone(c, y) == Returns(c) /\ Operands(c) = {} /\ Give(c, y)

Next ==
  \/ \E x \in Vars : Literal(x)
  \/ \E x, y \in Vars : Collect(x, y) \/ Element(x, y)
  \/ \E c \in Calls, y \in Vars : CallAlone(c, y)
  \/ \E c \in Calls, x, y \in Vars : \E k \in Operands(c) : Call(c, k, x, y)

Spec == Init /\ [][Next]_held

-----------------------------------------------------------------------------
\* Each row of the two tables agrees with the other, for every object that the
\* declared types allow: a wrapper packs an object of the type declared, or Nil,
\* and takes an operand for something that it is, or refuses it.
RowsAreSound ==
  /\ \A c \in Calls : Returns(c) /\ c.asked.result # Nothing =>
       /\ c.asked.result \in Handles /\ c.by.makes \in Handles
       /\ Is(c.by.makes, c.asked.result) \/ c.by.makes = Nil
  /\ \A c \in Calls : \A k \in Operands(c) : \A t \in Accepted(c, k), u \in Handles :
       Reads(c, k) /\ Is(u, t) =>
         ReadFrom(c, k, u) = Throws \/ Is(u, ReadFrom(c, k, u))

\* The classes a routine declares in Axes and its wrapper packs in an Array, and
\* the types an object declared as t may then really be of.
Unboxed == {c.by.makes.of : c \in {d \in Calls :
              d.asked.result.box = "Axes" /\ d.by.makes.box = "Array"}}
Arrives(u, t) == Is(u, t) /\ (u.box = t.box \/ u.of \in Unboxed)

\* Each row reads every operand declared, and refuses no object that a value of
\* a declared type can be.
RowsServe ==
  \A c \in Calls : \A k \in Operands(c) : \A t \in Accepted(c, k), u \in Handles :
    Arrives(u, t) => Reads(c, k) /\ ReadFrom(c, k, u) # Throws

\* Every variable holds a value, an array or axes of a class, by both types.
TypeOK == held \in [Vars -> [type : Handles, real : Handles]]

\* The object in a variable is one of the type the script knows it by, however
\* long a chain of calls, arrays and elements it came through; or it is Nil, and
\* of a class that the results of some routine are declared with and may lack.
HandlesHonest ==
  \A x \in Vars : Is(held[x].real, held[x].type) \/ Absent(held[x].real, held[x].type)

\* No wrapper takes an object for one of a class it is not of, which would be
\* undefined behaviour in the cast that get_opaque and the read helpers do.
NothingMisread ==
  \A x \in Vars, c \in Calls : \A k \in Operands(c) :
    Passes(x, c, k) /\ Reads(c, k) =>
      \/ ReadFrom(c, k, held[x].real) = Throws
      \/ Is(held[x].real, ReadFrom(c, k, held[x].real))

\* What the engine lets through the wrapper reads and does not refuse, however
\* the object came into the variable, unless it is the Nil of a result that was
\* left out: the script was told so by the result beside it (`found`), and a
\* script that looks there does not pass it on.
Served ==
  \A x \in Vars, c \in Calls : \A k \in Operands(c) :
    Passes(x, c, k) /\ ~IsNil(held[x].real) =>
      Reads(c, k) /\ ReadFrom(c, k, held[x].real) # Throws
=============================================================================
