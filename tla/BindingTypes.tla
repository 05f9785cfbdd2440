---------------------------- MODULE BindingTypes ----------------------------
(***************************************************************************)
(* The types of the values that cross between a falcon script and the C++  *)
(* wrappers of falconCore, and the ways a wrapper reads a parameter.       *)
(*                                                                         *)
(* A type is a class and the box it comes in: "plain" for a number, a      *)
(* string, a bool or an Error; "object" for a struct with a native handle  *)
(* (or, for a map, the struct of collections); "Array" and "Axes" for the  *)
(* two collections of such values.  Nil is packed by a routine that has no *)
(* object to give, whatever its result is declared as.                     *)
(***************************************************************************)

Plain == {"int", "float", "bool", "string", "Error"}
NilClass == "nil"

One(c) == [box |-> CASE c \in Plain -> "plain" [] c = NilClass -> "nil" [] OTHER -> "object",
           of |-> c]
Array(c) == [box |-> "Array", of |-> c]
Axes(c) == [box |-> "Axes", of |-> c]

Nil == One(NilClass)
IsNil(t) == t.of = NilClass

\* What a routine gives that gives no object, and one that always throws.
Nothing == [box |-> "nothing", of |-> ""]
Throws == [box |-> "throws", of |-> ""]

NoParams == [k \in {} |-> k]

-----------------------------------------------------------------------------
(* What a .fal file says of a parameter: the types it may have.            *)

AnyOf(cs) == {One(c) : c \in cs}
The(c) == {One(c)}
Arrays(c) == {Array(c)}
AxesOf(c) == {Axes(c)}

-----------------------------------------------------------------------------
(* How a wrapper reads a parameter: the plain classes and the boxes it     *)
(* takes, and the class it then casts the content to, without a check.     *)
(* Some look at the struct's type name first: "named" gives the cast of    *)
(* those names, "as" the cast of every other.                              *)

NoNames == [c \in {} |-> c]
As(cs, c) == [x \in cs |-> c]
AsNamed(cs) == [x \in cs |-> x]

Value(cs) == [plain |-> cs, boxes |-> {}, named |-> NoNames, as |-> ""]
Reading(boxes, c) == [plain |-> {}, boxes |-> boxes, named |-> NoNames, as |-> c]

Handle(c) == Reading({"object"}, c)
MapRead(c) == Reading({"object"}, c)
ArrayRead(c) == Reading({"Array"}, c)
AxesRead(c) == Reading({"Axes"}, c)
ListRead(c) == Reading({"Array", "Axes"}, c)
NumberOr(named, c) == [plain |-> {"float", "int"}, boxes |-> {"object"},
                       named |-> named, as |-> c]

\* What the wrapper takes an operand of type t for, or that it refuses it.  Nil
\* is not the struct that every read of an object asks for first.
CastOf(read, c) == IF c \in DOMAIN read.named THEN read.named[c] ELSE read.as
ReadAs(read, t) ==
  CASE t.box = "plain" /\ t.of \in read.plain -> t
    [] t.box \in read.boxes /\ ~IsNil(t) -> [box |-> t.box, of |-> CastOf(read, t.of)]
    [] OTHER -> Throws
=============================================================================
