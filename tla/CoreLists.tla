------------------------------ MODULE CoreLists ------------------------------
(***************************************************************************)
(* The lists of falconCore, as a script sees them through the wrappers:    *)
(* Ports, Connections, Channels, PortTransforms, Waveform (a list of       *)
(* transforms), DeviceVoltageStates and CoupledLabelledDomain.             *)
(*                                                                         *)
(* Everything is an object behind a shared pointer.  A wrapper that takes  *)
(* or returns an element either hands on the pointer or makes a copy, and  *)
(* SetIndex of the transforms writes into the object that is there.  So    *)
(* the model keeps which object is where; an element's content is one      *)
(* abstract value.  Messages and groups keep a list by its pointer too.    *)
(*                                                                         *)
(* A call that the code refuses with an exception changes nothing and is   *)
(* no step.  An index beyond the list, which GetIndex, SetIndex and Insert *)
(* of some classes do not check, is undefined and no step either.          *)
(***************************************************************************)
EXTENDS Integers, Sequences, SequencesExt

CONSTANTS
  Classes,   \* the list classes; a behaviour is about one of them
  Vars,      \* the script's variables for elements
  Names,     \* the script's variables for lists
  Messages,  \* messages, or groups, that keep a list
  Objs,      \* the element objects
  Lists,     \* the list objects
  Values,    \* the contents of an element
  MaxLen     \* bound: the length of a list

ASSUME ClassesAssumption ==
  Classes \subseteq {"Ports", "Connections", "Channels", "PortTransforms",
                     "Waveform", "DeviceVoltageStates", "CoupledLabelledDomain"}
ASSUME NamesAssumption == Names \cap Messages = {}
ASSUME ValuesAssumption == Values # {}
ASSUME MaxLenAssumption == MaxLen \in Nat

VARIABLES
  class,    \* the class of the lists
  elem,     \* the object in each element variable
  content,  \* the content of each object
  list,     \* the list object in each list variable and message
  items,    \* the objects in each list object
  lent      \* history: the list variables whose list, or whose elements, the
            \* script has put elsewhere too

vars == <<class, elem, content, list, items, lent>>

Holders == Names \cup Messages
Of(h) == items[list[h]]
Blank == CHOOSE v \in Values : TRUE

Reached(el, ls, it) ==
  {el[x] : x \in Vars} \cup UNION {Range(it[ls[h]]) : h \in Holders}

FreshObjs == Objs \ Reached(elem, list, items)
\* A list object for h: a new one, or its own if only h has it, which is freed.
FreshLists(h) == Lists \ {list[g] : g \in Holders \ {h}}
Copies(n) == {f \in [1 .. n -> FreshObjs] : \A i, j \in 1 .. n : f[i] = f[j] => i = j}

\* The new state.  What nothing refers to is freed.
Settle(el, ct, ls, it) ==
  /\ elem' = el /\ list' = ls
  /\ items' = [c \in Lists |-> IF \E h \in Holders : ls[h] = c THEN it[c] ELSE <<>>]
  /\ content' = [o \in Objs |-> IF o \in Reached(el, ls, it) THEN ct[o] ELSE Blank]
  /\ \A c \in Lists : Len(items'[c]) <= MaxLen
  /\ UNCHANGED class

Init ==
  /\ class \in Classes
  /\ elem \in {f \in [Vars -> Objs] : \A x, y \in Vars : f[x] = f[y] => x = y}
  /\ content \in {f \in [Objs -> Values] :
                    \A o \in Objs \ Range(elem) : f[o] = Blank}
  /\ list \in {f \in [Holders -> Lists] : \A g, h \in Holders : f[g] = f[h] => g = h}
  /\ items = [c \in Lists |-> <<>>]
  /\ lent = {}

-----------------------------------------------------------------------------
(* What the wrappers are made of.                                          *)

\* List variable n gets new contents, with objects of copies made.
Refill(n, objs, ct) ==
  /\ Settle(elem, ct, list, [items EXCEPT ![list[n]] = objs])
  /\ UNCHANGED lent

\* The object of variable x is put at position i.
InsertRef(n, i, x) == Refill(n, InsertAt(Of(n), i, elem[x]), content)

\* A copy of it is.
InsertCopy(n, i, x) ==
  \E o \in FreshObjs :
    Refill(n, InsertAt(Of(n), i, o), [content EXCEPT ![o] = content[elem[x]]])

ReplaceRef(n, i, x) == Refill(n, ReplaceAt(Of(n), i, elem[x]), content)
Overwrite(n, i, x) ==
  Refill(n, Of(n), [content EXCEPT ![Of(n)[i]] = content[elem[x]]])
RemoveFrom(n, i) == Refill(n, RemoveAt(Of(n), i), content)
RemoveAll(n) == Refill(n, <<>>, content)

\* Variable x gets object o, or a copy of it.
Hold(x, o) ==
  Settle([elem EXCEPT ![x] = o], content, list, items) /\ UNCHANGED lent
HoldCopy(x, o) ==
  \E c \in FreshObjs :
    /\ Settle([elem EXCEPT ![x] = c], [content EXCEPT ![c] = content[o]], list, items)
    /\ UNCHANGED lent

\* The last object moves to variable x.
Take(n, x) ==
  /\ Of(n) # <<>>
  /\ Settle([elem EXCEPT ![x] = Last(Of(n))], content, list,
            [items EXCEPT ![list[n]] = Front(Of(n))])
  /\ UNCHANGED lent

\* List variable or message h gets a new list of these objects.
Build(h, objs, ct) ==
  \E c \in FreshLists(h) :
    Settle(elem, ct, [list EXCEPT ![h] = c], [items EXCEPT ![c] = objs])

\* New takes an Array: of element variables, whose objects it shares.
Arrays == UNION {[1 .. n -> Vars] : n \in 0 .. 2}
New(n, xs) == Build(n, [i \in DOMAIN xs |-> elem[xs[i]]], content)

\* FromJSON of what ToJSON of h returned: a deep copy.
FromJSON(n, h) ==
  /\ \E copy \in Copies(Len(Of(h))) :
       Build(n, copy, [o \in Objs |->
                         IF \E i \in DOMAIN copy : copy[i] = o
                         THEN content[Of(h)[CHOOSE i \in DOMAIN copy : copy[i] = o]]
                         ELSE content[o]])
  /\ lent' = lent \ {n}

\* The script may change the list it names: no message has that list.
Own(n) == n \notin lent
-----------------------------------------------------------------------------
(* Ports: instrument ports are immutable, and shared throughout.           *)

PortsNew(n, xs) == New(n, xs) /\ lent' = lent \ {n}
PortsFromJSON(n, h) == FromJSON(n, h)
PortsPushBack(n, x) == Own(n) /\ InsertRef(n, Len(Of(n)) + 1, x)
PortsInsert(n, i, x) == Own(n) /\ InsertRef(n, i, x)
PortsErase(n, i) == Own(n) /\ RemoveFrom(n, i)
PortsClear(n) == Own(n) /\ RemoveAll(n)
\* MUTANT of PortsGetIndex: the position is returned.
PortsGetIndex_Position(n, i, x) == Hold(x, i)
PortsGetIndex(n, i, x) == Hold(x, Of(n)[i])
\* The first port the query, here a value, matches.
PortsFindQueryMatch(n, v, x) ==
  \E i \in DOMAIN Of(n) :
    /\ content[Of(n)[i]] = v /\ \A j \in 1 .. i - 1 : content[Of(n)[j]] # v
    /\ Hold(x, Of(n)[i])

\* MUTANT of KeepList: the getters of a request are changed after all.
KeepList_Unmarked(m, n) ==
  Settle(elem, content, [list EXCEPT ![m] = list[n]], items) /\ UNCHANGED lent

\* A message keeps the list it is given; so does the variable that reads it.
KeepList(m, n) ==
  /\ Settle(elem, content, [list EXCEPT ![m] = list[n]], items)
  /\ lent' = lent \cup {n}
ReadList(m, n) ==
  /\ Settle(elem, content, [list EXCEPT ![n] = list[m]], items)
  /\ lent' = lent \cup {n}
ReceiveList(m, h) == FromJSON(m, h)

SettingRequestNew(m, n) == KeepList(m, n)
SettingRequestGetters(m, n) == ReadList(m, n)
SettingRequestFromJSON(m, h) == ReceiveList(m, h)

PortsStep(n) ==
  /\ class = "Ports"
  /\ \/ \E xs \in Arrays : PortsNew(n, xs)
     \/ \E h \in Holders : PortsFromJSON(n, h)
     \/ \E x \in Vars :
          \/ PortsPushBack(n, x)
          \/ \E i \in 1 .. Len(Of(n)) + 1 : PortsInsert(n, i, x)
          \/ \E i \in 1 .. Len(Of(n)) : PortsGetIndex(n, i, x)
          \/ \E v \in Values : PortsFindQueryMatch(n, v, x)
     \/ \E i \in 1 .. Len(Of(n)) : PortsErase(n, i)
     \/ PortsClear(n)
     \/ \E m \in Messages :
          \/ SettingRequestNew(m, n) \/ SettingRequestGetters(m, n)
          \/ \E h \in Holders : SettingRequestFromJSON(m, h)

-----------------------------------------------------------------------------
(* Connections: the same; a Group of the Config hands out its own lists,   *)
(* Order a new one.                                                        *)

ConnectionsNew(n, xs) == New(n, xs) /\ lent' = lent \ {n}
ConnectionsFromJSON(n, h) == FromJSON(n, h)
ConnectionsPushBack(n, x) == Own(n) /\ InsertRef(n, Len(Of(n)) + 1, x)
ConnectionsInsert(n, i, x) == Own(n) /\ InsertRef(n, i, x)
ConnectionsErase(n, i) == Own(n) /\ RemoveFrom(n, i)
ConnectionsClear(n) == Own(n) /\ RemoveAll(n)
ConnectionsGetIndex(n, i, x) == Hold(x, Of(n)[i])
\* The connections of g that are equal to one of h, in the order of g.
InOrder(I, n) ==
  {f \in UNION {[1 .. k -> I] : k \in 0 .. n} :
     Range(f) = I /\ \A i, j \in DOMAIN f : i < j => f[i] < f[j]}
ConnectionsIntersection(n, g, h) ==
  /\ \E f \in InOrder({i \in DOMAIN Of(g) :
                          content[Of(g)[i]] \in {content[p] : p \in Range(Of(h))}},
                       Len(Of(g))) :
       Build(n, [i \in DOMAIN f |-> Of(g)[f[i]]], content)
  /\ lent' = lent \ {n}
GroupGates(m, n) == ReadList(m, n)
GroupOrder(m, n) == Build(n, Of(m), content) /\ lent' = lent \ {n}
GroupFromJSON(m, h) == ReceiveList(m, h)

ConnectionsStep(n) ==
  /\ class = "Connections"
  /\ \/ \E xs \in Arrays : ConnectionsNew(n, xs)
     \/ \E h \in Holders : ConnectionsFromJSON(n, h)
     \/ \E g, h \in Holders : ConnectionsIntersection(n, g, h)
     \/ \E x \in Vars :
          \/ ConnectionsPushBack(n, x)
          \/ \E i \in 1 .. Len(Of(n)) + 1 : ConnectionsInsert(n, i, x)
          \/ \E i \in 1 .. Len(Of(n)) : ConnectionsGetIndex(n, i, x)
     \/ \E i \in 1 .. Len(Of(n)) : ConnectionsErase(n, i)
     \/ ConnectionsClear(n)
     \/ \E m \in Messages :
          \/ GroupGates(m, n) \/ GroupOrder(m, n)
          \/ \E h \in Holders : GroupFromJSON(m, h)

-----------------------------------------------------------------------------
(* Channels: SetIndex puts another object in the place of the one there.   *)

ChannelsNew(n, xs) == New(n, xs) /\ lent' = lent \ {n}
ChannelsFromJSON(n, h) == FromJSON(n, h)
ChannelsGetIndex(n, i, x) == Hold(x, Of(n)[i])
ChannelsSetIndex(n, i, x) == ReplaceRef(n, i, x)
ChannelsPushBack(n, x) == InsertRef(n, Len(Of(n)) + 1, x)
ChannelsPopBack(n, x) == Take(n, x)
ChannelsInsert(n, i, x) == InsertRef(n, i, x)
ChannelsErase(n, i) == RemoveFrom(n, i)
ChannelsClear(n) == RemoveAll(n)

ChannelsStep(n) ==
  /\ class = "Channels"
  /\ \/ \E xs \in Arrays : ChannelsNew(n, xs)
     \/ \E h \in Names : ChannelsFromJSON(n, h)
     \/ \E x \in Vars :
          \/ ChannelsPushBack(n, x) \/ ChannelsPopBack(n, x)
          \/ \E i \in 1 .. Len(Of(n)) + 1 : ChannelsInsert(n, i, x)
          \/ \E i \in 1 .. Len(Of(n)) :
               ChannelsGetIndex(n, i, x) \/ ChannelsSetIndex(n, i, x)
     \/ \E i \in 1 .. Len(Of(n)) : ChannelsErase(n, i)
     \/ ChannelsClear(n)

-----------------------------------------------------------------------------
(* PortTransforms and Waveform: PushBack, Insert and GetIndex copy, New    *)
(* and PopBack do not, and SetIndex writes into the transform in place.  A *)
(* script must not use it on a list whose transforms it gave to New and    *)
(* keeps: they would change, there and in other lists built from them.     *)

TransformsLent(n, xs) ==
  lent' = IF xs = <<>> THEN lent \ {n} ELSE lent \cup {n}

PortTransformsNew(n, xs) == New(n, xs) /\ TransformsLent(n, xs)
PortTransformsFromJSON(n, h) == FromJSON(n, h)
\* MUTANT of PortTransformsGetIndex: the transform is returned, not a copy.
PortTransformsGetIndex_Shared(n, i, x) == Hold(x, Of(n)[i])
PortTransformsGetIndex(n, i, x) == HoldCopy(x, Of(n)[i])
PortTransformsSetIndex(n, i, x) == Own(n) /\ Overwrite(n, i, x)
\* MUTANT of PortTransformsPushBack: the script's transform is kept.
PortTransformsPushBack_Shared(n, x) == InsertRef(n, Len(Of(n)) + 1, x)
PortTransformsPushBack(n, x) == InsertCopy(n, Len(Of(n)) + 1, x)
PortTransformsInsert(n, i, x) == InsertCopy(n, i, x)
PortTransformsErase(n, i) == RemoveFrom(n, i)
PortTransformsClear(n) == RemoveAll(n)

PortTransformsStep(n) ==
  /\ class = "PortTransforms"
  /\ \/ \E xs \in Arrays : PortTransformsNew(n, xs)
     \/ \E h \in Names : PortTransformsFromJSON(n, h)
     \/ \E x \in Vars :
          \/ PortTransformsPushBack(n, x)
          \/ \E i \in 1 .. Len(Of(n)) + 1 : PortTransformsInsert(n, i, x)
          \/ \E i \in 1 .. Len(Of(n)) :
               PortTransformsGetIndex(n, i, x) \/ PortTransformsSetIndex(n, i, x)
     \/ \E i \in 1 .. Len(Of(n)) : PortTransformsErase(n, i)
     \/ PortTransformsClear(n)

WaveformNew(n, xs) == New(n, xs) /\ TransformsLent(n, xs)
WaveformNewCartesian(n, xs) == New(n, xs) /\ TransformsLent(n, xs)
WaveformNewCartesian1D(n, xs) == New(n, xs) /\ TransformsLent(n, xs)
\* The library makes the identity transforms, one for a single axis.
WaveformNewIdentity(n, v) ==
  /\ \E o \in FreshObjs : Build(n, <<o>>, [content EXCEPT ![o] = v])
  /\ lent' = lent \ {n}
WaveformFromJSON(n, h) == FromJSON(n, h)
WaveformGetIndex(n, i, x) == HoldCopy(x, Of(n)[i])
WaveformSetIndex(n, i, x) == Own(n) /\ Overwrite(n, i, x)
WaveformPushBack(n, x) == InsertCopy(n, Len(Of(n)) + 1, x)
WaveformPopBack(n, x) == Take(n, x)
WaveformInsert(n, i, x) == InsertCopy(n, i, x)
WaveformErase(n, i) == RemoveFrom(n, i)
WaveformClear(n) == RemoveAll(n)

WaveformStep(n) ==
  /\ class = "Waveform"
  /\ \/ \E xs \in Arrays :
          WaveformNew(n, xs) \/ WaveformNewCartesian(n, xs) \/ WaveformNewCartesian1D(n, xs)
     \/ \E v \in Values : WaveformNewIdentity(n, v)
     \/ \E h \in Names : WaveformFromJSON(n, h)
     \/ \E x \in Vars :
          \/ WaveformPushBack(n, x) \/ WaveformPopBack(n, x)
          \/ \E i \in 1 .. Len(Of(n)) + 1 : WaveformInsert(n, i, x)
          \/ \E i \in 1 .. Len(Of(n)) :
               WaveformGetIndex(n, i, x) \/ WaveformSetIndex(n, i, x)
     \/ \E i \in 1 .. Len(Of(n)) : WaveformErase(n, i)
     \/ WaveformClear(n)

-----------------------------------------------------------------------------
(* DeviceVoltageStates, which a VoltageStatesResponse keeps.               *)

DeviceVoltageStatesNew(n, xs) == New(n, xs) /\ lent' = lent \ {n}
DeviceVoltageStatesFromJSON(n, h) == FromJSON(n, h)
DeviceVoltageStatesAddState(n, x) == Own(n) /\ InsertRef(n, Len(Of(n)) + 1, x)
DeviceVoltageStatesInsert(n, i, x) == Own(n) /\ InsertRef(n, i, x)
DeviceVoltageStatesClear(n) == Own(n) /\ RemoveAll(n)
\* The state of a connection, here a state with that content.
DeviceVoltageStatesFindState(n, v, x) ==
  \E i \in DOMAIN Of(n) : content[Of(n)[i]] = v /\ HoldCopy(x, Of(n)[i])
VoltageStatesResponseNew(m, n) == KeepList(m, n)
VoltageStatesResponseStates(m, n) == ReadList(m, n)
VoltageStatesResponseFromJSON(m, h) == ReceiveList(m, h)

DeviceVoltageStatesStep(n) ==
  /\ class = "DeviceVoltageStates"
  /\ \/ \E xs \in Arrays : DeviceVoltageStatesNew(n, xs)
     \/ \E h \in Holders : DeviceVoltageStatesFromJSON(n, h)
     \/ \E x \in Vars :
          \/ DeviceVoltageStatesAddState(n, x)
          \/ \E i \in 1 .. Len(Of(n)) + 1 : DeviceVoltageStatesInsert(n, i, x)
          \/ \E v \in Values : DeviceVoltageStatesFindState(n, v, x)
     \/ DeviceVoltageStatesClear(n)
     \/ \E m \in Messages :
          \/ VoltageStatesResponseNew(m, n) \/ VoltageStatesResponseStates(m, n)
          \/ \E h \in Holders : VoltageStatesResponseFromJSON(m, h)

-----------------------------------------------------------------------------
(* CoupledLabelledDomain: a list of immutable LabelledDomains.             *)

CoupledLabelledDomainNew(n, xs) == New(n, xs) /\ lent' = lent \ {n}
CoupledLabelledDomainFromJSON(n, h) == FromJSON(n, h)
CoupledLabelledDomainGetIndex(n, i, x) == Hold(x, Of(n)[i])
CoupledLabelledDomainGetDomain(n, v, x) ==
  \E i \in DOMAIN Of(n) : content[Of(n)[i]] = v /\ Hold(x, Of(n)[i])
CoupledLabelledDomainPushBack(n, x) == InsertRef(n, Len(Of(n)) + 1, x)
CoupledLabelledDomainInsert(n, i, x) == InsertRef(n, i, x)
CoupledLabelledDomainErase(n, i) == RemoveFrom(n, i)
CoupledLabelledDomainClear(n) == RemoveAll(n)

CoupledLabelledDomainStep(n) ==
  /\ class = "CoupledLabelledDomain"
  /\ \/ \E xs \in Arrays : CoupledLabelledDomainNew(n, xs)
     \/ \E h \in Names : CoupledLabelledDomainFromJSON(n, h)
     \/ \E x \in Vars :
          \/ CoupledLabelledDomainPushBack(n, x)
          \/ \E v \in Values : CoupledLabelledDomainGetDomain(n, v, x)
          \/ \E i \in 1 .. Len(Of(n)) + 1 : CoupledLabelledDomainInsert(n, i, x)
          \/ \E i \in 1 .. Len(Of(n)) : CoupledLabelledDomainGetIndex(n, i, x)
     \/ \E i \in 1 .. Len(Of(n)) : CoupledLabelledDomainErase(n, i)
     \/ CoupledLabelledDomainClear(n)

-----------------------------------------------------------------------------
\* The script makes an element.
NewElement(x, v) ==
  \E o \in FreshObjs :
    /\ Settle([elem EXCEPT ![x] = o], [content EXCEPT ![o] = v], list, items)
    /\ UNCHANGED lent

Next ==
  \/ \E x \in Vars, v \in Values : NewElement(x, v)
  \/ \E n \in Names :
       \/ PortsStep(n) \/ ConnectionsStep(n) \/ ChannelsStep(n)
       \/ PortTransformsStep(n) \/ WaveformStep(n)
       \/ DeviceVoltageStatesStep(n) \/ CoupledLabelledDomainStep(n)

Spec == Init /\ [][Next]_vars

-----------------------------------------------------------------------------
(* Properties.                                                             *)

\* The type invariant: no list grows beyond the bound, every element is an
\* object, and only variables of the script lend.
TypeOK ==
  /\ class \in Classes
  /\ elem \in [Vars -> Objs]
  /\ content \in [Objs -> Values]
  /\ list \in [Holders -> Lists]
  /\ items \in [Lists -> UNION {[1 .. k -> Objs] : k \in 0 .. MaxLen}]
  /\ lent \subseteq Names

\* A transform that SetIndex may write into is in one place only: in no
\* variable, in no other list, and once in its own.  The classes copy for that
\* (port-transforms-wrapper.cpp:124, 148, 162).
WrittenInOnePlace ==
  class \in {"PortTransforms", "Waveform"} =>
    \A n \in Names \ lent : \A i \in DOMAIN Of(n) :
      /\ Of(n)[i] \notin Range(elem)
      /\ \A h \in Holders : \A j \in DOMAIN Of(h) :
           Of(h)[j] = Of(n)[i] => h = n /\ j = i

Abstract == INSTANCE ValueLists WITH
  var <- [x \in Vars |-> content[elem[x]]],
  value <- [h \in Holders |-> [i \in DOMAIN Of(h) |-> content[Of(h)[i]]]]

\* To a script that keeps to the rules above, lists are values: a call changes
\* the list it names, and neither another list, nor a message built before, nor
\* an element in a variable.
ListsAreValues == Abstract!Spec
=============================================================================
