---------------------------- MODULE Collections -----------------------------
(***************************************************************************)
(* The collections library (libs/collections): a Map built on two Arrays,  *)
(* a client's Array, and an Iterator that walks any of the three.          *)
(*                                                                         *)
(* A script runs one call at a time.  The hazards are in the sequences of  *)
(* calls: Keys() and Values() hand out the Map's own arrays, which must    *)
(* stay paired whatever is called on the Map or on them, and an Iterator   *)
(* keeps an index into an array that grows and shrinks under it.           *)
(*                                                                         *)
(* Indices count from 0, as in the code; TLA+ sequences start at 1.        *)
(***************************************************************************)
EXTENDS Integers, Sequences, FiniteSets

CONSTANTS
  Keys,         \* the keys in use
  Values,       \* the values in use
  Items,        \* what the client's array holds
  MaxItems,     \* bound on the length of the client's array
  MaxEntries    \* bound on the lengths of the arrays of the Map

ASSUME ItemsAssumption == MaxItems \in Nat /\ MaxEntries \in Nat

VARIABLES
  keys_,    \* Map::keys_
  values_,  \* Map::values_
  list,     \* the client's Array
  walked,   \* Iterator::contents_, the array it shares: "keys", "values" or "list"
  index_,   \* Iterator::index_
  answer,   \* what the last call on the Map returned
  item,     \* what the last PopBack or Evaluate returned
  path,     \* the elements the iterator has stood on since the sweep began
  sweeping, \* Increment is all that moved it, and nothing behind it changed
  careful   \* is the script one that leaves the arrays of the Map alone?

mapVars   == <<keys_, values_, answer>>
sweepVars == <<path, sweeping>>
itVars    == <<walked, index_, sweepVars, careful>>
vars == <<keys_, values_, list, walked, index_, answer, item, path, sweeping,
          careful>>

-----------------------------------------------------------------------------
(* ArrayValue::elements.                                                   *)

InBounds(arr, i) == 0 <= i /\ i < Len(arr)
At(arr, i) == arr[i + 1]
RangeOf(arr) == {arr[j] : j \in 1 .. Len(arr)}

\* The first position of x, or -1.
IndexOf(arr, x) ==
  IF \E j \in 1 .. Len(arr) : arr[j] = x
  THEN (CHOOSE j \in 1 .. Len(arr) :
          arr[j] = x /\ \A h \in 1 .. j - 1 : arr[h] # x) - 1
  ELSE -1

HasElement(arr, x) == \E j \in 1 .. Len(arr) : arr[j] = x

SetAt(arr, i, x) == [arr EXCEPT ![i + 1] = x]

InsertIn(arr, i, x) ==
  [j \in 1 .. Len(arr) + 1 |->
     IF j <= i THEN arr[j] ELSE IF j = i + 1 THEN x ELSE arr[j - 1]]

EraseFrom(arr, i) ==
  [j \in 1 .. Len(arr) - 1 |-> IF j <= i THEN arr[j] ELSE arr[j + 1]]

-----------------------------------------------------------------------------
(* Answers of a call: a runtime error, a flag, a value, a number.          *)

Failed == <<"failed">>
Flag(b) == <<"flag", b>>
Value(v) == <<"value", v>>
Count(n) == <<"count", n>>

Init ==
  /\ keys_ = <<>> /\ values_ = <<>> /\ answer = Failed
  /\ list = <<>> /\ item = Failed
  /\ walked = "list" /\ index_ = 0
  /\ path = <<>> /\ sweeping = FALSE
  /\ careful \in BOOLEAN

-----------------------------------------------------------------------------
(* The three arrays.                                                       *)

Arrays == {"keys", "values", "list"}
ArrayAt(name) ==
  CASE name = "keys" -> keys_ [] name = "values" -> values_ [] OTHER -> list
Members(name) ==
  CASE name = "keys" -> Keys [] name = "values" -> Values [] OTHER -> Items
MayGrow(name) == Len(ArrayAt(name)) < IF name = "list" THEN MaxItems ELSE MaxEntries

\* What the iterator walks.
Contents == ArrayAt(walked)

\* The arrays names change at position i or later: an iterator over one of them
\* that stands before i goes on with its sweep, any other loses it.
Touches(names, i) ==
  /\ sweeping' = (sweeping /\ (walked \in names => index_ < i))
  /\ UNCHANGED <<walked, index_, path, careful>>

-----------------------------------------------------------------------------
(* Map.                                                                    *)

\* MUTANT of MapSet: a key that is present is pushed again.
MapSet_AlwaysPushes(k, v) ==
  /\ MayGrow("keys") /\ MayGrow("values")
  /\ keys_' = Append(keys_, k) /\ values_' = Append(values_, v)
  /\ sweeping' = FALSE
  /\ UNCHANGED <<answer, list, item, walked, index_, path, careful>>

\* A new key and its value go to the ends of their arrays.
PushEntry(k, v) ==
  /\ MayGrow("keys") /\ MayGrow("values")
  /\ keys_' = Append(keys_, k) /\ values_' = Append(values_, v)
  /\ Touches({walked} \cap {"keys", "values"}, Len(Contents))

\* values_.SetIndex raises, and changes nothing, where there is no value beside
\* the key.
MapSet(k, v) ==
  LET index == IndexOf(keys_, k) IN
  /\ \/ ~HasElement(keys_, k) /\ PushEntry(k, v)
     \/ /\ HasElement(keys_, k) /\ InBounds(values_, index)
        /\ values_' = SetAt(values_, index, v)
        /\ Touches({"values"}, index)
        /\ UNCHANGED keys_
  /\ UNCHANGED <<answer, list, item>>

\* MUTANT of MapRemove: the value stays behind.
MapRemove_KeepsValue(k) ==
  LET index == IndexOf(keys_, k) IN
  /\ answer' = Flag(index # -1)
  /\ IF index # -1
     THEN /\ keys_' = EraseFrom(keys_, index)
          /\ Touches({"keys"}, index)
     ELSE UNCHANGED <<keys_, itVars>>
  /\ UNCHANGED <<values_, list, item>>

\* Where there is no value beside the key, values_.Erase raises after the key
\* is gone.
MapRemove(k) ==
  LET index == IndexOf(keys_, k) IN
  /\ \/ /\ index = -1
        /\ answer' = Flag(FALSE)
        /\ UNCHANGED <<keys_, values_, itVars>>
     \/ /\ index # -1 /\ InBounds(values_, index)
        /\ keys_' = EraseFrom(keys_, index) /\ values_' = EraseFrom(values_, index)
        /\ answer' = Flag(TRUE)
        /\ Touches({"keys", "values"}, index)
     \/ /\ index # -1 /\ ~InBounds(values_, index)
        /\ keys_' = EraseFrom(keys_, index)
        /\ answer' = Failed
        /\ Touches({"keys"}, index)
        /\ UNCHANGED values_
  /\ UNCHANGED <<list, item>>

MapClear ==
  /\ keys_' = <<>> /\ values_' = <<>>
  /\ Touches({"keys", "values"}, 0)
  /\ UNCHANGED <<answer, list, item>>

\* values_.GetIndex raises on the -1 of a missing key.
MapGet(k) ==
  LET index == IndexOf(keys_, k) IN
  /\ answer' = IF InBounds(values_, index)
               THEN Value(At(values_, index)) ELSE Failed
  /\ UNCHANGED <<keys_, values_, list, item, itVars>>

MapGetOr(k, default_value) ==
  LET index == IndexOf(keys_, k) IN
  /\ answer' = IF index = -1 THEN Value(default_value)
               ELSE IF InBounds(values_, index)
                    THEN Value(At(values_, index)) ELSE Failed
  /\ UNCHANGED <<keys_, values_, list, item, itVars>>

MapContains(k) ==
  /\ answer' = Flag(HasElement(keys_, k))
  /\ UNCHANGED <<keys_, values_, list, item, itVars>>

MapSize ==
  /\ answer' = Count(Len(keys_))
  /\ UNCHANGED <<keys_, values_, list, item, itVars>>

-----------------------------------------------------------------------------
(* Array: the script's own, and the Map's, which Keys() and Values() hand  *)
(* out live.  A careful script, one that was written so from the start,    *)
(* puts new values in place of old ones and nothing else.  An index out of bounds raises and changes nothing.  *)

Writes(name) == name = "list" \/ ~careful
Replaces(name) == Writes(name) \/ name = "values"

\* The array becomes new, and is what it was before position i.
Store(name, new, i) ==
  /\ keys_' = IF name = "keys" THEN new ELSE keys_
  /\ values_' = IF name = "values" THEN new ELSE values_
  /\ list' = IF name = "list" THEN new ELSE list
  /\ Touches({name}, i)
  /\ UNCHANGED answer

ArrayPushBack(name, x) ==
  LET arr == ArrayAt(name) IN
  /\ Writes(name) /\ MayGrow(name)
  /\ Store(name, Append(arr, x), Len(arr))
  /\ UNCHANGED item

ArrayPopBack(name) ==
  LET arr == ArrayAt(name) IN
  /\ Writes(name)
  /\ \/ arr = <<>> /\ item' = Failed /\ UNCHANGED <<mapVars, list, itVars>>
     \/ /\ arr # <<>>
        /\ item' = Value(arr[Len(arr)])
        /\ Store(name, SubSeq(arr, 1, Len(arr) - 1), Len(arr) - 1)

ArraySetIndex(name, i, x) ==
  LET arr == ArrayAt(name) IN
  /\ Replaces(name) /\ InBounds(arr, i)
  /\ Store(name, SetAt(arr, i, x), i)
  /\ UNCHANGED item

\* MUTANT of ArrayInsert: the element lands one place early.
ArrayInsert_OffByOne(name, i, x) ==
  LET arr == ArrayAt(name) IN
  /\ Writes(name) /\ MayGrow(name) /\ 0 <= i /\ i <= Len(arr)
  /\ Store(name, InsertIn(arr, IF i = 0 THEN 0 ELSE i - 1, x), i)
  /\ UNCHANGED item

ArrayInsert(name, i, x) ==
  LET arr == ArrayAt(name) IN
  /\ Writes(name) /\ MayGrow(name) /\ 0 <= i /\ i <= Len(arr)
  /\ Store(name, InsertIn(arr, i, x), i)
  /\ UNCHANGED item

ArrayErase(name, i) ==
  LET arr == ArrayAt(name) IN
  /\ Writes(name) /\ InBounds(arr, i)
  /\ Store(name, EraseFrom(arr, i), i)
  /\ UNCHANGED item

ArrayClear(name) ==
  /\ Writes(name)
  /\ Store(name, <<>>, 0)
  /\ UNCHANGED item

-----------------------------------------------------------------------------
(* Iterator.                                                               *)

HasNext == index_ < Len(Contents) - 1
HasPrevious == index_ > 0

\* A sweep starts on the first element, if there is one.
StartOf(arr) ==
  /\ index_' = 0
  /\ path' = IF arr = <<>> THEN <<>> ELSE <<arr[1]>>
  /\ sweeping' = (arr # <<>>)

IteratorNew(name) ==
  /\ walked' = name
  /\ StartOf(ArrayAt(name))
  /\ UNCHANGED <<mapVars, list, item, careful>>

Beginning ==
  /\ StartOf(Contents)
  /\ UNCHANGED <<mapVars, list, item, walked, careful>>

\* -1 on an empty array.
End ==
  /\ index_' = Len(Contents) - 1
  /\ path' = <<>> /\ sweeping' = FALSE
  /\ UNCHANGED <<mapVars, list, item, walked, careful>>

\* MUTANT of Increment: the bound is the size, not the last index.
Increment_TooFar ==
  /\ index_ < Len(Contents)
  /\ index_' = index_ + 1
  /\ UNCHANGED <<mapVars, list, item, walked, sweepVars, careful>>

Increment ==
  /\ HasNext
  /\ index_' = index_ + 1
  /\ path' = IF sweeping THEN Append(path, At(Contents, index_ + 1)) ELSE path
  /\ UNCHANGED <<mapVars, list, item, walked, sweeping, careful>>

\* MUTANT of Decrement: it does not ask HasPrevious.
Decrement_Unguarded ==
  /\ index_' = index_ - 1
  /\ path' = <<>> /\ sweeping' = FALSE
  /\ UNCHANGED <<mapVars, list, item, walked, careful>>

Decrement ==
  /\ HasPrevious
  /\ index_' = index_ - 1
  /\ path' = <<>> /\ sweeping' = FALSE
  /\ UNCHANGED <<mapVars, list, item, walked, careful>>

Evaluate ==
  /\ item' = IF InBounds(Contents, index_)
             THEN Value(At(Contents, index_)) ELSE Failed
  /\ UNCHANGED <<mapVars, list, itVars>>

-----------------------------------------------------------------------------
MapNext ==
  \/ \E k \in Keys, v \in Values : MapSet(k, v) \/ MapGetOr(k, v)
  \/ \E k \in Keys : MapRemove(k) \/ MapGet(k) \/ MapContains(k)
  \/ MapClear \/ MapSize

ArrayNext(name) ==
  \/ \E x \in Members(name) : ArrayPushBack(name, x)
  \/ \E i \in 0 .. Len(ArrayAt(name)), x \in Members(name) :
        ArraySetIndex(name, i, x) \/ ArrayInsert(name, i, x)
  \/ \E i \in 0 .. Len(ArrayAt(name)) : ArrayErase(name, i)
  \/ ArrayPopBack(name) \/ ArrayClear(name)

IteratorNext ==
  \/ \E name \in Arrays : IteratorNew(name)
  \/ Beginning \/ End \/ Increment \/ Decrement \/ Evaluate

Next == MapNext \/ (\E name \in Arrays : ArrayNext(name)) \/ IteratorNext

Spec == Init /\ [][Next]_vars

-----------------------------------------------------------------------------
(* Properties.                                                             *)

Answers == {Failed} \cup ({"flag"} \X BOOLEAN) \cup ({"value"} \X Values)
             \cup ({"count"} \X Nat)
Elements == Items \cup Keys \cup Values
Found == {Failed} \cup ({"value"} \X Elements)

\* Every variable has its type, whatever the script writes to the arrays of the
\* Map.  The index of an iterator may be outside its array, unlike line 235 of
\* the README of the iterator says: End leaves -1 on an empty one, and an array
\* may shrink under it.
TypeOK ==
  /\ keys_ \in Seq(Keys) /\ values_ \in Seq(Values) /\ answer \in Answers
  /\ list \in Seq(Items) /\ item \in Found
  /\ walked \in Arrays /\ index_ \in Nat \cup {-1}
  /\ path \in Seq(Elements) /\ sweeping \in BOOLEAN /\ careful \in BOOLEAN

\* The arrays of a Map that the script leaves alone stay paired: as many values
\* as keys, and no key twice, which is what lets the first index found stand for
\* the key.
Paired ==
  careful =>
    /\ Len(keys_) = Len(values_)
    /\ \A i, j \in 1 .. Len(keys_) : keys_[i] = keys_[j] => i = j

\* The entry a key has in the Map.
Entries ==
  [k \in RangeOf(keys_) |-> At(values_, IndexOf(keys_, k))]

\* For a careful script, which stays one, the two arrays implement a partial
\* function (KV!Spec), answers included, while iterators walk them and values
\* are replaced through Values().
KV == INSTANCE KeyValue WITH store <- Entries
MapImplements ==
  (careful => KV!Init) /\ [][careful => KV!Next]_<<careful, KV!vars>>

\* A sweep that Increment carries to the end has stood on every element the
\* array holds then, in order, once each: elements added on the way included.
SweepCovers == sweeping /\ ~HasNext => path = Contents

\* Evaluate raises nothing during a sweep, whatever is added or removed ahead
\* of the iterator.
SweepNeverRaises ==
  [][Evaluate /\ sweeping => item' # Failed]_vars
=============================================================================
