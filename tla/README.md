# A model of the Falcon standard library

This directory holds TLA+ models of the Falcon standard library, the TLC runs
that check them on small instances, and TLAPS proofs of what they promise for
instances of every size. Every definition is translated from the code; the
`map` of `PROJECT.json` gives its lines, the comments name the ones that
matter. Paths below are those of the repository.

## The system

The library is a set of modules for scripts in the Falcon language. A module is
a `.fal` file, whose routines are either written in the language or bound to
`extern "C"` functions of a C++ wrapper. There is no server and no task queue:
the state is what the wrappers keep in process-wide objects, and what structs
and arrays of the script share by reference.

| component | state | operations | what is hard | what makes it correct |
|---|---|---|---|---|
| `io` | one `StdoutCapture`: mutex, pipe ends, saved descriptors, flags, buffer; descriptors 1 and 2 of the process | BeginStdout, BeginStderr, End, Peek, IsActive, WriteStdout, WriteStderr, Print... | prints run without the mutex while begin and end redirect; `dup` and `pipe` fail; pipes fill; C stream buffers | descriptors and members agree, none leak, strangers' files survive, no text is lost, End gets all, calls return |
| `collections` | Map: two parallel arrays; Array: a vector shared by reference; Iterator: an array and an index | Get, Set, Remove, ... ; Insert, Erase, ... ; Increment, Decrement, Evaluate | arrays in step; live arrays handed out; an index that outlives changes | a Map is a function as long as its arrays are left paired; a sweep covers the array |
| `control/direction` | a Map from Gate objects to coefficients | Dot, Scale, Add, Subtract, Project, Orthogonalize, Normalize | clones that share arrays; two equalities of gates | vector arithmetic; no gate twice |
| `control/controlAxis` | a Point (Map from gates to Voltage objects) and a Direction | constructors, Scaled, Shifted, ToPoint, ten modifiers | positional loops over two Maps edited apart; shared Voltages | ToPoint is offset + coordinate * amplitude; axes are independent |
| `control/math` | none | pure functions | | |
| `testing` | TestRunner: names, results, index; TestContext: failures | Register, BeginCurrent, EndCurrent, PrintSummary, Expect... | calls out of order | results belong to their tests |
| `database` | one connection and one snapshot manager, made at first use by any thread | queries and snapshots of an external store | a failed first use, one call_once inside another | one verdict in a process; nothing used before it is made; calls end |
| `log` | one logger, made at first use | levels, messages, flush | a failed first use | a logger is always there |
| `hub` | none of its own | requests with timeouts to the hub library | timeouts narrowed to 32 bits | |
| `strings` | none | pure functions on strings | indices, negative lengths | agrees with its documentation |
| `falconCore/*` | library objects behind opaque handles, some of them lists | 869 routines: constructors, accessors, arithmetic, list operations | casts that nothing checks; handles that alias; lists that messages keep | declaration and wrapper agree; a call changes what it names |

Interaction: `testing`, `log` and every script write to the streams that `io`
redirects; `control` is built on `collections`; an axis holds a Direction and
lends it out; `hub`, `database` and `falconCore` call external libraries, and hand the same
falconCore handles to each other.

## The modules

| module | models | role |
|---|---|---|
| `IoCapture` | `io/io-wrapper.cpp` with the descriptors, pipes and C streams under it | component |
| `TeeStream` | what a capture promises for a stream | abstract specification of `IoCapture` |
| `IoCaptureProofs` | | theorems, refinement included |
| `Collections` | `map.fal`, `array-wrapper.cpp`, `iterator.fal` | component |
| `KeyValue` | what a Map promises | abstract specification of `Collections` |
| `CollectionsProofs` | | theorems, refinement included |
| `GateMap`, `GateMapProofs` | a Map from gates as Direction and Point hold one | operators and lemmas shared by the two below |
| `Directions` | `direction-wrapper.cpp`, `direction.fal` | component |
| `DirectionsProofs` | | theorems |
| `ControlAxis` | `control-axis-wrapper.cpp`, `controlAxis.fal` | component |
| `ControlAxisProofs` | | theorems |
| `CoreLists` | the seven list classes of `falconCore` and the messages that keep a list | component |
| `ValueLists` | what a script may believe of them | abstract specification of `CoreLists` |
| `CoreListsProofs` | | theorems, refinement included |
| `Services` | `database-wrapper.cpp` and `log-wrapper.cpp`: what a process makes once | component |
| `ServicesProofs` | | theorems |
| `BindingTypes` | the types at the boundary, and the ways a wrapper reads one | operators shared by the tables |
| `FalconDeclared` | the `.fal` files of falconCore, database, hub, log, strings, testing | table, one row per routine |
| `FalconWrappers` | the `extern "C"` functions of their C++ files | table, one row per wrapper |
| `Bindings` | a script that calls the routines of the two tables | component, composes all of these |
| `BindingsProofs` | | theorems |
| `MC...` | | values of constants and symmetry for TLC |

### IoCapture

The variables from `pipe_read_fd` to `mtx` are the members of `StdoutCapture`.
`fds` and `pipe` are the process's descriptor table and its pipes, `stdio` and
`filelock` the buffers and locks of the two C streams (`std::cout` and
`std::cerr` are synchronised with them), `tty` what the real streams received.
Each thread has a `pc` inside the call it makes. A step is one system call, or
statements that no other thread can tell from one; `pipe()` together with the
lock and the two assignments is one, each iteration of the read loop another.
`write(2)` is two steps, the lookup of the descriptor and the delivery, because
the redirection of `dup2` may fall between them. `BeginDupFails` is the error
path of lines 49 to 55, `BeginRefused` both early returns. `OpenOther` and
`CloseOther` are the rest of the process, so that a descriptor that the capture
gives back can come to name another file.

`OneAtATime` is the usage rule of the io README (line 119): End before the
next Begin. The theorems assume it, and so do all runs but `io_both_captured`,
which shows what happens without it.

What is left out: failures of `dup2` (the code ignores its result), output that
several threads put in the middle of one another's lines, and messages larger
than `PIPE_BUF`; a text is written whole or not at all.

### Collections

`MapSet`, `MapRemove`, ... are the routines of Map on `keys_` and `values_`.
`Keys()` and `Values()` return these arrays themselves, so a script may call on
them whatever Array has; `list` is a third array, of the script's own. All
operations of Array exist for each of the three, and the Iterator walks one of
them (`walked`) while it changes, by calls on the array or on the Map.

Nothing in the code keeps a script from unpairing the arrays of a Map. `careful`
says, from the start, whether this script does: a careful one reads them and,
through `Values()`, puts new values in place of old ones, which is what a Map on
live arrays can bear. `Paired` and `MapImplements` are about careful scripts,
types and sweeps about all.

`path` records what the iterator has stood on since a sweep began, and
`sweeping` that nothing has changed at or behind the cursor since, which is what
a script must respect for `SweepCovers` to mean anything. A call that raises
changes nothing: where it would have returned a value the answer is `Failed`,
elsewhere it has no step. One changes something before it raises, a Remove of a
key that has no value beside it.

### Directions

A Direction refers to arrays (`dir_`), and arrays have entries (`store`): the
clone that Scale, Add and Subtract make has its own structs but shares the
arrays, because `clone_struct` copies `native_handle`. Map compares gates by
content and the wrapper by object, so `Gates` are objects and `NameOf` gives
their names, which two of them may have in common: Map calls reach the first
entry of the name (`SameName`), the loops of the wrapper that of the object. A
Direction denotes a vector with a component for each object, and that is what the
arithmetic is right about; `DotOfNamed` says when it is also right about names.
Coefficients are integers: where a quotient is not one, the step is left out
(`Exact`), and so are norms that are not whole. Rounding is not modelled.

### ControlAxis

`offset` and `direction` are the two Maps of an axis, `volt` the values of the
Voltage objects, which `SetOffset` and `ExtendDomain` may share between axes.
`CoefficientsAt` is the inner loop of ToPoint as it is written: it compares a
direction gate with a direction gate, so it works by position. `InDomain` limits
a script to ExtendDomain and RemoveGate for changes of the domain and to points
and directions that list their gates in one order; `axis_any_order` drops this.
`Clone()` of a Point and a Direction is the language's deep copy.

Left out: editing a Point or a Direction obtained from `Offset()` or
`Direction()` behind the axis's back, and the undefined accesses past the end of
an array that stop a program (a reading that lets it go on may give any value).

### CoreLists

Every element and every list is an object behind a shared pointer. A wrapper
that takes or returns an element hands on the pointer (`InsertRef`, `Hold`) or
copies (`InsertCopy`, `HoldCopy`), and `SetIndex` of PortTransforms and Waveform
writes into the object that is there (`Overwrite`). So `elem`, `list` and
`items` say which object is where, and `content` is what an element contains,
one abstract value. What nothing refers to any more is freed (`Settle`). Each
class has an action for each of its operations that changes or shares anything;
`class` is chosen at the start, because lists of two classes never meet.

`SettingRequest` and `VoltageStatesResponse` keep the list they are made from and
return it; a `Group` of a Config hands out its own lists, and a copy from Order.
`Messages` are these. A script that changes such a list changes the message;
`lent` marks the lists concerned, and `Own(n)` in a mutator is the rule for a
script that wants values: it changes a list only while no message has it.
Likewise it does not use SetIndex on a list of transforms that it keeps in
variables (`TransformsLent`). This is a rule for scripts, not a check in the
code. Calls that the code refuses with an exception, and indices past the end,
which some classes do not check, are no steps.

### Services

A call of a thread is a few steps, and `std::call_once` is modelled by what the
standard says of it: one thread runs the function, others wait, a function that
throws leaves the flag as it was. `EnterSnap`, `MakeManager` are
`get_global_snapshot_manager`, with the connection's flag inside; `manager` is
`g_snapshot_mgr`, whose constructor may throw over a connection that was made:
the flag is free again and the manager is still missing;
`InitializeDatabase` swallows the exception and leaves the flag done;
`Refuse` and `Require` are the two ends of `require_database`. `ServerTurns` is
the server going down or coming back, `Restart` the process being stopped at any
point and started again, perhaps in another environment. `told` is how calls of
this life of the process ended. A query that was begun on a live server may fail
too. The external library's constructor may or may not throw.

`OneVerdict` is what this comes to for a script: after a first call without a
connection every later one is refused until the process is restarted, also when
the server is back; and once a connection was made it is never taken away. A
retry inside the process is therefore of no use, although the snapshot manager
alone is tried again. `IsConnected` is a first call like any other.

### Bindings

A routine exists twice: as a declaration in a `.fal` file, which the engine uses
to check operands and to give results a type, and as a C++ function that finds
its operands by name and casts the native handle (`get_opaque`) without a check.
`FalconDeclared` and `FalconWrappers` are those two views, row by row: 1003
declared routines and 1001 rows of wrappers. `JSON`, `ArrayArithmetic` and their like are
the groups that many files write alike. A row of a wrapper says what it reads
and how: `Handle(c)` casts to class c whatever it is given, `NumberOr` takes
numbers and looks at the struct's name before it casts, `ArrayRead`, `AxesRead`
and `ListRead` check for the box and cast the elements. What a wrapper computes
is no part of its row. `GetByName` has two rows, because it packs NIL in place of
the DeviceCharacteristic it did not find and says so in a second result, `found`:
a variable declared with that class may hold `Nil`, and so may arrays and axes
made of it. The other wrappers in the tables that pack NIL give an Error or no
result by their declaration, or are `UnitSpace.CreateArray`, which is `Unusable`.

The script of `Bindings` holds in each variable a value with two types, declared
and real. It calls any routine with what it has, puts values into arrays and
takes them out. A call reads its operands independently, so one operand of a
call is followed and the others are taken as sound. The engine is outside this
repository; what is assumed of it: it checks operands against the declaration
only, calls `STRUCT<struct><routine>` whichever overload is meant, and passes
operands under the declared names. `Derives` has the C++ classes that are used
through a base (`static_cast` to FArray, for example). Routines with a body in
the `.fal` file are not in the tables, and neither are the wrappers of Axes,
which look at none of their arguments.

For 34 routines the two views disagree, and `Unusable` lists them; `bindings`
leaves them out and holds for the 969 others, each of which has a wrapper:

- `AcquisitionContext.Division` of a SymbolUnit is a bad cast (see
  `bindings_declared`).
- `FArray.Power` and `DeviceVoltageState.Power` are declared with a float and
  read an int64, which throws.
- `DeviceVoltageStates.Connection`, `.Voltage` and `Point.Set`, `.Remove`,
  `.Clear` have no wrapper.
- `VoltageConstraints.Matrix`, `.Limits`, `MeasurementRequest.Waveforms` and
  `.MeterTransforms` always throw.
- `MeasurementRequest.New` ignores its meter transforms,
  `InterpretationContainer.SelectContexts` both lists, `UnitSpace.New` its axes,
  `UnitSpace.CartesianSpace` and `.Cartesian2DSpace` their deltas.
- `CoupledLabelledDomain.Domains` is declared as an array of
  CoupledLabelledDomain and packs LabelledDomains; `UnitSpace.Axes` packs a
  native handle that is no Axes struct, `UnitSpace.CreateArray` always NIL.
- `DiscreteSpace.Increasing` is declared as Axes and packs an Array, which the
  readers of axes of Waveform refuse.
- `GetBarrierGate` and its like, of DeviceCharacteristic and of its Query, are
  declared to return a Connection and pack a string; `SetBarrierGate`, its like
  and `SetExtra` of the Query are declared to return a DeviceCharacteristic and
  pack the Query.

## The runs

| run | instance | shows |
|---|---|---|
| `io_threads` | 2 owners, 1 printer, both streams, 2 + 1 texts, 2 captures, 6 descriptors, pipes of 1 text, 1 other file; 241 000 states, under fairness | `TypeOK`, `Wired`, `NothingLeaked`, `NothingLost`, `CaptureComplete`, `OthersFilesKept`, `Teed` (refinement of `TeeStream`), `CallsReturn` |
| `io_single` | 1 thread in all roles, 3 + 1 texts, 2 captures, pipes of 3; 43 000 states | `InPrintOrder`, `BypassShown` |
| `io_both_captured` | 1 thread without `OneAtATime` | `OutputNotLost` is violated |
| `io_end_blocks` | 1 owner, 1 printer, 2 texts for stderr, a pipe of 1 | `EndReturns` is violated |
| `collections` | 2 keys, 2 values, 2 items, all arrays of up to 2, careful scripts and others; 136 000 states | `TypeOK`, `Paired`, `SweepCovers`, `SweepNeverRaises`, `MapImplements` (refinement of `KeyValue`) |
| `directions` | 2 variables, 2 arrays of up to 2 entries, 3 gates, two of one name, coefficients -2 .. 2; 7 150 states | `TypeOK`, `OneCoefficientEach`, `DotIsInner`, `DotOfNamed`, `SumsRight`, `OrthogonalAfter` |
| `axis` | 2 axes, 2 gates, 3 Voltages of 0 or 1, amplitudes -1 .. 1, coordinates -1 .. 2 | `TypeOK`, `Aligned`, `ToPointIsAffine`, `ThroughPoints`, `CallsChangeOneAxis` |
| `axis_any_order` | the same without `InDomain` | `ToPointIsAffine` is violated |
| `core_lists` | each of 7 classes, 1 element variable, 2 list variables, 1 message, 4 objects, 3 lists of up to 2; 110 000 states | `TypeOK`, `WrittenInOnePlace`, `ListsAreValues` (refinement of `ValueLists`) |
| `services` | 2 threads, 2 calls each in a life of the process; 90 600 states, under fairness | `TypeOK`, `OneVerdict`, `UsedWhenMade`, `CallsEnd` |
| `bindings` | the whole of both tables less `Unusable`, 1 variable; 221 states, 23 900 steps | `TypeOK`, `HandlesHonest`, `NothingMisread`, `Served` |
| `bindings_declared` | the same with `Unusable` | `NothingMisread` is violated |

Why the bounds are enough. In `io_threads` a second owner can begin while the
first is inside End and while the printer is between lookup and delivery; two
captures let numbers of the first be reused in the second; with descriptors 0 to
5 a capture needs all of 3, 4, 5, so one other file makes `dup` fail after
`pipe` and two make `pipe` fail; a pipe of one text is full after one print.
Two keys let a removal shift the other, and leave arrays that no longer pair.
Three gates, two of them of one name, let a Direction
have a name twice, or two Directions have it for different objects, next to a
name of their own; two entries are what order and sharing take. The proofs lift
what they cover to every size.

In `core_lists` one variable and two lists suffice for every pair of places an
object can be shared between, four objects for two full lists or a list and its
copy, and one message for a list that is kept. In `services` two threads can
each be inside one of two nested flags, and two calls are a failure and a retry.
In `bindings` one variable is enough, because a call reads its operands one by
one and every type a chain of calls can give is reached by it; the proofs are
for any number.

`CHECK_DEADLOCK FALSE` is where a script or a program may simply stop: in
`io_threads` and `io_end_blocks`, in a print to a pipe or in End;
in `core_lists`, `services` and `bindings`, when it makes no more calls.

### Fairness

`FairSpec` gives weak fairness to `Continue(t)`, the next step of a thread that
is inside a call: a runnable thread is scheduled. No thread has to call
anything, and a thread whose `write(2)` waits for room, or that waits for the
lock of a C stream, is not enabled and is owed nothing. Under it every Begin
returns, and every End that gets past its flush of stderr: it drains the pipe
until no writer is left, each writer it unblocks goes on to the restored stream,
and the lock of stdout that the tee takes is free by then. `CallsReturn` says so,
with the one place where End may stay for ever (`FlushWaits`); in `io_threads`
the one text for stderr never fills its pipe, so there every End returns, and
`io_end_blocks` shows the other case.

`FairSpec` of `Services` is weak fairness of each thread's steps inside a call.
`call_once` promises nothing about who is let in next; a waiting thread is owed
its turn here because the others make at most `MaxCalls` calls in a life of the
process, and so get out of its way. `CallsEnd` also holds when the process is
restarted, which ends its calls.

### What the violations say

1. `io_both_captured`: `begin_stderr` looks at `capturing_stderr` alone. Inside
   a stdout capture it overwrites `pipe_read_fd`; the first pipe is never read.
   The README (line 306) says that the second begin fails.
2. `io_end_blocks`: End flushes stderr (line 114) before it drains the pipe. A
   thread that prints to a captured stderr whose pipe is full waits inside
   `write(2)` with the stream's lock; the flush waits for the lock, and nobody
   reads the pipe.
3. `axis_any_order`: line 347 of `control-axis-wrapper.cpp` compares
   `dir_keys[i]` where it looks for the offset's i-th gate.
4. `bindings_declared`: the wrapper of `AcquisitionContext.Division` serves both
   declared overloads and reads the SymbolUnit of the second as an
   AcquisitionContext; the wrapper meant for it has a name that is not looked up.

Where else the code is not what a document says. No run records these; each is a
case that a property states it leaves out.

- Line 139 of the io README says that End flushes stream buffers into the capture.
  It restores descriptor 1 without a flush of stdout; a line that
  `TestContext.Log` left in the C stream goes to the terminal afterwards and is
  missing from what End returns (with a thread in `Loggers`, `CaptureComplete`
  fails).
- Line 141 has the tee go to the real `stdout`/`stderr`. Line 124 of
  `io-wrapper.cpp` writes to stdout whichever stream was captured (`EndTee`);
  `Teed` is about texts meant for stdout.
- The "internal buffer" of line 111 is a pipe, and a single-threaded script that
  prints more than it holds waits for ever in its print: `FlushWrite` is then
  disabled.
- The Map README (line 53) says that Get raises for an absent key. After
  `m.Keys().PushBack(k)`, by a script that is not `careful`, the Map contains k, its
  values are one short, and Get raises.
- The iterator README (line 235) says that an Iterator never leaves the bounds of
  its array. `End()` on an empty array sets the index to -1, and an array that
  shrinks leaves the index outside; `TypeOK` allows both.
- `coefficient_at` (line 58 of `direction-wrapper.cpp`) compares pointers, Map
  contents. With a over one `Gate.New("P1")` and b over another, `GetCoefficient`
  gives both a coefficient for P1, and `a.Dot(b)` is 0. The instance of
  `directions` has such Directions, and without its premise `DotOfNamed` fails
  there.
- The section "Deep Clone" of `direction-wrapper.cpp` (line 84) shares the arrays
  of a Direction, so `b = a.Scale(2.0)` doubles `a` and `a.Project(b)` rescales
  `b`. `SumsRight` and `OrthogonalAfter`, about the results, hold all the same.

## The proofs

All theorems hold for any values of the constants that meet the ASSUMEs and the
hypotheses named below: any number of threads, texts, keys, gates, lists and
routines. Every hypothesis is met by the instance of the run that checks the same
property, but for those of Bindings, which are themselves checked (see there).

**IoCapture** (`IoCaptureProofs`, under `OneAtATime`). `TypeOK`, mutual
exclusion, `Wired`, `NothingLeaked`, `OthersFilesKept` and, without bypass
writes, `NothingLost`. The properties speak of the moments when the mutex is
free, so none is inductive. `IInv` adds, for every point of begin and end, what
the descriptor table looks like there (`Layout`: is the stream redirected, are
read end, write end and saved descriptor open, and everything else is untouched
or somebody else's), and that a thread is at such a point exactly while it holds
the mutex. Each system call leads from one layout to the next; calls without the
mutex only open and close files outside the layout. `NothingLost` needs one more
conjunct, that a write in progress holds a terminal or a write end, and assumes
`Bypassers = {}`: a bypass write uses a number it chose before an End may have
closed it.

Four more results stand on `IInv`, each with an invariant of its own:

- `CaptureComplete`, with `Loggers = {}`. A print that began in the capture that
  is still active has its text in the buffer, in the pipe or in its C stream
  (`OnTheWay`). The hard case is a flush that looked the descriptor up before the
  redirection and writes to the terminal afterwards: it holds the lock of the C
  stream (`FlushLocks`) that the print needs, so no text of the capture is behind
  it (`OldFlush`). `Sessions` tells the prints of one capture from those of the
  last, and `Kept` is what has arrived: End reads until nobody writes any more.
  With an unflushed writer the property is false (see above).
- `Teed`, the refinement of `TeeStream`, with `Bypassers = {}`. `Plumbing` says
  that a flush writes to its terminal or to the pipe of the capture that has not
  been drained, and that no other pipe holds anything. Then `write(2)` is `Show`
  or `Hold`, End's `fwrite` is `Release`, a print is `Say`, and every other step
  stutters, the reads from pipe to buffer included (`HeldRead`).
- `BypassShown`, in a program of one thread (`OneThread`): the descriptor chosen
  still is the terminal when it is used. With more threads End may close it in
  between.
- `InPrintOrder`, `OneThread` again. `Orderly` adds that text for stdout is held
  back only by a capture of stdout that has not been teed (`HeldOut`), that the C
  stream holds printed text only inside a print and inside the tee (`Clean`), and
  that each text is in one place (`Fresh`). So when a text goes to the terminal
  nothing older is held back, and the tee finds no printed text in the C stream.
  Texts of `LogUnflushed` and the bypass writes may be anywhere in between.

What `Only` computes is proved by induction (`InductSeqs`): `OnlyAppend`,
`OnlyConcat`, `OnlySame`.

**Collections** (`CollectionsProofs`). For a careful script `Paired` is
inductive: equal lengths and no key twice. It makes `Entries`, the function read
off the two arrays, well defined, and each call on the Map is one step of
`KeyValue` on it with the same answer: such a script meets `KV!Spec`. A write through
`Values()` is a Set of the key at that position; other calls on arrays and on the
iterator stutter. `TypeOK`, `SweepCovers` and `SweepNeverRaises` hold of every
script, on any of the three arrays. They follow from `SweepInv`: during a sweep
the index is inside the array, and the elements up to it are the ones the
iterator stood on. A change of the array is ahead of the index (`SameUpTo`) or
ends the sweep.

**Directions** (`DirectionsProofs`). `TypeOK`, `OneCoefficientEach`,
`DotIsInner`, `SumsRight` and `OrthogonalAfter`, for any finite set of Gate
objects (`GatesAssumption`) with any names. The invariant is that no array has
two entries for one object: Map calls go by name, but a call that finds the name
changes the entry it finds and adds none. The work is in what the loops of the
wrapper compute. `Dot`, `Plus` and the sums are recursive functions, related by
induction on numbers and on finite sets (`InductSets`) to sums over the gates.
Add and Subtract run over arrays that their result may share, and the theorem
covers an operand that is its own result.

**ControlAxis** (`ControlAxisProofs`). `TypeOK` for every script; `Aligned`,
`ToPointIsAffine` and `ThroughPoints` for scripts that are `InDomain`. The
invariant is `TypeOK` with `Aligned` under `InDomain`: that Put and Drop act on
both Maps at the same position needs that neither lists a gate twice
(`GateMapProofs`). The positional lookup then finds the gate it should, and
ToPoint's value follows, and so does the direction between two points.
`CallsChangeOneAxis` holds of every script: a call other than ZeroOffsets gives
its axis new Voltages or changes one Map, whatever Voltages axes share.

**CoreLists** (`CoreListsProofs`). `TypeOK`, `WrittenInOnePlace` and the
refinement of `ValueLists`, for a script that keeps to the rules of `Own` and
`TransformsLent`. `IInv` has two parts besides types: a list that a variable may
change belongs to that variable alone (`Apart`), and an object in a list of
transforms that no one else was lent is in this one place (`Alone`), which no
insertion, copy, erasure or move may break. A change of a list or of an object in
it is then a change of one abstract value.

**Services** (`ServicesProofs`). `OneVerdict` is not inductive: it needs that the
connection exists only after its flag is done, that a flag that is done stays so,
and that no call was told anything before. `IInv` says which thread is inside
which flag (`Inside`), what a done flag has left behind (`Made`), and that `told`
agrees with the connection as it is now (`ToldRight`). `ThreadsAssumption` only
says that a thread is not called like a state of a flag.

**Bindings** (`BindingsProofs`). `HandlesHonest`, `NothingMisread` and `Served`
speak of chains of calls of any length, and follow from the rows one at a time:
the theorems assume `RowsAreSound`, that each wrapper packs a type its
declaration allows and reads an operand as something it is, for every pair of
types. That a call's result keeps declared and real type together is then the
induction step; arrays and elements keep it too, since plain classes have no
subclasses (`DerivesAssumption`). The Nil of a result that was left out stays
under a class that some routine leaves out, and every read refuses it; a script
that does not look at `found` gets an exception, never a bad cast. `Served` says
nothing of Nil, and also assumes `RowsServe`: no row fails to read, or refuses,
an operand that an object of a declared type can be.
An array can be declared as axes, and some wrappers of Waveform refuse it; so the
invariant adds that this happens only with classes that some routine returns so
(`BoxesKnown`), and `RowsServe` asks the wrappers about these. For the tables of
this library less `Unusable` both are finite checks that mention no variable:
TLC evaluates them to TRUE when they are added to the INVARIANTS of
`bindings.cfg`.

Model-checked only: `CallsReturn` and `CallsEnd`, because liveness under fairness
is out of the reach of the provers used here; `DotOfNamed`; and the four
violations, which are of instances.

## What is not modelled, and the plan

In this order; the first is the most valuable.

1. `TestRunner` (testing): results and summaries, with contexts that outlive
   their test; then composed with `IoCapture`. A summary printed before every
   test has run, or after a late Register, reads results that are not there
   (testing-wrapper.cpp:90); a context ended twice gives a test two results.
2. `Control`: Directions and ControlAxis on one heap of Gate, Voltage and array
   objects, for the edits through `Offset()` and `Direction()` and the Gate
   objects that clones give an axis.
3. What the wrappers of `falconCore/math` and `generic` compute on their own:
   domains, discretisers and unit spaces as operators with reference definitions.
   Most of it is one call of the external library.
4. `Strings`: operators on sequences of character classes, against the documented
   meaning of Substring, Replace, Split, Trim and StripAnsi.
5. Proofs. Each safety property, action property and refinement of a run is
   stated by a theorem; what is left is to weaken hypotheses: `InPrintOrder` of
   each thread's own prints in a program of several, `NothingLost` of the
   printers when others bypass.

Of modelled components: levels and formats of the log (its README gives
`LOG_LEVEL` and a default of info, the code reads `FALCON_LOG_LEVEL`, then
`STDLIB_LOG_LEVEL`, and defaults to trace); the contents of the database; the
timeouts of the hub, which are cut from 64 to 32 bits on the way to the library
(hub-wrapper.cpp:58).

Out of scope: `control/math` (pure floating point), the build files, and the
external falcon-core, hub and database libraries, which the models take as the
wrappers use them.
