----------------------------- MODULE IoCapture -----------------------------
(***************************************************************************)
(* The process-wide output capture of libs/io (src/io/io-wrapper.cpp): one *)
(* StdoutCapture object, a mutex, a pipe, and the descriptor table it      *)
(* redirects with dup2.                                                    *)
(*                                                                         *)
(* A step of the model is one system call, or a run of statements that no  *)
(* other thread can tell from one.  Only begin_stdout, begin_stderr,       *)
(* end_capture and peek take the mutex; printing and the bypass writes do  *)
(* not, so they interleave with the inner steps of the others.             *)
(*                                                                         *)
(* A piece of text is a member of Msgs, written at most once.  Streams are *)
(* named by their descriptors.  A pipe holds PipeCap messages: a writer to *)
(* a full pipe blocks, as write(2) does.                                   *)
(***************************************************************************)
EXTENDS Integers, Sequences, FiniteSets

CONSTANTS
  Threads,         \* threads that call the library
  Owners,          \* those that call BeginStdout, BeginStderr, End and Peek
  Printers,        \* those that call Print, Println, Eprint and Eprintln
  Loggers,         \* those that write to std::cout without flushing it
  Bypassers,       \* those that call WriteStdout and WriteStderr
  CaptureStreams,  \* the streams the program captures
  OneAtATime,      \* whether it ends a capture before it begins another, as
                   \* line 119 of libs/io's README asks
  OutMsgs,         \* the texts meant for stdout
  ErrMsgs,         \* the texts meant for stderr
  None,            \* no thread
  MaxFd,           \* the largest descriptor the process may hold
  MaxPipes,        \* bound on the pipes created in a behaviour
  PipeCap,         \* capacity of a pipe, in messages
  MaxOther         \* bound on the unrelated files open at once

STDOUT == 1
STDERR == 2
Streams == {STDOUT, STDERR}
Msgs == OutMsgs \cup ErrMsgs
MsgsOf(s) == IF s = STDOUT THEN OutMsgs ELSE ErrMsgs

ASSUME RolesAssumption ==
  Owners \subseteq Threads /\ Printers \subseteq Threads
  /\ Loggers \subseteq Threads /\ Bypassers \subseteq Threads
ASSUME StreamsAssumption ==
  CaptureStreams \subseteq Streams /\ OneAtATime \in BOOLEAN
ASSUME MsgsAssumption == OutMsgs \cap ErrMsgs = {}
ASSUME NoneAssumption == None \notin Threads
ASSUME BoundsAssumption ==
  /\ MaxFd \in Nat /\ MaxFd >= 2
  /\ MaxPipes \in Nat /\ PipeCap \in Nat \ {0} /\ MaxOther \in Nat

VARIABLES
  fds,            \* descriptor table: what each descriptor refers to
  pipe,           \* contents of every pipe created
  npipes,         \* number of pipes created, the identifier of the last one
  pipe_read_fd,   \* StdoutCapture::pipe_read_fd
  pipe_write_fd,  \* StdoutCapture::pipe_write_fd
  saved,          \* saved_stdout and saved_stderr
  capturing,      \* capturing_stdout and capturing_stderr
  buffer,         \* StdoutCapture::buffer
  mtx,            \* the thread that holds StdoutCapture::mtx
  stdio,          \* what the C stream of stdout, stderr has not written yet
  filelock,       \* the thread inside fflush of that stream
  tty,            \* everything the real stdout and stderr received
  pc,             \* where each thread is inside a library call
  arg,            \* the stream, the message and the target of the call
  file,           \* the open file a thread's write(2) resolved to
  unsent,         \* messages no call has been made with
  lost,           \* messages a failed write(2) dropped
  printed,        \* messages Println put in the C stream of stdout, in order
  expected        \* messages printed inside the running capture

captureVars == <<pipe_read_fd, pipe_write_fd, saved, capturing, buffer>>
ghostVars   == <<unsent, lost, printed, expected>>
vars == <<fds, pipe, npipes, pipe_read_fd, pipe_write_fd, saved, capturing,
          buffer, mtx, stdio, filelock, tty, pc, arg, file, unsent, lost,
          printed, expected>>

Fds   == 0 .. MaxFd
Pipes == 1 .. MaxPipes

\* What a descriptor refers to.
Closed      == [kind |-> "closed", id |-> 0]
Tty(s)      == [kind |-> "tty",    id |-> s]
ReadEnd(p)  == [kind |-> "read",   id |-> p]
WriteEnd(p) == [kind |-> "write",  id |-> p]
OtherFile   == [kind |-> "file",   id |-> 0]
Files == {Closed, OtherFile} \cup {Tty(s) : s \in 0 .. 2}
           \cup {ReadEnd(p) : p \in Pipes} \cup {WriteEnd(p) : p \in Pipes}

IdlePcs  == {"idle"}
PrintPcs == {"p_flush", "p_write"}
BeginPcs == {"b_flush", "b_write", "b_dup", "b_dup2", "b_done"}
EndPcs   == {"e_restore", "e_read", "e_tee", "t_flush", "t_write", "e_done"}
WritePcs == {"w_call", "w_write"}
Pcs == IdlePcs \cup PrintPcs \cup BeginPcs \cup EndPcs \cup WritePcs

\* Calls that run with the mutex held.
LockedPcs == BeginPcs \cup EndPcs

NoArg == [stream |-> STDOUT, msg |-> {}, target |-> -1, session |-> 0]

Init ==
  /\ fds = [f \in Fds |-> IF f <= 2 THEN Tty(f) ELSE Closed]
  /\ pipe = [p \in Pipes |-> <<>>]
  /\ npipes = 0
  /\ pipe_read_fd = -1 /\ pipe_write_fd = -1
  /\ saved = [s \in Streams |-> -1]
  /\ capturing = [s \in Streams |-> FALSE]
  /\ buffer = <<>>
  /\ mtx = None
  /\ stdio = [s \in Streams |-> <<>>]
  /\ filelock = [s \in Streams |-> None]
  /\ tty = [s \in Streams |-> <<>>]
  /\ pc = [t \in Threads |-> "idle"]
  /\ arg = [t \in Threads |-> NoArg]
  /\ file = [t \in Threads |-> Closed]
  /\ unsent = Msgs
  /\ lost = {}
  /\ printed = <<>>
  /\ expected = {}

-----------------------------------------------------------------------------
(* Descriptors and open files.                                             *)

\* pipe(2), dup(2) and open(2) return the lowest descriptor that is closed.
IsLowestClosed(table, f) ==
  /\ table[f] = Closed
  /\ \A g \in Fds : g < f => table[g] # Closed

HasClosed(table) == \E f \in Fds : table[f] = Closed

\* close(2): closing -1 or a closed descriptor fails and changes nothing.
Close(table, f) == IF f \in Fds THEN [table EXCEPT ![f] = Closed] ELSE table

\* A pipe reaches end of file once no descriptor and no write(2) in progress
\* refers to its write end.
NoWriter(p) ==
  /\ \A f \in Fds : fds[f] # WriteEnd(p)
  /\ \A t \in Threads : file[t] # WriteEnd(p)

\* write(2) of m to the open file f: it blocks on a full pipe, and text sent
\* to a closed descriptor, a read end or a stranger's file is lost.
Deliver(f, m) ==
  \/ /\ f.kind = "tty" /\ f.id \in Streams
     /\ tty' = [tty EXCEPT ![f.id] = Append(@, m)]
     /\ UNCHANGED <<pipe, lost>>
  \/ /\ f.kind = "write" /\ Len(pipe[f.id]) < PipeCap
     /\ pipe' = [pipe EXCEPT ![f.id] = Append(@, m)]
     /\ UNCHANGED <<tty, lost>>
  \/ /\ f.kind \in {"closed", "read", "file"}
     /\ lost' = lost \cup {m}
     /\ UNCHANGED <<tty, pipe>>

Goto(t, label) == pc' = [pc EXCEPT ![t] = label]

-----------------------------------------------------------------------------
(* Printing.  std::cout is synchronised with stdio: Print and Println put  *)
(* the text in the C stream and flush it, a std::cout << without a flush   *)
(* leaves it there.  stderr is unbuffered: Eprint and Eprintln write at    *)
(* once, holding the stream's lock.                                        *)

CallArg(s, m) ==
  [stream |-> s, msg |-> {m}, target |-> -1,
   session |-> IF capturing[s] THEN npipes ELSE 0]

Println(t, m) ==
  /\ t \in Printers /\ pc[t] = "idle" /\ m \in unsent \cap OutMsgs
  /\ filelock[STDOUT] = None
  /\ unsent' = unsent \ {m}
  /\ stdio' = [stdio EXCEPT ![STDOUT] = Append(@, m)]
  /\ arg' = [arg EXCEPT ![t] = CallArg(STDOUT, m)]
  /\ printed' = Append(printed, m)
  /\ Goto(t, "p_flush")
  /\ UNCHANGED <<fds, pipe, npipes, captureVars, mtx, filelock, tty, file,
                 lost, expected>>

Eprintln(t, m) ==
  /\ t \in Printers /\ pc[t] = "idle" /\ m \in unsent \cap ErrMsgs
  /\ filelock[STDERR] = None
  /\ unsent' = unsent \ {m}
  /\ stdio' = [stdio EXCEPT ![STDERR] = Append(@, m)]
  /\ arg' = [arg EXCEPT ![t] = CallArg(STDERR, m)]
  /\ filelock' = [filelock EXCEPT ![STDERR] = t]
  /\ file' = [file EXCEPT ![t] = fds[STDERR]]
  /\ Goto(t, "p_write")
  /\ UNCHANGED <<fds, pipe, npipes, captureVars, mtx, tty, lost, printed,
                 expected>>

\* TestContext::log and the test runner's banners: no flush.
LogUnflushed(t, m) ==
  /\ t \in Loggers /\ pc[t] = "idle" /\ m \in unsent \cap OutMsgs
  /\ filelock[STDOUT] = None
  /\ unsent' = unsent \ {m}
  /\ stdio' = [stdio EXCEPT ![STDOUT] = Append(@, m)]
  /\ expected' = IF capturing[STDOUT] THEN expected \cup {m} ELSE expected
  /\ UNCHANGED <<fds, pipe, npipes, captureVars, mtx, filelock, tty, pc, arg,
                 file, lost, printed>>

\* fflush: lock the C stream, resolve the descriptor, write, unlock.
FlushEnter(t) ==
  /\ pc[t] \in {"p_flush", "b_flush", "t_flush"}
  /\ filelock[arg[t].stream] = None
  /\ filelock' = [filelock EXCEPT ![arg[t].stream] = t]
  /\ file' = [file EXCEPT ![t] = fds[arg[t].stream]]
  /\ \/ pc[t] = "p_flush" /\ Goto(t, "p_write")
     \/ pc[t] = "b_flush" /\ Goto(t, "b_write")
     \/ pc[t] = "t_flush" /\ Goto(t, "t_write")
  /\ UNCHANGED <<fds, pipe, npipes, captureVars, mtx, stdio, tty, arg,
                 ghostVars>>

FlushWrite(t) ==
  /\ pc[t] \in {"p_write", "b_write", "t_write"}
  /\ stdio[arg[t].stream] # <<>>
  /\ Deliver(file[t], Head(stdio[arg[t].stream]))
  /\ stdio' = [stdio EXCEPT ![arg[t].stream] = Tail(@)]
  /\ UNCHANGED <<fds, npipes, captureVars, mtx, filelock, pc, arg, file,
                 unsent, printed, expected>>

\* A print that began and ended inside one capture is expected from its End.
FlushDone(t) ==
  /\ pc[t] \in {"p_write", "b_write", "t_write"}
  /\ stdio[arg[t].stream] = <<>>
  /\ filelock' = [filelock EXCEPT ![arg[t].stream] = None]
  /\ file' = [file EXCEPT ![t] = Closed]
  /\ \/ pc[t] = "p_write" /\ Goto(t, "idle")
     \/ pc[t] = "b_write" /\ Goto(t, "b_dup")
     \/ pc[t] = "t_write" /\ Goto(t, "e_done")
  /\ expected' = IF /\ pc[t] = "p_write" /\ capturing[arg[t].stream]
                    /\ arg[t].session = npipes
                 THEN expected \cup arg[t].msg ELSE expected
  /\ UNCHANGED <<fds, pipe, npipes, captureVars, mtx, stdio, tty, arg,
                 unsent, lost, printed>>

-----------------------------------------------------------------------------
(* BeginStdout and BeginStderr: begin_stdout and begin_stderr for a stream *)
(* s.  The extern "C" wrappers drop the returned flag, so a refused begin  *)
(* looks to its caller like one that succeeded.                            *)

IsActive == \E s \in Streams : capturing[s]

\* capturing_s is already set, or pipe() finds fewer than two descriptors.
BeginRefused(t, s) ==
  /\ t \in Owners /\ pc[t] = "idle" /\ mtx = None /\ s \in CaptureStreams
  /\ \/ capturing[s]
     \/ Cardinality({f \in Fds : fds[f] = Closed}) < 2
  /\ UNCHANGED vars

BeginPipe(t, s) ==
  /\ t \in Owners /\ pc[t] = "idle" /\ mtx = None /\ s \in CaptureStreams
  /\ ~capturing[s]
  /\ OneAtATime => ~IsActive
  /\ npipes < MaxPipes
  /\ npipes' = npipes + 1
  /\ \E r, w \in Fds :
       LET withRead == [fds EXCEPT ![r] = ReadEnd(npipes + 1)] IN
       /\ IsLowestClosed(fds, r) /\ IsLowestClosed(withRead, w)
       /\ fds' = [withRead EXCEPT ![w] = WriteEnd(npipes + 1)]
       /\ pipe_read_fd' = r /\ pipe_write_fd' = w
  /\ mtx' = t
  /\ arg' = [arg EXCEPT ![t] = [NoArg EXCEPT !.stream = s]]
  /\ Goto(t, "b_flush")
  /\ UNCHANGED <<pipe, saved, capturing, buffer, stdio, filelock, tty, file,
                 ghostVars>>

\* saved_s = dup(s), to the lowest closed descriptor.
BeginDup(t) ==
  /\ pc[t] = "b_dup"
  /\ \E f \in Fds :
       /\ IsLowestClosed(fds, f)
       /\ fds' = [fds EXCEPT ![f] = fds[arg[t].stream]]
       /\ saved' = [saved EXCEPT ![arg[t].stream] = f]
  /\ Goto(t, "b_dup2")
  /\ UNCHANGED <<pipe, npipes, pipe_read_fd, pipe_write_fd, capturing, buffer,
                 mtx, stdio, filelock, tty, arg, file, ghostVars>>

\* MUTANT of BeginDupFails: the write end stays open.
BeginDupFails_Leaks(t) ==
  /\ pc[t] = "b_dup"
  /\ ~HasClosed(fds)
  /\ saved' = [saved EXCEPT ![arg[t].stream] = -1]
  /\ fds' = Close(fds, pipe_read_fd)
  /\ mtx' = None
  /\ Goto(t, "idle")
  /\ UNCHANGED <<pipe, npipes, pipe_read_fd, pipe_write_fd, capturing, buffer,
                 stdio, filelock, tty, arg, file, ghostVars>>

\* dup failed: both ends are closed, the members keep their numbers.
BeginDupFails(t) ==
  /\ pc[t] = "b_dup"
  /\ ~HasClosed(fds)
  /\ saved' = [saved EXCEPT ![arg[t].stream] = -1]
  /\ fds' = Close(Close(fds, pipe_read_fd), pipe_write_fd)
  /\ mtx' = None
  /\ Goto(t, "idle")
  /\ UNCHANGED <<pipe, npipes, pipe_read_fd, pipe_write_fd, capturing, buffer,
                 stdio, filelock, tty, arg, file, ghostVars>>

\* MUTANT of BeginRedirect: dup2 with its arguments swapped.
BeginRedirect_Swapped(t) ==
  /\ pc[t] = "b_dup2"
  /\ fds' = [fds EXCEPT ![pipe_write_fd] = fds[arg[t].stream]]
  /\ Goto(t, "b_done")
  /\ UNCHANGED <<pipe, npipes, captureVars, mtx, stdio, filelock, tty, arg,
                 file, ghostVars>>

BeginRedirect(t) ==
  /\ pc[t] = "b_dup2"
  /\ fds' = [fds EXCEPT ![arg[t].stream] = fds[pipe_write_fd]]
  /\ Goto(t, "b_done")
  /\ UNCHANGED <<pipe, npipes, captureVars, mtx, stdio, filelock, tty, arg,
                 file, ghostVars>>

\* MUTANT of BeginDone: pipe_write_fd keeps the number of the closed end.
BeginDone_StaleFd(t) ==
  /\ pc[t] = "b_done"
  /\ fds' = Close(fds, pipe_write_fd)
  /\ capturing' = [capturing EXCEPT ![arg[t].stream] = TRUE]
  /\ buffer' = <<>>
  /\ mtx' = None
  /\ Goto(t, "idle")
  /\ expected' = IF IsActive THEN expected ELSE {}
  /\ UNCHANGED <<pipe, npipes, pipe_read_fd, pipe_write_fd, saved, stdio,
                 filelock, tty, arg, file, unsent, lost, printed>>

\* The program expects from End what it prints once a capture is active.
BeginDone(t) ==
  /\ pc[t] = "b_done"
  /\ fds' = Close(fds, pipe_write_fd)
  /\ pipe_write_fd' = -1
  /\ capturing' = [capturing EXCEPT ![arg[t].stream] = TRUE]
  /\ buffer' = <<>>
  /\ mtx' = None
  /\ Goto(t, "idle")
  /\ expected' = IF IsActive THEN expected ELSE {}
  /\ UNCHANGED <<pipe, npipes, pipe_read_fd, saved, stdio, filelock, tty, arg,
                 file, unsent, lost, printed>>

-----------------------------------------------------------------------------
(* End: end_capture.  With nothing captured it returns the last buffer.    *)

EndIdle(t) ==
  /\ t \in Owners /\ pc[t] = "idle" /\ mtx = None
  /\ ~IsActive
  /\ UNCHANGED vars

EndEnter(t) ==
  /\ t \in Owners /\ pc[t] = "idle" /\ mtx = None
  /\ IsActive
  /\ mtx' = t
  /\ fds' = Close(fds, pipe_write_fd)
  /\ pipe_write_fd' = -1
  /\ arg' = [arg EXCEPT ![t] = NoArg]
  /\ Goto(t, "e_restore")
  /\ UNCHANGED <<pipe, npipes, pipe_read_fd, saved, capturing, buffer, stdio,
                 filelock, tty, file, ghostVars>>

\* MUTANTS of EndRestore: the saved descriptor is closed before dup2 uses it,
\* and dup2 is forgotten.
EndRestore_CloseFirst(t, s) ==
  /\ pc[t] = "e_restore"
  /\ capturing[s]
  /\ s = STDERR => ~capturing[STDOUT]
  /\ fds' = [Close(fds, saved[s]) EXCEPT ![s] = Closed]
  /\ saved' = [saved EXCEPT ![s] = -1]
  /\ capturing' = [capturing EXCEPT ![s] = FALSE]
  /\ UNCHANGED <<pipe, npipes, pipe_read_fd, pipe_write_fd, buffer, mtx,
                 stdio, filelock, tty, pc, arg, file, ghostVars>>

EndRestore_NoDup2(t, s) ==
  /\ pc[t] = "e_restore"
  /\ capturing[s]
  /\ s = STDERR => ~capturing[STDOUT]
  /\ fds' = Close(fds, saved[s])
  /\ saved' = [saved EXCEPT ![s] = -1]
  /\ capturing' = [capturing EXCEPT ![s] = FALSE]
  /\ UNCHANGED <<pipe, npipes, pipe_read_fd, pipe_write_fd, buffer, mtx,
                 stdio, filelock, tty, pc, arg, file, ghostVars>>

\* stdout is restored before stderr.
EndRestore(t, s) ==
  /\ pc[t] = "e_restore"
  /\ capturing[s]
  /\ s = STDERR => ~capturing[STDOUT]
  /\ fds' = Close([fds EXCEPT ![s] = fds[saved[s]]], saved[s])
  /\ saved' = [saved EXCEPT ![s] = -1]
  /\ capturing' = [capturing EXCEPT ![s] = FALSE]
  /\ UNCHANGED <<pipe, npipes, pipe_read_fd, pipe_write_fd, buffer, mtx,
                 stdio, filelock, tty, pc, arg, file, ghostVars>>

\* fflush(stderr): stderr is unbuffered, but its lock must be free.
EndFlushStderr(t) ==
  /\ pc[t] = "e_restore" /\ ~IsActive
  /\ filelock[STDERR] = None
  /\ Goto(t, "e_read")
  /\ UNCHANGED <<fds, pipe, npipes, captureVars, mtx, stdio, filelock, tty,
                 arg, file, ghostVars>>

\* What pipe_read_fd refers to.
ReadFile == IF pipe_read_fd \in Fds THEN fds[pipe_read_fd] ELSE Closed

\* MUTANTS of EndRead: a chunk becomes one text, and chunks are prepended.
EndRead_Chunk(t) ==
  /\ pc[t] = "e_read"
  /\ ReadFile.kind = "read" /\ pipe[ReadFile.id] # <<>>
  /\ buffer' = Append(buffer, pipe[ReadFile.id])
  /\ pipe' = [pipe EXCEPT ![ReadFile.id] = <<>>]
  /\ UNCHANGED <<fds, npipes, pipe_read_fd, pipe_write_fd, saved, capturing,
                 mtx, stdio, filelock, tty, pc, arg, file, ghostVars>>

EndRead_Prepends(t) ==
  /\ pc[t] = "e_read"
  /\ ReadFile.kind = "read" /\ pipe[ReadFile.id] # <<>>
  /\ buffer' = pipe[ReadFile.id] \o buffer
  /\ pipe' = [pipe EXCEPT ![ReadFile.id] = <<>>]
  /\ UNCHANGED <<fds, npipes, pipe_read_fd, pipe_write_fd, saved, capturing,
                 mtx, stdio, filelock, tty, pc, arg, file, ghostVars>>

\* read() returned n > 0.
EndRead(t) ==
  /\ pc[t] = "e_read"
  /\ ReadFile.kind = "read" /\ pipe[ReadFile.id] # <<>>
  /\ buffer' = buffer \o pipe[ReadFile.id]
  /\ pipe' = [pipe EXCEPT ![ReadFile.id] = <<>>]
  /\ UNCHANGED <<fds, npipes, pipe_read_fd, pipe_write_fd, saved, capturing,
                 mtx, stdio, filelock, tty, pc, arg, file, ghostVars>>

\* read() returned 0, at end of file, or failed on a descriptor that is no
\* read end.
EndReadDone(t) ==
  /\ pc[t] = "e_read"
  /\ ReadFile.kind = "read" => pipe[ReadFile.id] = <<>> /\ NoWriter(ReadFile.id)
  /\ fds' = Close(fds, pipe_read_fd)
  /\ pipe_read_fd' = -1
  /\ Goto(t, "e_tee")
  /\ UNCHANGED <<pipe, npipes, pipe_write_fd, saved, capturing, buffer, mtx,
                 stdio, filelock, tty, arg, file, ghostVars>>

\* fwrite(buffer) to stdout, whichever stream was captured.
EndTee(t) ==
  /\ pc[t] = "e_tee"
  /\ filelock[STDOUT] = None
  /\ stdio' = [stdio EXCEPT ![STDOUT] = @ \o buffer]
  /\ Goto(t, "t_flush")
  /\ UNCHANGED <<fds, pipe, npipes, captureVars, mtx, filelock, tty, arg,
                 file, ghostVars>>

EndDone(t) ==
  /\ pc[t] = "e_done"
  /\ mtx' = None
  /\ Goto(t, "idle")
  /\ UNCHANGED <<fds, pipe, npipes, captureVars, stdio, filelock, tty, arg,
                 file, ghostVars>>

\* MUTANT of Peek: what is drained replaces the buffer.
Peek_Replaces(t) ==
  /\ t \in Owners /\ pc[t] = "idle" /\ mtx = None
  /\ IF IsActive /\ ReadFile.kind = "read"
     THEN /\ buffer' = pipe[ReadFile.id]
          /\ pipe' = [pipe EXCEPT ![ReadFile.id] = <<>>]
     ELSE UNCHANGED <<buffer, pipe>>
  /\ UNCHANGED <<fds, npipes, pipe_read_fd, pipe_write_fd, saved, capturing,
                 mtx, stdio, filelock, tty, pc, arg, file, ghostVars>>

\* Peek: peek drains the pipe without waiting; with nothing captured it
\* returns the last buffer.
Peek(t) ==
  /\ t \in Owners /\ pc[t] = "idle" /\ mtx = None
  /\ IF IsActive /\ ReadFile.kind = "read"
     THEN /\ buffer' = buffer \o pipe[ReadFile.id]
          /\ pipe' = [pipe EXCEPT ![ReadFile.id] = <<>>]
     ELSE UNCHANGED <<buffer, pipe>>
  /\ UNCHANGED <<fds, npipes, pipe_read_fd, pipe_write_fd, saved, capturing,
                 mtx, stdio, filelock, tty, pc, arg, file, ghostVars>>

-----------------------------------------------------------------------------
(* WriteStdout and WriteStderr: write_stdout and write_stderr.  They take  *)
(* no lock: the target number is chosen in one step and used in another.   *)

\* MUTANT of Target: the bypass ignores the saved descriptor.
Target_Fixed(s) == s

Target(s) == IF capturing[s] /\ saved[s] >= 0 THEN saved[s] ELSE s

WriteCall(t, s, m) ==
  /\ t \in Bypassers /\ pc[t] = "idle" /\ m \in unsent \cap MsgsOf(s)
  /\ unsent' = unsent \ {m}
  /\ arg' = [arg EXCEPT ![t] =
               [stream |-> s, msg |-> {m}, target |-> Target(s), session |-> 0]]
  /\ Goto(t, "w_call")
  /\ UNCHANGED <<fds, pipe, npipes, captureVars, mtx, stdio, filelock, tty,
                 file, lost, printed, expected>>

WriteResolve(t) ==
  /\ pc[t] = "w_call"
  /\ file' = [file EXCEPT ![t] = fds[arg[t].target]]
  /\ Goto(t, "w_write")
  /\ UNCHANGED <<fds, pipe, npipes, captureVars, mtx, stdio, filelock, tty,
                 arg, ghostVars>>

WriteDone(t) ==
  /\ pc[t] = "w_write"
  /\ \E m \in arg[t].msg : Deliver(file[t], m)
  /\ file' = [file EXCEPT ![t] = Closed]
  /\ Goto(t, "idle")
  /\ UNCHANGED <<fds, npipes, captureVars, mtx, stdio, filelock, arg, unsent,
                 printed, expected>>

-----------------------------------------------------------------------------
(* The rest of the process opens and closes files of its own.              *)

OpenOther ==
  /\ Cardinality({f \in Fds : fds[f] = OtherFile}) < MaxOther
  /\ \E f \in Fds :
       IsLowestClosed(fds, f) /\ fds' = [fds EXCEPT ![f] = OtherFile]
  /\ UNCHANGED <<pipe, npipes, captureVars, mtx, stdio, filelock, tty, pc, arg,
                 file, ghostVars>>

CloseOther ==
  /\ \E f \in Fds : fds[f] = OtherFile /\ fds' = Close(fds, f)
  /\ UNCHANGED <<pipe, npipes, captureVars, mtx, stdio, filelock, tty, pc, arg,
                 file, ghostVars>>

-----------------------------------------------------------------------------
\* A thread's next step inside a call.
Continue(t) ==
  \/ FlushEnter(t) \/ FlushWrite(t) \/ FlushDone(t)
  \/ BeginDup(t) \/ BeginDupFails(t) \/ BeginRedirect(t) \/ BeginDone(t)
  \/ \E s \in Streams : EndRestore(t, s)
  \/ EndFlushStderr(t) \/ EndRead(t) \/ EndReadDone(t) \/ EndTee(t)
  \/ EndDone(t)
  \/ WriteResolve(t) \/ WriteDone(t)

\* A thread calls the library.
Call(t) ==
  \/ \E m \in Msgs : Println(t, m) \/ Eprintln(t, m) \/ LogUnflushed(t, m)
  \/ \E s \in Streams : BeginRefused(t, s) \/ BeginPipe(t, s)
  \/ EndIdle(t) \/ EndEnter(t) \/ Peek(t)
  \/ \E s \in Streams, m \in Msgs : WriteCall(t, s, m)

Next ==
  \/ \E t \in Threads : Continue(t) \/ Call(t)
  \/ OpenOther \/ CloseOther

Spec == Init /\ [][Next]_vars

\* A thread inside a call keeps running when it can; nobody has to call.
FairSpec == Spec /\ \A t \in Threads : WF_vars(Continue(t))

-----------------------------------------------------------------------------
(* Properties.                                                             *)

RangeOf(seq) == {seq[i] : i \in 1 .. Len(seq)}

\* The texts of seq that are in S, in the order of seq.
Only(seq, S) ==
  LET only[i \in 0 .. Len(seq)] ==
        IF i = 0 THEN <<>>
        ELSE IF seq[i] \in S THEN Append(only[i - 1], seq[i]) ELSE only[i - 1]
  IN  only[Len(seq)]

\* Every variable has its type.
TypeOK ==
  /\ fds \in [Fds -> Files]
  /\ pipe \in [Pipes -> Seq(Msgs)]
  /\ npipes \in 0 .. MaxPipes
  /\ pipe_read_fd \in Fds \cup {-1}
  /\ pipe_write_fd \in Fds \cup {-1}
  /\ saved \in [Streams -> Fds \cup {-1}]
  /\ capturing \in [Streams -> BOOLEAN]
  /\ buffer \in Seq(Msgs)
  /\ mtx \in Threads \cup {None}
  /\ stdio \in [Streams -> Seq(Msgs)]
  /\ filelock \in [Streams -> Threads \cup {None}]
  /\ tty \in [Streams -> Seq(Msgs)]
  /\ pc \in [Threads -> Pcs]
  /\ arg \in [Threads -> [stream : Streams, msg : SUBSET Msgs,
                          target : Fds \cup {-1}, session : 0 .. MaxPipes]]
  /\ file \in [Threads -> Files]
  /\ unsent \subseteq Msgs /\ lost \subseteq Msgs /\ expected \subseteq Msgs
  /\ printed \in Seq(Msgs)

\* Between calls a captured stream writes to the pipe whose other end
\* pipe_read_fd holds, and the saved descriptor is the real stream: begin and
\* end leave dup2, dup and the members in agreement (io-wrapper.cpp:45-59,
\* 98-121).
Wired ==
  mtx = None =>
    \A s \in Streams : capturing[s] =>
      /\ \E p \in Pipes : fds[s] = WriteEnd(p) /\ ReadFile = ReadEnd(p)
      /\ saved[s] \in Fds /\ fds[saved[s]] = Tty(s)

\* Between calls, with nothing captured, the process holds its three standard
\* descriptors and its own files: no path of begin and end leaks an end of a
\* pipe or a saved descriptor, the failing ones included.
NothingLeaked ==
  mtx = None /\ ~IsActive =>
    \A f \in Fds : fds[f] \in IF f <= 2 THEN {Tty(f)} ELSE {Closed, OtherFile}

\* The capture never closes or replaces a file of the rest of the process: the
\* numbers left in the members of a failed begin are not closed once they name
\* somebody else's file (io-wrapper.cpp:50-54, 98).
OthersFilesKept ==
  [][\A f \in Fds : fds[f] = OtherFile /\ fds'[f] # OtherFile => CloseOther]_vars

\* No text is written to a descriptor that is closed or has changed hands.
NothingLost == lost = {}

\* What End is about to tee and return holds every text whose call returned
\* while the capture was active.  Print and Println flush their text themselves
\* (io-wrapper.cpp:245); End does not flush stdout before it restores the
\* descriptor (lines 98-106), so text that was left in the C stream is missing.
CaptureComplete ==
  \A t \in Threads : pc[t] = "e_tee" => expected \subseteq RangeOf(buffer)

\* The text a capture holds back: read already, or still in the pipe.
BufferHeld ==
  IsActive \/ \E t \in Threads : pc[t] \in {"e_restore", "e_read", "e_tee"}
Held ==
  (IF BufferHeld THEN buffer ELSE <<>>)
    \o (IF npipes = 0 THEN <<>> ELSE pipe[npipes])

\* The capture implements the tee it promises for the texts meant for stdout
\* (TeeStream).  Captured stderr text passes through the same C stream and comes
\* out on stdout too (io-wrapper.cpp:124); nothing is said of it here.
InFlight == UNION {arg[t].msg : t \in {u \in Threads : pc[u] \in WritePcs}}
OutOnly(seq) == Only(seq, OutMsgs)
Tee == INSTANCE TeeStream WITH
  Texts <- OutMsgs, waiting <- (unsent \cup InFlight) \cap OutMsgs,
  live <- OutOnly(stdio[STDOUT]), held <- OutOnly(Held),
  shown <- OutOnly(tty[STDOUT])
Teed == Tee!Spec

\* In a program of one thread no printed text overtakes another: the terminal
\* has a prefix of what was printed, the capture the next part, the C stream
\* the rest.  Unflushed text and text written past the capture may overtake.
InPrintOrder ==
  Only(tty[STDOUT] \o Held \o stdio[STDOUT], RangeOf(printed)) = printed

\* Captured output is not lost (README of io, line 316): when no call is in
\* progress and nothing is captured, every text is on a terminal, or still in
\* a C stream.
OutputNotLost ==
  (\A t \in Threads : pc[t] = "idle") /\ ~IsActive =>
    Msgs \subseteq unsent \cup UNION {RangeOf(tty[s]) \cup RangeOf(stdio[s]) :
                                      s \in Streams}

\* When WriteStdout or WriteStderr returns, its text is on the real stream.
BypassShown ==
  [][\A t \in Threads : WriteDone(t) =>
       arg[t].msg \subseteq RangeOf(tty'[arg[t].stream])]_vars

\* Begin and End return, although other threads print into the pipe while it
\* is drained.  End can stick at one place only, its flush of stderr before it
\* drains the pipe (io-wrapper.cpp:114), whose lock another thread holds.
FlushWaits(t) == pc[t] = "e_restore" /\ ~IsActive /\ filelock[STDERR] # None
CallsReturn ==
  \A t \in Threads :
    pc[t] \in LockedPcs ~> (pc[t] = "idle" \/ []FlushWaits(t))

\* End stops the capture and returns what it holds (io.fal:34-36).
EndReturns == \A t \in Threads : pc[t] \in EndPcs ~> pc[t] = "idle"
=============================================================================
