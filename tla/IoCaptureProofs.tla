-------------------------- MODULE IoCaptureProofs ---------------------------
(***************************************************************************)
(* Proofs about IoCapture, for a program that ends a capture before it     *)
(* begins another (OneAtATime), whatever the number of its threads, texts, *)
(* descriptors and captures, and however its calls interleave.             *)
(***************************************************************************)
EXTENDS IoCapture, SequenceTheorems, WellFoundedInduction, TLAPS

\* A thread is inside begin or end exactly while it holds the mutex.
MutexHeld ==
  /\ \A t \in Threads : pc[t] \in LockedPcs <=> mtx = t
  /\ \A t \in Threads : pc[t] = "w_call" => arg[t].target \in Fds

\* The descriptor table when the capture of stream s has redirected it (red),
\* and holds the read end (rd), the write end (wr) and the saved stream (sv).
Cell(f, s, red, rd, wr, sv) ==
  IF f <= 2 THEN fds[f] = IF red /\ f = s THEN WriteEnd(npipes) ELSE Tty(f)
  ELSE IF rd /\ f = pipe_read_fd THEN fds[f] = ReadEnd(npipes)
  ELSE IF wr /\ f = pipe_write_fd THEN fds[f] = WriteEnd(npipes)
  ELSE IF sv /\ f = saved[s] THEN fds[f] = Tty(s)
  ELSE fds[f] \in {Closed, OtherFile}

Layout(s, red, rd, wr, sv) ==
  /\ rd => pipe_read_fd \in Fds /\ pipe_read_fd > 2
  /\ wr => pipe_write_fd \in Fds /\ pipe_write_fd > 2
  /\ sv => saved[s] \in Fds /\ saved[s] > 2
  /\ rd /\ wr => pipe_read_fd # pipe_write_fd
  /\ rd /\ sv => pipe_read_fd # saved[s]
  /\ wr /\ sv => pipe_write_fd # saved[s]
  /\ \A f \in Fds : Cell(f, s, red, rd, wr, sv)

\* The stream being captured, and no other.
Capturing(s) ==
  /\ capturing[s]
  /\ \A u \in Streams : u # s => ~capturing[u]

Quiet(s)   == ~IsActive /\ Layout(s, FALSE, FALSE, FALSE, FALSE)
Piped(s)   == ~IsActive /\ Layout(s, FALSE, TRUE, TRUE, FALSE)
Duped(s)   == ~IsActive /\ Layout(s, FALSE, TRUE, TRUE, TRUE)
Diverted(s) == ~IsActive /\ Layout(s, TRUE, TRUE, TRUE, TRUE)
Captured(s) ==
  Capturing(s) /\ Layout(s, TRUE, TRUE, FALSE, TRUE) /\ pipe_write_fd = -1
Restored(s) ==
  ~IsActive /\ Layout(s, FALSE, TRUE, FALSE, FALSE) /\ pipe_write_fd = -1

\* What the table is at each point of begin and end.
At(t, s) ==
  /\ pc[t] \in {"b_flush", "b_write", "b_dup"} => Piped(s)
  /\ pc[t] = "b_dup2" => Duped(s)
  /\ pc[t] = "b_done" => Diverted(s)
  /\ pc[t] = "e_restore" =>
       Restored(STDOUT) \/ \E u \in Streams : Captured(u)
  /\ pc[t] = "e_read" => Restored(STDOUT)
  /\ pc[t] \in {"e_tee", "t_flush", "t_write", "e_done"} => Quiet(STDOUT)

Wiring ==
  /\ mtx = None => Quiet(STDOUT) \/ \E s \in Streams : Captured(s)
  /\ \A t \in Threads, s \in Streams : arg[t].stream = s => At(t, s)

IInv == TypeOK /\ MutexHeld /\ Wiring

-----------------------------------------------------------------------------
(* Types.                                                                  *)

LEMMA StdFds ==
  /\ Streams \subseteq Fds /\ -1 \notin Fds
  /\ Fds \subseteq Int
  /\ \A s \in Streams : s <= 2
BY BoundsAssumption DEF Fds, Streams, STDOUT, STDERR

LEMMA FilesApart ==
  /\ Closed \in Files /\ OtherFile \in Files /\ Closed # OtherFile
  /\ \A s : Tty(s) # Closed /\ Tty(s) # OtherFile
  /\ \A p : ReadEnd(p) # Closed /\ ReadEnd(p) # OtherFile
  /\ \A p : WriteEnd(p) # Closed /\ WriteEnd(p) # OtherFile
BY DEF Closed, OtherFile, Tty, ReadEnd, WriteEnd, Files

LEMMA WriteEndFile ==
  ASSUME NEW n, WriteEnd(n) \in Files
  PROVE  n \in Pipes
<1>1. \A s : WriteEnd(n) # Tty(s)
  BY DEF WriteEnd, Tty
<1>2. \A p : WriteEnd(n) # ReadEnd(p)
  BY DEF WriteEnd, ReadEnd
<1>3. PICK p \in Pipes : WriteEnd(n) = WriteEnd(p)
  BY <1>1, <1>2, FilesApart DEF Files
<1>4. n = p
  BY <1>3 DEF WriteEnd
<1>5. QED
  BY <1>4

LEMMA CloseType ==
  ASSUME NEW table \in [Fds -> Files], NEW f
  PROVE  Close(table, f) \in [Fds -> Files]
BY DEF Close, Files

LEMMA InitTypeOK == Init => TypeOK
<1>1. SUFFICES ASSUME Init PROVE TypeOK
  OBVIOUS
<1>2. fds \in [Fds -> Files]
  BY <1>1, BoundsAssumption DEF Init, Fds, Files
<1>3. NoArg \in [stream : Streams, msg : SUBSET Msgs, target : Fds \cup {-1},
                 session : 0 .. MaxPipes]
  BY BoundsAssumption DEF NoArg, Streams
<1>4. /\ pc \in [Threads -> Pcs]
      /\ file \in [Threads -> Files]
      /\ arg \in [Threads -> [stream : Streams, msg : SUBSET Msgs,
                              target : Fds \cup {-1}, session : 0 .. MaxPipes]]
  BY <1>1, <1>3 DEF Init, Pcs, IdlePcs, Files
<1>5. QED
  BY <1>1, <1>2, <1>4, BoundsAssumption DEF Init, TypeOK

\* The types of the ghost variables and of the C streams do not depend on the
\* descriptors.
LEMMA SeqFacts ==
  /\ <<>> \in Seq(Msgs)
  /\ \A seq \in Seq(Msgs), m \in Msgs : Append(seq, m) \in Seq(Msgs)
  /\ \A s1, s2 \in Seq(Msgs) : s1 \o s2 \in Seq(Msgs)
  /\ \A seq \in Seq(Msgs) : seq # <<>> =>
       Head(seq) \in Msgs /\ Tail(seq) \in Seq(Msgs)
OBVIOUS

LEMMA CallArgType ==
  ASSUME TypeOK, NEW s \in Streams, NEW m \in Msgs
  PROVE  CallArg(s, m) \in [stream : Streams, msg : SUBSET Msgs,
                            target : Fds \cup {-1}, session : 0 .. MaxPipes]
BY BoundsAssumption DEF CallArg, TypeOK

LEMMA DeliverType ==
  ASSUME TypeOK, NEW f \in Files, NEW m \in Msgs, Deliver(f, m)
  PROVE  /\ pipe' \in [Pipes -> Seq(Msgs)]
         /\ tty' \in [Streams -> Seq(Msgs)]
         /\ lost' \subseteq Msgs
<1>1. CASE f.kind = "tty" /\ f.id \in Streams
  <2>1. Append(tty[f.id], m) \in Seq(Msgs)
    BY <1>1, SeqFacts DEF TypeOK
  <2>2. tty' = [tty EXCEPT ![f.id] = Append(tty[f.id], m)] /\ UNCHANGED <<pipe, lost>>
    BY <1>1 DEF Deliver
  <2>3. QED
    BY <1>1, <2>1, <2>2 DEF TypeOK
<1>2. CASE f.kind = "write" /\ Len(pipe[f.id]) < PipeCap
  <2>1. f.id \in Pipes
    BY <1>2 DEF Files, Closed, OtherFile, Tty, ReadEnd, WriteEnd
  <2>2. Append(pipe[f.id], m) \in Seq(Msgs)
    BY <2>1, SeqFacts DEF TypeOK
  <2>3. pipe' = [pipe EXCEPT ![f.id] = Append(pipe[f.id], m)] /\ UNCHANGED <<tty, lost>>
    BY <1>2 DEF Deliver
  <2>4. QED
    BY <2>1, <2>2, <2>3 DEF TypeOK
<1>3. CASE f.kind \in {"closed", "read", "file"}
  BY <1>3 DEF Deliver, TypeOK
<1>4. QED
  BY <1>1, <1>2, <1>3 DEF Deliver

LEMMA PrintType ==
  ASSUME TypeOK, NEW t \in Threads, NEW m \in Msgs,
         Println(t, m) \/ Eprintln(t, m) \/ LogUnflushed(t, m)
  PROVE  TypeOK'
<1>1. STDOUT \in Streams /\ STDERR \in Streams /\ STDERR \in Fds
  BY StdFds DEF Streams
<1>2. CASE Println(t, m)
  <2>1. CallArg(STDOUT, m) \in [stream : Streams, msg : SUBSET Msgs,
                            target : Fds \cup {-1}, session : 0 .. MaxPipes]
    BY <1>1, CallArgType
  <2>2. QED
    BY <1>1, <1>2, <2>1, SeqFacts
    DEF Println, Goto, TypeOK, Pcs, PrintPcs, captureVars
<1>3. CASE Eprintln(t, m)
  <2>1. CallArg(STDERR, m) \in [stream : Streams, msg : SUBSET Msgs,
                            target : Fds \cup {-1}, session : 0 .. MaxPipes]
    BY <1>1, CallArgType
  <2>2. QED
    BY <1>1, <1>3, <2>1, SeqFacts
    DEF Eprintln, Goto, TypeOK, Pcs, PrintPcs, captureVars
<1>4. CASE LogUnflushed(t, m)
  BY <1>1, <1>4, SeqFacts DEF LogUnflushed, TypeOK, captureVars
<1>5. QED
  BY <1>2, <1>3, <1>4

LEMMA FlushType ==
  ASSUME TypeOK, NEW t \in Threads,
         FlushEnter(t) \/ FlushWrite(t) \/ FlushDone(t)
  PROVE  TypeOK'
<1>1. arg[t].stream \in Streams /\ arg[t].stream \in Fds /\ arg[t].msg \subseteq Msgs
  BY StdFds DEF TypeOK
<1>2. CASE FlushEnter(t)
  BY <1>1, <1>2
  DEF FlushEnter, Goto, TypeOK, Pcs, PrintPcs, BeginPcs, EndPcs, captureVars,
      ghostVars
<1>3. CASE FlushWrite(t)
  <2>1. /\ file[t] \in Files
        /\ Head(stdio[arg[t].stream]) \in Msgs
        /\ Tail(stdio[arg[t].stream]) \in Seq(Msgs)
    BY <1>1, <1>3, SeqFacts DEF FlushWrite, TypeOK
  <2>2. /\ pipe' \in [Pipes -> Seq(Msgs)]
        /\ tty' \in [Streams -> Seq(Msgs)]
        /\ lost' \subseteq Msgs
    BY <1>3, <2>1, DeliverType DEF FlushWrite
  <2>3. QED
    BY <1>1, <1>3, <2>1, <2>2 DEF FlushWrite, TypeOK, captureVars
<1>4. CASE FlushDone(t)
  BY <1>1, <1>4, FilesApart
  DEF FlushDone, Goto, TypeOK, Pcs, IdlePcs, BeginPcs, EndPcs, captureVars, Files
<1>5. QED
  BY <1>2, <1>3, <1>4

LEMMA AtRestore ==
  ASSUME TypeOK, Wiring, NEW t \in Threads, NEW s \in Streams, EndRestore(t, s)
  PROVE  Captured(s)
<1>1. PICK u \in Streams : Captured(u)
  BY DEF Wiring, At, EndRestore, Restored, IsActive, TypeOK
<1>2. u = s
  BY <1>1 DEF EndRestore, Captured, Capturing
<1>3. QED
  BY <1>1, <1>2

LEMMA BeginType ==
  ASSUME TypeOK, Wiring, NEW t \in Threads, NEW s \in Streams,
         \/ BeginPipe(t, s) \/ BeginDup(t) \/ BeginDupFails(t)
         \/ BeginRedirect(t) \/ BeginDone(t)
  PROVE  TypeOK'
<1>1. arg[t].stream \in Streams /\ arg[t].stream \in Fds
  BY StdFds DEF TypeOK
<1>2. CASE BeginPipe(t, s)
  <2>1. npipes + 1 \in Pipes /\ npipes + 1 \in 0 .. MaxPipes
    BY <1>2, BoundsAssumption DEF BeginPipe, TypeOK, Pipes
  <2>2. ReadEnd(npipes + 1) \in Files /\ WriteEnd(npipes + 1) \in Files
    BY <2>1 DEF Files
  <2>3. /\ fds' \in [Fds -> Files]
        /\ pipe_read_fd' \in Fds /\ pipe_write_fd' \in Fds
    BY <1>2, <2>2 DEF BeginPipe, TypeOK
  <2>4. [NoArg EXCEPT !.stream = s] \in
          [stream : Streams, msg : SUBSET Msgs, target : Fds \cup {-1},
           session : 0 .. MaxPipes]
    BY BoundsAssumption DEF NoArg
  <2>5. QED
    BY <1>2, <2>1, <2>3, <2>4
    DEF BeginPipe, Goto, TypeOK, Pcs, BeginPcs, ghostVars
<1>3. CASE BeginDup(t)
  BY <1>1, <1>3 DEF BeginDup, Goto, TypeOK, Pcs, BeginPcs, ghostVars
<1>4. CASE BeginDupFails(t)
  <2>1. fds' \in [Fds -> Files]
    BY <1>4, CloseType DEF BeginDupFails, TypeOK
  <2>2. QED
    BY <1>1, <1>4, <2>1 DEF BeginDupFails, Goto, TypeOK, Pcs, IdlePcs, ghostVars
<1>5. CASE BeginRedirect(t)
  <2>1. pipe_write_fd \in Fds
    BY <1>1, <1>5 DEF BeginRedirect, Wiring, At, Duped, Layout
  <2>2. QED
    BY <1>1, <1>5, <2>1
    DEF BeginRedirect, Goto, TypeOK, Pcs, BeginPcs, ghostVars, captureVars
<1>6. CASE BeginDone(t)
  <2>1. fds' \in [Fds -> Files]
    BY <1>6, CloseType DEF BeginDone, TypeOK
  <2>2. QED
    BY <1>1, <1>6, <2>1 DEF BeginDone, Goto, TypeOK, Pcs, IdlePcs
<1>7. QED
  BY <1>2, <1>3, <1>4, <1>5, <1>6

LEMMA EndType ==
  ASSUME TypeOK, Wiring, NEW t \in Threads, NEW s \in Streams,
         \/ EndEnter(t) \/ EndRestore(t, s) \/ EndFlushStderr(t) \/ EndRead(t)
         \/ EndReadDone(t) \/ EndTee(t) \/ EndDone(t) \/ Peek(t)
  PROVE  TypeOK'
<1>1. STDOUT \in Streams
  BY DEF Streams
<1>2. CASE EndEnter(t)
  <2>1. fds' \in [Fds -> Files]
    BY <1>2, CloseType DEF EndEnter, TypeOK
  <2>2. NoArg \in [stream : Streams, msg : SUBSET Msgs, target : Fds \cup {-1},
                   session : 0 .. MaxPipes]
    BY BoundsAssumption DEF NoArg, Streams
  <2>3. QED
    BY <1>2, <2>1, <2>2 DEF EndEnter, Goto, TypeOK, Pcs, EndPcs, ghostVars
<1>3. CASE EndRestore(t, s)
  <2>1. saved[s] \in Fds
    BY <1>3, AtRestore DEF Captured, Layout
  <2>2. [fds EXCEPT ![s] = fds[saved[s]]] \in [Fds -> Files]
    BY <2>1, StdFds DEF TypeOK
  <2>3. fds' \in [Fds -> Files]
    BY <1>3, <2>2, CloseType DEF EndRestore
  <2>4. QED
    BY <1>3, <2>3 DEF EndRestore, TypeOK, ghostVars
<1>4. CASE EndFlushStderr(t)
  BY <1>4 DEF EndFlushStderr, Goto, TypeOK, Pcs, EndPcs, captureVars, ghostVars
<1>5. ReadFile.kind = "read" => ReadFile.id \in Pipes
  <2>1. ReadFile \in Files
    BY DEF TypeOK, ReadFile, Files
  <2>2. QED
    BY <2>1 DEF Files, Closed, OtherFile, Tty, ReadEnd, WriteEnd
<1>6. CASE EndRead(t)
  <2>1. buffer \o pipe[ReadFile.id] \in Seq(Msgs)
    BY <1>5, <1>6, SeqFacts DEF EndRead, TypeOK
  <2>2. [pipe EXCEPT ![ReadFile.id] = <<>>] \in [Pipes -> Seq(Msgs)]
    BY SeqFacts DEF TypeOK
  <2>3. QED
    BY <1>6, <2>1, <2>2 DEF EndRead, TypeOK, ghostVars
<1>7. CASE EndReadDone(t)
  <2>1. fds' \in [Fds -> Files]
    BY <1>7, CloseType DEF EndReadDone, TypeOK
  <2>2. QED
    BY <1>7, <2>1 DEF EndReadDone, Goto, TypeOK, Pcs, EndPcs, ghostVars
<1>8. CASE EndTee(t)
  <2>1. stdio[STDOUT] \o buffer \in Seq(Msgs)
    BY <1>1, SeqFacts DEF TypeOK
  <2>2. QED
    BY <1>8, <2>1 DEF EndTee, Goto, TypeOK, Pcs, EndPcs, captureVars, ghostVars
<1>9. CASE EndDone(t)
  BY <1>9 DEF EndDone, Goto, TypeOK, Pcs, IdlePcs, captureVars, ghostVars
<1>10. CASE Peek(t)
  <2>1. buffer' \in Seq(Msgs) /\ pipe' \in [Pipes -> Seq(Msgs)]
    <3>1. CASE IsActive /\ ReadFile.kind = "read"
      <4>1. buffer \o pipe[ReadFile.id] \in Seq(Msgs)
        BY <1>5, <3>1, SeqFacts DEF TypeOK
      <4>2. [pipe EXCEPT ![ReadFile.id] = <<>>] \in [Pipes -> Seq(Msgs)]
        BY SeqFacts DEF TypeOK
      <4>3. QED
        BY <1>10, <3>1, <4>1, <4>2 DEF Peek
    <3>2. CASE ~(IsActive /\ ReadFile.kind = "read")
      BY <1>10, <3>2 DEF Peek, TypeOK
    <3>3. QED
      BY <3>1, <3>2
  <2>2. QED
    BY <1>10, <2>1 DEF Peek, TypeOK, ghostVars
<1>11. QED
  BY <1>2, <1>3, <1>4, <1>6, <1>7, <1>8, <1>9, <1>10

LEMMA WriteCallType ==
  ASSUME TypeOK, NEW t \in Threads, NEW s \in Streams, NEW m \in Msgs,
         WriteCall(t, s, m)
  PROVE  TypeOK'
<1>1. Target(s) \in Fds
  BY StdFds DEF Target, TypeOK, Fds
<1>2. [stream |-> s, msg |-> {m}, target |-> Target(s), session |-> 0]
        \in [stream : Streams, msg : SUBSET Msgs, target : Fds \cup {-1},
             session : 0 .. MaxPipes]
  BY <1>1, BoundsAssumption
<1>3. QED
  BY <1>2 DEF WriteCall, Goto, TypeOK, Pcs, WritePcs, captureVars

LEMMA WriteType ==
  ASSUME TypeOK, MutexHeld, NEW t \in Threads,
         WriteResolve(t) \/ WriteDone(t)
  PROVE  TypeOK'
<1>1. CASE WriteResolve(t)
  <2>1. arg[t].target \in Fds
    BY <1>1 DEF WriteResolve, MutexHeld
  <2>2. QED
    BY <1>1, <2>1
    DEF WriteResolve, Goto, TypeOK, Pcs, WritePcs, captureVars, ghostVars
<1>2. CASE WriteDone(t)
  <2>1. PICK n \in arg[t].msg : Deliver(file[t], n)
    BY <1>2 DEF WriteDone
  <2>2. n \in Msgs /\ file[t] \in Files /\ Closed \in Files
    BY <2>1 DEF TypeOK, Files
  <2>3. /\ pipe' \in [Pipes -> Seq(Msgs)]
        /\ tty' \in [Streams -> Seq(Msgs)]
        /\ lost' \subseteq Msgs
    BY <2>1, <2>2, DeliverType
  <2>4. QED
    BY <1>2, <2>2, <2>3
    DEF WriteDone, Goto, TypeOK, Pcs, IdlePcs, captureVars
<1>3. QED
  BY <1>1, <1>2

LEMMA OtherType ==
  ASSUME TypeOK, OpenOther \/ CloseOther
  PROVE  TypeOK'
<1>1. OtherFile \in Files
  BY DEF Files
<1>2. CASE OpenOther
  <2>1. fds' \in [Fds -> Files]
    BY <1>1, <1>2 DEF OpenOther, TypeOK
  <2>2. QED
    BY <1>2, <2>1 DEF OpenOther, TypeOK, captureVars, ghostVars
<1>3. CASE CloseOther
  <2>1. PICK f \in Fds : fds' = Close(fds, f)
    BY <1>3 DEF CloseOther
  <2>2. fds' \in [Fds -> Files]
    BY <2>1, CloseType DEF TypeOK
  <2>3. QED
    BY <1>3, <2>2 DEF CloseOther, TypeOK, captureVars, ghostVars
<1>4. QED
  BY <1>2, <1>3

LEMMA StepTypeOK ==
  ASSUME TypeOK, MutexHeld, Wiring, [Next]_vars
  PROVE  TypeOK'
<1>1. CASE UNCHANGED vars
  BY <1>1 DEF vars, TypeOK
<1>2. ASSUME NEW t \in Threads, Continue(t) PROVE TypeOK'
  <2>1. STDOUT \in Streams
    BY DEF Streams
  <2>2. CASE \E s \in Streams : EndRestore(t, s)
    BY <2>2, EndType
  <2>3. QED
    BY <1>2, <2>1, <2>2, FlushType, BeginType, EndType, WriteType
    DEF Continue
<1>3. ASSUME NEW t \in Threads, Call(t) PROVE TypeOK'
  <2>1. STDOUT \in Streams
    BY DEF Streams
  <2>2. ASSUME NEW s \in Streams, BeginRefused(t, s) PROVE TypeOK'
    BY <2>2, <1>1 DEF BeginRefused
  <2>3. CASE EndIdle(t)
    BY <2>3, <1>1 DEF EndIdle
  <2>4. QED
    BY <1>3, <2>1, <2>2, <2>3, PrintType, BeginType, EndType, WriteCallType
    DEF Call
<1>4. QED
  BY <1>1, <1>2, <1>3, OtherType DEF Next

-----------------------------------------------------------------------------
(* The mutex.                                                              *)

LEMMA StepMutexHeld ==
  ASSUME TypeOK, MutexHeld, [Next]_vars
  PROVE  MutexHeld'
<1> USE NoneAssumption
    DEF LockedPcs, BeginPcs, EndPcs, Goto
<1>1. CASE UNCHANGED vars
  BY <1>1 DEF vars, MutexHeld
<1>2. ASSUME NEW t \in Threads, Continue(t) PROVE MutexHeld'
  <2>1. CASE FlushEnter(t) \/ FlushWrite(t) \/ FlushDone(t)
    BY <2>1 DEF FlushEnter, FlushWrite, FlushDone, TypeOK, MutexHeld
  <2>2. CASE BeginDup(t) \/ BeginDupFails(t) \/ BeginRedirect(t) \/ BeginDone(t)
    BY <2>2
    DEF BeginDup, BeginDupFails, BeginRedirect, BeginDone, TypeOK, MutexHeld
  <2>3. CASE \E s \in Streams : EndRestore(t, s)
    BY <2>3 DEF EndRestore, TypeOK, MutexHeld
  <2>4. CASE \/ EndFlushStderr(t) \/ EndRead(t) \/ EndReadDone(t)
             \/ EndTee(t) \/ EndDone(t)
    BY <2>4
    DEF EndFlushStderr, EndRead, EndReadDone, EndTee, EndDone, TypeOK, MutexHeld
  <2>5. CASE WriteResolve(t) \/ WriteDone(t)
    BY <2>5 DEF WriteResolve, WriteDone, TypeOK, MutexHeld
  <2>6. QED
    BY <1>2, <2>1, <2>2, <2>3, <2>4, <2>5 DEF Continue
<1>3. ASSUME NEW t \in Threads, Call(t) PROVE MutexHeld'
  <2>1. ASSUME NEW m \in Msgs, Println(t, m) \/ Eprintln(t, m) \/ LogUnflushed(t, m)
        PROVE  MutexHeld'
    BY <2>1 DEF Println, Eprintln, LogUnflushed, TypeOK, MutexHeld
  <2>2. ASSUME NEW s \in Streams, BeginRefused(t, s) PROVE MutexHeld'
    BY <2>2, <1>1 DEF BeginRefused
  <2>3. ASSUME NEW s \in Streams, BeginPipe(t, s) PROVE MutexHeld'
    BY <2>3 DEF BeginPipe, TypeOK, MutexHeld
  <2>4. CASE EndIdle(t)
    BY <2>4, <1>1 DEF EndIdle
  <2>5. CASE EndEnter(t) \/ Peek(t)
    BY <2>5 DEF EndEnter, Peek, TypeOK, MutexHeld
  <2>6. ASSUME NEW s \in Streams, NEW m \in Msgs, WriteCall(t, s, m)
        PROVE  MutexHeld'
    <3>1. Target(s) \in Fds
      BY StdFds DEF Target, TypeOK, Fds
    <3>2. QED
      BY <2>6, <3>1 DEF WriteCall, TypeOK, MutexHeld
  <2>7. QED
    BY <1>3, <2>1, <2>2, <2>3, <2>4, <2>5, <2>6 DEF Call
<1>4. CASE OpenOther \/ CloseOther
  BY <1>4 DEF OpenOther, CloseOther, MutexHeld
<1>5. QED
  BY <1>1, <1>2, <1>3, <1>4 DEF Next

-----------------------------------------------------------------------------
(* The wiring.                                                             *)

\* Without a role, the stream a layout is about does not matter.
LEMMA QuietAnyStream ==
  ASSUME NEW s \in Streams, NEW u \in Streams, Quiet(s)
  PROVE  Quiet(u)
BY DEF Quiet, Layout, Cell

\* Steps that leave the table alone and move within one phase of begin or end.
LEMMA Calm ==
  ASSUME TypeOK, Wiring,
         UNCHANGED <<fds, npipes, pipe_read_fd, pipe_write_fd, saved,
                     capturing, mtx>>,
         \A t \in Threads : pc'[t] \in LockedPcs =>
           /\ arg'[t].stream = arg[t].stream
           /\ \/ pc'[t] = pc[t]
              \/ pc[t] \in {"b_flush", "b_write"} /\ pc'[t] \in {"b_write", "b_dup"}
              \/ /\ pc[t] \in {"e_tee", "t_flush", "t_write"}
                 /\ pc'[t] \in {"t_flush", "t_write", "e_done"}
  PROVE  Wiring'
<1>1. ASSUME NEW s
      PROVE  /\ Quiet(s)' = Quiet(s) /\ Piped(s)' = Piped(s)
             /\ Duped(s)' = Duped(s) /\ Diverted(s)' = Diverted(s)
             /\ Captured(s)' = Captured(s) /\ Restored(s)' = Restored(s)
  BY DEF Quiet, Piped, Duped, Diverted, Captured, Restored, Capturing, Layout,
         Cell, IsActive
<1>2. (mtx = None)' => Quiet(STDOUT)' \/ \E s \in Streams : Captured(s)'
  BY <1>1 DEF Wiring
<1>3. ASSUME NEW t \in Threads, NEW s \in Streams, arg'[t].stream = s
      PROVE  At(t, s)'
  <2>1. CASE pc'[t] \in LockedPcs
    <3>1. At(t, s)
      BY <1>3, <2>1 DEF Wiring
    <3>2. QED
      BY <1>1, <2>1, <3>1 DEF At
  <2>2. CASE pc'[t] \notin LockedPcs
    BY <2>2 DEF At, LockedPcs, BeginPcs, EndPcs
  <2>3. QED
    BY <2>1, <2>2
<1>4. QED
  BY <1>2, <1>3 DEF Wiring

\* Only the thread that holds the mutex is at a point the wiring speaks of.
LEMMA Alone ==
  ASSUME MutexHeld', NEW t \in Threads, mtx' = t,
         NEW s \in Streams, arg'[t].stream = s, At(t, s)'
  PROVE  Wiring'
<1>1. (mtx = None)' => FALSE
  BY NoneAssumption
<1>2. ASSUME NEW u \in Threads, NEW v \in Streams, arg'[u].stream = v
      PROVE  At(u, v)'
  <2>1. CASE u = t
    BY <2>1, <1>2
  <2>2. CASE u # t
    <3>1. pc'[u] \notin LockedPcs
      BY <2>2 DEF MutexHeld
    <3>2. QED
      BY <3>1 DEF At, LockedPcs, BeginPcs, EndPcs
  <2>3. QED
    BY <2>1, <2>2
<1>3. QED
  BY <1>1, <1>2 DEF Wiring

\* Nobody is at such a point once the mutex is free.
LEMMA Nobody ==
  ASSUME MutexHeld', mtx' = None,
         Quiet(STDOUT)' \/ \E s \in Streams : Captured(s)'
  PROVE  Wiring'
<1>1. ASSUME NEW u \in Threads, NEW v \in Streams
      PROVE  At(u, v)'
  <2>1. pc'[u] \notin LockedPcs
    BY NoneAssumption DEF MutexHeld
  <2>2. QED
    BY <2>1 DEF At, LockedPcs, BeginPcs, EndPcs
<1>2. QED
  BY <1>1 DEF Wiring

\* A descriptor that is closed, or somebody else's, has no role.
LEMMA NoRole ==
  ASSUME NEW s \in Streams, NEW red \in BOOLEAN, NEW rd \in BOOLEAN,
         NEW wr \in BOOLEAN, NEW sv \in BOOLEAN, Layout(s, red, rd, wr, sv),
         NEW f \in Fds, fds[f] \in {Closed, OtherFile}
  PROVE  /\ f > 2 /\ (rd => f # pipe_read_fd) /\ (wr => f # pipe_write_fd)
         /\ sv => f # saved[s]
<1>1. f > 2
  <2>1. f \in Int
    BY StdFds
  <2>2. ~(f <= 2)
    BY FilesApart DEF Layout, Cell
  <2>3. QED
    BY <2>1, <2>2
<1>2. QED
  BY <1>1, FilesApart DEF Layout, Cell

LEMMA PipeWires ==
  ASSUME OneAtATime, TypeOK, Wiring, MutexHeld',
         NEW t \in Threads, NEW s \in Streams, BeginPipe(t, s)
  PROVE  Wiring'
<1>1. Quiet(STDOUT) /\ ~IsActive
  BY DEF BeginPipe, Wiring, Captured, Capturing, IsActive
<1>2. Quiet(s)
  BY <1>1, QuietAnyStream DEF Streams
<1>3. PICK r \in Fds, w \in Fds :
        LET withRead == [fds EXCEPT ![r] = ReadEnd(npipes + 1)] IN
        /\ IsLowestClosed(fds, r) /\ IsLowestClosed(withRead, w)
        /\ fds' = [withRead EXCEPT ![w] = WriteEnd(npipes + 1)]
        /\ pipe_read_fd' = r /\ pipe_write_fd' = w
  BY DEF BeginPipe
<1>4. fds[r] = Closed /\ fds[w] = Closed /\ r # w
  BY <1>3, FilesApart DEF IsLowestClosed, TypeOK
<1>5. r > 2 /\ w > 2
  BY <1>2, <1>4, NoRole DEF Quiet
<1>6. fds' = [fds EXCEPT ![r] = ReadEnd(npipes + 1), ![w] = WriteEnd(npipes + 1)]
  BY <1>3
<1>7. Layout(s, FALSE, TRUE, TRUE, FALSE)'
  <2>1. ASSUME NEW g \in Fds PROVE Cell(g, s, FALSE, TRUE, TRUE, FALSE)'
    <3>1. Cell(g, s, FALSE, FALSE, FALSE, FALSE) /\ g \in Int
      BY <1>2, StdFds DEF Quiet, Layout
    <3>2. fds'[g] = IF g = w THEN WriteEnd(npipes + 1)
                    ELSE IF g = r THEN ReadEnd(npipes + 1) ELSE fds[g]
      BY <1>6 DEF TypeOK
    <3>3. pipe_read_fd' = r /\ pipe_write_fd' = w /\ npipes' = npipes + 1
      BY <1>3 DEF BeginPipe
    <3>4. QED
      BY <1>4, <1>5, <3>1, <3>2, <3>3 DEF Cell
  <2>2. QED
    BY <1>3, <1>4, <1>5, <2>1 DEF Layout
<1>8. Piped(s)'
  BY <1>1, <1>7 DEF Piped, IsActive, BeginPipe
<1>9. mtx' = t /\ arg'[t].stream = s /\ pc'[t] = "b_flush"
  BY DEF BeginPipe, Goto, TypeOK, NoArg
<1>10. At(t, s)'
  BY <1>8, <1>9 DEF At
<1>11. QED
  BY <1>9, <1>10, Alone

LEMMA DupWires ==
  ASSUME TypeOK, MutexHeld, Wiring, MutexHeld', NEW t \in Threads,
         NEW s \in Streams, arg[t].stream = s, BeginDup(t)
  PROVE  Wiring'
<1>1. s \in Fds /\ s <= 2
  BY StdFds DEF TypeOK
<1>2. Piped(s)
  BY <1>1 DEF BeginDup, Wiring, At
<1>3. PICK f \in Fds :
        /\ fds[f] = Closed
        /\ fds' = [fds EXCEPT ![f] = fds[s]]
        /\ saved' = [saved EXCEPT ![s] = f]
  BY DEF BeginDup, IsLowestClosed
<1>4. fds[s] = Tty(s) /\ f > 2 /\ f # pipe_read_fd /\ f # pipe_write_fd
  <2>1. fds[s] = Tty(s)
    BY <1>1, <1>2 DEF Piped, Layout, Cell
  <2>2. QED
    BY <1>2, <1>3, <2>1, NoRole DEF Piped
<1>5. Layout(s, FALSE, TRUE, TRUE, TRUE)'
  <2>1. ASSUME NEW g \in Fds PROVE Cell(g, s, FALSE, TRUE, TRUE, TRUE)'
    <3>1. Cell(g, s, FALSE, TRUE, TRUE, FALSE) /\ g \in Int
      BY <1>2, StdFds DEF Piped, Layout
    <3>2. fds'[g] = IF g = f THEN Tty(s) ELSE fds[g]
      BY <1>3, <1>4 DEF TypeOK
    <3>3. saved'[s] = f
      BY <1>3 DEF TypeOK
    <3>4. QED
      BY <1>4, <3>1, <3>2, <3>3 DEF Cell, BeginDup
  <2>2. saved'[s] = f
    BY <1>3 DEF TypeOK
  <2>3. QED
    BY <1>2, <1>4, <2>1, <2>2 DEF Piped, Layout, BeginDup
<1>6. Duped(s)'
  BY <1>2, <1>5 DEF Piped, Duped, IsActive, BeginDup
<1>7. /\ mtx' = t /\ arg' = arg /\ pc'[t] = "b_dup2"
  BY DEF BeginDup, MutexHeld, LockedPcs, BeginPcs, Goto, TypeOK
<1>8. At(t, s)'
  BY <1>6, <1>7 DEF At
<1>9. QED
  BY <1>1, <1>7, <1>8, Alone

LEMMA DupFailureWires ==
  ASSUME TypeOK, Wiring, MutexHeld', NEW t \in Threads,
         NEW s \in Streams, arg[t].stream = s, BeginDupFails(t)
  PROVE  Wiring'
<1>1. Piped(s)
  BY DEF BeginDupFails, Wiring, At
<1>2. /\ pipe_read_fd \in Fds /\ pipe_write_fd \in Fds
      /\ pipe_read_fd > 2 /\ pipe_write_fd > 2
  BY <1>1 DEF Piped, Layout
<1>3. fds' = [fds EXCEPT ![pipe_read_fd] = Closed, ![pipe_write_fd] = Closed]
  BY <1>2 DEF BeginDupFails, Close
<1>4. ASSUME NEW g \in Fds PROVE Cell(g, STDOUT, FALSE, FALSE, FALSE, FALSE)'
  <2>1. Cell(g, s, FALSE, TRUE, TRUE, FALSE) /\ g \in Int
    BY <1>1, StdFds DEF Piped, Layout
  <2>2. fds'[g] = IF g = pipe_write_fd \/ g = pipe_read_fd THEN Closed ELSE fds[g]
    BY <1>3 DEF TypeOK
  <2>3. QED
    BY <1>2, <2>1, <2>2 DEF Cell
<1>5. Quiet(STDOUT)'
  BY <1>1, <1>4 DEF Piped, Quiet, Layout, IsActive, BeginDupFails
<1>6. QED
  BY <1>5, Nobody DEF BeginDupFails

LEMMA RedirectWires ==
  ASSUME TypeOK, MutexHeld, Wiring, MutexHeld', NEW t \in Threads,
         NEW s \in Streams, arg[t].stream = s, BeginRedirect(t)
  PROVE  Wiring'
<1>1. Duped(s) /\ s \in Fds /\ s <= 2
  BY StdFds DEF BeginRedirect, Wiring, At
<1>2. fds[pipe_write_fd] = WriteEnd(npipes)
  BY <1>1, StdFds DEF Duped, Layout, Cell
<1>3. ASSUME NEW g \in Fds PROVE Cell(g, s, TRUE, TRUE, TRUE, TRUE)'
  <2>1. Cell(g, s, FALSE, TRUE, TRUE, TRUE)
    BY <1>1 DEF Duped, Layout
  <2>2. fds'[g] = IF g = s THEN WriteEnd(npipes) ELSE fds[g]
    BY <1>1, <1>2 DEF BeginRedirect, TypeOK
  <2>3. QED
    BY <1>1, <2>1, <2>2 DEF Cell, BeginRedirect, captureVars
<1>4. Diverted(s)'
  BY <1>1, <1>3 DEF Duped, Diverted, Layout, IsActive, BeginRedirect, captureVars
<1>5. /\ mtx' = t /\ arg' = arg /\ pc'[t] = "b_done"
  BY DEF BeginRedirect, MutexHeld, LockedPcs, BeginPcs, Goto, TypeOK
<1>6. At(t, s)'
  BY <1>4, <1>5 DEF At
<1>7. QED
  BY <1>5, <1>6, Alone

LEMMA BeginDoneWires ==
  ASSUME TypeOK, Wiring, MutexHeld', NEW t \in Threads,
         NEW s \in Streams, arg[t].stream = s, BeginDone(t)
  PROVE  Wiring'
<1>1. Diverted(s) /\ s \in Fds /\ s <= 2
  BY StdFds DEF BeginDone, Wiring, At
<1>2. pipe_write_fd \in Fds /\ pipe_write_fd > 2
  BY <1>1 DEF Diverted, Layout
<1>3. fds' = [fds EXCEPT ![pipe_write_fd] = Closed]
  BY <1>2 DEF BeginDone, Close
<1>4. ASSUME NEW g \in Fds PROVE Cell(g, s, TRUE, TRUE, FALSE, TRUE)'
  <2>1. Cell(g, s, TRUE, TRUE, TRUE, TRUE) /\ g \in Int
    BY <1>1, StdFds DEF Diverted, Layout
  <2>2. fds'[g] = IF g = pipe_write_fd THEN Closed ELSE fds[g]
    BY <1>3 DEF TypeOK
  <2>3. QED
    BY <1>1, <1>2, <2>1, <2>2 DEF Cell, BeginDone, Diverted, Layout
<1>5. Layout(s, TRUE, TRUE, FALSE, TRUE)'
  BY <1>1, <1>4 DEF Diverted, Layout, BeginDone
<1>6. Captured(s)'
  BY <1>1, <1>5 DEF Diverted, Captured, Capturing, IsActive, BeginDone, TypeOK
<1>7. QED
  BY <1>6, Nobody DEF BeginDone

LEMMA EndEnterWires ==
  ASSUME TypeOK, Wiring, MutexHeld', NEW t \in Threads, EndEnter(t)
  PROVE  Wiring'
<1>1. PICK s \in Streams : Captured(s)
  BY DEF Wiring, EndEnter, Quiet
<1>2. fds' = fds /\ pipe_write_fd' = -1
  BY <1>1, StdFds DEF Captured, EndEnter, Close
<1>3. Captured(s)'
  BY <1>1, <1>2 DEF Captured, Capturing, Layout, Cell, EndEnter
<1>4. mtx' = t /\ pc'[t] = "e_restore" /\ arg'[t].stream = STDOUT
  BY DEF EndEnter, Goto, TypeOK, NoArg
<1>5. At(t, STDOUT)'
  BY <1>3, <1>4 DEF At
<1>6. QED
  BY <1>4, <1>5, Alone DEF Streams

LEMMA RestoreWires ==
  ASSUME TypeOK, MutexHeld, Wiring, MutexHeld', NEW t \in Threads,
         NEW s \in Streams, EndRestore(t, s)
  PROVE  Wiring'
<1>1. Captured(s)
  BY AtRestore
<1>2. s \in Fds /\ s <= 2 /\ saved[s] \in Fds /\ saved[s] > 2
  BY <1>1, StdFds DEF Captured, Layout
<1>3. fds[saved[s]] = Tty(s) /\ saved[s] # pipe_read_fd
  <2>1. Cell(saved[s], s, TRUE, TRUE, FALSE, TRUE) /\ saved[s] # pipe_read_fd
    BY <1>1, <1>2 DEF Captured, Layout
  <2>2. saved[s] \in Int
    BY <1>2, StdFds
  <2>3. QED
    BY <1>2, <2>1, <2>2 DEF Cell
<1>4. fds' = [fds EXCEPT ![s] = Tty(s), ![saved[s]] = Closed]
  BY <1>2, <1>3 DEF EndRestore, Close
<1>5. ASSUME NEW g \in Fds PROVE Cell(g, STDOUT, FALSE, TRUE, FALSE, FALSE)'
  <2>1. Cell(g, s, TRUE, TRUE, FALSE, TRUE) /\ g \in Int
    BY <1>1, StdFds DEF Captured, Layout
  <2>2. fds'[g] = IF g = saved[s] THEN Closed ELSE IF g = s THEN Tty(s) ELSE fds[g]
    BY <1>2, <1>4 DEF TypeOK
  <2>3. QED
    BY <1>2, <1>3, <2>1, <2>2 DEF Cell, EndRestore
<1>6. Layout(STDOUT, FALSE, TRUE, FALSE, FALSE)'
  BY <1>1, <1>5 DEF Captured, Layout, EndRestore
<1>7. Restored(STDOUT)'
  BY <1>1, <1>6
  DEF Restored, Captured, Capturing, IsActive, EndRestore, TypeOK
<1>8. mtx' = t /\ pc'[t] = "e_restore" /\ arg' = arg
  BY DEF EndRestore, MutexHeld, LockedPcs, EndPcs
<1>9. arg'[t].stream \in Streams
  BY <1>8 DEF TypeOK
<1>10. ASSUME NEW u \in Streams PROVE At(t, u)'
  BY <1>7, <1>8 DEF At
<1>11. QED
  BY <1>8, <1>9, <1>10, Alone

LEMMA FlushStderrWires ==
  ASSUME TypeOK, MutexHeld, Wiring, MutexHeld', NEW t \in Threads,
         EndFlushStderr(t)
  PROVE  Wiring'
<1>1. arg[t].stream \in Streams
  BY DEF TypeOK
<1>2. Restored(STDOUT)
  BY <1>1 DEF Wiring, At, EndFlushStderr, Captured, Capturing, IsActive
<1>3. Restored(STDOUT)'
  BY <1>2 DEF Restored, Layout, Cell, IsActive, EndFlushStderr, captureVars
<1>4. mtx' = t /\ pc'[t] = "e_read" /\ arg' = arg
  BY DEF EndFlushStderr, MutexHeld, LockedPcs, EndPcs, Goto, TypeOK
<1>5. ASSUME NEW u \in Streams PROVE At(t, u)'
  BY <1>3, <1>4 DEF At
<1>6. QED
  BY <1>1, <1>4, <1>5, Alone

LEMMA ReadDoneWires ==
  ASSUME TypeOK, MutexHeld, Wiring, MutexHeld', NEW t \in Threads,
         EndReadDone(t)
  PROVE  Wiring'
<1>1. arg[t].stream \in Streams
  BY DEF TypeOK
<1>2. Restored(STDOUT)
  BY <1>1 DEF Wiring, At, EndReadDone
<1>3. pipe_read_fd \in Fds /\ pipe_read_fd > 2
  BY <1>2 DEF Restored, Layout
<1>4. fds' = [fds EXCEPT ![pipe_read_fd] = Closed]
  BY <1>3 DEF EndReadDone, Close
<1>5. ASSUME NEW g \in Fds PROVE Cell(g, STDOUT, FALSE, FALSE, FALSE, FALSE)'
  <2>1. Cell(g, STDOUT, FALSE, TRUE, FALSE, FALSE) /\ g \in Int
    BY <1>2, StdFds DEF Restored, Layout
  <2>2. fds'[g] = IF g = pipe_read_fd THEN Closed ELSE fds[g]
    BY <1>4 DEF TypeOK
  <2>3. QED
    BY <1>3, <2>1, <2>2 DEF Cell
<1>6. Quiet(STDOUT)'
  BY <1>2, <1>5 DEF Restored, Quiet, Layout, IsActive, EndReadDone
<1>7. mtx' = t /\ pc'[t] = "e_tee" /\ arg' = arg
  BY DEF EndReadDone, MutexHeld, LockedPcs, EndPcs, Goto, TypeOK
<1>8. ASSUME NEW u \in Streams PROVE At(t, u)'
  BY <1>6, <1>7 DEF At
<1>9. QED
  BY <1>1, <1>7, <1>8, Alone

LEMMA EndDoneWires ==
  ASSUME TypeOK, Wiring, MutexHeld', NEW t \in Threads, EndDone(t)
  PROVE  Wiring'
<1>1. arg[t].stream \in Streams
  BY DEF TypeOK
<1>2. Quiet(STDOUT)
  BY <1>1 DEF Wiring, At, EndDone
<1>3. Quiet(STDOUT)'
  BY <1>2 DEF Quiet, Layout, Cell, IsActive, EndDone, captureVars
<1>4. QED
  BY <1>3, Nobody DEF EndDone

\* The rest of the process changes descriptors that have no role only.
LEMMA OtherLayout ==
  ASSUME TypeOK, OpenOther \/ CloseOther,
         NEW s \in Streams, NEW red \in BOOLEAN, NEW rd \in BOOLEAN,
         NEW wr \in BOOLEAN, NEW sv \in BOOLEAN, Layout(s, red, rd, wr, sv)
  PROVE  Layout(s, red, rd, wr, sv)'
<1>1. PICK f \in Fds :
        /\ fds[f] \in {Closed, OtherFile}
        /\ fds' = [fds EXCEPT ![f] = OtherFile] \/ fds' = [fds EXCEPT ![f] = Closed]
  BY DEF OpenOther, CloseOther, IsLowestClosed, Close
<1>2. /\ f > 2 /\ (rd => f # pipe_read_fd) /\ (wr => f # pipe_write_fd)
      /\ sv => f # saved[s]
  BY <1>1, NoRole
<1>3. UNCHANGED <<npipes, pipe_read_fd, pipe_write_fd, saved>>
  BY DEF OpenOther, CloseOther, captureVars
<1>4. ASSUME NEW g \in Fds PROVE Cell(g, s, red, rd, wr, sv)'
  <2>1. Cell(g, s, red, rd, wr, sv) /\ g \in Int
    BY StdFds DEF Layout
  <2>2. \/ g # f /\ fds'[g] = fds[g]
        \/ g = f /\ fds'[g] \in {Closed, OtherFile}
    BY <1>1 DEF TypeOK
  <2>3. QED
    BY <1>2, <1>3, <2>1, <2>2 DEF Cell
<1>5. QED
  BY <1>3, <1>4 DEF Layout

LEMMA OtherWires ==
  ASSUME TypeOK, Wiring, OpenOther \/ CloseOther
  PROVE  Wiring'
<1>1. UNCHANGED <<npipes, pipe_read_fd, pipe_write_fd, saved, capturing, mtx,
                  pc, arg>>
  BY DEF OpenOther, CloseOther, captureVars
<1>2. ASSUME NEW s \in Streams
      PROVE  /\ Quiet(s) => Quiet(s)'
             /\ Piped(s) => Piped(s)'
             /\ Duped(s) => Duped(s)'
             /\ Diverted(s) => Diverted(s)'
             /\ Captured(s) => Captured(s)'
             /\ Restored(s) => Restored(s)'
  <2>1. IsActive' = IsActive /\ Capturing(s)' = Capturing(s)
    BY <1>1 DEF IsActive, Capturing
  <2>2. QED
    BY <1>1, <2>1, OtherLayout
    DEF Quiet, Piped, Duped, Diverted, Captured, Restored
<1>3. ASSUME NEW t \in Threads, NEW s \in Streams, arg'[t].stream = s
      PROVE  At(t, s)'
  <2>1. At(t, s)
    BY <1>1, <1>3 DEF Wiring
  <2>2. QED
    BY <1>1, <1>2, <2>1 DEF At, Streams
<1>4. QED
  BY <1>1, <1>2, <1>3 DEF Wiring, Streams

LEMMA CalmSteps ==
  ASSUME TypeOK, MutexHeld, Wiring, NEW t \in Threads,
         \/ FlushEnter(t) \/ FlushWrite(t) \/ FlushDone(t)
         \/ EndRead(t) \/ EndTee(t) \/ WriteResolve(t) \/ WriteDone(t)
         \/ Peek(t)
         \/ \E m \in Msgs :
              \/ Println(t, m) \/ Eprintln(t, m) \/ LogUnflushed(t, m)
              \/ \E s \in Streams : WriteCall(t, s, m)
  PROVE  Wiring'
<1> DEFINE Same == UNCHANGED <<fds, npipes, pipe_read_fd, pipe_write_fd, saved,
                               capturing, mtx>>
           Moves == \A u \in Threads : pc'[u] \in LockedPcs =>
             /\ arg'[u].stream = arg[u].stream
             /\ \/ pc'[u] = pc[u]
                \/ /\ pc[u] \in {"b_flush", "b_write"}
                   /\ pc'[u] \in {"b_write", "b_dup"}
                \/ /\ pc[u] \in {"e_tee", "t_flush", "t_write"}
                   /\ pc'[u] \in {"t_flush", "t_write", "e_done"}
<1> USE DEF LockedPcs, BeginPcs, EndPcs, Goto
<1>1. CASE FlushEnter(t) \/ FlushWrite(t) \/ FlushDone(t)
  <2>1. Same
    BY <1>1 DEF FlushEnter, FlushWrite, FlushDone, captureVars
  <2>2. Moves
    BY <1>1 DEF FlushEnter, FlushWrite, FlushDone, TypeOK
  <2>3. QED
    BY <2>1, <2>2, Calm
<1>2. CASE EndRead(t) \/ EndTee(t) \/ Peek(t)
  <2>1. Same
    BY <1>2 DEF EndRead, EndTee, Peek, captureVars
  <2>2. Moves
    BY <1>2 DEF EndRead, EndTee, Peek, TypeOK
  <2>3. QED
    BY <2>1, <2>2, Calm
<1>3. CASE WriteResolve(t) \/ WriteDone(t)
  <2>1. Same
    BY <1>3 DEF WriteResolve, WriteDone, captureVars
  <2>2. Moves
    BY <1>3 DEF WriteResolve, WriteDone, TypeOK
  <2>3. QED
    BY <2>1, <2>2, Calm
<1>4. ASSUME NEW m \in Msgs,
             \/ Println(t, m) \/ Eprintln(t, m) \/ LogUnflushed(t, m)
             \/ \E s \in Streams : WriteCall(t, s, m)
      PROVE  Wiring'
  <2>1. Same
    BY <1>4 DEF Println, Eprintln, LogUnflushed, WriteCall, captureVars
  <2>2. Moves
    <3>1. CASE LogUnflushed(t, m)
      BY <3>1 DEF LogUnflushed
    <3>2. CASE ~LogUnflushed(t, m)
      <4>1. /\ pc'[t] \in {"p_flush", "p_write", "w_call"}
            /\ \A u \in Threads : u # t => pc'[u] = pc[u] /\ arg'[u] = arg[u]
        BY <1>4, <3>2 DEF Println, Eprintln, WriteCall, TypeOK
      <4>2. QED
        BY <4>1
    <3>3. QED
      BY <3>1, <3>2
  <2>3. QED
    BY <2>1, <2>2, Calm
<1>5. QED
  BY <1>1, <1>2, <1>3, <1>4

LEMMA StepWiring ==
  ASSUME OneAtATime, TypeOK, MutexHeld, Wiring, MutexHeld', [Next]_vars
  PROVE  Wiring'
<1>1. ASSUME UNCHANGED vars PROVE Wiring'
  BY <1>1, Calm DEF vars
<1>2. ASSUME NEW t \in Threads, Continue(t) PROVE Wiring'
  <2>1. arg[t].stream \in Streams
    BY DEF TypeOK
  <2>2. QED
    BY <1>2, <2>1, CalmSteps, DupWires, DupFailureWires, RedirectWires,
       BeginDoneWires, RestoreWires, FlushStderrWires, ReadDoneWires,
       EndDoneWires
    DEF Continue
<1>3. ASSUME NEW t \in Threads, Call(t) PROVE Wiring'
  <2>1. ASSUME NEW s \in Streams, BeginRefused(t, s) PROVE Wiring'
    BY <2>1, <1>1 DEF BeginRefused
  <2>2. CASE EndIdle(t)
    BY <2>2, <1>1 DEF EndIdle
  <2>3. QED
    BY <1>3, <2>1, <2>2, CalmSteps, PipeWires, EndEnterWires DEF Call
<1>4. QED
  BY <1>1, <1>2, <1>3, OtherWires DEF Next

-----------------------------------------------------------------------------
(* The results.                                                            *)

LEMMA InitIInv == Init => IInv
<1>1. ASSUME Init PROVE MutexHeld /\ Wiring
  <2>1. \A t \in Threads : pc[t] = "idle"
    BY <1>1 DEF Init
  <2>2. MutexHeld
    BY <1>1, <2>1, NoneAssumption DEF Init, MutexHeld, LockedPcs, BeginPcs, EndPcs
  <2>3. Quiet(STDOUT)
    BY <1>1, StdFds DEF Init, Quiet, Layout, Cell, IsActive
  <2>4. \A t \in Threads, s \in Streams : At(t, s)
    BY <2>1 DEF At
  <2>5. QED
    BY <2>2, <2>3, <2>4 DEF Wiring
<1>2. QED
  BY <1>1, InitTypeOK DEF IInv

LEMMA StepIInv == OneAtATime /\ IInv /\ [Next]_vars => IInv'
BY StepTypeOK, StepMutexHeld, StepWiring DEF IInv

LEMMA InvariantIInv ==
  ASSUME OneAtATime
  PROVE  Spec => []IInv
<1>1. IInv /\ [Next]_vars => IInv'
  BY StepIInv
<1>2. QED
  BY <1>1, InitIInv, PTL DEF Spec

\* Every variable keeps its type.
THEOREM TypeCorrect ==
  ASSUME OneAtATime
  PROVE  Spec => []TypeOK
<1>1. IInv => TypeOK
  BY DEF IInv
<1>2. QED
  BY <1>1, InvariantIInv, PTL

\* Two threads are never inside begin and end at once.
THEOREM MutualExclusion ==
  ASSUME OneAtATime
  PROVE  Spec => [](\A t, u \in Threads :
                      pc[t] \in LockedPcs /\ pc[u] \in LockedPcs => t = u)
<1>1. IInv => \A t, u \in Threads :
                pc[t] \in LockedPcs /\ pc[u] \in LockedPcs => t = u
  BY DEF IInv, MutexHeld
<1>2. QED
  BY <1>1, InvariantIInv, PTL

\* Between calls a captured stream is wired to the pipe that pipe_read_fd
\* reads, and its saved descriptor is the real stream.
THEOREM CaptureWired ==
  ASSUME OneAtATime
  PROVE  Spec => []Wired
<1>1. IInv => Wired
  <2>1. SUFFICES ASSUME IInv, mtx = None, NEW s \in Streams, capturing[s]
                 PROVE  /\ \E p \in Pipes : fds[s] = WriteEnd(p) /\ ReadFile = ReadEnd(p)
                        /\ saved[s] \in Fds /\ fds[saved[s]] = Tty(s)
    BY DEF Wired
  <2>2. Captured(s)
    BY <2>1 DEF IInv, Wiring, Quiet, IsActive, Captured, Capturing
  <2>3. s \in Fds /\ s <= 2 /\ saved[s] \in Fds /\ saved[s] > 2
    BY <2>2, StdFds DEF Captured, Layout
  <2>4. fds[s] = WriteEnd(npipes)
    BY <2>2, <2>3 DEF Captured, Layout, Cell
  <2>5. ReadFile = ReadEnd(npipes)
    <3>1. /\ pipe_read_fd \in Fds /\ pipe_read_fd > 2
          /\ Cell(pipe_read_fd, s, TRUE, TRUE, FALSE, TRUE)
      BY <2>2 DEF Captured, Layout
    <3>2. pipe_read_fd \in Int
      BY <3>1, StdFds
    <3>3. QED
      BY <3>1, <3>2 DEF ReadFile, Cell
  <2>6. fds[saved[s]] = Tty(s)
    <3>1. /\ Cell(saved[s], s, TRUE, TRUE, FALSE, TRUE)
          /\ saved[s] # pipe_read_fd
      BY <2>2, <2>3 DEF Captured, Layout
    <3>2. saved[s] \in Int
      BY <2>3, StdFds
    <3>3. QED
      BY <2>3, <3>1, <3>2 DEF Cell
  <2>7. npipes \in Pipes
    <3>1. fds[s] \in Files /\ npipes \in 0 .. MaxPipes
      BY <2>1, <2>3 DEF IInv, TypeOK
    <3>2. QED
      BY <2>4, <3>1, WriteEndFile
  <2>8. QED
    BY <2>3, <2>4, <2>5, <2>6, <2>7
<1>2. QED
  BY <1>1, InvariantIInv, PTL

\* Begin and End leak no descriptor, whichever of their paths a call takes.
THEOREM NoDescriptorLeaks ==
  ASSUME OneAtATime
  PROVE  Spec => []NothingLeaked
<1>1. IInv => NothingLeaked
  <2>1. SUFFICES ASSUME IInv, mtx = None, ~IsActive, NEW f \in Fds
                 PROVE  fds[f] \in IF f <= 2 THEN {Tty(f)} ELSE {Closed, OtherFile}
    BY DEF NothingLeaked
  <2>2. Quiet(STDOUT)
    BY <2>1 DEF IInv, Wiring, Captured, Capturing, IsActive
  <2>3. QED
    BY <2>1, <2>2 DEF Quiet, Layout, Cell
<1>2. QED
  BY <1>1, InvariantIInv, PTL

-----------------------------------------------------------------------------
(* Other people's files.                                                   *)

LEMMA RolesAreOurs ==
  ASSUME NEW s \in Streams, NEW red \in BOOLEAN, NEW rd \in BOOLEAN,
         NEW wr \in BOOLEAN, NEW sv \in BOOLEAN, Layout(s, red, rd, wr, sv)
  PROVE  /\ fds[s] # OtherFile
         /\ rd => fds[pipe_read_fd] # OtherFile
         /\ wr => fds[pipe_write_fd] # OtherFile
         /\ sv => fds[saved[s]] # OtherFile
<1>1. s \in Fds /\ s <= 2
  BY StdFds
<1>2. /\ rd => pipe_read_fd \in Fds
      /\ wr => pipe_write_fd \in Fds
      /\ sv => saved[s] \in Fds
  BY DEF Layout
<1>3. ASSUME NEW f \in Fds, fds[f] = OtherFile
      PROVE  /\ f > 2 /\ (rd => f # pipe_read_fd) /\ (wr => f # pipe_write_fd)
             /\ sv => f # saved[s]
  BY <1>3, NoRole
<1>4. s \in Int
  BY <1>1, StdFds
<1>5. fds[s] # OtherFile
  BY <1>1, <1>3, <1>4
<1>6. rd => fds[pipe_read_fd] # OtherFile
  BY <1>2, <1>3
<1>7. wr => fds[pipe_write_fd] # OtherFile
  BY <1>2, <1>3
<1>8. sv => fds[saved[s]] # OtherFile
  BY <1>2, <1>3
<1>9. QED
  BY <1>5, <1>6, <1>7, <1>8

LEMMA StepOthersFilesKept ==
  ASSUME IInv, [Next]_vars, NEW f \in Fds,
         fds[f] = OtherFile, fds'[f] # OtherFile
  PROVE  CloseOther
<1> USE DEF IInv
<1>1. fds' # fds
  OBVIOUS
<1>2. ASSUME NEW t \in Threads, Continue(t) PROVE FALSE
  <2>1. PICK s \in Streams : arg[t].stream = s
    BY DEF TypeOK
  <2>2. CASE BeginDup(t)
    BY <2>2, FilesApart DEF BeginDup, IsLowestClosed, TypeOK
  <2>3. CASE BeginDupFails(t)
    <3>1. Layout(s, FALSE, TRUE, TRUE, FALSE)
      BY <2>1, <2>3 DEF BeginDupFails, Wiring, At, Piped
    <3>2. f # pipe_read_fd /\ f # pipe_write_fd
      BY <3>1, RolesAreOurs
    <3>3. QED
      BY <2>3, <3>2 DEF BeginDupFails, Close, TypeOK
  <2>4. CASE BeginRedirect(t)
    <3>1. Layout(s, FALSE, TRUE, TRUE, TRUE)
      BY <2>1, <2>4 DEF BeginRedirect, Wiring, At, Duped
    <3>2. f # s
      BY <3>1, RolesAreOurs
    <3>3. QED
      BY <2>1, <2>4, <3>2 DEF BeginRedirect, TypeOK
  <2>5. CASE BeginDone(t)
    <3>1. Layout(s, TRUE, TRUE, TRUE, TRUE)
      BY <2>1, <2>5 DEF BeginDone, Wiring, At, Diverted
    <3>2. f # pipe_write_fd
      BY <3>1, RolesAreOurs
    <3>3. QED
      BY <2>5, <3>2 DEF BeginDone, Close, TypeOK
  <2>6. ASSUME NEW u \in Streams, EndRestore(t, u) PROVE FALSE
    <3>1. Layout(u, TRUE, TRUE, FALSE, TRUE)
      BY <2>6, AtRestore DEF Captured
    <3>2. f # u /\ f # saved[u]
      BY <3>1, RolesAreOurs
    <3>3. QED
      BY <2>6, <3>2 DEF EndRestore, Close, TypeOK
  <2>7. CASE EndReadDone(t)
    <3>1. Layout(STDOUT, FALSE, TRUE, FALSE, FALSE)
      BY <2>1, <2>7 DEF EndReadDone, Wiring, At, Restored
    <3>2. f # pipe_read_fd
      BY <3>1, RolesAreOurs DEF Streams
    <3>3. QED
      BY <2>7, <3>2 DEF EndReadDone, Close, TypeOK
  <2>8. QED
    BY <1>1, <1>2, <2>2, <2>3, <2>4, <2>5, <2>6, <2>7
    DEF Continue, FlushEnter, FlushWrite, FlushDone, EndFlushStderr, EndRead,
        EndTee, EndDone, WriteResolve, WriteDone
<1>3. ASSUME NEW t \in Threads, Call(t) PROVE FALSE
  <2>1. ASSUME NEW s \in Streams, BeginPipe(t, s) PROVE FALSE
    <3>1. PICK r \in Fds, w \in Fds :
            LET withRead == [fds EXCEPT ![r] = ReadEnd(npipes + 1)] IN
            /\ IsLowestClosed(fds, r) /\ IsLowestClosed(withRead, w)
            /\ fds' = [withRead EXCEPT ![w] = WriteEnd(npipes + 1)]
      BY <2>1 DEF BeginPipe
    <3>2. fds[r] = Closed /\ fds[w] = Closed
      BY <3>1, FilesApart DEF IsLowestClosed, TypeOK
    <3>3. f # r /\ f # w
      BY <3>2, FilesApart
    <3>4. QED
      BY <3>1, <3>3 DEF TypeOK
  <2>2. CASE EndEnter(t)
    <3>1. PICK s \in Streams : Captured(s)
      BY <2>2 DEF EndEnter, Wiring, Quiet
    <3>2. QED
      BY <1>1, <2>2, <3>1, StdFds DEF Captured, EndEnter, Close
  <2>3. QED
    BY <1>1, <1>3, <2>1, <2>2
    DEF Call, Println, Eprintln, LogUnflushed, BeginRefused, EndIdle, Peek,
        WriteCall, vars
<1>4. CASE OpenOther
  BY <1>4 DEF OpenOther, TypeOK
<1>5. QED
  BY <1>1, <1>2, <1>3, <1>4 DEF Next, vars

\* Whatever begin and end close or redirect is their own, even through the
\* numbers an earlier, failed begin left in the members.
THEOREM OthersFilesSafe ==
  ASSUME OneAtATime
  PROVE  Spec => OthersFilesKept
<1>1. IInv /\ [Next]_vars =>
        [\A f \in Fds : fds[f] = OtherFile /\ fds'[f] # OtherFile => CloseOther]_vars
  BY StepOthersFilesKept
<1>2. QED
  BY <1>1, InvariantIInv, PTL DEF Spec, OthersFilesKept

-----------------------------------------------------------------------------
(* No text is lost to a stale descriptor, in a program that does not write *)
(* past the capture.                                                       *)

\* An open file that takes text.
Takes(f) == f.kind = "write" \/ (f.kind = "tty" /\ f.id \in Streams)

FlushesOpen ==
  /\ \A t \in Threads : pc[t] \notin WritePcs
  /\ \A t \in Threads :
       pc[t] \in {"p_write", "b_write", "t_write"} => Takes(file[t])

LEMMA StreamsOpen ==
  ASSUME IInv, NEW s \in Streams
  PROVE  Takes(fds[s])
<1>1. s \in Fds /\ s <= 2
  BY StdFds
<1>2. Takes(WriteEnd(npipes)) /\ Takes(Tty(s))
  BY DEF Takes, WriteEnd, Tty
<1>3. \E u \in Streams, red, rd, wr, sv \in BOOLEAN : Layout(u, red, rd, wr, sv)
  <2>1. CASE mtx = None
    BY <2>1 DEF IInv, Wiring, Quiet, Captured, Streams
  <2>2. CASE mtx # None
    <3>1. mtx \in Threads /\ pc[mtx] \in LockedPcs
      BY <2>2 DEF IInv, TypeOK, MutexHeld
    <3>2. At(mtx, arg[mtx].stream) /\ arg[mtx].stream \in Streams
      BY <3>1 DEF IInv, TypeOK, Wiring
    <3>3. QED
      BY <3>1, <3>2
      DEF At, LockedPcs, BeginPcs, EndPcs, Quiet, Piped, Duped, Diverted,
          Captured, Restored, Streams
  <2>3. QED
    BY <2>1, <2>2
<1>4. PICK u \in Streams, red \in BOOLEAN, rd \in BOOLEAN, wr \in BOOLEAN,
           sv \in BOOLEAN : Layout(u, red, rd, wr, sv)
  BY <1>3
<1>5. fds[s] \in {WriteEnd(npipes), Tty(s)}
  BY <1>1, <1>4 DEF Layout, Cell
<1>6. QED
  BY <1>2, <1>5

LEMMA StepFlushesOpen ==
  ASSUME Bypassers = {}, IInv, FlushesOpen, [Next]_vars
  PROVE  FlushesOpen'
<1> USE DEF IInv, WritePcs, Goto
<1>1. CASE UNCHANGED vars
  BY <1>1 DEF vars, FlushesOpen, Takes
<1>2. ASSUME NEW t \in Threads, Continue(t) PROVE FlushesOpen'
  <2>1. CASE FlushEnter(t)
    <3>1. Takes(fds[arg[t].stream])
      BY StreamsOpen DEF TypeOK
    <3>2. QED
      BY <2>1, <3>1 DEF FlushEnter, FlushesOpen, TypeOK, Takes
  <2>2. CASE FlushWrite(t) \/ FlushDone(t)
    <3>1. CASE FlushWrite(t)
      BY <3>1 DEF FlushWrite, FlushesOpen, Takes
    <3>2. CASE FlushDone(t)
      <4>1. /\ pc'[t] \in {"idle", "b_dup", "e_done"}
            /\ \A u \in Threads : u # t => pc'[u] = pc[u] /\ file'[u] = file[u]
        BY <3>2 DEF FlushDone, TypeOK
      <4>2. QED
        BY <4>1 DEF FlushesOpen, Takes
    <3>3. QED
      BY <2>2, <3>1, <3>2
  <2>3. CASE BeginDup(t) \/ BeginDupFails(t) \/ BeginRedirect(t) \/ BeginDone(t)
    BY <2>3
    DEF BeginDup, BeginDupFails, BeginRedirect, BeginDone, FlushesOpen, TypeOK,
        Takes
  <2>4. CASE \E s \in Streams : EndRestore(t, s)
    BY <2>4 DEF EndRestore, FlushesOpen, Takes
  <2>5. CASE \/ EndFlushStderr(t) \/ EndRead(t) \/ EndReadDone(t)
             \/ EndTee(t) \/ EndDone(t)
    BY <2>5
    DEF EndFlushStderr, EndRead, EndReadDone, EndTee, EndDone, FlushesOpen,
        TypeOK, Takes
  <2>6. CASE WriteResolve(t) \/ WriteDone(t)
    BY <2>6 DEF WriteResolve, WriteDone, FlushesOpen
  <2>7. QED
    BY <1>2, <2>1, <2>2, <2>3, <2>4, <2>5, <2>6 DEF Continue
<1>3. ASSUME NEW t \in Threads, Call(t) PROVE FlushesOpen'
  <2>1. ASSUME NEW m \in Msgs, Eprintln(t, m) PROVE FlushesOpen'
    <3>1. Takes(fds[STDERR])
      BY StreamsOpen DEF Streams
    <3>2. QED
      BY <2>1, <3>1 DEF Eprintln, FlushesOpen, TypeOK, Takes
  <2>2. ASSUME NEW m \in Msgs, Println(t, m) \/ LogUnflushed(t, m)
        PROVE  FlushesOpen'
    BY <2>2 DEF Println, LogUnflushed, FlushesOpen, TypeOK, Takes
  <2>3. ASSUME NEW s \in Streams, BeginRefused(t, s) \/ BeginPipe(t, s)
        PROVE  FlushesOpen'
    BY <1>1, <2>3 DEF BeginRefused, BeginPipe, FlushesOpen, TypeOK, Takes
  <2>4. CASE EndIdle(t) \/ EndEnter(t) \/ Peek(t)
    BY <1>1, <2>4 DEF EndIdle, EndEnter, Peek, FlushesOpen, TypeOK, Takes
  <2>5. \A s \in Streams, m \in Msgs : ~WriteCall(t, s, m)
    BY DEF WriteCall
  <2>6. QED
    BY <1>3, <2>1, <2>2, <2>3, <2>4, <2>5 DEF Call
<1>4. CASE OpenOther \/ CloseOther
  BY <1>4 DEF OpenOther, CloseOther, FlushesOpen, Takes
<1>5. QED
  BY <1>1, <1>2, <1>3, <1>4 DEF Next

LEMMA StepNothingLost ==
  ASSUME FlushesOpen, lost = {}, [Next]_vars
  PROVE  lost' = {}
<1>1. ASSUME NEW t \in Threads, FlushWrite(t) PROVE lost' = lost
  <2>1. Takes(file[t])
    BY <1>1 DEF FlushWrite, FlushesOpen
  <2>2. QED
    BY <1>1, <2>1 DEF FlushWrite, Deliver, Takes
<1>2. \A t \in Threads : ~WriteDone(t)
  BY DEF WriteDone, FlushesOpen, WritePcs
<1>3. CASE \E t \in Threads : Continue(t)
  BY <1>1, <1>2, <1>3
  DEF Continue, FlushEnter, FlushDone, BeginDup,
      BeginDupFails, BeginRedirect, BeginDone, EndRestore, EndFlushStderr,
      EndRead, EndReadDone, EndTee, EndDone, WriteResolve, ghostVars
<1>4. CASE \E t \in Threads : Call(t)
  BY <1>4
  DEF Call, vars, Println, Eprintln, LogUnflushed, BeginRefused, BeginPipe,
      EndIdle, EndEnter, Peek, WriteCall, ghostVars
<1>5. CASE OpenOther \/ CloseOther \/ UNCHANGED vars
  BY <1>5 DEF OpenOther, CloseOther, vars, ghostVars
<1>6. QED
  BY <1>3, <1>4, <1>5 DEF Next

\* Every write(2) of a print or of End's tee reaches a terminal or the pipe.
THEOREM NothingIsLost ==
  ASSUME OneAtATime, Bypassers = {}
  PROVE  Spec => []NothingLost
<1> DEFINE Inv == FlushesOpen /\ lost = {}
<1>1. Init => Inv
  BY DEF Init, FlushesOpen, WritePcs
<1>2. Inv /\ IInv /\ [Next]_vars => Inv'
  BY StepFlushesOpen, StepNothingLost
<1>3. Inv => NothingLost
  BY DEF NothingLost
<1>4. QED
  BY <1>1, <1>2, <1>3, InvariantIInv, PTL DEF Spec

-----------------------------------------------------------------------------
(* End gets every text printed while the capture was active.               *)

\* What the capture holds: the texts read from its pipe, and those in it.
LastPipe == IF npipes = 0 THEN <<>> ELSE pipe[npipes]
Received == RangeOf(buffer) \cup RangeOf(LastPipe)

Flushing(t) == pc[t] \in {"p_write", "b_write", "t_write"}

\* A thread inside a print that began in the capture that is still active.
Prints(t) ==
  /\ pc[t] \in {"p_flush", "p_write"}
  /\ capturing[arg[t].stream] /\ arg[t].session = npipes

\* The pipe may still hold something.
Draining ==
  IsActive \/ \E t \in Threads : pc[t] \in {"b_done", "e_restore", "e_read"}

\* What End is to return has reached the capture.
Kept ==
  expected \subseteq RangeOf(buffer) \cup (IF Draining THEN RangeOf(LastPipe) ELSE {})

\* The text of a print in the capture is in its C stream until it gets there.
OnTheWay ==
  \A t \in Threads : Prints(t) =>
    arg[t].msg \subseteq Received \cup RangeOf(stdio[arg[t].stream])

FlushLocks == \A t \in Threads : Flushing(t) => filelock[arg[t].stream] = t

\* A flush that looked the descriptor up before the redirection has only older
\* texts before it: a print waits for the lock the flush holds.
OldFlush ==
  \A u \in Threads : Flushing(u) /\ file[u] # WriteEnd(npipes) =>
    \A t \in Threads : Prints(t) /\ arg[t].stream = arg[u].stream =>
      arg[t].msg \cap RangeOf(stdio[arg[u].stream]) = {}

\* No print has seen a capture that is not active yet.
Sessions ==
  /\ \A t \in Threads : arg[t].session <= npipes
  /\ \A u \in Threads : pc[u] \in BeginPcs =>
       \A t \in Threads : arg[t].session < npipes

Arrival == Kept /\ OnTheWay /\ FlushLocks /\ OldFlush /\ Sessions

LEMMA RangeFacts ==
  /\ \A seq \in Seq(Msgs), m \in Msgs :
       RangeOf(Append(seq, m)) = RangeOf(seq) \cup {m}
  /\ \A s1, s2 \in Seq(Msgs) : RangeOf(s1 \o s2) = RangeOf(s1) \cup RangeOf(s2)
  /\ \A seq \in Seq(Msgs) : seq # <<>> =>
       RangeOf(seq) = {Head(seq)} \cup RangeOf(Tail(seq))
  /\ RangeOf(<<>>) = {}
<1>1. ASSUME NEW seq \in Seq(Msgs), NEW m \in Msgs
      PROVE  RangeOf(Append(seq, m)) = RangeOf(seq) \cup {m}
  <2> DEFINE r == Append(seq, m)
  <2>1. /\ Len(seq) \in Nat /\ Len(r) = Len(seq) + 1
        /\ \A i \in 1 .. Len(seq) : r[i] = seq[i]
        /\ r[Len(seq) + 1] = m
    OBVIOUS
  <2> HIDE DEF r
  <2>2. ASSUME NEW x \in RangeOf(r) PROVE x \in RangeOf(seq) \cup {m}
    <3>1. PICK i \in 1 .. Len(r) : x = r[i]
      BY <2>2 DEF RangeOf
    <3>2. CASE i = Len(seq) + 1
      BY <2>1, <3>1, <3>2
    <3>3. CASE i # Len(seq) + 1
      <4>1. i \in 1 .. Len(seq)
        BY <2>1, <3>3
      <4> QED BY <2>1, <3>1, <4>1 DEF RangeOf
    <3> QED BY <3>2, <3>3
  <2>3. RangeOf(seq) \subseteq RangeOf(r)
    <3>1. \A i \in 1 .. Len(seq) : i \in 1 .. Len(r)
      BY <2>1
    <3> QED BY <2>1, <3>1 DEF RangeOf
  <2>4. m \in RangeOf(r)
    <3>1. Len(seq) + 1 \in 1 .. Len(r)
      BY <2>1
    <3> QED BY <2>1, <3>1 DEF RangeOf
  <2> QED BY <2>2, <2>3, <2>4 DEF r
<1>2. ASSUME NEW s1 \in Seq(Msgs), NEW s2 \in Seq(Msgs)
      PROVE  RangeOf(s1 \o s2) = RangeOf(s1) \cup RangeOf(s2)
  <2> DEFINE r == s1 \o s2
  <2>1. /\ Len(s1) \in Nat /\ Len(s2) \in Nat /\ Len(r) = Len(s1) + Len(s2)
        /\ \A i \in 1 .. Len(r) : r[i] = IF i <= Len(s1) THEN s1[i]
                                          ELSE s2[i - Len(s1)]
    OBVIOUS
  <2> HIDE DEF r
  <2>2. ASSUME NEW i \in 1 .. Len(r) PROVE r[i] \in RangeOf(s1) \cup RangeOf(s2)
    <3>1. CASE i <= Len(s1)
      <4>1. i \in 1 .. Len(s1) /\ r[i] = s1[i]
        BY <2>1, <3>1
      <4> QED BY <4>1 DEF RangeOf
    <3>2. CASE ~(i <= Len(s1))
      <4>1. i - Len(s1) \in 1 .. Len(s2) /\ r[i] = s2[i - Len(s1)]
        BY <2>1, <3>2
      <4> QED BY <4>1 DEF RangeOf
    <3> QED BY <3>1, <3>2
  <2>3. ASSUME NEW i \in 1 .. Len(s1) PROVE s1[i] \in RangeOf(r)
    <3>1. i \in 1 .. Len(r) /\ r[i] = s1[i]
      BY <2>1
    <3> QED BY <3>1 DEF RangeOf
  <2>4. ASSUME NEW i \in 1 .. Len(s2) PROVE s2[i] \in RangeOf(r)
    <3>1. i + Len(s1) \in 1 .. Len(r) /\ ~(i + Len(s1) <= Len(s1))
      BY <2>1
    <3>2. (i + Len(s1)) - Len(s1) = i
      BY <2>1
    <3>3. r[i + Len(s1)] = s2[i]
      BY <2>1, <3>1, <3>2
    <3> QED BY <3>1, <3>3 DEF RangeOf
  <2>5. RangeOf(r) \subseteq RangeOf(s1) \cup RangeOf(s2)
    <3>1. \A x \in RangeOf(r) : \E i \in 1 .. Len(r) : x = r[i]
      BY DEF RangeOf
    <3> QED BY <2>2, <3>1
  <2>6. RangeOf(s1) \subseteq RangeOf(r) /\ RangeOf(s2) \subseteq RangeOf(r)
    <3>1. \A x \in RangeOf(s1) : \E i \in 1 .. Len(s1) : x = s1[i]
      BY DEF RangeOf
    <3>2. \A x \in RangeOf(s2) : \E i \in 1 .. Len(s2) : x = s2[i]
      BY DEF RangeOf
    <3> QED BY <2>3, <2>4, <3>1, <3>2
  <2> QED BY <2>5, <2>6 DEF r
<1>3. ASSUME NEW seq \in Seq(Msgs), seq # <<>>
      PROVE  RangeOf(seq) = {Head(seq)} \cup RangeOf(Tail(seq))
  <2> DEFINE r == Tail(seq)
  <2>1. /\ Len(seq) \in Nat /\ Len(seq) > 0 /\ Len(r) = Len(seq) - 1
        /\ \A i \in 1 .. Len(r) : r[i] = seq[i + 1]
        /\ Head(seq) = seq[1]
    BY <1>3
  <2> HIDE DEF r
  <2>2. ASSUME NEW i \in 1 .. Len(seq) PROVE seq[i] \in {Head(seq)} \cup RangeOf(r)
    <3>1. CASE i = 1
      BY <2>1, <3>1
    <3>2. CASE i # 1
      <4>1. i - 1 \in 1 .. Len(r) /\ (i - 1) + 1 = i
        BY <2>1, <3>2
      <4>2. r[i - 1] = seq[i]
        BY <2>1, <4>1
      <4> QED BY <4>1, <4>2 DEF RangeOf
    <3> QED BY <3>1, <3>2
  <2>3. ASSUME NEW i \in 1 .. Len(r) PROVE r[i] \in RangeOf(seq)
    <3>1. i + 1 \in 1 .. Len(seq) /\ r[i] = seq[i + 1]
      BY <2>1
    <3> QED BY <3>1 DEF RangeOf
  <2>4. Head(seq) \in RangeOf(seq)
    <3>1. 1 \in 1 .. Len(seq)
      BY <2>1
    <3> QED BY <2>1, <3>1 DEF RangeOf
  <2>5. RangeOf(seq) \subseteq {Head(seq)} \cup RangeOf(r)
    BY <2>2 DEF RangeOf
  <2>6. RangeOf(r) \subseteq RangeOf(seq)
    <3>1. \A x \in RangeOf(r) : \E i \in 1 .. Len(r) : x = r[i]
      BY DEF RangeOf
    <3> QED BY <2>3, <3>1
  <2> QED BY <2>4, <2>5, <2>6 DEF r
<1>4. RangeOf(<<>>) = {}
  BY DEF RangeOf
<1> QED BY <1>1, <1>2, <1>3, <1>4

\* A captured stream leads to the last pipe.
LEMMA CapturedFd ==
  ASSUME IInv, NEW s \in Streams, capturing[s]
  PROVE  fds[s] = WriteEnd(npipes) /\ npipes \in Pipes /\ npipes # 0
<1>1. IsActive
  BY DEF IsActive
<1>2. \E u \in Streams : Captured(u)
  <2>1. CASE mtx = None
    BY <1>1, <2>1 DEF IInv, Wiring, Quiet
  <2>2. CASE mtx # None
    <3>1. mtx \in Threads /\ pc[mtx] \in LockedPcs
      BY <2>2 DEF IInv, TypeOK, MutexHeld
    <3>2. At(mtx, arg[mtx].stream) /\ arg[mtx].stream \in Streams
      BY <3>1 DEF IInv, TypeOK, Wiring
    <3>3. QED
      BY <1>1, <3>1, <3>2
      DEF At, LockedPcs, BeginPcs, EndPcs, Quiet, Piped, Duped, Diverted, Restored
  <2>3. QED
    BY <2>1, <2>2
<1>3. Captured(s)
  BY <1>2 DEF Captured, Capturing
<1>4. s \in Fds /\ s <= 2
  BY StdFds
<1>5. fds[s] = WriteEnd(npipes)
  BY <1>3, <1>4 DEF Captured, Layout, Cell
<1>6. npipes \in Pipes
  <2>1. fds[s] \in Files
    BY <1>4 DEF IInv, TypeOK
  <2>2. QED
    BY <1>5, <2>1, WriteEndFile
<1>7. QED
  BY <1>5, <1>6 DEF Pipes

\* A thread in begin, and one past the restoring part of End, sees no capture.
LEMMA BeginInactive ==
  ASSUME IInv, NEW u \in Threads,
         pc[u] \in BeginPcs \cup {"e_read", "e_tee", "t_flush", "t_write", "e_done"}
  PROVE  /\ ~IsActive
         /\ \A t \in Threads : pc[t] \in LockedPcs => t = u
<1>1. At(u, arg[u].stream) /\ arg[u].stream \in Streams
  BY DEF IInv, TypeOK, Wiring
<1>2. ~IsActive
  BY <1>1 DEF At, BeginPcs, Quiet, Piped, Duped, Diverted, Restored
<1>3. mtx = u
  BY DEF IInv, MutexHeld, LockedPcs, EndPcs
<1>4. QED
  BY <1>2, <1>3 DEF IInv, MutexHeld

\* A text delivered to an open file.
LEMMA DeliverRange ==
  ASSUME IInv, NEW f \in Files, NEW m \in Msgs, Deliver(f, m)
  PROVE  /\ RangeOf(LastPipe) \subseteq RangeOf(LastPipe') \/ npipes' # npipes
         /\ f = WriteEnd(npipes) /\ npipes' = npipes => m \in RangeOf(LastPipe')
<1>1. npipes \in 0 .. MaxPipes /\ pipe \in [Pipes -> Seq(Msgs)]
  BY DEF IInv, TypeOK
<1>2. npipes # 0 => npipes \in Pipes
  BY <1>1, BoundsAssumption DEF Pipes
<1>3. CASE f.kind = "write"
  <2>1. PICK p \in Pipes : f = WriteEnd(p)
    BY <1>3 DEF Files, Closed, OtherFile, Tty, ReadEnd
  <2>2. f.id = p
    BY <2>1 DEF WriteEnd
  <2>3. pipe' = [pipe EXCEPT ![p] = Append(pipe[p], m)]
    BY <1>3, <2>2 DEF Deliver
  <2>4. RangeOf(Append(pipe[p], m)) = RangeOf(pipe[p]) \cup {m}
    BY <1>1, <2>1, RangeFacts
  <2>5. p # 0
    BY DEF Pipes
  <2>6. f = WriteEnd(npipes) => npipes = p
    BY <2>1, <2>2 DEF WriteEnd
  <2>7. QED
    BY <1>1, <1>2, <2>3, <2>4, <2>5, <2>6 DEF LastPipe
<1>4. CASE f.kind # "write"
  <2>1. pipe' = pipe
    BY <1>4 DEF Deliver
  <2>2. f # WriteEnd(npipes)
    BY <1>4 DEF WriteEnd
  <2>3. QED
    BY <2>1, <2>2 DEF LastPipe
<1>5. QED
  BY <1>3, <1>4

LEMMA StepFlushLocks ==
  ASSUME IInv, FlushLocks, [Next]_vars
  PROVE  FlushLocks'
<1> USE DEF Goto
<1>0. /\ pc \in [Threads -> Pcs] /\ filelock \in [Streams -> Threads \cup {None}]
      /\ \A t \in Threads : arg[t].stream \in Streams
      /\ DOMAIN arg = Threads
  BY DEF IInv, TypeOK
<1>1. CASE UNCHANGED vars
  BY <1>1 DEF vars, FlushLocks, Flushing
<1>2. ASSUME NEW t \in Threads,
             FlushEnter(t) \/ (\E m \in Msgs : Eprintln(t, m))
      PROVE  FlushLocks'
  <2>1. PICK s \in Streams : /\ filelock[s] = None
                             /\ filelock' = [filelock EXCEPT ![s] = t]
                             /\ arg'[t].stream = s
                             /\ \A u \in Threads : u # t =>
                                  pc'[u] = pc[u] /\ arg'[u] = arg[u]
    <3>1. CASE FlushEnter(t)
      BY <1>0, <3>1 DEF FlushEnter
    <3>2. CASE \E m \in Msgs : Eprintln(t, m)
      BY <1>0, <3>2 DEF Eprintln, CallArg, Streams
    <3>3. QED
      BY <1>2, <3>1, <3>2
  <2>2. ASSUME NEW u \in Threads, Flushing(u)' PROVE filelock'[arg'[u].stream] = u
    <3>1. CASE u = t
      BY <1>0, <2>1, <3>1
    <3>2. CASE u # t
      <4>1. Flushing(u) /\ arg'[u] = arg[u]
        BY <2>1, <2>2, <3>2 DEF Flushing
      <4>2. filelock[arg[u].stream] = u
        BY <4>1 DEF FlushLocks
      <4>3. arg[u].stream # s
        BY <2>1, <4>2, NoneAssumption
      <4>4. QED
        BY <1>0, <2>1, <4>1, <4>2, <4>3
    <3>3. QED
      BY <3>1, <3>2
  <2>3. QED
    BY <2>2 DEF FlushLocks
<1>3. ASSUME NEW t \in Threads, FlushDone(t) PROVE FlushLocks'
  <2>1. /\ Flushing(t) /\ pc'[t] \in {"idle", "b_dup", "e_done"}
        /\ \A u \in Threads : u # t => pc'[u] = pc[u]
        /\ arg' = arg /\ filelock' = [filelock EXCEPT ![arg[t].stream] = None]
    BY <1>0, <1>3 DEF FlushDone, Flushing
  <2>2. ASSUME NEW u \in Threads, Flushing(u)' PROVE filelock'[arg'[u].stream] = u
    <3>1. u # t /\ Flushing(u)
      BY <2>1, <2>2 DEF Flushing
    <3>2. filelock[arg[u].stream] = u /\ filelock[arg[t].stream] = t
      BY <2>1, <3>1 DEF FlushLocks
    <3>3. QED
      BY <1>0, <2>1, <3>1, <3>2
  <2>3. QED
    BY <2>2 DEF FlushLocks
<1>4. ASSUME NEW t \in Threads,
             /\ filelock' = filelock
             /\ ~Flushing(t)' \/ (pc'[t] = pc[t] /\ arg' = arg)
             /\ \A u \in Threads : u # t => pc'[u] = pc[u] /\ arg'[u] = arg[u]
      PROVE  FlushLocks'
  BY <1>4 DEF FlushLocks, Flushing
<1>5. ASSUME NEW t \in Threads, Continue(t) PROVE FlushLocks'
  <2>1. CASE FlushWrite(t)
    BY <1>4, <2>1 DEF FlushWrite
  <2>2. CASE \/ BeginDup(t) \/ BeginDupFails(t) \/ BeginRedirect(t) \/ BeginDone(t)
             \/ EndFlushStderr(t) \/ EndReadDone(t) \/ EndTee(t) \/ EndDone(t)
             \/ WriteResolve(t) \/ WriteDone(t)
    <3>1. /\ filelock' = filelock /\ arg' = arg
          /\ pc'[t] \in {"b_dup2", "b_done", "idle", "e_read", "e_tee", "t_flush",
                         "w_write"}
          /\ \A u \in Threads : u # t => pc'[u] = pc[u]
      BY <1>0, <2>2
      DEF BeginDup, BeginDupFails, BeginRedirect, BeginDone, EndFlushStderr,
          EndReadDone, EndTee, EndDone, WriteResolve, WriteDone
    <3>2. QED
      BY <1>4, <3>1 DEF Flushing
  <2>3. CASE EndRead(t) \/ \E s \in Streams : EndRestore(t, s)
    BY <1>4, <2>3 DEF EndRead, EndRestore
  <2>4. QED
    BY <1>2, <1>3, <1>5, <2>1, <2>2, <2>3 DEF Continue
<1>6. ASSUME NEW t \in Threads, Call(t) PROVE FlushLocks'
  <2>1. CASE \/ \E m \in Msgs : Println(t, m)
             \/ \E s \in Streams : BeginPipe(t, s)
             \/ EndEnter(t)
             \/ \E s \in Streams, m \in Msgs : WriteCall(t, s, m)
    <3>1. /\ filelock' = filelock
          /\ pc'[t] \in {"p_flush", "b_flush", "e_restore", "w_call"}
          /\ \A u \in Threads : u # t => pc'[u] = pc[u] /\ arg'[u] = arg[u]
      BY <1>0, <2>1 DEF Println, BeginPipe, EndEnter, WriteCall
    <3>2. QED
      BY <1>4, <3>1 DEF Flushing
  <2>2. CASE (\E m \in Msgs : LogUnflushed(t, m)) \/ Peek(t)
    BY <1>4, <2>2 DEF LogUnflushed, Peek
  <2>3. CASE EndIdle(t) \/ \E s \in Streams : BeginRefused(t, s)
    BY <1>1, <2>3 DEF EndIdle, BeginRefused
  <2>4. QED
    BY <1>2, <1>6, <2>1, <2>2, <2>3 DEF Call
<1>7. CASE OpenOther \/ CloseOther
  BY <1>7 DEF OpenOther, CloseOther, FlushLocks, Flushing
<1>8. QED
  BY <1>1, <1>5, <1>6, <1>7 DEF Next

LEMMA StepSessions ==
  ASSUME OneAtATime, IInv, Sessions, [Next]_vars
  PROVE  Sessions'
<1> USE DEF Goto
<1>0. /\ pc \in [Threads -> Pcs] /\ DOMAIN arg = Threads /\ npipes \in Nat
      /\ \A t \in Threads : arg[t].session \in Nat
  BY BoundsAssumption DEF IInv, TypeOK
<1>1. ASSUME npipes' = npipes, arg' = arg,
             \A u \in Threads : pc'[u] \in BeginPcs => pc[u] \in BeginPcs
      PROVE  Sessions'
  BY <1>1 DEF Sessions
<1>2. CASE UNCHANGED vars
  BY <1>1, <1>2 DEF vars
<1>3. ASSUME NEW t \in Threads, Continue(t) PROVE Sessions'
  <2>1. /\ npipes' = npipes /\ arg' = arg
        /\ \/ pc' = pc
           \/ /\ pc'[t] \in BeginPcs => pc[t] \in BeginPcs
              /\ \A u \in Threads : u # t => pc'[u] = pc[u]
    <3>1. CASE FlushEnter(t) \/ FlushWrite(t) \/ FlushDone(t)
      BY <1>0, <3>1 DEF FlushEnter, FlushWrite, FlushDone, BeginPcs
    <3>2. CASE BeginDup(t) \/ BeginDupFails(t) \/ BeginRedirect(t) \/ BeginDone(t)
      BY <1>0, <3>2
      DEF BeginDup, BeginDupFails, BeginRedirect, BeginDone, BeginPcs
    <3>3. CASE EndRead(t) \/ \E s \in Streams : EndRestore(t, s)
      BY <3>3 DEF EndRead, EndRestore
    <3>4. CASE \/ EndFlushStderr(t) \/ EndReadDone(t) \/ EndTee(t) \/ EndDone(t)
               \/ WriteResolve(t) \/ WriteDone(t)
      BY <1>0, <3>4
      DEF EndFlushStderr, EndReadDone, EndTee, EndDone, WriteResolve, WriteDone,
          BeginPcs
    <3>5. QED
      BY <1>3, <3>1, <3>2, <3>3, <3>4 DEF Continue
  <2>2. QED
    BY <1>1, <2>1
<1>4. ASSUME NEW t \in Threads, npipes' = npipes, pc'[t] \notin BeginPcs,
             arg'[t].session \in {0, npipes},
             arg'[t].session = npipes => IsActive \/ npipes = 0,
             \A u \in Threads : u # t => pc'[u] = pc[u] /\ arg'[u] = arg[u]
      PROVE  Sessions'
  <2>1. ASSUME NEW u \in Threads, pc'[u] \in BeginPcs, NEW v \in Threads
        PROVE  arg'[v].session < npipes
    <3>1. u # t /\ pc[u] \in BeginPcs
      BY <1>4, <2>1
    <3>2. ~IsActive /\ arg[u].session < npipes
      BY <3>1, BeginInactive DEF Sessions
    <3>3. CASE v = t
      BY <1>0, <1>4, <3>2, <3>3
    <3>4. CASE v # t
      BY <1>4, <3>1, <3>4 DEF Sessions
    <3>5. QED
      BY <3>3, <3>4
  <2>2. ASSUME NEW v \in Threads PROVE arg'[v].session <= npipes
    BY <1>0, <1>4 DEF Sessions
  <2>3. QED
    BY <1>4, <2>1, <2>2 DEF Sessions
<1>5. ASSUME NEW t \in Threads, Call(t) PROVE Sessions'
  <2>1. ASSUME NEW m \in Msgs, Println(t, m) \/ Eprintln(t, m) PROVE Sessions'
    <3>1. PICK s \in Streams : arg' = [arg EXCEPT ![t] = CallArg(s, m)]
      BY <2>1 DEF Println, Eprintln, Streams
    <3>2. /\ arg'[t].session \in {0, npipes}
          /\ arg'[t].session = npipes => IsActive \/ npipes = 0
      BY <1>0, <3>1 DEF CallArg, IsActive
    <3>3. /\ npipes' = npipes /\ pc'[t] \in {"p_flush", "p_write"}
          /\ \A u \in Threads : u # t => pc'[u] = pc[u] /\ arg'[u] = arg[u]
      BY <1>0, <2>1 DEF Println, Eprintln
    <3>4. QED
      BY <1>4, <3>2, <3>3 DEF BeginPcs
  <2>2. ASSUME NEW s \in Streams, BeginPipe(t, s) PROVE Sessions'
    <3>1. /\ npipes' = npipes + 1
          /\ \A u \in Threads : arg'[u].session = IF u = t THEN 0 ELSE arg[u].session
      BY <1>0, <2>2 DEF BeginPipe, NoArg
    <3>2. \A u \in Threads : arg'[u].session < npipes'
      BY <1>0, <3>1 DEF Sessions
    <3>3. \A u \in Threads : arg'[u].session <= npipes'
      BY <1>0, <3>1 DEF Sessions
    <3>4. QED
      BY <3>2, <3>3 DEF Sessions
  <2>3. CASE EndEnter(t) \/ \E s \in Streams, m \in Msgs : WriteCall(t, s, m)
    <3>1. /\ npipes' = npipes /\ arg'[t].session = 0
          /\ pc'[t] \in {"e_restore", "w_call"}
          /\ \A u \in Threads : u # t => pc'[u] = pc[u] /\ arg'[u] = arg[u]
      BY <1>0, <2>3 DEF EndEnter, WriteCall, NoArg
    <3>2. QED
      BY <1>4, <3>1 DEF BeginPcs
  <2>4. CASE (\E m \in Msgs : LogUnflushed(t, m)) \/ Peek(t)
    BY <1>1, <2>4 DEF LogUnflushed, Peek
  <2>5. CASE EndIdle(t) \/ \E s \in Streams : BeginRefused(t, s)
    BY <1>2, <2>5 DEF EndIdle, BeginRefused
  <2>6. QED
    BY <1>5, <2>1, <2>2, <2>3, <2>4, <2>5 DEF Call
<1>6. CASE OpenOther \/ CloseOther
  BY <1>1, <1>6 DEF OpenOther, CloseOther
<1>7. QED
  BY <1>2, <1>3, <1>5, <1>6 DEF Next

\* Only a call of Println or Eprintln puts a thread inside a print.
LEMMA PrintsOld ==
  ASSUME IInv, Sessions, Sessions', [Next]_vars, NEW t \in Threads, Prints(t)',
         \A m \in Msgs : ~Println(t, m) /\ ~Eprintln(t, m)
  PROVE  Prints(t) /\ arg'[t] = arg[t] /\ npipes' = npipes
<1> USE DEF Goto
<1>0. /\ pc \in [Threads -> Pcs] /\ DOMAIN arg = Threads /\ npipes \in Nat
      /\ \A u \in Threads : arg[u].session \in Nat /\ arg[u].stream \in Streams
      /\ capturing \in [Streams -> BOOLEAN]
  BY BoundsAssumption DEF IInv, TypeOK
<1>1. ASSUME npipes' = npipes, arg'[t] = arg[t],
             pc'[t] \in {"p_flush", "p_write"} => pc[t] \in {"p_flush", "p_write"},
             \A s \in Streams : capturing'[s] => capturing[s]
      PROVE  Prints(t) /\ arg'[t] = arg[t] /\ npipes' = npipes
  BY <1>0, <1>1 DEF Prints
<1>2. CASE UNCHANGED vars
  BY <1>1, <1>2 DEF vars
<1>3. ASSUME NEW u \in Threads, Continue(u)
      PROVE  Prints(t) /\ arg'[t] = arg[t] /\ npipes' = npipes
  <2>1. CASE FlushEnter(u) \/ FlushWrite(u) \/ FlushDone(u)
    <3>1. npipes' = npipes /\ arg' = arg /\ capturing' = capturing
      BY <2>1 DEF FlushEnter, FlushWrite, FlushDone, captureVars
    <3>2. pc'[t] \in {"p_flush", "p_write"} => pc[t] \in {"p_flush", "p_write"}
      BY <1>0, <2>1 DEF FlushEnter, FlushWrite, FlushDone
    <3>3. QED
      BY <1>1, <3>1, <3>2
  <2>2. CASE BeginDone(u)
    <3>1. pc[u] \in BeginPcs /\ npipes' = npipes /\ arg' = arg
      BY <2>2 DEF BeginDone, BeginPcs
    <3>2. arg[t].session < npipes
      BY <3>1 DEF Sessions
    <3>3. arg[t].session = npipes
      BY <3>1 DEF Prints
    <3>4. QED
      BY <1>0, <3>2, <3>3
  <2>3. CASE \/ BeginDup(u) \/ BeginDupFails(u) \/ BeginRedirect(u)
             \/ EndFlushStderr(u) \/ EndReadDone(u) \/ EndTee(u) \/ EndDone(u)
             \/ WriteResolve(u) \/ WriteDone(u)
    <3>1. npipes' = npipes /\ arg' = arg /\ capturing' = capturing
      BY <2>3
      DEF BeginDup, BeginDupFails, BeginRedirect, EndFlushStderr, EndReadDone,
          EndTee, EndDone, WriteResolve, WriteDone, captureVars
    <3>2. pc'[t] \in {"p_flush", "p_write"} => pc[t] \in {"p_flush", "p_write"}
      BY <1>0, <2>3
      DEF BeginDup, BeginDupFails, BeginRedirect, EndFlushStderr, EndReadDone,
          EndTee, EndDone, WriteResolve, WriteDone
    <3>3. QED
      BY <1>1, <3>1, <3>2
  <2>4. CASE EndRead(u) \/ \E s \in Streams : EndRestore(u, s)
    <3>1. npipes' = npipes /\ arg' = arg /\ pc' = pc
      BY <2>4 DEF EndRead, EndRestore
    <3>2. \A s \in Streams : capturing'[s] => capturing[s]
      BY <1>0, <2>4 DEF EndRead, EndRestore
    <3>3. QED
      BY <1>1, <3>1, <3>2
  <2>5. QED
    BY <1>3, <2>1, <2>2, <2>3, <2>4 DEF Continue
<1>4. ASSUME NEW u \in Threads, Call(u)
      PROVE  Prints(t) /\ arg'[t] = arg[t] /\ npipes' = npipes
  <2>1. ASSUME NEW m \in Msgs, Println(u, m) \/ Eprintln(u, m)
        PROVE  Prints(t) /\ arg'[t] = arg[t] /\ npipes' = npipes
    <3>1. u # t
      BY <2>1
    <3>2. npipes' = npipes /\ arg'[t] = arg[t] /\ pc'[t] = pc[t]
          /\ capturing' = capturing
      BY <1>0, <2>1, <3>1 DEF Println, Eprintln, captureVars
    <3>3. QED
      BY <1>1, <3>2
  <2>2. ASSUME NEW s \in Streams, BeginPipe(u, s) PROVE FALSE
    <3>1. pc'[u] \in BeginPcs
      BY <1>0, <2>2 DEF BeginPipe, BeginPcs
    <3>2. arg'[t].session < npipes'
      BY <3>1 DEF Sessions
    <3>3. arg'[t].session = npipes' /\ npipes' \in Nat
      BY <1>0, <2>2 DEF BeginPipe, Prints
    <3>4. QED
      BY <3>2, <3>3
  <2>3. CASE EndEnter(u) \/ \E s \in Streams, m \in Msgs : WriteCall(u, s, m)
    <3>1. npipes' = npipes /\ capturing' = capturing
          /\ pc'[u] \in {"e_restore", "w_call"}
          /\ (u # t => pc'[t] = pc[t] /\ arg'[t] = arg[t])
      BY <1>0, <2>3 DEF EndEnter, WriteCall, captureVars
    <3>2. u # t
      BY <3>1 DEF Prints
    <3>3. QED
      BY <1>1, <3>1, <3>2
  <2>4. CASE (\E m \in Msgs : LogUnflushed(u, m)) \/ Peek(u)
    BY <1>1, <2>4 DEF LogUnflushed, Peek, captureVars
  <2>5. CASE EndIdle(u) \/ \E s \in Streams : BeginRefused(u, s)
    BY <1>2, <2>5 DEF EndIdle, BeginRefused
  <2>6. QED
    BY <1>4, <2>1, <2>2, <2>3, <2>4, <2>5 DEF Call
<1>5. CASE OpenOther \/ CloseOther
  BY <1>1, <1>5 DEF OpenOther, CloseOther, captureVars
<1>6. QED
  BY <1>2, <1>3, <1>4, <1>5 DEF Next

\* A thread that starts to write the C stream resolves its descriptor then.
LEMMA FlushingOld ==
  ASSUME IInv, [Next]_vars, NEW u \in Threads, Flushing(u)'
  PROVE  /\ arg'[u].stream \in Streams
         /\ \/ Flushing(u) /\ file'[u] = file[u] /\ arg'[u] = arg[u]
            \/ file'[u] = fds[arg'[u].stream]
<1> USE DEF Goto
<1> DEFINE Goal ==
      /\ arg'[u].stream \in Streams
      /\ \/ Flushing(u) /\ file'[u] = file[u] /\ arg'[u] = arg[u]
         \/ file'[u] = fds[arg'[u].stream]
<1>0. /\ pc \in [Threads -> Pcs] /\ DOMAIN arg = Threads /\ DOMAIN file = Threads
      /\ \A v \in Threads : arg[v].stream \in Streams
  BY DEF IInv, TypeOK
<1>1. ASSUME pc'[u] = pc[u], arg'[u] = arg[u], file'[u] = file[u] PROVE Goal
  BY <1>0, <1>1 DEF Flushing
<1>2. CASE UNCHANGED vars
  BY <1>1, <1>2 DEF vars
<1>3. ASSUME NEW t \in Threads, Continue(t) PROVE Goal
  <2>1. CASE FlushEnter(t)
    <3>1. CASE t = u
      BY <1>0, <2>1, <3>1 DEF FlushEnter
    <3>2. CASE t # u
      BY <1>0, <1>1, <2>1, <3>2 DEF FlushEnter
    <3>3. QED
      BY <3>1, <3>2
  <2>2. CASE FlushWrite(t) \/ EndRead(t) \/ \E s \in Streams : EndRestore(t, s)
    BY <1>1, <2>2 DEF FlushWrite, EndRead, EndRestore
  <2>3. CASE \/ FlushDone(t)
             \/ BeginDup(t) \/ BeginDupFails(t) \/ BeginRedirect(t) \/ BeginDone(t)
             \/ EndFlushStderr(t) \/ EndReadDone(t) \/ EndTee(t) \/ EndDone(t)
             \/ WriteResolve(t) \/ WriteDone(t)
    <3>1. /\ pc'[t] \in {"idle", "b_dup", "e_done", "b_dup2", "b_done", "e_read",
                         "e_tee", "t_flush", "w_write"}
          /\ t # u => pc'[u] = pc[u] /\ arg'[u] = arg[u] /\ file'[u] = file[u]
      BY <1>0, <2>3
      DEF FlushDone, BeginDup, BeginDupFails, BeginRedirect, BeginDone,
          EndFlushStderr, EndReadDone, EndTee, EndDone, WriteResolve, WriteDone
    <3>2. t # u
      BY <3>1 DEF Flushing
    <3>3. QED
      BY <1>1, <3>1, <3>2
  <2>4. QED
    BY <1>3, <2>1, <2>2, <2>3 DEF Continue
<1>4. ASSUME NEW t \in Threads, Call(t) PROVE Goal
  <2>1. ASSUME NEW m \in Msgs, Eprintln(t, m) PROVE Goal
    <3>1. CASE t = u
      BY <1>0, <2>1, <3>1 DEF Eprintln, CallArg, Streams
    <3>2. CASE t # u
      BY <1>0, <1>1, <2>1, <3>2 DEF Eprintln
    <3>3. QED
      BY <3>1, <3>2
  <2>2. CASE \/ \E m \in Msgs : Println(t, m)
             \/ \E s \in Streams : BeginPipe(t, s)
             \/ EndEnter(t)
             \/ \E s \in Streams, m \in Msgs : WriteCall(t, s, m)
    <3>1. /\ pc'[t] \in {"p_flush", "b_flush", "e_restore", "w_call"}
          /\ t # u => pc'[u] = pc[u] /\ arg'[u] = arg[u] /\ file'[u] = file[u]
      BY <1>0, <2>2 DEF Println, BeginPipe, EndEnter, WriteCall
    <3>2. t # u
      BY <3>1 DEF Flushing
    <3>3. QED
      BY <1>1, <3>1, <3>2
  <2>3. CASE (\E m \in Msgs : LogUnflushed(t, m)) \/ Peek(t)
    BY <1>1, <2>3 DEF LogUnflushed, Peek
  <2>4. CASE EndIdle(t) \/ \E s \in Streams : BeginRefused(t, s)
    BY <1>2, <2>4 DEF EndIdle, BeginRefused
  <2>5. QED
    BY <1>4, <2>1, <2>2, <2>3, <2>4 DEF Call
<1>5. CASE OpenOther \/ CloseOther
  BY <1>1, <1>5 DEF OpenOther, CloseOther
<1>6. QED
  BY <1>2, <1>3, <1>4, <1>5 DEF Next

\* A C stream gets text only while nobody flushes it.
LEMMA StdioShrinks ==
  ASSUME IInv, [Next]_vars, NEW s \in Streams, filelock[s] # None
  PROVE  RangeOf(stdio'[s]) \subseteq RangeOf(stdio[s])
<1>0. stdio \in [Streams -> Seq(Msgs)] /\ STDOUT \in Streams /\ STDERR \in Streams
  BY DEF IInv, TypeOK, Streams
<1>1. CASE UNCHANGED vars
  BY <1>1 DEF vars
<1>2. ASSUME NEW t \in Threads, Continue(t)
      PROVE  RangeOf(stdio'[s]) \subseteq RangeOf(stdio[s])
  <2>1. CASE FlushWrite(t)
    <3>1. CASE arg[t].stream = s
      <4>1. stdio'[s] = Tail(stdio[s]) /\ stdio[s] # <<>>
        BY <1>0, <2>1, <3>1 DEF FlushWrite
      <4>2. QED
        BY <1>0, <4>1, RangeFacts
    <3>2. CASE arg[t].stream # s
      BY <1>0, <2>1, <3>2 DEF FlushWrite
    <3>3. QED
      BY <3>1, <3>2
  <2>2. CASE EndTee(t)
    <3>1. s # STDOUT
      BY <2>2 DEF EndTee
    <3>2. QED
      BY <1>0, <2>2, <3>1 DEF EndTee
  <2>3. CASE ~FlushWrite(t) /\ ~EndTee(t)
    <3>1. stdio' = stdio
      BY <1>2, <2>3
      DEF Continue, FlushEnter, FlushDone, BeginDup, BeginDupFails,
          BeginRedirect, BeginDone, EndRestore, EndFlushStderr, EndRead,
          EndReadDone, EndDone, WriteResolve, WriteDone
    <3>2. QED
      BY <3>1
  <2>4. QED
    BY <2>1, <2>2, <2>3
<1>3. ASSUME NEW t \in Threads, Call(t)
      PROVE  RangeOf(stdio'[s]) \subseteq RangeOf(stdio[s])
  <2>1. ASSUME NEW m \in Msgs, Println(t, m) \/ LogUnflushed(t, m) \/ Eprintln(t, m)
        PROVE  stdio'[s] = stdio[s]
    BY <1>0, <2>1 DEF Println, LogUnflushed, Eprintln
  <2>2. CASE ~\E m \in Msgs : Println(t, m) \/ LogUnflushed(t, m) \/ Eprintln(t, m)
    <3>1. stdio' = stdio
      BY <1>3, <2>2
      DEF Call, BeginRefused, BeginPipe, EndIdle, EndEnter, Peek, WriteCall, vars
    <3>2. QED
      BY <3>1
  <2>3. QED
    BY <2>1, <2>2
<1>4. CASE OpenOther \/ CloseOther
  BY <1>4 DEF OpenOther, CloseOther
<1>5. QED
  BY <1>1, <1>2, <1>3, <1>4 DEF Next

\* Until another capture begins, nothing the capture has got is dropped: Peek
\* and End move the texts of the pipe to the buffer.
LEMMA MovedToBuffer ==
  ASSUME IInv, ReadFile.kind = "read",
         buffer' = buffer \o pipe[ReadFile.id],
         pipe' = [pipe EXCEPT ![ReadFile.id] = <<>>], npipes' = npipes
  PROVE  /\ RangeOf(buffer) \subseteq RangeOf(buffer')
         /\ Received \subseteq Received'
<1>1. /\ npipes \in 0 .. MaxPipes /\ pipe \in [Pipes -> Seq(Msgs)]
      /\ buffer \in Seq(Msgs)
  BY DEF IInv, TypeOK
<1>2. npipes # 0 => npipes \in Pipes
  BY <1>1, BoundsAssumption DEF Pipes
<1>3. ReadFile.id \in Pipes
  <2>1. ReadFile \in Files
    BY DEF IInv, TypeOK, ReadFile, Files
  <2>2. PICK p \in Pipes : ReadFile = ReadEnd(p)
    BY <2>1 DEF Files, Closed, OtherFile, Tty, WriteEnd
  <2>3. QED
    BY <2>2 DEF ReadEnd
<1>4. RangeOf(buffer') = RangeOf(buffer) \cup RangeOf(pipe[ReadFile.id])
  BY <1>1, <1>3, RangeFacts
<1>5. CASE ReadFile.id = npipes
  <2>1. RangeOf(LastPipe) \subseteq RangeOf(pipe[ReadFile.id])
    BY <1>5, <1>3 DEF LastPipe, Pipes
  <2>2. QED
    BY <1>4, <2>1 DEF Received
<1>6. CASE ReadFile.id # npipes
  <2>1. LastPipe' = LastPipe
    BY <1>1, <1>2, <1>6 DEF LastPipe
  <2>2. QED
    BY <1>4, <2>1 DEF Received
<1>7. QED
  BY <1>5, <1>6

LEMMA ReceivedGrows ==
  ASSUME IInv, [Next]_vars, npipes' = npipes,
         \A t \in Threads : ~BeginDone(t)
  PROVE  /\ RangeOf(buffer) \subseteq RangeOf(buffer')
         /\ Received \subseteq Received'
<1> DEFINE Goal == /\ RangeOf(buffer) \subseteq RangeOf(buffer')
                   /\ Received \subseteq Received'
<1>1. ASSUME buffer' = buffer, pipe' = pipe PROVE Goal
  BY <1>1 DEF Received, LastPipe
<1>2. ASSUME buffer' = buffer, NEW f \in Files, NEW m \in Msgs, Deliver(f, m)
      PROVE  Goal
  <2>1. RangeOf(LastPipe) \subseteq RangeOf(LastPipe')
    BY <1>2, DeliverRange
  <2>2. QED
    BY <1>2, <2>1 DEF Received
<1>3. CASE UNCHANGED vars
  BY <1>1, <1>3 DEF vars
<1>4. ASSUME NEW t \in Threads, Continue(t) PROVE Goal
  <2>1. CASE FlushWrite(t)
    <3>1. /\ file[t] \in Files /\ arg[t].stream \in Streams
          /\ stdio[arg[t].stream] \in Seq(Msgs)
      BY DEF IInv, TypeOK
    <3>2. Head(stdio[arg[t].stream]) \in Msgs
      BY <2>1, <3>1, SeqFacts DEF FlushWrite
    <3>3. Deliver(file[t], Head(stdio[arg[t].stream])) /\ buffer' = buffer
      BY <2>1 DEF FlushWrite, captureVars
    <3>4. QED
      BY <1>2, <3>1, <3>2, <3>3
  <2>2. CASE WriteDone(t)
    <3>1. PICK m \in arg[t].msg : Deliver(file[t], m)
      BY <2>2 DEF WriteDone
    <3>2. file[t] \in Files /\ m \in Msgs
      BY DEF IInv, TypeOK
    <3>3. buffer' = buffer
      BY <2>2 DEF WriteDone, captureVars
    <3>4. QED
      BY <1>2, <3>1, <3>2, <3>3
  <2>3. CASE EndRead(t)
    BY <2>3, MovedToBuffer DEF EndRead
  <2>4. CASE ~FlushWrite(t) /\ ~WriteDone(t) /\ ~EndRead(t)
    <3>1. buffer' = buffer /\ pipe' = pipe
      BY <1>4, <2>4
      DEF Continue, FlushEnter, FlushDone, BeginDup, BeginDupFails,
          BeginRedirect, EndRestore, EndFlushStderr, EndReadDone, EndTee,
          EndDone, WriteResolve, captureVars
    <3>2. QED
      BY <1>1, <3>1
  <2>5. QED
    BY <2>1, <2>2, <2>3, <2>4
<1>5. ASSUME NEW t \in Threads, Call(t) PROVE Goal
  <2>1. CASE Peek(t)
    <3>1. CASE IsActive /\ ReadFile.kind = "read"
      BY <2>1, <3>1, MovedToBuffer DEF Peek
    <3>2. CASE ~(IsActive /\ ReadFile.kind = "read")
      BY <1>1, <2>1, <3>2 DEF Peek
    <3>3. QED
      BY <3>1, <3>2
  <2>2. CASE ~Peek(t)
    <3>1. buffer' = buffer /\ pipe' = pipe
      BY <1>5, <2>2
      DEF Call, Println, Eprintln, LogUnflushed, BeginRefused, BeginPipe,
          EndIdle, EndEnter, WriteCall, captureVars, vars
    <3>2. QED
      BY <1>1, <3>1
  <2>3. QED
    BY <2>1, <2>2
<1>6. CASE OpenOther \/ CloseOther
  BY <1>1, <1>6 DEF OpenOther, CloseOther, captureVars
<1>7. QED
  BY <1>3, <1>4, <1>5, <1>6 DEF Next

\* A capture is drained until End has read all of it.
LEMMA DrainingStays ==
  ASSUME IInv, OneAtATime, [Next]_vars, Draining,
         \A t \in Threads : ~EndReadDone(t)
  PROVE  Draining' /\ npipes' = npipes
<1> USE DEF Goto
<1> DEFINE Inside(t) == pc[t] \in {"b_done", "e_restore", "e_read"}
<1>0. /\ pc \in [Threads -> Pcs] /\ capturing \in [Streams -> BOOLEAN]
      /\ \A t \in Threads : Inside(t) => mtx # None
  BY NoneAssumption DEF IInv, TypeOK, MutexHeld, LockedPcs, BeginPcs, EndPcs
<1>1. ASSUME capturing' = capturing, npipes' = npipes,
             \A t \in Threads : Inside(t) => Inside(t)'
      PROVE  Draining' /\ npipes' = npipes
  BY <1>1 DEF Draining, IsActive
<1>2. CASE UNCHANGED vars
  BY <1>1, <1>2 DEF vars
<1>3. ASSUME NEW t \in Threads, Continue(t) PROVE Draining' /\ npipes' = npipes
  <2>1. CASE EndRestore(t, STDOUT) \/ EndRestore(t, STDERR)
    <3>1. pc' = pc /\ npipes' = npipes /\ pc[t] = "e_restore"
      BY <2>1 DEF EndRestore
    <3>2. QED
      BY <3>1 DEF Draining
  <2>2. CASE BeginDone(t)
    <3>1. capturing'[arg[t].stream] /\ npipes' = npipes /\ arg[t].stream \in Streams
      BY <1>0, <2>2 DEF BeginDone, IInv, TypeOK
    <3>2. QED
      BY <3>1 DEF Draining, IsActive
  <2>3. CASE FlushEnter(t) \/ FlushWrite(t) \/ FlushDone(t) \/ EndRead(t)
    <3>1. capturing' = capturing /\ npipes' = npipes
      BY <2>3 DEF FlushEnter, FlushWrite, FlushDone, EndRead, captureVars
    <3>2. \A u \in Threads : Inside(u) => Inside(u)'
      BY <1>0, <2>3 DEF FlushEnter, FlushWrite, FlushDone, EndRead
    <3>3. QED
      BY <1>1, <3>1, <3>2
  <2>4. CASE \/ BeginDup(t) \/ BeginDupFails(t) \/ BeginRedirect(t)
             \/ EndFlushStderr(t) \/ EndTee(t) \/ EndDone(t)
             \/ WriteResolve(t) \/ WriteDone(t)
    <3>1. capturing' = capturing /\ npipes' = npipes
      BY <2>4
      DEF BeginDup, BeginDupFails, BeginRedirect, EndFlushStderr, EndTee,
          EndDone, WriteResolve, WriteDone, captureVars
    <3>2. \A u \in Threads : Inside(u) => Inside(u)'
      BY <1>0, <2>4
      DEF BeginDup, BeginDupFails, BeginRedirect, EndFlushStderr, EndTee,
          EndDone, WriteResolve, WriteDone
    <3>3. QED
      BY <1>1, <3>1, <3>2
  <2>5. QED
    BY <1>3, <2>1, <2>2, <2>3, <2>4 DEF Continue, Streams
<1>4. ASSUME NEW t \in Threads, Call(t) PROVE Draining' /\ npipes' = npipes
  <2>1. ASSUME NEW s \in Streams, BeginPipe(t, s) PROVE FALSE
    <3>1. mtx = None /\ ~IsActive
      BY <2>1 DEF BeginPipe
    <3>2. QED
      BY <1>0, <3>1 DEF Draining
  <2>2. CASE \/ \E m \in Msgs : Println(t, m) \/ Eprintln(t, m)
             \/ EndEnter(t)
             \/ \E s \in Streams, m \in Msgs : WriteCall(t, s, m)
    <3>1. capturing' = capturing /\ npipes' = npipes
      BY <2>2 DEF Println, Eprintln, EndEnter, WriteCall, captureVars
    <3>2. pc[t] = "idle" /\ \A u \in Threads : u # t => pc'[u] = pc[u]
      BY <1>0, <2>2 DEF Println, Eprintln, EndEnter, WriteCall
    <3>3. QED
      BY <1>1, <3>1, <3>2
  <2>3. CASE (\E m \in Msgs : LogUnflushed(t, m)) \/ Peek(t)
    BY <1>1, <2>3 DEF LogUnflushed, Peek, captureVars
  <2>4. CASE EndIdle(t) \/ \E s \in Streams : BeginRefused(t, s)
    BY <1>2, <2>4 DEF EndIdle, BeginRefused
  <2>5. QED
    BY <1>4, <2>1, <2>2, <2>3, <2>4 DEF Call
<1>5. CASE OpenOther \/ CloseOther
  BY <1>1, <1>5 DEF OpenOther, CloseOther, captureVars
<1>6. QED
  BY <1>2, <1>3, <1>4, <1>5 DEF Next

LEMMA StepOldFlush ==
  ASSUME IInv, FlushLocks, OldFlush, Sessions, Sessions', [Next]_vars
  PROVE  OldFlush'
<1>1. SUFFICES ASSUME NEW u \in Threads, Flushing(u)', file'[u] # WriteEnd(npipes'),
                      NEW t \in Threads, Prints(t)', arg'[t].stream = arg'[u].stream
               PROVE  arg'[t].msg \cap RangeOf(stdio'[arg'[u].stream]) = {}
  BY DEF OldFlush
<1> DEFINE s == arg'[u].stream
<1>2. /\ s \in Streams
      /\ \/ Flushing(u) /\ file'[u] = file[u] /\ arg'[u] = arg[u]
         \/ file'[u] = fds[s]
  BY <1>1, FlushingOld
<1>3. /\ pc \in [Threads -> Pcs] /\ DOMAIN arg = Threads /\ DOMAIN file = Threads
      /\ capturing \in [Streams -> BOOLEAN]
  BY DEF IInv, TypeOK
<1>4. ASSUME NEW m \in Msgs, Println(t, m) \/ Eprintln(t, m) PROVE FALSE
  <2>1. PICK v \in Streams : /\ arg' = [arg EXCEPT ![t] = CallArg(v, m)]
                             /\ filelock[v] = None /\ capturing' = capturing
                             /\ npipes' = npipes
    BY <1>4 DEF Println, Eprintln, Streams, captureVars
  <2>2. v = s
    BY <1>1, <1>3, <2>1 DEF CallArg
  <2>3. capturing[s]
    BY <1>1, <1>3, <2>1, <2>2 DEF Prints, CallArg
  <2>4. file'[u] # fds[s]
    BY <1>1, <1>2, <2>1, <2>3, CapturedFd
  <2>5. Flushing(u) /\ arg'[u] = arg[u]
    BY <1>2, <2>4
  <2>6. filelock[s] = u
    BY <2>5 DEF FlushLocks
  <2>7. QED
    BY <2>1, <2>2, <2>6, NoneAssumption
<1>5. Prints(t) /\ arg'[t] = arg[t] /\ npipes' = npipes
  BY <1>1, <1>4, PrintsOld
<1>6. capturing[s]
  BY <1>1, <1>5 DEF Prints
<1>7. Flushing(u) /\ file'[u] = file[u] /\ arg'[u] = arg[u]
  BY <1>1, <1>2, <1>5, <1>6, CapturedFd
<1>8. arg[t].msg \cap RangeOf(stdio[s]) = {}
  BY <1>1, <1>5, <1>7 DEF OldFlush
<1>9. filelock[s] # None
  BY <1>7, NoneAssumption DEF FlushLocks
<1>10. RangeOf(stdio'[s]) \subseteq RangeOf(stdio[s])
  BY <1>2, <1>9, StdioShrinks
<1>11. QED
  BY <1>5, <1>8, <1>10

\* A write(2) moves the text to the pipe, or is of an older text.
LEMMA StepOnTheWay ==
  ASSUME IInv, OnTheWay, OldFlush, Sessions, Sessions', [Next]_vars
  PROVE  OnTheWay'
<1>1. SUFFICES ASSUME NEW t \in Threads, Prints(t)'
               PROVE  arg'[t].msg \subseteq Received' \cup RangeOf(stdio'[arg'[t].stream])
  BY DEF OnTheWay
<1>2. /\ pc \in [Threads -> Pcs] /\ DOMAIN arg = Threads /\ stdio \in [Streams -> Seq(Msgs)]
      /\ capturing \in [Streams -> BOOLEAN]
      /\ \A u \in Threads : file[u] \in Files /\ arg[u].stream \in Streams
  BY DEF IInv, TypeOK
<1>3. ASSUME NEW m \in Msgs, Println(t, m) \/ Eprintln(t, m)
      PROVE  arg'[t].msg \subseteq RangeOf(stdio'[arg'[t].stream])
  <2>1. PICK v \in Streams : /\ arg' = [arg EXCEPT ![t] = CallArg(v, m)]
                             /\ stdio' = [stdio EXCEPT ![v] = Append(stdio[v], m)]
    BY <1>3 DEF Println, Eprintln, Streams
  <2>2. arg'[t].stream = v /\ arg'[t].msg = {m}
    BY <1>2, <2>1 DEF CallArg
  <2>3. m \in RangeOf(stdio'[v])
    BY <1>2, <2>1, RangeFacts
  <2>4. QED
    BY <2>2, <2>3
<1>4. ASSUME \A m \in Msgs : ~Println(t, m) /\ ~Eprintln(t, m)
      PROVE  arg'[t].msg \subseteq Received' \cup RangeOf(stdio'[arg'[t].stream])
  <2> DEFINE s == arg[t].stream
  <2>1. Prints(t) /\ arg'[t] = arg[t] /\ npipes' = npipes
    BY <1>1, <1>4, PrintsOld
  <2>2. capturing[s] /\ s \in Streams
    BY <1>2, <2>1 DEF Prints
  <2>3. arg[t].msg \subseteq Received \cup RangeOf(stdio[s])
    BY <2>1 DEF OnTheWay
  <2>4. \A u \in Threads : ~BeginDone(u)
    BY <2>2, BeginInactive DEF BeginDone, BeginPcs, IsActive
  <2>5. Received \subseteq Received'
    BY <2>1, <2>4, ReceivedGrows
  <2>6. ASSUME NEW u \in Threads, FlushWrite(u)
        PROVE  arg[t].msg \subseteq Received' \cup RangeOf(stdio'[s])
    <3>1. CASE arg[u].stream # s
      <4>1. stdio'[s] = stdio[s]
        BY <1>2, <2>2, <2>6, <3>1 DEF FlushWrite
      <4>2. QED
        BY <2>3, <2>5, <4>1
    <3>2. CASE arg[u].stream = s /\ file[u] = WriteEnd(npipes)
      <4> DEFINE h == Head(stdio[s])
      <4>1. /\ stdio[s] # <<>> /\ Deliver(file[u], h)
            /\ stdio'[s] = Tail(stdio[s])
        BY <1>2, <2>2, <2>6, <3>2 DEF FlushWrite
      <4>2. h \in Msgs
        BY <1>2, <2>2, <4>1, SeqFacts
      <4>3. h \in RangeOf(LastPipe')
        BY <1>2, <2>1, <3>2, <4>1, <4>2, DeliverRange
      <4>4. RangeOf(stdio[s]) = {h} \cup RangeOf(stdio'[s])
        BY <1>2, <2>2, <4>1, RangeFacts
      <4> HIDE DEF h
      <4>5. QED
        BY <2>3, <2>5, <4>3, <4>4 DEF Received
    <3>3. CASE arg[u].stream = s /\ file[u] # WriteEnd(npipes)
      <4>1. Flushing(u)
        BY <2>6 DEF FlushWrite, Flushing
      <4>2. arg[t].msg \cap RangeOf(stdio[s]) = {}
        BY <2>1, <3>3, <4>1 DEF OldFlush
      <4>3. QED
        BY <2>3, <2>5, <4>2
    <3>4. QED
      BY <3>1, <3>2, <3>3
  <2>7. ASSUME \A u \in Threads : ~FlushWrite(u)
        PROVE  RangeOf(stdio[s]) \subseteq RangeOf(stdio'[s])
    <3>1. ASSUME NEW v \in Streams, NEW q \in Seq(Msgs),
                 stdio' = [stdio EXCEPT ![v] = stdio[v] \o q]
          PROVE  RangeOf(stdio[s]) \subseteq RangeOf(stdio'[s])
      <4>1. stdio'[s] \in {stdio[s], stdio[s] \o q}
        BY <1>2, <2>2, <3>1
      <4>2. RangeOf(stdio[s] \o q) = RangeOf(stdio[s]) \cup RangeOf(q)
        BY <1>2, <2>2, RangeFacts
      <4>3. QED
        BY <4>1, <4>2
    <3>2. ASSUME NEW v \in Streams, NEW m \in Msgs,
                 stdio' = [stdio EXCEPT ![v] = Append(stdio[v], m)]
          PROVE  RangeOf(stdio[s]) \subseteq RangeOf(stdio'[s])
      <4>1. stdio'[s] \in {stdio[s], Append(stdio[s], m)}
        BY <1>2, <2>2, <3>2
      <4>2. RangeOf(Append(stdio[s], m)) = RangeOf(stdio[s]) \cup {m}
        BY <1>2, <2>2, RangeFacts
      <4>3. QED
        BY <4>1, <4>2
    <3>3. CASE \E u \in Threads : Continue(u)
      <4>1. PICK u \in Threads : Continue(u)
        BY <3>3
      <4>2. CASE EndTee(u)
        <5>1. STDOUT \in Streams /\ buffer \in Seq(Msgs)
          BY DEF Streams, IInv, TypeOK
        <5>2. QED
          BY <3>1, <4>2, <5>1 DEF EndTee
      <4>3. CASE ~EndTee(u)
        <5>1. stdio' = stdio
          BY <2>7, <4>1, <4>3
          DEF Continue, FlushEnter, FlushDone, BeginDup, BeginDupFails,
              BeginRedirect, BeginDone, EndRestore, EndFlushStderr, EndRead,
              EndReadDone, EndDone, WriteResolve, WriteDone
        <5>2. QED
          BY <5>1
      <4>4. QED
        BY <4>2, <4>3
    <3>4. CASE \E u \in Threads : Call(u)
      <4>1. PICK u \in Threads : Call(u)
        BY <3>4
      <4>2. ASSUME NEW m \in Msgs,
                   Println(u, m) \/ Eprintln(u, m) \/ LogUnflushed(u, m)
            PROVE  RangeOf(stdio[s]) \subseteq RangeOf(stdio'[s])
        <5>1. \E v \in Streams : stdio' = [stdio EXCEPT ![v] = Append(stdio[v], m)]
          BY <4>2 DEF Println, Eprintln, LogUnflushed, Streams
        <5>2. QED
          BY <3>2, <5>1
      <4>3. CASE ~\E m \in Msgs : Println(u, m) \/ Eprintln(u, m) \/ LogUnflushed(u, m)
        <5>1. stdio' = stdio
          BY <4>1, <4>3
          DEF Call, BeginRefused, BeginPipe, EndIdle, EndEnter, Peek,
              WriteCall, vars
        <5>2. QED
          BY <5>1
      <4>4. QED
        BY <4>2, <4>3
    <3>5. CASE OpenOther \/ CloseOther \/ UNCHANGED vars
      BY <3>5 DEF OpenOther, CloseOther, vars
    <3>6. QED
      BY <3>3, <3>4, <3>5 DEF Next
  <2>8. QED
    BY <2>1, <2>3, <2>5, <2>6, <2>7
<1>5. QED
  BY <1>3, <1>4

\* End stops reading once the pipe is empty and nobody writes to it.
LEMMA ReadToTheEnd ==
  ASSUME IInv, NEW t \in Threads, EndReadDone(t)
  PROVE  /\ pipe[npipes] = <<>>
         /\ \A u \in Threads : file[u] # WriteEnd(npipes)
<1>1. Restored(STDOUT)
  BY DEF EndReadDone, IInv, TypeOK, Wiring, At
<1>2. pipe_read_fd \in Fds /\ pipe_read_fd > 2
  BY <1>1 DEF Restored, Layout
<1>3. Cell(pipe_read_fd, STDOUT, FALSE, TRUE, FALSE, FALSE)
  BY <1>1, <1>2 DEF Restored, Layout
<1>4. ~(pipe_read_fd <= 2)
  BY <1>2, StdFds
<1>5. fds[pipe_read_fd] = ReadEnd(npipes)
  BY <1>3, <1>4 DEF Cell
<1>6. QED
  BY <1>2, <1>5 DEF EndReadDone, ReadFile, ReadEnd, NoWriter

LEMMA StepKept ==
  ASSUME OneAtATime, Loggers = {}, IInv, Kept, OnTheWay, [Next]_vars
  PROVE  Kept'
<1>0. npipes \in Nat /\ (npipes # 0 => npipes \in Pipes)
  BY BoundsAssumption DEF IInv, TypeOK, Pipes
<1>1. CASE \E t \in Threads : BeginDone(t)
  <2>1. PICK t \in Threads : BeginDone(t)
    BY <1>1
  <2>2. ~IsActive
    BY <2>1, BeginInactive DEF BeginDone, BeginPcs
  <2>3. expected' = {}
    BY <2>1, <2>2 DEF BeginDone
  <2>4. QED
    BY <2>3 DEF Kept
<1>2. CASE \E t \in Threads : EndReadDone(t)
  <2>1. PICK t \in Threads : EndReadDone(t)
    BY <1>2
  <2>2. pc[t] = "e_read" /\ buffer' = buffer /\ expected' = expected
    BY <2>1 DEF EndReadDone, ghostVars
  <2>5. pipe[npipes] = <<>>
    BY <2>1, ReadToTheEnd
  <2>6. RangeOf(LastPipe) = {}
    BY <2>5, RangeFacts DEF LastPipe
  <2>7. expected \subseteq RangeOf(buffer)
    BY <2>6 DEF Kept
  <2>8. QED
    BY <2>2, <2>7 DEF Kept
<1>3. ASSUME \A t \in Threads : ~BeginDone(t) /\ ~EndReadDone(t)
      PROVE  Kept'
  <2>1. RangeOf(buffer) \subseteq RangeOf(buffer')
    <3>1. CASE npipes' = npipes
      BY <1>3, <3>1, ReceivedGrows
    <3>2. CASE npipes' # npipes
      <4>1. \E t \in Threads, s \in Streams : BeginPipe(t, s)
        <5>1. \A t \in Threads : ~Continue(t)
          BY <3>2
          DEF Continue, FlushEnter, FlushWrite, FlushDone, BeginDup,
              BeginDupFails, BeginRedirect, BeginDone, EndRestore,
              EndFlushStderr, EndRead, EndReadDone, EndTee, EndDone,
              WriteResolve, WriteDone
        <5>2. ~OpenOther /\ ~CloseOther /\ ~UNCHANGED vars
          BY <3>2 DEF OpenOther, CloseOther, vars
        <5>3. PICK t \in Threads : Call(t)
          BY <5>1, <5>2 DEF Next
        <5>4. ~EndIdle(t) /\ \A s \in Streams : ~BeginRefused(t, s)
          BY <5>2 DEF EndIdle, BeginRefused
        <5>5. \A m \in Msgs : ~Println(t, m) /\ ~Eprintln(t, m) /\ ~LogUnflushed(t, m)
          BY <3>2 DEF Println, Eprintln, LogUnflushed
        <5>6. /\ ~EndEnter(t) /\ ~Peek(t)
              /\ \A s \in Streams, m \in Msgs : ~WriteCall(t, s, m)
          BY <3>2 DEF EndEnter, Peek, WriteCall
        <5>7. QED
          BY <5>3, <5>4, <5>5, <5>6 DEF Call
      <4>2. buffer' = buffer
        BY <4>1 DEF BeginPipe
      <4>3. QED
        BY <4>2
    <3>3. QED
      BY <3>1, <3>2
  <2>2. ASSUME expected' = expected PROVE Kept'
    <3>1. CASE Draining
      <4>1. Draining' /\ npipes' = npipes
        BY <1>3, <3>1, DrainingStays
      <4>2. Received \subseteq Received'
        BY <1>3, <4>1, ReceivedGrows
      <4>3. QED
        BY <2>2, <3>1, <4>1, <4>2 DEF Kept, Received
    <3>2. CASE ~Draining
      <4>1. expected \subseteq RangeOf(buffer)
        BY <3>2 DEF Kept
      <4>2. QED
        BY <2>1, <2>2, <4>1 DEF Kept
    <3>3. QED
      BY <3>1, <3>2
  <2>3. ASSUME NEW t \in Threads, FlushDone(t), expected' # expected PROVE Kept'
    <3>1. /\ Prints(t) /\ expected' = expected \cup arg[t].msg
          /\ stdio[arg[t].stream] = <<>>
          /\ capturing[arg[t].stream]
      BY <2>3 DEF FlushDone, Prints
    <3>2. arg[t].msg \subseteq Received
      BY <3>1, RangeFacts DEF OnTheWay
    <3>3. Draining
      BY <3>1 DEF Draining, IsActive, IInv, TypeOK
    <3>4. Draining' /\ npipes' = npipes
      BY <1>3, <3>3, DrainingStays
    <3>5. Received \subseteq Received'
      BY <1>3, <3>4, ReceivedGrows
    <3>6. QED
      BY <3>1, <3>2, <3>3, <3>4, <3>5 DEF Kept, Received
  <2>4. \A t \in Threads, m \in Msgs : ~LogUnflushed(t, m)
    BY DEF LogUnflushed
  <2>5. ASSUME \A t \in Threads : ~FlushDone(t) PROVE expected' = expected
    <3>1. ASSUME NEW t \in Threads, Continue(t) PROVE expected' = expected
      <4>1. ~FlushDone(t) /\ ~BeginDone(t) /\ ~EndReadDone(t)
        BY <1>3, <2>5
      <4>2. QED
        BY <3>1, <4>1
        DEF Continue, FlushEnter, FlushWrite, BeginDup, BeginDupFails,
            BeginRedirect, EndRestore, EndFlushStderr, EndRead, EndTee,
            EndDone, WriteResolve, WriteDone, ghostVars
    <3>2. ASSUME NEW t \in Threads, Call(t) PROVE expected' = expected
      BY <2>4, <3>2
      DEF Call, Println, Eprintln, BeginRefused, BeginPipe, EndIdle, EndEnter,
          Peek, WriteCall, vars, ghostVars
    <3>3. CASE OpenOther \/ CloseOther \/ UNCHANGED vars
      BY <3>3 DEF OpenOther, CloseOther, vars, ghostVars
    <3>4. QED
      BY <3>1, <3>2, <3>3 DEF Next
  <2>6. QED
    BY <2>2, <2>3, <2>5
<1>4. QED
  BY <1>1, <1>2, <1>3

\* What End is about to tee and return holds every text printed while the
\* capture was active: no interleaving of prints, Peek and End loses or skips
\* one, in a program that writes to std::cout through the library only.
THEOREM CaptureIsComplete ==
  ASSUME OneAtATime, Loggers = {}
  PROVE  Spec => []CaptureComplete
<1>1. Init => Arrival
  <2>1. SUFFICES ASSUME Init PROVE Arrival
    OBVIOUS
  <2>2. /\ \A t \in Threads : pc[t] = "idle" /\ arg[t].session = 0
        /\ npipes = 0 /\ expected = {}
    BY <2>1 DEF Init, NoArg
  <2>3. QED
    BY <2>2
    DEF Arrival, Kept, OnTheWay, FlushLocks, OldFlush, Sessions, Prints,
        Flushing, BeginPcs
<1>2. Arrival /\ IInv /\ [Next]_vars => Arrival'
  BY StepFlushLocks, StepSessions, StepOldFlush, StepOnTheWay, StepKept
  DEF Arrival
<1>3. Arrival /\ IInv => CaptureComplete
  <2>1. SUFFICES ASSUME Arrival, IInv, NEW t \in Threads, pc[t] = "e_tee"
                 PROVE  expected \subseteq RangeOf(buffer)
    BY DEF CaptureComplete
  <2>2. /\ ~IsActive
        /\ \A u \in Threads : pc[u] \in LockedPcs => u = t
    BY <2>1, BeginInactive
  <2>3. ~Draining
    BY <2>1, <2>2 DEF Draining, LockedPcs, BeginPcs, EndPcs
  <2>4. QED
    BY <2>1, <2>3 DEF Arrival, Kept
<1>4. QED
  BY <1>1, <1>2, <1>3, InvariantIInv, PTL DEF Spec

-----------------------------------------------------------------------------
(* Only: the texts of a sequence that are in a set.  What its recursive    *)
(* function computes is shown by induction on the length of the sequence,  *)
(* with a principle that quantifies over a set of numbers.                 *)

LEMMA Induct ==
  ASSUME NEW S, 0 \in S, \A n \in Nat : n \in S => n + 1 \in S
  PROVE  \A n \in Nat : n \in S
<1>1. SUFFICES ASSUME Nat \ S # {} PROVE FALSE
  OBVIOUS
<1> DEFINE R == {p \in Nat \X Nat : p[1] < p[2]}
<1>2. IsWellFoundedOn(R, Nat)
  BY NatLessThanWellFounded DEF OpToRel
<1>3. ASSUME NEW y \in Nat, NEW x \in Nat, ~(<<y, x>> \in R) PROVE ~(y < x)
  BY <1>3
<1> HIDE DEF R
<1>4. PICK x \in Nat \ S : \A y \in Nat \ S : ~(<<y, x>> \in R)
  BY <1>1, <1>2, WFMin
<1>5. x # 0
  BY <1>4
<1>6. x - 1 \in Nat /\ x - 1 < x /\ (x - 1) + 1 = x
  BY <1>4, <1>5
<1>7. x - 1 \in S
  BY <1>3, <1>4, <1>6
<1> QED BY <1>4, <1>6, <1>7

\* h is the loop of Only after each of its rounds.
Filters(h, seq, S) ==
  h = [i \in 0 .. Len(seq) |->
         IF i = 0 THEN <<>>
         ELSE IF seq[i] \in S THEN Append(h[i - 1], seq[i]) ELSE h[i - 1]]

LEMMA FiltersExists ==
  ASSUME NEW seq \in Seq(Msgs), NEW S
  PROVE  \E h : Filters(h, seq, S)
<1> DEFINE Good(h, n) ==
             h = [i \in 0 .. n |->
                    IF i = 0 THEN <<>>
                    ELSE IF seq[i] \in S THEN Append(h[i - 1], seq[i]) ELSE h[i - 1]]
           N == {n \in Nat : \E h : Good(h, n)}
<1>1. 0 \in N
  <2>1. Good([i \in 0 .. 0 |-> <<>>], 0)
    OBVIOUS
  <2> QED BY <2>1
<1>2. ASSUME NEW n \in Nat, n \in N PROVE n + 1 \in N
  <2>1. PICK h : Good(h, n)
    BY <1>2
  <2> DEFINE k == [i \in 0 .. n + 1 |->
                     IF i = 0 THEN <<>>
                     ELSE IF seq[i] \in S THEN Append(h[i - 1], seq[i]) ELSE h[i - 1]]
  <2>2. ASSUME NEW i \in 0 .. n PROVE k[i] = h[i]
    <3>1. i \in 0 .. n + 1
      OBVIOUS
    <3>2. h[i] = IF i = 0 THEN <<>>
                 ELSE IF seq[i] \in S THEN Append(h[i - 1], seq[i]) ELSE h[i - 1]
      BY <2>1
    <3> QED BY <3>1, <3>2
  <2>3. \A i \in 0 .. n + 1 : i # 0 => i - 1 \in 0 .. n
    OBVIOUS
  <2>4. Good(k, n + 1)
    BY <2>2, <2>3
  <2>5. \E g : Good(g, n + 1)
    <3> HIDE DEF k, Good
    <3> QED BY <2>4
  <2> HIDE DEF Good
  <2> QED BY <2>5
<1>3. Len(seq) \in N
  <2> HIDE DEF N
  <2> QED BY <1>1, <1>2, Induct
<1> QED BY <1>3 DEF Filters

LEMMA OnlyIsLoop ==
  ASSUME NEW seq \in Seq(Msgs), NEW S
  PROVE  \E h : Filters(h, seq, S) /\ Only(seq, S) = h[Len(seq)]
<1>1. Only(seq, S) = (CHOOSE h : Filters(h, seq, S))[Len(seq)]
  BY Zenon DEF Only, Filters
<1>2. Filters(CHOOSE h : Filters(h, seq, S), seq, S)
  BY FiltersExists
<1> QED BY <1>1, <1>2

LEMMA FilterRounds ==
  ASSUME NEW seq \in Seq(Msgs), NEW S, NEW h, Filters(h, seq, S)
  PROVE  /\ h[0] = <<>>
         /\ \A i \in 0 .. Len(seq) : i < Len(seq) =>
              h[i + 1] = IF seq[i + 1] \in S THEN Append(h[i], seq[i + 1]) ELSE h[i]
<1>1. Len(seq) \in Nat
  OBVIOUS
<1>2. 0 \in 0 .. Len(seq)
  BY <1>1
<1>3. ASSUME NEW i \in 0 .. Len(seq), i < Len(seq)
      PROVE  i + 1 \in 0 .. Len(seq) /\ i + 1 # 0 /\ (i + 1) - 1 = i
  BY <1>1, <1>3
<1> QED BY <1>2, <1>3 DEF Filters

\* The loops of two sequences agree as long as the sequences do.
LEMMA FiltersAgree ==
  ASSUME NEW a \in Seq(Msgs), NEW b \in Seq(Msgs), NEW S, NEW T,
         NEW h, Filters(h, a, S), NEW k, Filters(k, b, T),
         NEW m \in Nat, m <= Len(a), m <= Len(b),
         \A i \in 1 .. m : a[i] = b[i] /\ (a[i] \in S <=> b[i] \in T)
  PROVE  h[m] = k[m]
<1> DEFINE N == {n \in Nat : n <= m => h[n] = k[n]}
<1>0. Len(a) \in Nat /\ Len(b) \in Nat
  OBVIOUS
<1>1. 0 \in N
  BY FilterRounds
<1>2. ASSUME NEW n \in Nat, n \in N PROVE n + 1 \in N
  <2>1. SUFFICES ASSUME n + 1 <= m PROVE h[n + 1] = k[n + 1]
    OBVIOUS
  <2>2. /\ n \in 0 .. Len(a) /\ n < Len(a) /\ n \in 0 .. Len(b) /\ n < Len(b)
        /\ n + 1 \in 1 .. m /\ n <= m
    BY <1>0, <2>1
  <2>3. h[n] = k[n]
    BY <1>2, <2>2
  <2>4. h[n + 1] = IF a[n + 1] \in S THEN Append(h[n], a[n + 1]) ELSE h[n]
    BY <2>2, FilterRounds
  <2>5. k[n + 1] = IF b[n + 1] \in T THEN Append(k[n], b[n + 1]) ELSE k[n]
    BY <2>2, FilterRounds
  <2> QED BY <2>2, <2>3, <2>4, <2>5
<1>3. m \in N
  <2> HIDE DEF N
  <2> QED BY <1>1, <1>2, Induct
<1> QED BY <1>3

LEMMA OnlyEmpty ==
  ASSUME NEW S
  PROVE  Only(<<>>, S) = <<>>
<1> DEFINE e == <<>>
<1>1. e \in Seq(Msgs) /\ Len(e) = 0
  OBVIOUS
<1> HIDE DEF e
<1>2. PICK h : Filters(h, e, S) /\ Only(e, S) = h[Len(e)]
  BY <1>1, OnlyIsLoop
<1>3. h[0] = <<>>
  <2>1. Filters(h, e, S)
    BY <1>2
  <2>2. e \in Seq(Msgs)
    BY <1>1
  <2> QED BY <2>1, <2>2, FilterRounds
<1>4. Only(e, S) = <<>>
  BY <1>1, <1>2, <1>3
<1> QED BY <1>4 DEF e

LEMMA OnlyAppend ==
  ASSUME NEW seq \in Seq(Msgs), NEW m \in Msgs, NEW S
  PROVE  Only(Append(seq, m), S) =
           IF m \in S THEN Append(Only(seq, S), m) ELSE Only(seq, S)
<1> DEFINE r == Append(seq, m)
<1>1. /\ r \in Seq(Msgs) /\ Len(seq) \in Nat /\ Len(r) = Len(seq) + 1
      /\ \A i \in 1 .. Len(seq) : r[i] = seq[i]
      /\ r[Len(seq) + 1] = m
  OBVIOUS
<1> HIDE DEF r
<1>2. PICK h : Filters(h, seq, S) /\ Only(seq, S) = h[Len(seq)]
  BY OnlyIsLoop
<1>3. PICK k : Filters(k, r, S) /\ Only(r, S) = k[Len(r)]
  BY <1>1, OnlyIsLoop
<1>4. h[Len(seq)] = k[Len(seq)]
  <2>0. Len(seq) <= Len(r)
    BY <1>1
  <2>1. Len(seq) <= Len(seq)
    BY <1>1
  <2>2. \A i \in 1 .. Len(seq) : seq[i] = r[i] /\ (seq[i] \in S <=> r[i] \in S)
    BY <1>1
  <2>3. Filters(h, seq, S)
    BY <1>2
  <2>4. Filters(k, r, S)
    BY <1>3
  <2>5. Len(seq) \in Nat
    BY <1>1
  <2>6. r \in Seq(Msgs)
    BY <1>1
  <2>7. ASSUME NEW n \in Nat, n <= Len(seq), n <= Len(r),
               \A i \in 1 .. n : seq[i] = r[i] /\ (seq[i] \in S <=> r[i] \in S)
        PROVE  h[n] = k[n]
    BY <2>3, <2>4, <2>6, <2>7, FiltersAgree
  <2> QED BY <2>0, <2>1, <2>2, <2>5, <2>7
<1>5. Len(seq) \in 0 .. Len(r) /\ Len(seq) < Len(r)
  BY <1>1
<1>6. k[Len(seq) + 1] = IF m \in S THEN Append(k[Len(seq)], m) ELSE k[Len(seq)]
  BY <1>1, <1>3, <1>5, FilterRounds
<1> QED BY <1>1, <1>2, <1>3, <1>4, <1>6 DEF r

\* A sequence is empty or has a last text.
LEMMA LastText ==
  ASSUME NEW seq \in Seq(Msgs), seq # <<>>
  PROVE  \E q \in Seq(Msgs), m \in Msgs :
           seq = Append(q, m) /\ Len(seq) = Len(q) + 1
<1> DEFINE q == [i \in 1 .. Len(seq) - 1 |-> seq[i]]
<1>0. Len(seq) \in Nat /\ Len(seq) > 0 /\ \A i \in 1 .. Len(seq) : seq[i] \in Msgs
  OBVIOUS
<1>1. /\ Len(seq) \in Nat /\ Len(seq) > 0 /\ q \in Seq(Msgs)
      /\ Len(q) = Len(seq) - 1
      /\ \A i \in 1 .. Len(q) : q[i] = seq[i]
      /\ seq[Len(seq)] \in Msgs
  <2>1. Len(seq) - 1 \in Nat /\ Len(seq) \in 1 .. Len(seq)
    BY <1>0
  <2>2. \A i \in 1 .. Len(seq) - 1 : seq[i] \in Msgs
    BY <1>0
  <2>3. q \in Seq(Msgs) /\ Len(q) = Len(seq) - 1
    BY <2>1, <2>2
  <2> QED BY <1>0, <2>1, <2>3
<1> HIDE DEF q
<1>2. /\ Append(q, seq[Len(seq)]) \in Seq(Msgs)
      /\ Len(Append(q, seq[Len(seq)])) = Len(seq)
      /\ \A i \in 1 .. Len(seq) : Append(q, seq[Len(seq)])[i] = seq[i]
  BY <1>1
<1>3. seq = Append(q, seq[Len(seq)])
  BY <1>2, SeqEqual
<1> QED BY <1>1, <1>3

\* Induction on sequences, over a set of them.
LEMMA InductSeqs ==
  ASSUME NEW P, <<>> \in P,
         \A seq \in Seq(Msgs), m \in Msgs : seq \in P => Append(seq, m) \in P
  PROVE  \A seq \in Seq(Msgs) : seq \in P
<1> DEFINE N == {n \in Nat : \A seq \in Seq(Msgs) : Len(seq) = n => seq \in P}
<1>1. 0 \in N
  <2>1. \A seq \in Seq(Msgs) : Len(seq) = 0 => seq = <<>>
    OBVIOUS
  <2> QED BY <2>1
<1>2. ASSUME NEW n \in Nat, n \in N PROVE n + 1 \in N
  <2>1. SUFFICES ASSUME NEW seq \in Seq(Msgs), Len(seq) = n + 1 PROVE seq \in P
    OBVIOUS
  <2>2. seq # <<>>
    BY <2>1
  <2>3. PICK q \in Seq(Msgs), m \in Msgs : seq = Append(q, m) /\ Len(seq) = Len(q) + 1
    BY <2>2, LastText
  <2>4. Len(q) = n
    BY <2>1, <2>3
  <2> QED BY <1>2, <2>3, <2>4
<1>3. \A n \in Nat : n \in N
  <2> HIDE DEF N
  <2> QED BY <1>1, <1>2, Induct
<1> QED BY <1>3

LEMMA OnlyType ==
  ASSUME NEW seq \in Seq(Msgs), NEW S
  PROVE  Only(seq, S) \in Seq(Msgs)
<1> DEFINE P == {q \in Seq(Msgs) : Only(q, S) \in Seq(Msgs)}
<1>1. <<>> \in P
  BY OnlyEmpty, SeqFacts, Zenon
<1>2. ASSUME NEW q \in Seq(Msgs), NEW m \in Msgs, q \in P PROVE Append(q, m) \in P
  <2>1. Only(q, S) \in Seq(Msgs)
    BY <1>2
  <2>2. Append(q, m) \in Seq(Msgs) /\ Append(Only(q, S), m) \in Seq(Msgs)
    BY <2>1, SeqFacts
  <2>3. Only(Append(q, m), S) \in {Append(Only(q, S), m), Only(q, S)}
    BY OnlyAppend
  <2> QED BY <2>1, <2>2, <2>3
<1> HIDE DEF P
<1>3. seq \in P
  BY <1>1, <1>2, InductSeqs
<1> QED BY <1>3 DEF P

LEMMA ConcatAppend ==
  ASSUME NEW a \in Seq(Msgs), NEW b \in Seq(Msgs), NEW m \in Msgs
  PROVE  a \o Append(b, m) = Append(a \o b, m)
<1> DEFINE r1 == a \o Append(b, m)
           r2 == Append(a \o b, m)
<1>1. r1 \in Seq(Msgs) /\ r2 \in Seq(Msgs) /\ Len(r1) = Len(r2)
  OBVIOUS
<1>2. ASSUME NEW i \in 1 .. Len(r1) PROVE r1[i] = r2[i]
  <2>1. CASE i <= Len(a)
    BY <2>1
  <2>2. CASE ~(i <= Len(a)) /\ i <= Len(a) + Len(b)
    BY <2>2
  <2>3. CASE ~(i <= Len(a) + Len(b))
    BY <2>3
  <2> QED BY <2>1, <2>2, <2>3
<1> HIDE DEF r1, r2
<1>3. r1 = r2
  BY <1>1, <1>2, SeqEqual
<1> QED BY <1>3 DEF r1, r2

LEMMA OnlyConcat ==
  ASSUME NEW a \in Seq(Msgs), NEW b \in Seq(Msgs), NEW S
  PROVE  Only(a \o b, S) = Only(a, S) \o Only(b, S)
<1> DEFINE P == {q \in Seq(Msgs) : Only(a \o q, S) = Only(a, S) \o Only(q, S)}
<1>1. <<>> \in P
  <2>1. a \o <<>> = a /\ Only(a, S) \o <<>> = Only(a, S)
    BY OnlyType, ConcatEmptySeq
  <2>2. Only(a \o <<>>, S) = Only(a, S) \o Only(<<>>, S)
    BY <2>1, OnlyEmpty, Zenon
  <2> QED BY <2>2, SeqFacts, Zenon
<1>2. ASSUME NEW q \in Seq(Msgs), NEW m \in Msgs, q \in P PROVE Append(q, m) \in P
  <2>1. a \o Append(q, m) = Append(a \o q, m) /\ a \o q \in Seq(Msgs)
    BY ConcatAppend
  <2>2. Only(Append(a \o q, m), S) =
          IF m \in S THEN Append(Only(a \o q, S), m) ELSE Only(a \o q, S)
    BY <2>1, OnlyAppend
  <2>3. Only(Append(q, m), S) =
          IF m \in S THEN Append(Only(q, S), m) ELSE Only(q, S)
    BY OnlyAppend
  <2>4. Only(a \o q, S) = Only(a, S) \o Only(q, S)
    BY <1>2
  <2>5. Only(a, S) \o Append(Only(q, S), m) = Append(Only(a, S) \o Only(q, S), m)
    BY OnlyType, ConcatAppend
  <2>6. Append(q, m) \in Seq(Msgs)
    OBVIOUS
  <2> QED BY <2>1, <2>2, <2>3, <2>4, <2>5, <2>6
<1> HIDE DEF P
<1>3. b \in P
  BY <1>1, <1>2, InductSeqs
<1> QED BY <1>3 DEF P

LEMMA OnlyOne ==
  ASSUME NEW m \in Msgs, NEW S
  PROVE  Only(<<m>>, S) = IF m \in S THEN <<m>> ELSE <<>>
<1>1. <<m>> = Append(<<>>, m)
  OBVIOUS
<1>2. Only(Append(<<>>, m), S) =
        IF m \in S THEN Append(Only(<<>>, S), m) ELSE Only(<<>>, S)
  BY SeqFacts, OnlyAppend, Zenon
<1> QED BY <1>1, <1>2, OnlyEmpty, Zenon

LEMMA OnlyHead ==
  ASSUME NEW seq \in Seq(Msgs), seq # <<>>, NEW S
  PROVE  /\ Head(seq) \in Msgs /\ Tail(seq) \in Seq(Msgs)
         /\ seq = <<Head(seq)>> \o Tail(seq)
         /\ Only(seq, S) = Only(<<Head(seq)>>, S) \o Only(Tail(seq), S)
<1>1. /\ Head(seq) \in Msgs /\ Tail(seq) \in Seq(Msgs)
      /\ <<Head(seq)>> \in Seq(Msgs)
      /\ <<Head(seq)>> \o Tail(seq) = seq
  BY HeadTailProperties
<1>2. Only(<<Head(seq)>> \o Tail(seq), S) =
        Only(<<Head(seq)>>, S) \o Only(Tail(seq), S)
  BY <1>1, OnlyConcat
<1> QED BY <1>1, <1>2

\* Only depends on the texts of the sequence that are in the set.
LEMMA OnlySame ==
  ASSUME NEW seq \in Seq(Msgs), NEW S, NEW T, RangeOf(seq) \cap S = RangeOf(seq) \cap T
  PROVE  Only(seq, S) = Only(seq, T)
<1>1. PICK h : Filters(h, seq, S) /\ Only(seq, S) = h[Len(seq)]
  BY OnlyIsLoop
<1>2. PICK k : Filters(k, seq, T) /\ Only(seq, T) = k[Len(seq)]
  BY OnlyIsLoop
<1>3. \A i \in 1 .. Len(seq) : seq[i] = seq[i] /\ (seq[i] \in S <=> seq[i] \in T)
  BY DEF RangeOf
<1>4. Len(seq) \in Nat /\ Len(seq) <= Len(seq)
  OBVIOUS
<1>5. h[Len(seq)] = k[Len(seq)]
  <2>1. Filters(h, seq, S)
    BY <1>1
  <2>2. Filters(k, seq, T)
    BY <1>2
  <2> QED BY <1>3, <1>4, <2>1, <2>2, FiltersAgree
<1> QED BY <1>1, <1>2, <1>5

LEMMA OnlyNone ==
  ASSUME NEW seq \in Seq(Msgs), NEW S, RangeOf(seq) \cap S = {}
  PROVE  Only(seq, S) = <<>>
<1> DEFINE P == {q \in Seq(Msgs) : Only(q, {}) = <<>>}
<1>1. <<>> \in P
  BY OnlyEmpty, SeqFacts, Zenon
<1>2. \A q \in Seq(Msgs), m \in Msgs : q \in P => Append(q, m) \in P
  BY OnlyAppend
<1> HIDE DEF P
<1>3. seq \in P
  BY <1>1, <1>2, InductSeqs
<1>4. Only(seq, S) = Only(seq, {})
  BY OnlySame
<1> QED BY <1>3, <1>4 DEF P

LEMMA OnlyNothing ==
  ASSUME NEW seq \in Seq(Msgs), NEW S, Only(seq, S) = <<>>
  PROVE  RangeOf(seq) \cap S = {}
<1> DEFINE P == {q \in Seq(Msgs) : Only(q, S) = <<>> => RangeOf(q) \cap S = {}}
<1>1. <<>> \in P
  <2>1. RangeOf(<<>>) \cap S = {}
    BY RangeFacts, Zenon
  <2> QED BY <2>1, SeqFacts, Zenon
<1>2. ASSUME NEW q \in Seq(Msgs), NEW m \in Msgs, q \in P PROVE Append(q, m) \in P
  <2>1. Append(q, m) \in Seq(Msgs) /\ RangeOf(Append(q, m)) = RangeOf(q) \cup {m}
    BY RangeFacts
  <2>2. Only(Append(q, m), S) = <<>> => m \notin S /\ Only(q, S) = <<>>
    <3>1. Append(Only(q, S), m) # <<>>
      BY OnlyType, AppendProperties
    <3>2. m \in S => Only(Append(q, m), S) = Append(Only(q, S), m)
      BY OnlyAppend
    <3>3. m \notin S => Only(Append(q, m), S) = Only(q, S)
      BY OnlyAppend
    <3> QED BY <3>1, <3>2, <3>3, Zenon
  <2> QED BY <1>2, <2>1, <2>2
<1> HIDE DEF P
<1>3. seq \in P
  BY <1>1, <1>2, InductSeqs
<1> QED BY <1>3 DEF P

-----------------------------------------------------------------------------
(* The capture implements the tee (TeeStream), in a program that does not  *)
(* write past it.                                                          *)

\* A flush writes to its own stream, or to the pipe of the capture that
\* diverts it and has not been drained yet.
FilesKnown ==
  \A t \in Threads : Flushing(t) =>
    \/ file[t] = Tty(arg[t].stream)
    \/ file[t] = WriteEnd(npipes) /\ Draining

PipesEmpty == \A p \in Pipes : pipe[p] # <<>> => p = npipes /\ Draining

ErrApart == RangeOf(stdio[STDERR]) \subseteq ErrMsgs

Plumbing == FilesKnown /\ PipesEmpty /\ ErrApart

LEMMA FdOfStream ==
  ASSUME IInv, NEW s \in Streams
  PROVE  \/ fds[s] = Tty(s)
         \/ fds[s] = WriteEnd(npipes) /\ Draining
<1>1. s \in Fds /\ s <= 2
  BY StdFds
<1>2. ASSUME NEW u \in Streams, NEW red \in BOOLEAN, NEW rd \in BOOLEAN,
             NEW wr \in BOOLEAN, NEW sv \in BOOLEAN, Layout(u, red, rd, wr, sv)
      PROVE  fds[s] = Tty(s) \/ (red /\ fds[s] = WriteEnd(npipes))
  BY <1>1, <1>2 DEF Layout, Cell
<1>3. \/ Quiet(STDOUT) \/ \E u \in Streams : Captured(u)
      \/ \E u \in Streams : Piped(u) \/ Duped(u) \/ Restored(u)
      \/ \E u \in Streams : Diverted(u) /\ \E t \in Threads : pc[t] = "b_done"
  <2>1. CASE mtx = None
    BY <2>1 DEF IInv, Wiring
  <2>2. CASE mtx # None
    <3>1. mtx \in Threads /\ pc[mtx] \in LockedPcs
      BY <2>2 DEF IInv, TypeOK, MutexHeld
    <3>2. At(mtx, arg[mtx].stream) /\ arg[mtx].stream \in Streams
      BY <3>1 DEF IInv, TypeOK, Wiring
    <3>3. QED
      BY <3>1, <3>2 DEF At, LockedPcs, BeginPcs, EndPcs, Streams
  <2>3. QED
    BY <2>1, <2>2
<1>4. CASE Quiet(STDOUT) \/ \E u \in Streams : Piped(u) \/ Duped(u) \/ Restored(u)
  BY <1>2, <1>4 DEF Quiet, Piped, Duped, Restored, Streams
<1>5. CASE \E u \in Streams : Captured(u)
  BY <1>2, <1>5 DEF Captured, Capturing, Draining, IsActive
<1>6. CASE \E u \in Streams : Diverted(u) /\ \E t \in Threads : pc[t] = "b_done"
  BY <1>2, <1>6 DEF Diverted, Draining
<1>7. QED
  BY <1>3, <1>4, <1>5, <1>6

LEMMA StepFilesKnown ==
  ASSUME OneAtATime, IInv, FilesKnown, [Next]_vars
  PROVE  FilesKnown'
<1>1. SUFFICES ASSUME NEW u \in Threads, Flushing(u)'
               PROVE  \/ file'[u] = Tty(arg'[u].stream)
                      \/ file'[u] = WriteEnd(npipes') /\ Draining'
  BY DEF FilesKnown, Tty, WriteEnd
<1>2. CASE \E t \in Threads : EndReadDone(t)
  <2>1. PICK t \in Threads : EndReadDone(t)
    BY <1>2
  <2>2. file'[u] # WriteEnd(npipes) /\ file' = file /\ arg' = arg
    BY <2>1, ReadToTheEnd DEF EndReadDone
  <2>3. Flushing(u)
    BY <1>1, <2>1 DEF EndReadDone, Goto, Flushing, IInv, TypeOK
  <2>4. QED
    BY <2>2, <2>3 DEF FilesKnown
<1>3. CASE ~\E t \in Threads : EndReadDone(t)
  <2>1. \/ file'[u] = Tty(arg'[u].stream)
        \/ file'[u] = WriteEnd(npipes) /\ Draining
    BY <1>1, FlushingOld, FdOfStream DEF FilesKnown
  <2>2. Draining => Draining' /\ npipes' = npipes
    BY <1>3, DrainingStays
  <2>3. QED
    BY <2>1, <2>2
<1>4. QED
  BY <1>2, <1>3

\* A flush that writes to a pipe writes to the last one.
LEMMA FlushTo ==
  ASSUME IInv, FilesKnown, NEW t \in Threads, FlushWrite(t)
  PROVE  /\ file[t] \in Files /\ arg[t].stream \in Streams
         /\ stdio[arg[t].stream] \in Seq(Msgs) /\ stdio[arg[t].stream] # <<>>
         /\ Head(stdio[arg[t].stream]) \in Msgs
         /\ \/ /\ file[t] = Tty(arg[t].stream)
               /\ tty' = [tty EXCEPT ![arg[t].stream] =
                                       Append(@, Head(stdio[arg[t].stream]))]
               /\ pipe' = pipe
            \/ /\ file[t] = WriteEnd(npipes) /\ Draining /\ npipes \in Pipes
               /\ pipe' = [pipe EXCEPT ![npipes] =
                                         Append(@, Head(stdio[arg[t].stream]))]
               /\ tty' = tty
<1> DEFINE s == arg[t].stream
           h == Head(stdio[s])
<1>1. file[t] \in Files /\ s \in Streams /\ stdio[s] \in Seq(Msgs)
  BY DEF IInv, TypeOK
<1>2. stdio[s] # <<>> /\ Deliver(file[t], h) /\ Flushing(t)
  BY DEF FlushWrite, Flushing
<1>3. h \in Msgs
  BY <1>1, <1>2, SeqFacts
<1> HIDE DEF h
<1>4. CASE file[t] = Tty(s)
  <2>1. file[t].kind = "tty" /\ file[t].id = s
    BY <1>4 DEF Tty
  <2>2. tty' = [tty EXCEPT ![s] = Append(@, h)] /\ pipe' = pipe
    BY <1>2, <2>1 DEF Deliver
  <2>3. QED
    BY <1>1, <1>2, <1>3, <1>4, <2>2 DEF h
<1>5. CASE file[t] = WriteEnd(npipes) /\ Draining
  <2>1. file[t].kind = "write" /\ file[t].id = npipes
    BY <1>5 DEF WriteEnd
  <2>2. pipe' = [pipe EXCEPT ![npipes] = Append(@, h)] /\ tty' = tty
    BY <1>2, <2>1 DEF Deliver
  <2>3. npipes \in Pipes
    BY <1>1, <1>5, WriteEndFile
  <2>4. QED
    BY <1>1, <1>2, <1>3, <1>5, <2>2, <2>3 DEF h
<1>6. QED
  BY <1>2, <1>4, <1>5 DEF FilesKnown

LEMMA StepPipesEmpty ==
  ASSUME OneAtATime, IInv, FilesKnown, PipesEmpty, [Next]_vars,
         \A t \in Threads : WriteDone(t) => pipe' = pipe
  PROVE  PipesEmpty'
<1>0. pipe \in [Pipes -> Seq(Msgs)]
  BY DEF IInv, TypeOK
<1>1. SUFFICES ASSUME NEW p \in Pipes, pipe'[p] # <<>>
               PROVE  p = npipes' /\ Draining'
  BY DEF PipesEmpty
<1>2. ASSUME pipe'[p] = pipe[p] \/ (p = npipes /\ Draining),
             \A t \in Threads : ~EndReadDone(t)
      PROVE  p = npipes' /\ Draining'
  <2>1. p = npipes /\ Draining
    BY <1>1, <1>2 DEF PipesEmpty
  <2>2. QED
    BY <1>2, <2>1, DrainingStays
<1>3. ASSUME NEW t \in Threads, EndReadDone(t) PROVE FALSE
  <2>1. pipe' = pipe
    BY <1>3 DEF EndReadDone
  <2>2. p = npipes
    BY <1>1, <2>1 DEF PipesEmpty
  <2>3. QED
    BY <1>1, <1>3, <2>1, <2>2, ReadToTheEnd
<1>4. pipe'[p] = pipe[p] \/ (p = npipes /\ Draining)
  <2>1. ASSUME NEW t \in Threads, Continue(t) PROVE pipe'[p] = pipe[p] \/ (p = npipes /\ Draining)
    <3>1. CASE FlushWrite(t)
      BY <1>0, <3>1, FlushTo
    <3>2. CASE EndRead(t)
      BY <1>0, <1>1, <3>2 DEF EndRead
    <3>4. CASE ~FlushWrite(t) /\ ~EndRead(t)
      <4>1. pipe' = pipe
        BY <2>1, <3>4
        DEF Continue, FlushEnter, FlushDone, BeginDup, BeginDupFails,
            BeginRedirect, BeginDone, EndRestore, EndFlushStderr, EndReadDone,
            EndTee, EndDone, WriteResolve
      <4>2. QED
        BY <4>1
    <3>5. QED
      BY <3>1, <3>2, <3>4
  <2>2. ASSUME NEW t \in Threads, Call(t) PROVE pipe'[p] = pipe[p]
    <3>1. CASE Peek(t)
      BY <1>0, <1>1, <3>1 DEF Peek
    <3>2. CASE ~Peek(t)
      <4>1. pipe' = pipe
        BY <2>2, <3>2
        DEF Call, Println, Eprintln, LogUnflushed, BeginRefused, BeginPipe,
            EndIdle, EndEnter, WriteCall, vars
      <4>2. QED
        BY <4>1
    <3>3. QED
      BY <3>1, <3>2
  <2>3. CASE OpenOther \/ CloseOther \/ UNCHANGED vars
    BY <2>3 DEF OpenOther, CloseOther, vars
  <2>4. QED
    BY <2>1, <2>2, <2>3 DEF Next
<1>5. QED
  BY <1>2, <1>3, <1>4

LEMMA StepErrApart ==
  ASSUME IInv, ErrApart, [Next]_vars
  PROVE  ErrApart'
<1>0. stdio \in [Streams -> Seq(Msgs)] /\ STDERR \in Streams /\ STDERR # STDOUT
  BY DEF IInv, TypeOK, Streams, STDOUT, STDERR
<1>1. ASSUME NEW t \in Threads, NEW m \in Msgs, Eprintln(t, m) PROVE ErrApart'
  <2>1. stdio'[STDERR] = Append(stdio[STDERR], m) /\ m \in ErrMsgs
    BY <1>0, <1>1 DEF Eprintln
  <2>2. RangeOf(stdio'[STDERR]) = RangeOf(stdio[STDERR]) \cup {m}
    BY <1>0, <2>1, RangeFacts
  <2>3. QED
    BY <2>1, <2>2 DEF ErrApart
<1>2. ASSUME NEW t \in Threads, FlushWrite(t) PROVE ErrApart'
  <2>1. stdio'[STDERR] = stdio[STDERR] \/
          (stdio[STDERR] # <<>> /\ stdio'[STDERR] = Tail(stdio[STDERR]))
    BY <1>0, <1>2 DEF FlushWrite
  <2>2. RangeOf(stdio'[STDERR]) \subseteq RangeOf(stdio[STDERR])
    BY <1>0, <2>1, RangeFacts
  <2>3. QED
    BY <2>2 DEF ErrApart
<1>3. ASSUME stdio'[STDERR] = stdio[STDERR] PROVE ErrApart'
  BY <1>3 DEF ErrApart
<1>4. ASSUME NEW t \in Threads, Continue(t), ~FlushWrite(t) PROVE ErrApart'
  <2>1. stdio'[STDERR] = stdio[STDERR]
    <3>1. CASE EndTee(t)
      BY <1>0, <3>1 DEF EndTee
    <3>2. CASE ~EndTee(t)
      BY <1>4, <3>2
      DEF Continue, FlushEnter, FlushDone, BeginDup, BeginDupFails,
          BeginRedirect, BeginDone, EndRestore, EndFlushStderr, EndRead,
          EndReadDone, EndDone, WriteResolve, WriteDone
    <3>3. QED
      BY <3>1, <3>2
  <2>2. QED
    BY <1>3, <2>1
<1>5. ASSUME NEW t \in Threads, Call(t), \A m \in Msgs : ~Eprintln(t, m)
      PROVE  ErrApart'
  <2>1. stdio'[STDERR] = stdio[STDERR]
    <3>1. ASSUME NEW m \in Msgs, Println(t, m) \/ LogUnflushed(t, m)
          PROVE  stdio'[STDERR] = stdio[STDERR]
      BY <1>0, <3>1 DEF Println, LogUnflushed
    <3>2. CASE ~\E m \in Msgs : Println(t, m) \/ LogUnflushed(t, m)
      BY <1>5, <3>2
      DEF Call, BeginRefused, BeginPipe, EndIdle, EndEnter, Peek, WriteCall, vars
    <3>3. QED
      BY <3>1, <3>2
  <2>2. QED
    BY <1>3, <2>1
<1>6. CASE OpenOther \/ CloseOther \/ UNCHANGED vars
  BY <1>3, <1>6 DEF OpenOther, CloseOther, vars
<1>7. QED
  BY <1>1, <1>2, <1>4, <1>5, <1>6 DEF Next

\* What end_capture and peek read from is the pipe of the capture.
LEMMA ReadsLast ==
  ASSUME IInv,
         (IsActive /\ mtx = None) \/ \E t \in Threads : pc[t] = "e_read"
  PROVE  ReadFile = ReadEnd(npipes) /\ npipes \in Pipes
<1>1. PICK s \in Streams, red \in BOOLEAN, sv \in BOOLEAN :
        Layout(s, red, TRUE, FALSE, sv)
  <2>1. CASE IsActive /\ mtx = None
    BY <2>1 DEF IInv, Wiring, Quiet, Captured
  <2>2. CASE \E t \in Threads : pc[t] = "e_read"
    BY <2>2 DEF IInv, TypeOK, Wiring, At, Restored, Streams
  <2>3. QED
    BY <2>1, <2>2
<1>2. pipe_read_fd \in Fds /\ pipe_read_fd > 2
  BY <1>1 DEF Layout
<1>3. Cell(pipe_read_fd, s, red, TRUE, FALSE, sv)
  BY <1>1, <1>2 DEF Layout
<1>4. ~(pipe_read_fd <= 2)
  BY <1>2, StdFds
<1>5. fds[pipe_read_fd] = ReadEnd(npipes)
  BY <1>3, <1>4 DEF Cell
<1>6. ReadFile = ReadEnd(npipes) /\ ReadFile \in Files
  BY <1>2, <1>5 DEF ReadFile, IInv, TypeOK
<1>7. PICK p \in Pipes : ReadEnd(npipes) = ReadEnd(p)
  BY <1>6 DEF Files, Closed, OtherFile, Tty, WriteEnd, ReadEnd
<1>8. QED
  BY <1>6, <1>7 DEF ReadEnd

LEMMA LastPipeType ==
  ASSUME IInv
  PROVE  /\ LastPipe \in Seq(Msgs) /\ buffer \in Seq(Msgs) /\ Held \in Seq(Msgs)
         /\ npipes \in Nat /\ (npipes # 0 => npipes \in Pipes) /\ 0 \notin Pipes
         /\ Held = (IF BufferHeld THEN buffer ELSE <<>>) \o LastPipe
<1>1. /\ npipes \in Nat /\ (npipes # 0 => npipes \in Pipes) /\ 0 \notin Pipes
      /\ buffer \in Seq(Msgs)
  BY BoundsAssumption DEF IInv, TypeOK, Pipes
<1>2. LastPipe \in Seq(Msgs)
  BY <1>1 DEF IInv, TypeOK, LastPipe
<1>3. Held = (IF BufferHeld THEN buffer ELSE <<>>) \o LastPipe
  BY DEF Held, LastPipe
<1>4. Held \in Seq(Msgs)
  BY <1>1, <1>2, <1>3, SeqFacts
<1>5. QED
  BY <1>1, <1>2, <1>3, <1>4

LEMMA HeldSame ==
  ASSUME buffer' = buffer, pipe' = pipe, npipes' = npipes, BufferHeld' = BufferHeld
  PROVE  Held' = Held
BY DEF Held

\* Reading moves texts from the pipe to the buffer: the same are held.
LEMMA HeldRead ==
  ASSUME IInv, BufferHeld, BufferHeld', npipes' = npipes,
         npipes \in Pipes, ReadFile = ReadEnd(npipes),
         buffer' = buffer \o pipe[ReadFile.id],
         pipe' = [pipe EXCEPT ![ReadFile.id] = <<>>]
  PROVE  Held' = Held
<1>1. ReadFile.id = npipes /\ npipes # 0
  BY LastPipeType DEF ReadEnd
<1>2. pipe[npipes] \in Seq(Msgs) /\ buffer \in Seq(Msgs) /\ pipe \in [Pipes -> Seq(Msgs)]
  BY DEF IInv, TypeOK
<1>3. buffer' = buffer \o pipe[npipes] /\ pipe'[npipes] = <<>>
  BY <1>1, <1>2
<1>4. Held = buffer \o pipe[npipes]
  BY <1>1 DEF Held
<1>5. Held' = (buffer \o pipe[npipes]) \o <<>>
  BY <1>1, <1>3 DEF Held
<1>6. buffer \o pipe[npipes] \in Seq(Msgs)
  BY <1>2, SeqFacts
<1>7. QED
  BY <1>4, <1>5, <1>6, ConcatEmptySeq

\* Only a write, and the tee of End, change what the capture holds back.
LEMMA HeldSteps ==
  ASSUME OneAtATime, IInv, PipesEmpty, [Next]_vars,
         \A t \in Threads : ~FlushWrite(t) /\ ~WriteDone(t) /\ ~EndTee(t)
  PROVE  Held' = Held
<1> USE DEF Goto
<1> DEFINE Inner == {"e_restore", "e_read", "e_tee"}
<1>0. pc \in [Threads -> Pcs] /\ capturing \in [Streams -> BOOLEAN]
  BY DEF IInv, TypeOK
<1>1. ASSUME buffer' = buffer, pipe' = pipe, npipes' = npipes,
             capturing' = capturing,
             \A t \in Threads : pc'[t] \in Inner <=> pc[t] \in Inner
      PROVE  Held' = Held
  BY <1>1, HeldSame DEF BufferHeld, IsActive
<1>2. CASE UNCHANGED vars
  BY <1>1, <1>2 DEF vars
<1>3. ASSUME NEW t \in Threads, Continue(t) PROVE Held' = Held
  <2>1. CASE \/ FlushEnter(t) \/ FlushDone(t) \/ BeginDup(t) \/ BeginDupFails(t)
             \/ BeginRedirect(t) \/ EndDone(t) \/ WriteResolve(t)
    <3>1. buffer' = buffer /\ pipe' = pipe /\ npipes' = npipes /\ capturing' = capturing
      BY <2>1
      DEF FlushEnter, FlushDone, BeginDup, BeginDupFails, BeginRedirect,
          EndDone, WriteResolve, captureVars
    <3>2. /\ pc[t] \notin Inner /\ pc'[t] \notin Inner
          /\ \A u \in Threads : u # t => pc'[u] = pc[u]
      BY <1>0, <2>1
      DEF FlushEnter, FlushDone, BeginDup, BeginDupFails, BeginRedirect,
          EndDone, WriteResolve
    <3>3. QED
      BY <1>1, <3>1, <3>2
  <2>2. CASE EndFlushStderr(t) \/ EndReadDone(t)
    <3>1. buffer' = buffer /\ pipe' = pipe /\ npipes' = npipes /\ capturing' = capturing
      BY <2>2 DEF EndFlushStderr, EndReadDone, captureVars
    <3>2. /\ pc[t] \in Inner /\ pc'[t] \in Inner
          /\ \A u \in Threads : u # t => pc'[u] = pc[u]
      BY <1>0, <2>2 DEF EndFlushStderr, EndReadDone
    <3>3. QED
      BY <1>1, <3>1, <3>2
  <2>3. CASE BeginDone(t)
    <3>1. /\ ~IsActive
          /\ \A u \in Threads : pc[u] \in LockedPcs => u = t
      BY <2>3, BeginInactive DEF BeginDone, BeginPcs
    <3>2. ~BufferHeld
      BY <2>3, <3>1 DEF BeginDone, BufferHeld, LockedPcs, EndPcs
    <3>3. buffer' = <<>> /\ pipe' = pipe /\ npipes' = npipes
      BY <2>3 DEF BeginDone
    <3>4. QED
      BY <3>2, <3>3 DEF Held
  <2>4. ASSUME NEW s \in Streams, EndRestore(t, s) PROVE Held' = Held
    <3>1. BufferHeld /\ BufferHeld'
      BY <2>4 DEF EndRestore, BufferHeld
    <3>2. QED
      BY <2>4, <3>1, HeldSame DEF EndRestore
  <2>5. CASE EndRead(t)
    <3>1. pc[t] = "e_read" /\ pc' = pc
      BY <2>5 DEF EndRead
    <3>2. BufferHeld /\ BufferHeld'
      BY <3>1 DEF BufferHeld
    <3>3. ReadFile = ReadEnd(npipes) /\ npipes \in Pipes
      BY <3>1, ReadsLast
    <3>4. QED
      BY <2>5, <3>2, <3>3, HeldRead DEF EndRead
  <2>6. QED
    BY <1>3, <2>1, <2>2, <2>3, <2>4, <2>5 DEF Continue
<1>4. ASSUME NEW t \in Threads, Call(t) PROVE Held' = Held
  <2>1. CASE \/ \E m \in Msgs : Println(t, m) \/ Eprintln(t, m) \/ LogUnflushed(t, m)
             \/ \E s \in Streams, m \in Msgs : WriteCall(t, s, m)
    <3>1. buffer' = buffer /\ pipe' = pipe /\ npipes' = npipes /\ capturing' = capturing
      BY <2>1 DEF Println, Eprintln, LogUnflushed, WriteCall, captureVars
    <3>2. /\ pc[t] \notin Inner /\ pc'[t] \notin Inner
          /\ \A u \in Threads : u # t => pc'[u] = pc[u]
      BY <1>0, <2>1 DEF Println, Eprintln, LogUnflushed, WriteCall
    <3>3. QED
      BY <1>1, <3>1, <3>2
  <2>2. ASSUME NEW s \in Streams, BeginPipe(t, s) PROVE Held' = Held
    <3>1. \A u \in Threads : pc[u] \notin LockedPcs
      BY <2>2, NoneAssumption DEF BeginPipe, IInv, MutexHeld
    <3>2. ~IsActive /\ ~BufferHeld /\ ~Draining
      BY <2>2, <3>1
      DEF BeginPipe, BufferHeld, Draining, LockedPcs, BeginPcs, EndPcs
    <3>3. pipe' = pipe /\ npipes' = npipes + 1 /\ capturing' = capturing
          /\ \A u \in Threads : pc'[u] \in Inner => pc[u] \in Inner
      BY <1>0, <2>2 DEF BeginPipe
    <3>4. ~BufferHeld'
      BY <3>2, <3>3 DEF BufferHeld, IsActive
    <3>5. npipes + 1 \in Pipes
      BY <2>2, BoundsAssumption DEF BeginPipe, IInv, TypeOK, Pipes
    <3>6. LastPipe = <<>> /\ pipe[npipes + 1] = <<>>
      BY <3>2, <3>5, LastPipeType DEF PipesEmpty, LastPipe
    <3>7. LastPipe' = <<>>
      BY <3>3, <3>5, <3>6, LastPipeType DEF LastPipe
    <3>8. Held = <<>> \o LastPipe /\ Held' = <<>> \o LastPipe'
      BY <3>2, <3>4 DEF Held, LastPipe
    <3>9. QED
      BY <3>6, <3>7, <3>8
  <2>3. CASE EndEnter(t)
    <3>1. BufferHeld
      BY <2>3 DEF EndEnter, BufferHeld
    <3>2. BufferHeld'
      BY <1>0, <2>3 DEF EndEnter, BufferHeld
    <3>3. QED
      BY <2>3, <3>1, <3>2, HeldSame DEF EndEnter
  <2>4. CASE Peek(t)
    <3>1. pc' = pc /\ capturing' = capturing /\ npipes' = npipes /\ mtx = None
      BY <2>4 DEF Peek
    <3>2. CASE IsActive /\ ReadFile.kind = "read"
      <4>1. BufferHeld /\ BufferHeld'
        BY <3>1, <3>2 DEF BufferHeld, IsActive
      <4>2. ReadFile = ReadEnd(npipes) /\ npipes \in Pipes
        BY <3>1, <3>2, ReadsLast
      <4>3. QED
        BY <2>4, <3>1, <3>2, <4>1, <4>2, HeldRead DEF Peek
    <3>3. CASE ~(IsActive /\ ReadFile.kind = "read")
      BY <1>1, <2>4, <3>1, <3>3 DEF Peek
    <3>4. QED
      BY <3>2, <3>3
  <2>5. CASE EndIdle(t) \/ \E s \in Streams : BeginRefused(t, s)
    BY <1>2, <2>5 DEF EndIdle, BeginRefused
  <2>6. QED
    BY <1>4, <2>1, <2>2, <2>3, <2>4, <2>5 DEF Call
<1>5. CASE OpenOther \/ CloseOther
  BY <1>1, <1>5 DEF OpenOther, CloseOther, captureVars
<1>6. QED
  BY <1>2, <1>3, <1>4, <1>5 DEF Next

\* A write to the pipe adds its text to what the capture holds back.
LEMMA HeldFlush ==
  ASSUME IInv, FilesKnown, NEW t \in Threads, FlushWrite(t)
  PROVE  IF file[t] = WriteEnd(npipes)
         THEN Held' = Append(Held, Head(stdio[arg[t].stream]))
         ELSE Held' = Held
<1> DEFINE h == Head(stdio[arg[t].stream])
<1>1. /\ buffer' = buffer /\ npipes' = npipes /\ pc' = pc /\ capturing' = capturing
      /\ h \in Msgs
  BY FlushTo DEF FlushWrite, captureVars
<1> HIDE DEF h
<1>2. BufferHeld' = BufferHeld
  BY <1>1 DEF BufferHeld, IsActive
<1>3. CASE file[t] = WriteEnd(npipes)
  <2>1. /\ npipes \in Pipes /\ npipes # 0
        /\ pipe' = [pipe EXCEPT ![npipes] = Append(@, h)]
    <3>1. file[t] # Tty(arg[t].stream)
      <4>1. WriteEnd(npipes).kind = "write" /\ Tty(arg[t].stream).kind = "tty"
        BY DEF WriteEnd, Tty
      <4>2. QED
        BY <1>3, <4>1
    <3>2. QED
      BY <3>1, FlushTo, LastPipeType DEF h
  <2>2. LastPipe' = Append(LastPipe, h)
    BY <1>1, <2>1 DEF LastPipe, IInv, TypeOK
  <2>3. Held' = (IF BufferHeld THEN buffer ELSE <<>>) \o LastPipe'
    BY <1>1, <1>2 DEF Held, LastPipe
  <2>4. (IF BufferHeld THEN buffer ELSE <<>>) \in Seq(Msgs)
    BY LastPipeType, SeqFacts
  <2>5. Held' = Append((IF BufferHeld THEN buffer ELSE <<>>) \o LastPipe, h)
    BY <1>1, <2>2, <2>3, <2>4, LastPipeType, ConcatAppend
  <2>6. Held' = Append(Held, h)
    BY <2>5, LastPipeType
  <2>7. QED
    BY <1>3, <2>6 DEF h
<1>4. CASE file[t] # WriteEnd(npipes)
  <2>1. pipe' = pipe
    BY <1>4, FlushTo
  <2>2. QED
    BY <1>1, <1>2, <1>4, <2>1, HeldSame
<1>5. QED
  BY <1>3, <1>4

\* End tees all that was held back.
LEMMA HeldTee ==
  ASSUME IInv, PipesEmpty, NEW t \in Threads, EndTee(t)
  PROVE  Held = buffer /\ Held' = <<>>
<1>1. /\ pc[t] = "e_tee" /\ buffer' = buffer /\ pipe' = pipe /\ npipes' = npipes
      /\ capturing' = capturing
      /\ pc' = [pc EXCEPT ![t] = "t_flush"] /\ pc \in [Threads -> Pcs]
  BY DEF EndTee, captureVars, Goto, IInv, TypeOK
<1>2. ~IsActive /\ \A u \in Threads : pc[u] \in LockedPcs => u = t
  BY <1>1, BeginInactive
<1>3. ~Draining
  BY <1>1, <1>2 DEF Draining, LockedPcs, BeginPcs, EndPcs
<1>4. LastPipe = <<>>
  BY <1>3, LastPipeType DEF PipesEmpty, LastPipe
<1>5. BufferHeld
  BY <1>1 DEF BufferHeld
<1>6. ~BufferHeld'
  BY <1>1, <1>2 DEF BufferHeld, IsActive, LockedPcs, EndPcs
<1>7. Held = buffer \o <<>> /\ Held' = <<>> \o <<>>
  BY <1>1, <1>4, <1>5, <1>6 DEF Held, LastPipe
<1>8. QED
  BY <1>7, LastPipeType, ConcatEmptySeq, SeqFacts

LEMMA TeeStutter ==
  ASSUME InFlight = {}, InFlight' = {}, unsent' \cap OutMsgs = unsent \cap OutMsgs,
         OutOnly(stdio[STDOUT])' = OutOnly(stdio[STDOUT]),
         OutOnly(Held)' = OutOnly(Held),
         OutOnly(tty[STDOUT])' = OutOnly(tty[STDOUT])
  PROVE  UNCHANGED Tee!vars
BY DEF Tee!vars

\* A write(2) of a text for stdout shows it or adds it to what is held back;
\* a text for stderr, teed by an earlier End, passes unnoticed.
LEMMA FlushSimulates ==
  ASSUME IInv, Plumbing, InFlight = {}, InFlight' = {},
         NEW t \in Threads, FlushWrite(t)
  PROVE  [Tee!Next]_(Tee!vars)
<1> DEFINE s == arg[t].stream
           h == Head(stdio[s])
<1>0. /\ stdio \in [Streams -> Seq(Msgs)] /\ tty \in [Streams -> Seq(Msgs)]
      /\ STDOUT \in Streams /\ STDERR \in Streams /\ STDOUT # STDERR
  BY DEF IInv, TypeOK, Streams, STDOUT, STDERR
<1>1. /\ s \in Streams /\ stdio[s] \in Seq(Msgs) /\ stdio[s] # <<>> /\ h \in Msgs
      /\ stdio' = [stdio EXCEPT ![s] = Tail(stdio[s])] /\ unsent' = unsent
      /\ \/ /\ file[t] # WriteEnd(npipes)
            /\ tty' = [tty EXCEPT ![s] = Append(tty[s], h)]
            /\ Held' = Held
         \/ /\ file[t] = WriteEnd(npipes)
            /\ tty' = tty
            /\ Held' = Append(Held, h)
  <2>1. Tty(s) # WriteEnd(npipes)
    <3>1. WriteEnd(npipes).kind = "write" /\ Tty(s).kind = "tty"
      BY DEF WriteEnd, Tty
    <3>2. QED
      BY <3>1
  <2>2. stdio' = [stdio EXCEPT ![s] = Tail(stdio[s])] /\ unsent' = unsent
    BY DEF FlushWrite
  <2>3. QED
    BY <2>1, <2>2, FlushTo, HeldFlush DEF Plumbing
<1>2. ASSUME NEW S
      PROVE  Only(stdio[s], S) = Only(<<h>>, S) \o Only(Tail(stdio[s]), S)
  BY <1>1, OnlyHead
<1>3. Tail(stdio[s]) \in Seq(Msgs)
  BY <1>1, SeqFacts
<1> HIDE DEF h
<1>4. CASE s = STDOUT /\ h \in OutMsgs
  <2> DEFINE live == OutOnly(stdio[STDOUT])
             rest == OutOnly(Tail(stdio[STDOUT]))
  <2>1. live = <<h>> \o rest
    BY <1>1, <1>2, <1>4, OnlyOne DEF OutOnly
  <2>2. rest \in Seq(Msgs)
    BY <1>3, <1>4, OnlyType DEF OutOnly
  <2>3. live # <<>> /\ Head(live) = h /\ Tail(live) = rest
    <3> HIDE DEF live, rest
    <3> QED BY <1>1, <2>1, <2>2
  <2>4. OutOnly(stdio[STDOUT])' = rest
    BY <1>0, <1>1, <1>4
  <2> HIDE DEF live, rest
  <2>5. CASE file[t] # WriteEnd(npipes)
    <3>1. tty'[STDOUT] = Append(tty[STDOUT], h) /\ Held' = Held
      BY <1>0, <1>1, <1>4, <2>5
    <3>2. OutOnly(tty[STDOUT])' = Append(OutOnly(tty[STDOUT]), h)
      BY <1>0, <1>1, <1>4, <3>1, OnlyAppend DEF OutOnly
    <3>3. Tee!Show
      BY <1>1, <2>3, <2>4, <3>1, <3>2 DEF Tee!Show, live, rest
    <3>4. QED
      BY <3>3 DEF Tee!Next
  <2>6. CASE file[t] = WriteEnd(npipes)
    <3>1. tty' = tty /\ Held' = Append(Held, h)
      BY <1>1, <2>6
    <3>2. OutOnly(Held)' = Append(OutOnly(Held), h)
      BY <1>1, <1>4, <3>1, OnlyAppend, LastPipeType DEF OutOnly
    <3>3. Tee!Hold
      BY <1>1, <2>3, <2>4, <3>1, <3>2 DEF Tee!Hold, live, rest
    <3>4. QED
      BY <3>3 DEF Tee!Next
  <2>7. QED
    BY <2>5, <2>6
<1>5. CASE ~(s = STDOUT /\ h \in OutMsgs)
  <2>1. h \notin OutMsgs
    <3>1. CASE s = STDERR
      <4>1. h \in RangeOf(stdio[STDERR])
        BY <1>1, <3>1, RangeFacts DEF h
      <4>2. QED
        BY <4>1, MsgsAssumption DEF Plumbing, ErrApart
    <3>2. QED
      BY <1>1, <1>5, <3>1 DEF Streams
  <2>2. OutOnly(stdio[STDOUT])' = OutOnly(stdio[STDOUT])
    <3>1. CASE s = STDOUT
      <4>1. Only(<<h>>, OutMsgs) = <<>>
        BY <1>1, <2>1, OnlyOne
      <4>2. Only(Tail(stdio[s]), OutMsgs) \in Seq(Msgs)
        BY <1>3, OnlyType
      <4>3. Only(stdio[s], OutMsgs) = Only(Tail(stdio[s]), OutMsgs)
        BY <1>2, <4>1, <4>2, ConcatEmptySeq
      <4>4. QED
        BY <1>0, <1>1, <3>1, <4>3 DEF OutOnly
    <3>2. CASE s # STDOUT
      BY <1>0, <1>1, <3>2
    <3>3. QED
      BY <3>1, <3>2
  <2> DEFINE Same(x) == OutOnly(Append(x, h)) = OutOnly(x)
  <2>6. ASSUME NEW x \in Seq(Msgs) PROVE Same(x)
    BY <1>1, <2>1, OnlyAppend DEF OutOnly
  <2>3. OutOnly(Held)' = OutOnly(Held)
    <3>1. Same(Held)
      BY <2>6, LastPipeType
    <3>2. Held' = Held \/ Held' = Append(Held, h)
      BY <1>1
    <3>3. QED
      BY <3>1, <3>2
  <2>4. OutOnly(tty[STDOUT])' = OutOnly(tty[STDOUT])
    <3>1. tty'[STDOUT] = tty[STDOUT] \/ tty'[STDOUT] = Append(tty[STDOUT], h)
      BY <1>0, <1>1
    <3>2. Same(tty[STDOUT])
      BY <1>0, <2>6
    <3>3. QED
      BY <3>1, <3>2
  <2>5. QED
    BY <1>1, <2>2, <2>3, <2>4, TeeStutter
<1>6. QED
  BY <1>4, <1>5

\* Every step of the program is a step of the tee, or no step of it.
LEMMA StepTee ==
  ASSUME OneAtATime, Bypassers = {}, IInv, Plumbing, FlushesOpen, FlushesOpen',
         [Next]_vars
  PROVE  [Tee!Next]_(Tee!vars)
<1>0. /\ InFlight = {} /\ InFlight' = {}
      /\ \A t \in Threads : ~WriteDone(t)
      /\ stdio \in [Streams -> Seq(Msgs)]
      /\ STDOUT \in Streams /\ STDERR \in Streams /\ STDOUT # STDERR
      /\ OutMsgs \subseteq Msgs
  BY DEF InFlight, FlushesOpen, WriteDone, WritePcs, IInv, TypeOK, Streams,
         STDOUT, STDERR, Msgs
<1>1. CASE \E t \in Threads : FlushWrite(t)
  BY <1>0, <1>1, FlushSimulates
<1>2. CASE \E t \in Threads : EndTee(t)
  <2>1. PICK t \in Threads : EndTee(t)
    BY <1>2
  <2>2. /\ stdio'[STDOUT] = stdio[STDOUT] \o buffer
        /\ unsent' = unsent /\ tty' = tty
    BY <1>0, <2>1 DEF EndTee, ghostVars
  <2>3. Held = buffer /\ Held' = <<>>
    BY <2>1, HeldTee DEF Plumbing
  <2>4. OutOnly(stdio[STDOUT])' = OutOnly(stdio[STDOUT]) \o OutOnly(Held)
    <3>1. ASSUME NEW a \in Seq(Msgs), NEW b \in Seq(Msgs)
          PROVE  OutOnly(a \o b) = OutOnly(a) \o OutOnly(b)
      BY <3>1, OnlyConcat DEF OutOnly
    <3>2. OutOnly(stdio[STDOUT] \o buffer) = OutOnly(stdio[STDOUT]) \o OutOnly(buffer)
      BY <1>0, <3>1, LastPipeType
    <3>3. QED
      BY <2>2, <2>3, <3>2
  <2>5. OutOnly(Held)' = <<>>
    BY <2>3, OnlyEmpty DEF OutOnly
  <2>6. Tee!Release
    BY <1>0, <2>2, <2>4, <2>5 DEF Tee!Release
  <2>7. QED
    BY <2>6 DEF Tee!Next
<1>3. ASSUME \A t \in Threads : ~FlushWrite(t) /\ ~EndTee(t)
      PROVE  [Tee!Next]_(Tee!vars)
  <2>1. Held' = Held
    BY <1>0, <1>3, HeldSteps DEF Plumbing
  <2>2. ASSUME NEW t \in Threads, NEW m \in Msgs, Println(t, m) \/ LogUnflushed(t, m)
        PROVE  [Tee!Next]_(Tee!vars)
    <3>1. /\ m \in OutMsgs /\ m \in unsent /\ unsent' = unsent \ {m} /\ tty' = tty
          /\ stdio'[STDOUT] = Append(stdio[STDOUT], m)
      BY <1>0, <2>2 DEF Println, LogUnflushed
    <3>2. OutOnly(stdio[STDOUT])' = Append(OutOnly(stdio[STDOUT]), m)
      BY <1>0, <3>1, OnlyAppend DEF OutOnly
    <3>3. Tee!Say(m)
      BY <1>0, <2>1, <3>1, <3>2 DEF Tee!Say
    <3>4. QED
      BY <3>1, <3>3 DEF Tee!Next
  <2>3. ASSUME NEW t \in Threads, NEW m \in Msgs, Eprintln(t, m)
        PROVE  [Tee!Next]_(Tee!vars)
    <3>1. /\ m \in ErrMsgs /\ unsent' = unsent \ {m} /\ tty' = tty
          /\ stdio'[STDOUT] = stdio[STDOUT]
      BY <1>0, <2>3 DEF Eprintln
    <3>2. unsent' \cap OutMsgs = unsent \cap OutMsgs
      BY <3>1, MsgsAssumption
    <3>3. QED
      BY <1>0, <2>1, <3>1, <3>2, TeeStutter
  <2>4. ASSUME \A t \in Threads, m \in Msgs :
                 ~Println(t, m) /\ ~LogUnflushed(t, m) /\ ~Eprintln(t, m)
        PROVE  [Tee!Next]_(Tee!vars)
    <3>1. ASSUME NEW t \in Threads, Continue(t)
          PROVE  unsent' = unsent /\ stdio' = stdio /\ tty' = tty
      <4>1. ~FlushWrite(t) /\ ~EndTee(t) /\ ~WriteDone(t)
        BY <1>0, <1>3
      <4>2. QED
        BY <3>1, <4>1
        DEF Continue, FlushEnter, FlushDone, BeginDup, BeginDupFails,
            BeginRedirect, BeginDone, EndRestore, EndFlushStderr, EndRead,
            EndReadDone, EndDone, WriteResolve, ghostVars
    <3>2. ASSUME NEW t \in Threads, Call(t)
          PROVE  unsent' = unsent /\ stdio' = stdio /\ tty' = tty
      <4>1. \A s \in Streams, m \in Msgs : ~WriteCall(t, s, m)
        BY DEF WriteCall
      <4>2. QED
        BY <2>4, <3>2, <4>1
        DEF Call, BeginRefused, BeginPipe, EndIdle, EndEnter, Peek, vars, ghostVars
    <3>3. ASSUME OpenOther \/ CloseOther \/ UNCHANGED vars
          PROVE  unsent' = unsent /\ stdio' = stdio /\ tty' = tty
      BY <3>3 DEF OpenOther, CloseOther, vars, ghostVars
    <3>4. unsent' = unsent /\ stdio' = stdio /\ tty' = tty
      BY <3>1, <3>2, <3>3 DEF Next
    <3>5. QED
      BY <1>0, <2>1, <3>4, TeeStutter
  <2>5. QED
    BY <2>2, <2>3, <2>4
<1>4. QED
  BY <1>1, <1>2, <1>3

LEMMA InitTee == Init => Tee!Init
<1>1. SUFFICES ASSUME Init PROVE Tee!Init
  OBVIOUS
<1>2. InFlight = {}
  BY <1>1 DEF Init, InFlight, WritePcs
<1>3. /\ stdio[STDOUT] = <<>> /\ tty[STDOUT] = <<>> /\ unsent = Msgs
  BY <1>1 DEF Init, Streams
<1>4. Held = <<>>
  <2>1. ~BufferHeld
    BY <1>1 DEF Init, BufferHeld, IsActive
  <2>2. Held = <<>> \o <<>>
    BY <1>1, <2>1 DEF Init, Held
  <2>3. QED
    BY <2>2, SeqFacts, ConcatEmptySeq
<1>5. QED
  BY <1>2, <1>3, <1>4, OnlyEmpty DEF Tee!Init, OutOnly, Msgs

\* The capture implements the tee it promises, whoever prints and however the
\* calls interleave: no text meant for stdout is lost, shown twice, or shown
\* before one that was released earlier.
THEOREM CaptureIsATee ==
  ASSUME OneAtATime, Bypassers = {}
  PROVE  Spec => Teed
<1> DEFINE Inv == FlushesOpen /\ Plumbing
<1>1. Init => Inv
  <2>1. SUFFICES ASSUME Init PROVE Inv
    OBVIOUS
  <2>2. \A t \in Threads : pc[t] = "idle"
    BY <2>1 DEF Init
  <2>3. stdio[STDERR] = <<>> /\ \A p \in Pipes : pipe[p] = <<>>
    BY <2>1 DEF Init, Streams
  <2>4. QED
    BY <2>2, <2>3, RangeFacts
    DEF FlushesOpen, WritePcs, Plumbing, FilesKnown, PipesEmpty, ErrApart, Flushing
<1>2. Inv /\ IInv /\ [Next]_vars => Inv'
  <2>1. SUFFICES ASSUME Inv, IInv, [Next]_vars PROVE Inv'
    OBVIOUS
  <2>2. FlushesOpen'
    BY <2>1, StepFlushesOpen
  <2>3. \A t \in Threads : ~WriteDone(t)
    BY <2>1 DEF WriteDone, FlushesOpen, WritePcs
  <2>4. FilesKnown' /\ PipesEmpty' /\ ErrApart'
    BY <2>1, <2>3, StepFilesKnown, StepPipesEmpty, StepErrApart DEF Plumbing
  <2>5. QED
    BY <2>2, <2>4 DEF Plumbing
<1>3. Inv /\ Inv' /\ IInv /\ [Next]_vars => [Tee!Next]_(Tee!vars)
  BY StepTee
<1>4. QED
  BY <1>1, <1>2, <1>3, InitTee, InvariantIInv, PTL DEF Spec, Teed, Tee!Spec

-----------------------------------------------------------------------------
(* A program of one thread: text written past the capture reaches its      *)
(* stream.                                                                 *)

OneThread == \A t, u \in Threads : t = u

\* Where a bypass write is going.
Terminals ==
  \A t \in Threads :
    /\ pc[t] = "w_call" => fds[arg[t].target] = Tty(arg[t].stream)
    /\ pc[t] = "w_write" => file[t] = Tty(arg[t].stream)
    /\ pc[t] \in WritePcs => \E m \in MsgsOf(arg[t].stream) : arg[t].msg = {m}

\* Between calls the target is the real stream.
LEMMA TargetIsTty ==
  ASSUME IInv, mtx = None, NEW s \in Streams
  PROVE  Target(s) \in Fds /\ fds[Target(s)] = Tty(s)
<1>0. s \in Fds /\ s <= 2
  BY StdFds
<1>1. CASE Quiet(STDOUT)
  <2>1. ~capturing[s]
    BY <1>1 DEF Quiet, IsActive
  <2>2. fds[s] = Tty(s)
    BY <1>0, <1>1 DEF Quiet, Layout, Cell
  <2>3. QED
    BY <1>0, <2>1, <2>2 DEF Target
<1>2. ASSUME NEW u \in Streams, Captured(u)
      PROVE  Target(s) \in Fds /\ fds[Target(s)] = Tty(s)
  <2>1. CASE u = s
    <3>1. /\ saved[s] \in Fds /\ saved[s] > 2 /\ capturing[s]
          /\ saved[s] # pipe_read_fd
          /\ Cell(saved[s], s, TRUE, TRUE, FALSE, TRUE)
      BY <1>2, <2>1 DEF Captured, Capturing, Layout
    <3>2. ~(saved[s] <= 2) /\ saved[s] >= 0
      <4>1. saved[s] \in Int
        BY <3>1, StdFds
      <4>2. QED
        BY <3>1, <4>1
    <3>3. fds[saved[s]] = Tty(s)
      BY <3>1, <3>2 DEF Cell
    <3>4. QED
      BY <3>1, <3>2, <3>3 DEF Target
  <2>2. CASE u # s
    <3>1. ~capturing[s]
      BY <1>2, <2>2 DEF Captured, Capturing
    <3>2. fds[s] = Tty(s)
      BY <1>0, <1>2, <2>2 DEF Captured, Layout, Cell
    <3>3. QED
      BY <1>0, <3>1, <3>2 DEF Target
  <2>3. QED
    BY <2>1, <2>2
<1>3. QED
  BY <1>1, <1>2 DEF IInv, Wiring

LEMMA StepTerminals ==
  ASSUME OneThread, IInv, Terminals, [Next]_vars
  PROVE  Terminals'
<1> USE DEF Goto
<1>0. /\ pc \in [Threads -> Pcs] /\ DOMAIN arg = Threads /\ DOMAIN file = Threads
      /\ \A t \in Threads : pc[t] = "w_call" => arg[t].target \in Fds
      /\ \A f \in Fds : fds[f] \in Files
      /\ fds \in [Fds -> Files]
  BY DEF IInv, TypeOK, MutexHeld
<1>1. CASE UNCHANGED vars
  BY <1>1 DEF vars, Terminals
<1>2. ASSUME NEW t \in Threads, pc'[t] \notin WritePcs PROVE Terminals'
  BY <1>2 DEF OneThread, Terminals, WritePcs
<1>3. ASSUME NEW t \in Threads, Continue(t) PROVE Terminals'
  <2>1. CASE WriteResolve(t)
    <3>1. /\ pc'[t] = "w_write" /\ file'[t] = fds[arg[t].target] /\ arg' = arg
          /\ pc[t] = "w_call"
      BY <1>0, <2>1 DEF WriteResolve
    <3>2. file'[t] = Tty(arg[t].stream)
      BY <3>1 DEF Terminals
    <3>3. \E m \in MsgsOf(arg[t].stream) : arg[t].msg = {m}
      BY <3>1 DEF Terminals, WritePcs
    <3>4. QED
      BY <3>1, <3>2, <3>3 DEF OneThread, Terminals, Tty
  <2>2. CASE EndRead(t) \/ \E s \in Streams : EndRestore(t, s)
    <3>1. pc'[t] \notin WritePcs
      BY <2>2 DEF EndRead, EndRestore, WritePcs
    <3>2. QED
      BY <1>2, <3>1
  <2>3. CASE FlushWrite(t)
    <3>1. pc'[t] \notin WritePcs
      BY <2>3 DEF FlushWrite, WritePcs
    <3>2. QED
      BY <1>2, <3>1
  <2>4. CASE \/ FlushEnter(t) \/ FlushDone(t) \/ BeginDup(t) \/ BeginDupFails(t)
             \/ BeginRedirect(t) \/ BeginDone(t) \/ EndFlushStderr(t)
             \/ EndReadDone(t) \/ EndTee(t) \/ EndDone(t) \/ WriteDone(t)
    <3>1. pc'[t] \notin WritePcs
      BY <1>0, <2>4
      DEF FlushEnter, FlushDone, BeginDup, BeginDupFails, BeginRedirect,
          BeginDone, EndFlushStderr, EndReadDone, EndTee, EndDone, WriteDone,
          WritePcs
    <3>2. QED
      BY <1>2, <3>1
  <2>5. QED
    BY <1>3, <2>1, <2>2, <2>3, <2>4 DEF Continue
<1>4. ASSUME NEW t \in Threads, Call(t) PROVE Terminals'
  <2>1. ASSUME NEW s \in Streams, NEW m \in Msgs, WriteCall(t, s, m)
        PROVE  Terminals'
    <3>1. /\ pc'[t] = "w_call" /\ m \in MsgsOf(s)
          /\ arg'[t] = [stream |-> s, msg |-> {m}, target |-> Target(s),
                        session |-> 0]
          /\ fds' = fds /\ pc[t] = "idle"
      BY <1>0, <2>1 DEF WriteCall
    <3>2. mtx = None
      BY <3>1 DEF OneThread, IInv, TypeOK, MutexHeld, LockedPcs, BeginPcs, EndPcs
    <3>3. fds[Target(s)] = Tty(s)
      BY <3>2, TargetIsTty
    <3>4. /\ arg'[t].stream = s /\ arg'[t].target = Target(s) /\ arg'[t].msg = {m}
      BY <3>1
    <3>5. QED
      BY <3>1, <3>3, <3>4 DEF OneThread, Terminals, WritePcs, Tty
  <2>2. CASE EndIdle(t) \/ \E s \in Streams : BeginRefused(t, s)
    BY <1>1, <2>2 DEF EndIdle, BeginRefused
  <2>3. CASE (\E m \in Msgs : LogUnflushed(t, m)) \/ Peek(t)
    <3>1. pc'[t] \notin WritePcs
      BY <2>3 DEF LogUnflushed, Peek, WritePcs
    <3>2. QED
      BY <1>2, <3>1
  <2>4. CASE \/ \E m \in Msgs : Println(t, m) \/ Eprintln(t, m)
             \/ \E s \in Streams : BeginPipe(t, s)
             \/ EndEnter(t)
    <3>1. pc'[t] \notin WritePcs
      BY <1>0, <2>4 DEF Println, Eprintln, BeginPipe, EndEnter, WritePcs
    <3>2. QED
      BY <1>2, <3>1
  <2>5. QED
    BY <1>4, <2>1, <2>2, <2>3, <2>4 DEF Call
<1>5. CASE OpenOther \/ CloseOther
  <2>1. \A f \in Fds : \A s : fds[f] = Tty(s) => fds'[f] = Tty(s)
    BY <1>0, <1>5, FilesApart DEF OpenOther, CloseOther, IsLowestClosed, Close
  <2>2. pc' = pc /\ arg' = arg /\ file' = file
    BY <1>5 DEF OpenOther, CloseOther
  <2>3. QED
    BY <1>0, <2>1, <2>2 DEF Terminals, Tty
<1>6. QED
  BY <1>1, <1>3, <1>4, <1>5 DEF Next

\* A bypass write shows its text.
LEMMA WriteShows ==
  ASSUME IInv, Terminals, NEW t \in Threads, WriteDone(t)
  PROVE  \E m \in MsgsOf(arg[t].stream) :
           /\ arg[t].msg = {m} /\ m \in Msgs
           /\ tty' = [tty EXCEPT ![arg[t].stream] = Append(@, m)]
           /\ pipe' = pipe
<1>1. /\ pc[t] = "w_write" /\ arg[t].stream \in Streams
      /\ \E m \in arg[t].msg : Deliver(file[t], m)
  BY DEF WriteDone, IInv, TypeOK
<1>2. PICK m \in MsgsOf(arg[t].stream) : arg[t].msg = {m}
  BY <1>1 DEF Terminals, WritePcs
<1>3. Deliver(Tty(arg[t].stream), m)
  BY <1>1, <1>2 DEF Terminals
<1>4. m \in Msgs
  BY <1>2 DEF MsgsOf, Msgs
<1>5. QED
  BY <1>1, <1>2, <1>3, <1>4 DEF Deliver, Tty

LEMMA InvariantTerminals ==
  ASSUME OneAtATime, OneThread
  PROVE  Spec => []Terminals
<1>1. Init => Terminals
  BY DEF Init, Terminals, WritePcs
<1>2. Terminals /\ IInv /\ [Next]_vars => Terminals'
  BY StepTerminals
<1>3. QED
  BY <1>1, <1>2, InvariantIInv, PTL DEF Spec

\* When WriteStdout or WriteStderr returns, its text is on the real stream,
\* whether a capture is active or not.
THEOREM BypassIsShown ==
  ASSUME OneAtATime, OneThread
  PROVE  Spec => BypassShown
<1> DEFINE Shown == \A t \in Threads : WriteDone(t) =>
                      arg[t].msg \subseteq RangeOf(tty'[arg[t].stream])
<1>1. IInv /\ Terminals => Shown
  <2>1. SUFFICES ASSUME IInv, Terminals, NEW t \in Threads, WriteDone(t)
                 PROVE  arg[t].msg \subseteq RangeOf(tty'[arg[t].stream])
    OBVIOUS
  <2>2. PICK m \in Msgs : /\ arg[t].msg = {m}
                          /\ tty' = [tty EXCEPT ![arg[t].stream] = Append(@, m)]
    BY <2>1, WriteShows
  <2>3. /\ arg[t].stream \in Streams /\ tty \in [Streams -> Seq(Msgs)]
    BY <2>1 DEF IInv, TypeOK
  <2>4. tty'[arg[t].stream] = Append(tty[arg[t].stream], m)
    BY <2>2, <2>3
  <2>5. m \in RangeOf(Append(tty[arg[t].stream], m))
    BY <2>3, RangeFacts
  <2>6. QED
    BY <2>2, <2>4, <2>5
<1>2. QED
  BY <1>1, InvariantIInv, InvariantTerminals, PTL DEF BypassShown

-----------------------------------------------------------------------------
(* A program of one thread: printed text keeps its order.                  *)

\* A flush writes to the pipe exactly while its stream is captured.
FileExact ==
  \A t \in Threads : Flushing(t) =>
    (file[t] = WriteEnd(npipes) <=> capturing[arg[t].stream])

\* Text for stdout is held back only by a capture of stdout that has not been
\* teed.
Unteed ==
  capturing[STDOUT] \/ \E t \in Threads : pc[t] \in {"e_restore", "e_read", "e_tee"}
HeldOut == RangeOf(Held) \cap OutMsgs # {} => Unteed

\* The C stream of stdout holds printed text only inside a print and inside
\* the tee of End.
Busy(t) ==
  pc[t] \in {"p_flush", "p_write", "t_flush", "t_write"} /\ arg[t].stream = STDOUT
Clean ==
  \A t \in Threads :
    /\ ~Busy(t) => RangeOf(stdio[STDOUT]) \cap RangeOf(printed) = {}
    /\ pc[t] \in EndPcs => arg[t].stream = STDOUT

\* A text no call was made with is nowhere, and one that bypasses is not
\* printed.
Placed ==
  RangeOf(tty[STDOUT]) \cup RangeOf(Held) \cup RangeOf(printed)
    \cup RangeOf(stdio[STDOUT]) \cup RangeOf(stdio[STDERR])
Fresh ==
  /\ unsent \cap Placed = {}
  /\ \A t \in Threads : pc[t] \in WritePcs =>
       arg[t].msg \cap (RangeOf(printed) \cup unsent) = {}
  /\ RangeOf(printed) \subseteq OutMsgs

Orderly ==
  /\ FilesKnown /\ PipesEmpty /\ ErrApart /\ Terminals
  /\ FileExact /\ HeldOut /\ Clean /\ Fresh

LEMMA Kinds ==
  /\ \A s : \A p : Tty(s) # WriteEnd(p)
  /\ STDOUT \in Streams /\ STDERR \in Streams /\ STDOUT # STDERR
  /\ OutMsgs \subseteq Msgs /\ ErrMsgs \subseteq Msgs
<1>1. \A s : \A p : Tty(s).kind = "tty" /\ WriteEnd(p).kind = "write"
  BY DEF Tty, WriteEnd
<1>2. \A s : \A p : Tty(s) # WriteEnd(p)
  BY <1>1
<1>3. QED
  BY <1>2 DEF Streams, STDOUT, STDERR, Msgs

\* Past begin's redirection, a descriptor leads to the pipe exactly while its
\* stream is captured.
LEMMA FdExact ==
  ASSUME IInv, NEW s \in Streams, \A t \in Threads : pc[t] # "b_done"
  PROVE  fds[s] = WriteEnd(npipes) <=> capturing[s]
<1>1. s \in Fds /\ s <= 2
  BY StdFds
<1>2. capturing[s] => fds[s] = WriteEnd(npipes)
  BY CapturedFd
<1>3. ASSUME ~capturing[s] PROVE fds[s] = Tty(s)
  <2>1. \/ \E u \in Streams : Captured(u)
        \/ \E u \in Streams : Quiet(u) \/ Piped(u) \/ Duped(u) \/ Restored(u)
    <3>1. CASE mtx = None
      BY <3>1, Kinds DEF IInv, Wiring
    <3>2. CASE mtx # None
      <4>1. mtx \in Threads /\ pc[mtx] \in LockedPcs /\ pc[mtx] # "b_done"
        BY <3>2 DEF IInv, TypeOK, MutexHeld
      <4>2. At(mtx, arg[mtx].stream) /\ arg[mtx].stream \in Streams
        BY <4>1 DEF IInv, TypeOK, Wiring
      <4>3. QED
        BY <4>1, <4>2, Kinds DEF At, LockedPcs, BeginPcs, EndPcs
    <3>3. QED
      BY <3>1, <3>2
  <2>2. CASE \E u \in Streams : Captured(u)
    BY <1>1, <1>3, <2>2 DEF Captured, Capturing, Layout, Cell
  <2>3. CASE \E u \in Streams : Quiet(u) \/ Piped(u) \/ Duped(u) \/ Restored(u)
    BY <1>1, <2>3 DEF Quiet, Piped, Duped, Restored, Layout, Cell
  <2>4. QED
    BY <2>1, <2>2, <2>3
<1>4. QED
  BY <1>2, <1>3, Kinds

LEMMA StepFileExact ==
  ASSUME OneThread, IInv, FileExact, [Next]_vars
  PROVE  FileExact'
<1> USE DEF Goto
<1>0. pc \in [Threads -> Pcs]
  BY DEF IInv, TypeOK
<1>1. SUFFICES ASSUME NEW u \in Threads, Flushing(u)'
               PROVE  (file'[u] = WriteEnd(npipes') <=> capturing'[arg'[u].stream])
  BY DEF FileExact, WriteEnd
<1>2. npipes' = npipes /\ capturing' = capturing /\ pc[u] # "b_done"
  <2>1. CASE UNCHANGED vars \/ OpenOther \/ CloseOther
    BY <1>1, <2>1 DEF vars, OpenOther, CloseOther, captureVars, Flushing
  <2>2. ASSUME NEW t \in Threads, Continue(t)
        PROVE  npipes' = npipes /\ capturing' = capturing /\ pc[u] # "b_done"
    <3>1. t = u
      BY DEF OneThread
    <3>2. ~BeginDone(t) /\ \A s \in Streams : ~EndRestore(t, s)
      BY <1>0, <1>1, <3>1 DEF BeginDone, EndRestore, Flushing
    <3>3. QED
      BY <2>2, <3>1, <3>2
      DEF Continue, FlushEnter, FlushWrite, FlushDone, BeginDup, BeginDupFails,
          BeginRedirect, EndFlushStderr, EndRead, EndReadDone, EndTee, EndDone,
          WriteResolve, WriteDone, captureVars
  <2>3. ASSUME NEW t \in Threads, Call(t)
        PROVE  npipes' = npipes /\ capturing' = capturing /\ pc[u] # "b_done"
    <3>1. t = u
      BY DEF OneThread
    <3>2. \A s \in Streams : ~BeginPipe(t, s)
      BY <1>0, <1>1, <3>1 DEF BeginPipe, Flushing
    <3>3. QED
      BY <2>3, <3>1, <3>2
      DEF Call, Println, Eprintln, LogUnflushed, BeginRefused, EndIdle,
          EndEnter, Peek, WriteCall, captureVars, vars
  <2>4. QED
    BY <2>1, <2>2, <2>3 DEF Next
<1>3. \A t \in Threads : pc[t] # "b_done"
  BY <1>2 DEF OneThread
<1>4. /\ arg'[u].stream \in Streams
      /\ \/ Flushing(u) /\ file'[u] = file[u] /\ arg'[u] = arg[u]
         \/ file'[u] = fds[arg'[u].stream]
  BY <1>1, FlushingOld
<1>5. QED
  BY <1>2, <1>3, <1>4, FdExact DEF FileExact

\* A write past the capture leaves what it holds back alone.
LEMMA HeldWrite ==
  ASSUME IInv, Terminals, NEW t \in Threads, WriteDone(t)
  PROVE  Held' = Held
<1>1. pipe' = pipe
  BY WriteShows
<1>2. /\ buffer' = buffer /\ npipes' = npipes /\ capturing' = capturing
      /\ pc[t] = "w_write" /\ pc' = [pc EXCEPT ![t] = "idle"]
      /\ pc \in [Threads -> Pcs]
  BY DEF WriteDone, captureVars, Goto, IInv, TypeOK
<1>3. BufferHeld' = BufferHeld
  BY <1>2 DEF BufferHeld, IsActive
<1>4. QED
  BY <1>1, <1>2, <1>3, HeldSame

LEMMA StepHeldOut ==
  ASSUME OneAtATime, OneThread, IInv, Orderly, [Next]_vars
  PROVE  HeldOut'
<1> USE DEF Goto
<1>0. /\ pc \in [Threads -> Pcs] /\ capturing \in [Streams -> BOOLEAN]
      /\ Held \in Seq(Msgs)
  BY LastPipeType DEF IInv, TypeOK
<1>1. ASSUME NEW t \in Threads, FlushWrite(t) PROVE HeldOut'
  <2> DEFINE h == Head(stdio[arg[t].stream])
  <2>1. /\ pc' = pc /\ capturing' = capturing /\ Flushing(t) /\ h \in Msgs
        /\ arg[t].stream \in Streams /\ stdio[arg[t].stream] \in Seq(Msgs)
        /\ stdio[arg[t].stream] # <<>>
    BY <1>1, FlushTo DEF FlushWrite, captureVars, Flushing, Orderly
  <2>2. Unteed' = Unteed
    BY <2>1 DEF Unteed
  <2>3. CASE file[t] = WriteEnd(npipes) /\ h \in OutMsgs
    <3>1. arg[t].stream # STDERR
      <4>1. h \in RangeOf(stdio[arg[t].stream])
        BY <2>1, RangeFacts
      <4>2. QED
        BY <2>3, <4>1, MsgsAssumption DEF Orderly, ErrApart
    <3>2. capturing[STDOUT]
      BY <2>1, <2>3, <3>1 DEF Orderly, FileExact, Streams
    <3>3. QED
      BY <2>2, <3>2 DEF HeldOut, Unteed
  <2>4. CASE ~(file[t] = WriteEnd(npipes) /\ h \in OutMsgs)
    <3>1. Held' = Held \/ (Held' = Append(Held, h) /\ h \notin OutMsgs)
      BY <1>1, <2>4, HeldFlush DEF Orderly
    <3>2. RangeOf(Held') \cap OutMsgs = RangeOf(Held) \cap OutMsgs
      <4>1. RangeOf(Append(Held, h)) = RangeOf(Held) \cup {h}
        BY <1>0, <2>1, RangeFacts
      <4>2. QED
        BY <3>1, <4>1
    <3>3. QED
      BY <2>2, <3>2 DEF HeldOut, Orderly
  <2>5. QED
    BY <2>3, <2>4
<1>2. ASSUME NEW t \in Threads, EndTee(t) PROVE HeldOut'
  <2>1. Held' = <<>>
    BY <1>2, HeldTee DEF Orderly
  <2>2. RangeOf(Held') = {}
    BY <2>1, RangeFacts, Zenon
  <2>3. QED
    BY <2>2 DEF HeldOut
<1>3. ASSUME \A t \in Threads : ~FlushWrite(t) /\ ~EndTee(t)
      PROVE  HeldOut'
  <2>1. Held' = Held
    BY <1>3, HeldSteps, HeldWrite DEF Orderly
  <2>2. SUFFICES ASSUME Unteed PROVE Unteed'
    BY <2>1 DEF HeldOut, Orderly
  <2>3. ASSUME NEW t \in Threads, Continue(t) PROVE Unteed'
    <3>1. pc[t] \in {"e_restore", "e_read", "e_tee"} \/ capturing[STDOUT]
      BY <2>2 DEF Unteed, OneThread
    <3>2. CASE BeginDone(t)
      BY <1>0, <2>2, <3>1, <3>2, Kinds DEF BeginDone, Unteed
    <3>3. CASE \E s \in Streams : EndRestore(t, s)
      BY <1>0, <3>3 DEF EndRestore, Unteed
    <3>4. CASE EndFlushStderr(t) \/ EndRead(t) \/ EndReadDone(t)
      BY <1>0, <3>4 DEF EndFlushStderr, EndRead, EndReadDone, Unteed
    <3>5. CASE \/ FlushEnter(t) \/ FlushDone(t) \/ BeginDup(t) \/ BeginDupFails(t)
               \/ BeginRedirect(t) \/ EndDone(t) \/ WriteResolve(t) \/ WriteDone(t)
      BY <1>0, <3>1, <3>5
      DEF FlushEnter, FlushDone, BeginDup, BeginDupFails, BeginRedirect, EndDone,
          WriteResolve, WriteDone, Unteed, captureVars
    <3>6. QED
      BY <1>3, <2>3, <3>2, <3>3, <3>4, <3>5 DEF Continue
  <2>4. ASSUME NEW t \in Threads, Call(t) PROVE Unteed'
    <3>1. CASE pc[t] = "idle"
      <4>1. capturing[STDOUT]
        BY <2>2, <3>1 DEF Unteed, OneThread
      <4>2. QED
        BY <2>4, <4>1
        DEF Call, Println, Eprintln, LogUnflushed, BeginRefused, BeginPipe,
            EndIdle, EndEnter, Peek, WriteCall, captureVars, vars, Unteed
    <3>2. QED
      BY <2>4, <3>1
      DEF Call, Println, Eprintln, LogUnflushed, BeginRefused, BeginPipe,
          EndIdle, EndEnter, Peek, WriteCall
  <2>5. CASE OpenOther \/ CloseOther \/ UNCHANGED vars
    BY <2>2, <2>5 DEF OpenOther, CloseOther, vars, captureVars, Unteed
  <2>6. QED
    BY <2>3, <2>4, <2>5 DEF Next
<1>4. QED
  BY <1>1, <1>2, <1>3

LEMMA StepClean ==
  ASSUME OneThread, IInv, Orderly, [Next]_vars
  PROVE  Clean'
<1> USE DEF Goto
<1> DEFINE Apart == RangeOf(stdio[STDOUT]) \cap RangeOf(printed) = {}
<1>0. /\ pc \in [Threads -> Pcs] /\ stdio \in [Streams -> Seq(Msgs)]
      /\ printed \in Seq(Msgs) /\ DOMAIN arg = Threads
      /\ \A t \in Threads : arg[t].stream \in Streams
  BY DEF IInv, TypeOK
<1>a. \A t \in Threads : (~Busy(t) => Apart) /\ (pc[t] \in EndPcs => arg[t].stream = STDOUT)
  BY DEF Orderly, Clean
<1>1. ASSUME NEW t \in Threads,
             (Busy(t) => Busy(t)') \/ stdio'[STDOUT] = <<>>,
             RangeOf(stdio'[STDOUT]) \subseteq RangeOf(stdio[STDOUT]),
             printed' = printed,
             pc'[t] \in EndPcs => arg'[t].stream = STDOUT
      PROVE  Clean'
  <2>1. stdio'[STDOUT] = <<>> => RangeOf(stdio'[STDOUT]) = {}
    BY RangeFacts, Zenon
  <2>2. ~Busy(t)' => Apart'
    BY <1>1, <1>a, <2>1
  <2>3. QED
    BY <1>1, <2>2 DEF OneThread, Clean
<1>2. ASSUME NEW t \in Threads, Continue(t) PROVE Clean'
  <2>1. CASE EndTee(t)
    <3>1. pc'[t] = "t_flush" /\ arg' = arg /\ arg[t].stream = STDOUT
      BY <1>0, <1>a, <2>1 DEF EndTee, EndPcs
    <3>2. Busy(t)' /\ arg'[t].stream = STDOUT
      BY <3>1 DEF Busy
    <3>3. QED
      BY <3>2 DEF OneThread, Clean
  <2>2. CASE FlushWrite(t)
    <3>1. /\ pc' = pc /\ arg' = arg /\ printed' = printed /\ arg[t].stream \in Streams
          /\ stdio[arg[t].stream] \in Seq(Msgs) /\ stdio[arg[t].stream] # <<>>
          /\ stdio' = [stdio EXCEPT ![arg[t].stream] = Tail(@)]
      BY <1>0, <2>2 DEF FlushWrite
    <3>2. RangeOf(Tail(stdio[arg[t].stream])) \subseteq RangeOf(stdio[arg[t].stream])
      BY <3>1, RangeFacts
    <3>3. RangeOf(stdio'[STDOUT]) \subseteq RangeOf(stdio[STDOUT])
      BY <1>0, <3>1, <3>2, Kinds
    <3>4. Busy(t) => Busy(t)'
      BY <3>1 DEF Busy
    <3>5. QED
      BY <1>1, <1>a, <3>1, <3>3, <3>4
  <2>3. CASE FlushDone(t)
    <3>1. /\ stdio' = stdio /\ printed' = printed /\ stdio[arg[t].stream] = <<>>
          /\ arg' = arg /\ pc[t] \in {"p_write", "b_write", "t_write"}
          /\ pc'[t] \in EndPcs => pc[t] \in EndPcs
      BY <1>0, <2>3 DEF FlushDone, EndPcs
    <3>2. Busy(t) => stdio'[STDOUT] = <<>>
      BY <3>1 DEF Busy
    <3>3. QED
      BY <1>1, <1>a, <3>1, <3>2
  <2>4. CASE FlushEnter(t)
    <3>1. /\ stdio' = stdio /\ printed' = printed /\ arg' = arg
          /\ Busy(t) => Busy(t)'
          /\ pc'[t] \in EndPcs => pc[t] \in EndPcs
      BY <1>0, <2>4 DEF FlushEnter, EndPcs, Busy, ghostVars
    <3>2. QED
      BY <1>1, <1>a, <3>1
  <2>5. CASE \/ BeginDup(t) \/ BeginDupFails(t) \/ BeginRedirect(t) \/ BeginDone(t)
             \/ (\E s \in Streams : EndRestore(t, s)) \/ EndFlushStderr(t)
             \/ EndRead(t) \/ EndReadDone(t) \/ EndDone(t) \/ WriteResolve(t)
             \/ WriteDone(t)
    <3>1. /\ stdio' = stdio /\ printed' = printed /\ arg' = arg /\ ~Busy(t)
      BY <2>5
      DEF BeginDup, BeginDupFails, BeginRedirect, BeginDone, EndRestore,
          EndFlushStderr, EndRead, EndReadDone, EndDone, WriteResolve, WriteDone,
          Busy, ghostVars
    <3>2. pc'[t] \in EndPcs => pc[t] \in EndPcs
      BY <1>0, <2>5
      DEF BeginDup, BeginDupFails, BeginRedirect, BeginDone, EndRestore,
          EndFlushStderr, EndRead, EndReadDone, EndDone, WriteResolve, WriteDone,
          EndPcs
    <3>3. QED
      BY <1>1, <1>a, <3>1, <3>2
  <2>6. QED
    BY <1>2, <2>1, <2>2, <2>3, <2>4, <2>5 DEF Continue
<1>3. ASSUME NEW t \in Threads, Call(t) PROVE Clean'
  <2>1. ASSUME NEW m \in Msgs, Println(t, m) PROVE Clean'
    <3>1. pc'[t] = "p_flush" /\ arg'[t].stream = STDOUT
      BY <1>0, <2>1 DEF Println, CallArg
    <3>2. QED
      BY <3>1 DEF OneThread, Clean, Busy
  <2>2. ASSUME NEW m \in Msgs, LogUnflushed(t, m) PROVE Clean'
    <3>1. /\ pc' = pc /\ arg' = arg /\ printed' = printed /\ pc[t] = "idle"
          /\ m \in unsent
          /\ stdio'[STDOUT] = Append(stdio[STDOUT], m)
      BY <1>0, <2>2, Kinds DEF LogUnflushed
    <3>2. m \notin RangeOf(printed)
      BY <3>1 DEF Orderly, Fresh, Placed
    <3>3. Apart
      BY <1>a, <3>1 DEF Busy
    <3>4. RangeOf(stdio'[STDOUT]) = RangeOf(stdio[STDOUT]) \cup {m}
      BY <1>0, <3>1, RangeFacts, Kinds
    <3>5. Apart'
      BY <3>1, <3>2, <3>3, <3>4
    <3>6. QED
      BY <1>a, <3>1, <3>5 DEF OneThread, Clean
  <2>3. ASSUME NEW m \in Msgs, Eprintln(t, m) PROVE Clean'
    <3>1. /\ pc'[t] = "p_write" /\ printed' = printed /\ pc[t] = "idle"
          /\ stdio'[STDOUT] = stdio[STDOUT]
      BY <1>0, <2>3, Kinds DEF Eprintln
    <3>2. ~Busy(t) /\ pc'[t] \notin EndPcs
      BY <3>1 DEF Busy, EndPcs
    <3>3. QED
      BY <1>1, <3>1, <3>2
  <2>4. CASE \/ EndIdle(t) \/ EndEnter(t) \/ Peek(t)
             \/ \E s \in Streams : BeginRefused(t, s) \/ BeginPipe(t, s)
             \/ \E s \in Streams, m \in Msgs : WriteCall(t, s, m)
    <3>1. stdio' = stdio /\ printed' = printed /\ ~Busy(t)
      BY <2>4
      DEF EndIdle, EndEnter, Peek, BeginRefused, BeginPipe, WriteCall, vars,
          ghostVars, Busy
    <3>2. \/ pc'[t] \in {"idle", "b_flush", "w_call"}
          \/ arg'[t] = NoArg
      BY <1>0, <2>4
      DEF EndIdle, EndEnter, Peek, BeginRefused, BeginPipe, WriteCall, vars
    <3>4. pc'[t] \in EndPcs => arg'[t].stream = STDOUT
      BY <3>2 DEF EndPcs, NoArg
    <3>3. QED
      BY <1>1, <3>1, <3>4
  <2>5. QED
    BY <1>3, <2>1, <2>2, <2>3, <2>4 DEF Call
<1>4. CASE OpenOther \/ CloseOther \/ UNCHANGED vars
  BY <1>4 DEF OpenOther, CloseOther, vars, ghostVars, Orderly, Clean, Busy
<1>5. QED
  BY <1>2, <1>3, <1>4 DEF Next

LEMMA StepFresh ==
  ASSUME OneAtATime, OneThread, IInv, Orderly, [Next]_vars
  PROVE  Fresh'
<1> USE DEF Goto
<1>0. /\ pc \in [Threads -> Pcs] /\ stdio \in [Streams -> Seq(Msgs)]
      /\ tty \in [Streams -> Seq(Msgs)] /\ printed \in Seq(Msgs)
      /\ Held \in Seq(Msgs) /\ buffer \in Seq(Msgs) /\ DOMAIN arg = Threads
      /\ \A t \in Threads : arg[t].stream \in Streams
  BY LastPipeType DEF IInv, TypeOK
<1>a. /\ unsent \cap Placed = {}
      /\ \A t \in Threads : pc[t] \in WritePcs =>
           arg[t].msg \cap (RangeOf(printed) \cup unsent) = {}
      /\ RangeOf(printed) \subseteq OutMsgs
  BY DEF Orderly, Fresh
<1>b. \A seq \in Seq(Msgs), m \in Msgs : RangeOf(Append(seq, m)) = RangeOf(seq) \cup {m}
  BY RangeFacts
<1>1. ASSUME NEW t \in Threads, NEW X, Placed' \subseteq Placed \cup X,
             unsent' \subseteq unsent \ X, printed' = printed,
             pc'[t] \in WritePcs => pc[t] \in WritePcs /\ arg'[t] = arg[t]
      PROVE  Fresh'
  BY <1>1, <1>a DEF OneThread, Fresh
<1>2. ASSUME NEW t \in Threads, FlushWrite(t) PROVE Fresh'
  <2> DEFINE s == arg[t].stream
             h == Head(stdio[s])
  <2>1. /\ unsent' = unsent /\ printed' = printed /\ pc' = pc /\ arg' = arg
        /\ stdio' = [stdio EXCEPT ![s] = Tail(stdio[s])]
        /\ stdio[s] \in Seq(Msgs) /\ stdio[s] # <<>> /\ h \in Msgs /\ s \in Streams
        /\ tty' = tty \/ tty' = [tty EXCEPT ![s] = Append(tty[s], h)]
    BY <1>2, FlushTo DEF FlushWrite, Orderly
  <2>2. Held' = Held \/ Held' = Append(Held, h)
    BY <1>2, HeldFlush DEF Orderly
  <2>3. RangeOf(stdio[s]) = {h} \cup RangeOf(Tail(stdio[s]))
    BY <2>1, RangeFacts
  <2> HIDE DEF h
  <2>4. /\ RangeOf(stdio'[STDOUT]) \subseteq RangeOf(stdio[STDOUT])
        /\ RangeOf(stdio'[STDERR]) \subseteq RangeOf(stdio[STDERR])
    BY <1>0, <2>1, <2>3, Kinds
  <2>5. h \in Placed
    BY <2>1, <2>3 DEF Streams, Placed
  <2>6. RangeOf(tty'[STDOUT]) \subseteq RangeOf(tty[STDOUT]) \cup {h}
    <3>1. tty'[STDOUT] = tty[STDOUT] \/ tty'[STDOUT] = Append(tty[STDOUT], h)
      BY <1>0, <2>1, Kinds
    <3>2. tty[STDOUT] \in Seq(Msgs)
      BY <1>0, Kinds
    <3>3. RangeOf(Append(tty[STDOUT], h)) = RangeOf(tty[STDOUT]) \cup {h}
      BY <1>b, <2>1, <3>2
    <3>4. QED
      BY <3>1, <3>3
  <2>7. RangeOf(Held') \subseteq RangeOf(Held) \cup {h}
    BY <1>0, <1>b, <2>1, <2>2
  <2>8. Placed' \subseteq Placed
    BY <2>1, <2>4, <2>5, <2>6, <2>7 DEF Placed
  <2>9. QED
    BY <1>1, <2>1, <2>8
<1>3. ASSUME NEW t \in Threads, EndTee(t) PROVE Fresh'
  <2>1. /\ unsent' = unsent /\ printed' = printed /\ tty' = tty
        /\ stdio' = [stdio EXCEPT ![STDOUT] = @ \o buffer]
        /\ pc'[t] = "t_flush"
    BY <1>0, <1>3 DEF EndTee, ghostVars
  <2>2. Held = buffer /\ Held' = <<>>
    BY <1>3, HeldTee DEF Orderly
  <2>3. RangeOf(stdio[STDOUT] \o buffer) = RangeOf(stdio[STDOUT]) \cup RangeOf(Held)
    BY <1>0, <2>2, RangeFacts, Kinds
  <2>4. RangeOf(Held') = {}
    BY <2>2, RangeFacts, Zenon
  <2>5. stdio'[STDOUT] = stdio[STDOUT] \o buffer /\ stdio'[STDERR] = stdio[STDERR]
    BY <1>0, <2>1, Kinds
  <2>6. Placed' \subseteq Placed
    BY <2>1, <2>3, <2>4, <2>5 DEF Placed
  <2>7. QED
    BY <1>1, <2>1, <2>6 DEF WritePcs
<1>4. ASSUME NEW t \in Threads, WriteDone(t) PROVE Fresh'
  <2>1. PICK m \in Msgs : /\ arg[t].msg = {m}
                          /\ tty' = [tty EXCEPT ![arg[t].stream] = Append(@, m)]
    BY <1>4, WriteShows DEF Orderly
  <2>2. /\ unsent' = unsent /\ printed' = printed /\ stdio' = stdio
        /\ pc'[t] = "idle" /\ pc[t] \in WritePcs
    BY <1>0, <1>4 DEF WriteDone, WritePcs
  <2>3. Held' = Held
    BY <1>4, HeldWrite DEF Orderly
  <2>4. RangeOf(tty'[STDOUT]) \subseteq RangeOf(tty[STDOUT]) \cup {m}
    <3>1. tty'[STDOUT] = tty[STDOUT] \/ tty'[STDOUT] = Append(tty[STDOUT], m)
      BY <1>0, <2>1, Kinds
    <3>2. QED
      BY <1>0, <1>b, <2>1, <3>1, Kinds
  <2>5. Placed' \subseteq Placed \cup {m}
    BY <2>2, <2>3, <2>4 DEF Placed
  <2>6. m \notin unsent
    BY <1>a, <2>1, <2>2
  <2>7. QED
    BY <1>1, <2>2, <2>5, <2>6 DEF WritePcs
<1>5. ASSUME \A t \in Threads : ~FlushWrite(t) /\ ~EndTee(t) /\ ~WriteDone(t)
      PROVE  Fresh'
  <2>1. Held' = Held
    BY <1>5, HeldSteps DEF Orderly
  <2>2. ASSUME NEW t \in Threads, NEW m \in Msgs, Println(t, m)
        PROVE  Fresh'
    <3>1. /\ m \in unsent /\ m \in OutMsgs /\ unsent' = unsent \ {m}
          /\ printed' = Append(printed, m) /\ tty' = tty /\ pc'[t] = "p_flush"
          /\ stdio'[STDOUT] = Append(stdio[STDOUT], m)
          /\ stdio'[STDERR] = stdio[STDERR]
      BY <1>0, <2>2, Kinds DEF Println
    <3>2. RangeOf(printed') = RangeOf(printed) \cup {m}
      BY <1>0, <1>b, <3>1
    <3>3. RangeOf(stdio'[STDOUT]) = RangeOf(stdio[STDOUT]) \cup {m}
      BY <1>0, <1>b, <3>1, Kinds
    <3>4. Placed' \subseteq Placed \cup {m}
      BY <2>1, <3>1, <3>2, <3>3 DEF Placed
    <3>5. pc'[t] \notin WritePcs
      BY <3>1 DEF WritePcs
    <3>6. QED
      BY <1>a, <3>1, <3>2, <3>4, <3>5 DEF OneThread, Fresh
  <2>3. ASSUME NEW t \in Threads, NEW m \in Msgs, Eprintln(t, m) \/ LogUnflushed(t, m)
        PROVE  Fresh'
    <3>1. /\ m \in unsent /\ unsent' = unsent \ {m} /\ printed' = printed /\ tty' = tty
          /\ pc'[t] \notin WritePcs
          /\ \/ /\ stdio'[STDOUT] = Append(stdio[STDOUT], m)
                /\ stdio'[STDERR] = stdio[STDERR]
             \/ /\ stdio'[STDOUT] = stdio[STDOUT]
                /\ stdio'[STDERR] = Append(stdio[STDERR], m)
      BY <1>0, <2>3, Kinds DEF Eprintln, LogUnflushed, WritePcs
    <3>2. /\ RangeOf(stdio'[STDOUT]) \subseteq RangeOf(stdio[STDOUT]) \cup {m}
          /\ RangeOf(stdio'[STDERR]) \subseteq RangeOf(stdio[STDERR]) \cup {m}
      <4>1. stdio[STDOUT] \in Seq(Msgs) /\ stdio[STDERR] \in Seq(Msgs)
        BY <1>0, Kinds
      <4>2. /\ RangeOf(Append(stdio[STDOUT], m)) = RangeOf(stdio[STDOUT]) \cup {m}
            /\ RangeOf(Append(stdio[STDERR], m)) = RangeOf(stdio[STDERR]) \cup {m}
        BY <1>b, <4>1
      <4>3. QED
        BY <3>1, <4>2
    <3>3. Placed' \subseteq Placed \cup {m}
      BY <2>1, <3>1, <3>2 DEF Placed
    <3>4. QED
      BY <1>1, <3>1, <3>3
  <2>4. ASSUME NEW t \in Threads, NEW s \in Streams, NEW m \in Msgs, WriteCall(t, s, m)
        PROVE  Fresh'
    <3>1. /\ m \in unsent /\ unsent' = unsent \ {m} /\ printed' = printed
          /\ tty' = tty /\ stdio' = stdio /\ arg'[t].msg = {m}
      BY <1>0, <2>4 DEF WriteCall
    <3>2. Placed' = Placed
      BY <2>1, <3>1 DEF Placed
    <3>3. m \notin RangeOf(printed)
      BY <1>a, <3>1 DEF Placed
    <3>4. QED
      BY <1>a, <3>1, <3>2, <3>3 DEF OneThread, Fresh
  <2>5. ASSUME NEW t \in Threads, unsent' = unsent, printed' = printed, tty' = tty,
               stdio' = stdio,
               pc'[t] \in WritePcs => pc[t] \in WritePcs /\ arg'[t] = arg[t]
        PROVE  Fresh'
    <3>1. Placed' = Placed
      BY <2>1, <2>5 DEF Placed
    <3>2. QED
      BY <1>1, <2>5, <3>1
  <2>6. ASSUME NEW t \in Threads, Continue(t) PROVE Fresh'
    <3>1. /\ unsent' = unsent /\ printed' = printed /\ tty' = tty /\ stdio' = stdio
      BY <1>5, <2>6
      DEF Continue, FlushEnter, FlushDone, BeginDup, BeginDupFails,
          BeginRedirect, BeginDone, EndRestore, EndFlushStderr, EndRead,
          EndReadDone, EndDone, WriteResolve, ghostVars
    <3>2. CASE WriteResolve(t)
      <4>1. pc[t] \in WritePcs /\ arg'[t] = arg[t]
        BY <3>2 DEF WriteResolve, WritePcs
      <4>2. QED
        BY <2>5, <3>1, <4>1
    <3>3. CASE \/ EndRead(t) \/ \E s \in Streams : EndRestore(t, s)
      <4>1. pc'[t] \notin WritePcs
        BY <3>3 DEF EndRead, EndRestore, WritePcs
      <4>2. QED
        BY <2>5, <3>1, <4>1
    <3>4. CASE \/ FlushEnter(t) \/ FlushDone(t) \/ BeginDup(t) \/ BeginDupFails(t)
               \/ BeginRedirect(t) \/ BeginDone(t) \/ EndFlushStderr(t)
               \/ EndReadDone(t) \/ EndDone(t)
      <4>1. pc'[t] \notin WritePcs
        BY <1>0, <3>4
        DEF FlushEnter, FlushDone, BeginDup, BeginDupFails, BeginRedirect,
            BeginDone, EndFlushStderr, EndReadDone, EndDone, WritePcs
      <4>2. QED
        BY <2>5, <3>1, <4>1
    <3>5. QED
      BY <1>5, <2>6, <3>2, <3>3, <3>4 DEF Continue
  <2>7. ASSUME NEW t \in Threads,
               \/ EndIdle(t) \/ EndEnter(t) \/ Peek(t)
               \/ \E s \in Streams : BeginRefused(t, s) \/ BeginPipe(t, s)
        PROVE  Fresh'
    <3>1. unsent' = unsent /\ printed' = printed /\ tty' = tty /\ stdio' = stdio
      BY <2>7 DEF EndIdle, EndEnter, Peek, BeginRefused, BeginPipe, vars, ghostVars
    <3>2. pc'[t] \notin WritePcs
      BY <1>0, <2>7
      DEF EndIdle, EndEnter, Peek, BeginRefused, BeginPipe, vars, WritePcs
    <3>3. QED
      BY <2>5, <3>1, <3>2
  <2>8. CASE OpenOther \/ CloseOther \/ UNCHANGED vars
    <3>1. /\ unsent' = unsent /\ printed' = printed /\ tty' = tty /\ stdio' = stdio
          /\ pc' = pc /\ arg' = arg
      BY <2>8 DEF OpenOther, CloseOther, vars, ghostVars
    <3>2. Placed' = Placed
      BY <2>1, <3>1 DEF Placed
    <3>3. QED
      BY <1>a, <3>1, <3>2 DEF Fresh
  <2>9. QED
    BY <2>2, <2>3, <2>4, <2>6, <2>7, <2>8 DEF Next, Call
<1>6. QED
  BY <1>2, <1>3, <1>4, <1>5

\* The order of the printed texts, part by part.
InParts ==
  Only(tty[STDOUT], RangeOf(printed))
    \o (Only(Held, RangeOf(printed)) \o Only(stdio[STDOUT], RangeOf(printed)))
    = printed

LEMMA ConcatAssoc ==
  ASSUME NEW a \in Seq(Msgs), NEW b \in Seq(Msgs), NEW c \in Seq(Msgs)
  PROVE  (a \o b) \o c = a \o (b \o c)
<1> DEFINE r1 == (a \o b) \o c
           r2 == a \o (b \o c)
<1>1. r1 \in Seq(Msgs) /\ r2 \in Seq(Msgs) /\ Len(r1) = Len(r2)
  OBVIOUS
<1>2. ASSUME NEW i \in 1 .. Len(r1) PROVE r1[i] = r2[i]
  <2>1. CASE i <= Len(a)
    BY <2>1
  <2>2. CASE ~(i <= Len(a)) /\ i <= Len(a) + Len(b)
    BY <2>2
  <2>3. CASE ~(i <= Len(a) + Len(b))
    BY <2>3
  <2> QED BY <2>1, <2>2, <2>3
<1> HIDE DEF r1, r2
<1>3. r1 = r2
  BY <1>1, <1>2, SeqEqual
<1> QED BY <1>3 DEF r1, r2

LEMMA PartsOfOrder ==
  ASSUME IInv
  PROVE  InPrintOrder <=> InParts
<1> DEFINE a == tty[STDOUT]
           b == Held
           c == stdio[STDOUT]
           R == RangeOf(printed)
<1>1. a \in Seq(Msgs) /\ b \in Seq(Msgs) /\ c \in Seq(Msgs)
  BY LastPipeType, Kinds DEF IInv, TypeOK
<1> HIDE DEF a, b, c, R
<1>2. a \o b \in Seq(Msgs)
  BY <1>1, SeqFacts
<1>3. Only((a \o b) \o c, R) = (Only(a, R) \o Only(b, R)) \o Only(c, R)
  <2>1. Only(a \o b, R) = Only(a, R) \o Only(b, R)
    BY <1>1, OnlyConcat
  <2>2. Only((a \o b) \o c, R) = Only(a \o b, R) \o Only(c, R)
    BY <1>1, <1>2, OnlyConcat
  <2>3. QED
    BY <2>1, <2>2
<1>4. Only((a \o b) \o c, R) = Only(a, R) \o (Only(b, R) \o Only(c, R))
  BY <1>1, <1>3, OnlyType, ConcatAssoc
<1>5. QED
  BY <1>4 DEF InPrintOrder, InParts, a, b, c, R

LEMMA PartsSame ==
  ASSUME InParts, printed' = printed,
         Only(tty'[STDOUT], RangeOf(printed)) = Only(tty[STDOUT], RangeOf(printed)),
         Only(Held', RangeOf(printed)) = Only(Held, RangeOf(printed)),
         Only(stdio'[STDOUT], RangeOf(printed)) = Only(stdio[STDOUT], RangeOf(printed))
  PROVE  InParts'
BY DEF InParts

\* A printed text joins the others at the end of the C stream.
LEMMA PrintlnInOrder ==
  ASSUME OneAtATime, IInv, Orderly, InParts,
         NEW t \in Threads, NEW m \in Msgs, Println(t, m)
  PROVE  InParts'
<1> DEFINE R == RangeOf(printed)
           Q == RangeOf(Append(printed, m))
           a == tty[STDOUT]
           b == Held
           c == stdio[STDOUT]
<1>1. /\ a \in Seq(Msgs) /\ b \in Seq(Msgs) /\ c \in Seq(Msgs)
      /\ printed \in Seq(Msgs) /\ stdio \in [Streams -> Seq(Msgs)]
  BY LastPipeType, Kinds DEF IInv, TypeOK
<1>2. /\ m \in unsent /\ printed' = Append(printed, m) /\ tty' = tty
      /\ stdio'[STDOUT] = Append(c, m)
  BY <1>1, Kinds DEF Println
<1>3. Held' = Held
  <2>1. \A u \in Threads : ~FlushWrite(u) /\ ~WriteDone(u) /\ ~EndTee(u)
    <3>1. /\ pc[t] = "idle" /\ stdio' # stdio /\ unsent' # unsent
      <4>1. pc[t] = "idle" /\ m \in unsent /\ unsent' = unsent \ {m}
        BY DEF Println
      <4>2. Append(c, m) # c
        BY <1>1
      <4>3. QED
        BY <1>2, <4>1, <4>2
    <3>2. QED
      BY <3>1 DEF FlushWrite, WriteDone, EndTee, ghostVars
  <2>2. [Next]_vars
    BY DEF Next, Call
  <2>3. QED
    BY <2>1, <2>2, HeldSteps DEF Orderly
<1>4. m \notin RangeOf(a) /\ m \notin RangeOf(b) /\ m \notin RangeOf(c)
  BY <1>2 DEF Orderly, Fresh, Placed
<1>5. Q = R \cup {m}
  BY <1>1, RangeFacts
<1>6. Only(a, R) \o (Only(b, R) \o Only(c, R)) = printed
  BY DEF InParts
<1>7. InParts' <=> Only(a, Q) \o (Only(b, Q) \o Only(Append(c, m), Q))
                     = Append(printed, m)
  BY <1>2, <1>3 DEF InParts
<1> HIDE DEF R, Q, a, b, c
<1>8. ASSUME NEW x \in Seq(Msgs), m \notin RangeOf(x)
      PROVE  Only(x, Q) = Only(x, R) /\ Only(x, R) \in Seq(Msgs)
  <2>1. RangeOf(x) \cap Q = RangeOf(x) \cap R
    BY <1>5, <1>8
  <2>2. QED
    BY <2>1, OnlySame, OnlyType
<1>9. Only(Append(c, m), Q) = Append(Only(c, R), m)
  <2>1. m \in Q
    BY <1>5
  <2>2. Only(Append(c, m), Q) = Append(Only(c, Q), m)
    BY <1>1, <2>1, OnlyAppend
  <2>3. QED
    BY <1>1, <1>4, <1>8, <2>2
<1>10. Only(b, R) \o Append(Only(c, R), m) = Append(Only(b, R) \o Only(c, R), m)
  BY <1>1, OnlyType, ConcatAppend
<1>11. Only(a, R) \o Append(Only(b, R) \o Only(c, R), m)
         = Append(Only(a, R) \o (Only(b, R) \o Only(c, R)), m)
  <2>1. Only(b, R) \o Only(c, R) \in Seq(Msgs) /\ Only(a, R) \in Seq(Msgs)
    BY <1>1, OnlyType, SeqFacts
  <2>2. QED
    BY <2>1, ConcatAppend
<1>12. Only(a, Q) = Only(a, R) /\ Only(b, Q) = Only(b, R)
  BY <1>1, <1>4, <1>8
<1>13. QED
  BY <1>6, <1>7, <1>9, <1>10, <1>11, <1>12

\* What is teed follows what was shown: the C stream held no printed text.
LEMMA TeeInOrder ==
  ASSUME IInv, Orderly, InParts, NEW t \in Threads, EndTee(t)
  PROVE  InParts'
<1> DEFINE R == RangeOf(printed)
           a == Only(tty[STDOUT], R)
           b == Only(Held, R)
<1>1. /\ tty[STDOUT] \in Seq(Msgs) /\ stdio[STDOUT] \in Seq(Msgs)
      /\ Held \in Seq(Msgs) /\ stdio \in [Streams -> Seq(Msgs)]
  BY LastPipeType, Kinds DEF IInv, TypeOK
<1>2. Held = buffer /\ Held' = <<>>
  BY HeldTee DEF Orderly
<1>3. /\ printed' = printed /\ tty' = tty
      /\ stdio'[STDOUT] = stdio[STDOUT] \o Held
  BY <1>1, <1>2, Kinds DEF EndTee, ghostVars
<1>4. Only(stdio[STDOUT], R) = <<>>
  <2>1. ~Busy(t)
    BY DEF EndTee, Busy
  <2>2. RangeOf(stdio[STDOUT]) \cap R = {}
    BY <2>1 DEF Orderly, Clean
  <2>3. QED
    BY <1>1, <2>2, OnlyNone
<1>5. Only(stdio[STDOUT] \o Held, R) = Only(stdio[STDOUT], R) \o b
  BY <1>1, OnlyConcat
<1>6. Only(<<>>, R) = <<>>
  BY OnlyEmpty
<1>7. a \o (b \o Only(stdio[STDOUT], R)) = printed
  BY DEF InParts
<1>8. InParts' <=> a \o (Only(<<>>, R) \o Only(stdio[STDOUT] \o Held, R)) = printed
  BY <1>2, <1>3 DEF InParts
<1>9. a \in Seq(Msgs) /\ b \in Seq(Msgs)
  BY <1>1, OnlyType
<1> HIDE DEF R, a, b
<1>10. b \o <<>> = b /\ <<>> \o b = b
  BY <1>9, ConcatEmptySeq
<1>11. QED
  BY <1>4, <1>5, <1>6, <1>7, <1>8, <1>10

LEMMA AppendThen ==
  ASSUME NEW a \in Seq(Msgs), NEW r \in Seq(Msgs), NEW h \in Msgs
  PROVE  Append(a, h) \o r = a \o (<<h>> \o r)
<1>1. Append(a, h) = a \o <<h>> /\ <<h>> \in Seq(Msgs)
  <2>1. <<h>> \in Seq(Msgs)
    OBVIOUS
  <2>2. Append(a, h) = a \o <<h>>
    BY AppendProperties
  <2>3. QED
    BY <2>1, <2>2
<1>2. (a \o <<h>>) \o r = a \o (<<h>> \o r)
  BY <1>1, ConcatAssoc
<1>3. QED
  BY <1>1, <1>2

\* A write(2) moves the oldest text of a C stream to the terminal, when nothing
\* printed is held back, or to the end of what is held back.
LEMMA FlushInOrder ==
  ASSUME OneThread, IInv, Orderly, InParts, NEW t \in Threads, FlushWrite(t)
  PROVE  InParts'
<1> DEFINE s == arg[t].stream
           h == Head(stdio[s])
           R == RangeOf(printed)
           rest == Only(Tail(stdio[s]), R)
<1>0. /\ stdio \in [Streams -> Seq(Msgs)] /\ tty \in [Streams -> Seq(Msgs)]
      /\ Held \in Seq(Msgs) /\ tty[STDOUT] \in Seq(Msgs)
      /\ stdio[STDOUT] \in Seq(Msgs)
  BY LastPipeType, Kinds DEF IInv, TypeOK
<1>1. /\ s \in Streams /\ stdio[s] \in Seq(Msgs) /\ stdio[s] # <<>> /\ h \in Msgs
      /\ stdio' = [stdio EXCEPT ![s] = Tail(stdio[s])] /\ printed' = printed
      /\ Flushing(t)
      /\ \/ /\ file[t] = Tty(s)
            /\ tty' = [tty EXCEPT ![s] = Append(tty[s], h)]
            /\ Held' = Held
         \/ /\ file[t] = WriteEnd(npipes)
            /\ tty' = tty
            /\ Held' = Append(Held, h)
  <2>1. /\ stdio' = [stdio EXCEPT ![s] = Tail(stdio[s])] /\ printed' = printed
        /\ Flushing(t)
    BY DEF FlushWrite, Flushing
  <2>2. QED
    BY <2>1, FlushTo, HeldFlush, Kinds DEF Orderly
<1>2. /\ Only(stdio[s], R) = Only(<<h>>, R) \o rest
      /\ Tail(stdio[s]) \in Seq(Msgs)
  BY <1>1, OnlyHead
<1>3. rest \in Seq(Msgs)
  BY <1>2, OnlyType
<1>4. h \in RangeOf(stdio[s])
  BY <1>1, RangeFacts
<1>5. R \subseteq OutMsgs
  BY DEF Orderly, Fresh
<1> HIDE DEF h, rest
<1>6. CASE h \notin R
  <2>1. ASSUME NEW x \in Seq(Msgs) PROVE Only(Append(x, h), R) = Only(x, R)
    BY <1>1, <1>6, OnlyAppend
  <2>2. Only(tty'[STDOUT], R) = Only(tty[STDOUT], R)
    <3>1. tty'[STDOUT] = tty[STDOUT] \/ tty'[STDOUT] = Append(tty[STDOUT], h)
      BY <1>0, <1>1, Kinds
    <3>2. Only(Append(tty[STDOUT], h), R) = Only(tty[STDOUT], R)
      BY <1>0, <2>1
    <3>3. QED
      BY <3>1, <3>2
  <2>3. Only(Held', R) = Only(Held, R)
    <3>1. Only(Append(Held, h), R) = Only(Held, R)
      BY <1>0, <2>1
    <3>2. QED
      BY <1>1, <3>1
  <2>4. Only(stdio'[STDOUT], R) = Only(stdio[STDOUT], R)
    <3>1. CASE s = STDOUT
      <4>1. Only(<<h>>, R) = <<>>
        BY <1>1, <1>6, OnlyOne
      <4>2. <<>> \o rest = rest
        BY <1>3, ConcatEmptySeq
      <4>3. Only(stdio[s], R) = rest
        BY <1>2, <4>1, <4>2
      <4>4. QED
        BY <1>0, <1>1, <3>1, <4>3, Kinds DEF rest
    <3>2. CASE s # STDOUT
      <4>1. stdio'[STDOUT] = stdio[STDOUT]
        BY <1>0, <1>1, <3>2, Kinds
      <4>2. QED
        BY <4>1
    <3>3. QED
      BY <3>1, <3>2
  <2>5. QED
    BY <1>1, <2>2, <2>3, <2>4, PartsSame
<1>7. CASE h \in R
  <2> DEFINE a == Only(tty[STDOUT], R)
             b == Only(Held, R)
  <2>1. s = STDOUT
    <3>1. h \notin ErrMsgs
      BY <1>5, <1>7, MsgsAssumption
    <3>2. s # STDERR
      BY <1>4, <3>1 DEF Orderly, ErrApart
    <3>3. QED
      BY <1>1, <3>2 DEF Streams
  <2>2. a \in Seq(Msgs) /\ b \in Seq(Msgs)
    BY <1>0, OnlyType
  <2>3. Only(stdio[STDOUT], R) = <<h>> \o rest
    BY <1>1, <1>2, <1>7, <2>1, OnlyOne
  <2>4. Only(stdio'[STDOUT], R) = rest
    BY <1>0, <1>1, <2>1, Kinds DEF rest
  <2>5. a \o (b \o (<<h>> \o rest)) = printed
    BY <2>3 DEF InParts
  <2>6. CASE file[t] = WriteEnd(npipes)
    <3>1. tty' = tty /\ Held' = Append(Held, h)
      BY <1>1, <2>6, Kinds
    <3>2. Only(Held', R) = Append(b, h)
      BY <1>0, <1>1, <1>7, <3>1, OnlyAppend
    <3>3. InParts' <=> a \o (Append(b, h) \o rest) = printed
      BY <1>1, <2>4, <3>1, <3>2 DEF InParts
    <3> HIDE DEF a, b
    <3>4. Append(b, h) \o rest = b \o (<<h>> \o rest)
      BY <1>1, <1>3, <2>2, AppendThen
    <3>5. QED
      BY <2>5, <3>3, <3>4
  <2>7. CASE file[t] = Tty(s)
    <3>1. tty'[STDOUT] = Append(tty[STDOUT], h) /\ Held' = Held
      BY <1>0, <1>1, <2>1, <2>7, Kinds
    <3>2. Only(tty'[STDOUT], R) = Append(a, h)
      <4>1. Only(Append(tty[STDOUT], h), R) = Append(a, h)
        BY <1>0, <1>1, <1>7, OnlyAppend
      <4>2. QED
        BY <3>1, <4>1
    <3>3. b = <<>>
      <4>1. Busy(t)
        BY <1>4, <1>7, <2>1 DEF Orderly, Clean
      <4>2. ~capturing[STDOUT]
        BY <1>1, <2>1, <2>7, Kinds DEF Orderly, FileExact
      <4>3. ~Unteed
        BY <4>1, <4>2 DEF Unteed, Busy, OneThread
      <4>4. RangeOf(Held) \cap R = {}
        BY <1>5, <4>3 DEF Orderly, HeldOut
      <4>5. QED
        BY <1>0, <4>4, OnlyNone
    <3>4. InParts' <=> Append(a, h) \o (b \o rest) = printed
      BY <1>1, <2>4, <3>1, <3>2 DEF InParts
    <3> HIDE DEF a, b
    <3>5. <<h>> \in Seq(Msgs) /\ <<h>> \o rest \in Seq(Msgs)
      BY <1>1, <1>3
    <3>6. b \o rest = rest /\ b \o (<<h>> \o rest) = <<h>> \o rest
      BY <1>3, <3>3, <3>5, ConcatEmptySeq
    <3>7. Append(a, h) \o rest = a \o (<<h>> \o rest)
      BY <1>1, <1>3, <2>2, AppendThen
    <3>8. QED
      BY <2>5, <3>4, <3>6, <3>7
  <2>8. QED
    BY <1>1, <2>6, <2>7
<1>8. QED
  BY <1>6, <1>7

LEMMA StepInParts ==
  ASSUME OneAtATime, OneThread, IInv, Orderly, InParts, [Next]_vars
  PROVE  InParts'
<1> DEFINE R == RangeOf(printed)
<1>0. /\ stdio \in [Streams -> Seq(Msgs)] /\ tty \in [Streams -> Seq(Msgs)]
      /\ Held \in Seq(Msgs) /\ tty[STDOUT] \in Seq(Msgs)
      /\ stdio[STDOUT] \in Seq(Msgs)
  BY LastPipeType, Kinds DEF IInv, TypeOK
<1>1. CASE \E t \in Threads : FlushWrite(t)
  BY <1>1, FlushInOrder
<1>2. CASE \E t \in Threads : EndTee(t)
  BY <1>2, TeeInOrder
<1>3. CASE \E t \in Threads, m \in Msgs : Println(t, m)
  BY <1>3, PrintlnInOrder
<1>4. ASSUME NEW t \in Threads, WriteDone(t) PROVE InParts'
  <2>1. PICK m \in Msgs : /\ arg[t].msg = {m}
                          /\ tty' = [tty EXCEPT ![arg[t].stream] = Append(@, m)]
    BY <1>4, WriteShows DEF Orderly
  <2>2. stdio' = stdio /\ printed' = printed /\ pc[t] \in WritePcs
    BY <1>4 DEF WriteDone, WritePcs
  <2>3. m \notin R
    BY <2>1, <2>2 DEF Orderly, Fresh
  <2>4. tty'[STDOUT] = tty[STDOUT] \/ tty'[STDOUT] = Append(tty[STDOUT], m)
    BY <1>0, <2>1, Kinds
  <2>5. Only(Append(tty[STDOUT], m), R) = Only(tty[STDOUT], R)
    BY <1>0, <2>3, OnlyAppend
  <2>6. Held' = Held
    BY <1>4, HeldWrite DEF Orderly
  <2>7. Only(tty'[STDOUT], R) = Only(tty[STDOUT], R)
    BY <2>4, <2>5
  <2>8. QED
    BY <2>2, <2>6, <2>7, PartsSame
<1>5. ASSUME \A t \in Threads : ~FlushWrite(t) /\ ~EndTee(t) /\ ~WriteDone(t),
             \A t \in Threads, m \in Msgs : ~Println(t, m)
      PROVE  InParts'
  <2>1. Held' = Held
    BY <1>5, HeldSteps DEF Orderly
  <2>2. ASSUME NEW t \in Threads, NEW m \in Msgs, LogUnflushed(t, m)
        PROVE  InParts'
    <3>1. /\ m \in unsent /\ printed' = printed /\ tty' = tty
          /\ stdio'[STDOUT] = Append(stdio[STDOUT], m)
      BY <1>0, <2>2, Kinds DEF LogUnflushed
    <3>2. m \notin R
      BY <3>1 DEF Orderly, Fresh, Placed
    <3>3. Only(Append(stdio[STDOUT], m), R) = Only(stdio[STDOUT], R)
      BY <1>0, <3>2, OnlyAppend
    <3>4. QED
      BY <2>1, <3>1, <3>3, PartsSame
  <2>3. ASSUME printed' = printed, tty' = tty, stdio'[STDOUT] = stdio[STDOUT]
        PROVE  InParts'
    BY <2>1, <2>3, PartsSame
  <2>4. ASSUME NEW t \in Threads, Continue(t) PROVE InParts'
    <3>1. printed' = printed /\ tty' = tty /\ stdio' = stdio
      BY <1>5, <2>4
      DEF Continue, FlushEnter, FlushDone, BeginDup, BeginDupFails,
          BeginRedirect, BeginDone, EndRestore, EndFlushStderr, EndRead,
          EndReadDone, EndDone, WriteResolve, ghostVars
    <3>2. QED
      BY <2>3, <3>1
  <2>5. ASSUME NEW t \in Threads, NEW m \in Msgs, Eprintln(t, m) PROVE InParts'
    <3>1. printed' = printed /\ tty' = tty /\ stdio'[STDOUT] = stdio[STDOUT]
      BY <1>0, <2>5, Kinds DEF Eprintln
    <3>2. QED
      BY <2>3, <3>1
  <2>6. ASSUME NEW t \in Threads,
               \/ EndIdle(t) \/ EndEnter(t) \/ Peek(t)
               \/ \E s \in Streams : BeginRefused(t, s) \/ BeginPipe(t, s)
               \/ \E s \in Streams, m \in Msgs : WriteCall(t, s, m)
        PROVE  InParts'
    <3>1. printed' = printed /\ tty' = tty /\ stdio' = stdio
      BY <2>6
      DEF EndIdle, EndEnter, Peek, BeginRefused, BeginPipe, WriteCall, vars, ghostVars
    <3>2. QED
      BY <2>3, <3>1
  <2>7. CASE OpenOther \/ CloseOther \/ UNCHANGED vars
    <3>1. printed' = printed /\ tty' = tty /\ stdio' = stdio
      BY <2>7 DEF OpenOther, CloseOther, vars, ghostVars
    <3>2. QED
      BY <2>3, <3>1
  <2>8. QED
    BY <1>5, <2>2, <2>4, <2>5, <2>6, <2>7 DEF Next, Call
<1>6. QED
  BY <1>1, <1>2, <1>3, <1>4, <1>5

LEMMA InitOrderly == Init => Orderly /\ InParts
<1>1. SUFFICES ASSUME Init PROVE Orderly /\ InParts
  OBVIOUS
<1>2. /\ \A t \in Threads : pc[t] = "idle"
      /\ tty[STDOUT] = <<>> /\ stdio[STDOUT] = <<>> /\ stdio[STDERR] = <<>>
      /\ printed = <<>> /\ \A p \in Pipes : pipe[p] = <<>>
  BY <1>1, Kinds DEF Init
<1>3. Held = <<>>
  <2>1. ~BufferHeld
    BY <1>1 DEF Init, BufferHeld, IsActive
  <2>2. Held = <<>> \o <<>>
    BY <1>1, <2>1 DEF Init, Held
  <2>3. QED
    BY <2>2, SeqFacts, ConcatEmptySeq
<1>4. /\ RangeOf(tty[STDOUT]) = {} /\ RangeOf(stdio[STDOUT]) = {}
      /\ RangeOf(stdio[STDERR]) = {} /\ RangeOf(printed) = {} /\ RangeOf(Held) = {}
  BY <1>2, <1>3, RangeFacts, Zenon
<1>5. Orderly
  BY <1>2, <1>4
  DEF Orderly, FilesKnown, PipesEmpty, ErrApart, Terminals, FileExact, HeldOut,
      Clean, Fresh, Placed, Flushing, WritePcs, EndPcs
<1>6. InParts
  <2>1. \A S : Only(<<>>, S) = <<>>
    BY OnlyEmpty
  <2>2. InParts <=> <<>> \o (<<>> \o <<>>) = <<>>
    BY <1>2, <1>3, <2>1 DEF InParts
  <2>3. <<>> \o <<>> = <<>>
    BY SeqFacts, ConcatEmptySeq
  <2>4. QED
    BY <2>2, <2>3
<1>7. QED
  BY <1>5, <1>6

\* In a program of one thread the printed texts reach the terminal in the order
\* they were printed, through any sequence of captures, Peeks and refused calls,
\* and no other text changes that.
THEOREM PrintsInOrder ==
  ASSUME OneAtATime, OneThread
  PROVE  Spec => []InPrintOrder
<1>1. Orderly /\ InParts /\ IInv /\ [Next]_vars => (Orderly /\ InParts)'
  <2>1. SUFFICES ASSUME Orderly, InParts, IInv, [Next]_vars
                 PROVE  (Orderly /\ InParts)'
    OBVIOUS
  <2>2. \A t \in Threads : WriteDone(t) => pipe' = pipe
    BY <2>1, WriteShows DEF Orderly
  <2>3. FilesKnown' /\ PipesEmpty' /\ ErrApart'
    BY <2>1, <2>2, StepFilesKnown, StepPipesEmpty, StepErrApart DEF Orderly
  <2>4. Terminals' /\ FileExact'
    BY <2>1, StepTerminals, StepFileExact DEF Orderly
  <2>5. HeldOut' /\ Clean' /\ Fresh'
    BY <2>1, StepHeldOut, StepClean, StepFresh
  <2>6. InParts'
    BY <2>1, StepInParts
  <2>7. QED
    BY <2>3, <2>4, <2>5, <2>6 DEF Orderly
<1>2. IInv /\ InParts => InPrintOrder
  BY PartsOfOrder
<1>3. QED
  BY <1>1, <1>2, InitOrderly, InvariantIInv, PTL DEF Spec

=============================================================================
