--------------------------- MODULE ServicesProofs ---------------------------
(***************************************************************************)
(* What Services promises, for any threads and any number of calls: the    *)
(* types, that nothing is used before it is made, and that all database    *)
(* calls of a process get one verdict.                                     *)
(***************************************************************************)
EXTENDS Services, TLAPS

\* A thread that is inside a function is the one its flag names, and a thread
\* that is past a flag finds it done.
Inside ==
  \A t \in Threads :
    /\ pc[t] = "connect" => flag["db"] = t
    /\ pc[t] = "haveDb" => flag["db"] = Done
    /\ pc[t] \in {"makeManager", "work"} => conn
    /\ pc[t] = "work" /\ op[t] = "snapshot" => manager
    /\ pc[t] = "makeLogger" => flag["log"] = t
    /\ pc[t] = "write" => flag["log"] = Done

\* What a flag that is done has left behind.
Made ==
  /\ conn => flag["db"] = Done
  /\ flag["snap"] = Done => conn /\ manager
  /\ flag["log"] = Done => logger # "none"

\* What the calls were told agrees with the connection as it is now.
ToldRight ==
  /\ "refused" \in told => flag["db"] = Done /\ ~conn
  /\ told \cap {"served", "failed", "connected"} # {} => conn

IInv == TypeOK /\ Inside /\ Made /\ ToldRight

\* A process starts in the invariant.
LEMMA InitIInv == Init => IInv
<1> SUFFICES ASSUME Init PROVE IInv
  OBVIOUS
<1> USE ThreadsAssumption DEF Init, NoFlags, AllIdle, NoOps, NoCalls, Flags, Free, Done
<1>1. TypeOK
  <2>1. flag \in [Flags -> Threads \cup {Free, Done}]
    OBVIOUS
  <2>2. pc \in [Threads -> Places] /\ op \in [Threads -> Ops]
    BY DEF Ops, Places
  <2>3. calls \in [Threads -> 0 .. MaxCalls]
    BY MaxCallsAssumption
  <2> QED BY <2>1, <2>2, <2>3 DEF TypeOK
<1>2. Inside BY DEF Inside
<1>3. Made BY DEF Made
<1>4. ToldRight BY DEF ToldRight
<1> QED BY <1>1, <1>2, <1>3, <1>4 DEF IInv

\* Each step of a call keeps the types.
LEMMA StepTyped ==
  ASSUME IInv, NEW t \in Threads, Step(t) PROVE TypeOK'
<1> USE DEF IInv, TypeOK, Calling, End, RunOnce, PassOnce, Returned, Thrown,
            Flags, Ops, Places, Verdicts, Loggers, Free, Done
<1>1. CASE EnterSnap(t)
  <2>1. flag' \in [Flags -> Threads \cup {Free, Done}] BY <1>1 DEF EnterSnap
  <2>2. pc' \in [Threads -> Places] BY <1>1 DEF EnterSnap
  <2> QED BY <1>1, <2>1, <2>2 DEF EnterSnap
<1>2. CASE EnterDb(t)
  <2>1. flag' \in [Flags -> Threads \cup {Free, Done}] BY <1>2 DEF EnterDb
  <2>2. pc' \in [Threads -> Places] BY <1>2 DEF EnterDb
  <2> QED BY <1>2, <2>1, <2>2 DEF EnterDb
<1>3. CASE InitializeDatabase(t) BY <1>3 DEF InitializeDatabase
<1>4. CASE IsConnected(t) BY <1>4 DEF IsConnected
<1>5. CASE Refuse(t) BY <1>5 DEF Refuse
<1>6. CASE Require(t) BY <1>6 DEF Require
<1>7. CASE MakeManager(t)
  <2>1. flag' = [flag EXCEPT !["snap"] = Done] \/ flag' = [flag EXCEPT !["snap"] = Free]
    BY <1>7 DEF MakeManager
  <2>2. flag' \in [Flags -> Threads \cup {Free, Done}] BY <2>1
  <2>3. pc' = [pc EXCEPT ![t] = "work"] \/ pc' = [pc EXCEPT ![t] = "idle"]
    BY <1>7 DEF MakeManager
  <2>4. pc' \in [Threads -> Places] BY <2>3
  <2>5. manager' \in BOOLEAN /\ told' \subseteq Verdicts BY <1>7 DEF MakeManager
  <2> QED BY <1>7, <2>2, <2>4, <2>5 DEF MakeManager
<1>8. CASE Work(t) BY <1>8 DEF Work
<1>9. CASE EnterLog(t)
  <2>1. flag' \in [Flags -> Threads \cup {Free, Done}]
    <3>1. flag' = [flag EXCEPT !["log"] = t] \/ flag' = flag BY <1>9 DEF EnterLog
    <3> QED BY <3>1
  <2>2. pc' \in [Threads -> Places] BY <1>9 DEF EnterLog
  <2> QED BY <1>9, <2>1, <2>2 DEF EnterLog
<1>10. CASE InitializeLogger(t) BY <1>10 DEF InitializeLogger
<1>11. CASE Write(t)
  <2>1. logger \in Loggers BY <1>11, ThreadsAssumption DEF Write, Inside, Made
  <2> QED BY <1>11, <2>1 DEF Write
<1> QED
  BY <1>1, <1>2, <1>3, <1>4, <1>5, <1>6, <1>7, <1>8, <1>9, <1>10, <1>11 DEF Step

\* Each step of a call keeps every thread on its side of the flags.
LEMMA StepInside ==
  ASSUME IInv, NEW t \in Threads, Step(t) PROVE Inside'
<1> USE ThreadsAssumption
    DEF IInv, TypeOK, Inside, Made, Calling, End, RunOnce, PassOnce, Returned, Thrown, Flags,
        Places, Free, Done
<1>1. CASE EnterSnap(t) BY <1>1 DEF EnterSnap
<1>2. CASE EnterDb(t) BY <1>2 DEF EnterDb
<1>3. CASE InitializeDatabase(t)
  \* No connection was there, so no thread was at work.
  <2>1. ~conn BY <1>3 DEF InitializeDatabase
  <2> QED BY <1>3, <2>1 DEF InitializeDatabase
<1>4. CASE IsConnected(t) BY <1>4 DEF IsConnected
<1>5. CASE Refuse(t) BY <1>5 DEF Refuse
<1>6. CASE Require(t) BY <1>6 DEF Require
<1>7. CASE MakeManager(t) BY <1>7 DEF MakeManager
<1>8. CASE Work(t) BY <1>8 DEF Work
<1>9. CASE EnterLog(t) BY <1>9 DEF EnterLog
<1>10. CASE InitializeLogger(t) BY <1>10 DEF InitializeLogger
<1>11. CASE Write(t) BY <1>11 DEF Write
<1> QED
  BY <1>1, <1>2, <1>3, <1>4, <1>5, <1>6, <1>7, <1>8, <1>9, <1>10, <1>11 DEF Step

\* Each step of a call keeps what the flags stand for, and what was told.
LEMMA StepMadeTold ==
  ASSUME IInv, NEW t \in Threads, Step(t) PROVE Made' /\ ToldRight'
<1> USE ThreadsAssumption
    DEF IInv, TypeOK, Inside, Made, ToldRight, Calling, End, RunOnce, PassOnce, Returned,
        Thrown, Flags, Loggers, Free, Done
<1>1. CASE EnterSnap(t) BY <1>1 DEF EnterSnap
<1>2. CASE EnterDb(t) BY <1>2 DEF EnterDb
<1>3. CASE InitializeDatabase(t)
  \* The connection is made once: nobody has been told anything of it yet.
  <2>1. ~conn /\ flag["db"] # Done BY <1>3 DEF InitializeDatabase
  <2> QED BY <1>3, <2>1 DEF InitializeDatabase
<1>4. CASE IsConnected(t)
  <2>1. told' = told \cup {"not connected"} \/ (conn /\ told' = told \cup {"connected"})
    BY <1>4 DEF IsConnected
  <2>2. UNCHANGED <<flag, conn, manager, logger>> BY <1>4 DEF IsConnected
  <2>3. CASE told' = told \cup {"not connected"}
    <3>1. told' \cap {"served", "failed", "connected"}
            = told \cap {"served", "failed", "connected"}
      BY <2>3
    <3>2. "refused" \in told' <=> "refused" \in told BY <2>3
    <3> QED BY <2>2, <3>1, <3>2
  <2>4. CASE conn /\ told' = told \cup {"connected"} BY <2>2, <2>4
  <2> QED BY <2>1, <2>3, <2>4
<1>5. CASE Refuse(t) BY <1>5 DEF Refuse
<1>6. CASE Require(t) BY <1>6 DEF Require
<1>7. CASE MakeManager(t) BY <1>7 DEF MakeManager
<1>8. CASE Work(t)
  <2>1. told' = told \cup {"failed"} \/ told' = told \cup {"served"}
    BY <1>8 DEF Work
  <2> QED BY <1>8, <2>1 DEF Work
<1>9. CASE EnterLog(t) BY <1>9 DEF EnterLog
<1>10. CASE InitializeLogger(t) BY <1>10 DEF InitializeLogger
<1>11. CASE Write(t)
  <2>1. logger \in Loggers BY <1>11 DEF Write
  <2> QED BY <1>11, <2>1 DEF Write
<1> QED
  BY <1>1, <1>2, <1>3, <1>4, <1>5, <1>6, <1>7, <1>8, <1>9, <1>10, <1>11 DEF Step

\* Every step of a call, the server or the process keeps it.
LEMMA NextIInv == IInv /\ [Next]_vars => IInv'
<1> SUFFICES ASSUME IInv, [Next]_vars PROVE IInv'
  OBVIOUS
<1>1. ASSUME NEW t \in Threads, Step(t) PROVE IInv'
  BY <1>1, StepTyped, StepInside, StepMadeTold DEF IInv
<1>2. ASSUME NEW t \in Threads, NEW o \in Ops, Begin(t, o) PROVE IInv'
  BY <1>2, MaxCallsAssumption
  DEF Begin, IInv, TypeOK, Inside, Made, ToldRight, Ops, Places
<1>3. CASE ServerTurns
  BY <1>3 DEF ServerTurns, IInv, TypeOK, Inside, Made, ToldRight
<1>4. CASE Restart
  <2> USE <1>4, ThreadsAssumption
      DEF Restart, NoFlags, AllIdle, NoOps, NoCalls, Flags, Free, Done
  <2>1. flag' \in [Flags -> Threads \cup {Free, Done}]
    OBVIOUS
  <2>2. pc' \in [Threads -> Places] /\ op' \in [Threads -> Ops]
    BY DEF Ops, Places
  <2>3. calls' \in [Threads -> 0 .. MaxCalls]
    BY MaxCallsAssumption
  <2>4. TypeOK' BY <2>1, <2>2, <2>3 DEF IInv, TypeOK
  <2>5. Inside' BY DEF Inside
  <2>6. Made' /\ ToldRight' BY DEF Made, ToldRight
  <2> QED BY <2>4, <2>5, <2>6 DEF IInv
<1>5. CASE UNCHANGED vars
  BY <1>5 DEF vars, IInv, TypeOK, Inside, Made, ToldRight
<1> QED BY <1>1, <1>2, <1>3, <1>4, <1>5 DEF Next

\* The flags, the connection, the logger and the threads have their types, for
\* any threads and any number of calls.
THEOREM ServicesTyped == Spec => []TypeOK
<1>1. IInv => TypeOK BY DEF IInv
<1> QED BY InitIInv, NextIInv, <1>1, PTL DEF Spec

\* No thread gets past a once_flag to a connection, a snapshot manager or a
\* logger that is not there, whichever of their constructors threw.
THEOREM MadeBeforeUse == Spec => []UsedWhenMade
<1>1. IInv => UsedWhenMade
  BY ThreadsAssumption DEF IInv, Inside, Made, UsedWhenMade
<1> QED BY InitIInv, NextIInv, <1>1, PTL DEF Spec

\* In one life of a process its database calls are all refused for want of a
\* connection, or none is.
THEOREM VerdictIsOne == Spec => []OneVerdict
<1>1. IInv => OneVerdict
  BY DEF IInv, ToldRight, OneVerdict
<1> QED BY InitIInv, NextIInv, <1>1, PTL DEF Spec
=============================================================================
