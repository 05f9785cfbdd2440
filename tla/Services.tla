------------------------------ MODULE Services ------------------------------
(***************************************************************************)
(* What a process makes once for all its threads: the database connection, *)
(* the snapshot manager on top of it, and the logger.  Each is made by the *)
(* first call that needs it, under std::call_once, from the environment    *)
(* the process was started with, while the database server goes down and   *)
(* comes back and the process may be stopped and started again.            *)
(*                                                                         *)
(* std::call_once is modelled by what the standard says: one thread runs   *)
(* the function, the others wait; a function that returns is never run     *)
(* again, and one that throws leaves the flag as it was.                   *)
(***************************************************************************)
EXTENDS Naturals, FiniteSets

CONSTANTS
  Threads,
  MaxCalls   \* bound: the calls of a thread in one life of the process

ASSUME MaxCallsAssumption == MaxCalls \in Nat

VARIABLES
  env,     \* the environment: is the URL set, and what is LOG_FILE
  server,  \* is the database server up
  flag,    \* of each once_flag: Free, the thread in it, or Done
  conn,    \* g_db_conn: is there a connection
  manager, \* g_snapshot_mgr: is there a snapshot manager
  logger,  \* g_logger: the kind of logger there is, or "none"
  pc,      \* where each thread is
  op,      \* the call it makes
  calls,   \* the calls it has made in this life
  told     \* history: how the calls of this life ended

vars == <<env, server, flag, conn, manager, logger, pc, op, calls, told>>

Environments == [url : BOOLEAN, logFile : {"unset", "writable", "bad"}]
Flags == {"db", "snap", "log"}
Loggers == {"file", "console", "fallback"}
Ops == {"database", "snapshot", "isConnected", "log"}
Places == {"idle", "enterSnap", "enterDb", "connect", "haveDb", "makeManager", "work",
           "enterLog", "makeLogger", "write"}
Verdicts == {"refused", "failed", "served", "connected", "not connected"} \cup Loggers

Free == "nobody"
Done == "done"

ASSUME ThreadsAssumption == Free \notin Threads /\ Done \notin Threads

\* A process as it starts.
NoFlags == [f \in Flags |-> Free]
AllIdle == [t \in Threads |-> "idle"]
NoOps == [t \in Threads |-> "log"]
NoCalls == [t \in Threads |-> 0]

Init ==
  /\ env \in Environments /\ server \in BOOLEAN
  /\ flag = NoFlags /\ conn = FALSE /\ manager = FALSE /\ logger = "none"
  /\ pc = AllIdle /\ op = NoOps /\ calls = NoCalls /\ told = {}

-----------------------------------------------------------------------------
(* std::call_once.                                                         *)

\* The flag lets t in to run the function, or past it.
RunOnce(f, t, run) ==
  flag[f] = Free /\ flag' = [flag EXCEPT ![f] = t] /\ pc' = [pc EXCEPT ![t] = run]
PassOnce(f, t, past) ==
  flag[f] = Done /\ pc' = [pc EXCEPT ![t] = past] /\ UNCHANGED flag
\* Were an exception to leave the flag taken.
Thrown_KeepsFlag(f) == flag
\* The function of f threw: the next caller runs it again.
Thrown(f) == [flag EXCEPT ![f] = Free]
Returned(f) == [flag EXCEPT ![f] = Done]

-----------------------------------------------------------------------------
(* The calls.                                                              *)

Begin(t, o) ==
  /\ pc[t] = "idle" /\ calls[t] < MaxCalls
  /\ calls' = [calls EXCEPT ![t] = @ + 1]
  /\ op' = [op EXCEPT ![t] = o]
  /\ pc' = [pc EXCEPT ![t] = CASE o = "snapshot" -> "enterSnap"
                               [] o = "log" -> "enterLog"
                               [] OTHER -> "enterDb"]
  /\ UNCHANGED <<env, server, flag, conn, manager, logger, told>>

End(t, verdict) ==
  /\ pc' = [pc EXCEPT ![t] = "idle"]
  /\ told' = told \cup {verdict}

Calling == UNCHANGED <<env, server, op, calls>>

\* get_global_snapshot_manager
EnterSnap(t) ==
  /\ pc[t] = "enterSnap"
  /\ RunOnce("snap", t, "enterDb") \/ PassOnce("snap", t, "work")
  /\ Calling /\ UNCHANGED <<conn, manager, logger, told>>

\* get_global_database
EnterDb(t) ==
  /\ pc[t] = "enterDb"
  /\ RunOnce("db", t, "connect") \/ PassOnce("db", t, "haveDb")
  /\ Calling /\ UNCHANGED <<conn, manager, logger, told>>

\* Were a failed connection to be tried again by the next call.
InitializeDatabase_Retried(t) ==
  /\ pc[t] = "connect"
  /\ conn' \in IF env.url THEN BOOLEAN ELSE {FALSE}
  /\ flag' = IF conn' THEN Returned("db") ELSE Thrown("db")
  /\ pc' = [pc EXCEPT ![t] = "haveDb"]
  /\ Calling /\ UNCHANGED <<manager, logger, told>>

\* initialize_database: the constructor may throw, for a server that is down or
\* a wrong URL; the exception is swallowed, and the flag is done.
InitializeDatabase(t) ==
  /\ pc[t] = "connect"
  /\ conn' \in IF env.url THEN BOOLEAN ELSE {FALSE}
  /\ flag' = Returned("db")
  /\ pc' = [pc EXCEPT ![t] = "haveDb"]
  /\ Calling /\ UNCHANGED <<manager, logger, told>>

\* IsConnected answers and never throws; what the library says of a connection
\* whose server went down, or came back, is its own business.
IsConnected(t) ==
  /\ pc[t] = "haveDb" /\ op[t] = "isConnected"
  /\ End(t, "not connected") \/ (conn /\ End(t, "connected"))
  /\ Calling /\ UNCHANGED <<flag, conn, manager, logger>>

\* require_database throws; from the snapshot manager's function, out of it too.
Refuse(t) ==
  /\ pc[t] = "haveDb" /\ op[t] \in {"database", "snapshot"} /\ ~conn
  /\ flag' = IF op[t] = "snapshot" THEN Thrown("snap") ELSE flag
  /\ End(t, "refused")
  /\ Calling /\ UNCHANGED <<conn, manager, logger>>

\* require_database returns.
Require(t) ==
  /\ pc[t] = "haveDb" /\ op[t] \in {"database", "snapshot"} /\ conn
  /\ pc' = [pc EXCEPT ![t] = IF op[t] = "snapshot" THEN "makeManager" ELSE "work"]
  /\ Calling /\ UNCHANGED <<flag, conn, manager, logger, told>>

\* Were the constructor's exception swallowed, as the connection's is.
MakeManager_Swallowed(t) ==
  /\ pc[t] = "makeManager"
  /\ manager' \in BOOLEAN
  /\ flag' = Returned("snap")
  /\ pc' = [pc EXCEPT ![t] = "work"]
  /\ Calling /\ UNCHANGED <<conn, logger, told>>

\* The manager over the connection that was required.  Its constructor may
\* throw; the call fails, and the flag and the manager are as they were.
MakeManager(t) ==
  /\ pc[t] = "makeManager"
  /\ \/ /\ manager' = TRUE /\ flag' = Returned("snap")
        /\ pc' = [pc EXCEPT ![t] = "work"] /\ UNCHANGED told
     \/ flag' = Thrown("snap") /\ End(t, "failed") /\ UNCHANGED manager
  /\ Calling /\ UNCHANGED <<conn, logger>>

\* The query itself may throw, and without the server it does.
Work(t) ==
  /\ pc[t] = "work"
  /\ End(t, "failed") \/ (server /\ End(t, "served"))
  /\ Calling /\ UNCHANGED <<flag, conn, manager, logger>>

\* get_logger_internal
EnterLog(t) ==
  /\ pc[t] = "enterLog"
  /\ RunOnce("log", t, "makeLogger") \/ PassOnce("log", t, "write")
  /\ Calling /\ UNCHANGED <<conn, manager, logger, told>>

\* Were there no fallback.
InitializeLogger_NoFallback(t) ==
  /\ pc[t] = "makeLogger"
  /\ logger' = CASE env.logFile = "writable" -> "file"
                 [] env.logFile = "bad" -> "none"
                 [] OTHER -> "console"
  /\ flag' = Returned("log")
  /\ pc' = [pc EXCEPT ![t] = "write"]
  /\ Calling /\ UNCHANGED <<conn, manager, told>>

\* initialize_logger: a file that cannot be opened gives the fallback.
InitializeLogger(t) ==
  /\ pc[t] = "makeLogger"
  /\ logger' = CASE env.logFile = "writable" -> "file"
                 [] env.logFile = "bad" -> "fallback"
                 [] OTHER -> "console"
  /\ flag' = Returned("log")
  /\ pc' = [pc EXCEPT ![t] = "write"]
  /\ Calling /\ UNCHANGED <<conn, manager, told>>

\* Info, Debug, Warn, Err.
Write(t) ==
  /\ pc[t] = "write"
  /\ End(t, logger)
  /\ Calling /\ UNCHANGED <<flag, conn, manager, logger>>

-----------------------------------------------------------------------------
\* The server goes down or comes back.
ServerTurns == server' = ~server /\ UNCHANGED <<env, flag, conn, manager, logger, pc, op, calls, told>>

\* The process is stopped, whatever its threads do, and started again, perhaps
\* in another environment.
Restart ==
  /\ env' \in Environments
  /\ flag' = NoFlags /\ conn' = FALSE /\ manager' = FALSE /\ logger' = "none"
  /\ pc' = AllIdle /\ op' = NoOps /\ calls' = NoCalls /\ told' = {}
  /\ UNCHANGED server

Step(t) ==
  \/ EnterSnap(t) \/ EnterDb(t) \/ InitializeDatabase(t) \/ IsConnected(t) \/ Refuse(t)
  \/ Require(t) \/ MakeManager(t) \/ Work(t)
  \/ EnterLog(t) \/ InitializeLogger(t) \/ Write(t)

Next ==
  \/ \E t \in Threads : Step(t) \/ \E o \in Ops : Begin(t, o)
  \/ ServerTurns
  \/ Restart

Spec == Init /\ [][Next]_vars
FairSpec == Spec /\ \A t \in Threads : WF_vars(Step(t))

-----------------------------------------------------------------------------
TypeOK ==
  /\ env \in Environments /\ server \in BOOLEAN
  /\ flag \in [Flags -> Threads \cup {Free, Done}]
  /\ conn \in BOOLEAN /\ manager \in BOOLEAN /\ logger \in Loggers \cup {"none"}
  /\ pc \in [Threads -> Places] /\ op \in [Threads -> Ops]
  /\ calls \in [Threads -> 0 .. MaxCalls]
  /\ told \subseteq Verdicts

\* In one life of the process, either every database call is refused for want
\* of a connection or none is: a script cannot lose, or gain, the database
\* half way, whatever the server does meanwhile.
OneVerdict == "refused" \in told => told \cap {"served", "failed", "connected"} = {}

\* No thread is past a flag to something that was never made, whatever threw on
\* the way: a query, and the manager's constructor, have a connection, an export
\* or import has the manager, and a line has a logger.
UsedWhenMade ==
  \A t \in Threads :
    /\ pc[t] \in {"makeManager", "work"} => conn
    /\ pc[t] = "work" /\ op[t] = "snapshot" => manager
    /\ pc[t] = "write" => logger # "none"

\* Every call ends, the process being restarted or not: the call_once of the
\* manager, which needs the connection's inside it, never blocks for good.
CallsEnd == \A t \in Threads : pc[t] # "idle" ~> pc[t] = "idle"
=============================================================================
