------------------------------ MODULE WebRuntime ------------------------------
(***************************************************************************)
(* One supervised business worker: the registry of UIState behind the      *)
(* admission gate, the worker's main thread (run_worker), its HTTP server  *)
(* and the handler threads of the supervisor's control commands            *)
(* (managed_worker.py, runtime_session.py, runtime_lifecycle.py).          *)
(*                                                                         *)
(* The main thread and the handlers use the registry as the request        *)
(* threads do, to restore and to close connections, but hold no lease.     *)
(***************************************************************************)
EXTENDS UIState, RuntimeGate, FiniteSets

CONSTANTS
  MainThread,   (* the main thread of the worker process                    *)
  Commands,     (* handler threads of control commands                      *)
  Restorable,   (* connections whose target outlives the process            *)
  Serial        (* the supervisor sends one command at a time (see README)  *)

Closers == Commands \cup {MainThread}
Clients == Requests \ Closers

ASSUME RuntimeAssumption ==
  /\ Closers \subseteq Requests
  /\ MainThread \notin Commands
  /\ Restorable \subseteq Conns
  /\ Serial \in BOOLEAN
  /\ IsFiniteSet(Requests)
  /\ IsFiniteSet(Jobs)

VARIABLES
  phase,      (* where each of the Closers is                               *)
  todo,       (* connections its restore_session or close_session has left  *)
  http,       (* the HTTP server: "down", "up" or "stopping"                *)
  exiting,    (* server.should_exit                                         *)
  connected,  (* the control channel to the supervisor is open              *)
  released,   (* background jobs whose thread has given its lease back      *)
  exported    (* the session handed to the supervisor and not resumed since *)

process == <<phase, todo, http, exiting, connected, released, exported>>
runtimeVars == <<vars, gate, process>>

MainPhases    == {"restore", "serve", "drain", "list", "close", "join", "exited", "failed"}
HandlerPhases == {"idle", "prepare", "resume", "shutdown", "export", "undo", "list", "close"}

RuntimeTypeOK ==
  /\ TypeOK
  /\ GateTypeOK
  /\ phase \in [Closers -> MainPhases \cup HandlerPhases]
  /\ todo \in [Closers -> SUBSET Conns]
  /\ http \in {"down", "up", "stopping"}
  /\ exiting \in BOOLEAN
  /\ connected \in BOOLEAN
  /\ released \subseteq Jobs
  /\ exported \subseteq SUBSET Conns

\* The session passed to the new worker holds what an earlier one exported.
RuntimeInit ==
  /\ Init
  /\ GateInit
  /\ phase = [t \in Closers |-> IF t = MainThread THEN "restore" ELSE "idle"]
  /\ \E session \in SUBSET Restorable :
       todo = [t \in Closers |-> IF t = MainThread THEN session ELSE {}]
  /\ http = "down"
  /\ exiting = FALSE
  /\ connected = TRUE
  /\ released = {}
  /\ exported = {}

Live == {c \in Conns : conn[c] = "live"}
Step(t, label) == phase' = [phase EXCEPT ![t] = label]
Resting(t) == req[t].pc = "idle"

-----------------------------------------------------------------------------
(* Requests and jobs, with the leases they hold.                           *)

\* RuntimeAdmissionMiddleware.  A refused request changes nothing.
AdmitRequest(r, op, c) ==
  /\ http = "up"
  /\ Acquire("requests")
  /\ Arrive(r, op, c)
  /\ UNCHANGED process

ServeRequest(r) ==
  /\ RequestStep(r) \/ StartFails(r)
  /\ UNCHANGED <<gate, process>>

\* start_background reserves the lease before the thread exists; a closed
\* gate is one of the failures of StartFails.
Launch(r) ==
  /\ StartWorker(r)
  /\ Acquire("background_jobs")
  /\ UNCHANGED process

FinishRequest(r) ==
  /\ Return(r)
  /\ Release("requests")
  /\ UNCHANGED process

RunWorker(j) ==
  /\ WorkerStep(j) \/ JobCompletion(j)
  /\ UNCHANGED <<gate, process>>

\* Queries of any thread, those of a restored connection included.
RunQuery ==
  /\ (\E r \in Requests : Query(r)) \/ (\E j \in Jobs : WorkerQuery(j))
  /\ UNCHANGED <<gate, process>>

\* The lease outlives the job: run() releases it when the target has returned,
\* and not, by mistake, as soon as the thread has started.
ReleaseLeaseAtStart(j) ==
  /\ wrk[j] # "none" /\ j \notin released
  /\ Release("background_jobs")
  /\ released' = released \cup {j}
  /\ UNCHANGED <<vars, phase, todo, http, exiting, connected, exported>>

ReleaseLease(j) ==
  /\ wrk[j] = "exited" /\ j \notin released
  /\ Release("background_jobs")
  /\ released' = released \cup {j}
  /\ UNCHANGED <<vars, phase, todo, http, exiting, connected, exported>>

-----------------------------------------------------------------------------
(* The main thread: run_worker.                                            *)

\* restore_session registers and opens the connections of the last worker,
\* one after the other; _restore_connection unregisters one it cannot open.
RestoreConnection(c) ==
  /\ phase[MainThread] = "restore" /\ c \in todo[MainThread]
  /\ Arrive(MainThread, "connect", c)
  /\ todo' = [todo EXCEPT ![MainThread] = @ \ {c}]
  /\ UNCHANGED <<gate, phase, http, exiting, connected, released, exported>>

\* The registry calls of a thread of the runtime itself.
UseRegistry(t) ==
  /\ phase[t] = "restore" \/ req[t].pc # "arrived"
  /\ Register(t) \/ FinishUse(t) \/ CloseBegin(t) \/ Dispose(t) \/ Return(t)
  /\ UNCHANGED <<gate, process>>

StartServing ==
  /\ phase[MainThread] = "restore" /\ Resting(MainThread) /\ todo[MainThread] = {}
  /\ Step(MainThread, "serve")
  /\ http' = "up"
  /\ UNCHANGED <<vars, gate, todo, exiting, connected, released, exported>>

\* Startup failed, or the HTTP thread ended, or the channel was closed:
\* _drain_worker_runtime first closes admission.
BeginDrain ==
  /\ \/ phase[MainThread] = "restore" /\ Resting(MainThread)
     \/ phase[MainThread] = "serve" /\ (http = "down" \/ ~connected)
  /\ Step(MainThread, "drain")
  /\ CloseAdmission
  /\ UNCHANGED <<vars, todo, http, exiting, connected, released, exported>>

\* A mistake: the drain does not wait.
DrainAtOnce ==
  /\ phase[MainThread] = "drain"
  /\ Step(MainThread, "list")
  /\ UNCHANGED <<vars, gate, todo, http, exiting, connected, released, exported>>

Drained ==
  /\ phase[MainThread] = "drain" /\ Idle
  /\ Step(MainThread, "list")
  /\ UNCHANGED <<vars, gate, todo, http, exiting, connected, released, exported>>

Exit ==
  /\ phase[MainThread] = "join" /\ http = "down"
  /\ Step(MainThread, "exited")
  /\ connected' = FALSE
  /\ UNCHANGED <<vars, gate, todo, http, exiting, released, exported>>

-----------------------------------------------------------------------------
(* close_session, called by the main thread and by a shutdown command.     *)

ListConnections(t) ==
  /\ phase[t] = "list"
  /\ todo' = [todo EXCEPT ![t] = Live]
  /\ Step(t, "close")
  /\ UNCHANGED <<vars, gate, http, exiting, connected, released, exported>>

CloseNext(t, c) ==
  /\ phase[t] = "close" /\ c \in todo[t]
  /\ Arrive(t, "close", c)
  /\ todo' = [todo EXCEPT ![t] = @ \ {c}]
  /\ UNCHANGED <<gate, phase, http, exiting, connected, released, exported>>

\* A busy connection raises: the handler answers with the error, but on the
\* main thread the drain is abandoned and the server never told to exit.
CloseRefused(c) == conn[c] = "live" /\ ~CloseAdmissible(c)

CloseOne(t) ==
  /\ phase[t] = "close"
  /\ CloseBegin(t)
  /\ IF CloseRefused(req[t].conn)
     THEN /\ Step(t, IF t = MainThread THEN "failed" ELSE "idle")
          /\ todo' = [todo EXCEPT ![t] = {}]
     ELSE UNCHANGED <<phase, todo>>
  /\ UNCHANGED <<gate, http, exiting, connected, released, exported>>

\* A mistake: the drain leaves the server running.
SessionClosedQuietly(t) ==
  /\ phase[t] = "close" /\ todo[t] = {} /\ Resting(t)
  /\ Step(t, IF t = MainThread THEN "join" ELSE "idle")
  /\ UNCHANGED <<vars, gate, todo, http, exiting, connected, released, exported>>

SessionClosed(t) ==
  /\ phase[t] = "close" /\ todo[t] = {} /\ Resting(t)
  /\ exiting' = TRUE
  /\ Step(t, IF t = MainThread THEN "join" ELSE "idle")
  /\ UNCHANGED <<vars, gate, todo, http, connected, released, exported>>

-----------------------------------------------------------------------------
(* The HTTP server (uvicorn): should_exit makes it stop listening, finish  *)
(* the requests it has and end.                                            *)

StopListening ==
  /\ exiting /\ http = "up"
  /\ http' = "stopping"
  /\ UNCHANGED <<vars, gate, phase, todo, exiting, connected, released, exported>>

HttpExits ==
  /\ http = "stopping"
  /\ \A r \in Clients : Resting(r)
  /\ http' = "down"
  /\ UNCHANGED <<vars, gate, phase, todo, exiting, connected, released, exported>>

-----------------------------------------------------------------------------
(* The supervisor's commands, each answered by a thread of its own.        *)

\* No command comes before the worker has announced that it is ready.
Dispatch(k, method) ==
  /\ connected /\ phase[k] = "idle" /\ Resting(k)
  /\ http # "down"
  /\ Serial =>
       /\ phase[MainThread] = "serve" /\ ~exiting
       /\ \A i \in Commands : phase[i] = "idle"
  /\ Step(k, method)
  /\ UNCHANGED <<vars, gate, todo, http, exiting, connected, released, exported>>

\* prepare_runtime_session and shutdown; a busy gate answers 409.
PauseForCommand(k) ==
  /\ phase[k] \in {"prepare", "shutdown"}
  /\ \/ /\ PauseIfIdle
        /\ Step(k, IF phase[k] = "prepare" THEN "export" ELSE "list")
     \/ ~Idle /\ Step(k, "idle") /\ UNCHANGED gate
  /\ UNCHANGED <<vars, todo, http, exiting, connected, released, exported>>

\* export_session: an in-memory database, or a session too large for the
\* channel, undoes the pause.
Export(k) ==
  /\ phase[k] = "export"
  /\ \/ Live \subseteq Restorable /\ exported' = {Live} /\ Step(k, "idle")
     \/ Step(k, "undo") /\ UNCHANGED exported
  /\ UNCHANGED <<vars, gate, todo, http, exiting, connected, released>>

ResumeGate(k) ==
  /\ phase[k] \in {"resume", "undo"}
  /\ OpenGate
  /\ exported' = {}
  /\ Step(k, "idle")
  /\ UNCHANGED <<vars, todo, http, exiting, connected, released>>

\* The supervisor closes the channel or dies.  _stop_worker closes it when a
\* shutdown is not answered in time, and the handler may still be running.
LoseChannel ==
  /\ connected
  /\ Serial => \A k \in Commands : phase[k] \in {"idle", "shutdown", "list", "close"}
  /\ connected' = FALSE
  /\ UNCHANGED <<vars, gate, phase, todo, http, exiting, released, exported>>

-----------------------------------------------------------------------------
ClientStep(r) == ServeRequest(r) \/ Launch(r) \/ FinishRequest(r)
JobStep(j) == RunWorker(j) \/ ReleaseLease(j)
SessionStep(t) ==
  \/ UseRegistry(t)
  \/ ListConnections(t)
  \/ \E c \in Conns : CloseNext(t, c)
  \/ CloseOne(t)
  \/ SessionClosed(t)
MainStep == StartServing \/ BeginDrain \/ Drained \/ Exit
HttpStep == StopListening \/ HttpExits
CommandStep(k) == PauseForCommand(k) \/ Export(k) \/ ResumeGate(k)

RuntimeNext ==
  \/ \E r \in Clients :
       \/ \E op \in Offered, c \in Conns : AdmitRequest(r, op, c)
       \/ ClientStep(r)
  \/ \E j \in Jobs : JobStep(j)
  \/ RunQuery
  \/ \E c \in Conns : RestoreConnection(c)
  \/ MainStep \/ HttpStep
  \/ \E t \in Closers : SessionStep(t)
  \/ \E k \in Commands :
       \/ \E method \in {"prepare", "resume", "shutdown"} : Dispatch(k, method)
       \/ CommandStep(k)
  \/ LoseChannel

RuntimeSpec == RuntimeInit /\ [][RuntimeNext]_runtimeVars

\* Threads run on once started.  Nobody is obliged to send requests or
\* commands, or to close the channel.
RuntimeFairness ==
  /\ \A r \in Clients : WF_runtimeVars(ClientStep(r))
  /\ \A j \in Jobs : WF_runtimeVars(JobStep(j))
  /\ \A t \in Closers : WF_runtimeVars(SessionStep(t))
  /\ \A k \in Commands : WF_runtimeVars(CommandStep(k))
  /\ WF_runtimeVars(MainStep \/ \E c \in Conns : RestoreConnection(c))
  /\ WF_runtimeVars(HttpStep)

FairRuntimeSpec == RuntimeSpec /\ RuntimeFairness

-----------------------------------------------------------------------------
(* What makes the properties below inductive.                              *)

\* A reserved job is always in somebody's hands: its live worker's, or those
\* of the request that has yet to start the worker.
RunningJobsAreCarried ==
  \A j \in Jobs : Running(j) =>
    \/ wrk[j] \in {"started", "working", "publishing", "failing", "unwinding"}
    \/ \E r \in Clients : HoldsTicket(r) /\ req[r].job = j

ReleasedAfterExit == released \subseteq Jobs /\ \A j \in released : wrk[j] = "exited"

\* The runtime's own threads never operate on a connection nor create a job.
ClosersOpenAndClose ==
  \A t \in Closers :
    /\ req[t].op \in {"none", "connect", "close"}
    /\ req[t].pc \in {"idle", "arrived", "using", "disposing", "done"}

\* Connections are only closed behind a closed, idle gate.
ClosersAreAlone ==
  /\ phase[MainThread] = "drain" => paused
  /\ \A t \in Closers : phase[t] \in {"list", "close"} => paused /\ Idle

\* Every thread is at a step of its own, and no command comes before the worker
\* has restored its session.
HandlersInPlace ==
  /\ phase \in [Closers -> MainPhases \cup HandlerPhases]
  /\ phase[MainThread] \in MainPhases
  /\ \A k \in Commands : phase[k] \in HandlerPhases
  /\ phase[MainThread] = "restore" =>
       http = "down" /\ \A k \in Commands : phase[k] = "idle"

\* With serial commands, whatever can reopen the gate runs on its own in a
\* worker that serves.
CommandsAreSerial ==
  /\ phase[MainThread] = "serve" => http = "up" \/ exiting
  /\ http = "stopping" => exiting
  /\ \A k \in Commands :
       /\ phase[k] # "idle" => \A i \in Commands \ {k} : phase[i] = "idle"
       /\ phase[k] \in {"prepare", "resume", "export", "undo"} =>
            connected /\ ~exiting /\ phase[MainThread] = "serve"

\* No resume, and no undo of a prepare, opens the gate behind a thread that has
\* it closed and still counts on that: a drain, a close_session or an export.
\* The handler of one that the supervisor has given up may (managed_worker.py,
\* WorkerCommandHandler.resume against _drain_worker_runtime).
CountingOnGate ==
  {t \in Closers : phase[t] \in {"drain", "list", "close", "export", "join", "exited"}}
GateStaysShut == CountingOnGate # {} /\ paused => paused'

-----------------------------------------------------------------------------
(* Properties.                                                             *)

InApplication == {r \in Clients : ~Resting(r)}
OnLease == {j \in Jobs : wrk[j] # "none" /\ j \notin released}

\* The gate's counters are the leases really held: one per request in the
\* application and one per background thread from its start to its end.
LeasesAreExact ==
  /\ counts["requests"] = Cardinality(InApplication)
  /\ counts["background_jobs"] = Cardinality(OnLease)

\* What pause_if_idle and the drain rely on: an idle gate means that no
\* request is inside the application, no job is reserved or running, and no
\* connection is in use by anyone but the runtime's own threads.
IdleMeansQuiet ==
  Idle =>
    /\ \A r \in Clients : Resting(r)
    /\ \A j \in Jobs : ~Running(j)
    /\ \A c \in Conns : lock[c] \in Closers \cup {Free}

\* An exported session stays the worker's whole session: until the gate is
\* reopened no connection is added or removed, except by shutting down.
ExportedSessionIsCurrent ==
  ~exiting /\ (\A t \in Closers : phase[t] # "close") => exported \subseteq {Live}

\* close_session runs "after runtime admission has paused": no connection it
\* closes is ever busy, so neither a shutdown nor the drain is ever refused.
SessionCloseIsNeverRefused ==
  \A t \in Closers :
    phase[t] = "close" /\ req[t].pc = "arrived" => ~CloseRefused(req[t].conn)

LeaseInv ==
  /\ IInv
  /\ GateTypeOK
  /\ RunningJobsAreCarried
  /\ ReleasedAfterExit
  /\ ClosersOpenAndClose
  /\ LeasesAreExact

RuntimeInv == LeaseInv /\ ClosersAreAlone /\ HandlersInPlace

\* A worker that has exited left no job unfinished and no connection open.
ExitedWorkerLeftNothing ==
  phase[MainThread] = "exited" =>
    /\ Idle
    /\ \A j \in Jobs : ~Running(j)
    /\ Live = {}

\* The registry as the commands and the drain see it.  Outside restore_session
\* a thread of the runtime enters the registry only to close a connection;
\* from its pause to the next resume a session being exported, or exported,
\* has a closed and idle gate, and so has a worker that is about to exit; and
\* the connections that a drain has yet to close are in its list.
ClosersInPlace ==
  \A t \in Closers :
    /\ req[t].pc = "using" => phase[t] = "restore"
    /\ req[t].pc = "arrived" =>
         \/ phase[t] = "restore"
         \/ phase[t] = "close" /\ req[t].op = "close"

SessionsAreBehindGate ==
  /\ \A k \in Commands : phase[k] = "export" => paused /\ Idle
  /\ exported # {} => paused /\ Idle /\ phase[MainThread] # "restore"
  /\ phase[MainThread] \in {"join", "exited"} => paused /\ Idle

DrainClosesWhatItListed ==
  /\ phase[MainThread] = "close" =>
       \A c \in Live :
         \/ c \in todo[MainThread]
         \/ req[MainThread].pc = "arrived" /\ req[MainThread].conn = c
  /\ phase[MainThread] \in {"join", "exited"} => Live = {}

SessionInv ==
  /\ todo \in [Closers -> SUBSET Conns]
  /\ ClosersInPlace
  /\ SessionsAreBehindGate
  /\ DrainClosesWhatItListed
  /\ ExportedSessionIsCurrent

\* "EOF makes the owned worker close admission and drain" (supervisor.py):
\* a worker whose supervisor is gone finishes its work and exits.
OrphanedWorkerExits == ~connected ~> phase[MainThread] = "exited"

\* _drain_worker_runtime: "Close admission and finish existing leases before
\* closing database sessions."
DrainFinishesLeasesFirst ==
  phase[MainThread] = "close" => Idle
=============================================================================
