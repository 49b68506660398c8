------------------------------- MODULE UIState -------------------------------
(***************************************************************************)
(* The connection and job registry of the web interface (state.py) with    *)
(* every thread that works on it: HTTP request threads (api.py,            *)
(* workbench.py) and one background worker per job.  Each critical section *)
(* under the registry's global lock is one action; everything a thread     *)
(* does between two critical sections may interleave with other threads.   *)
(***************************************************************************)

CONSTANTS
  Conns,      (* connection identifiers; uuid4, so each is registered once *)
  Requests,   (* HTTP request threads                                      *)
  Offered,    (* the kinds of request clients send, a subset of Ops        *)
  Jobs,       (* job identifiers, and the worker thread of each            *)
  Endpoints,  (* database endpoints a connection may write to              *)
  Target,     (* _write_target: the endpoints behind each connection       *)
  Free,       (* no thread holds the lock                                  *)
  NoConn,
  NoJob

ASSUME IdentityAssumption ==
  /\ Requests \cap Jobs = {}
  /\ Free \notin Requests \cup Jobs
  /\ NoJob \notin Jobs
  /\ NoConn \notin Conns
ASSUME TargetAssumption == Target \in [Conns -> SUBSET Endpoints]

VARIABLES
  conn,     (* _conns and _conn_locks, whose keys come and go together     *)
  adapter,  (* the database adapter of the connection's DataOrchestrator   *)
  lock,     (* the holder of the per-connection lock object                *)
  owner,    (* _operation_owners: which thread entered connection_operation*)
  job,      (* _jobs                                                       *)
  req,      (* what each request thread is doing                           *)
  wrk       (* what each background worker is doing                        *)

vars == <<conn, adapter, lock, owner, job, req, wrk>>

Threads    == Requests \cup Jobs
WriteKinds == {"fill", "workbench"}
Kinds      == WriteKinds \cup {"auto_heal"}
Ops        == {"connect", "close", "read", "operate"} \cup Kinds

ASSUME OfferedAssumption == Offered \subseteq Ops

IdleRequest == [pc |-> "idle", op |-> "none", conn |-> NoConn, job |-> NoJob]
UnusedJob   == [conn |-> NoConn, kind |-> "none", status |-> "unused"]

RequestLabels == {"idle", "arrived", "using", "disposing", "operating",
                  "reserved", "leaving", "launching", "done"}
WorkerLabels  == {"none", "started", "working", "publishing", "failing",
                  "unwinding", "exited"}
RequestRecord == [pc : RequestLabels, op : Ops \cup {"none"},
                  conn : Conns \cup {NoConn}, job : Jobs \cup {NoJob}]
JobRecord     == [conn : Conns \cup {NoConn}, kind : Kinds \cup {"none"},
                  status : {"unused", "running", "done", "error"}]

TypeOK ==
  /\ conn \in [Conns -> {"new", "live", "closed"}]
  /\ adapter \in [Conns -> {"unopened", "open", "closed"}]
  /\ lock \in [Conns -> Threads \cup {Free}]
  /\ owner \in [Conns -> Threads \cup {Free}]
  /\ job \in [Jobs -> JobRecord]
  /\ req \in [Requests -> RequestRecord]
  /\ wrk \in [Jobs -> WorkerLabels]

Init ==
  /\ conn = [c \in Conns |-> "new"]
  /\ adapter = [c \in Conns |-> "unopened"]
  /\ lock = [c \in Conns |-> Free]
  /\ owner = [c \in Conns |-> Free]
  /\ job = [j \in Jobs |-> UnusedJob]
  /\ req = [r \in Requests |-> IdleRequest]
  /\ wrk = [j \in Jobs |-> "none"]

-----------------------------------------------------------------------------
(* Helpers of the registry.                                                *)

Running(j) == job[j].status = "running"

\* The comparison of _write_target sets: multihost connections reserve every
\* endpoint they may reach.
SharesEndpoint(c, d) == Target[c] \cap Target[d] # {}

\* Plausible mistakes in _check_job_admission: a job's own connection is not
\* compared, and only identical target sets conflict.
JobAdmissibleElsewhere(c, write, self) ==
  \A j \in Jobs \ {self} : Running(j) =>
    ~ /\ write
      /\ job[j].kind \in WriteKinds
      /\ conn[job[j].conn] = "live"
      /\ SharesEndpoint(job[j].conn, c)

JobAdmissibleUnlessSame(c, write, self) ==
  \A j \in Jobs \ {self} : Running(j) =>
    /\ job[j].conn # c
    /\ ~ /\ write
         /\ job[j].kind \in WriteKinds
         /\ conn[job[j].conn] = "live"
         /\ Target[job[j].conn] = Target[c]

\* _check_job_admission: self is the job whose own worker is asking.
JobAdmissible(c, write, self) ==
  \A j \in Jobs \ {self} : Running(j) =>
    /\ job[j].conn # c
    /\ ~ /\ write
         /\ job[j].kind \in WriteKinds
         /\ conn[job[j].conn] = "live"
         /\ SharesEndpoint(job[j].conn, c)

\* The checks of connection_operation, the non-blocking acquire included.
OperationAdmissible(c, write, self) ==
  /\ conn[c] = "live"
  /\ self \in Jobs => Running(self) /\ job[self].conn = c
  /\ JobAdmissible(c, write, self)
  /\ lock[c] = Free

EnterOperation(t, c) ==
  /\ lock' = [lock EXCEPT ![c] = t]
  /\ owner' = [owner EXCEPT ![c] = t]

LeaveOperation(c) ==
  /\ lock' = [lock EXCEPT ![c] = Free]
  /\ owner' = [owner EXCEPT ![c] = Free]

\* A mistake: a job is reserved under another thread's operation.
ReservationAdmissibleWithoutOwner(r, c, kind) ==
  /\ conn[c] = "live"
  /\ JobAdmissible(c, kind \in WriteKinds, NoJob)

\* create_job called by request thread r.
ReservationAdmissible(r, c, kind) ==
  /\ conn[c] = "live"
  /\ JobAdmissible(c, kind \in WriteKinds, NoJob)
  /\ lock[c] = Free \/ owner[c] = r

\* Mistakes: close looks at the jobs alone, or at the lock alone.
CloseAdmissibleDespiteLock(c) ==
  /\ conn[c] = "live"
  /\ \A j \in Jobs : Running(j) => job[j].conn # c

CloseAdmissibleDespiteJobs(c) ==
  /\ conn[c] = "live"
  /\ lock[c] = Free

CloseAdmissible(c) ==
  /\ conn[c] = "live"
  /\ \A j \in Jobs : Running(j) => job[j].conn # c
  /\ lock[c] = Free

CompleteJob(j, status) == job' = [job EXCEPT ![j].status = status]

\* Every query first calls _ensure_connected, which reopens a closed adapter.
EnsureConnected(c) == adapter' = [adapter EXCEPT ![c] = "open"]

Goto(r, label) == req' = [req EXCEPT ![r].pc = label]

-----------------------------------------------------------------------------
(* Request threads.                                                        *)

\* A request that connects brings a fresh identifier.
Arrive(r, op, c) ==
  /\ req[r].pc = "idle"
  /\ op = "connect" => conn[c] = "new"
  /\ req' = [req EXCEPT ![r] = [pc |-> "arrived", op |-> op, conn |-> c, job |-> NoJob]]
  /\ UNCHANGED <<conn, adapter, lock, owner, job, wrk>>

\* add_connection: the orchestrator is built before the registry's lock is
\* taken; building it may fail and the identifier may have been registered
\* meanwhile, either of which leaves nothing behind.
Register(r) ==
  /\ req[r].pc = "arrived" /\ req[r].op = "connect"
  /\ \/ /\ conn[req[r].conn] = "new"
        /\ conn' = [conn EXCEPT ![req[r].conn] = "live"]
        /\ Goto(r, "using")
     \/ Goto(r, "done") /\ UNCHANGED conn
  /\ UNCHANGED <<adapter, lock, owner, job, wrk>>

\* _conn_or_404: the read endpoints of api.py keep the orchestrator they
\* looked up and take no lock.
Lookup(r) ==
  /\ req[r].pc = "arrived" /\ req[r].op = "read"
  /\ Goto(r, IF conn[req[r].conn] = "live" THEN "using" ELSE "done")
  /\ UNCHANGED <<conn, adapter, lock, owner, job, wrk>>

\* Queries of a read, of a new connection's table list, or of an operation.
Query(r) ==
  /\ req[r].pc \in {"using", "operating"}
  /\ EnsureConnected(req[r].conn)
  /\ UNCHANGED <<conn, lock, owner, job, req, wrk>>

\* A read ends.  When the table list of a new connection cannot be read the
\* connection is closed again.
FinishUse(r) ==
  /\ req[r].pc = "using"
  /\ \/ Goto(r, "done")
     \/ /\ req[r].op = "connect"
        /\ req' = [req EXCEPT ![r].pc = "arrived", ![r].op = "close"]
  /\ UNCHANGED <<conn, adapter, lock, owner, job, wrk>>

\* close_connection: refused while a job of the connection runs or its lock
\* is held; closing an unknown identifier does nothing.
CloseBegin(r) ==
  LET c == req[r].conn IN
  /\ req[r].pc = "arrived" /\ req[r].op = "close"
  /\ IF CloseAdmissible(c)
     THEN /\ conn' = [conn EXCEPT ![c] = "closed"]
          /\ lock' = [lock EXCEPT ![c] = r]
          /\ Goto(r, "disposing")
     ELSE Goto(r, "done") /\ UNCHANGED <<conn, lock>>
  /\ UNCHANGED <<adapter, owner, job, wrk>>

\* Outside the registry's lock the orchestrator is closed (a no-op when it
\* was never opened), and then the connection's lock is released.
Dispose(r) ==
  LET c == req[r].conn IN
  /\ req[r].pc = "disposing"
  /\ adapter' = [adapter EXCEPT ![c] = IF @ = "open" THEN "closed" ELSE @]
  /\ lock' = [lock EXCEPT ![c] = Free]
  /\ Goto(r, "done")
  /\ UNCHANGED <<conn, owner, job, wrk>>

\* connection_operation entered by a request.
Admit(r) ==
  LET c == req[r].conn IN
  /\ req[r].pc = "arrived" /\ req[r].op \in {"operate"} \cup WriteKinds
  /\ IF OperationAdmissible(c, req[r].op \in WriteKinds, NoJob)
     THEN EnterOperation(r, c) /\ Goto(r, "operating")
     ELSE Goto(r, "done") /\ UNCHANGED <<lock, owner>>
  /\ UNCHANGED <<conn, adapter, job, wrk>>

\* The body ends without reserving a job: an ordinary operation, or the
\* checks of start_run that reject a stale draft or plan.
EndOperation(r) ==
  /\ req[r].pc = "operating" /\ req[r].op # "fill"
  /\ Goto(r, "leaving")
  /\ UNCHANGED <<conn, adapter, lock, owner, job, wrk>>

\* create_job: start_fill and start_run call it inside their operation,
\* heal_auto calls it with no operation at all.  The set Jobs bounds how many
\* jobs a behaviour has: once all are used the request is refused.
CreateJob(r) ==
  LET c == req[r].conn
      kind == req[r].op
  IN
  /\ \/ req[r].pc = "operating" /\ kind \in WriteKinds
     \/ req[r].pc = "arrived" /\ kind = "auto_heal"
  /\ IF ReservationAdmissible(r, c, kind) /\ \E j \in Jobs : job[j].status = "unused"
     THEN \E j \in Jobs :
            /\ job[j].status = "unused"
            /\ job' = [job EXCEPT ![j] = [conn |-> c, kind |-> kind, status |-> "running"]]
            /\ req' = [req EXCEPT ![r].job = j,
                         ![r].pc = CASE kind = "fill"      -> "leaving"
                                     [] kind = "workbench" -> "reserved"
                                     [] kind = "auto_heal" -> "launching"]
     ELSE /\ Goto(r, IF kind = "auto_heal" THEN "done" ELSE "leaving")
          /\ UNCHANGED job
  /\ UNCHANGED <<conn, adapter, lock, owner, wrk>>

\* start_run stores the immutable run while it still holds the operation; if
\* that fails the reservation is completed with an error.
CreateRun(r) ==
  /\ req[r].pc = "reserved"
  /\ \/ Goto(r, "leaving") /\ UNCHANGED job
     \/ /\ CompleteJob(req[r].job, "error")
        /\ req' = [req EXCEPT ![r].pc = "leaving", ![r].job = NoJob]
  /\ UNCHANGED <<conn, adapter, lock, owner, wrk>>

Leave(r) ==
  /\ req[r].pc = "leaving"
  /\ LeaveOperation(req[r].conn)
  /\ Goto(r, IF req[r].job = NoJob THEN "done" ELSE "launching")
  /\ UNCHANGED <<conn, adapter, job, wrk>>

\* start_background: the worker thread starts, or it does not (admission
\* closed, no thread) and the caller completes the job with an error.
StartWorker(r) ==
  /\ req[r].pc = "launching"
  /\ wrk' = [wrk EXCEPT ![req[r].job] = "started"]
  /\ Goto(r, "done")
  /\ UNCHANGED <<conn, adapter, lock, owner, job>>

StartFails(r) ==
  /\ req[r].pc = "launching"
  /\ CompleteJob(req[r].job, "error")
  /\ Goto(r, "done")
  /\ UNCHANGED <<conn, adapter, lock, owner, wrk>>

Return(r) ==
  /\ req[r].pc = "done"
  /\ req' = [req EXCEPT ![r] = IdleRequest]
  /\ UNCHANGED <<conn, adapter, lock, owner, job, wrk>>

-----------------------------------------------------------------------------
(* Background workers: _run_fill_job, execute_run, _run_auto_heal_job.     *)

MoveWorker(j, label) == wrk' = [wrk EXCEPT ![j] = label]

\* The worker enters its operation; a refusal is an error it publishes.
WorkerAdmit(j) ==
  LET c == job[j].conn IN
  /\ wrk[j] = "started" /\ job[j].kind \in WriteKinds
  /\ IF OperationAdmissible(c, FALSE, j)
     THEN EnterOperation(j, c) /\ MoveWorker(j, "working")
     ELSE MoveWorker(j, "failing") /\ UNCHANGED <<lock, owner>>
  /\ UNCHANGED <<conn, adapter, job, req>>

\* The auto-heal worker only looks the connection up; it reads the target
\* through an engine of its own and never takes the connection's lock.
HealerLookup(j) ==
  /\ wrk[j] = "started" /\ job[j].kind = "auto_heal"
  /\ MoveWorker(j, IF conn[job[j].conn] = "live" THEN "publishing" ELSE "failing")
  /\ UNCHANGED <<conn, adapter, lock, owner, job, req>>

\* A worker can fail before it reaches its operation (an unreadable run).
WorkerFailsEarly(j) ==
  /\ wrk[j] = "started"
  /\ \E label \in {"failing", "unwinding"} : MoveWorker(j, label)
  /\ UNCHANGED <<conn, adapter, lock, owner, job, req>>

WorkerQuery(j) ==
  /\ wrk[j] = "working"
  /\ EnsureConnected(job[j].conn)
  /\ UNCHANGED <<conn, lock, owner, job, req, wrk>>

\* The body ends: normally, with an error it reports, or with an exception
\* that no handler names and only job_completion sees.
WorkerLeave(j) ==
  /\ wrk[j] = "working"
  /\ LeaveOperation(job[j].conn)
  /\ \E label \in {"publishing", "failing", "unwinding"} : MoveWorker(j, label)
  /\ UNCHANGED <<conn, adapter, job, req>>

\* complete_job, called after the operation has been left.
WorkerPublish(j) ==
  /\ wrk[j] \in {"publishing", "failing"}
  /\ CompleteJob(j, IF wrk[j] = "publishing" THEN "done" ELSE "error")
  /\ MoveWorker(j, "unwinding")
  /\ UNCHANGED <<conn, adapter, lock, owner, req>>

\* job_completion: whatever happened, the job leaves the running state.
JobCompletion(j) ==
  /\ wrk[j] = "unwinding"
  /\ IF Running(j) THEN CompleteJob(j, "error") ELSE UNCHANGED job
  /\ MoveWorker(j, "exited")
  /\ UNCHANGED <<conn, adapter, lock, owner, req>>

-----------------------------------------------------------------------------
\* What a request thread does between its arrival and its answer, other than
\* starting a background worker.
RequestStep(r) ==
  \/ Register(r) \/ Lookup(r) \/ FinishUse(r)
  \/ CloseBegin(r) \/ Dispose(r)
  \/ Admit(r) \/ EndOperation(r) \/ CreateJob(r) \/ CreateRun(r) \/ Leave(r)

WorkerStep(j) ==
  \/ WorkerAdmit(j) \/ HealerLookup(j) \/ WorkerFailsEarly(j)
  \/ WorkerLeave(j) \/ WorkerPublish(j)

Next ==
  \/ \E r \in Requests :
       \/ \E op \in Offered, c \in Conns : Arrive(r, op, c)
       \/ RequestStep(r) \/ Query(r)
       \/ StartWorker(r) \/ StartFails(r) \/ Return(r)
  \/ \E j \in Jobs : WorkerStep(j) \/ WorkerQuery(j) \/ JobCompletion(j)

\* Every thread that has started runs on; nobody is obliged to send requests.
Fairness ==
  /\ \A r \in Requests :
       WF_vars(RequestStep(r) \/ StartWorker(r) \/ StartFails(r) \/ Return(r))
  /\ \A j \in Jobs : WF_vars(WorkerStep(j) \/ JobCompletion(j))

Spec == Init /\ [][Next]_vars
FairSpec == Spec /\ Fairness

-----------------------------------------------------------------------------
(* What the threads' places in their programs imply; with the properties    *)
(* below it makes an inductive invariant.                                   *)

\* Requests in progress name a connection; one past create_job holds a job
\* whose worker has not started, and is the only request that does.
HoldsTicket(r) ==
  \/ req[r].pc \in {"reserved", "launching"}
  \/ req[r].pc = "leaving" /\ req[r].job # NoJob

Ticketed ==
  \A r \in Requests :
    /\ req[r].pc # "idle" => req[r].conn \in Conns /\ req[r].op \in Ops
    /\ req[r].pc \in {"arrived", "using", "operating", "disposing"} => req[r].job = NoJob
    /\ HoldsTicket(r) =>
         /\ req[r].job \in Jobs
         /\ Running(req[r].job)
         /\ wrk[req[r].job] = "none"
         /\ job[req[r].job].conn = req[r].conn
         /\ \A q \in Requests \ {r} : HoldsTicket(q) => req[q].job # req[r].job

\* A worker exists only for a job that was created, and the job runs until
\* its worker publishes.
WorkersMatchJobs ==
  \A j \in Jobs :
    /\ Running(j) => job[j].conn \in Conns /\ job[j].kind \in Kinds
    /\ job[j].status = "unused" => wrk[j] = "none"
    /\ wrk[j] \in {"started", "working", "publishing", "failing"} => Running(j)

\* A held lock names the thread that will release it, and an owner is always
\* the holder: the thread check of create_job cannot be fooled.
HoldersAreInside ==
  \A c \in Conns :
    /\ owner[c] # Free => owner[c] = lock[c]
    /\ lock[c] \in Requests =>
         /\ req[lock[c]].conn = c
         /\ req[lock[c]].pc \in {"operating", "reserved", "leaving", "disposing"}
    /\ lock[c] \in Jobs => wrk[lock[c]] = "working" /\ job[lock[c]].conn = c

ClosersHoldTheLock ==
  \A r \in Requests : req[r].pc = "disposing" =>
    conn[req[r].conn] = "closed" /\ lock[req[r].conn] = r /\ owner[req[r].conn] = Free

-----------------------------------------------------------------------------
(* Properties.                                                             *)

\* At most one job is reserved on a connection, whether or not its worker has
\* started: the gap between create_job and the worker belongs to that job.
OneJobPerConnection ==
  \A i, j \in Jobs : i # j /\ Running(i) /\ Running(j) => job[i].conn # job[j].conn

\* Two generation jobs never write to a common endpoint, even through
\* different connections (state.py: _check_job_admission, _write_target).
WriteExclusion ==
  \A i, j \in Jobs :
    /\ i # j /\ Running(i) /\ Running(j)
    /\ job[i].kind \in WriteKinds /\ job[j].kind \in WriteKinds
    => Target[job[i].conn] \cap Target[job[j].conn] = {}

\* A thread inside connection_operation works on a registered connection
\* whose lock it holds: nobody closes the orchestrator under it and no second
\* thread drives the same orchestrator.
OperationsHoldTheirConnection ==
  /\ \A r \in Requests : req[r].pc \in {"operating", "reserved", "leaving"} =>
       conn[req[r].conn] = "live" /\ lock[req[r].conn] = r /\ owner[req[r].conn] = r
  /\ \A j \in Jobs : wrk[j] = "working" =>
       conn[job[j].conn] = "live" /\ lock[job[j].conn] = j /\ Running(j)

\* While a job is reserved, the only threads inside its connection are the
\* request that reserved it and its own worker: no operation overlaps a job.
ReservedConnectionIsQuiet ==
  \A j \in Jobs : Running(j) =>
    /\ conn[job[j].conn] = "live"
    /\ \/ lock[job[j].conn] \in {Free, j}
       \/ \E r \in Requests : lock[job[j].conn] = r /\ req[r].conn = job[j].conn
                             /\ req[r].pc \in {"reserved", "leaving"}
                             /\ req[r].job = j

\* "Other requests cannot steal the gap between reservation and worker
\* startup" (connection_operation): a started worker is never refused.
WorkerIsAdmitted ==
  \A j \in Jobs : wrk[j] = "started" =>
    /\ conn[job[j].conn] = "live"
    /\ job[j].kind \in WriteKinds => OperationAdmissible(job[j].conn, FALSE, j)

\* complete_job overwrites unconditionally, yet a job is completed only once:
\* a published result is never replaced and a job never runs again.
TerminalStateIsFinal ==
  [][\A j \in Jobs : job[j].status \in {"done", "error"} => job'[j] = job[j]]_vars

\* job_completion: "a worker must publish a terminal state"; so does a request
\* whose worker could not be started.  Otherwise the connection stays reserved
\* for ever.
JobsEnd == \A j \in Jobs : Running(j) ~> ~Running(j)

\* Every lock taken by an operation or a close is given back.
LocksAreReturned == \A c \in Conns : (lock[c] # Free) ~> (lock[c] = Free)

IInv ==
  /\ TypeOK
  /\ Ticketed
  /\ WorkersMatchJobs
  /\ HoldersAreInside
  /\ ClosersHoldTheLock
  /\ OneJobPerConnection
  /\ WriteExclusion
  /\ OperationsHoldTheirConnection
  /\ ReservedConnectionIsQuiet

\* The registry as clients see it, and its promise to them.
HeldLeases ==
  {[job |-> j, conn |-> job[j].conn, writer |-> job[j].kind \in WriteKinds] :
     j \in {i \in Jobs : Running(i)}}

Leases == INSTANCE ConnectionLeases WITH
  unused <- {j \in Jobs : job[j].status = "unused"},
  held   <- HeldLeases

\* Threads, locks and workers together implement plain exclusive leases.
ImplementsLeases == Leases!Spec

\* close_connection is final: no query reopens the adapter of a connection
\* that has been closed and unregistered.
ClosedAdapterStaysClosed ==
  [][\A c \in Conns : adapter[c] = "closed" => adapter'[c] = "closed"]_vars
=============================================================================
