------------------------------ MODULE Supervisor ------------------------------
(***************************************************************************)
(* The stable launcher (supervisor.py), the package manager it shares with *)
(* the pages (supervised_plugins.py, plugin_management.py) and the workers *)
(* it replaces (managed_worker.py).  Three threads meet: the main thread   *)
(* that starts, watches and stops workers, a handler thread that executes  *)
(* a page's request, and the operation thread that this request starts.    *)
(* They share a lifecycle lock and a manager lock, and send the current    *)
(* worker commands whose answers may be lost.                              *)
(***************************************************************************)
EXTENDS Naturals, FiniteSets

CONSTANTS
  Workers,      (* processes; one that has exited may stand for a later one *)
  None,         (* no process                                              *)
  Requests,     (* pages' execute and recover requests that are accepted    *)
  Faults,       (* crashes and failed starts                                *)
  Edits,        (* changes users make to the session                        *)
  Slow,         (* commands, boots ("boot"), exits ("exit") that can time out *)
  LateReports,  (* a worker's report may be handled after its exit          *)
  MayStop       (* SIGINT or SIGTERM may arrive                             *)

\* MCControl checks this of its instance.
SupervisorAssumption ==
  /\ None \notin Workers
  /\ Requests \in Nat /\ Faults \in Nat /\ Edits \in Nat
  /\ Slow \subseteq {"prepare", "resume", "shutdown", "boot", "exit"}
  /\ LateReports \in BOOLEAN /\ MayStop \in BOOLEAN

Threads == {"main", "page", "op"}

VARIABLES
  worker,     (* life, mode, gate, lease and session of each process       *)
  commands,   (* requests on their way to a worker                         *)
  reports,    (* worker_ready and worker_failed on their way back          *)
  process,    (* Supervisor.process; channel and mode go with it           *)
  open,       (* its channel is open                                       *)
  flags,      (* _ready, _startup_failed, _business_ready, _shutdown_requested *)
  snapshot,   (* the session in the answer to prepare                      *)
  session,    (* _session                                                  *)
  lost,       (* _session_lost                                             *)
  told,       (* the changes that session_restore has reported as lost     *)
  phase,      (* the manager's phase                                       *)
  package,    (* _package_status                                           *)
  status,     (* the status of _task                                       *)
  cleanup,    (* _installer_cleanup is pending                             *)
  pc, job,    (* where each thread is, and for which operation             *)
  answer,     (* the answer a thread waits for                             *)
  lifecycle,  (* holder of _lifecycle_lock                                 *)
  locked,     (* the handler holds the manager's lock during a command     *)
  count       (* requests, faults and edits so far                         *)

processes == <<worker, snapshot, commands, reports>>
owned == <<process, open, flags>>
saved == <<session, lost, told>>
manager == <<phase, package, status, cleanup, locked>>
control == <<pc, job, answer, lifecycle>>
supervisorVars == <<processes, owned, saved, manager, control, count>>

NoFlags == [ready |-> FALSE, failed |-> FALSE, business |-> FALSE, shutdown |-> FALSE]
Gone == [life |-> "gone", mode |-> "none", paused |-> TRUE, busy |-> FALSE, session |-> 0]

Alive(w) == w # None /\ worker[w].life # "gone"
Mode == IF process = None THEN "none" ELSE worker[process].mode

SupervisorInit ==
  /\ worker = [w \in Workers |-> Gone]
  /\ commands = {} /\ reports = {}
  /\ process = None /\ open = FALSE /\ flags = NoFlags
  /\ snapshot = 0 /\ session = 0 /\ lost = FALSE /\ told = 0
  /\ phase = "preparing" /\ package = "failed" /\ status = "none" /\ cleanup = FALSE
  /\ pc = [t \in Threads |-> IF t = "main" THEN "spawn" ELSE "idle"]
  /\ job = [t \in Threads |-> IF t = "main" THEN "start" ELSE "none"]
  /\ answer = [t \in Threads |-> "none"]
  /\ lifecycle = "free" /\ locked = FALSE
  /\ count = [requests |-> 0, faults |-> 0, edits |-> 0]

Goto(t, label) == pc' = [pc EXCEPT ![t] = label]

\* _request on the current channel; a closed one refuses at once.
Ask(t, method) ==
  IF open
  THEN /\ commands' = commands \cup {[to |-> process, method |-> method, by |-> t]}
       /\ answer' = [answer EXCEPT ![t] = "awaited"]
  ELSE /\ answer' = [answer EXCEPT ![t] = "lost"]
       /\ UNCHANGED commands

Answered(t) == answer[t] \notin {"none", "awaited"}
Count(what) == count' = [count EXCEPT ![what] = @ + 1]

-----------------------------------------------------------------------------
(* Worker processes                                                        *)

Report(w, kind) == reports' = reports \cup {[from |-> w, kind |-> kind, mode |-> worker[w].mode]}

\* run_worker: the session is restored and the application serves, or the
\* worker reports a failure and ends.
Boot(w) ==
  /\ worker[w].life = "booting"
  /\ worker' = [worker EXCEPT ![w].life = "serving"]
  /\ Report(w, "worker_ready")
  /\ UNCHANGED <<snapshot, commands, owned, saved, manager, control, count>>

BootFails(w) ==
  /\ worker[w].life = "booting" /\ count.faults < Faults
  /\ worker' = [worker EXCEPT ![w].life = "draining"]
  /\ Report(w, "worker_failed")
  /\ Count("faults")
  /\ UNCHANGED <<snapshot, commands, owned, saved, manager, control>>

Reply(c, a) == IF c.by \in Threads /\ answer[c.by] = "awaited"
               THEN answer' = [answer EXCEPT ![c.by] = a]
               ELSE UNCHANGED answer

\* _worker_control.  prepare and shutdown need an idle gate.
Handle(c) ==
  LET w == c.to  refused == c.method # "resume" /\ worker[w].busy IN
  /\ c \in commands /\ worker[w].life \in {"booting", "serving"}
  /\ commands' = commands \ {c}
  /\ Reply(c, IF refused THEN "refused" ELSE "done")
  /\ \/ refused /\ UNCHANGED worker
     \/ c.method = "prepare" /\ ~refused /\ worker' = [worker EXCEPT ![w].paused = TRUE]
     \/ c.method = "resume" /\ worker' = [worker EXCEPT ![w].paused = worker[w].life = "booting"]
     \/ /\ c.method = "shutdown" /\ ~refused
        /\ worker' = [worker EXCEPT ![w].paused = TRUE, ![w].session = 0, ![w].life = "draining"]
  /\ snapshot' = IF c.method = "prepare" /\ c.by # "nobody" /\ ~refused THEN worker[w].session ELSE snapshot
  /\ UNCHANGED <<reports, owned, saved, manager, pc, job, lifecycle, count>>

\* The supervisor stops waiting; the command is still on its way.
TimeOut(c) ==
  /\ c \in commands /\ c.by # "nobody" /\ c.method \in Slow
  /\ commands' = (commands \ {c}) \cup {[c EXCEPT !.by = "nobody"]}
  /\ answer' = [answer EXCEPT ![c.by] = "lost"]
  /\ UNCHANGED <<worker, snapshot, reports, owned, saved, manager, pc, job, lifecycle, count>>

\* The end of a process: commands to it fail, its channel closes.
Ends(w) ==
  LET asked == {c \in commands : c.to = w} IN
  /\ worker' = [worker EXCEPT ![w] = [Gone EXCEPT !.mode = worker[w].mode]]
  /\ commands' = commands \ asked
  /\ answer' = [t \in Threads |-> IF \E c \in asked : c.by = t THEN "lost" ELSE answer[t]]
  /\ open' = (open /\ process # w)
  /\ UNCHANGED <<snapshot, reports, process, flags, saved, manager, pc, job, lifecycle>>

\* A draining worker waits for its leases, closes its session and exits.
Exit(w) ==
  /\ worker[w].life = "draining" /\ ~worker[w].busy
  /\ Ends(w)
  /\ UNCHANGED count

Crash(w) ==
  /\ worker[w].life \in {"booting", "serving", "draining"} /\ count.faults < Faults
  /\ Ends(w)
  /\ Count("faults")

\* A worker that loses its channel closes admission and drains.
LoseChannel(w) ==
  /\ worker[w].life \in {"booting", "serving"}
  /\ process # w \/ ~open
  /\ worker' = [worker EXCEPT ![w].life = "draining", ![w].paused = TRUE]
  /\ UNCHANGED <<snapshot, commands, reports, owned, saved, manager, control, count>>

\* A page's work takes a lease and changes the session.
Work(w) ==
  /\ worker[w].life = "serving" /\ worker[w].mode = "business"
  /\ ~worker[w].paused /\ ~worker[w].busy /\ count.edits < Edits
  /\ worker' = [worker EXCEPT ![w].busy = TRUE, ![w].session = count.edits + 1]
  /\ Count("edits")
  /\ UNCHANGED <<snapshot, commands, reports, owned, saved, manager, control>>

EndWork(w) ==
  /\ worker[w].busy
  /\ worker' = [worker EXCEPT ![w].busy = FALSE]
  /\ UNCHANGED <<snapshot, commands, reports, owned, saved, manager, control, count>>

\* Supervisor._handle, in a thread of the channel.
HandleReport(r) ==
  /\ r \in reports
  /\ r.from = process \/ LateReports
  /\ reports' = reports \ {r}
  /\ flags' = IF r.mode # Mode THEN flags
              ELSE IF r.kind = "worker_ready" THEN [flags EXCEPT !.ready = TRUE]
              ELSE [flags EXCEPT !.failed = TRUE]
  /\ UNCHANGED <<worker, snapshot, commands, process, open, saved, manager, control, count>>

-----------------------------------------------------------------------------
(* _stop_worker and _spawn run for a job: "start" of the service, "ensure"  *)
(* (ensure_worker), "enter" (enter_maintenance), "restore" and its          *)
(* "fallback" (restore_business), and "exit" (stop).                        *)

Disown == process' = None /\ open' = FALSE

\* A mistake: restore_business gives up when the new worker fails.
GiveUp(t) == Goto(t, "failed") /\ lifecycle' = "free" /\ UNCHANGED job

Fallback(t) == Goto(t, "stop") /\ job' = [job EXCEPT ![t] = "fallback"] /\ UNCHANGED lifecycle

StopFails(t, during) ==
  IF during = "refusal"
  THEN Goto(t, "stop") /\ UNCHANGED lifecycle
  ELSE Goto(t, "raised") /\ lifecycle' = "free"

\* What a failure does: restore_business falls back to maintenance only if
\* the new worker failed, stop() retries a refusal and lets the rest escape.
Fail(t, during) ==
  CASE job[t] = "start" ->
         /\ Goto(t, "joining") /\ UNCHANGED <<job, lifecycle>>
    [] job[t] = "ensure" ->
         /\ Goto(t, "joining") /\ lifecycle' = "free" /\ UNCHANGED job
    [] job[t] = "enter" ->
         /\ Goto(t, "restore") /\ lifecycle' = "free" /\ UNCHANGED job
    [] job[t] = "restore" /\ during = "spawn" ->
         Fallback(t)
    [] job[t] = "fallback" \/ (job[t] = "restore" /\ during # "spawn") ->
         /\ Goto(t, "failed") /\ lifecycle' = "free" /\ UNCHANGED job
    [] job[t] = "exit" ->
         StopFails(t, during) /\ UNCHANGED job

Stopped(t) == Goto(t, IF job[t] = "exit" THEN "finishing" ELSE "spawn")

StopWorker(t) ==
  /\ pc[t] = "stop"
  /\ IF process = None
     THEN Stopped(t) /\ UNCHANGED <<commands, answer, open, flags>>
     ELSE /\ flags' = [flags EXCEPT !.business = FALSE]
          /\ Goto(t, IF Alive(process) /\ ~flags.shutdown THEN "asking" ELSE "joining worker")
          /\ IF Alive(process) /\ ~flags.shutdown
             THEN Ask(t, "shutdown") ELSE UNCHANGED <<commands, answer>>
          /\ UNCHANGED open
  /\ UNCHANGED <<worker, snapshot, reports, process, saved, manager, job, lifecycle, count>>

\* A refused shutdown is an HTTPException, a lost one a RuntimeError.
Asked(t) ==
  /\ pc[t] = "asking" /\ Answered(t)
  /\ answer' = [answer EXCEPT ![t] = "none"]
  /\ IF answer[t] = "refused"
     THEN Fail(t, "refusal") /\ UNCHANGED <<open, flags>>
     ELSE /\ open' = (open /\ answer[t] # "lost")
          /\ flags' = [flags EXCEPT !.shutdown = TRUE]
          /\ Goto(t, "joining worker")
          /\ UNCHANGED <<job, lifecycle>>
  /\ UNCHANGED <<processes, process, saved, manager, count>>

\* A mistake: a worker that has not exited in time is forgotten.
JoinAnyway(t) ==
  /\ pc[t] = "joining worker"
  /\ ~Alive(process) \/ "exit" \in Slow
  /\ Disown /\ Stopped(t)
  /\ UNCHANGED <<processes, flags, saved, manager, job, answer, lifecycle, count>>

Join(t) ==
  /\ pc[t] = "joining worker"
  /\ IF ~Alive(process)
     THEN Disown /\ Stopped(t) /\ UNCHANGED <<job, lifecycle>>
     ELSE "exit" \in Slow /\ Fail(t, "timeout") /\ UNCHANGED <<process, open>>
  /\ UNCHANGED <<processes, flags, saved, manager, answer, count>>

Target(t) == IF job[t] \in {"start", "restore"} THEN "business" ELSE "maintenance"

Spawn(t) ==
  /\ pc[t] = "spawn"
  /\ IF process # None
     THEN Fail(t, "spawn") /\ UNCHANGED <<worker, reports, owned, count>>
     ELSE /\ flags' = NoFlags
          /\ reports' = IF LateReports THEN reports ELSE {}
          /\ \/ /\ \E w \in Workers :
                     /\ ~Alive(w) /\ \A r \in reports' : r.from # w
                     /\ worker' = [worker EXCEPT ![w] =
                          [Gone EXCEPT !.life = "booting", !.mode = Target(t),
                                       !.session = IF Target(t) = "business" THEN session ELSE 0]]
                     /\ process' = w /\ open' = TRUE
                /\ Goto(t, "booting")
                /\ UNCHANGED <<job, lifecycle, count>>
             \/ /\ count.faults < Faults /\ Count("faults")
                /\ Fail(t, "spawn")
                /\ UNCHANGED <<worker, process, open>>
  /\ UNCHANGED <<snapshot, commands, saved, manager, answer>>

Spawned(t) ==
  CASE job[t] = "start" -> Goto(t, "loop") /\ phase' = "ready" /\ UNCHANGED <<lifecycle, session>>
    [] job[t] \in {"ensure", "enter", "fallback"} ->
         /\ Goto(t, CASE job[t] = "ensure" -> "loop" [] job[t] = "enter" -> "staging" [] OTHER -> "failed")
         /\ lifecycle' = "free" /\ UNCHANGED <<phase, session>>
    [] job[t] = "restore" ->
         /\ Goto(t, "restored") /\ lifecycle' = "free" /\ session' = 0 /\ UNCHANGED phase

IsReady == flags.ready

\* _wait_for_worker_ready; a business worker is then admitted.
Booted(t) ==
  /\ pc[t] = "booting" /\ IsReady
  /\ IF Target(t) = "business"
     THEN Ask(t, "resume") /\ Goto(t, "admitting") /\ UNCHANGED <<phase, lifecycle, session>>
     ELSE Spawned(t) /\ UNCHANGED <<commands, answer>>
  /\ UNCHANGED <<worker, snapshot, reports, owned, lost, told, package, status, cleanup, locked, job, count>>

\* A worker that is not ready in time is killed; the kill may be slow too.
NotBooted(t) ==
  /\ pc[t] = "booting" /\ ~IsReady
  /\ flags.failed \/ ~Alive(process) \/ "boot" \in Slow
  /\ open' = FALSE
  /\ \/ /\ process' = None
        /\ worker' = [worker EXCEPT ![process] = [Gone EXCEPT !.mode = worker[process].mode]]
     \/ /\ Alive(process) /\ "exit" \in Slow
        /\ worker' = [worker EXCEPT ![process].life = "draining"]
        /\ UNCHANGED process
  /\ Fail(t, "spawn")
  /\ UNCHANGED <<snapshot, commands, reports, flags, saved, manager, answer, count>>

Admitted(t) ==
  /\ pc[t] = "admitting" /\ Answered(t)
  /\ answer' = [answer EXCEPT ![t] = "none"]
  /\ IF answer[t] = "done"
     THEN flags' = [flags EXCEPT !.business = TRUE] /\ Spawned(t) /\ UNCHANGED job
     ELSE Fail(t, "spawn") /\ UNCHANGED <<flags, phase, session>>
  /\ UNCHANGED <<processes, process, open, lost, told, package, status, cleanup, locked, count>>

-----------------------------------------------------------------------------
(* The main thread                                                         *)

\* A mistake: the lost session is not recorded as lost.
Forget == session' = 0 /\ UNCHANGED lost

LoseSession == session' = 0 /\ lost' = TRUE

\* ensure_worker: an unexpected exit forgets the session and says so.
EnsureWorker ==
  /\ pc["main"] = "loop" /\ lifecycle = "free" /\ ~locked
  /\ phase \in {"ready", "recovery_failed"}
  /\ process # None /\ ~Alive(process) /\ pc["op"] = "idle"
  /\ lifecycle' = "main"
  /\ Goto("main", "stop") /\ job' = [job EXCEPT !["main"] = "ensure"]
  /\ IF phase = "ready"
     THEN /\ phase' = "recovery_failed" /\ status' = "none"
          /\ LoseSession
     ELSE UNCHANGED <<phase, status, session, lost>>
  /\ UNCHANGED <<processes, owned, told, package, cleanup, locked, answer, count>>

Signal ==
  /\ MayStop /\ pc["main"] = "loop"
  /\ Goto("main", "joining")
  /\ UNCHANGED <<processes, owned, saved, manager, job, answer, lifecycle, count>>

\* stop: the first join takes place without the lock.
JoinOperation ==
  /\ pc["main"] = "joining" /\ pc["op"] = "idle"
  /\ Goto("main", "locking")
  /\ UNCHANGED <<processes, owned, saved, manager, job, answer, lifecycle, count>>

LockToStop ==
  /\ pc["main"] = "locking" /\ lifecycle = "free"
  /\ lifecycle' = "main"
  /\ Goto("main", "stop") /\ job' = [job EXCEPT !["main"] = "exit"]
  /\ UNCHANGED <<processes, owned, saved, manager, answer, count>>

\* manager.stop() joins the operation again, then retries the cleanup.
Finish ==
  /\ pc["main"] = "finishing" /\ pc["op"] = "idle"
  /\ lifecycle' = "free"
  /\ \/ Goto("main", "stopped") /\ cleanup' = FALSE
     \/ cleanup /\ Goto("main", "raised") /\ UNCHANGED cleanup
  /\ UNCHANGED <<processes, owned, saved, phase, package, status, locked, job, answer, count>>

-----------------------------------------------------------------------------
(* execute and recover, in a handler thread                                *)

Request ==
  /\ pc["page"] = "idle" /\ ~locked /\ count.requests < Requests
  /\ pc["main"] \notin {"stopped", "raised"}

\* The lock is held while the worker is paused.
Execute ==
  /\ Request
  /\ phase = "ready" /\ ~cleanup /\ status # "running" /\ Mode = "business"
  /\ locked' = TRUE
  /\ Ask("page", "prepare") /\ Goto("page", "pausing")
  /\ Count("requests")
  /\ UNCHANGED <<worker, snapshot, reports, owned, saved, phase, package, status, cleanup, job, lifecycle>>

StartOperation(label, for) ==
  /\ pc' = [pc EXCEPT !["op"] = label, !["page"] = "idle"]
  /\ job' = [job EXCEPT !["op"] = for]

Unlock == locked' = FALSE /\ Goto("page", "idle")

ResumeWorker(t) ==
  IF Mode = "business"
  THEN Ask(t, "resume")
  ELSE answer' = [answer EXCEPT ![t] = "done"] /\ UNCHANGED commands

\* A failure to pause is raised outside the try block.  Once paused, the
\* plan is accepted and its thread starts, or the worker is resumed.
Paused ==
  /\ pc["page"] = "pausing" /\ Answered("page")
  /\ IF answer["page"] # "done"
     THEN /\ answer' = [answer EXCEPT !["page"] = "none"]
          /\ Unlock
          /\ UNCHANGED <<commands, session, lost, phase, package, status, job>>
     ELSE /\ session' = snapshot
          /\ lost' = FALSE
          /\ \/ /\ answer' = [answer EXCEPT !["page"] = "none"]
                /\ StartOperation("lock", "enter") /\ locked' = FALSE
                /\ phase' = "preparing" /\ package' = "failed" /\ status' = "running"
                /\ UNCHANGED commands
             \/ /\ ResumeWorker("page")
                /\ Goto("page", "resuming")
                /\ UNCHANGED <<phase, package, status, locked, job>>
  /\ UNCHANGED <<worker, snapshot, reports, owned, told, cleanup, lifecycle, count>>

Resumed ==
  /\ pc["page"] = "resuming" /\ Answered("page")
  /\ answer' = [answer EXCEPT !["page"] = "none"]
  /\ session' = IF answer["page"] = "done" THEN 0 ELSE session
  /\ Unlock
  /\ UNCHANGED <<processes, owned, lost, told, phase, package, status, cleanup, job, lifecycle, count>>

Recover ==
  /\ Request
  /\ phase = "recovery_failed" /\ pc["op"] = "idle"
  /\ phase' = "restoring" /\ status' = IF status = "none" THEN "none" ELSE "running"
  /\ StartOperation("retry", "restore")
  /\ Count("requests")
  /\ UNCHANGED <<processes, owned, saved, package, cleanup, locked, answer, lifecycle>>

-----------------------------------------------------------------------------
(* _run and _restore, in the operation thread                              *)

Lock ==
  /\ pc["op"] = "lock" /\ lifecycle = "free"
  /\ lifecycle' = "op"
  /\ IF job["op"] = "restore" /\ Alive(process) /\ Mode = "business"
        /\ ~flags.shutdown /\ flags.business
     THEN ResumeWorker("op") /\ Goto("op", "keeping")
     ELSE Goto("op", "stop") /\ UNCHANGED <<commands, answer>>
  /\ UNCHANGED <<worker, snapshot, reports, owned, saved, manager, job, count>>

\* The installer starts on the environment that was reviewed.
Stage ==
  /\ pc["op"] = "staging" /\ ~locked
  /\ phase' = "installing"
  /\ Goto("op", "installing")
  /\ UNCHANGED <<processes, owned, saved, package, status, cleanup, locked, job, answer, lifecycle, count>>

Install ==
  /\ pc["op"] = "installing" /\ ~locked
  /\ \E r \in {"succeeded", "failed"} :
       /\ package' = r
       /\ cleanup' \in (IF r = "failed" THEN BOOLEAN ELSE {FALSE})
  /\ Goto("op", "restore")
  /\ UNCHANGED <<processes, owned, saved, phase, status, locked, job, answer, lifecycle, count>>

\* Only an explicit retry cleans up after an installer that would not end.
Restore ==
  /\ pc["op"] \in {"restore", "retry"} /\ ~locked
  /\ job' = [job EXCEPT !["op"] = "restore"]
  /\ \/ /\ ~cleanup \/ pc["op"] = "retry"
        /\ cleanup' = FALSE /\ phase' = "restoring"
        /\ Goto("op", "lock")
     \/ /\ cleanup
        /\ Goto("op", "failed")
        /\ UNCHANGED <<cleanup, phase>>
  /\ UNCHANGED <<processes, owned, saved, package, status, locked, answer, lifecycle, count>>

\* restore_business resumed the worker it still had.
Kept ==
  /\ pc["op"] = "keeping" /\ Answered("op")
  /\ answer' = [answer EXCEPT !["op"] = "none"]
  /\ lifecycle' = "free"
  /\ IF answer["op"] = "done"
     THEN session' = 0 /\ Goto("op", "kept")
     ELSE UNCHANGED session /\ Goto("op", "failed")
  /\ UNCHANGED <<processes, owned, lost, told, manager, job, count>>

\* The last step of _restore: the task takes the package's result when the
\* service is back, and fails otherwise.
EndOperation ==
  /\ pc["op"] \in {"restored", "kept", "failed"} /\ ~locked
  /\ Goto("op", "idle")
  /\ IF pc["op"] = "failed"
     THEN /\ phase' = "recovery_failed"
          /\ status' = IF status = "none" THEN "none" ELSE "failed"
          /\ UNCHANGED told
     ELSE /\ phase' = "ready"
          /\ status' = IF status = "none" THEN "none" ELSE package
          /\ told' = IF lost /\ pc["op"] = "restored" THEN count.edits ELSE told
  /\ UNCHANGED <<processes, owned, session, lost, package, cleanup, locked, job, answer, lifecycle, count>>

-----------------------------------------------------------------------------
Lifecycle(t) ==
  StopWorker(t) \/ Asked(t) \/ Join(t) \/ Spawn(t) \/ Booted(t) \/ NotBooted(t) \/ Admitted(t)

MainStep == Lifecycle("main") \/ EnsureWorker \/ JoinOperation \/ LockToStop \/ Finish
OpStep == Lifecycle("op") \/ Lock \/ Stage \/ Install \/ Restore \/ Kept \/ EndOperation
PageStep == Paused \/ Resumed
WorkerStep(w) == Boot(w) \/ Exit(w) \/ LoseChannel(w) \/ EndWork(w)

SupervisorNext ==
  \/ MainStep \/ OpStep \/ PageStep \/ Signal \/ Execute \/ Recover
  \/ \E w \in Workers : WorkerStep(w) \/ BootFails(w) \/ Crash(w) \/ Work(w)
  \/ \E c \in commands : Handle(c) \/ TimeOut(c)
  \/ \E r \in reports : HandleReport(r)

SupervisorSpec == SupervisorInit /\ [][SupervisorNext]_supervisorVars

\* Threads and workers run.  A fault, a page's request or a signal need not come.
SupervisorFairness ==
  /\ WF_supervisorVars(MainStep) /\ WF_supervisorVars(OpStep) /\ WF_supervisorVars(PageStep)
  /\ \A w \in Workers : WF_supervisorVars(WorkerStep(w))
  /\ WF_supervisorVars(\E c \in commands : Handle(c))
  /\ WF_supervisorVars(\E r \in reports : HandleReport(r))

FairSupervisor == SupervisorSpec /\ SupervisorFairness

-----------------------------------------------------------------------------
(* Properties                                                              *)

SupervisorTypeOK ==
  /\ worker \in [Workers -> [life : {"gone", "booting", "serving", "draining"},
                             mode : {"none", "business", "maintenance"},
                             paused : BOOLEAN, busy : BOOLEAN, session : 0..Edits]]
  /\ commands \subseteq [to : Workers, method : {"prepare", "resume", "shutdown"},
                         by : Threads \cup {"nobody"}]
  /\ process \in Workers \cup {None} /\ open \in BOOLEAN
  /\ open => process # None
  /\ locked => pc["page"] \in {"pausing", "resuming"}
  /\ {snapshot, session, told} \subseteq 0..Edits /\ {lost, cleanup, locked} \subseteq BOOLEAN
  /\ phase \in {"preparing", "ready", "installing", "restoring", "recovery_failed"}
  /\ status \in {"none", "running", "succeeded", "failed"}
  /\ answer \in [Threads -> {"none", "awaited", "done", "refused", "lost"}]
  /\ lifecycle \in {"free", "main", "op"}

\* Two workers never share the listening socket: a replacement starts only
\* when its predecessor has really exited, and no process is disowned alive.
OneWorker == \A w \in Workers : Alive(w) => w = process

\* Packages change only while no business worker has them loaded, whatever
\* happened to the commands that stopped it.
PackagesChangeAlone ==
  pc["op"] = "installing" => \A w \in Workers : Alive(w) => worker[w].mode = "maintenance"

\* The worker that serves pages has every change they made to their session,
\* or the page has been told that the session is lost.
SessionKept ==
  \A w \in Workers :
    worker[w].life = "serving" /\ worker[w].mode = "business" /\ ~worker[w].paused /\ phase = "ready"
      => count.edits \in {worker[w].session, told}

\* A task that has ended is the truth: the package has that result and the
\* service has been restored, or it failed and the page may retry recovery.
TaskTruthful ==
  /\ status = "succeeded" => phase = "ready" /\ package = "succeeded"
  /\ phase = "ready" /\ pc["main"] = "loop" /\ pc["op"] = "idle" /\ Alive(process)
       => Mode = "business" /\ flags.business

\* A business worker counts as restored only once it serves admitted pages.
AdmissionConfirmed ==
  flags.business /\ Alive(process) => worker[process].life # "booting"

\* stop() waits for existing work: it comes back when no worker is left.
StopWaits == pc["main"] \in {"stopped", "raised"} => \A w \in Workers : ~Alive(w)

\* A worker paused for an operation is resumed or replaced.
PauseEnds ==
  \A w \in Workers :
    worker[w].life = "serving" /\ worker[w].mode = "business" /\ worker[w].paused
      ~> worker[w].life # "serving" \/ worker[w].mode # "business" \/ ~worker[w].paused

Leaving == pc["main"] \in {"joining", "locking", "finishing", "stopped", "raised"} \/ job["main"] = "exit"

\* After any exit some page can be reached again: a business worker or the
\* recovery page.
PageAvailable == []<>(Leaving \/ \E w \in Workers : worker[w].life = "serving")

\* A signal ends the service.
StopCompletes == pc["main"] = "joining" ~> pc["main"] \in {"stopped", "raised"}

\* Packages change beside no business worker, no two workers share the listener, and what the task
\* and the flags of the supervisor say of the service is true (Supervisor.enter_maintenance, _spawn).
\* Of an admission this holds if no report of an earlier worker is handled late.
InstallAlone ==
  /\ SupervisorTypeOK /\ PackagesChangeAlone /\ OneWorker /\ TaskTruthful
  /\ LateReports \/ AdmissionConfirmed

-----------------------------------------------------------------------------
(* Why they hold: what every step of every thread preserves                *)

\* Labels of the thread that stops and spawns a worker.
Swapping == {"stop", "asking", "joining worker", "spawn", "booting", "admitting"}

\* Where each thread can be; restore_business never finds a worker to keep.
PlacesOK ==
  /\ pc \in [Threads -> Swapping \cup {"idle", "loop", "joining", "locking", "finishing", "stopped",
       "raised", "pausing", "resuming", "lock", "staging", "installing", "restore", "retry",
       "restored", "failed"}]
  /\ job \in [Threads -> {"none", "start", "ensure", "exit", "enter", "restore", "fallback"}]
  /\ pc["main"] \in Swapping \cup {"loop", "joining", "locking", "finishing", "stopped", "raised"}
  /\ job["main"] \in {"start", "ensure", "exit"}
  /\ pc["page"] \in {"idle", "pausing", "resuming"}
  /\ pc["op"] \in Swapping \cup {"idle", "lock", "staging", "installing", "restore", "retry",
       "restored", "failed"}
  /\ pc["op"] \in Swapping => job["op"] \in {"enter", "restore", "fallback"}
  /\ pc["op"] = "lock" => job["op"] \in {"enter", "restore"}

RecordsOK ==
  /\ flags \in [ready : BOOLEAN, failed : BOOLEAN, business : BOOLEAN, shutdown : BOOLEAN]
  /\ package \in {"succeeded", "failed"}
  /\ count \in [requests : Nat, faults : Nat, edits : 0..Edits]
  /\ \A r \in reports : r.from \in Workers /\ worker[r.from].life # "booting"

\* One thread at a time replaces the worker: the holder of the lifecycle lock,
\* or the main thread at the start, when no other thread can act.
LocksInOrder ==
  /\ lifecycle = "op" <=> pc["op"] \in Swapping
  /\ lifecycle = "main" <=>
       pc["main"] \in Swapping \cup {"finishing"} /\ job["main"] \in {"ensure", "exit"}
  /\ locked <=> pc["page"] # "idle"
  /\ locked => phase = "ready"
  /\ status = "succeeded" => phase = "ready" /\ package = "succeeded"
  /\ pc["op"] # "idle" => phase \in {"preparing", "installing", "restoring"} /\ status \in {"none", "running"}
  /\ pc["main"] \in Swapping /\ job["main"] = "start" =>
       pc["main"] \in {"spawn", "booting", "admitting"} /\ phase = "preparing" /\ pc["op"] = "idle"
  /\ pc["main"] \in Swapping /\ job["main"] = "ensure" =>
       /\ pc["main"] # "admitting" /\ phase \in {"recovery_failed", "restoring"}
       /\ pc["op"] \in {"idle", "retry", "lock", "failed"}
       /\ pc["op"] = "lock" => job["op"] = "restore"
  /\ pc["main"] \in Swapping /\ job["main"] = "exit" => pc["main"] \in {"stop", "asking", "joining worker"}

\* The one worker is the one that the phase and its place in the job call for.
WorkerInOrder ==
  /\ OneWorker
  /\ open => Alive(process)
  /\ \A t \in {"main", "op"} :
       /\ pc[t] \in {"booting", "admitting"} => process # None /\ Mode = Target(t)
       /\ pc[t] = "admitting" => Target(t) = "business"
  /\ phase = "ready" \/ pc["op"] = "restored" => process = None \/ Mode = "business"
  /\ pc["op"] \in {"staging", "installing"} => process = None \/ Mode = "maintenance"

\* _business_ready stands for a worker that was admitted and is not being stopped.
FlagsInOrder ==
  /\ flags.business =>
       /\ process # None
       /\ \/ phase = "ready" \/ pc["op"] = "restored"
          \/ pc["op"] \in {"lock", "stop"} /\ job["op"] = "enter"
          \/ pc["main"] = "stop" /\ job["main"] = "ensure"
  /\ \A t \in {"main", "op"} : pc[t] \in Swapping \ {"stop"} => ~flags.business
  /\ pc["main"] = "loop" /\ (phase = "ready" \/ pc["op"] = "restored") /\ Alive(process) => flags.business

\* A command is on its way to a live worker, for a thread that waits for its answer or for none.
Awaits(c) ==
  \/ c.by = "page" /\ c.method = "prepare" /\ pc["page"] = "pausing"
  \/ c.by = "page" /\ c.method = "resume" /\ pc["page"] = "resuming"
  \/ c.by \in {"main", "op"} /\ c.method = "shutdown" /\ pc[c.by] = "asking"
  \/ c.by \in {"main", "op"} /\ c.method = "resume" /\ pc[c.by] = "admitting"

CommandsInOrder ==
  /\ \A c \in commands :
       Alive(c.to) /\ (c.by # "nobody" => answer[c.by] = "awaited" /\ Awaits(c))
  /\ \A t \in {"main", "op"} : pc[t] = "booting" => commands = {}

\* Readiness was reported by the worker that is there.
ReadyIsTrue ==
  process # None /\ (flags.ready \/ flags.business \/ \E t \in {"main", "op"} : pc[t] = "admitting")
    => worker[process].life # "booting"

SupervisorInv ==
  /\ SupervisorTypeOK /\ PlacesOK /\ RecordsOK /\ LocksInOrder /\ WorkerInOrder /\ FlagsInOrder
  /\ CommandsInOrder
  /\ LateReports \/ ReadyIsTrue

\* Where the latest change to the session is: in the worker while it serves, in the answer to
\* prepare, in the supervisor while the worker is replaced; or the page is or will be told.
Latest(x) == x = count.edits \/ told = count.edits

Serving(w) == worker[w].life \in {"booting", "serving"} /\ worker[w].mode = "business"

\* No wait for the answer that admits a worker times out.
AdmissionInTime == \A c \in commands : c.method = "resume" => ~TimeOut(c)

Resuming == \E t \in {"main", "op"} : pc[t] = "admitting" /\ answer[t] = "done"

SessionInv ==
  /\ \A c \in commands : c.method = "resume" => c.by # "nobody"
  /\ pc["main"] \in Swapping /\ job["main"] = "start" => ~lost
  /\ phase = "ready" => \A w \in Workers : Serving(w) => Latest(worker[w].session)
  /\ pc["page"] = "pausing" /\ answer["page"] = "done" =>
       /\ Latest(snapshot)
       /\ \A w \in Workers : Serving(w) => worker[w].paused /\ worker[w].session = snapshot
  /\ IF pc["op"] = "restored" \/ Resuming
     THEN \A w \in Workers : Serving(w) => Latest(worker[w].session) \/ lost
     ELSE phase # "ready" =>
            /\ Latest(session) \/ lost
            /\ \A w \in Workers : Serving(w) => worker[w].paused /\ worker[w].session = session
=============================================================================
