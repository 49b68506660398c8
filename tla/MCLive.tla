-------------------------------- MODULE MCLive --------------------------------
(***************************************************************************)
(* What must eventually happen, in the parts of the service that share no  *)
(* state: a behaviour is one of part, and the others stay where they       *)
(* start.  The fairness is that of each part's own specification, for its  *)
(* steps in the composition.                                               *)
(***************************************************************************)
EXTENDS TLC, Naturals, FiniteSets

CONSTANTS
  Free, NoConn, NoJob, c1, a, r1, main, k1, j1,
  NoValue,
  supervisor, worker, q, r, q2, r2,
  None, w1, w2

VARIABLES
  part,
  conn, adapter, lock, owner, job, req, wrk, paused, counts, closer, todo, http,
  exiting, connected, released, exported,
  pc, seen, rows, delivered, row, taken, pos, tries, retries, attempts, left, size, queue,
  call, returned, stored, woken, pending, answers, task, handled, sending, writer, pipe,
  receiving, closed, shut,
  process_, commands, reports, process, open, flags, snapshot, session, lost, told, phase,
  package, status, cleanup, place, control, answer, lifecycle, locked, count,
  mode, runPc, rec, mem, cur, total, failed, committed, runJob, db, staged, old, sources,
  reviewed, erased, faults, deaths

webVars == <<conn, adapter, lock, owner, job, req, wrk, paused, counts, closer, todo, http,
  exiting, connected, released, exported>>
streamVars == <<pc, seen, rows, delivered, row, taken, pos, tries, retries, attempts, left,
  size, queue>>
channelVars == <<call, returned, stored, woken, pending, answers, task, handled, sending,
  writer, pipe, receiving, closed, shut>>
supVars == <<process_, commands, reports, process, open, flags, snapshot, session, lost, told,
  phase, package, status, cleanup, place, control, answer, lifecycle, locked, count>>
runVars == <<mode, runPc, rec, mem, cur, total, failed, committed, runJob, db, staged, old,
  sources, reviewed, erased, faults, deaths>>
vars == <<part, webVars, streamVars, channelVars, supVars, runVars>>

\* One connection, a page, a command and one background job.
Web == INSTANCE WebRuntime WITH
  Conns <- {c1}, Endpoints <- {a}, Offered <- {"connect", "close", "fill", "auto_heal"},
  Requests <- {r1, main, k1}, Jobs <- {j1}, Target <- c1 :> {a},
  MainThread <- main, Commands <- {k1}, Restorable <- {c1}, Serial <- TRUE,
  phase <- closer

\* A UNIQUE column, a covered one and one derived from it, over a small table.
Stream == INSTANCE DataStream WITH
  N <- 3, Values <- {1, 2, 3}, Null <- NoValue, Unique <- {1}, Composites <- {{2, 3}},
  Inequalities <- {<<1, 2>>}, Permitted <- [e \in {<<1, 2>>} |-> {x \in {1, 2, 3} \X {1, 2, 3} : x[1] # x[2]}],
  Allowed <- <<{1, 2, 3}, {1, 2, 3}, {1, 2}>>, Existing <- {[c \in {1} |-> 3]},
  Skipped <- {}, Sources <- <<{}, {}, {2}>>,
  Domain <- <<{1, 2, NoValue}, {1, 2}, {1, 2, 3}>>, Covered <- {2},
  MaxTries <- 2, MaxRetries <- 2, Budget <- 0, MaxRows <- 2

\* Each process asks the other, and may be answering one request.
Channel == INSTANCE ControlChannel WITH
  Sides <- {supervisor, worker}, Calls <- {q, r}, Caller <- q :> worker @@ r :> supervisor,
  MaxPending <- 2, MaxAnswers <- 1, Capacity <- 1

\* Both are answering as many as they may, so that either refuses two more.
FullChannel == INSTANCE ControlChannel WITH
  Sides <- {supervisor, worker}, Calls <- {q, q2, r, r2},
  Caller <- q :> worker @@ q2 :> worker @@ r :> supervisor @@ r2 :> supervisor,
  MaxPending <- 2, MaxAnswers <- 0, Capacity <- 1

\* The sides are alike and so are the calls of one; a call refused at once is as
\* good as not made, and these wait for ever.
InOrder ==
  /\ \A c \in {q2, r} : call'[c] # "new" => call'[q] # "new"
  /\ call'[r2] # "new" => call'[r] # "new"
  /\ \A c \in {q, q2, r, r2} : returned'[c] \notin {"unavailable", "timeout"}

\* Two requests and a fault.
Sup == INSTANCE Supervisor WITH
  Workers <- {w1, w2}, Requests <- 2, Faults <- 1, Edits <- 1, Slow <- {"shutdown", "exit"},
  LateReports <- FALSE, MayStop <- FALSE,
  worker <- process_, pc <- place, job <- control

Run == INSTANCE WorkbenchRun WITH
  N <- 2, Want <- 2, Modes <- {"append", "atomic", "replace"}, MaxSourceChanges <- 1,
  MaxFaults <- 2, MaxDeaths <- 1, SecondServer <- TRUE, pc <- runPc, job <- runJob

Init ==
  /\ part \in {"web", "stream", "channel", "full channel", "supervisor", "run"}
  /\ Web!RuntimeInit /\ Stream!Init /\ FullChannel!ChannelInit /\ Sup!SupervisorInit /\ Run!RunInit
  /\ part = "web" \/ todo[main] = {}
  /\ part = "run" \/ mode = "append"

Next ==
  /\ UNCHANGED part
  /\ \/ part = "web" /\ Web!RuntimeNext /\ UNCHANGED <<streamVars, channelVars, supVars, runVars>>
     \/ part = "stream" /\ Stream!Next /\ UNCHANGED <<webVars, channelVars, supVars, runVars>>
     \/ part = "channel" /\ Channel!ChannelNext /\ UNCHANGED <<webVars, streamVars, supVars, runVars>>
     \/ /\ part = "full channel" /\ FullChannel!ChannelNext /\ InOrder
        /\ UNCHANGED <<webVars, streamVars, supVars, runVars>>
     \/ part = "supervisor" /\ Sup!SupervisorNext /\ UNCHANGED <<webVars, streamVars, channelVars, runVars>>
     \/ part = "run" /\ Run!RunNext /\ UNCHANGED <<webVars, streamVars, channelVars, supVars>>

\* RuntimeFairness: threads run on once started.
WebFairness ==
  /\ WF_webVars(part = "web" /\ Web!ClientStep(r1))
  /\ WF_webVars(part = "web" /\ Web!JobStep(j1))
  /\ \A t \in {main, k1} : WF_webVars(part = "web" /\ Web!SessionStep(t))
  /\ WF_webVars(part = "web" /\ Web!CommandStep(k1))
  /\ WF_webVars(part = "web" /\ (Web!MainStep \/ Web!RestoreConnection(c1)))
  /\ WF_webVars(part = "web" /\ Web!HttpStep)

\* generate, once resumed, runs to its next yield.
StreamFairness == WF_streamVars(part = "stream" /\ Stream!GenerateRow)

\* Both processes run, the pipe delivers and timers fire.  A channel carries a
\* bounded number of messages, so that fairness of all the steps of
\* ChannelFairness together is fairness of each.
Transport ==
  \E s \in {supervisor, worker} :
    \/ FullChannel!SendBytes(s) \/ FullChannel!Receive(s)
    \/ FullChannel!EndOfStream(s) \/ FullChannel!ShutDown(s)
    \/ \E m \in sending[s] : FullChannel!TakeSendLock(s, m)

ChannelFairness ==
  WF_channelVars(
    \/ /\ part = "channel"
       /\ \/ Transport
          \/ \E s \in {supervisor, worker} : Channel!Read(s)
          \/ \E c \in {q, r} : Channel!Return(c) \/ Channel!Timeout(c)
    \/ /\ part = "full channel"
       /\ \/ Transport
          \/ \E s \in {supervisor, worker} : FullChannel!Read(s)
          \/ \E c \in {q, q2, r, r2} : FullChannel!Return(c))

\* The threads of the supervisor and its workers run.
SupFairness ==
  /\ WF_supVars(part = "supervisor" /\ Sup!MainStep)
  /\ WF_supVars(part = "supervisor" /\ Sup!OpStep)
  /\ WF_supVars(part = "supervisor" /\ Sup!PageStep)
  /\ \A w \in {w1, w2} : WF_supVars(part = "supervisor" /\ Sup!WorkerStep(w))
  /\ WF_supVars(part = "supervisor" /\ \E c \in commands : Sup!Handle(c))
  /\ WF_supVars(part = "supervisor" /\ \E m \in reports : Sup!HandleReport(m))

\* The worker thread runs on, and the user starts the server again.
RunFairness ==
  /\ WF_runVars(part = "run" /\ Run!Work)
  /\ WF_runVars(part = "run" /\ Run!Restart)

FairSpec ==
  /\ Init /\ [][Next]_vars
  /\ WebFairness /\ StreamFairness /\ ChannelFairness /\ SupFairness /\ RunFairness

\* A worker whose supervisor is gone leaves, every job ends and every lock is returned
\* (managed_worker.run_worker, UIState.job_completion).
OrphanedWorkerExits == part = "web" => Web!OrphanedWorkerExits /\ Web!JobsEnd /\ Web!LocksAreReturned
\* A generation that is resumed ends (DataStream.generate).
GenerationEnds == Stream!GenerationEnds
\* A call over the channel returns, and its close is noticed on the other side, unless both readers
\* wait for a send lock to answer busy (ControlChannel.call, _send, _start_answer).
EveryCallReturns ==
  /\ part = "channel" => Channel!EveryCallReturns
  /\ part = "full channel" => FullChannel!EveryCallReturns
\* A page is served again after an operation or a crash (Supervisor.ensure_worker).
PageAvailable == part = "supervisor" => Sup!PageAvailable
\* The record of a run and its job end, by its worker or by the next start (_initialize).
RecordEnds == Run!RecordEnds /\ Run!JobEnds
=============================================================================
