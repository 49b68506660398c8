--------------------------- MODULE WebRuntimeProofs ---------------------------
(***************************************************************************)
(* Proofs about UIState and WebRuntime. In the first part one lemma per    *)
(* action of UIState shows that it keeps the inductive invariant IInv. The *)
(* second shows that the gate's counters are exact, whatever the           *)
(* supervisor does, and that, when commands are serial, connections are    *)
(* only closed behind a closed and idle gate.                              *)
(***************************************************************************)
EXTENDS WebRuntime, FiniteSetTheorems, TLAPS

(* What Goto and CompleteJob change, stated once so that the proofs below  *)
(* need not look inside the records.                                       *)

RequestMoves(r, labels, ops, c, j) ==
  /\ req' \in [Requests -> RequestRecord]
  /\ req'[r].pc \in labels
  /\ req'[r].op \in ops
  /\ req'[r].conn = c
  /\ req'[r].job = j
  /\ \A q \in Requests \ {r} : req'[q] = req[q]

JobEnds(j) ==
  /\ job' \in [Jobs -> JobRecord]
  /\ job'[j].status \in {"done", "error"}
  /\ job'[j].conn = job[j].conn
  /\ job'[j].kind = job[j].kind
  /\ \A i \in Jobs \ {j} : job'[i] = job[i]

\* Ending a job cannot make two running jobs write to a common endpoint.
LEMMA ExclusionSurvivesJobEnd ==
  ASSUME WriteExclusion, NEW j \in Jobs, JobEnds(j)
  PROVE  WriteExclusion'
  BY DEF WriteExclusion, JobEnds, Running

\* Nor can creating one whose connection shares no endpoint with a running
\* generation job's.
LEMMA ExclusionSurvivesCreation ==
  ASSUME WriteExclusion, NEW j \in Jobs, NEW c \in Conns, NEW kind \in Kinds,
         job'[j] = [conn |-> c, kind |-> kind, status |-> "running"],
         \A i \in Jobs \ {j} : job'[i] = job[i],
         \A i \in Jobs \ {j} :
           Running(i) /\ job[i].kind \in WriteKinds /\ kind \in WriteKinds
           => Target[job[i].conn] \cap Target[c] = {}
  PROVE  WriteExclusion'
<1>1. \A i \in Jobs \ {j} :
        Running(i) /\ job[i].kind \in WriteKinds /\ kind \in WriteKinds
        => Target[c] \cap Target[job[i].conn] = {}
  OBVIOUS
<1>. QED BY <1>1 DEF WriteExclusion, Running

USE IdentityAssumption DEF IInv, TypeOK, Running, SharesEndpoint, HoldsTicket,
                           Threads, RequestMoves, JobEnds

\* Goto moves one request's program counter and nothing else.
LEMMA GotoFacts ==
  ASSUME TypeOK, NEW r \in Requests, NEW label \in RequestLabels, Goto(r, label)
  PROVE  RequestMoves(r, {label}, {req[r].op}, req[r].conn, req[r].job)
<1>1. req[r] \in RequestRecord
  OBVIOUS
<1>2. req' = [req EXCEPT ![r] = [req[r] EXCEPT !.pc = label]]
  BY DEF Goto
<1>3. [req[r] EXCEPT !.pc = label] \in RequestRecord
  BY <1>1 DEF RequestRecord
<1>. QED BY <1>1, <1>2, <1>3 DEF RequestRecord

\* CompleteJob ends one job and leaves the others alone.
LEMMA CompleteJobFacts ==
  ASSUME TypeOK, NEW j \in Jobs, NEW status \in {"done", "error"}, CompleteJob(j, status)
  PROVE  JobEnds(j)
<1>1. job[j] \in JobRecord
  OBVIOUS
<1>2. job' = [job EXCEPT ![j] = [job[j] EXCEPT !.status = status]]
  BY DEF CompleteJob
<1>3. [job[j] EXCEPT !.status = status] \in JobRecord
  BY <1>1 DEF JobRecord
<1>. QED BY <1>1, <1>2, <1>3 DEF JobRecord

\* Arrive keeps the invariant.
LEMMA ArriveInv ==
  ASSUME IInv, NEW r \in Requests, NEW op \in Ops, NEW c \in Conns,
         Arrive(r, op, c)
  PROVE  IInv'
<1> USE DEF Arrive
<1>0. RequestMoves(r, {"arrived"}, {op}, c, NoJob)
  BY DEF RequestRecord, RequestLabels
<1>1. TypeOK'
  BY <1>0 DEF Ticketed
<1>2. Ticketed'
  BY <1>0 DEF Ticketed, WorkersMatchJobs
<1>3. (WorkersMatchJobs /\ OneJobPerConnection /\ WriteExclusion)'
  BY <1>0 DEF WorkersMatchJobs, Ticketed, OneJobPerConnection, WriteExclusion
<1>4. (HoldersAreInside /\ ClosersHoldTheLock)'
  BY <1>0 DEF HoldersAreInside, ClosersHoldTheLock, Ticketed, OperationsHoldTheirConnection
<1>5. OperationsHoldTheirConnection'
  BY <1>0 DEF OperationsHoldTheirConnection, HoldersAreInside, Ticketed, WorkersMatchJobs,
     ClosersHoldTheLock
<1>6. ReservedConnectionIsQuiet'
  BY <1>0 DEF Ticketed, WorkersMatchJobs, HoldersAreInside, ClosersHoldTheLock,
     OneJobPerConnection, OperationsHoldTheirConnection, ReservedConnectionIsQuiet
<1>. QED BY <1>1, <1>2, <1>3, <1>4, <1>5, <1>6

\* Register keeps the invariant.
LEMMA RegisterInv ==
  ASSUME IInv, NEW r \in Requests, Register(r)
  PROVE  IInv'
<1> USE DEF Register
<1>0. RequestMoves(r, {"using", "done"}, {req[r].op}, req[r].conn, req[r].job)
  BY GotoFacts DEF RequestLabels
<1>1. TypeOK'
  BY <1>0 DEF Ticketed
<1>2. Ticketed'
  BY <1>0 DEF Ticketed, WorkersMatchJobs
<1>3. (WorkersMatchJobs /\ OneJobPerConnection /\ WriteExclusion)'
  BY <1>0 DEF WorkersMatchJobs, Ticketed, OneJobPerConnection, WriteExclusion
<1>4. (HoldersAreInside /\ ClosersHoldTheLock)'
  BY <1>0 DEF HoldersAreInside, ClosersHoldTheLock, Ticketed, OperationsHoldTheirConnection
<1>5. OperationsHoldTheirConnection'
  BY <1>0 DEF OperationsHoldTheirConnection, HoldersAreInside, Ticketed, WorkersMatchJobs,
     ClosersHoldTheLock
<1>6. ReservedConnectionIsQuiet'
  BY <1>0 DEF Ticketed, WorkersMatchJobs, HoldersAreInside, ClosersHoldTheLock,
     OneJobPerConnection, OperationsHoldTheirConnection, ReservedConnectionIsQuiet
<1>. QED BY <1>1, <1>2, <1>3, <1>4, <1>5, <1>6

\* Lookup keeps the invariant.
LEMMA LookupInv ==
  ASSUME IInv, NEW r \in Requests, Lookup(r)
  PROVE  IInv'
<1> USE DEF Lookup
<1>0. RequestMoves(r, {"using", "done"}, {req[r].op}, req[r].conn, req[r].job)
  BY GotoFacts DEF RequestLabels
<1>1. TypeOK'
  BY <1>0 DEF Ticketed
<1>2. Ticketed'
  BY <1>0 DEF Ticketed, WorkersMatchJobs
<1>3. (WorkersMatchJobs /\ OneJobPerConnection /\ WriteExclusion)'
  BY <1>0 DEF WorkersMatchJobs, Ticketed, OneJobPerConnection, WriteExclusion
<1>4. (HoldersAreInside /\ ClosersHoldTheLock)'
  BY <1>0 DEF HoldersAreInside, ClosersHoldTheLock, Ticketed, OperationsHoldTheirConnection
<1>5. OperationsHoldTheirConnection'
  BY <1>0 DEF OperationsHoldTheirConnection, HoldersAreInside, Ticketed, WorkersMatchJobs,
     ClosersHoldTheLock
<1>6. ReservedConnectionIsQuiet'
  BY <1>0 DEF Ticketed, WorkersMatchJobs, HoldersAreInside, ClosersHoldTheLock,
     OneJobPerConnection, OperationsHoldTheirConnection, ReservedConnectionIsQuiet
<1>. QED BY <1>1, <1>2, <1>3, <1>4, <1>5, <1>6

\* Query keeps the invariant.
LEMMA QueryInv ==
  ASSUME IInv, NEW r \in Requests, Query(r)
  PROVE  IInv'
<1> USE DEF Query, EnsureConnected
<1>1. TypeOK'
  BY DEF Ticketed
<1>2. Ticketed'
  BY DEF Ticketed, WorkersMatchJobs
<1>3. (WorkersMatchJobs /\ OneJobPerConnection /\ WriteExclusion)'
  BY DEF WorkersMatchJobs, Ticketed, OneJobPerConnection, WriteExclusion
<1>4. (HoldersAreInside /\ ClosersHoldTheLock)'
  BY DEF HoldersAreInside, ClosersHoldTheLock, Ticketed, OperationsHoldTheirConnection
<1>5. OperationsHoldTheirConnection'
  BY DEF OperationsHoldTheirConnection, HoldersAreInside, Ticketed, WorkersMatchJobs,
     ClosersHoldTheLock
<1>6. ReservedConnectionIsQuiet'
  BY DEF Ticketed, WorkersMatchJobs, HoldersAreInside, ClosersHoldTheLock,
     OneJobPerConnection, OperationsHoldTheirConnection, ReservedConnectionIsQuiet
<1>. QED BY <1>1, <1>2, <1>3, <1>4, <1>5, <1>6

\* FinishUse keeps the invariant.
LEMMA FinishUseInv ==
  ASSUME IInv, NEW r \in Requests, FinishUse(r)
  PROVE  IInv'
<1> USE DEF FinishUse
<1>0. RequestMoves(r, {"done", "arrived"}, Ops, req[r].conn, req[r].job)
  <2>1. req[r] \in RequestRecord /\ req[r].op \in Ops
    BY DEF Ticketed
  <2>2. CASE Goto(r, "done")
    BY <2>1, <2>2, GotoFacts DEF RequestLabels
  <2>3. CASE req' = [req EXCEPT ![r].pc = "arrived", ![r].op = "close"]
    <3>1. req' = [req EXCEPT ![r] = [req[r] EXCEPT !.pc = "arrived", !.op = "close"]]
      BY <2>3
    <3>2. [req[r] EXCEPT !.pc = "arrived", !.op = "close"] \in RequestRecord
      BY <2>1 DEF RequestRecord, RequestLabels, Ops
    <3>. QED BY <2>1, <3>1, <3>2 DEF RequestRecord, Ops
  <2>. QED BY <2>2, <2>3
<1>1. TypeOK'
  BY <1>0 DEF Ticketed
<1>2. Ticketed'
  BY <1>0 DEF Ticketed, WorkersMatchJobs
<1>3. (WorkersMatchJobs /\ OneJobPerConnection /\ WriteExclusion)'
  BY <1>0 DEF WorkersMatchJobs, Ticketed, OneJobPerConnection, WriteExclusion
<1>4. (HoldersAreInside /\ ClosersHoldTheLock)'
  BY <1>0 DEF HoldersAreInside, ClosersHoldTheLock, Ticketed, OperationsHoldTheirConnection
<1>5. OperationsHoldTheirConnection'
  BY <1>0 DEF OperationsHoldTheirConnection, HoldersAreInside, Ticketed, WorkersMatchJobs,
     ClosersHoldTheLock
<1>6. ReservedConnectionIsQuiet'
  BY <1>0 DEF Ticketed, WorkersMatchJobs, HoldersAreInside, ClosersHoldTheLock,
     OneJobPerConnection, OperationsHoldTheirConnection, ReservedConnectionIsQuiet
<1>. QED BY <1>1, <1>2, <1>3, <1>4, <1>5, <1>6

\* CloseBegin keeps the invariant.
LEMMA CloseBeginInv ==
  ASSUME IInv, NEW r \in Requests, CloseBegin(r)
  PROVE  IInv'
<1> USE DEF CloseBegin
<1> DEFINE c == req[r].conn
<1>1. c \in Conns
  BY DEF Ticketed
<1>2. CASE CloseAdmissible(c)
  <2>0. RequestMoves(r, {"disposing"}, {req[r].op}, req[r].conn, req[r].job)
    BY <1>2, GotoFacts DEF RequestLabels
  <2>1. TypeOK'
    BY <1>2, <1>1, <2>0 DEF Ticketed, CloseAdmissible
  <2>2. Ticketed'
    BY <1>2, <1>1, <2>0 DEF Ticketed, WorkersMatchJobs, CloseAdmissible
  <2>3. (WorkersMatchJobs /\ OneJobPerConnection /\ WriteExclusion)'
    BY <1>2, <1>1, <2>0 DEF WorkersMatchJobs, Ticketed, OneJobPerConnection, WriteExclusion,
       CloseAdmissible
  <2>4. (HoldersAreInside /\ ClosersHoldTheLock)'
    BY <1>2, <1>1, <2>0 DEF HoldersAreInside, ClosersHoldTheLock, Ticketed,
       OperationsHoldTheirConnection, CloseAdmissible
  <2>5. OperationsHoldTheirConnection'
    BY <1>2, <1>1, <2>0 DEF OperationsHoldTheirConnection, HoldersAreInside, Ticketed,
       WorkersMatchJobs, ClosersHoldTheLock, CloseAdmissible
  <2>6. ReservedConnectionIsQuiet'
    BY <1>2, <1>1, <2>0 DEF Ticketed, WorkersMatchJobs, HoldersAreInside,
       ClosersHoldTheLock, OneJobPerConnection, OperationsHoldTheirConnection,
       ReservedConnectionIsQuiet, CloseAdmissible
  <2>. QED BY <2>1, <2>2, <2>3, <2>4, <2>5, <2>6
<1>3. CASE ~CloseAdmissible(c)
  <2>0. RequestMoves(r, {"done"}, {req[r].op}, req[r].conn, req[r].job)
    BY <1>3, GotoFacts DEF RequestLabels
  <2>1. TypeOK'
    BY <1>3, <1>1, <2>0 DEF Ticketed
  <2>2. Ticketed'
    BY <1>3, <1>1, <2>0 DEF Ticketed, WorkersMatchJobs
  <2>3. (WorkersMatchJobs /\ OneJobPerConnection /\ WriteExclusion)'
    BY <1>3, <1>1, <2>0 DEF WorkersMatchJobs, Ticketed, OneJobPerConnection, WriteExclusion
  <2>4. (HoldersAreInside /\ ClosersHoldTheLock)'
    BY <1>3, <1>1, <2>0 DEF HoldersAreInside, ClosersHoldTheLock, Ticketed,
       OperationsHoldTheirConnection
  <2>5. OperationsHoldTheirConnection'
    BY <1>3, <1>1, <2>0 DEF OperationsHoldTheirConnection, HoldersAreInside, Ticketed,
       WorkersMatchJobs, ClosersHoldTheLock
  <2>6. ReservedConnectionIsQuiet'
    BY <1>3, <1>1, <2>0 DEF Ticketed, WorkersMatchJobs, HoldersAreInside,
       ClosersHoldTheLock, OneJobPerConnection, OperationsHoldTheirConnection,
       ReservedConnectionIsQuiet
  <2>. QED BY <2>1, <2>2, <2>3, <2>4, <2>5, <2>6
<1>. QED BY <1>2, <1>3

\* Dispose keeps the invariant.
LEMMA DisposeInv ==
  ASSUME IInv, NEW r \in Requests, Dispose(r)
  PROVE  IInv'
<1> USE DEF Dispose
<1>0. RequestMoves(r, {"done"}, {req[r].op}, req[r].conn, req[r].job)
  BY GotoFacts DEF RequestLabels
<1>1. TypeOK'
  BY <1>0 DEF Ticketed
<1>2. Ticketed'
  BY <1>0 DEF Ticketed, WorkersMatchJobs
<1>3. (WorkersMatchJobs /\ OneJobPerConnection /\ WriteExclusion)'
  BY <1>0 DEF WorkersMatchJobs, Ticketed, OneJobPerConnection, WriteExclusion
<1>4. (HoldersAreInside /\ ClosersHoldTheLock)'
  BY <1>0 DEF HoldersAreInside, ClosersHoldTheLock, Ticketed, OperationsHoldTheirConnection
<1>5. OperationsHoldTheirConnection'
  BY <1>0 DEF OperationsHoldTheirConnection, HoldersAreInside, Ticketed, WorkersMatchJobs,
     ClosersHoldTheLock
<1>6. ReservedConnectionIsQuiet'
  BY <1>0 DEF Ticketed, WorkersMatchJobs, HoldersAreInside, ClosersHoldTheLock,
     OneJobPerConnection, OperationsHoldTheirConnection, ReservedConnectionIsQuiet
<1>. QED BY <1>1, <1>2, <1>3, <1>4, <1>5, <1>6

\* Admit keeps the invariant.
LEMMA AdmitInv ==
  ASSUME IInv, NEW r \in Requests, Admit(r)
  PROVE  IInv'
<1> USE DEF Admit
<1> DEFINE c == req[r].conn
<1>1. c \in Conns
  BY DEF Ticketed
<1>2. CASE OperationAdmissible(c, req[r].op \in WriteKinds, NoJob)
  <2>0. RequestMoves(r, {"operating"}, {req[r].op}, req[r].conn, req[r].job)
    BY <1>2, GotoFacts DEF RequestLabels
  <2>1. TypeOK'
    BY <1>2, <1>1, <2>0 DEF Ticketed, OperationAdmissible, JobAdmissible, EnterOperation
  <2>2. Ticketed'
    BY <1>2, <1>1, <2>0 DEF Ticketed, WorkersMatchJobs, OperationAdmissible, JobAdmissible,
       EnterOperation
  <2>3. (WorkersMatchJobs /\ OneJobPerConnection /\ WriteExclusion)'
    BY <1>2, <1>1, <2>0 DEF WorkersMatchJobs, Ticketed, OneJobPerConnection, WriteExclusion,
       OperationAdmissible, JobAdmissible, EnterOperation
  <2>4. (HoldersAreInside /\ ClosersHoldTheLock)'
    BY <1>2, <1>1, <2>0 DEF HoldersAreInside, ClosersHoldTheLock, Ticketed,
       OperationsHoldTheirConnection, OperationAdmissible, JobAdmissible, EnterOperation
  <2>5. OperationsHoldTheirConnection'
    BY <1>2, <1>1, <2>0 DEF OperationsHoldTheirConnection, HoldersAreInside, Ticketed,
       WorkersMatchJobs, ClosersHoldTheLock, OperationAdmissible, JobAdmissible, EnterOperation
  <2>6. ReservedConnectionIsQuiet'
    BY <1>2, <1>1, <2>0 DEF Ticketed, WorkersMatchJobs, HoldersAreInside,
       ClosersHoldTheLock, OneJobPerConnection, OperationsHoldTheirConnection,
       ReservedConnectionIsQuiet, OperationAdmissible, JobAdmissible, EnterOperation
  <2>. QED BY <2>1, <2>2, <2>3, <2>4, <2>5, <2>6
<1>3. CASE ~OperationAdmissible(c, req[r].op \in WriteKinds, NoJob)
  <2>0. RequestMoves(r, {"done"}, {req[r].op}, req[r].conn, req[r].job)
    BY <1>3, GotoFacts DEF RequestLabels
  <2>1. TypeOK'
    BY <1>3, <1>1, <2>0 DEF Ticketed
  <2>2. Ticketed'
    BY <1>3, <1>1, <2>0 DEF Ticketed, WorkersMatchJobs
  <2>3. (WorkersMatchJobs /\ OneJobPerConnection /\ WriteExclusion)'
    BY <1>3, <1>1, <2>0 DEF WorkersMatchJobs, Ticketed, OneJobPerConnection, WriteExclusion
  <2>4. (HoldersAreInside /\ ClosersHoldTheLock)'
    BY <1>3, <1>1, <2>0 DEF HoldersAreInside, ClosersHoldTheLock, Ticketed,
       OperationsHoldTheirConnection
  <2>5. OperationsHoldTheirConnection'
    BY <1>3, <1>1, <2>0 DEF OperationsHoldTheirConnection, HoldersAreInside, Ticketed,
       WorkersMatchJobs, ClosersHoldTheLock
  <2>6. ReservedConnectionIsQuiet'
    BY <1>3, <1>1, <2>0 DEF Ticketed, WorkersMatchJobs, HoldersAreInside,
       ClosersHoldTheLock, OneJobPerConnection, OperationsHoldTheirConnection,
       ReservedConnectionIsQuiet
  <2>. QED BY <2>1, <2>2, <2>3, <2>4, <2>5, <2>6
<1>. QED BY <1>2, <1>3

\* EndOperation keeps the invariant.
LEMMA EndOperationInv ==
  ASSUME IInv, NEW r \in Requests, EndOperation(r)
  PROVE  IInv'
<1> USE DEF EndOperation
<1>0. RequestMoves(r, {"leaving"}, {req[r].op}, req[r].conn, req[r].job)
  BY GotoFacts DEF RequestLabels
<1>1. TypeOK'
  BY <1>0 DEF Ticketed
<1>2. Ticketed'
  BY <1>0 DEF Ticketed, WorkersMatchJobs
<1>3. (WorkersMatchJobs /\ OneJobPerConnection /\ WriteExclusion)'
  BY <1>0 DEF WorkersMatchJobs, Ticketed, OneJobPerConnection, WriteExclusion
<1>4. (HoldersAreInside /\ ClosersHoldTheLock)'
  BY <1>0 DEF HoldersAreInside, ClosersHoldTheLock, Ticketed, OperationsHoldTheirConnection
<1>5. OperationsHoldTheirConnection'
  BY <1>0 DEF OperationsHoldTheirConnection, HoldersAreInside, Ticketed, WorkersMatchJobs,
     ClosersHoldTheLock
<1>6. ReservedConnectionIsQuiet'
  BY <1>0 DEF Ticketed, WorkersMatchJobs, HoldersAreInside, ClosersHoldTheLock,
     OneJobPerConnection, OperationsHoldTheirConnection, ReservedConnectionIsQuiet
<1>. QED BY <1>1, <1>2, <1>3, <1>4, <1>5, <1>6

\* Leave keeps the invariant.
LEMMA LeaveInv ==
  ASSUME IInv, NEW r \in Requests, Leave(r)
  PROVE  IInv'
<1> USE DEF Leave, LeaveOperation
<1>0. RequestMoves(r, {IF req[r].job = NoJob THEN "done" ELSE "launching"}, {req[r].op}, req[r].conn, req[r].job)
  BY GotoFacts DEF RequestLabels
<1>1. TypeOK'
  BY <1>0 DEF Ticketed
<1>2. Ticketed'
  BY <1>0 DEF Ticketed, WorkersMatchJobs
<1>3. (WorkersMatchJobs /\ OneJobPerConnection /\ WriteExclusion)'
  BY <1>0 DEF WorkersMatchJobs, Ticketed, OneJobPerConnection, WriteExclusion
<1>4. (HoldersAreInside /\ ClosersHoldTheLock)'
  BY <1>0 DEF HoldersAreInside, ClosersHoldTheLock, Ticketed, OperationsHoldTheirConnection
<1>5. OperationsHoldTheirConnection'
  BY <1>0 DEF OperationsHoldTheirConnection, HoldersAreInside, Ticketed, WorkersMatchJobs,
     ClosersHoldTheLock
<1>6. ReservedConnectionIsQuiet'
  BY <1>0 DEF Ticketed, WorkersMatchJobs, HoldersAreInside, ClosersHoldTheLock,
     OneJobPerConnection, OperationsHoldTheirConnection, ReservedConnectionIsQuiet
<1>. QED BY <1>1, <1>2, <1>3, <1>4, <1>5, <1>6

\* StartWorker keeps the invariant.
LEMMA StartWorkerInv ==
  ASSUME IInv, NEW r \in Requests, StartWorker(r)
  PROVE  IInv'
<1> USE DEF StartWorker
<1>0. RequestMoves(r, {"done"}, {req[r].op}, req[r].conn, req[r].job)
  BY GotoFacts DEF RequestLabels
<1>1. TypeOK'
  BY <1>0 DEF Ticketed, WorkerLabels
<1>2. Ticketed'
  BY <1>0 DEF Ticketed, WorkersMatchJobs, WorkerLabels
<1>3. (WorkersMatchJobs /\ OneJobPerConnection /\ WriteExclusion)'
  BY <1>0 DEF WorkersMatchJobs, Ticketed, OneJobPerConnection, WriteExclusion, WorkerLabels
<1>4. (HoldersAreInside /\ ClosersHoldTheLock)'
  BY <1>0 DEF Ticketed, WorkersMatchJobs, HoldersAreInside, ClosersHoldTheLock,
     OneJobPerConnection, OperationsHoldTheirConnection, ReservedConnectionIsQuiet,
     WorkerLabels
<1>5. OperationsHoldTheirConnection'
  BY <1>0 DEF OperationsHoldTheirConnection, HoldersAreInside, Ticketed, WorkersMatchJobs,
     ClosersHoldTheLock, WorkerLabels
<1>6. ReservedConnectionIsQuiet'
  BY <1>0 DEF Ticketed, WorkersMatchJobs, HoldersAreInside, ClosersHoldTheLock,
     OneJobPerConnection, OperationsHoldTheirConnection, ReservedConnectionIsQuiet,
     WorkerLabels
<1>. QED BY <1>1, <1>2, <1>3, <1>4, <1>5, <1>6

\* StartFails keeps the invariant.
LEMMA StartFailsInv ==
  ASSUME IInv, NEW r \in Requests, StartFails(r)
  PROVE  IInv'
<1> USE DEF StartFails
<1> DEFINE j == req[r].job
<1>a. RequestMoves(r, {"done"}, {req[r].op}, req[r].conn, req[r].job)
  BY GotoFacts DEF RequestLabels
<1>b. j \in Jobs /\ JobEnds(j)
  BY CompleteJobFacts DEF Ticketed
<1>1. TypeOK'
  BY <1>a, <1>b DEF Ticketed
<1>2. Ticketed'
  BY <1>a, <1>b DEF Ticketed, WorkersMatchJobs
<1>3. (WorkersMatchJobs /\ OneJobPerConnection)'
  BY <1>a, <1>b DEF WorkersMatchJobs, Ticketed, OneJobPerConnection
<1>7. WriteExclusion'
  BY <1>a, <1>b, ExclusionSurvivesJobEnd
<1>4. (HoldersAreInside /\ ClosersHoldTheLock)'
  BY <1>a, <1>b DEF HoldersAreInside, ClosersHoldTheLock, Ticketed,
     OperationsHoldTheirConnection
<1>5. OperationsHoldTheirConnection'
  BY <1>a, <1>b DEF OperationsHoldTheirConnection, HoldersAreInside, Ticketed,
     WorkersMatchJobs, ClosersHoldTheLock
<1>6. ReservedConnectionIsQuiet'
  BY <1>a, <1>b DEF Ticketed, WorkersMatchJobs, HoldersAreInside, ClosersHoldTheLock,
     OneJobPerConnection, OperationsHoldTheirConnection, ReservedConnectionIsQuiet
<1>. QED BY <1>1, <1>2, <1>3, <1>4, <1>5, <1>6, <1>7

\* Return keeps the invariant.
LEMMA ReturnInv ==
  ASSUME IInv, NEW r \in Requests, Return(r)
  PROVE  IInv'
<1> USE DEF Return
<1>0. /\ req' \in [Requests -> RequestRecord]
      /\ req'[r] = IdleRequest
      /\ \A q \in Requests \ {r} : req'[q] = req[q]
  BY DEF RequestRecord, RequestLabels, IdleRequest
<1>1. TypeOK'
  BY <1>0 DEF Ticketed, IdleRequest
<1>2. Ticketed'
  BY <1>0 DEF Ticketed, WorkersMatchJobs, IdleRequest
<1>3. (WorkersMatchJobs /\ OneJobPerConnection /\ WriteExclusion)'
  BY <1>0 DEF WorkersMatchJobs, Ticketed, OneJobPerConnection, WriteExclusion, IdleRequest
<1>4. (HoldersAreInside /\ ClosersHoldTheLock)'
  BY <1>0 DEF HoldersAreInside, ClosersHoldTheLock, Ticketed, OperationsHoldTheirConnection,
     IdleRequest
<1>5. OperationsHoldTheirConnection'
  BY <1>0 DEF OperationsHoldTheirConnection, HoldersAreInside, Ticketed, WorkersMatchJobs,
     ClosersHoldTheLock, IdleRequest
<1>6. ReservedConnectionIsQuiet'
  BY <1>0 DEF Ticketed, WorkersMatchJobs, HoldersAreInside, ClosersHoldTheLock,
     OneJobPerConnection, OperationsHoldTheirConnection, ReservedConnectionIsQuiet, IdleRequest
<1>. QED BY <1>1, <1>2, <1>3, <1>4, <1>5, <1>6

\* CreateRun keeps the invariant.
LEMMA CreateRunInv ==
  ASSUME IInv, NEW r \in Requests, CreateRun(r)
  PROVE  IInv'
<1> USE DEF CreateRun
<1> DEFINE j == req[r].job
<1>0. j \in Jobs
  BY DEF Ticketed
<1>1. CASE Goto(r, "leaving") /\ UNCHANGED job
  <2>0. RequestMoves(r, {"leaving"}, {req[r].op}, req[r].conn, req[r].job)
    BY <1>1, GotoFacts DEF RequestLabels
  <2>1. TypeOK'
    BY <1>0, <1>1, <2>0 DEF Ticketed
  <2>2. Ticketed'
    BY <1>0, <1>1, <2>0 DEF Ticketed, WorkersMatchJobs
  <2>3. (WorkersMatchJobs /\ OneJobPerConnection /\ WriteExclusion)'
    BY <1>0, <1>1, <2>0 DEF WorkersMatchJobs, Ticketed, OneJobPerConnection, WriteExclusion
  <2>4. (HoldersAreInside /\ ClosersHoldTheLock)'
    BY <1>0, <1>1, <2>0 DEF HoldersAreInside, ClosersHoldTheLock, Ticketed,
       OperationsHoldTheirConnection
  <2>5. OperationsHoldTheirConnection'
    BY <1>0, <1>1, <2>0 DEF OperationsHoldTheirConnection, HoldersAreInside, Ticketed,
       WorkersMatchJobs, ClosersHoldTheLock
  <2>6. ReservedConnectionIsQuiet'
    BY <1>0, <1>1, <2>0 DEF Ticketed, WorkersMatchJobs, HoldersAreInside,
       ClosersHoldTheLock, OneJobPerConnection, OperationsHoldTheirConnection,
       ReservedConnectionIsQuiet
  <2>. QED BY <2>1, <2>2, <2>3, <2>4, <2>5, <2>6
<1>2. CASE /\ CompleteJob(j, "error")
          /\ req' = [req EXCEPT ![r].pc = "leaving", ![r].job = NoJob]
  <2>a. RequestMoves(r, {"leaving"}, {req[r].op}, req[r].conn, NoJob)
    <3>1. req[r] \in RequestRecord
      OBVIOUS
    <3>2. req' = [req EXCEPT ![r] = [req[r] EXCEPT !.pc = "leaving", !.job = NoJob]]
      BY <1>2
    <3>3. [req[r] EXCEPT !.pc = "leaving", !.job = NoJob] \in RequestRecord
      BY <3>1 DEF RequestRecord, RequestLabels
    <3>. QED BY <3>1, <3>2, <3>3 DEF RequestRecord
  <2>b. JobEnds(j)
    BY <1>0, <1>2, CompleteJobFacts
  <2>1. TypeOK'
    BY <1>0, <2>a, <2>b DEF Ticketed
  <2>2. Ticketed'
    BY <1>0, <2>a, <2>b DEF Ticketed, WorkersMatchJobs
  <2>3. (WorkersMatchJobs /\ OneJobPerConnection)'
    BY <1>0, <2>a, <2>b DEF WorkersMatchJobs, Ticketed, OneJobPerConnection
  <2>7. WriteExclusion'
    BY <1>0, <2>a, <2>b, ExclusionSurvivesJobEnd
  <2>4. (HoldersAreInside /\ ClosersHoldTheLock)'
    BY <1>0, <2>a, <2>b DEF HoldersAreInside, ClosersHoldTheLock, Ticketed,
       OperationsHoldTheirConnection
  <2>5. OperationsHoldTheirConnection'
    BY <1>0, <2>a, <2>b DEF OperationsHoldTheirConnection, HoldersAreInside, Ticketed,
       WorkersMatchJobs, ClosersHoldTheLock
  <2>6. ReservedConnectionIsQuiet'
    BY <1>0, <2>a, <2>b DEF Ticketed, WorkersMatchJobs, HoldersAreInside,
       ClosersHoldTheLock, OneJobPerConnection, OperationsHoldTheirConnection,
       ReservedConnectionIsQuiet
  <2>. QED BY <2>1, <2>2, <2>3, <2>4, <2>5, <2>6, <2>7
<1>. QED BY <1>1, <1>2

\* CreateJob keeps the invariant.
LEMMA CreateJobInv ==
  ASSUME IInv, NEW r \in Requests, CreateJob(r)
  PROVE  IInv'
<1> DEFINE c == req[r].conn
           kind == req[r].op
<1>0. c \in Conns /\ kind \in Kinds /\ req[r].job = NoJob
  BY DEF CreateJob, Ticketed, Kinds
<1>u. UNCHANGED <<conn, adapter, lock, owner, wrk>>
  BY DEF CreateJob
<1>p. \/ req[r].pc = "operating" /\ kind \in WriteKinds
      \/ req[r].pc = "arrived" /\ kind = "auto_heal"
  BY DEF CreateJob
<1>1. CASE ReservationAdmissible(r, c, kind) /\ \E j \in Jobs : job[j].status = "unused"
  <2> DEFINE label == CASE kind = "fill"      -> "leaving"
                        [] kind = "workbench" -> "reserved"
                        [] kind = "auto_heal" -> "launching"
  <2>1. PICK j \in Jobs :
          /\ job[j].status = "unused"
          /\ job' = [job EXCEPT ![j] = [conn |-> c, kind |-> kind, status |-> "running"]]
          /\ req' = [req EXCEPT ![r].job = j, ![r].pc = label]
    BY <1>1 DEF CreateJob
  <2>2. label \in {"leaving", "reserved", "launching"}
    BY <1>0 DEF Kinds, WriteKinds
  <2>3. req[r].pc = "operating" => label \in {"leaving", "reserved"}
    BY <1>p DEF WriteKinds
  <2>4. req[r].pc = "arrived" => label = "launching"
    BY <1>p DEF WriteKinds
  <2> HIDE DEF label
  <2>a. RequestMoves(r, {label}, {req[r].op}, c, j)
    <3>1. req[r] \in RequestRecord
      OBVIOUS
    <3>2. req' = [req EXCEPT ![r] = [req[r] EXCEPT !.job = j, !.pc = label]]
      BY <2>1
    <3>3. [req[r] EXCEPT !.job = j, !.pc = label] \in RequestRecord
      BY <3>1, <2>2 DEF RequestRecord, RequestLabels
    <3>. QED BY <3>1, <3>2, <3>3 DEF RequestRecord
  <2>b. /\ job' \in [Jobs -> JobRecord]
        /\ job'[j] = [conn |-> c, kind |-> kind, status |-> "running"]
        /\ \A i \in Jobs \ {j} : job'[i] = job[i]
    BY <1>0, <2>1 DEF JobRecord
  <2>c. /\ conn[c] = "live"
        /\ lock[c] = Free \/ owner[c] = r
        /\ JobAdmissible(c, kind \in WriteKinds, NoJob)
    BY <1>1 DEF ReservationAdmissible
  <2>d. wrk[j] = "none" /\ ~Running(j)
    BY <2>1 DEF WorkersMatchJobs
  <2>11. TypeOK'
    BY <1>0, <1>u, <1>p, <2>2, <2>3, <2>4, <2>a, <2>b, <2>c, <2>d DEF
       Ticketed
  <2>12. Ticketed'
    BY <1>0, <1>u, <1>p, <2>2, <2>3, <2>4, <2>a, <2>b, <2>c, <2>d DEF
       Ticketed, WorkersMatchJobs
  <2>13. (WorkersMatchJobs /\ OneJobPerConnection)'
    BY <1>0, <1>u, <1>p, <2>2, <2>3, <2>4, <2>a, <2>b, <2>c, <2>d DEF
       WorkersMatchJobs, Ticketed, OneJobPerConnection, JobAdmissible
  <2>14. (HoldersAreInside /\ ClosersHoldTheLock)'
    BY <1>0, <1>u, <1>p, <2>2, <2>3, <2>4, <2>a, <2>b, <2>c, <2>d DEF
       HoldersAreInside, ClosersHoldTheLock, Ticketed,
       OperationsHoldTheirConnection
  <2>15. OperationsHoldTheirConnection'
    BY <1>0, <1>u, <1>p, <2>2, <2>3, <2>4, <2>a, <2>b, <2>c, <2>d DEF
       OperationsHoldTheirConnection, HoldersAreInside, TypeOK, Ticketed,
       WorkersMatchJobs, Running, HoldsTicket, ClosersHoldTheLock
  <2>16. ReservedConnectionIsQuiet'
    BY <1>0, <1>u, <1>p, <2>2, <2>3, <2>4, <2>a, <2>b, <2>c, <2>d DEF
       Ticketed, WorkersMatchJobs, HoldersAreInside, ClosersHoldTheLock,
       OneJobPerConnection, OperationsHoldTheirConnection,
       ReservedConnectionIsQuiet, HoldsTicket, Running, TypeOK, Threads,
       JobAdmissible
  <2>17. WriteExclusion'
    <3>1. ASSUME NEW i \in Jobs, i # j, Running(i),
                 job[i].kind \in WriteKinds, kind \in WriteKinds
          PROVE  Target[job[i].conn] \cap Target[c] = {}
      BY <2>c, <3>1 DEF ReservedConnectionIsQuiet, JobAdmissible
    <3>. QED BY <1>0, <2>b, <3>1, ExclusionSurvivesCreation
  <2>. QED BY <2>11, <2>12, <2>13, <2>14, <2>15, <2>16, <2>17
<1>2. CASE ~(ReservationAdmissible(r, c, kind) /\ \E j \in Jobs : job[j].status = "unused")
  <2>0. RequestMoves(r, {IF kind = "auto_heal" THEN "done" ELSE "leaving"}, {req[r].op}, req[r].conn, req[r].job)
    BY <1>2, GotoFacts DEF CreateJob, RequestLabels
  <2>u. UNCHANGED job
    BY <1>2 DEF CreateJob
  <2>1. TypeOK'
    BY <1>0, <1>u, <1>p, <2>0, <2>u DEF Ticketed
  <2>2. Ticketed'
    BY <1>0, <1>u, <1>p, <2>0, <2>u DEF Ticketed, WorkersMatchJobs
  <2>3. (WorkersMatchJobs /\ OneJobPerConnection /\ WriteExclusion)'
    BY <1>0, <1>u, <1>p, <2>0, <2>u DEF WorkersMatchJobs, Ticketed, OneJobPerConnection,
       WriteExclusion
  <2>4. (HoldersAreInside /\ ClosersHoldTheLock)'
    BY <1>0, <1>u, <1>p, <2>0, <2>u DEF HoldersAreInside, ClosersHoldTheLock, Ticketed,
       WriteKinds, OperationsHoldTheirConnection
  <2>5. OperationsHoldTheirConnection'
    BY <1>0, <1>u, <1>p, <2>0, <2>u DEF OperationsHoldTheirConnection, HoldersAreInside,
       Ticketed, WorkersMatchJobs, ClosersHoldTheLock
  <2>6. ReservedConnectionIsQuiet'
    BY <1>0, <1>u, <1>p, <2>0, <2>u DEF Ticketed, WorkersMatchJobs, HoldersAreInside,
       ClosersHoldTheLock, OneJobPerConnection, OperationsHoldTheirConnection,
       ReservedConnectionIsQuiet
  <2>. QED BY <2>1, <2>2, <2>3, <2>4, <2>5, <2>6
<1>. QED BY <1>1, <1>2

\* WorkerAdmit keeps the invariant.
LEMMA WorkerAdmitInv ==
  ASSUME IInv, NEW j \in Jobs, WorkerAdmit(j)
  PROVE  IInv'
<1> USE DEF WorkerAdmit, MoveWorker
<1> DEFINE c == job[j].conn
<1>1. c \in Conns
  BY DEF WorkersMatchJobs
<1>2. CASE OperationAdmissible(c, FALSE, j)
  <2>1. TypeOK'
    BY <1>1, <1>2 DEF Ticketed, WorkerLabels, OperationAdmissible, EnterOperation
  <2>2. Ticketed'
    BY <1>1, <1>2 DEF Ticketed, WorkersMatchJobs, WorkerLabels, OperationAdmissible,
       EnterOperation
  <2>3. (WorkersMatchJobs /\ OneJobPerConnection /\ WriteExclusion)'
    BY <1>1, <1>2 DEF WorkersMatchJobs, Ticketed, OneJobPerConnection, WriteExclusion,
       WorkerLabels, OperationAdmissible, EnterOperation
  <2>4. (HoldersAreInside /\ ClosersHoldTheLock)'
    BY <1>1, <1>2 DEF HoldersAreInside, ClosersHoldTheLock, Ticketed,
       OperationsHoldTheirConnection, WorkerLabels, OperationAdmissible, EnterOperation
  <2>5. OperationsHoldTheirConnection'
    BY <1>1, <1>2 DEF OperationsHoldTheirConnection, HoldersAreInside, Ticketed,
       WorkersMatchJobs, ClosersHoldTheLock, WorkerLabels, OperationAdmissible, EnterOperation
  <2>6. ReservedConnectionIsQuiet'
    BY <1>1, <1>2 DEF Ticketed, WorkersMatchJobs, HoldersAreInside, ClosersHoldTheLock,
       OneJobPerConnection, OperationsHoldTheirConnection, ReservedConnectionIsQuiet,
       WorkerLabels, OperationAdmissible, EnterOperation
  <2>. QED BY <2>1, <2>2, <2>3, <2>4, <2>5, <2>6
<1>3. CASE ~OperationAdmissible(c, FALSE, j)
  <2>1. TypeOK'
    BY <1>1, <1>3 DEF Ticketed, WorkerLabels
  <2>2. Ticketed'
    BY <1>1, <1>3 DEF Ticketed, WorkersMatchJobs, WorkerLabels
  <2>3. (WorkersMatchJobs /\ OneJobPerConnection /\ WriteExclusion)'
    BY <1>1, <1>3 DEF WorkersMatchJobs, Ticketed, OneJobPerConnection, WriteExclusion,
       WorkerLabels
  <2>4. (HoldersAreInside /\ ClosersHoldTheLock)'
    BY <1>1, <1>3 DEF HoldersAreInside, ClosersHoldTheLock, Ticketed,
       OperationsHoldTheirConnection, WorkerLabels
  <2>5. OperationsHoldTheirConnection'
    BY <1>1, <1>3 DEF OperationsHoldTheirConnection, HoldersAreInside, Ticketed,
       WorkersMatchJobs, ClosersHoldTheLock, WorkerLabels
  <2>6. ReservedConnectionIsQuiet'
    BY <1>1, <1>3 DEF Ticketed, WorkersMatchJobs, HoldersAreInside, ClosersHoldTheLock,
       OneJobPerConnection, OperationsHoldTheirConnection, ReservedConnectionIsQuiet,
       WorkerLabels
  <2>. QED BY <2>1, <2>2, <2>3, <2>4, <2>5, <2>6
<1>. QED BY <1>2, <1>3

\* HealerLookup keeps the invariant.
LEMMA HealerLookupInv ==
  ASSUME IInv, NEW j \in Jobs, HealerLookup(j)
  PROVE  IInv'
<1> USE DEF HealerLookup, MoveWorker
<1>1. TypeOK'
  BY DEF Ticketed, WorkerLabels
<1>2. Ticketed'
  BY DEF Ticketed, WorkersMatchJobs, WorkerLabels
<1>3. (WorkersMatchJobs /\ OneJobPerConnection /\ WriteExclusion)'
  BY DEF WorkersMatchJobs, Ticketed, OneJobPerConnection, WriteExclusion, WorkerLabels
<1>4. (HoldersAreInside /\ ClosersHoldTheLock)'
  BY DEF HoldersAreInside, ClosersHoldTheLock, Ticketed, OperationsHoldTheirConnection,
     WorkerLabels
<1>5. OperationsHoldTheirConnection'
  BY DEF OperationsHoldTheirConnection, HoldersAreInside, Ticketed, WorkersMatchJobs,
     ClosersHoldTheLock, WorkerLabels
<1>6. ReservedConnectionIsQuiet'
  BY DEF Ticketed, WorkersMatchJobs, HoldersAreInside, ClosersHoldTheLock,
     OneJobPerConnection, OperationsHoldTheirConnection, ReservedConnectionIsQuiet,
     WorkerLabels
<1>. QED BY <1>1, <1>2, <1>3, <1>4, <1>5, <1>6

\* WorkerFailsEarly keeps the invariant.
LEMMA WorkerFailsEarlyInv ==
  ASSUME IInv, NEW j \in Jobs, WorkerFailsEarly(j)
  PROVE  IInv'
<1> USE DEF WorkerFailsEarly, MoveWorker
<1>1. TypeOK'
  BY DEF Ticketed, WorkerLabels
<1>2. Ticketed'
  BY DEF Ticketed, WorkersMatchJobs, WorkerLabels
<1>3. (WorkersMatchJobs /\ OneJobPerConnection /\ WriteExclusion)'
  BY DEF WorkersMatchJobs, Ticketed, OneJobPerConnection, WriteExclusion, WorkerLabels
<1>4. (HoldersAreInside /\ ClosersHoldTheLock)'
  BY DEF HoldersAreInside, ClosersHoldTheLock, Ticketed, OperationsHoldTheirConnection,
     WorkerLabels
<1>5. OperationsHoldTheirConnection'
  BY DEF OperationsHoldTheirConnection, HoldersAreInside, Ticketed, WorkersMatchJobs,
     ClosersHoldTheLock, WorkerLabels
<1>6. ReservedConnectionIsQuiet'
  BY DEF Ticketed, WorkersMatchJobs, HoldersAreInside, ClosersHoldTheLock,
     OneJobPerConnection, OperationsHoldTheirConnection, ReservedConnectionIsQuiet,
     WorkerLabels
<1>. QED BY <1>1, <1>2, <1>3, <1>4, <1>5, <1>6

\* WorkerQuery keeps the invariant.
LEMMA WorkerQueryInv ==
  ASSUME IInv, NEW j \in Jobs, WorkerQuery(j)
  PROVE  IInv'
<1> USE DEF WorkerQuery, EnsureConnected
<1>1. TypeOK'
  BY DEF Ticketed
<1>2. Ticketed'
  BY DEF Ticketed, WorkersMatchJobs
<1>3. (WorkersMatchJobs /\ OneJobPerConnection /\ WriteExclusion)'
  BY DEF WorkersMatchJobs, Ticketed, OneJobPerConnection, WriteExclusion
<1>4. (HoldersAreInside /\ ClosersHoldTheLock)'
  BY DEF HoldersAreInside, ClosersHoldTheLock, Ticketed, OperationsHoldTheirConnection
<1>5. OperationsHoldTheirConnection'
  BY DEF OperationsHoldTheirConnection, HoldersAreInside, Ticketed, WorkersMatchJobs,
     ClosersHoldTheLock
<1>6. ReservedConnectionIsQuiet'
  BY DEF Ticketed, WorkersMatchJobs, HoldersAreInside, ClosersHoldTheLock,
     OneJobPerConnection, OperationsHoldTheirConnection, ReservedConnectionIsQuiet
<1>. QED BY <1>1, <1>2, <1>3, <1>4, <1>5, <1>6

\* WorkerLeave keeps the invariant.
LEMMA WorkerLeaveInv ==
  ASSUME IInv, NEW j \in Jobs, WorkerLeave(j)
  PROVE  IInv'
<1> USE DEF WorkerLeave, MoveWorker, LeaveOperation
<1>1. TypeOK'
  BY DEF Ticketed, WorkerLabels
<1>2. Ticketed'
  BY DEF Ticketed, WorkersMatchJobs, WorkerLabels
<1>3. (WorkersMatchJobs /\ OneJobPerConnection /\ WriteExclusion)'
  BY DEF WorkersMatchJobs, Ticketed, OneJobPerConnection, WriteExclusion, WorkerLabels
<1>4. (HoldersAreInside /\ ClosersHoldTheLock)'
  BY DEF HoldersAreInside, ClosersHoldTheLock, Ticketed, OperationsHoldTheirConnection,
     WorkerLabels
<1>5. OperationsHoldTheirConnection'
  BY DEF OperationsHoldTheirConnection, HoldersAreInside, Ticketed, WorkersMatchJobs,
     ClosersHoldTheLock, WorkerLabels
<1>6. ReservedConnectionIsQuiet'
  BY DEF Ticketed, WorkersMatchJobs, HoldersAreInside, ClosersHoldTheLock,
     OneJobPerConnection, OperationsHoldTheirConnection, ReservedConnectionIsQuiet,
     WorkerLabels
<1>. QED BY <1>1, <1>2, <1>3, <1>4, <1>5, <1>6

\* WorkerPublish keeps the invariant.
LEMMA WorkerPublishInv ==
  ASSUME IInv, NEW j \in Jobs, WorkerPublish(j)
  PROVE  IInv'
<1> USE DEF WorkerPublish, MoveWorker
<1>0. JobEnds(j)
  BY CompleteJobFacts
<1>1. TypeOK'
  BY <1>0 DEF Ticketed, WorkerLabels
<1>2. Ticketed'
  BY <1>0 DEF Ticketed, WorkersMatchJobs, WorkerLabels
<1>3. (WorkersMatchJobs /\ OneJobPerConnection /\ WriteExclusion)'
  BY <1>0 DEF WorkersMatchJobs, Ticketed, OneJobPerConnection, WriteExclusion, WorkerLabels
<1>4. (HoldersAreInside /\ ClosersHoldTheLock)'
  BY <1>0 DEF HoldersAreInside, ClosersHoldTheLock, Ticketed, OperationsHoldTheirConnection,
     WorkerLabels
<1>5. OperationsHoldTheirConnection'
  BY <1>0 DEF OperationsHoldTheirConnection, HoldersAreInside, Ticketed, WorkersMatchJobs,
     ClosersHoldTheLock, WorkerLabels
<1>6. ReservedConnectionIsQuiet'
  BY <1>0 DEF Ticketed, WorkersMatchJobs, HoldersAreInside, ClosersHoldTheLock,
     OneJobPerConnection, OperationsHoldTheirConnection, ReservedConnectionIsQuiet,
     WorkerLabels
<1>. QED BY <1>1, <1>2, <1>3, <1>4, <1>5, <1>6

\* JobCompletion keeps the invariant.
LEMMA JobCompletionInv ==
  ASSUME IInv, NEW j \in Jobs, JobCompletion(j)
  PROVE  IInv'
<1> USE DEF JobCompletion, MoveWorker
<1>1. CASE Running(j)
  <2>0. JobEnds(j)
    BY <1>1, CompleteJobFacts
  <2>1. TypeOK'
    BY <1>1, <2>0 DEF Ticketed, WorkerLabels
  <2>2. Ticketed'
    BY <1>1, <2>0 DEF Ticketed, WorkersMatchJobs, WorkerLabels
  <2>3. (WorkersMatchJobs /\ OneJobPerConnection /\ WriteExclusion)'
    BY <1>1, <2>0 DEF WorkersMatchJobs, Ticketed, OneJobPerConnection, WriteExclusion,
       WorkerLabels
  <2>4. (HoldersAreInside /\ ClosersHoldTheLock)'
    BY <1>1, <2>0 DEF HoldersAreInside, ClosersHoldTheLock, Ticketed,
       OperationsHoldTheirConnection, WorkerLabels
  <2>5. OperationsHoldTheirConnection'
    BY <1>1, <2>0 DEF OperationsHoldTheirConnection, HoldersAreInside, Ticketed,
       WorkersMatchJobs, ClosersHoldTheLock, WorkerLabels
  <2>6. ReservedConnectionIsQuiet'
    BY <1>1, <2>0 DEF Ticketed, WorkersMatchJobs, HoldersAreInside, ClosersHoldTheLock,
       OneJobPerConnection, OperationsHoldTheirConnection, ReservedConnectionIsQuiet,
       WorkerLabels
  <2>. QED BY <2>1, <2>2, <2>3, <2>4, <2>5, <2>6
<1>2. CASE ~Running(j)
  <2>1. TypeOK'
    BY <1>2 DEF Ticketed, WorkerLabels
  <2>2. Ticketed'
    BY <1>2 DEF Ticketed, WorkersMatchJobs, WorkerLabels
  <2>3. (WorkersMatchJobs /\ OneJobPerConnection /\ WriteExclusion)'
    BY <1>2 DEF WorkersMatchJobs, Ticketed, OneJobPerConnection, WriteExclusion, WorkerLabels
  <2>4. (HoldersAreInside /\ ClosersHoldTheLock)'
    BY <1>2 DEF HoldersAreInside, ClosersHoldTheLock, Ticketed,
       OperationsHoldTheirConnection, WorkerLabels
  <2>5. OperationsHoldTheirConnection'
    BY <1>2 DEF OperationsHoldTheirConnection, HoldersAreInside, Ticketed, WorkersMatchJobs,
       ClosersHoldTheLock, WorkerLabels
  <2>6. ReservedConnectionIsQuiet'
    BY <1>2 DEF Ticketed, WorkersMatchJobs, HoldersAreInside, ClosersHoldTheLock,
       OneJobPerConnection, OperationsHoldTheirConnection, ReservedConnectionIsQuiet,
       WorkerLabels
  <2>. QED BY <2>1, <2>2, <2>3, <2>4, <2>5, <2>6
<1>. QED BY <1>1, <1>2

\* The initial state satisfies the invariant.
LEMMA InitInv == Init => IInv
<1> SUFFICES ASSUME Init PROVE IInv
  OBVIOUS
<1> USE DEF Init, IdleRequest, UnusedJob
<1>1. TypeOK
  BY DEF RequestRecord, JobRecord, RequestLabels, WorkerLabels
<1>2. Ticketed /\ WorkersMatchJobs
  BY DEF Ticketed, WorkersMatchJobs
<1>3. HoldersAreInside /\ ClosersHoldTheLock /\ OperationsHoldTheirConnection
  BY DEF HoldersAreInside, ClosersHoldTheLock, OperationsHoldTheirConnection
<1>4. OneJobPerConnection /\ WriteExclusion /\ ReservedConnectionIsQuiet
  BY DEF OneJobPerConnection, WriteExclusion, ReservedConnectionIsQuiet
<1>. QED BY <1>1, <1>2, <1>3, <1>4

\* Every step, and every stuttering step, keeps the invariant.
LEMMA NextInv == IInv /\ [Next]_vars => IInv'
<1> SUFFICES ASSUME IInv, [Next]_vars PROVE IInv'
  OBVIOUS
<1>1. ASSUME NEW r \in Requests, NEW op \in Offered, NEW c \in Conns, Arrive(r, op, c)
      PROVE  IInv'
  BY <1>1, ArriveInv, OfferedAssumption
<1>2. ASSUME NEW r \in Requests,
             RequestStep(r) \/ Query(r) \/ StartWorker(r) \/ StartFails(r) \/ Return(r)
      PROVE  IInv'
  BY <1>2, RegisterInv, LookupInv, FinishUseInv, CloseBeginInv,
     DisposeInv, AdmitInv, EndOperationInv, CreateJobInv, CreateRunInv,
     LeaveInv, QueryInv, StartWorkerInv, StartFailsInv, ReturnInv DEF
     RequestStep
<1>3. ASSUME NEW j \in Jobs, WorkerStep(j) \/ WorkerQuery(j) \/ JobCompletion(j)
      PROVE  IInv'
  BY <1>3, WorkerAdmitInv, HealerLookupInv, WorkerFailsEarlyInv,
     WorkerLeaveInv, WorkerPublishInv, WorkerQueryInv, JobCompletionInv DEF
     WorkerStep
<1>4. CASE UNCHANGED vars
  <2>1. TypeOK'
    BY <1>4 DEF Ticketed, vars
  <2>2. Ticketed'
    BY <1>4 DEF Ticketed, WorkersMatchJobs, vars
  <2>3. (WorkersMatchJobs /\ OneJobPerConnection /\ WriteExclusion)'
    BY <1>4 DEF WorkersMatchJobs, Ticketed, OneJobPerConnection, WriteExclusion, vars
  <2>4. (HoldersAreInside /\ ClosersHoldTheLock)'
    BY <1>4 DEF HoldersAreInside, ClosersHoldTheLock, Ticketed,
       OperationsHoldTheirConnection, vars
  <2>5. OperationsHoldTheirConnection'
    BY <1>4 DEF OperationsHoldTheirConnection, HoldersAreInside, Ticketed, WorkersMatchJobs,
       ClosersHoldTheLock, vars
  <2>6. ReservedConnectionIsQuiet'
    BY <1>4 DEF Ticketed, WorkersMatchJobs, HoldersAreInside, ClosersHoldTheLock,
       OneJobPerConnection, OperationsHoldTheirConnection, ReservedConnectionIsQuiet, vars
  <2>. QED BY <2>1, <2>2, <2>3, <2>4, <2>5, <2>6
<1>. QED BY <1>1, <1>2, <1>3, <1>4 DEF Next

(***************************************************************************)
(* The invariant holds for every set of connections, requests and jobs.    *)
(***************************************************************************)
THEOREM Invariance == Spec => []IInv
  BY InitInv, NextInv, PTL DEF Spec

\* Every variable keeps its type.
THEOREM TypeCorrect == Spec => []TypeOK
<1>1. IInv => TypeOK
  OBVIOUS
<1>. QED BY <1>1, Invariance, PTL

\* No two generation jobs ever write to a common endpoint, and no connection
\* ever carries two jobs.
THEOREM WritesAreExclusive == Spec => [](WriteExclusion /\ OneJobPerConnection)
<1>1. IInv => WriteExclusion /\ OneJobPerConnection
  OBVIOUS
<1>. QED BY <1>1, Invariance, PTL

\* A thread inside an operation, or a worker inside its job, is never closed
\* under and never shares its orchestrator.
THEOREM OperationsAreProtected ==
  Spec => [](OperationsHoldTheirConnection /\ ReservedConnectionIsQuiet)
<1>1. IInv => OperationsHoldTheirConnection /\ ReservedConnectionIsQuiet
  OBVIOUS
<1>. QED BY <1>1, Invariance, PTL

\* A connection that a running job has reserved stays registered, and only the job and the request
\* that reserved it are inside it (reserve_job, connection_operation, close_connection).
THEOREM ReservedConnectionsAreQuiet == Spec => []ReservedConnectionIsQuiet
<1>1. IInv => ReservedConnectionIsQuiet
  OBVIOUS
<1>. QED BY <1>1, Invariance, PTL

\* A worker that has been started is never refused its operation: nobody can
\* steal the gap between the reservation and the worker's first step.
THEOREM StartedWorkerIsAdmitted == Spec => []WorkerIsAdmitted
<1>1. IInv => WorkerIsAdmitted
  <2> SUFFICES ASSUME IInv, NEW j \in Jobs, wrk[j] = "started"
               PROVE  /\ conn[job[j].conn] = "live"
                      /\ OperationAdmissible(job[j].conn, FALSE, j)
    BY DEF WorkerIsAdmitted
  <2>1. Running(j) /\ job[j].conn \in Conns /\ conn[job[j].conn] = "live"
    BY DEF WorkersMatchJobs, ReservedConnectionIsQuiet
  <2>2. lock[job[j].conn] = Free
    BY <2>1, IdentityAssumption
       DEF ReservedConnectionIsQuiet, Ticketed, HoldersAreInside
  <2>3. JobAdmissible(job[j].conn, FALSE, j)
    BY <2>1 DEF OneJobPerConnection, JobAdmissible
  <2>. QED BY <2>1, <2>2, <2>3 DEF OperationAdmissible
<1>. QED BY <1>1, Invariance, PTL

\* A step completes only jobs that run, and creates only jobs never used.
LEMMA NextKeepsResults ==
  ASSUME IInv, [Next]_vars, NEW i \in Jobs, job[i].status \in {"done", "error"}
  PROVE  job'[i] = job[i]
<1>1. ASSUME NEW j \in Jobs, Running(j), NEW status \in {"done", "error"}, CompleteJob(j, status)
      PROVE  job'[i] = job[i]
  BY <1>1 DEF CompleteJob
<1>2. ASSUME NEW r \in Requests, NEW op \in Offered, NEW c \in Conns, Arrive(r, op, c)
      PROVE  job'[i] = job[i]
  BY <1>2 DEF Arrive
<1>3. ASSUME NEW r \in Requests,
             \/ Register(r) \/ Lookup(r) \/ FinishUse(r) \/ CloseBegin(r) \/ Dispose(r)
             \/ Admit(r) \/ EndOperation(r) \/ Leave(r) \/ Query(r) \/ StartWorker(r)
             \/ Return(r)
      PROVE  job'[i] = job[i]
  BY <1>3 DEF Register, Lookup, FinishUse, CloseBegin, Dispose, Admit, EndOperation,
     Leave, Query, StartWorker, Return
<1>4. ASSUME NEW r \in Requests, CreateRun(r) \/ StartFails(r) PROVE job'[i] = job[i]
  <2>1. req[r].job \in Jobs /\ Running(req[r].job)
    BY <1>4 DEF CreateRun, StartFails, Ticketed
  <2>. QED BY <1>1, <1>4, <2>1 DEF CreateRun, StartFails
<1>5. ASSUME NEW r \in Requests, CreateJob(r) PROVE job'[i] = job[i]
  <2>1. \/ UNCHANGED job
        \/ \E j \in Jobs : \E v : job[j].status = "unused" /\ job' = [job EXCEPT ![j] = v]
    BY <1>5 DEF CreateJob
  <2>. QED BY <2>1
<1>6. ASSUME NEW j \in Jobs,
             \/ WorkerAdmit(j) \/ HealerLookup(j) \/ WorkerFailsEarly(j)
             \/ WorkerQuery(j) \/ WorkerLeave(j)
      PROVE  job'[i] = job[i]
  BY <1>6 DEF WorkerAdmit, HealerLookup, WorkerFailsEarly, WorkerQuery, WorkerLeave
<1>7. ASSUME NEW j \in Jobs, WorkerPublish(j) \/ JobCompletion(j) PROVE job'[i] = job[i]
  <2>1. WorkerPublish(j) => Running(j)
    BY DEF WorkerPublish, WorkersMatchJobs
  <2>. QED BY <1>1, <1>7, <2>1 DEF WorkerPublish, JobCompletion
<1>8. CASE UNCHANGED vars
  BY <1>8 DEF vars
<1>. QED BY <1>2, <1>3, <1>4, <1>5, <1>6, <1>7, <1>8 DEF Next, RequestStep, WorkerStep

\* complete_job overwrites whatever status it finds, yet a result that has been
\* published is never replaced, and no job runs a second time.
THEOREM ResultsAreFinal == Spec => TerminalStateIsFinal
<1>1. IInv /\ [Next]_vars =>
        [\A j \in Jobs : job[j].status \in {"done", "error"} => job'[j] = job[j]]_vars
  BY NextKeepsResults
<1>. QED BY <1>1, Invariance, PTL DEF Spec, TerminalStateIsFinal

-----------------------------------------------------------------------------
(* The registry implements ConnectionLeases.                               *)

LeaseOf(j) == [job |-> j, conn |-> job[j].conn, writer |-> job[j].kind \in WriteKinds]
UnusedJobs == {j \in Jobs : job[j].status = "unused"}
LeaseStep == [Leases!Next]_<<conn, UnusedJobs, HeldLeases>>

\* The leases in force are those of the running jobs.
LEMMA HeldLeasesAreOfRunningJobs == HeldLeases = {LeaseOf(j) : j \in {i \in Jobs : Running(i)}}
BY DEF HeldLeases, LeaseOf

\* A step that leaves connections and jobs alone is invisible to clients.
LEMMA HiddenStep ==
  ASSUME UNCHANGED <<conn, job>>
  PROVE  LeaseStep
BY DEF LeaseStep, UnusedJobs, HeldLeases

\* A running job that ends gives its lease, and no other, back.
LEMMA JobEndEndsLease ==
  ASSUME TypeOK, NEW j \in Jobs, Running(j), JobEnds(j), UNCHANGED conn
  PROVE  LeaseStep
<1>1. \A i \in Jobs \ {j} : Running(i)' = Running(i) /\ LeaseOf(i)' = LeaseOf(i)
  BY DEF LeaseOf
<1>2. ~Running(j)'
  OBVIOUS
<1>3. \A i \in Jobs : LeaseOf(i).job = i
  BY DEF LeaseOf
<1>4. HeldLeases' = {LeaseOf(i) : i \in {k \in Jobs \ {j} : Running(k)}}
  <2>1. HeldLeases' = {LeaseOf(i)' : i \in {k \in Jobs : Running(k)'}}
    BY DEF HeldLeases, LeaseOf
  <2>2. {k \in Jobs : Running(k)'} = {k \in Jobs \ {j} : Running(k)}
    BY <1>1, <1>2
  <2> QED
    BY <1>1, <2>1, <2>2
<1>5. HeldLeases' = HeldLeases \ {LeaseOf(j)} /\ LeaseOf(j) \in HeldLeases
  <2> HIDE DEF Running
  <2> QED
    BY <1>3, <1>4, HeldLeasesAreOfRunningJobs
<1>6. UnusedJobs' = UnusedJobs
  BY DEF UnusedJobs
<1>7. Leases!End(LeaseOf(j))
  BY <1>5, <1>6 DEF Leases!End, UnusedJobs
<1> QED
  BY <1>5, <1>7 DEF LeaseStep, Leases!Next

\* A grant, whatever it grants, is a step of ConnectionLeases.
LEMMA GrantIsLeaseStep ==
  ASSUME NEW j \in Jobs, NEW c \in Conns, NEW w \in BOOLEAN, Leases!Grant(j, c, w)
  PROVE  LeaseStep
BY DEF LeaseStep, Leases!Next

\* create_job grants a lease that no other lease stands against.
LEMMA CreateJobGrants ==
  ASSUME IInv, NEW r \in Requests, CreateJob(r)
  PROVE  LeaseStep
<1>c. PICK c \in Conns : c = req[r].conn
  BY DEF CreateJob, Ticketed
<1>k. PICK kind \in Ops : kind = req[r].op
  BY DEF CreateJob, Ticketed
<1>0. UNCHANGED conn
  BY DEF CreateJob
<1>1. CASE ReservationAdmissible(r, c, kind) /\ \E j \in Jobs : job[j].status = "unused"
  <2>1. PICK j \in Jobs :
          /\ job[j].status = "unused"
          /\ job' = [job EXCEPT ![j] = [conn |-> c, kind |-> kind, status |-> "running"]]
    BY <1>1, <1>c, <1>k DEF CreateJob
  <2>w. PICK w \in BOOLEAN : w = (kind \in WriteKinds)
    <3>1. CASE kind \in WriteKinds
      <4>1. TRUE = (kind \in WriteKinds)
        BY <3>1
      <4> QED
        BY <4>1
    <3>2. CASE kind \notin WriteKinds
      <4>1. FALSE = (kind \in WriteKinds)
        BY <3>2
      <4> QED
        BY <4>1
    <3> QED
      BY <3>1, <3>2
  <2> DEFINE new == [job |-> j, conn |-> c, writer |-> w]
  <2>2. \A i \in Jobs \ {j} : Running(i)' = Running(i) /\ LeaseOf(i)' = LeaseOf(i)
    BY <2>1 DEF LeaseOf
  <2>3. ~Running(j) /\ Running(j)' /\ LeaseOf(j)' = new
    BY <2>1, <2>w DEF LeaseOf
  <2>4. HeldLeases' = {LeaseOf(i)' : i \in {k \in Jobs : Running(k)'}}
    BY DEF HeldLeases, LeaseOf
  <2>5. {k \in Jobs : Running(k)'} = {k \in Jobs : Running(k)} \cup {j}
    BY <2>2, <2>3
  <2>6. HeldLeases' = HeldLeases \cup {new}
    <3> HIDE DEF Running, new
    <3>1. \A i \in {k \in Jobs : Running(k)} : LeaseOf(i)' = LeaseOf(i)
      BY <2>2, <2>3
    <3> QED
      BY <2>3, <2>4, <2>5, <3>1, HeldLeasesAreOfRunningJobs
  <2>7. UnusedJobs' = UnusedJobs \ {j} /\ j \in UnusedJobs
    BY <2>1 DEF UnusedJobs
  <2>8. \A i \in Jobs : Running(i) =>
          /\ job[i].conn # c
          /\ kind \in WriteKinds /\ job[i].kind \in WriteKinds =>
               Target[job[i].conn] \cap Target[c] = {}
    BY <1>1, <1>c, <1>k DEF ReservationAdmissible, JobAdmissible, ReservedConnectionIsQuiet
  <2>9. \A l \in HeldLeases :
          l.conn # c /\ (w /\ l.writer => Target[l.conn] \cap Target[c] = {})
    <3>1. TAKE l \in HeldLeases
    <3>2. PICK i \in Jobs : Running(i) /\ l = LeaseOf(i)
      <4> HIDE DEF Running
      <4> QED
        BY HeldLeasesAreOfRunningJobs
    <3>3. l.conn = job[i].conn /\ l.writer = (job[i].kind \in WriteKinds)
      BY <3>2 DEF LeaseOf
    <3>4. l.conn # c
      BY <2>8, <3>2, <3>3
    <3>5. w /\ l.writer => Target[l.conn] \cap Target[c] = {}
      BY <2>8, <2>w, <3>2, <3>3
    <3> QED
      BY <3>4, <3>5
  <2>10. conn[c] = "live"
    BY <1>1 DEF ReservationAdmissible
  <2>11. Leases!Grant(j, c, w)
    BY <1>0, <2>6, <2>7, <2>9, <2>10 DEF Leases!Grant, UnusedJobs
  <2> QED
    BY <2>11, GrantIsLeaseStep
<1>2. CASE ~(ReservationAdmissible(r, c, kind) /\ \E j \in Jobs : job[j].status = "unused")
  <2>1. UNCHANGED job
    BY <1>2, <1>c, <1>k DEF CreateJob
  <2> QED
    BY <1>0, <2>1, HiddenStep
<1> QED
  BY <1>1, <1>2

\* add_connection opens a connection, close_connection closes one that
\* nobody leases.
LEMMA ConnectionStepsAreLeaseSteps ==
  ASSUME IInv, NEW r \in Requests, Register(r) \/ CloseBegin(r)
  PROVE  LeaseStep
<1> DEFINE c == req[r].conn
<1>0. c \in Conns /\ UNCHANGED job
  BY DEF Ticketed, Register, CloseBegin
<1>1. UNCHANGED <<UnusedJobs, HeldLeases>>
  BY <1>0 DEF UnusedJobs, HeldLeases
<1>2. CASE UNCHANGED conn
  BY <1>0, <1>2, HiddenStep
<1>3. CASE conn[c] = "new" /\ conn' = [conn EXCEPT ![c] = "live"]
  <2>1. Leases!Open(c)
    BY <1>1, <1>3 DEF Leases!Open, UnusedJobs
  <2> QED
    BY <1>0, <2>1 DEF LeaseStep, Leases!Next
<1>4. CASE CloseAdmissible(c) /\ conn' = [conn EXCEPT ![c] = "closed"]
  <2>1. \A l \in HeldLeases : l.conn # c
    BY <1>4 DEF CloseAdmissible, HeldLeases
  <2>2. Leases!Close(c)
    BY <1>1, <1>4, <2>1 DEF Leases!Close, CloseAdmissible, UnusedJobs
  <2> QED
    BY <1>0, <2>2 DEF LeaseStep, Leases!Next
<1> QED
  BY <1>2, <1>3, <1>4 DEF Register, CloseBegin

\* Every step of the registry is a step of ConnectionLeases, or hidden.
LEMMA NextImplementsLeases == IInv /\ [Next]_vars => LeaseStep
<1> SUFFICES ASSUME IInv, [Next]_vars PROVE LeaseStep
  OBVIOUS
<1>1. ASSUME NEW r \in Requests, NEW op \in Offered, NEW c \in Conns, Arrive(r, op, c)
      PROVE  LeaseStep
  BY <1>1, HiddenStep DEF Arrive
<1>2. ASSUME NEW r \in Requests,
             \/ Lookup(r) \/ FinishUse(r) \/ Dispose(r) \/ Admit(r) \/ EndOperation(r)
             \/ Leave(r) \/ Query(r) \/ StartWorker(r) \/ Return(r)
      PROVE  LeaseStep
  <2>1. UNCHANGED <<conn, job>>
    BY <1>2 DEF Lookup, FinishUse, Dispose, Admit, EndOperation, Leave, Query,
                StartWorker, Return
  <2> QED
    BY <2>1, HiddenStep
<1>3. ASSUME NEW r \in Requests, CreateRun(r)
      PROVE  LeaseStep
  <2>1. req[r].job \in Jobs /\ Running(req[r].job) /\ UNCHANGED conn
    BY <1>3 DEF CreateRun, Ticketed
  <2>2. UNCHANGED job \/ CompleteJob(req[r].job, "error")
    BY <1>3 DEF CreateRun
  <2> QED
    BY <2>1, <2>2, HiddenStep, CompleteJobFacts, JobEndEndsLease
<1>4. ASSUME NEW r \in Requests, StartFails(r)
      PROVE  LeaseStep
  <2>1. req[r].job \in Jobs /\ Running(req[r].job) /\ UNCHANGED conn
    BY <1>4 DEF StartFails, Ticketed
  <2>2. CompleteJob(req[r].job, "error")
    BY <1>4 DEF StartFails
  <2> QED
    BY <2>1, <2>2, CompleteJobFacts, JobEndEndsLease
<1>5. ASSUME NEW j \in Jobs, WorkerAdmit(j) \/ HealerLookup(j) \/ WorkerFailsEarly(j)
                             \/ WorkerQuery(j) \/ WorkerLeave(j)
      PROVE  LeaseStep
  <2>1. UNCHANGED <<conn, job>>
    BY <1>5 DEF WorkerAdmit, HealerLookup, WorkerFailsEarly, WorkerQuery, WorkerLeave
  <2> QED
    BY <2>1, HiddenStep
<1>6. ASSUME NEW j \in Jobs, WorkerPublish(j)
      PROVE  LeaseStep
  <2>1. Running(j) /\ UNCHANGED conn
    BY <1>6 DEF WorkerPublish, WorkersMatchJobs
  <2>2. \E status \in {"done", "error"} : CompleteJob(j, status)
    BY <1>6 DEF WorkerPublish
  <2> QED
    BY <2>1, <2>2, CompleteJobFacts, JobEndEndsLease
<1>7. ASSUME NEW j \in Jobs, JobCompletion(j)
      PROVE  LeaseStep
  <2>1. UNCHANGED conn /\ (UNCHANGED job \/ (Running(j) /\ CompleteJob(j, "error")))
    BY <1>7 DEF JobCompletion
  <2> QED
    BY <2>1, HiddenStep, CompleteJobFacts, JobEndEndsLease
<1>8. CASE UNCHANGED vars
  BY <1>8, HiddenStep DEF vars
<1> QED
  BY <1>1, <1>2, <1>3, <1>4, <1>5, <1>6, <1>7, <1>8, CreateJobGrants,
     ConnectionStepsAreLeaseSteps DEF Next, RequestStep, WorkerStep

\* With its threads, locks and workers hidden, the registry hands out plain
\* exclusive leases on connections and endpoints.
THEOREM RegistryImplementsLeases == Spec => ImplementsLeases
<1>1. Init => Leases!Init
  BY DEF Init, Leases!Init, HeldLeases, UnusedJob
<1>2. LeaseStep => [Leases!Next]_Leases!leaseVars
  BY DEF LeaseStep, Leases!leaseVars, UnusedJobs
<1> QED
  BY <1>1, <1>2, NextImplementsLeases, Invariance, PTL
     DEF Spec, ImplementsLeases, Leases!Spec

-----------------------------------------------------------------------------
(* The runtime.                                                            *)


USE IdentityAssumption, RuntimeAssumption
    DEF IInv, TypeOK, Running, HoldsTicket, Threads, Closers, Clients, Resting

\* Every action of the runtime that moves the registry keeps its invariant.
LEMMA RegistryInv == ASSUME IInv, RuntimeNext PROVE IInv'
<1>1. ASSUME NEW r \in Requests, NEW op \in Ops, NEW c \in Conns, Arrive(r, op, c) PROVE IInv'
  BY <1>1, ArriveInv
<1>2. ASSUME NEW r \in Requests,
             RequestStep(r) \/ Query(r) \/ StartWorker(r) \/ StartFails(r) \/ Return(r)
      PROVE  IInv'
  BY <1>2, NextInv DEF Next
<1>3. ASSUME NEW j \in Jobs, WorkerStep(j) \/ WorkerQuery(j) \/ JobCompletion(j) PROVE IInv'
  BY <1>3, NextInv DEF Next
<1>4. ASSUME UNCHANGED vars PROVE IInv'
  BY <1>4, NextInv
<1>5. CASE \E r \in Clients :
             \/ \E op \in Offered, c \in Conns : AdmitRequest(r, op, c)
             \/ ClientStep(r)
  BY <1>1, <1>2, <1>5, OfferedAssumption
     DEF AdmitRequest, ClientStep, ServeRequest, Launch, FinishRequest
<1>6. CASE (\E j \in Jobs : JobStep(j)) \/ RunQuery
  BY <1>2, <1>3, <1>4, <1>6 DEF JobStep, RunWorker, ReleaseLease, RunQuery
<1>7. CASE \E c \in Conns : RestoreConnection(c)
  BY <1>1, <1>7 DEF RestoreConnection, Ops
<1>8. CASE MainStep \/ HttpStep \/ LoseChannel
  BY <1>4, <1>8 DEF MainStep, StartServing, BeginDrain, Drained, Exit, HttpStep,
     StopListening, HttpExits, LoseChannel
<1>9. CASE \E t \in Closers : SessionStep(t)
  <2>1. ASSUME NEW t \in Closers, UseRegistry(t) PROVE IInv'
    BY <1>2, <2>1 DEF UseRegistry, RequestStep
  <2>2. ASSUME NEW t \in Closers, NEW c \in Conns, CloseNext(t, c) PROVE IInv'
    BY <1>1, <2>2 DEF CloseNext, Ops
  <2>3. ASSUME NEW t \in Closers, CloseOne(t) PROVE IInv'
    BY <1>2, <2>3 DEF CloseOne, RequestStep
  <2>4. ASSUME NEW t \in Closers, ListConnections(t) \/ SessionClosed(t) PROVE IInv'
    BY <1>4, <2>4 DEF ListConnections, SessionClosed
  <2>. QED BY <1>9, <2>1, <2>2, <2>3, <2>4 DEF SessionStep
<1>10. CASE \E k \in Commands :
              \/ \E method \in {"prepare", "resume", "shutdown"} : Dispatch(k, method)
              \/ CommandStep(k)
  BY <1>4, <1>10 DEF Dispatch, CommandStep, PauseForCommand, Export, ResumeGate
<1>. QED BY <1>5, <1>6, <1>7, <1>8, <1>9, <1>10 DEF RuntimeNext

(***************************************************************************)
(* The gate's counters.                                                    *)
(***************************************************************************)

\* Requests and threads are finitely many, so leases can be counted.
LEMMA FiniteLeases == IsFiniteSet(InApplication) /\ IsFiniteSet(OnLease)
<1>1. InApplication \subseteq Requests /\ OnLease \subseteq Jobs
  BY DEF InApplication, OnLease
<1>. QED BY <1>1, FS_Subset

\* A request in progress moves alone and stays in progress until it returns.
LEMMA RequestStepFacts ==
  ASSUME IInv, NEW r \in Requests,
         RequestStep(r) \/ StartWorker(r) \/ StartFails(r)
  PROVE  /\ req[r].pc # "idle" /\ req'[r].pc # "idle"
         /\ \A q \in Requests \ {r} : req'[q] = req[q]
<1>1. req \in [Requests -> RequestRecord] /\ req[r] \in RequestRecord
  OBVIOUS
<1>2. CASE Register(r) \/ Lookup(r) \/ FinishUse(r) \/ CloseBegin(r) \/ Dispose(r)
  BY <1>1, <1>2 DEF Register, Lookup, FinishUse, CloseBegin, Dispose, Goto, RequestRecord
<1>3. CASE Admit(r) \/ EndOperation(r) \/ CreateRun(r) \/ Leave(r)
  BY <1>1, <1>3 DEF Admit, EndOperation, CreateRun, Leave, Goto, RequestRecord
<1>4. CASE CreateJob(r)
  <2>1. req[r].op \in WriteKinds \/ req[r].op = "auto_heal"
    BY <1>4 DEF CreateJob
  <2>2. req[r].pc # "idle"
    BY <1>4 DEF CreateJob
  <2> DEFINE label == CASE req[r].op = "fill"      -> "leaving"
                        [] req[r].op = "workbench" -> "reserved"
                        [] req[r].op = "auto_heal" -> "launching"
  <2>3. label \in RequestLabels /\ label # "idle"
    BY <2>1 DEF WriteKinds, RequestLabels
  <2>4. \/ \E j \in Jobs : req' = [req EXCEPT ![r].job = j, ![r].pc = label]
        \/ Goto(r, IF req[r].op = "auto_heal" THEN "done" ELSE "leaving")
    BY <1>4 DEF CreateJob
  <2> HIDE DEF label
  <2>5. CASE Goto(r, IF req[r].op = "auto_heal" THEN "done" ELSE "leaving")
    BY <1>1, <2>2, <2>5 DEF Goto, RequestRecord
  <2>6. ASSUME NEW j \in Jobs, req' = [req EXCEPT ![r].job = j, ![r].pc = label]
        PROVE  req'[r].pc = label /\ \A q \in Requests \ {r} : req'[q] = req[q]
    <3>1. req' = [req EXCEPT ![r] = [req[r] EXCEPT !.job = j, !.pc = label]]
      BY <1>1, <2>6
    <3>. QED BY <1>1, <3>1 DEF RequestRecord
  <2>. QED BY <2>2, <2>3, <2>4, <2>5, <2>6
<1>5. CASE StartWorker(r) \/ StartFails(r)
  BY <1>1, <1>5 DEF StartWorker, StartFails, Goto, RequestRecord
<1>. QED BY <1>2, <1>3, <1>4, <1>5 DEF RequestStep

\* Only start_background starts a worker.
LEMMA RequestStepWorkers ==
  ASSUME IInv, NEW r \in Requests, RequestStep(r) \/ StartFails(r)
  PROVE  UNCHANGED wrk
  BY DEF RequestStep, StartFails, Register, Lookup, FinishUse, CloseBegin, Dispose,
     Admit, EndOperation, CreateJob, CreateRun, Leave

\* A worker moves alone, never back to the state of a job not started.
LEMMA WorkerStepFacts ==
  ASSUME IInv, NEW j \in Jobs, WorkerStep(j) \/ JobCompletion(j)
  PROVE  /\ wrk[j] \notin {"none", "exited"} /\ wrk'[j] # "none"
         /\ \A i \in Jobs \ {j} : wrk'[i] = wrk[i]
         /\ UNCHANGED req
  BY DEF WorkerStep, JobCompletion, WorkerAdmit, HealerLookup, WorkerFailsEarly,
     WorkerLeave, WorkerPublish, MoveWorker

\* Steps of the control side leave requests, workers and leases alone.
LEMMA ControlKeepsLeases ==
  ASSUME LeaseInv, UNCHANGED <<vars, counts, released>>, paused' \in BOOLEAN
  PROVE  LeaseInv'
<1>1. IInv'
  BY NextInv DEF LeaseInv, vars
<1>. QED BY <1>1 DEF LeaseInv, GateTypeOK, RunningJobsAreCarried, ReleasedAfterExit,
            ClosersOpenAndClose, LeasesAreExact, InApplication, OnLease, vars

\* A request that does not hold a ticket before or after it moves leaves the
\* jobs in the hands they were in.
LEMMA BystandersCarryNothing ==
  ASSUME RunningJobsAreCarried, NEW r \in Requests, ~HoldsTicket(r),
         UNCHANGED <<job, wrk>>, \A q \in Requests \ {r} : req'[q] = req[q]
  PROVE  RunningJobsAreCarried'
  BY DEF RunningJobsAreCarried

\* Between create_job and the start of the worker a job stays in the hands of
\* the request that created it; a request that lets go of it completes it.
LEMMA RequestCarriesJobs ==
  ASSUME LeaseInv, NEW r \in Clients, RequestStep(r) \/ StartFails(r) \/ StartWorker(r)
  PROVE  RunningJobsAreCarried'
<1> USE DEF LeaseInv
<1>0. /\ req \in [Requests -> RequestRecord] /\ req[r] \in RequestRecord
      /\ r \in Requests
      /\ \A q \in Requests \ {r} : req'[q] = req[q]
  BY RequestStepFacts
<1>1. CASE Register(r) \/ Lookup(r) \/ FinishUse(r) \/ CloseBegin(r) \/ Dispose(r)
           \/ Admit(r) \/ EndOperation(r)
  <2>1. ~HoldsTicket(r) /\ UNCHANGED <<job, wrk>>
    BY <1>0, <1>1 DEF Register, Lookup, FinishUse, CloseBegin, Dispose, Admit, EndOperation
  <2>. QED BY <1>0, <2>1, BystandersCarryNothing
<1>2. CASE CreateRun(r)
  BY <1>0, <1>2, CompleteJobFacts
     DEF CreateRun, Goto, RequestRecord, RunningJobsAreCarried, JobEnds, Ticketed
<1>3. CASE Leave(r)
  BY <1>0, <1>3 DEF Leave, Goto, RequestRecord, RunningJobsAreCarried
<1>4. CASE StartFails(r)
  BY <1>0, <1>4, CompleteJobFacts
     DEF StartFails, Goto, RequestRecord, RunningJobsAreCarried, JobEnds, Ticketed
<1>5. CASE StartWorker(r)
  BY <1>0, <1>5
     DEF StartWorker, Goto, RequestRecord, RunningJobsAreCarried, Ticketed, WorkerLabels
<1>6. CASE CreateJob(r)
  <2> DEFINE label == CASE req[r].op = "fill"      -> "leaving"
                        [] req[r].op = "workbench" -> "reserved"
                        [] req[r].op = "auto_heal" -> "launching"
  <2>1. ~HoldsTicket(r) /\ UNCHANGED wrk
    BY <1>6 DEF CreateJob
  <2>2. req[r].op \in WriteKinds \/ req[r].op = "auto_heal"
    BY <1>6 DEF CreateJob
  <2>3. label \in {"leaving", "reserved", "launching"}
    BY <2>2 DEF WriteKinds
  <2>4. \/ UNCHANGED job
        \/ \E j \in Jobs : \E v : /\ job' = [job EXCEPT ![j] = v]
                                  /\ req' = [req EXCEPT ![r].job = j, ![r].pc = label]
    BY <1>6 DEF CreateJob
  <2>5. CASE UNCHANGED job
    BY <1>0, <2>1, <2>5, BystandersCarryNothing
  <2>6. ASSUME NEW j \in Jobs, NEW v, job' = [job EXCEPT ![j] = v],
               req' = [req EXCEPT ![r].job = j, ![r].pc = label]
        PROVE  RunningJobsAreCarried'
    <3> HIDE DEF label
    <3>1. req' = [req EXCEPT ![r] = [req[r] EXCEPT !.job = j, !.pc = label]]
      BY <1>0, <2>6
    <3>2. HoldsTicket(r)' /\ req'[r].job = j
      BY <1>0, <2>3, <3>1 DEF RequestRecord
    <3>. QED BY <1>0, <2>1, <2>6, <3>2 DEF RunningJobsAreCarried
  <2>. QED BY <2>4, <2>5, <2>6
<1>. QED BY <1>1, <1>2, <1>3, <1>4, <1>5, <1>6 DEF RequestStep

\* A request holds one lease from the middleware's acquire to its release.
LEMMA AdmitRequestLease ==
  ASSUME LeaseInv, NEW r \in Clients, NEW op \in Offered, NEW c \in Conns,
         AdmitRequest(r, op, c), IInv'
  PROVE  LeaseInv'
<1> USE DEF LeaseInv
<1>0. /\ req[r].pc = "idle" /\ req'[r].pc = "arrived"
      /\ \A q \in Requests \ {r} : req'[q] = req[q]
      /\ UNCHANGED <<job, wrk, released>>
  BY DEF AdmitRequest, Arrive, process
<1>1. RunningJobsAreCarried' /\ ReleasedAfterExit' /\ ClosersOpenAndClose'
  BY <1>0, BystandersCarryNothing DEF ReleasedAfterExit, ClosersOpenAndClose
<1>2. InApplication' = InApplication \cup {r} /\ r \notin InApplication /\ OnLease' = OnLease
  BY <1>0 DEF InApplication, OnLease
<1>3. Cardinality(InApplication') = Cardinality(InApplication) + 1
  BY <1>2, FiniteLeases, FS_AddElement
<1>4. /\ counts' = [counts EXCEPT !["requests"] = @ + 1]
      /\ UNCHANGED paused
  BY DEF AdmitRequest, Acquire
<1>5. GateTypeOK' /\ LeasesAreExact'
  BY <1>2, <1>3, <1>4 DEF GateTypeOK, Categories, LeasesAreExact
<1>. QED BY <1>1, <1>5

\* A request at work keeps the lease it was admitted with.
LEMMA ServeRequestLease ==
  ASSUME LeaseInv, NEW r \in Clients, ServeRequest(r), IInv'
  PROVE  LeaseInv'
<1> USE DEF LeaseInv
<1>0. /\ req[r].pc # "idle" /\ req'[r].pc # "idle"
      /\ \A q \in Requests \ {r} : req'[q] = req[q]
      /\ UNCHANGED <<wrk, gate, released>>
  BY RequestStepFacts, RequestStepWorkers DEF ServeRequest, process
<1>1. RunningJobsAreCarried'
  BY RequestCarriesJobs DEF ServeRequest
<1>2. ReleasedAfterExit' /\ ClosersOpenAndClose'
  BY <1>0 DEF ReleasedAfterExit, ClosersOpenAndClose
<1>3. InApplication' = InApplication /\ OnLease' = OnLease
  BY <1>0 DEF InApplication, OnLease
<1>. QED BY <1>0, <1>1, <1>2, <1>3 DEF gate, GateTypeOK, LeasesAreExact

\* A background thread has its lease before it exists.
LEMMA LaunchLease ==
  ASSUME LeaseInv, NEW r \in Clients, Launch(r), IInv'
  PROVE  LeaseInv'
<1> USE DEF LeaseInv
<1> DEFINE j == req[r].job
<1>0. /\ req[r].pc # "idle" /\ req'[r].pc # "idle"
      /\ \A q \in Requests \ {r} : req'[q] = req[q]
      /\ UNCHANGED released
  BY RequestStepFacts DEF Launch, process
<1>1. RunningJobsAreCarried' /\ ClosersOpenAndClose'
  BY <1>0, RequestCarriesJobs DEF Launch, ClosersOpenAndClose
<1>2. j \in Jobs /\ wrk[j] = "none" /\ wrk' = [wrk EXCEPT ![j] = "started"]
  BY DEF Launch, StartWorker, Ticketed
<1>3. j \notin released /\ ReleasedAfterExit'
  BY <1>0, <1>2 DEF ReleasedAfterExit
<1>4. /\ InApplication' = InApplication
      /\ OnLease' = OnLease \cup {j} /\ j \notin OnLease
  BY <1>0, <1>2, <1>3 DEF InApplication, OnLease
<1>5. Cardinality(OnLease') = Cardinality(OnLease) + 1
  BY <1>4, FiniteLeases, FS_AddElement
<1>6. counts' = [counts EXCEPT !["background_jobs"] = @ + 1] /\ UNCHANGED paused
  BY DEF Launch, Acquire
<1>7. GateTypeOK' /\ LeasesAreExact'
  BY <1>4, <1>5, <1>6 DEF GateTypeOK, Categories, LeasesAreExact
<1>. QED BY <1>1, <1>3, <1>7

\* The middleware gives the lease back once, when the request has returned.
LEMMA FinishRequestLease ==
  ASSUME LeaseInv, NEW r \in Clients, FinishRequest(r), IInv'
  PROVE  LeaseInv'
<1> USE DEF LeaseInv
<1>0. /\ req[r].pc = "done" /\ req'[r].pc = "idle"
      /\ \A q \in Requests \ {r} : req'[q] = req[q]
      /\ UNCHANGED <<job, wrk, released>>
  BY DEF FinishRequest, Return, IdleRequest, process
<1>1. RunningJobsAreCarried' /\ ReleasedAfterExit' /\ ClosersOpenAndClose'
  BY <1>0, BystandersCarryNothing DEF ReleasedAfterExit, ClosersOpenAndClose
<1>2. InApplication' = InApplication \ {r} /\ r \in InApplication /\ OnLease' = OnLease
  BY <1>0 DEF InApplication, OnLease
<1>3. Cardinality(InApplication') = Cardinality(InApplication) - 1
  BY <1>2, FiniteLeases, FS_RemoveElement
<1>4. /\ counts["requests"] > 0
      /\ counts' = [counts EXCEPT !["requests"] = @ - 1]
      /\ UNCHANGED paused
  BY DEF FinishRequest, Release
<1>5. GateTypeOK' /\ LeasesAreExact'
  BY <1>2, <1>3, <1>4 DEF GateTypeOK, Categories, LeasesAreExact
<1>. QED BY <1>1, <1>5

\* A worker at work keeps its lease, even past the end of its job.
LEMMA RunWorkerLease ==
  ASSUME LeaseInv, NEW j \in Jobs, RunWorker(j), IInv'
  PROVE  LeaseInv'
<1> USE DEF LeaseInv
<1>0. /\ wrk[j] \notin {"none", "exited"} /\ wrk'[j] # "none"
      /\ \A i \in Jobs \ {j} : wrk'[i] = wrk[i]
      /\ UNCHANGED <<req, gate, released>>
  BY WorkerStepFacts DEF RunWorker, process
<1>1. RunningJobsAreCarried'
  <2>1. CASE UNCHANGED job /\ wrk'[j] # "exited"
    BY <1>0, <2>1 DEF RunningJobsAreCarried, WorkerLabels
  <2>2. ASSUME NEW status \in {"done", "error"}, CompleteJob(j, status)
        PROVE  RunningJobsAreCarried'
    BY <1>0, <2>2, CompleteJobFacts DEF RunningJobsAreCarried, JobEnds
  <2>3. CASE JobCompletion(j)
    BY <1>0, <2>2, <2>3 DEF JobCompletion, RunningJobsAreCarried
  <2>4. CASE WorkerPublish(j)
    BY <2>2, <2>4 DEF WorkerPublish
  <2>5. CASE WorkerAdmit(j) \/ HealerLookup(j) \/ WorkerFailsEarly(j) \/ WorkerLeave(j)
    BY <2>1, <2>5 DEF WorkerAdmit, HealerLookup, WorkerFailsEarly, WorkerLeave, MoveWorker
  <2>. QED BY <2>3, <2>4, <2>5 DEF RunWorker, WorkerStep
<1>2. ReleasedAfterExit' /\ ClosersOpenAndClose'
  BY <1>0 DEF ReleasedAfterExit, ClosersOpenAndClose
<1>3. InApplication' = InApplication /\ OnLease' = OnLease
  BY <1>0 DEF InApplication, OnLease
<1>. QED BY <1>0, <1>1, <1>2, <1>3 DEF gate, GateTypeOK, LeasesAreExact

\* A thread that has ended gives back exactly one lease.
LEMMA ReleaseLeaseLease ==
  ASSUME LeaseInv, NEW j \in Jobs, ReleaseLease(j), IInv'
  PROVE  LeaseInv'
<1> USE DEF LeaseInv
<1>0. /\ wrk[j] = "exited" /\ j \notin released /\ released' = released \cup {j}
      /\ UNCHANGED <<req, job, wrk>>
  BY DEF ReleaseLease, vars
<1>1. RunningJobsAreCarried' /\ ReleasedAfterExit' /\ ClosersOpenAndClose'
  BY <1>0 DEF RunningJobsAreCarried, ReleasedAfterExit, ClosersOpenAndClose
<1>2. InApplication' = InApplication /\ OnLease' = OnLease \ {j} /\ j \in OnLease
  BY <1>0 DEF InApplication, OnLease
<1>3. Cardinality(OnLease') = Cardinality(OnLease) - 1
  BY <1>2, FiniteLeases, FS_RemoveElement
<1>4. /\ counts["background_jobs"] > 0
      /\ counts' = [counts EXCEPT !["background_jobs"] = @ - 1]
      /\ UNCHANGED paused
  BY DEF ReleaseLease, Release
<1>5. GateTypeOK' /\ LeasesAreExact'
  BY <1>2, <1>3, <1>4 DEF GateTypeOK, Categories, LeasesAreExact
<1>. QED BY <1>1, <1>5

\* Queries touch adapters and nothing else.
LEMMA RunQueryLease ==
  ASSUME LeaseInv, RunQuery, IInv'
  PROVE  LeaseInv'
<1>1. UNCHANGED <<conn, lock, owner, job, req, wrk, paused, counts, released>>
  BY DEF RunQuery, Query, WorkerQuery, process, gate
<1>2. InApplication' = InApplication /\ OnLease' = OnLease
  BY <1>1 DEF InApplication, OnLease
<1>3. RunningJobsAreCarried' /\ ReleasedAfterExit' /\ ClosersOpenAndClose'
  BY <1>1 DEF LeaseInv, RunningJobsAreCarried, ReleasedAfterExit, ClosersOpenAndClose
<1>. QED BY <1>1, <1>2, <1>3 DEF LeaseInv, GateTypeOK, LeasesAreExact

\* The runtime's own threads hold no lease, and keep to opening and closing.
LEMMA CloserLease ==
  ASSUME LeaseInv, NEW t \in Closers, IInv',
         \/ UseRegistry(t) \/ CloseOne(t)
         \/ \E c \in Conns : CloseNext(t, c)
         \/ t = MainThread /\ \E c \in Conns : RestoreConnection(c)
  PROVE  LeaseInv'
<1> USE DEF LeaseInv
<1>0. /\ t \in Requests /\ req[t] \in RequestRecord
      /\ UNCHANGED <<job, wrk, gate, released>>
  BY DEF UseRegistry, CloseOne, CloseNext, RestoreConnection, Arrive, Register, FinishUse,
     CloseBegin, Dispose, Return, process
<1>1. /\ \A q \in Requests \ {t} : req'[q] = req[q]
      /\ req'[t].op \in {"none", "connect", "close"}
      /\ req'[t].pc \in {"idle", "arrived", "using", "disposing", "done"}
  <2> USE <1>0 DEF ClosersOpenAndClose, RequestRecord
  <2>1. CASE \/ \E c \in Conns : CloseNext(t, c)
             \/ t = MainThread /\ \E c \in Conns : RestoreConnection(c)
    BY <2>1 DEF CloseNext, RestoreConnection, Arrive
  <2>2. CASE CloseOne(t)
    BY <2>2 DEF CloseOne, CloseBegin, Goto
  <2>3. CASE UseRegistry(t)
    BY <2>3 DEF UseRegistry, Register, FinishUse, CloseBegin, Dispose, Return, Goto, IdleRequest
  <2>. QED BY <2>1, <2>2, <2>3
<1>2. ~HoldsTicket(t)
  BY DEF ClosersOpenAndClose, Ticketed
<1>3. RunningJobsAreCarried'
  BY <1>0, <1>1, <1>2, BystandersCarryNothing
<1>4. InApplication' = InApplication /\ OnLease' = OnLease
  BY <1>0, <1>1 DEF InApplication, OnLease
<1>. QED BY <1>0, <1>1, <1>3, <1>4
         DEF gate, GateTypeOK, LeasesAreExact, ReleasedAfterExit, ClosersOpenAndClose

\* A new worker process holds no lease.
LEMMA LeaseInit == RuntimeInit => LeaseInv
<1> SUFFICES ASSUME RuntimeInit PROVE LeaseInv
  OBVIOUS
<1>1. IInv
  BY InitInv DEF RuntimeInit
<1>2. InApplication = {} /\ OnLease = {}
  BY DEF RuntimeInit, Init, IdleRequest, InApplication, OnLease
<1>3. LeasesAreExact /\ GateTypeOK
  BY <1>2, FS_EmptySet DEF RuntimeInit, GateInit, Categories, GateTypeOK, LeasesAreExact
<1>4. RunningJobsAreCarried /\ ReleasedAfterExit /\ ClosersOpenAndClose
  BY DEF RuntimeInit, Init, IdleRequest, UnusedJob, RunningJobsAreCarried,
     ReleasedAfterExit, ClosersOpenAndClose
<1>. QED BY <1>1, <1>3, <1>4 DEF LeaseInv

\* Every step of the runtime keeps the counters exact.
LEMMA LeaseNext == LeaseInv /\ [RuntimeNext]_runtimeVars => LeaseInv'
<1> SUFFICES ASSUME LeaseInv, [RuntimeNext]_runtimeVars PROVE LeaseInv'
  OBVIOUS
<1>1. CASE UNCHANGED runtimeVars
  BY <1>1, ControlKeepsLeases DEF runtimeVars, gate, process, LeaseInv, GateTypeOK
<1>2. CASE RuntimeNext
  <2>0. IInv'
    BY <1>2, RegistryInv DEF LeaseInv
  <2>1. CASE \E r \in Clients :
               \/ \E op \in Offered, c \in Conns : AdmitRequest(r, op, c)
               \/ ClientStep(r)
    BY <2>0, <2>1, AdmitRequestLease, ServeRequestLease, LaunchLease, FinishRequestLease
       DEF ClientStep
  <2>2. CASE (\E j \in Jobs : JobStep(j)) \/ RunQuery
    BY <2>0, <2>2, RunWorkerLease, ReleaseLeaseLease, RunQueryLease DEF JobStep
  <2>3. CASE \E c \in Conns : RestoreConnection(c)
    BY <2>0, <2>3, CloserLease
  <2>4. CASE MainStep \/ HttpStep \/ LoseChannel
    BY <2>4, ControlKeepsLeases
       DEF MainStep, StartServing, BeginDrain, CloseAdmission, Drained, Exit, HttpStep,
           StopListening, HttpExits, LoseChannel, LeaseInv, GateTypeOK, gate
  <2>5. CASE \E t \in Closers : SessionStep(t)
    <3>1. ASSUME NEW t \in Closers, ListConnections(t) \/ SessionClosed(t) PROVE LeaseInv'
      BY <3>1, ControlKeepsLeases DEF ListConnections, SessionClosed, LeaseInv, GateTypeOK, gate
    <3>. QED BY <2>0, <2>5, <3>1, CloserLease DEF SessionStep
  <2>6. CASE \E k \in Commands :
               \/ \E method \in {"prepare", "resume", "shutdown"} : Dispatch(k, method)
               \/ CommandStep(k)
    BY <2>6, ControlKeepsLeases
       DEF Dispatch, CommandStep, PauseForCommand, PauseIfIdle, CloseAdmission, Export,
           ResumeGate, OpenGate, LeaseInv, GateTypeOK, gate
  <2>. QED BY <1>2, <2>1, <2>2, <2>3, <2>4, <2>5, <2>6 DEF RuntimeNext
<1>. QED BY <1>1, <1>2

\* A gate without leases proves the worker quiet: nothing is left to wait for.
LEMMA IdleIsQuiet == LeaseInv => IdleMeansQuiet
<1> SUFFICES ASSUME LeaseInv, Idle
             PROVE  /\ \A r \in Clients : Resting(r)
                    /\ \A j \in Jobs : ~Running(j)
                    /\ \A c \in Conns : lock[c] \in Closers \cup {Free}
  BY DEF IdleMeansQuiet
<1> USE DEF LeaseInv
<1>1. InApplication = {} /\ OnLease = {}
  BY FiniteLeases, FS_EmptySet DEF Idle, Categories, LeasesAreExact
<1>2. \A r \in Clients : Resting(r)
  BY <1>1 DEF InApplication
<1>3. \A j \in Jobs : wrk[j] \in {"none", "exited"}
  BY <1>1 DEF OnLease, ReleasedAfterExit
<1>4. \A j \in Jobs : ~Running(j)
  BY <1>2, <1>3 DEF RunningJobsAreCarried
<1>5. ASSUME NEW c \in Conns PROVE lock[c] \in Closers \cup {Free}
  <2>1. lock[c] \in Requests \cup Jobs \cup {Free}
    OBVIOUS
  <2>2. lock[c] \notin Jobs
    BY <1>3 DEF HoldersAreInside
  <2>3. lock[c] \in Requests => lock[c] \notin Clients
    <3>1. ASSUME lock[c] \in Requests PROVE req[lock[c]].pc # "idle"
      BY <3>1 DEF HoldersAreInside
    <3>2. \A r \in Clients : req[r].pc = "idle"
      BY <1>2
    <3> HIDE DEF Clients
    <3>. QED BY <3>1, <3>2
  <2>. QED BY <2>1, <2>2, <2>3
<1>. QED BY <1>2, <1>4, <1>5

(***************************************************************************)
(* For every set of connections, clients and jobs and however commands     *)
(* overlap, pausing an idle gate finds the registry quiet: no request is   *)
(* inside, no job is reserved or running, no connection is in use.         *)
(***************************************************************************)
THEOREM IdleGateIsQuiet == RuntimeSpec => []IdleMeansQuiet
  BY LeaseInit, LeaseNext, IdleIsQuiet, PTL DEF RuntimeSpec

(***************************************************************************)
(* Closing connections behind the gate, as long as it stays shut.          *)
(***************************************************************************)

\* What a step that neither moves a closer nor the server or the channel does
\* to the gate: behind a paused gate nothing is admitted, and an idle gate has
\* nothing to give back.
LEMMA PausedIdleGateIsStill ==
  ASSUME ClosersAreAlone, HandlersInPlace, UNCHANGED <<phase, http, exiting, connected>>,
         \/ UNCHANGED gate
         \/ \E k \in Categories : Acquire(k) \/ Release(k)
  PROVE  ClosersAreAlone' /\ HandlersInPlace'
<1>1. HandlersInPlace'
  BY DEF HandlersInPlace
<1>2. CASE UNCHANGED gate
  BY <1>1, <1>2 DEF ClosersAreAlone, gate, Idle
<1>3. CASE \E k \in Categories : Acquire(k)
  BY <1>1, <1>3 DEF ClosersAreAlone, Acquire
<1>4. CASE \E k \in Categories : Release(k)
  <2>1. ~Idle /\ UNCHANGED paused
    BY <1>4 DEF Release, Idle
  <2>. QED BY <1>1, <2>1 DEF ClosersAreAlone
<1>. QED BY <1>2, <1>3, <1>4

\* Whatever clients, jobs and queries do.
LEMMA WorkKeepsClosersAlone ==
  ASSUME ClosersAreAlone, HandlersInPlace,
         \/ \E r \in Clients :
              \/ \E op \in Offered, c \in Conns : AdmitRequest(r, op, c)
              \/ ClientStep(r)
         \/ \E j \in Jobs : JobStep(j)
         \/ RunQuery
         \/ \E c \in Conns : RestoreConnection(c)
         \/ \E t \in Closers : UseRegistry(t) \/ \E c \in Conns : CloseNext(t, c)
  PROVE  ClosersAreAlone' /\ HandlersInPlace'
<1>1. /\ UNCHANGED <<phase, http, exiting, connected>>
      /\ \/ UNCHANGED gate
         \/ \E k \in Categories : Acquire(k) \/ Release(k)
  BY DEF AdmitRequest, ClientStep, ServeRequest, Launch, FinishRequest, JobStep, RunWorker,
     ReleaseLease, RunQuery, RestoreConnection, UseRegistry, CloseNext, process, Categories
<1>. QED BY <1>1, PausedIdleGateIsStill

\* The main thread and the HTTP server: a drain closes admission before it
\* closes connections.
LEMMA ServerKeepsClosersAlone ==
  ASSUME ClosersAreAlone, HandlersInPlace, MainStep \/ HttpStep
  PROVE  ClosersAreAlone' /\ HandlersInPlace'
<1>1. CASE StartServing
  BY <1>1 DEF StartServing, Step, ClosersAreAlone, HandlersInPlace, MainPhases, gate, Idle
<1>2. CASE BeginDrain
  BY <1>2 DEF BeginDrain, CloseAdmission, Step, ClosersAreAlone, HandlersInPlace,
     MainPhases, Idle
<1>3. CASE Drained
  BY <1>3 DEF Drained, Step, ClosersAreAlone, HandlersInPlace, MainPhases, gate, Idle
<1>4. CASE Exit
  BY <1>4 DEF Exit, Step, ClosersAreAlone, HandlersInPlace, MainPhases, gate, Idle
<1>5. CASE HttpStep
  BY <1>5 DEF HttpStep, StopListening, HttpExits, ClosersAreAlone, HandlersInPlace,
     gate, Idle
<1>. QED BY <1>1, <1>2, <1>3, <1>4, <1>5 DEF MainStep

\* close_session, in the main thread or in a handler.
LEMMA SessionKeepsClosersAlone ==
  ASSUME ClosersAreAlone, HandlersInPlace, NEW t \in Closers,
         ListConnections(t) \/ CloseOne(t) \/ SessionClosed(t)
  PROVE  ClosersAreAlone' /\ HandlersInPlace'
<1>1. CASE ListConnections(t)
  BY <1>1 DEF ListConnections, Step, ClosersAreAlone, HandlersInPlace, MainPhases,
     HandlerPhases, gate, Idle
<1>2. CASE CloseOne(t)
  BY <1>2 DEF CloseOne, Step, ClosersAreAlone, HandlersInPlace, MainPhases,
     HandlerPhases, gate, Idle
<1>3. CASE SessionClosed(t)
  BY <1>3 DEF SessionClosed, Step, ClosersAreAlone, HandlersInPlace, MainPhases,
     HandlerPhases, gate, Idle
<1>. QED BY <1>1, <1>2, <1>3

\* A command opens the gate only where nobody counts on it.
LEMMA CommandsKeepClosersAlone ==
  ASSUME GateStaysShut, ClosersAreAlone, HandlersInPlace, NEW k \in Commands,
         \/ \E method \in {"prepare", "resume", "shutdown"} : Dispatch(k, method)
         \/ CommandStep(k)
  PROVE  ClosersAreAlone' /\ HandlersInPlace'
<1>1. ASSUME NEW method \in {"prepare", "resume", "shutdown"}, Dispatch(k, method)
      PROVE  ClosersAreAlone' /\ HandlersInPlace'
  BY <1>1 DEF Dispatch, Step, ClosersAreAlone, HandlersInPlace, MainPhases,
     HandlerPhases, gate, Idle
<1>2. CASE PauseForCommand(k)
  BY <1>2 DEF PauseForCommand, PauseIfIdle, CloseAdmission, Step, ClosersAreAlone,
     HandlersInPlace, MainPhases, HandlerPhases, gate, Idle
<1>3. CASE Export(k)
  BY <1>3 DEF Export, Step, ClosersAreAlone, HandlersInPlace, MainPhases,
     HandlerPhases, gate, Idle
<1>4. CASE ResumeGate(k)
  <2>1. /\ \A i \in Closers \ {k} : phase'[i] = phase[i]
        /\ phase'[k] = "idle" /\ k \in Closers /\ k # MainThread
        /\ UNCHANGED <<http, counts>> /\ ~paused'
    BY <1>4 DEF ResumeGate, OpenGate, Step, HandlersInPlace
  <2>2. HandlersInPlace'
    BY <1>4, <2>1 DEF ResumeGate, Step, HandlersInPlace, HandlerPhases
  <2>3. \A i \in Closers : phase[i] \notin {"drain", "list", "close"}
    BY <2>1 DEF GateStaysShut, CountingOnGate, ClosersAreAlone, HandlersInPlace, HandlerPhases,
       Closers
  <2>4. ClosersAreAlone'
    BY <2>1, <2>3 DEF ClosersAreAlone
  <2>. QED BY <2>2, <2>4
<1>. QED BY <1>1, <1>2, <1>3, <1>4 DEF CommandStep

\* A new worker restores its session before it serves or obeys commands.
LEMMA RuntimeInvInit == RuntimeInit => RuntimeInv
<1>1. RuntimeInit => ClosersAreAlone /\ HandlersInPlace
  BY DEF RuntimeInit, GateInit, ClosersAreAlone, HandlersInPlace, MainPhases, HandlerPhases
<1>. QED BY <1>1, LeaseInit DEF RuntimeInv

\* While the gate stays shut every step leaves the closers alone behind it.
LEMMA RuntimeInvNext ==
  RuntimeInv /\ [RuntimeNext]_runtimeVars /\ [GateStaysShut]_runtimeVars => RuntimeInv'
<1> SUFFICES ASSUME RuntimeInv, [RuntimeNext]_runtimeVars, [GateStaysShut]_runtimeVars
             PROVE  RuntimeInv'
  OBVIOUS
<1> USE DEF RuntimeInv
<1>0. LeaseInv'
  BY LeaseNext
<1>1. CASE UNCHANGED runtimeVars
  BY <1>0, <1>1, PausedIdleGateIsStill DEF runtimeVars, process
<1>2. CASE RuntimeNext /\ GateStaysShut
  <2>1. CASE \/ \E r \in Clients :
                  \/ \E op \in Offered, c \in Conns : AdmitRequest(r, op, c)
                  \/ ClientStep(r)
             \/ \E j \in Jobs : JobStep(j)
             \/ RunQuery
             \/ \E c \in Conns : RestoreConnection(c)
    BY <1>0, <2>1, WorkKeepsClosersAlone
  <2>2. CASE MainStep \/ HttpStep
    BY <1>0, <2>2, ServerKeepsClosersAlone
  <2>3. CASE \E t \in Closers : SessionStep(t)
    BY <1>0, <2>3, WorkKeepsClosersAlone, SessionKeepsClosersAlone DEF SessionStep
  <2>4. CASE \E k \in Commands :
               \/ \E method \in {"prepare", "resume", "shutdown"} : Dispatch(k, method)
               \/ CommandStep(k)
    BY <1>0, <1>2, <2>4, CommandsKeepClosersAlone
  <2>5. CASE LoseChannel
    BY <1>0, <2>5 DEF LoseChannel, ClosersAreAlone, HandlersInPlace, gate, Idle
  <2>. QED BY <1>2, <2>1, <2>2, <2>3, <2>4, <2>5 DEF RuntimeNext
<1>. QED BY <1>1, <1>2

\* Behind an idle gate only another closer can hold a lock, and the connection
\* it holds has already left the registry.
LEMMA CloseSucceeds == RuntimeInv => SessionCloseIsNeverRefused
<1> SUFFICES ASSUME RuntimeInv, NEW t \in Closers, phase[t] = "close",
                    req[t].pc = "arrived", CloseRefused(req[t].conn)
             PROVE  FALSE
  BY DEF SessionCloseIsNeverRefused
<1> DEFINE c == req[t].conn
<1>1. IdleMeansQuiet /\ Idle
  BY IdleIsQuiet DEF RuntimeInv, ClosersAreAlone
<1>2. c \in Conns /\ conn[c] = "live"
  BY DEF RuntimeInv, LeaseInv, Ticketed, CloseRefused
<1>3. lock[c] \in Closers /\ \A j \in Jobs : ~Running(j)
  BY <1>1, <1>2 DEF IdleMeansQuiet, CloseRefused, CloseAdmissible
<1>4. req[lock[c]].pc = "disposing" /\ req[lock[c]].conn = c
  BY <1>2, <1>3 DEF RuntimeInv, LeaseInv, HoldersAreInside, ClosersOpenAndClose
<1>5. conn[c] = "closed"
  BY <1>3, <1>4 DEF RuntimeInv, LeaseInv, ClosersHoldTheLock
<1>. QED BY <1>2, <1>5

(***************************************************************************)
(* As long as no resume opens the gate behind it, close_session never      *)
(* meets a busy connection, whatever the connections, clients and jobs and *)
(* however commands overlap: a shutdown that has paused the gate, and the  *)
(* drain of a dying worker, always close every connection.                 *)
(***************************************************************************)
THEOREM SessionAlwaysCloses ==
  RuntimeSpec /\ [][GateStaysShut]_runtimeVars => []SessionCloseIsNeverRefused
<1>1. RuntimeInit => RuntimeInv
  BY RuntimeInvInit
<1>2. RuntimeInv /\ [RuntimeNext]_runtimeVars /\ [GateStaysShut]_runtimeVars => RuntimeInv'
  BY RuntimeInvNext
<1>. QED BY <1>1, <1>2, CloseSucceeds, PTL DEF RuntimeSpec

(***************************************************************************)
(* What is left of the session behind a closed and idle gate.              *)
(***************************************************************************)

\* Steps of clients, jobs and queries leave the runtime's own threads alone,
\* and behind a closed and idle gate they leave the registry alone too.
LEMMA WorkBehindGate ==
  ASSUME RuntimeInv,
         \/ \E r \in Clients :
              \/ \E op \in Offered, c \in Conns : AdmitRequest(r, op, c)
              \/ ClientStep(r)
         \/ \E j \in Jobs : JobStep(j)
         \/ RunQuery
  PROVE  /\ UNCHANGED <<phase, todo, http, exiting, connected, exported>>
         /\ \A t \in Closers : req'[t] = req[t]
         /\ paused /\ Idle => UNCHANGED <<conn, paused, counts>>
<1> USE DEF RuntimeInv, LeaseInv
<1>1. ASSUME NEW r \in Clients, NEW op \in Offered, NEW c \in Conns, AdmitRequest(r, op, c)
      PROVE  /\ UNCHANGED <<phase, todo, http, exiting, connected, exported>>
             /\ \A t \in Closers : req'[t] = req[t]
             /\ ~paused
  BY <1>1 DEF AdmitRequest, Arrive, Acquire, process
<1>2. ASSUME NEW r \in Clients, ClientStep(r)
      PROVE  /\ UNCHANGED <<phase, todo, http, exiting, connected, exported>>
             /\ \A t \in Closers : req'[t] = req[t]
             /\ ~(paused /\ Idle)
  <2>1. UNCHANGED process
    BY <1>2 DEF ClientStep, ServeRequest, Launch, FinishRequest
  <2>2. /\ \A q \in Requests \ {r} : req'[q] = req[q]
        /\ req[r].pc # "idle"
    <3>1. CASE ServeRequest(r) \/ Launch(r)
      BY <3>1, RequestStepFacts DEF ServeRequest, Launch
    <3>2. CASE FinishRequest(r)
      BY <3>2 DEF FinishRequest, Return
    <3>. QED BY <1>2, <3>1, <3>2 DEF ClientStep
  <2>3. ~Idle
    BY <2>2, IdleIsQuiet DEF IdleMeansQuiet
  <2>4. \A t \in Closers : req'[t] = req[t]
    BY <2>2
  <2>. QED BY <2>1, <2>3, <2>4 DEF process
<1>3. ASSUME NEW j \in Jobs, JobStep(j)
      PROVE  /\ UNCHANGED <<phase, todo, http, exiting, connected, exported>>
             /\ \A t \in Closers : req'[t] = req[t]
             /\ ~Idle
  <2>1. CASE RunWorker(j)
    <3>1. UNCHANGED req /\ wrk[j] \notin {"none", "exited"}
      BY <2>1, WorkerStepFacts DEF RunWorker
    <3>2. j \in OnLease
      BY <3>1 DEF OnLease, ReleasedAfterExit
    <3>3. ~Idle
      BY <3>2, FiniteLeases, FS_EmptySet DEF Idle, Categories, LeasesAreExact
    <3>. QED BY <2>1, <3>1, <3>3 DEF RunWorker, process
  <2>2. CASE ReleaseLease(j)
    BY <2>2 DEF ReleaseLease, Release, Idle, Categories, GateTypeOK, vars
  <2>. QED BY <1>3, <2>1, <2>2 DEF JobStep
<1>4. CASE RunQuery
  BY <1>4 DEF RunQuery, Query, WorkerQuery, process, gate
<1>. QED BY <1>1, <1>2, <1>3, <1>4

\* Nothing that is still to be kept changes with such a step.
LEMMA WorkSession ==
  ASSUME RuntimeInv, SessionInv,
         \/ \E r \in Clients :
              \/ \E op \in Offered, c \in Conns : AdmitRequest(r, op, c)
              \/ ClientStep(r)
         \/ \E j \in Jobs : JobStep(j)
         \/ RunQuery
  PROVE  SessionInv'
<1>1. /\ UNCHANGED <<phase, todo, http, exiting, connected, exported>>
      /\ \A t \in Closers : req'[t] = req[t]
      /\ paused /\ Idle => UNCHANGED <<conn, paused, counts>>
  BY WorkBehindGate
<1>7. todo' \in [Closers -> SUBSET Conns]
  BY <1>1 DEF SessionInv
<1>2. paused /\ Idle => paused' /\ Idle' /\ Live' = Live
  BY <1>1 DEF Idle, Live
<1> HIDE DEF Closers
<1> MainThread \in Closers
  BY DEF Closers
<1>3. ClosersInPlace'
  BY <1>1 DEF SessionInv, ClosersInPlace
<1>4. SessionsAreBehindGate'
  BY <1>1, <1>2 DEF SessionInv, SessionsAreBehindGate
<1>5. DrainClosesWhatItListed'
  <2>1. phase[MainThread] \in {"close", "join", "exited"} => paused /\ Idle
    BY DEF RuntimeInv, ClosersAreAlone, SessionInv, SessionsAreBehindGate
  <2>2. phase' = phase /\ todo' = todo /\ req'[MainThread] = req[MainThread]
    BY <1>1
  <2>. QED BY <1>2, <2>1, <2>2 DEF SessionInv, DrainClosesWhatItListed
<1>6. ExportedSessionIsCurrent'
  BY <1>1, <1>2 DEF SessionInv, SessionsAreBehindGate, ExportedSessionIsCurrent
<1>. QED BY <1>3, <1>4, <1>5, <1>6, <1>7 DEF SessionInv

\* Steps that change neither the registry nor the closers' requests.
LEMMA QuietRegistrySession ==
  ASSUME GateStaysShut, RuntimeInv, SessionInv,
         \/ MainStep \/ HttpStep \/ LoseChannel
         \/ \E t \in Closers : ListConnections(t) \/ SessionClosed(t)
         \/ \E k \in Commands :
              \/ \E method \in {"prepare", "resume", "shutdown"} : Dispatch(k, method)
              \/ CommandStep(k)
  PROVE  SessionInv'
<1> USE DEF RuntimeInv, SessionInv, Step
<1> DEFINE Goal == SessionInv'
<1>0. /\ phase \in [Closers -> MainPhases \cup HandlerPhases]
      /\ MainThread \in Closers
      /\ \A k \in Commands : k \in Closers /\ k # MainThread
  BY DEF HandlersInPlace
<1> HIDE DEF Closers
<1>1. ASSUME UNCHANGED <<vars, gate, todo, exported, phase>>, exiting => exiting' PROVE Goal
  BY <1>1 DEF vars, gate, Live, Idle, ClosersInPlace, SessionsAreBehindGate,
     DrainClosesWhatItListed, ExportedSessionIsCurrent
<1>2. ASSUME HttpStep \/ LoseChannel PROVE Goal
  BY <1>1, <1>2 DEF HttpStep, StopListening, HttpExits, LoseChannel
<1>3. ASSUME NEW label, label \notin {"restore", "close", "export", "join", "exited"},
             NEW t \in Closers, Step(t, label), phase[t] # "close",
             phase[t] = "restore" => Resting(t),
             UNCHANGED <<vars, todo, exiting>>,
             \/ UNCHANGED exported /\ (paused => paused') /\ UNCHANGED counts
             \/ /\ exported' = {}
                /\ \A i \in Closers \ {t} : phase[i] \notin {"export", "join", "exited"}
      PROVE  Goal
  <2>1. /\ \A i \in Closers \ {t} : phase'[i] = phase[i]
        /\ phase'[t] = label
    BY <1>0, <1>3
  <2>2. Live' = Live /\ UNCHANGED req
    BY <1>3 DEF Live, vars
  <2>3. ClosersInPlace'
    BY <1>3, <2>1, <2>2 DEF ClosersInPlace
  <2>4. SessionsAreBehindGate'
    <3>1. CASE UNCHANGED exported /\ (paused => paused') /\ UNCHANGED counts
      <4>1. paused /\ Idle => paused' /\ Idle'
        BY <3>1 DEF Idle
      <4>. QED BY <1>0, <1>3, <2>1, <3>1, <4>1 DEF SessionsAreBehindGate
    <3>2. CASE /\ exported' = {}
               /\ \A i \in Closers \ {t} : phase[i] \notin {"export", "join", "exited"}
      <4>1. \A i \in Closers : phase'[i] \notin {"export", "join", "exited"}
        BY <1>3, <2>1, <3>2
      <4>. QED BY <1>0, <3>2, <4>1 DEF SessionsAreBehindGate
    <3>. QED BY <1>3, <3>1, <3>2
  <2>5. DrainClosesWhatItListed'
    BY <1>0, <1>3, <2>1, <2>2 DEF DrainClosesWhatItListed
  <2>6. ExportedSessionIsCurrent'
    BY <1>3, <2>1, <2>2 DEF ExportedSessionIsCurrent
  <2>. QED BY <1>3, <2>3, <2>4, <2>5, <2>6
<1>4. CASE StartServing \/ BeginDrain \/ Drained
  <2>1. CASE StartServing
    BY <1>0, <1>3, <2>1 DEF StartServing, gate
  <2>2. CASE BeginDrain
    BY <1>0, <1>3, <2>2 DEF BeginDrain, CloseAdmission
  <2>3. CASE Drained
    BY <1>0, <1>3, <2>3 DEF Drained, gate
  <2>. QED BY <1>4, <2>1, <2>2, <2>3
<1>5. CASE Exit
  BY <1>0, <1>5 DEF Exit, vars, gate, Live, Idle, ClosersInPlace, SessionsAreBehindGate,
     DrainClosesWhatItListed, ExportedSessionIsCurrent
<1>6. ASSUME NEW t \in Closers, ListConnections(t) PROVE Goal
  <2>1. /\ \A i \in Closers \ {t} : phase'[i] = phase[i] /\ todo'[i] = todo[i]
        /\ phase'[t] = "close" /\ todo'[t] = Live
        /\ UNCHANGED <<vars, gate, exiting, exported>> /\ phase[t] = "list"
    BY <1>0, <1>6 DEF ListConnections, GateTypeOK
  <2>2. Live' = Live /\ UNCHANGED req /\ Idle' = Idle
    BY <2>1 DEF Live, vars, gate, Idle
  <2>3. ClosersInPlace'
    BY <2>1, <2>2 DEF ClosersInPlace
  <2>4. SessionsAreBehindGate'
    BY <1>0, <2>1, <2>2 DEF SessionsAreBehindGate, gate
  <2>5. DrainClosesWhatItListed'
    BY <1>0, <2>1, <2>2 DEF DrainClosesWhatItListed
  <2>6. ExportedSessionIsCurrent'
    BY <2>1 DEF ExportedSessionIsCurrent
  <2>7. todo' \in [Closers -> SUBSET Conns]
    BY <1>6 DEF ListConnections, Live
  <2>. QED BY <2>3, <2>4, <2>5, <2>6, <2>7
<1>7. ASSUME NEW t \in Closers, SessionClosed(t) PROVE Goal
  <2>1. /\ \A i \in Closers \ {t} : phase'[i] = phase[i]
        /\ phase'[t] \in {"join", "idle"} /\ (phase'[t] = "join" => t = MainThread)
        /\ phase[t] = "close" /\ todo[t] = {} /\ Resting(t)
        /\ UNCHANGED <<vars, gate, exported, todo>> /\ exiting'
    BY <1>0, <1>7 DEF SessionClosed
  <2>2. Live' = Live /\ UNCHANGED req /\ Idle' = Idle /\ paused /\ Idle
    BY <2>1 DEF Live, vars, gate, Idle, ClosersAreAlone
  <2>3. ClosersInPlace'
    BY <2>1, <2>2 DEF ClosersInPlace
  <2>4. SessionsAreBehindGate'
    BY <1>0, <2>1, <2>2 DEF SessionsAreBehindGate, gate
  <2>5. DrainClosesWhatItListed'
    <3>1. CASE t = MainThread
      <4>1. Live = {}
        BY <2>1, <3>1 DEF DrainClosesWhatItListed
      <4>. QED BY <2>1, <2>2, <3>1, <4>1 DEF DrainClosesWhatItListed
    <3>2. CASE t # MainThread
      BY <1>0, <2>1, <2>2, <3>2 DEF DrainClosesWhatItListed
    <3>. QED BY <3>1, <3>2
  <2>6. ExportedSessionIsCurrent'
    BY <2>1 DEF ExportedSessionIsCurrent
  <2>7. todo' \in [Closers -> SUBSET Conns]
    BY <2>1
  <2>. QED BY <2>3, <2>4, <2>5, <2>6, <2>7
<1>8. ASSUME NEW k \in Commands, NEW method \in {"prepare", "resume", "shutdown"},
             Dispatch(k, method)
      PROVE  Goal
  BY <1>0, <1>3, <1>8 DEF Dispatch, gate
<1>9. ASSUME NEW k \in Commands, PauseForCommand(k) PROVE Goal
  <2>1. CASE phase[k] = "prepare" /\ PauseIfIdle /\ Step(k, "export")
    <3>1. /\ \A i \in Closers \ {k} : phase'[i] = phase[i]
          /\ phase'[k] = "export"
          /\ UNCHANGED <<vars, todo, exiting, exported>> /\ paused' /\ Idle'
      BY <1>0, <1>9, <2>1 DEF PauseForCommand, PauseIfIdle, CloseAdmission, Idle
    <3>2. Live' = Live /\ UNCHANGED req
      BY <3>1 DEF Live, vars
    <3>3. ClosersInPlace'
      BY <2>1, <3>1, <3>2 DEF ClosersInPlace
    <3>4. SessionsAreBehindGate'
      BY <1>0, <3>1 DEF SessionsAreBehindGate
    <3>5. DrainClosesWhatItListed'
      BY <1>0, <3>1, <3>2 DEF DrainClosesWhatItListed
    <3>6. ExportedSessionIsCurrent'
      BY <2>1, <3>1, <3>2 DEF ExportedSessionIsCurrent
    <3>. QED BY <3>1, <3>3, <3>4, <3>5, <3>6
  <2>2. CASE phase[k] = "shutdown" /\ PauseIfIdle /\ Step(k, "list")
    BY <1>0, <1>3, <1>9, <2>2 DEF PauseForCommand, PauseIfIdle, CloseAdmission
  <2>3. CASE Step(k, "idle") /\ UNCHANGED gate
    BY <1>0, <1>3, <1>9, <2>3 DEF PauseForCommand, gate
  <2>. QED BY <1>9, <2>1, <2>2, <2>3 DEF PauseForCommand
<1>10. ASSUME NEW k \in Commands, Export(k) PROVE Goal
  <2>1. CASE exported' = {Live} /\ Step(k, "idle")
    <3>1. /\ \A i \in Closers \ {k} : phase'[i] = phase[i]
          /\ phase'[k] = "idle" /\ phase[k] = "export" /\ phase[MainThread] # "restore"
          /\ UNCHANGED <<vars, gate, todo, exiting>>
      BY <1>0, <1>10, <2>1 DEF Export, HandlersInPlace
    <3>2. Live' = Live /\ UNCHANGED req /\ Idle' = Idle
      BY <3>1 DEF Live, vars, gate, Idle
    <3>3. ClosersInPlace'
      BY <3>1, <3>2 DEF ClosersInPlace
    <3>4. SessionsAreBehindGate'
      BY <1>0, <3>1, <3>2 DEF SessionsAreBehindGate, gate
    <3>5. DrainClosesWhatItListed'
      BY <1>0, <3>1, <3>2 DEF DrainClosesWhatItListed
    <3>6. ExportedSessionIsCurrent'
      BY <2>1, <3>2 DEF ExportedSessionIsCurrent
    <3>. QED BY <3>1, <3>3, <3>4, <3>5, <3>6
  <2>2. CASE Step(k, "undo") /\ UNCHANGED exported
    BY <1>0, <1>3, <1>10, <2>2 DEF Export, gate
  <2>. QED BY <1>10, <2>1, <2>2 DEF Export
<1>11. ASSUME NEW k \in Commands, ResumeGate(k) PROVE Goal
  <2>1. ~paused'
    BY <1>11 DEF ResumeGate, OpenGate
  <2>2. \A i \in Closers : phase[i] \notin {"export", "join", "exited"}
    <3>1. CASE paused
      BY <2>1, <3>1 DEF GateStaysShut, CountingOnGate
    <3>2. CASE ~paused
      <4>1. \A i \in Closers : i \in Commands \/ i = MainThread
        BY DEF Closers
      <4>. QED BY <1>0, <3>2, <4>1 DEF SessionsAreBehindGate, HandlersInPlace, HandlerPhases,
                  MainPhases
    <3>. QED BY <3>1, <3>2
  <2>. QED BY <1>0, <1>3, <1>11, <2>2 DEF ResumeGate
<1>. QED BY <1>2, <1>4, <1>5, <1>6, <1>7, <1>8, <1>9, <1>10, <1>11
         DEF MainStep, CommandStep

\* What the runtime's own threads do with the registry.
LEMMA RegistrySession ==
  ASSUME RuntimeInv, SessionInv, NEW t \in Closers,
         \/ UseRegistry(t) \/ CloseOne(t)
         \/ \E c \in Conns : CloseNext(t, c)
         \/ t = MainThread /\ \E c \in Conns : RestoreConnection(c)
  PROVE  SessionInv'
<1> USE DEF RuntimeInv, SessionInv, LeaseInv, Step
<1> DEFINE Goal == SessionInv'
<1>0. /\ phase \in [Closers -> MainPhases \cup HandlerPhases]
      /\ MainThread \in Closers /\ Closers \subseteq Requests
      /\ \A k \in Commands : k \in Closers /\ k # MainThread /\ phase[k] \in HandlerPhases
      /\ req \in [Requests -> RequestRecord] /\ req[t] \in RequestRecord
      /\ conn \in [Conns -> {"new", "live", "closed"}]
      /\ todo \in [Closers -> SUBSET Conns]
  BY DEF HandlersInPlace
<1> HIDE DEF Closers
\* A thread that closes nothing yet.
<1>1. ASSUME NEW c \in Conns, CloseNext(t, c) PROVE Goal
  <2>1. /\ \A i \in Closers \ {t} : req'[i] = req[i] /\ todo'[i] = todo[i]
        /\ req'[t].pc = "arrived" /\ req'[t].op = "close" /\ req'[t].conn = c
        /\ todo'[t] = todo[t] \ {c} /\ phase[t] = "close" /\ req[t].pc = "idle"
        /\ UNCHANGED <<conn, gate, phase, exiting, exported>>
        /\ todo' \in [Closers -> SUBSET Conns]
    BY <1>0, <1>1 DEF CloseNext, Arrive
  <2>2. Live' = Live /\ Idle' = Idle
    BY <2>1 DEF Live, gate, Idle
  <2>3. ClosersInPlace'
    BY <2>1 DEF ClosersInPlace
  <2>4. SessionsAreBehindGate'
    BY <2>1, <2>2 DEF SessionsAreBehindGate, gate
  <2>5. DrainClosesWhatItListed'
    BY <1>0, <2>1, <2>2 DEF DrainClosesWhatItListed
  <2>6. ExportedSessionIsCurrent'
    BY <2>1, <2>2 DEF ExportedSessionIsCurrent
  <2>. QED BY <2>1, <2>3, <2>4, <2>5, <2>6
\* The connection a thread closes leaves the registry.
<1>2. ASSUME CloseOne(t) PROVE Goal
  <2>1. /\ phase[t] = "close" /\ req[t].pc = "arrived" /\ req[t].op = "close"
        /\ req[t].conn \in Conns
    BY <1>0, <1>2 DEF CloseOne, CloseBegin, Ticketed
  <2>2. ~CloseRefused(req[t].conn)
    BY <2>1, CloseSucceeds DEF SessionCloseIsNeverRefused
  <2>3. UNCHANGED <<phase, todo, gate, exiting, exported>>
    BY <1>2, <2>2 DEF CloseOne
  <2>4. /\ \A i \in Closers \ {t} : req'[i] = req[i]
        /\ req'[t].pc \in {"disposing", "done"}
    BY <1>0, <1>2 DEF CloseOne, CloseBegin, Goto, RequestRecord
  <2>5. Live' = Live \ {req[t].conn}
    <3>1. CASE CloseAdmissible(req[t].conn)
      BY <1>0, <1>2, <2>1, <3>1 DEF CloseOne, CloseBegin, Live
    <3>2. CASE ~CloseAdmissible(req[t].conn)
      BY <1>2, <2>2, <3>2 DEF CloseOne, CloseBegin, Live, CloseRefused
    <3>. QED BY <3>1, <3>2
  <2>6. Idle' = Idle
    BY <2>3 DEF gate, Idle
  <2>7. ClosersInPlace'
    BY <2>3, <2>4 DEF ClosersInPlace
  <2>8. SessionsAreBehindGate'
    BY <2>3, <2>6 DEF SessionsAreBehindGate, gate
  <2>9. DrainClosesWhatItListed'
    <3>1. CASE t = MainThread
      BY <2>1, <2>3, <2>5, <3>1 DEF DrainClosesWhatItListed
    <3>2. CASE t # MainThread
      BY <1>0, <2>3, <2>4, <2>5, <3>2 DEF DrainClosesWhatItListed
    <3>. QED BY <3>1, <3>2
  <2>10. ExportedSessionIsCurrent'
    BY <2>1, <2>3 DEF ExportedSessionIsCurrent
  <2>. QED BY <1>0, <2>3, <2>7, <2>8, <2>9, <2>10
\* Connections come only from a session that is being restored.
<1>3. ASSUME t = MainThread, NEW c \in Conns, RestoreConnection(c) PROVE Goal
  <2>1. /\ \A i \in Closers \ {t} : req'[i] = req[i]
        /\ phase[t] = "restore"
        /\ UNCHANGED <<conn, gate, phase, exiting, exported>>
        /\ todo' \in [Closers -> SUBSET Conns]
    BY <1>0, <1>3 DEF RestoreConnection, Arrive
  <2>2. Live' = Live /\ Idle' = Idle
    BY <2>1 DEF Live, gate, Idle
  <2>3. ClosersInPlace'
    BY <2>1 DEF ClosersInPlace
  <2>4. SessionsAreBehindGate'
    BY <2>1, <2>2 DEF SessionsAreBehindGate, gate
  <2>5. DrainClosesWhatItListed'
    BY <1>3, <2>1 DEF DrainClosesWhatItListed
  <2>6. ExportedSessionIsCurrent'
    BY <2>1, <2>2 DEF ExportedSessionIsCurrent
  <2>. QED BY <2>1, <2>3, <2>4, <2>5, <2>6
<1>4. ASSUME UseRegistry(t) PROVE Goal
  <2>1. /\ \A i \in Closers \ {t} : req'[i] = req[i]
        /\ UNCHANGED <<gate, phase, todo, exiting, exported>>
    BY <1>0, <1>4 DEF UseRegistry, process, Register, FinishUse, CloseBegin, Dispose, Return,
       Goto, RequestRecord
  <2>2. Idle' = Idle
    BY <2>1 DEF gate, Idle
  <2>3. CASE phase[t] = "restore"
    <3>1. t = MainThread
      BY <1>0, <2>3 DEF Closers, HandlerPhases
    <3>2. ClosersInPlace'
      BY <2>1, <2>3 DEF ClosersInPlace
    <3>3. SessionsAreBehindGate'
      BY <2>1, <2>2 DEF SessionsAreBehindGate, gate
    <3>4. DrainClosesWhatItListed'
      BY <2>1, <2>3, <3>1 DEF DrainClosesWhatItListed
    <3>5. ExportedSessionIsCurrent'
      BY <2>1, <2>3, <3>1 DEF SessionsAreBehindGate, ExportedSessionIsCurrent
    <3>. QED BY <1>0, <2>1, <3>2, <3>3, <3>4, <3>5
  <2>4. CASE phase[t] # "restore"
    <3>1. /\ req[t].pc \notin {"arrived", "using"}
          /\ Dispose(t) \/ Return(t)
      BY <1>4, <2>4 DEF UseRegistry, Register, FinishUse, CloseBegin, ClosersInPlace
    <3>2. req'[t].pc \in {"idle", "done"} /\ UNCHANGED conn
      BY <1>0, <3>1 DEF Dispose, Return, Goto, IdleRequest, RequestRecord
    <3>3. Live' = Live
      BY <3>2 DEF Live
    <3>4. ClosersInPlace'
      BY <2>1, <3>2 DEF ClosersInPlace
    <3>5. SessionsAreBehindGate'
      BY <2>1, <2>2 DEF SessionsAreBehindGate, gate
    <3>6. DrainClosesWhatItListed'
      BY <1>0, <2>1, <3>1, <3>3 DEF DrainClosesWhatItListed
    <3>7. ExportedSessionIsCurrent'
      BY <2>1, <3>3 DEF ExportedSessionIsCurrent
    <3>. QED BY <1>0, <2>1, <3>4, <3>5, <3>6, <3>7
  <2>. QED BY <2>3, <2>4
<1>. QED BY <1>1, <1>2, <1>3, <1>4

\* A new worker has exported nothing and has closed nothing.
LEMMA SessionInit == RuntimeInit => SessionInv
  BY DEF RuntimeInit, Init, GateInit, IdleRequest, SessionInv, ClosersInPlace,
     SessionsAreBehindGate, DrainClosesWhatItListed, ExportedSessionIsCurrent

\* While the gate stays shut every step keeps what the session relies on.
LEMMA SessionNext ==
  RuntimeInv /\ SessionInv /\ [RuntimeNext]_runtimeVars /\ [GateStaysShut]_runtimeVars
    => SessionInv'
<1> SUFFICES ASSUME RuntimeInv, SessionInv, [RuntimeNext]_runtimeVars,
                    [GateStaysShut]_runtimeVars
             PROVE  SessionInv'
  OBVIOUS
<1>1. CASE UNCHANGED runtimeVars
  BY <1>1 DEF runtimeVars, vars, gate, process, Live, Idle, SessionInv, ClosersInPlace,
     SessionsAreBehindGate, DrainClosesWhatItListed, ExportedSessionIsCurrent
<1>2. CASE RuntimeNext /\ GateStaysShut
  BY <1>2, WorkSession, QuietRegistrySession, RegistrySession DEF RuntimeNext, SessionStep
<1>. QED BY <1>1, <1>2

\* A worker that is about to exit has a closed and idle gate.
LEMMA ExitIsClean == RuntimeInv /\ SessionInv => ExitedWorkerLeftNothing
<1> SUFFICES ASSUME RuntimeInv, SessionInv, phase[MainThread] = "exited"
             PROVE  Idle /\ (\A j \in Jobs : ~Running(j)) /\ Live = {}
  BY DEF ExitedWorkerLeftNothing
<1>1. Idle /\ Live = {}
  BY DEF SessionInv, SessionsAreBehindGate, DrainClosesWhatItListed
<1>2. \A j \in Jobs : ~Running(j)
  BY <1>1, IdleIsQuiet DEF RuntimeInv, IdleMeansQuiet
<1>. QED BY <1>1, <1>2

(***************************************************************************)
(* What prepare has exported stays the worker's whole session: as long as  *)
(* the gate is not opened behind it, no client, job or thread of the       *)
(* runtime adds or removes a connection before a resume, a shutdown or the *)
(* drain, however commands overlap, so the worker that restores the export *)
(* continues exactly where this one stopped.                               *)
(***************************************************************************)
THEOREM ExportsStayCurrent ==
  RuntimeSpec /\ [][GateStaysShut]_runtimeVars => []ExportedSessionIsCurrent
<1>1. RuntimeInit => RuntimeInv /\ SessionInv
  BY RuntimeInvInit, SessionInit
<1>2. RuntimeInv /\ SessionInv /\ [RuntimeNext]_runtimeVars /\ [GateStaysShut]_runtimeVars
        => (RuntimeInv /\ SessionInv)'
  BY RuntimeInvNext, SessionNext
<1>3. RuntimeInv /\ SessionInv => ExportedSessionIsCurrent
  BY DEF SessionInv
<1>. QED BY <1>1, <1>2, <1>3, PTL DEF RuntimeSpec

(***************************************************************************)
(* A worker exits with every lease returned, every job finished and every  *)
(* connection closed (run_worker and _drain_worker_runtime), as long as no *)
(* resume opens the gate behind the drain.                                 *)
(***************************************************************************)
THEOREM ExitsAreClean ==
  RuntimeSpec /\ [][GateStaysShut]_runtimeVars => []ExitedWorkerLeftNothing
<1>1. RuntimeInit => RuntimeInv /\ SessionInv
  BY RuntimeInvInit, SessionInit
<1>2. RuntimeInv /\ SessionInv /\ [RuntimeNext]_runtimeVars /\ [GateStaysShut]_runtimeVars
        => (RuntimeInv /\ SessionInv)'
  BY RuntimeInvNext, SessionNext
<1>. QED BY <1>1, <1>2, ExitIsClean, PTL DEF RuntimeSpec

(***************************************************************************)
(* That the gate stays shut, when commands are serial.                     *)
(***************************************************************************)

\* Commands that may open the gate are alone in a worker that serves, and stay so.
LEMMA SerialNext ==
  ASSUME Serial
  PROVE  HandlersInPlace /\ CommandsAreSerial /\ [RuntimeNext]_runtimeVars
           => (HandlersInPlace /\ CommandsAreSerial)'
<1> SUFFICES ASSUME HandlersInPlace, CommandsAreSerial, [RuntimeNext]_runtimeVars
             PROVE  (HandlersInPlace /\ CommandsAreSerial)'
  OBVIOUS
<1> USE DEF HandlersInPlace, CommandsAreSerial, Step, MainPhases, HandlerPhases
<1>1. ASSUME UNCHANGED <<phase, http, exiting, connected>>
      PROVE  (HandlersInPlace /\ CommandsAreSerial)'
  BY <1>1
<1>2. CASE \/ UNCHANGED runtimeVars
           \/ \E r \in Clients :
                \/ \E op \in Offered, c \in Conns : AdmitRequest(r, op, c)
                \/ ClientStep(r)
           \/ \E j \in Jobs : JobStep(j)
           \/ RunQuery
           \/ \E c \in Conns : RestoreConnection(c)
           \/ \E t \in Closers : UseRegistry(t) \/ \E c \in Conns : CloseNext(t, c)
  <2>1. UNCHANGED <<phase, http, exiting, connected>>
    BY <1>2 DEF runtimeVars, AdmitRequest, ClientStep, ServeRequest, Launch, FinishRequest,
       JobStep, RunWorker, ReleaseLease, RunQuery, RestoreConnection, UseRegistry, CloseNext,
       process
  <2>. QED BY <1>1, <2>1
<1>3. CASE MainStep \/ HttpStep
  BY <1>3 DEF MainStep, HttpStep, StartServing, BeginDrain, Drained, Exit, StopListening,
     HttpExits
<1>4. ASSUME NEW t \in Closers, ListConnections(t) \/ CloseOne(t) \/ SessionClosed(t)
      PROVE  (HandlersInPlace /\ CommandsAreSerial)'
  BY <1>4 DEF ListConnections, CloseOne, SessionClosed
<1>5. ASSUME NEW k \in Commands,
             \/ \E method \in {"prepare", "resume", "shutdown"} : Dispatch(k, method)
             \/ CommandStep(k)
      PROVE  (HandlersInPlace /\ CommandsAreSerial)'
  BY <1>5 DEF Dispatch, CommandStep, PauseForCommand, Export, ResumeGate
<1>6. CASE LoseChannel
  BY <1>6 DEF LoseChannel
<1>. QED BY <1>2, <1>3, <1>4, <1>5, <1>6 DEF RuntimeNext, SessionStep

\* Only a resume or an undo opens the gate.
LEMMA SerialGateStaysShut ==
  ASSUME HandlersInPlace, CommandsAreSerial, RuntimeNext PROVE GateStaysShut
<1>1. \/ paused => paused'
      \/ \E k \in Commands : ResumeGate(k)
  BY DEF RuntimeNext, AdmitRequest, ClientStep, ServeRequest, Launch, FinishRequest, JobStep,
     RunWorker, ReleaseLease, RunQuery, RestoreConnection, MainStep, StartServing, BeginDrain,
     Drained, Exit, HttpStep, StopListening, HttpExits, SessionStep, UseRegistry,
     ListConnections, CloseNext, CloseOne, SessionClosed, Dispatch, CommandStep,
     PauseForCommand, PauseIfIdle, CloseAdmission, Export, LoseChannel, Acquire, Release, gate
<1>2. ASSUME NEW k \in Commands, ResumeGate(k) PROVE CountingOnGate = {}
  <2>1. phase[k] \in {"resume", "undo"}
    BY <1>2 DEF ResumeGate
  <2>2. \A t \in Closers : phase[t] \in {"resume", "undo", "idle", "serve"}
    BY <2>1 DEF Closers, CommandsAreSerial
  <2>. QED BY <2>2 DEF CountingOnGate
<1>. QED BY <1>1, <1>2 DEF GateStaysShut

(***************************************************************************)
(* If the supervisor sends one command at a time, and closes the channel   *)
(* on no other than a shutdown, nothing opens the gate behind a drain, a   *)
(* close_session or an export: the theorems above hold of every instance   *)
(* with Serial = TRUE.                                                     *)
(***************************************************************************)
THEOREM SerialCommandsKeepGateShut ==
  ASSUME Serial PROVE RuntimeSpec => [][GateStaysShut]_runtimeVars
<1>1. RuntimeInit => HandlersInPlace /\ CommandsAreSerial
  BY DEF RuntimeInit, HandlersInPlace, CommandsAreSerial, MainPhases, HandlerPhases
<1>2. HandlersInPlace /\ CommandsAreSerial /\ [RuntimeNext]_runtimeVars
        => (HandlersInPlace /\ CommandsAreSerial)'
  BY SerialNext
<1>3. HandlersInPlace /\ CommandsAreSerial /\ [RuntimeNext]_runtimeVars
        => [GateStaysShut]_runtimeVars
  BY SerialGateStaysShut
<1>. QED BY <1>1, <1>2, <1>3, PTL DEF RuntimeSpec
=============================================================================
