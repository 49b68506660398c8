----------------------------- MODULE WorkbenchRun -----------------------------
(***************************************************************************)
(* One run of the workbench (workbench_runtime.py): the request checks the *)
(* saved document and stores an immutable record, a background worker      *)
(* checks again and fills the tables in order, and the record and the job  *)
(* are closed whatever happens.  Other connections change the database     *)
(* between the checks, the workspace file may refuse a write, a fill may   *)
(* fail with or without a row count, and the process may die and start     *)
(* again, when WorkspaceStore._initialize closes what it left open.        *)
(***************************************************************************)
EXTENDS Naturals, FiniteSets

CONSTANTS
  N,              (* tables of the document, filled in the order 1..N      *)
  Want,           (* rows asked for in each table                          *)
  Modes,          (* "append", "atomic" (existing cycles) and "replace"    *)
  MaxSourceChanges, (* bound: changes of the sources by other connections    *)
  MaxFaults,      (* bound: refused writes of the workspace file           *)
  MaxDeaths,      (* bound: deaths of the process                          *)
  SecondServer    (* another server may open the same workspace file       *)

\* A document has tables, or its check says empty_plan, and asks each for rows (TableConfig.count).
RunAssumption ==
  /\ N \in Nat \ {0} /\ Want \in Nat \ {0}
  /\ Modes \subseteq {"append", "atomic", "replace"}
  /\ MaxSourceChanges \in Nat /\ MaxFaults \in Nat /\ MaxDeaths \in Nat

VARIABLES
  mode,     (* the execution options                                       *)
  pc,       (* the place of the request and then of the worker             *)
  rec,      (* the record in workspace_runs                                *)
  mem,      (* run["tables"] of the worker                                 *)
  cur,      (* the table being filled                                      *)
  total,    (* progress.rows_inserted                                      *)
  failed,   (* progress.errors is not empty                                *)
  committed, (* an atomic run has committed                                *)
  job,      (* the job of the registry                                     *)
  db,       (* generated rows committed in each table                      *)
  staged,   (* generated rows in the open transaction                      *)
  old,      (* the rows of before the run are still there                  *)
  sources,  (* version of the schema and of the parent rows                *)
  reviewed, (* the version the user's check was made on                    *)
  erased,   (* the version on which rows were deleted                      *)
  faults, deaths

runVars == <<mode, pc, rec, mem, cur, total, failed, committed, job, db, staged, old,
          sources, reviewed, erased, faults, deaths>>

Tables == 1 .. N
Unknown == Want + 1          \* rows_inserted is None
NoRows == [t \in Tables |-> 0]
Queued == [t \in Tables |-> [status |-> "queued", rows |-> 0]]
NoRecord == [status |-> "none", tables |-> Queued, total |-> 0, exact |-> FALSE, committed |-> FALSE]
Atomic == mode # "append"
RowsOf(rows) == {r \in Tables \X (1 .. Unknown) : r[2] <= rows[r[1]]}
TotalOf(rows) == Cardinality(RowsOf(rows))
Full == [t \in Tables |-> Want]
OpenRecord(r) == r.status \in {"queued", "running"}

RunInit ==
  /\ mode \in Modes /\ pc = "idle" /\ job = "none"
  /\ rec = NoRecord /\ mem = Queued /\ cur = 1 /\ total = 0 /\ failed = FALSE
  /\ committed = FALSE
  /\ db = NoRows /\ staged = NoRows /\ old = TRUE
  /\ sources = 0 /\ reviewed = 0 /\ erased = 0
  /\ faults = 0 /\ deaths = 0

progress == <<mem, cur, total, failed, committed>>
target == <<db, staged, old, erased>>
rest == <<mode, sources, reviewed, deaths>>

Goto(place) == pc' = place

\* update_run: one transaction of the workspace file, or an error.
Saved(r) == rec' = r /\ UNCHANGED faults
NotSaved == faults < MaxFaults /\ faults' = faults + 1 /\ UNCHANGED rec

\* check_document and build_execution_plan compare hashes of what they read.
SourcesUnchanged == sources = reviewed

-----------------------------------------------------------------------------
(* The request: start_run                                                  *)

\* _checked_saved and _require_execution_plan, then create_job.
Accept ==
  /\ pc = "idle" /\ SourcesUnchanged
  /\ Goto("create") /\ job' = "running"
  /\ UNCHANGED <<rec, progress, target, rest, faults>>

Refuse ==
  /\ pc = "idle" /\ ~SourcesUnchanged /\ Goto("ended")
  /\ UNCHANGED <<job, rec, progress, target, rest, faults>>

CreateRecord ==
  /\ pc = "create"
  /\ \/ /\ Saved([NoRecord EXCEPT !.status = "queued"]) /\ Goto("launch") /\ UNCHANGED job
     \/ /\ NotSaved /\ Goto("ended") /\ job' = "error"
  /\ UNCHANGED <<progress, target, rest>>

JobOfFailedStart == "error"

\* start_background, which raises when no thread can be started.
Launch ==
  /\ pc = "launch"
  /\ \/ Goto("load") /\ UNCHANGED <<job, rec, faults>>
     \/ /\ Saved([rec EXCEPT !.status = "error"]) \/ NotSaved
        /\ Goto("ended") /\ job' = JobOfFailedStart
  /\ UNCHANGED <<progress, target, rest>>

-----------------------------------------------------------------------------
(* The worker: execute_run                                                 *)

\* get_run; _run_snapshot_failure closes the record and the job without it.
LoadRun ==
  /\ pc = "load"
  /\ \/ Goto("recheck") /\ UNCHANGED <<rec, faults>>
     \/ faults < MaxFaults /\ faults' = faults + 1 /\ Goto("lost") /\ UNCHANGED rec
  /\ UNCHANGED <<job, progress, target, rest>>

SnapshotFailure ==
  /\ pc = "lost"
  /\ Saved([rec EXCEPT !.status = "error"]) \/ NotSaved
  /\ Goto("ended") /\ job' = "error"
  /\ UNCHANGED <<progress, target, rest>>

\* A mistake: rows of a failed fill count as not inserted in every mode.
NoneInserted == 0
RowsOfFailed == IF Atomic THEN 0 ELSE Unknown

\* A mistake: what a failed transaction has written stays.
LeftByFailure == [t \in Tables |-> IF staged[t] > 0 THEN staged[t] ELSE db[t]]
RolledBack == db

\* _run_execution_failure; an open transaction is rolled back on the way.
FailRun(tables) ==
  /\ failed' = TRUE
  /\ mem' = [t \in Tables |-> IF tables[t].status = "running"
                              THEN [status |-> "error", rows |-> RowsOfFailed] ELSE tables[t]]
  /\ total' = IF Atomic /\ committed THEN TotalOf([t \in Tables |-> tables[t].rows]) ELSE total
  /\ staged' = NoRows
  /\ Goto("terminal")
  /\ UNCHANGED <<cur, committed>>

FailAtRest(tables) == FailRun(tables) /\ db' = RolledBack /\ UNCHANGED <<old, erased>>

\* _current_run_check, before any table is touched.
CurrentRunCheck ==
  /\ pc = "recheck"
  /\ IF SourcesUnchanged THEN Goto("mark") /\ UNCHANGED <<progress, target>> ELSE FailAtRest(mem)
  /\ UNCHANGED <<job, rec, rest, faults>>

MarkRunning ==
  /\ pc = "mark"
  /\ \/ /\ Saved([rec EXCEPT !.status = "running"])
        /\ Goto(IF Atomic THEN "begin" ELSE "next") /\ UNCHANGED <<progress, target>>
     \/ NotSaved /\ FailAtRest(mem)
  /\ UNCHANGED <<job, rest>>

\* Both kinds of run announce a table before they fill it.
NextTable ==
  /\ pc \in {"next", "stage"} /\ cur <= N
  /\ LET announced == [mem EXCEPT ![cur].status = "running"] IN
     \/ /\ Saved([rec EXCEPT !.tables = announced])
        /\ mem' = announced /\ Goto(IF Atomic THEN "fillstaged" ELSE "fill")
        /\ UNCHANGED <<cur, total, failed, committed, target>>
     \/ NotSaved /\ FailAtRest(announced)
  /\ UNCHANGED <<job, rest>>

Counted(k) == total + k

\* _append_run_tables: a fill ends, fails with the rows it committed, or
\* raises after a part of them.
Fill ==
  /\ pc = "fill"
  /\ \E k \in 0 .. Want :
       \/ /\ \E s \in {"error"} \cup (IF k = Want THEN {"done"} ELSE {}) :
               mem' = [mem EXCEPT ![cur] = [status |-> s, rows |-> k]]
          /\ db' = [db EXCEPT ![cur] = k] /\ total' = Counted(k)
          /\ Goto("stored") /\ UNCHANGED <<cur, failed, committed, staged, old, erased>>
       \/ FailRun(mem) /\ db' = [db EXCEPT ![cur] = k] /\ UNCHANGED <<old, erased>>
  /\ UNCHANGED <<job, rec, rest, faults>>

StoreTable ==
  /\ pc = "stored"
  /\ \/ /\ Saved([rec EXCEPT !.tables = mem, !.total = total])
        /\ IF mem[cur].status = "error"
           THEN failed' = TRUE /\ Goto("terminal") /\ UNCHANGED cur
           ELSE cur' = cur + 1 /\ Goto("next") /\ UNCHANGED failed
        /\ UNCHANGED <<mem, total, committed, target>>
     \/ NotSaved /\ FailAtRest(mem)
  /\ UNCHANGED <<job, rest>>

\* Leaving the orchestrator of an append run, or of a committed atomic one.
CloseSession ==
  /\ \/ pc = "next" /\ cur > N
     \/ pc = "dispose"
  /\ \/ /\ Goto("terminal")
        /\ total' = IF Atomic THEN TotalOf([t \in Tables |-> mem[t].rows]) ELSE total
        /\ UNCHANGED <<mem, cur, failed, committed, target>>
     \/ FailAtRest(mem)
  /\ UNCHANGED <<job, rec, rest, faults>>

-----------------------------------------------------------------------------
(* _execute_atomic_run                                                     *)

\* A mistake: the plan is not compared again inside the transaction.
PlanOfTheRequest == TRUE
PlanStillReviewed == SourcesUnchanged

\* BEGIN IMMEDIATE, the last check, and the deletes of a replacement.
Begin ==
  /\ pc = "begin"
  /\ IF PlanStillReviewed
     THEN /\ erased' = IF mode = "replace" THEN sources ELSE erased
          /\ Goto("stage") /\ UNCHANGED <<progress, db, staged, old>>
     ELSE FailAtRest(mem)
  /\ UNCHANGED <<job, rec, rest, faults>>

StillRunning == mem

\* _fill_replacement_tables: any error of a fill, and foreign_key_check, raise.
FillStaged ==
  /\ pc = "fillstaged"
  /\ \/ /\ staged' = [staged EXCEPT ![cur] = Want] /\ mem' = StillRunning
        /\ cur' = cur + 1 /\ Goto("stage")
        /\ UNCHANGED <<total, failed, committed, db, old, erased>>
     \/ FailAtRest(mem)
  /\ UNCHANGED <<job, rec, rest, faults>>

Commit ==
  /\ pc = "stage" /\ cur > N
  /\ \/ /\ db' = staged /\ staged' = NoRows /\ old' = (mode # "replace")
        /\ committed' = TRUE
        /\ mem' = [t \in Tables |-> [status |-> "done", rows |-> staged[t]]]
        /\ Goto("dispose") /\ UNCHANGED <<cur, total, failed, erased>>
     \/ FailAtRest(mem)
  /\ UNCHANGED <<job, rec, rest, faults>>

-----------------------------------------------------------------------------
(* The end                                                                 *)

\* _run_terminal
TerminalRecord ==
  LET tables == [t \in Tables |-> IF mem[t].status = "queued"
                                  THEN [mem[t] EXCEPT !.status = "not_run"] ELSE mem[t]] IN
  [status |-> IF failed THEN "error" ELSE "done", tables |-> tables, total |-> total,
   exact |-> \A t \in Tables : tables[t].rows # Unknown,
   committed |-> committed]

OutcomeLost == TRUE

PublishTerminal ==
  /\ pc = "terminal"
  /\ \/ Saved(TerminalRecord) /\ Goto("finish") /\ UNCHANGED failed
     \/ NotSaved /\ failed' = OutcomeLost /\ Goto("retry")
  /\ UNCHANGED <<job, mem, cur, total, committed, target, rest>>

\* _persist_failed_terminal
RetryTerminal ==
  /\ pc = "retry"
  /\ Saved([rec EXCEPT !.status = "error"]) \/ NotSaved
  /\ Goto("finish") /\ UNCHANGED <<job, progress, target, rest>>

CompleteJob ==
  /\ pc = "finish" /\ Goto("ended")
  /\ job' = IF failed THEN "error" ELSE "done"
  /\ UNCHANGED <<rec, progress, target, rest, faults>>

-----------------------------------------------------------------------------
(* Surroundings                                                            *)

\* Another connection changes the sources; BEGIN IMMEDIATE keeps it out.
ChangeSources ==
  /\ sources < MaxSourceChanges /\ sources' = sources + 1
  /\ pc \notin {"stage", "fillstaged", "ended"}
  /\ UNCHANGED <<mode, pc, job, rec, progress, target, reviewed, deaths, faults>>

\* The user checks again and reviews a new plan before the request.
Review ==
  /\ pc = "idle" /\ reviewed' = sources /\ ~SourcesUnchanged
  /\ UNCHANGED <<mode, pc, job, rec, progress, target, sources, deaths, faults>>

Die ==
  /\ pc \notin {"idle", "dead"} /\ deaths < MaxDeaths /\ deaths' = deaths + 1
  /\ Goto("dead") /\ job' = "none" /\ staged' = NoRows
  /\ UNCHANGED <<mode, rec, progress, db, old, erased, sources, reviewed, faults>>

\* A mistake: only running records are recovered.
RunningOnly(r) == r.status = "running"
LeftOpen(r) == OpenRecord(r)

\* WorkspaceStore._initialize
Recovered ==
  IF LeftOpen(rec)
  THEN [rec EXCEPT !.status = "interrupted", !.exact = FALSE,
                   !.tables = [t \in Tables |-> IF @[t].status \in {"queued", "running"}
                                 THEN [@[t] EXCEPT !.status = "interrupted"] ELSE @[t]]]
  ELSE rec

Restart ==
  /\ pc = "dead" /\ Goto("ended") /\ rec' = Recovered
  /\ UNCHANGED <<job, progress, target, rest, faults>>

\* A second server process opens its store on the same workspace file.
OpenSecondStore ==
  /\ SecondServer /\ OpenRecord(rec) /\ rec' = Recovered
  /\ UNCHANGED <<pc, job, progress, target, rest, faults>>

Work ==
  \/ Accept \/ Refuse \/ CreateRecord \/ Launch \/ LoadRun \/ SnapshotFailure
  \/ CurrentRunCheck \/ MarkRunning \/ NextTable \/ Fill \/ StoreTable \/ CloseSession
  \/ Begin \/ FillStaged \/ Commit \/ PublishTerminal \/ RetryTerminal \/ CompleteJob

RunNext == Work \/ ChangeSources \/ Review \/ Die \/ Restart \/ OpenSecondStore

RunSpec == RunInit /\ [][RunNext]_runVars

\* The worker thread runs on, and the user starts the server again.
FairRun == RunSpec /\ WF_runVars(Work) /\ WF_runVars(Restart)

-----------------------------------------------------------------------------
(* Properties                                                              *)

Places == {"idle", "create", "launch", "load", "lost", "recheck", "mark", "begin", "next", "stage",
           "fill", "stored", "fillstaged", "dispose", "terminal", "retry", "finish", "ended", "dead"}

TableStates == [status : {"queued", "running", "done", "error"}, rows : 0 .. Unknown]
RecordStates == [status : {"queued", "running", "done", "error", "not_run", "interrupted"},
                 rows : 0 .. Unknown]
Records == [status : {"none", "queued", "running", "done", "error", "interrupted"},
            tables : [Tables -> RecordStates], total : Nat, exact : BOOLEAN, committed : BOOLEAN]

RunTypeOK ==
  /\ pc \in Places /\ mode \in Modes /\ job \in {"none", "running", "done", "error"}
  /\ rec \in Records
  /\ mem \in [Tables -> TableStates] /\ cur \in 1 .. N + 1 /\ total \in Nat
  /\ db \in [Tables -> 0 .. Want] /\ staged \in [Tables -> 0 .. Want]
  /\ failed \in BOOLEAN /\ committed \in BOOLEAN /\ old \in BOOLEAN
  /\ {sources, reviewed, erased, faults, deaths} \subseteq Nat

\* A record that ends with exact counts tells the rows that are in the
\* database, table by table and in total.
CountsAreExact ==
  rec.exact => \A t \in Tables : rec.tables[t].rows = db[t] /\ rec.total = TotalOf(db)

\* docs/web-workbench.md:270: successful tables confirm committed data; a
\* record says so at no earlier time.
SuccessfulTablesAreCommitted ==
  /\ \A t \in Tables : rec.tables[t].status = "done" =>
       rec.tables[t].rows = Want /\ db[t] = Want
  /\ rec.status = "done" => db = Full

\* An atomic run writes all its tables or none, a replacement removes the
\* earlier rows only together with that, and the record says which it was.
AllOrNothing ==
  Atomic =>
    /\ db \in {NoRows, Full}
    /\ ~old => db = Full
    /\ rec.committed => db = Full
    /\ rec.exact /\ db = Full => rec.committed

\* Rows are deleted for good only on the schema, the sources and the counts
\* that the user reviewed in the plan.
ErasedAsReviewed == ~old => erased = reviewed

\* The job a page waits for and the record it then reads agree.
JobAgrees ==
  /\ job = "done" => rec.status = "done"
  /\ job = "error" => rec.status # "done"

\* What a page reads of a run, and when: all of this holds at once.
CountsAreTrue ==
  RunTypeOK /\ CountsAreExact /\ SuccessfulTablesAreCommitted /\ JobAgrees

\* Why this holds.  Nothing is written before the first table; an append run
\* has filled the tables before cur and no other; an atomic run writes to its
\* transaction only; and what the worker knows at the end is what it has
\* committed, table by table, unless it says that it does not know.
Early == {"idle", "create", "launch", "load", "lost", "recheck", "mark", "begin"}
Done == [status |-> "done", rows |-> Want]
Waiting == [status |-> "queued", rows |-> 0]
Filling == [status |-> "running", rows |-> 0]

NothingYet ==
  /\ pc \in Early => mem = Queued /\ cur = 1 /\ total = 0 /\ db = NoRows
  /\ pc \in Early \cup {"next", "fill", "stored", "stage", "fillstaged"} =>
       ~failed /\ ~committed /\ old
  /\ pc \notin {"stage", "fillstaged"} => staged = NoRows
  /\ pc = "idle" => job = "none"

AppendInOrder ==
  pc \in {"next", "fill", "stored"} =>
    /\ ~Atomic /\ total = TotalOf(db)
    /\ \A t \in Tables :
         /\ t < cur => mem[t] = Done /\ db[t] = Want
         /\ t > cur => mem[t] = Waiting /\ db[t] = 0
         /\ t = cur /\ pc = "next" => mem[t] = Waiting /\ db[t] = 0
         /\ t = cur /\ pc = "fill" => mem[t] = Filling /\ db[t] = 0
         /\ t = cur /\ pc = "stored" =>
              /\ mem[t].status \in {"done", "error"} /\ mem[t].rows = db[t]
              /\ mem[t].status = "done" => db[t] = Want
    /\ pc # "next" => cur <= N

AtomicInTransaction ==
  /\ pc = "begin" => Atomic
  /\ pc \in {"stage", "fillstaged"} =>
       /\ Atomic /\ db = NoRows /\ total = 0
       /\ mode = "replace" => erased = reviewed
       /\ \A t \in Tables :
            /\ t < cur => mem[t] = Filling /\ staged[t] = Want
            /\ t > cur => mem[t] = Waiting /\ staged[t] = 0
            /\ t = cur => mem[t] = (IF pc = "stage" THEN Waiting ELSE Filling) /\ staged[t] = 0
       /\ pc = "fillstaged" => cur <= N
  /\ pc = "dispose" =>
       /\ Atomic /\ committed /\ ~failed /\ db = Full
       /\ \A t \in Tables : mem[t] = Done

KnownAtTheEnd ==
  pc = "terminal" =>
    /\ \A t \in Tables :
         /\ mem[t].status # "running"
         /\ mem[t].rows # Unknown => mem[t].rows = db[t]
         /\ mem[t].status = "done" => mem[t].rows = Want
         /\ ~failed => mem[t].status = "done"
    /\ (\A t \in Tables : mem[t].rows # Unknown) => total = TotalOf(db)
    /\ Atomic => (committed <=> db = Full)

RecordFollows ==
  /\ pc \notin {"finish", "ended", "dead"} =>
       /\ ~rec.exact /\ ~rec.committed /\ rec.status # "done" /\ job \in {"none", "running"}
  /\ pc \notin {"terminal", "retry", "finish", "ended", "dead"} =>
       \A t \in Tables : rec.tables[t].status = "done" => mem[t].status = "done"
  /\ pc = "retry" => failed
  /\ pc = "finish" => (failed <=> rec.status # "done")
  /\ pc \notin {"idle", "ended", "dead"} => job = "running"
  /\ pc = "dead" => job = "none"

Atomicity ==
  Atomic =>
    /\ db \in {NoRows, Full}
    /\ ~old => mode = "replace" /\ db = Full /\ erased = reviewed

RunInv ==
  /\ NothingYet /\ AppendInOrder /\ AtomicInTransaction /\ KnownAtTheEnd
  /\ RecordFollows /\ Atomicity
  /\ (~Atomic => old)
  /\ CountsAreTrue /\ AllOrNothing /\ ErasedAsReviewed

\* The run marked as interrupted has no worker any more
\* (workbench_store.py:243: "recover records left by an earlier server").
InterruptedMeansGone == rec.status = "interrupted" => pc = "ended"

\* The reservation of the connection ends, with storage failures or without.
JobEnds == job = "running" ~> job # "running"

\* A run that was accepted is closed, or its job at least tells the failure.
RecordEnds == OpenRecord(rec) ~> ~OpenRecord(rec) \/ job = "error"
=============================================================================
