------------------------------ MODULE TableFill ------------------------------
(***************************************************************************)
(* fill_table of the orchestrator over the SQLAlchemy adapter: what one    *)
(* fill reports, what it leaves in the table, and the settings of the      *)
(* pooled connections, when any stage of it may fail, inside or outside a  *)
(* transaction of the caller.                                              *)
(*                                                                         *)
(* Rows are counted.  A setting of a connection is "own" or "bulk".  The   *)
(* pool hands out its idle connections first in, first out, and opens      *)
(* another when all are in use.  An error is operational (it becomes the   *)
(* result of the fill) or one that the caller sees: a ConfigurationError,  *)
(* an interrupt.                                                           *)
(***************************************************************************)
EXTENDS Integers, Sequences, FiniteSets

CONSTANTS
  Count,            (* rows asked for *)
  BatchSize,
  MaxExisting,      (* bound of the rows another fill or a user left there *)
  MaxConnections,   (* of the pool: 5 and an overflow of 10 *)
  Refusable,        (* settings SQLite may refuse to change back *)
  MaxFills          (* bound of the fills of one orchestrator *)

FillAssumption ==
  /\ Count \in Nat \ {0} /\ BatchSize \in Nat \ {0}
  /\ MaxConnections \in Nat \ {0} /\ MaxExisting \in Nat
  /\ Refusable \subseteq {"synchronous", "journal_mode", "cache_size", "temp_store", "auto_vacuum",
                          "page_size", "mmap_size"}

\* The settings, in the order in which they are read and written back.
PragmaProfile ==
  [synchronous |-> 0, journal_mode |-> 1, cache_size |-> 2, temp_store |-> 3, auto_vacuum |-> 4,
   page_size |-> 5, mmap_size |-> 6]
Attrs == DOMAIN PragmaProfile
Connections == 1 .. MaxConnections
Errors == {"none", "operational", "seen"}

VARIABLES
  connected,     (* _connected *)
  settings,      (* of every connection: "own" or "bulk" *)
  pool,          (* idle connections, the one to be used next first *)
  cursor,        (* connections held by cursors the caller keeps *)
  original,      (* PragmaOptimizer._original: <<>> or <<settings>> *)
  transaction,   (* _transaction_connection is not None *)
  table,         (* committed rows *)
  pending,       (* what the caller's transaction adds to them *)
  phase, clear, level, left, batch,
  committed,     (* the FillSession *)
  before,        (* rows of the table when the insertions began *)
  outcome,       (* what the caller got: "none", "result", "raised" *)
  fills,
  unrestored,    (* <<connection, setting>> SQLite refused to change back *)
  mixed          (* connections that were idle together when a fill used them *)

adapter == <<connected, settings, pool, cursor, original, transaction>>
rows == <<table, pending>>
fill == <<phase, clear, level, left, batch, committed, before, outcome, fills>>
history == <<unrestored, mixed>>
fillVars == <<adapter, rows, fill, history>>

FillSession == [rows |-> 0, batches |-> 0, error |-> "none"]

FillInit ==
  /\ connected = FALSE /\ transaction = FALSE /\ original = <<>>
  /\ settings = [c \in Connections |-> [a \in Attrs |-> "own"]]
  /\ pool = <<>> /\ cursor = {}
  /\ table \in 0 .. MaxExisting /\ pending = 0
  /\ phase = "idle" /\ clear = FALSE /\ level = "light" /\ left = 0 /\ batch = 0
  /\ committed = FillSession /\ before = 0 /\ outcome = "none" /\ fills = 0
  /\ unrestored = {} /\ mixed = {}

----------------------------------------------------------------------------
(* The pool: engine.raw_connection() and the connection's return.          *)

\* The idle connections, one opened if there is none, and the one that the statement after k others uses.
Fresh == CHOOSE c \in Connections : c \notin cursor
Idle == IF pool = <<>> THEN <<Fresh>> ELSE pool
Nth(k) == Idle[1 + (k % Len(Idle))]
\* The pool after k statements.
Rotated(k) == LET r == k % Len(Idle) IN SubSeq(Idle, r + 1, Len(Idle)) \o SubSeq(Idle, 1, r)
\* Any other use of the database.
Use == pool' \in {pool, Rotated(1)}

preserve == [a \in Attrs |-> settings[Nth(PragmaProfile[a])][a]]
_apply_light == <<"synchronous", "temp_store", "cache_size">>
_apply_moderate == <<"synchronous", "journal_mode", "temp_store", "cache_size", "mmap_size">>
_apply_aggressive == _apply_moderate \o <<"(reads the page size)", "page_size">>
\* The settings after these statements, sent behind those of preserve.
optimize(statements) ==
  [c \in Connections |-> [a \in Attrs |->
     IF \E k \in DOMAIN statements : statements[k] = a /\ Nth(6 + k) = c THEN "bulk" ELSE settings[c][a]]]
\* The settings after restore, which goes on when a statement fails.
restore(failed) ==
  [c \in Connections |-> [a \in Attrs |->
     IF Nth(PragmaProfile[a]) = c /\ a \notin failed THEN original[1][a] ELSE settings[c][a]]]

----------------------------------------------------------------------------
(* The connection and the caller.                                          *)

\* _ensure_connected: a failure after the connection closes it again.
_ensure_connected ==
  /\ ~connected /\ phase = "idle"
  /\ connected' \in BOOLEAN
  /\ pool' = <<>>
  /\ UNCHANGED <<settings, cursor, original, transaction, rows, fill, history>>
close ==
  /\ connected /\ phase = "idle" /\ ~transaction
  /\ connected' = FALSE /\ pool' = <<>> /\ cursor' = {} /\ original' = <<>>
  /\ settings' = [c \in Connections |-> [a \in Attrs |-> "own"]]
  /\ unrestored' = {} /\ mixed' = {}
  /\ UNCHANGED <<transaction, rows, fill>>

\* execute(): the caller keeps the cursor, and with it the connection.
execute ==
  /\ connected /\ phase = "idle" /\ ~transaction
  /\ Cardinality(cursor) + 1 < MaxConnections
  /\ cursor' = cursor \cup {Idle[1]} /\ pool' = Tail(Idle)
  /\ UNCHANGED <<connected, settings, original, transaction, rows, fill, history>>
\* _PooledCursor._release, when the caller closes or drops it.
_release ==
  \E c \in cursor :
    /\ phase = "idle"
    /\ cursor' = cursor \ {c} /\ pool' = Append(pool, c)
    /\ UNCHANGED <<connected, settings, original, transaction, rows, fill, history>>

BeginTransaction ==
  /\ connected /\ phase = "idle" /\ ~transaction /\ transaction' = TRUE
  /\ UNCHANGED <<connected, settings, pool, cursor, original, rows, fill, history>>
EndTransaction ==
  /\ transaction /\ phase = "idle"
  /\ transaction' = FALSE /\ pending' = 0
  /\ table' \in {table, table + pending}
  /\ outcome' = "none" /\ committed' = FillSession /\ before' = 0
  /\ UNCHANGED <<connected, settings, pool, cursor, original, phase, clear, level, left, batch, fills, history>>

----------------------------------------------------------------------------
(* fill_table.                                                             *)

\* An error leaves the stages; the finally clause runs first if they were entered.
Fails(e, next) == committed' = [committed EXCEPT !.error = e] /\ phase' = next

fill_table ==
  /\ connected /\ phase = "idle" /\ fills < MaxFills /\ table + pending <= MaxExisting
  /\ phase' = "preflight" /\ fills' = fills + 1
  /\ clear' \in BOOLEAN /\ level' \in {"light", "moderate", "aggressive"}
  /\ left' = Count /\ batch' = 0 /\ outcome' = "none"
  /\ committed' = FillSession /\ before' = table + pending
  /\ UNCHANGED <<adapter, rows, history>>

_preflight_generation ==
  /\ phase = "preflight"
  /\ \/ phase' = "optimize" /\ UNCHANGED committed
     \/ \E e \in Errors \ {"none"} : Fails(e, "return")
  /\ UNCHANGED <<adapter, rows, clear, level, left, batch, before, outcome, fills, history>>

\* preserve, then the statements of the level; one of them may fail.  In a transaction of the
\* caller the adapter has no optimizer.
optimize_for_bulk_write ==
  /\ phase = "optimize"
  /\ IF transaction
     THEN phase' = "resolve" /\ UNCHANGED <<settings, pool, original, committed, mixed>>
     ELSE LET statements == CASE level = "light" -> _apply_light [] level = "moderate" -> _apply_moderate
                              [] OTHER -> _apply_aggressive
          IN  /\ original' = <<preserve>>
              /\ mixed' = IF Len(Idle) = 1 THEN mixed ELSE mixed \cup {Idle[i] : i \in DOMAIN Idle}
              /\ \E n \in 0 .. Len(statements) :
                   /\ settings' = optimize(SubSeq(statements, 1, n)) /\ pool' = Rotated(7 + n)
                   /\ IF n = Len(statements) THEN phase' = "resolve" /\ UNCHANGED committed
                      ELSE Fails("operational", "restore")
  /\ UNCHANGED <<connected, cursor, transaction, rows, clear, level, left, batch, before, outcome, fills, unrestored>>

\* _prepare_specs: the table is cleared, and that is committed, before the references are
\* resolved, which may fail.
Cleared ==
  IF ~clear THEN UNCHANGED <<rows, before>>
  ELSE /\ before' = 0
       /\ IF transaction THEN pending' = -table /\ UNCHANGED table ELSE table' = 0 /\ UNCHANGED pending
_prepare_specs ==
  /\ phase = "resolve"
  /\ \/ Cleared /\ phase' = "generate" /\ UNCHANGED committed
     \/ \E e \in Errors \ {"none"} : (Cleared \/ UNCHANGED <<rows, before>>) /\ Fails(e, "restore")
  /\ Use
  /\ UNCHANGED <<connected, settings, cursor, original, transaction, clear, level, left, batch, outcome, fills, history>>

\* stream.generate and the transforms of the plugins, which may change the number of rows.
Generate ==
  /\ phase = "generate"
  /\ IF left = 0 THEN phase' = "restore" /\ UNCHANGED <<left, batch, committed>>
     ELSE \/ /\ left' = left - (IF left < BatchSize THEN left ELSE BatchSize)
             /\ batch' \in {left - left', left - left' - 1, left - left' + 1}
             /\ phase' = "insert" /\ UNCHANGED committed
          \/ \E e \in Errors \ {"none"} : Fails(e, "restore") /\ UNCHANGED <<left, batch>>
  /\ UNCHANGED <<adapter, rows, clear, level, before, outcome, fills, history>>

\* A mistake: the rows are counted when they are handed to the adapter.
CountedFirst(n) == [committed EXCEPT !.rows = @ + n, !.error = "operational"]
Uncounted(n) == [committed EXCEPT !.error = "operational"]
\* One transaction for all rows of the batch, however many statements: they are all inserted or,
\* unless the transaction is the caller's, none is.
batch_insert ==
  /\ phase = "insert"
  /\ \/ /\ IF transaction THEN pending' = pending + batch /\ UNCHANGED table
           ELSE table' = table + batch /\ UNCHANGED pending
        /\ committed' = [committed EXCEPT !.rows = @ + batch, !.batches = @ + 1]
        /\ phase' = "inserted"
     \/ /\ \E n \in 0 .. batch : pending' = pending + (IF transaction THEN n ELSE 0)
        /\ committed' = Uncounted(batch) /\ phase' = "restore" /\ UNCHANGED table
  /\ Use
  /\ UNCHANGED <<connected, settings, cursor, original, transaction, clear, level, left, batch, before, outcome, fills, history>>
\* sqlseed_after_insert of the plugins.
AfterInsert ==
  /\ phase = "inserted"
  /\ \/ phase' = "generate" /\ UNCHANGED committed
     \/ \E e \in Errors \ {"none"} : Fails(e, "restore")
  /\ UNCHANGED <<adapter, rows, clear, level, left, batch, before, outcome, fills, history>>

\* A mistake: settings are restored only after a fill that succeeded.
RestoredOnSuccess == ~transaction /\ original # <<>> /\ committed.error = "none"
Restorable == ~transaction /\ original # <<>>
restore_settings ==
  /\ phase = "restore"
  /\ IF Restorable
     THEN \E failed \in SUBSET Refusable :
            /\ settings' = restore(failed) /\ pool' = Rotated(7) /\ original' = <<>>
            /\ unrestored' = unrestored \cup {<<Nth(PragmaProfile[a]), a>> : a \in failed}
     ELSE UNCHANGED <<settings, pool, original, unrestored>>
  /\ phase' = IF committed.error = "none" THEN "after" ELSE "return"
  /\ UNCHANGED <<connected, cursor, transaction, rows, clear, level, left, batch, committed, before, outcome, fills, mixed>>

\* Metrics, sqlseed_after_generate, the shared pool, and the references of the table to itself.
AfterGenerate ==
  /\ phase = "after"
  /\ \/ phase' = "return" /\ UNCHANGED committed
     \/ \E e \in Errors \ {"none"} : Fails(e, "return")
  /\ Use
  /\ UNCHANGED <<connected, settings, cursor, original, transaction, rows, clear, level, left, batch, before, outcome, fills, history>>

\* FillSession.__exit__ and committed.result: an operational error is part of the result.
Return ==
  /\ phase = "return" /\ phase' = "idle"
  /\ outcome' = IF committed.error = "seen" THEN "raised" ELSE "result"
  /\ UNCHANGED <<adapter, rows, clear, level, left, batch, committed, before, fills, history>>

FillNext ==
  \/ _ensure_connected \/ close \/ execute \/ _release \/ BeginTransaction \/ EndTransaction
  \/ fill_table \/ _preflight_generation \/ optimize_for_bulk_write \/ _prepare_specs \/ Generate
  \/ batch_insert \/ AfterInsert \/ restore_settings \/ AfterGenerate \/ Return

FillSpec == FillInit /\ [][FillNext]_fillVars

----------------------------------------------------------------------------
(* Properties.                                                             *)

PoolTypeOK ==
  /\ connected \in BOOLEAN /\ transaction \in BOOLEAN
  /\ settings \in [Connections -> [Attrs -> {"own", "bulk"}]]
  /\ original # <<>> => original[1] \in [Attrs -> {"own", "bulk"}]
  /\ pool \in Seq(Connections)
  /\ \A i, j \in 1 .. Len(pool) : pool[i] = pool[j] => i = j
  /\ \A i \in 1 .. Len(pool) : pool[i] \notin cursor
  /\ cursor \subseteq Connections /\ Cardinality(cursor) < MaxConnections
  /\ unrestored \subseteq Connections \X Attrs /\ mixed \subseteq Connections
FillTypeOK ==
  /\ PoolTypeOK
  /\ table \in Nat /\ pending \in Int /\ before \in Nat /\ left \in 0 .. Count
  /\ committed \in [rows : Nat, batches : Nat, error : Errors]
  /\ clear \in BOOLEAN /\ outcome \in {"none", "result", "raised"}

\* The session's counter and the rows of the table.
Counted ==
  /\ table + pending >= before + committed.rows
  /\ ~transaction \/ committed.error = "none" => table + pending = before + committed.rows

\* Whatever failed, and wherever, the result of a fill counts the rows it left in the table;
\* inside a transaction of the caller a failed batch may have left more, and only a failed one
\* (FillSession, batch_insert).
ReportIsExact ==
  /\ FillTypeOK
  /\ phase = "idle" /\ outcome = "result" => Counted

\* What a fill may leave changed: a setting that SQLite refused to change back, and the settings
\* of connections that were idle beside another, over which the statements of a fill spread.
Excused(c, a) == <<c, a>> \in unrestored \/ c \in mixed

\* Once a fill is over, a connection that no fill used with another idle one has every setting
\* it had but those SQLite refused to change back, whatever else failed (optimize_for_bulk_write,
\* PragmaOptimizer.preserve and restore).
SettingsReturn ==
  phase = "idle" => \A c \in Connections : \A a \in Attrs : settings[c][a] = "own" \/ Excused(c, a)

(***************************************************************************)
(* What makes them inductive.                                              *)
(***************************************************************************)

\* The counter at every stage.
CountsInv ==
  /\ FillTypeOK /\ table + pending >= 0 /\ batch \in Nat
  /\ ~transaction => pending = 0
  /\ phase \in {"idle", "preflight", "optimize", "resolve", "generate", "insert", "inserted", "restore", "after", "return"}
  /\ phase \in {"preflight", "optimize", "resolve"} => table + pending = before /\ committed.rows = 0
  /\ phase # "idle" \/ outcome = "result" => Counted
  /\ phase \notin {"idle", "restore", "return"} => committed.error = "none"

\* While there is something to restore, it is on the connections the fill uses, and if there is
\* only one the optimizer remembers what it had.
SettingsInv ==
  /\ \A c \in Connections : \A a \in Attrs :
       settings[c][a] = "own" \/ Excused(c, a) \/ (original # <<>> /\ pool = <<c>>)
  /\ original # <<>> =>
       /\ phase \in {"resolve", "generate", "insert", "inserted", "restore"} /\ ~transaction
       /\ pool # <<>>
       /\ \/ \E c \in Connections :
               pool = <<c>> /\ \A a \in Attrs : original[1][a] = "own" \/ Excused(c, a)
          \/ \A i \in 1 .. Len(pool) : pool[i] \in mixed
=============================================================================
