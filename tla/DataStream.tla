----------------------------- MODULE DataStream -----------------------------
(***************************************************************************)
(* DataStream (core/stream.py) with its ConstraintSolver in exact mode     *)
(* (core/constraints.py): rows are generated column by column in the order *)
(* of the DAG, the keys of UNIQUE constraints are reserved on the way, and *)
(* a row that cannot be completed is released and started again.           *)
(*                                                                         *)
(* Generators and expressions are black boxes: a candidate is any value of *)
(* the column's domain, or an error.  A transform only changes the row     *)
(* handed out, never the reservations, so it is part of the caller here.   *)
(***************************************************************************)
EXTENDS RowConstraints, FiniteSets

CONSTANTS
  Skipped,     (* columns the database fills in (node.is_skip)              *)
  Sources,     (* Sources[c]: the columns c is explicitly derived from      *)
  Domain,      (* Domain[c]: what the generator of c can produce            *)
  Covered,     (* foreign keys sampled with the coverage strategy           *)
  MaxTries,    (* node.constraints.max_retries                              *)
  MaxRetries,  (* MAX_ROW_RETRIES                                           *)
  Budget,      (* max_attempts; 0 stands for None                           *)
  MaxRows      (* bound on the rows of a stream, for TLC                    *)

ASSUME StreamAssumption ==
  /\ Skipped \subseteq Columns
  /\ Sources \in [Columns -> SUBSET Columns]
  /\ Domain \in [Columns -> SUBSET (Values \cup {Null})]
  /\ Covered \subseteq Columns
  /\ MaxTries \in Nat /\ MaxRetries \in Nat /\ Budget \in Nat /\ MaxRows \in Nat

VARIABLES
  pc,         (* where generate is                                          *)
  seen,       (* ConstraintSolver: the keys in use                          *)
  rows,       (* the rows accepted so far, delivered or in the batch        *)
  delivered,  (* how many of them have been delivered                       *)
  row,        (* the row being generated                                    *)
  taken,      (* composites of the row already checked                      *)
  pos,        (* the node being generated                                   *)
  tries,      (* candidates rejected at this node                           *)
  retries,    (* attempts at this row that failed                           *)
  attempts,   (* _attempts: the budget consumed                             *)
  left,       (* count - generated                                          *)
  size,       (* batch_size                                                 *)
  queue       (* _coverage_queues: parents not yet drawn in this round      *)

call == <<left, size>>
counters == <<pos, tries, retries, attempts>>
accepted == <<rows, delivered>>
vars == <<pc, seen, accepted, row, taken, counters, call, queue>>

Smaller(m, n) == IF m < n THEN m ELSE n
Phases == {"idle", "row", "node", "composites", "compare", "finalize", "deliver", "yield"}
Keys == UNION {[k -> Values] : k \in Constraints}

StreamTypeOK ==
  /\ pc \in Phases
  /\ seen \subseteq Keys
  /\ rows \in Seq(Rows)
  /\ delivered \in 0 .. Len(rows)
  /\ row \in Rows
  /\ taken \subseteq Composites
  /\ pos \in 1 .. N + 1
  /\ tries \in Nat /\ retries \in Nat /\ attempts \in Nat
  /\ left \in Nat /\ size \in Nat \ {0}
  /\ queue \in [Covered -> SUBSET Values]

Init ==
  /\ pc = "idle"
  /\ seen = {}
  /\ rows = <<>> /\ delivered = 0
  /\ row = Blank /\ taken = {}
  /\ pos = 1 /\ tries = 0 /\ retries = 0 /\ attempts = 0
  /\ left = 0 /\ size = 1
  /\ queue = [c \in Covered |-> {}]

-----------------------------------------------------------------------------
(* Reservations.                                                           *)

\* The keys held by the row being generated: those of its UNIQUE columns and
\* of the composites accepted for it (_RowReservations).
Held == KeysOn(Singles \cup taken, row)

Delivered == SubSeq(rows, 1, delivered)

\* What the undelivered rows of the batch hold (registrations).
Batch == {rows[i] : i \in delivered + 1 .. Len(rows)}
BatchKeys == UNION {KeysOf(r) : r \in Batch}

Blanked == row' = Blank /\ taken' = {} /\ tries' = 0 /\ pos' = 1

\* A mistake: the row also releases the composite keys it only asked for.
ReleaseRowAndCollision ==
  /\ seen' = seen \ KeysOf(row)
  /\ Blanked
  /\ retries' = retries + 1
  /\ pc' = "row"
  /\ UNCHANGED <<accepted, call>>

\* A mistake: a failed attempt is not counted.
ReleaseRowUncounted ==
  /\ seen' = seen \ Held
  /\ Blanked
  /\ pc' = "row"
  /\ UNCHANGED <<accepted, retries, call>>

\* _RowReservations.rollback and _handle_col_failure: the row starts again.
ReleaseRow ==
  /\ seen' = seen \ Held
  /\ Blanked
  /\ retries' = retries + 1
  /\ pc' = "row"
  /\ UNCHANGED <<accepted, call>>

\* A mistake: the columns that are not sources keep their reservations.
ReleaseSources(c) ==
  /\ seen' = seen \ {[i \in {s} |-> row[s]] : s \in Sources[c]}
  /\ Blanked
  /\ retries' = retries + 1
  /\ pc' = "row"
  /\ UNCHANGED <<accepted, call>>

\* A rejected derived column releases its sources, and then the rest of the
\* row as well, since the next attempt rebuilds all of it.
ReleaseDerived(c) == ReleaseRow

\* A mistake: only the interrupted row is released, not the batch.
AbortRow ==
  /\ seen' = seen \ Held
  /\ rows' = Delivered
  /\ Blanked
  /\ left' = 0
  /\ pc' = "idle"
  /\ UNCHANGED <<delivered, size, retries>>

\* An exception leaves generate: the row and the whole undelivered batch
\* give their keys back.
Abort ==
  /\ seen' = seen \ (Held \cup BatchKeys)
  /\ rows' = Delivered
  /\ Blanked
  /\ left' = 0
  /\ pc' = "idle"
  /\ UNCHANGED <<delivered, size, retries>>

-----------------------------------------------------------------------------
(* One call of generate.                                                   *)

Generate(n, b) ==
  /\ pc = "idle" /\ Len(rows) + n <= MaxRows
  /\ left' = n /\ size' = b
  /\ retries' = 0
  /\ pc' = IF n > 0 THEN "row" ELSE "idle"
  /\ UNCHANGED <<seen, accepted, row, taken, pos, tries, attempts, queue>>

\* _consume_attempt: row attempts and candidates draw on one budget.
HasBudget == Budget = 0 \/ attempts < Budget
Consume == attempts' = IF Budget = 0 THEN attempts ELSE attempts + 1

BeginRow ==
  /\ pc = "row" /\ retries < MaxRetries
  /\ HasBudget /\ Consume
  /\ pc' = "node"
  /\ UNCHANGED <<seen, accepted, row, taken, pos, tries, retries, call, queue>>

\* GenerationBudgetExceededError, or RuntimeError after MAX_ROW_RETRIES.
GiveUp ==
  /\ \/ pc = "row" /\ (retries >= MaxRetries \/ ~HasBudget)
     \/ pc = "node" /\ pos \notin Skipped /\ tries < MaxTries /\ ~HasBudget
  /\ Abort
  /\ UNCHANGED <<attempts, queue>>

Advance ==
  /\ pos' = pos + 1 /\ tries' = 0
  /\ pc' = IF pos < N THEN "node" ELSE "composites"

SkipNode ==
  /\ pc = "node" /\ pos \in Skipped
  /\ Advance
  /\ UNCHANGED <<seen, accepted, row, taken, retries, attempts, call, queue>>

\* A UNIQUE column uses the coverage queue only as long as it has no keys to
\* exclude.
UsesQueue(c) == c \in Covered /\ (c \in Unique => \A s \in seen : DOMAIN s # {c})

\* A column that is not NULL takes its value from the queue; an empty queue
\* is filled with all the parents again.
Draw(c, v) ==
  /\ v \in Domain[c]
  /\ IF UsesQueue(c) /\ v # Null
     THEN LET parents == IF queue[c] = {} THEN Domain[c] \ {Null} ELSE queue[c]
          IN v \in parents /\ queue' = [queue EXCEPT ![c] = parents \ {v}]
     ELSE UNCHANGED queue

Single(c, v) == [i \in {c} |-> v]
Valid(c, v) == v \in Allowed[c]

Fresh(key) == key \notin seen \cup Existing

\* try_register: Null is accepted without any check.
Registrable(c, v) ==
  v # Null => Valid(c, v) /\ (c \in Unique => Fresh(Single(c, v)))

AtNode == pc = "node" /\ pos \notin Skipped /\ tries < MaxTries /\ HasBudget /\ Consume

Register(v) ==
  /\ AtNode /\ Draw(pos, v)
  /\ Registrable(pos, v)
  /\ row' = [row EXCEPT ![pos] = v]
  /\ seen' = IF pos \in Unique /\ v # Null THEN seen \cup {Single(pos, v)} ELSE seen
  /\ Advance
  /\ UNCHANGED <<accepted, taken, retries, call>>

\* The next candidate of the same node.
Reject(v) ==
  /\ AtNode /\ Sources[pos] = {} /\ Draw(pos, v)
  /\ ~Registrable(pos, v)
  /\ tries' = tries + 1
  /\ UNCHANGED <<pc, seen, accepted, row, taken, pos, retries, call>>

Backtrack(v) ==
  /\ AtNode /\ Sources[pos] # {} /\ Draw(pos, v)
  /\ ~Registrable(pos, v)
  /\ ReleaseDerived(pos)

\* GenerationError, or max_retries candidates rejected.
FailNode ==
  /\ \/ AtNode
     \/ pc = "node" /\ pos \notin Skipped /\ tries >= MaxTries /\ UNCHANGED attempts
  /\ ReleaseRow
  /\ UNCHANGED queue

\* check_and_register_composite, for one more constraint of the row.
RegisterComposite(k) ==
  /\ pc = "composites" /\ k \in Composites \ taken
  /\ Complete(k, row) => Fresh(KeyOf(k, row))
  /\ taken' = taken \cup {k}
  /\ seen' = IF Complete(k, row) THEN seen \cup {KeyOf(k, row)} ELSE seen
  /\ UNCHANGED <<pc, accepted, row, counters, call, queue>>

Collide(k) ==
  /\ pc = "composites" /\ k \in Composites \ taken
  /\ Complete(k, row) /\ ~Fresh(KeyOf(k, row))
  /\ ReleaseRow
  /\ UNCHANGED <<attempts, queue>>

CompositesDone ==
  /\ pc = "composites" /\ taken = Composites
  /\ pc' = "compare"
  /\ UNCHANGED <<seen, accepted, row, taken, counters, call, queue>>

CheckInequalities ==
  /\ pc = "compare"
  /\ \/ /\ Compares(row)
        /\ pc' = "finalize"
        /\ UNCHANGED <<seen, accepted, row, taken, pos, tries, retries, call>>
     \/ ~Compares(row) /\ ReleaseRow
  /\ UNCHANGED <<attempts, queue>>

\* The row joins the batch, and its reservations with it.
Finalize ==
  /\ pc = "finalize"
  /\ rows' = Append(rows, row)
  /\ Blanked
  /\ retries' = 0
  /\ pc' = IF Len(rows) + 1 - delivered = Smaller(size, left) THEN "deliver" ELSE "row"
  /\ UNCHANGED <<seen, delivered, attempts, call, queue>>

Deliver ==
  /\ pc = "deliver"
  /\ delivered' = Len(rows)
  /\ left' = left - (Len(rows) - delivered)
  /\ pc' = "yield"
  /\ UNCHANGED <<seen, rows, row, taken, counters, size, queue>>

\* The caller asks for the next batch, or closes the generator.
Resume ==
  /\ pc = "yield"
  /\ pc' = IF left > 0 THEN "row" ELSE "idle"
  /\ UNCHANGED <<seen, accepted, row, taken, counters, call, queue>>

Close ==
  /\ pc = "yield"
  /\ pc' = "idle" /\ left' = 0
  /\ UNCHANGED <<seen, accepted, row, taken, counters, size, queue>>

\* A cancellation, a misconfigured generator, expression or comparison, a
\* failed lookup in the database, or an exception of the transform.
Interrupt ==
  /\ pc \in {"row", "node", "composites", "compare", "finalize"}
  /\ Abort
  /\ UNCHANGED <<attempts, queue>>

GenerateRow ==
  \/ BeginRow \/ GiveUp
  \/ SkipNode \/ FailNode
  \/ \E v \in Values \cup {Null} : Register(v) \/ Reject(v) \/ Backtrack(v)
  \/ \E k \in Composites : RegisterComposite(k) \/ Collide(k)
  \/ CompositesDone \/ CheckInequalities
  \/ Finalize \/ Deliver

Next ==
  \/ \E n \in 0 .. MaxRows, b \in 1 .. MaxRows : Generate(n, b)
  \/ GenerateRow
  \/ Resume \/ Close \/ Interrupt

Spec == Init /\ [][Next]_vars

\* Only the stream's own steps: the caller may never ask for another batch.
FairSpec == Spec /\ WF_vars(GenerateRow)

-----------------------------------------------------------------------------
(* Properties.                                                             *)

\* The solver holds exactly the keys of the accepted rows and those the row
\* being generated has reserved: nothing leaks out of a row that was given
\* up, and no row loses a key to another one's rollback.
SeenIsExact == seen = KeysIn(rows) \cup Held

\* Between two calls of generate, whatever ended the first, exactly the keys
\* of the delivered rows are in use.
NothingLeftBehind ==
  pc \in {"idle", "yield"} => seen = KeysIn(Delivered)

\* What makes them inductive, and the rows acceptable.
Progress ==
  /\ pc \in {"idle", "row", "deliver", "yield"} => row = Blank /\ taken = {} /\ pos = 1
  /\ pc = "node" => pos \in Columns /\ taken = {}
  /\ pc = "finalize" => taken = Composites /\ Compares(row)
  /\ pc = "compare" => taken = Composites
  /\ \A c \in Columns : c >= pos => row[c] = Null

BatchIsOpen ==
  /\ pc \in {"idle", "yield"} => delivered = Len(rows)
  /\ pc \notin {"idle", "deliver", "yield"} => Len(rows) - delivered < Smaller(size, left)
  /\ pc = "deliver" => left > 0 /\ Len(rows) - delivered = Smaller(size, left)
  /\ pc = "idle" => left = 0

StreamInv ==
  /\ StreamTypeOK
  /\ SeenIsExact
  /\ Acceptable(rows)
  /\ InRange(row) /\ Held \cap Existing = {}
  /\ KeysIn(rows) \cap Held = {}
  /\ Progress
  /\ BatchIsOpen

Promise == INSTANCE RowStream WITH
  table <- Delivered,
  left  <- left,
  size  <- size

\* The stream delivers what RowStream promises.
ImplementsRowStream == Promise!Spec

\* Retries are bounded: every call comes to a batch or to an end.
GenerationEnds == pc \notin {"idle", "yield"} ~> pc \in {"idle", "yield"}

-----------------------------------------------------------------------------
(* Two statements of the source that the code does not keep.               *)

\* _attempt_node_generation: independent columns "should not be regenerated
\* when a derived column fails constraint registration".
OnlySourcesAreRegenerated ==
  [][(\E v \in Values : Backtrack(v)) =>
       \A c \in Columns \ Sources[pos] : row'[c] = row[c]]_vars

\* _coverage_pick: "within a round every parent is referenced exactly once":
\* of two parents neither is ever referenced twice more than the other.
References(c, p) == Cardinality({i \in 1 .. delivered : rows[i][c] = p})
CoverageIsBalanced ==
  \A c \in Covered \ Unique :
    \A p, q \in Domain[c] \ {Null} : References(c, p) <= References(c, q) + 1
=============================================================================
