------------------------------- MODULE Healing -------------------------------
(***************************************************************************)
(* The self-healing run of the AI plugin: every subgraph of tables is      *)
(* validated, repaired by rules, healed by the model level by level, and   *)
(* degraded to its deterministic rules when that fails; at the end the     *)
(* schema is checked again and the caller's own columns are put back.      *)
(* A rule is where the source of a column comes from, its head, and where  *)
(* its other settings come from, its rest: giving a column up restores the *)
(* head alone.  What the validator reports is a function of the rules,     *)
(* given by a world.                                                       *)
(***************************************************************************)
EXTENDS Naturals, FiniteSets, Sequences

CONSTANTS
  SchemaColumns, (* the columns, records of a table and a name *)
  Last,       (* the tables are 1 .. Last, each a subgraph *)
  Worlds,     (* records: bad, columns with a failing rule; clash, pairs of such *)
  Derived,    (* pairs of a column and the column its rule derives from *)
  BrokenKeys, (* the columns marked nullable for a broken foreign key *)
  MaxRounds,  (* rounds of the model for one subgraph *)
  MaxHistory, (* violation signatures the oscillation detector keeps *)
  Untouched   (* the rule of a column that a patch leaves alone *)

VARIABLES
  world,     (* the constraints of the database *)
  given,     (* the caller passed a configuration *)
  stage,     (* where the run is *)
  sub,       (* the subgraph at work *)
  rule,      (* the rule of every column *)
  loose,     (* the columns whose foreign key was made nullable *)
  original,  (* the rules a subgraph entered the healer with *)
  reported,  (* columns the validator reported in the caller's configuration *)
  round,     (* the healer's round *)
  reports,   (* the violations the round answers *)
  queue,     (* column attempts of level 2 still to make *)
  patch,     (* the model's rules of this round *)
  twice,     (* level 2 patched a column more than once *)
  history,   (* signatures of the detector *)
  own,       (* ghost: how many of them this subgraph's heal recorded *)
  result,    (* how every subgraph ended *)
  failed,    (* columns degraded because they still failed *)
  degraded,  (* columns marked degraded, dependants included *)
  read       (* ghost: the rules when the schema was verified *)

healVars == <<world, given, stage, sub, rule, loose, original, reported, round, reports,
          queue, patch, twice, history, own, result, failed, degraded, read>>
progress == <<round, reports, queue, patch, twice>>
ends == <<result, failed, degraded>>

Tables == 1 .. Last
ModelRules == {"model", "other"}
Rules == [head : {"start", "fixed", "settled"} \cup ModelRules, rest : {"own", "model", "settled"}]
Written == [head |-> "start", rest |-> "own"]
Rewritten == [head |-> "settled", rest |-> "settled"]
ColumnsOf(t) == {c \in SchemaColumns : c.table = t}
Unpatched == [c \in SchemaColumns |-> Untouched]

\* MCRules checks this of its instance.
HealAssumption ==
  /\ Last \in Nat /\ MaxRounds \in Nat /\ MaxHistory \in Nat
  /\ Untouched \notin ModelRules
  /\ \A w \in Worlds : /\ w.bad \subseteq SchemaColumns \X Rules
                       /\ w.clash \subseteq (SchemaColumns \X Rules) \X (SchemaColumns \X Rules)
  /\ BrokenKeys \subseteq SchemaColumns /\ \A c \in SchemaColumns : c.table \in Tables

\* Violations: one for a column whose rule fails, one for two rules that clash.
Validate(r, t) ==
  {[columns |-> {c}, severity |-> "crash"] : c \in {x \in ColumnsOf(t) : <<x, r[x]>> \in world.bad}}
    \cup {[columns |-> {p[1][1], p[2][1]}, severity |-> "semantic_error"] :
           p \in {x \in world.clash : \A i \in 1 .. 2 : x[i][1].table = t /\ r[x[i][1]] = x[i][2]}}

FailedColumns(vs) == UNION {v.columns : v \in vs}

\* The detector compares names and severities, without the table.
Signature(vs) == UNION {{<<c.name, v.severity>> : c \in v.columns} : v \in vs}

Larger(a, b) == IF a >= b THEN a ELSE b

\* Four fifths of the signature were seen before.
Seen(h, sig) == 10 * Cardinality(h \cap sig) >= 8 * Larger(Cardinality(sig), 1)
Oscillates(sig) == \E i \in 1 .. Len(history) : history[i] = sig \/ Seen(history[i], sig)

Remembered(sig) ==
  LET longer == Append(history, sig)
  IN  IF Len(longer) > MaxHistory THEN Tail(longer) ELSE longer

\* A patched column is replaced as a whole; only its generator, parameters,
\* source column and expression are ever put back.
Merged(r, p) ==
  [c \in SchemaColumns |-> IF p[c] = Untouched THEN r[c] ELSE [head |-> p[c], rest |-> "model"]]

Restored(r, cols) ==
  [c \in SchemaColumns |-> IF c \in cols THEN [r[c] EXCEPT !.head = original[c].head] ELSE r[c]]

\* A degraded column takes along what derives from it, as far as it is new.
Cascade(cols) ==
  LET closed(S) == \A d \in Derived : d[2] \in S \ degraded => d[1] \in S
  IN  {c \in SchemaColumns : \A S \in SUBSET SchemaColumns : cols \subseteq S /\ closed(S) => c \in S}

\* degrade marks the failed columns and what they take along.
Marked(cols) == degraded \cup Cascade(cols)

-----------------------------------------------------------------------------
HealInit ==
  /\ world \in Worlds /\ given \in BOOLEAN
  /\ stage = "next" /\ sub = 1
  /\ rule = [c \in SchemaColumns |-> Written] /\ original = rule /\ read = rule
  /\ loose = {} /\ reported = {} /\ failed = {} /\ degraded = {}
  /\ round = 0 /\ reports = {} /\ queue = {} /\ patch = Unpatched /\ twice = FALSE
  /\ history = <<>> /\ own = 0
  /\ result = [t \in Tables |-> "none"]

\* The subgraph's tables enter the result; the next one follows.
Accept(how) ==
  /\ stage' = "next" /\ sub' = sub + 1
  /\ result' = [result EXCEPT ![sub] = how]
  /\ own' = 0

\* An exception leaves the whole run without a result.
Fail ==
  /\ stage' = "failed"
  /\ UNCHANGED <<world, given, sub, rule, loose, original, reported, progress, history, own, ends, read>>

\* The time budget is over: the caller's configuration cannot be repaired,
\* inferred tables are taken as they are.
Expired ==
  /\ stage = "next" /\ sub <= Last
  /\ IF given
     THEN Fail
     ELSE /\ Accept("default")
          /\ UNCHANGED <<world, given, rule, loose, original, reported, progress, history, failed, degraded, read>>

CheckSubgraph ==
  /\ stage = "next" /\ sub <= Last
  /\ LET vs == Validate(rule, sub)
     IN  /\ reported' = IF given THEN reported \cup FailedColumns(vs) ELSE reported
         /\ IF vs = {}
            THEN Accept("valid")
            ELSE stage' = "repair" /\ UNCHANGED <<sub, result, own>>
  /\ UNCHANGED <<world, given, rule, loose, original, progress, history, failed, degraded, read>>

\* Strategies change some of the reported columns; one that declines or fails
\* leaves its column; another exception leaves the run.
Repair ==
  /\ stage = "repair"
  /\ \E S \in SUBSET FailedColumns(Validate(rule, sub)) :
       LET repaired == [c \in SchemaColumns |-> IF c \in S THEN [rule[c] EXCEPT !.head = "fixed"] ELSE rule[c]]
           vs == Validate(repaired, sub)
       IN  /\ rule' = repaired
           /\ IF vs = {}
              THEN Accept("valid") /\ UNCHANGED <<original, progress>>
              ELSE /\ stage' = "round" /\ round' = 1 /\ reports' = vs
                   /\ original' = repaired
                   /\ UNCHANGED <<sub, result, own, queue, patch, twice>>
  /\ UNCHANGED <<world, given, loose, reported, history, failed, degraded, read>>

StrategyRaises == stage = "repair" /\ Fail

\* What still fails returns to its rule from before the model, and is marked.
Degrade(r, vs, reason) ==
  LET cols == FailedColumns(vs)
  IN  /\ rule' = Restored(r, cols)
      /\ failed' = failed \cup cols
      /\ degraded' = Marked(cols)
      /\ Accept(reason)
      /\ patch' = Unpatched /\ twice' = FALSE /\ queue' = {}

GiveUp(reason) ==
  /\ Degrade(rule, reports, reason)
  /\ UNCHANGED <<world, given, loose, original, reported, round, reports, history, read>>

Attempts == {q \in reports \X SchemaColumns : q[2] \in q[1].columns}

\* Rounds and time are bounded; a long prompt skips the first level.
StartRound ==
  /\ stage = "round"
  /\ \/ GiveUp("time")
     \/ round > MaxRounds /\ GiveUp("rounds")
     \/ /\ round <= MaxRounds
        /\ \/ stage' = "level1" /\ UNCHANGED queue
           \/ stage' = "level2" /\ queue' = Attempts
        /\ UNCHANGED <<world, given, sub, rule, loose, original, reported, round, reports,
                       patch, twice, history, own, ends, read>>

Goto(p, q) ==
  /\ stage' = p /\ queue' = q
  /\ patch' = Unpatched /\ twice' = FALSE
  /\ UNCHANGED <<world, given, sub, rule, loose, original, reported, round, reports, history, own, ends, read>>

\* The model answers with rules for some columns of the tables it was shown.
ModelAnswers ==
  /\ \E p \in [ColumnsOf(sub) -> ModelRules \cup {Untouched}] :
       patch' = [c \in SchemaColumns |-> IF c \in ColumnsOf(sub) THEN p[c] ELSE Untouched]
  /\ stage' = "merge" /\ twice' = FALSE /\ queue' = {}
  /\ UNCHANGED <<world, given, sub, rule, loose, original, reported, round, reports, history, own, ends, read>>

\* The subgraph at once: an overflow or an empty answer goes to the columns,
\* bad JSON to the compact prompt, a network error out of the run.
Level1 ==
  /\ stage = "level1"
  /\ \/ ModelAnswers
     \/ Goto("level2", Attempts)
     \/ Goto("compact", {})
     \/ GiveUp("answer")
     \/ Fail

\* One column did not succeed: the others are still tried.
SkipColumn(q) ==
  /\ queue' = queue \ {q}
  /\ UNCHANGED <<world, given, stage, sub, rule, loose, original, reported, round, reports,
                 patch, twice, history, own, ends, read>>

\* Column by column; an overflow drops what was collected.
Level2 ==
  /\ stage = "level2" /\ queue # {}
  /\ \E q \in queue :
       \/ \E m \in ModelRules :
            /\ patch' = [patch EXCEPT ![q[2]] = m]
            /\ twice' = (twice \/ patch[q[2]] # Untouched)
            /\ queue' = queue \ {q}
            /\ UNCHANGED <<world, given, stage, sub, rule, loose, original, reported, round,
                           reports, history, own, ends, read>>
       \/ SkipColumn(q)
       \/ Goto("compact", {})
       \/ Fail

Level2Done ==
  /\ stage = "level2" /\ queue = {}
  /\ IF patch = Unpatched
     THEN GiveUp("answer")
     ELSE /\ stage' = "merge"
          /\ UNCHANGED <<world, given, sub, rule, loose, original, reported, progress, history, own, ends, read>>

Level3 ==
  /\ stage \in {"compact", "ultra"}
  /\ \/ ModelAnswers
     \/ stage = "compact" /\ Goto("ultra", {})
     \/ stage = "ultra" /\ GiveUp("answer")
     \/ Fail

\* A mistake: a repaired subgraph is not looked at again.
Unchecked(r, t) == {}
\* The whole subgraph is validated after every patch.
Revalidate(r, t) == Validate(r, t)

\* A patch whose names or arguments are not accepted is not merged.
Reject == stage = "merge" /\ GiveUp("answer")

Merge ==
  /\ stage = "merge" /\ ~twice
  /\ LET candidate == Merged(rule, patch)
         vs == Revalidate(candidate, sub)
         sig == Signature(vs)
     IN  IF vs = {}
         THEN /\ rule' = candidate /\ Accept("valid") /\ patch' = Unpatched
              /\ UNCHANGED <<world, given, loose, original, reported, round, reports, queue, twice, history,
                             failed, degraded, read>>
         ELSE IF Oscillates(sig)
         THEN /\ Degrade(candidate, vs, "oscillation") /\ reports' = vs
              /\ UNCHANGED <<world, given, loose, original, reported, round, history, read>>
         ELSE /\ rule' = candidate /\ reports' = vs
              /\ history' = Remembered(sig) /\ own' = own + 1
              /\ stage' = "round" /\ round' = round + 1
              /\ patch' = Unpatched
              /\ UNCHANGED <<world, given, sub, loose, original, reported, queue, twice, ends, read>>

\* Broken foreign keys become nullable; the schema must be as it was read.
Verify ==
  /\ stage = "next" /\ sub > Last
  /\ stage' = "verified"
  /\ loose' = BrokenKeys /\ read' = rule
  /\ UNCHANGED <<world, given, sub, rule, original, reported, progress, history, own, ends>>

SchemaChanged == stage = "next" /\ sub > Last /\ Fail

\* The caller's columns that nothing has reported, changed or marked; the mark
\* of a degraded column, a dependant too, is part of what is compared.
Preserved ==
  IF given THEN {c \in SchemaColumns \ (reported \cup loose \cup degraded) : rule[c] = Written} ELSE {}

\* The last passes may rewrite any other column.
Finish ==
  /\ stage = "verified"
  /\ \E S \in SUBSET SchemaColumns :
       rule' = [c \in SchemaColumns |-> IF c \in S \ Preserved THEN Rewritten ELSE rule[c]]
  /\ stage' = "done"
  /\ UNCHANGED <<world, given, sub, loose, original, reported, progress, history, own, ends, read>>

FinalCandidateRejected == stage = "verified" /\ Fail

HealNext ==
  \/ Expired \/ CheckSubgraph \/ Repair \/ StrategyRaises
  \/ StartRound \/ Level1 \/ Level2 \/ Level2Done \/ Level3 \/ Reject \/ Merge
  \/ Verify \/ SchemaChanged \/ Finish \/ FinalCandidateRejected

HealSpec == HealInit /\ [][HealNext]_healVars

-----------------------------------------------------------------------------
HealTypeOK ==
  /\ world \in Worlds /\ given \in BOOLEAN
  /\ stage \in {"next", "repair", "round", "level1", "level2", "compact", "ultra", "merge",
                "verified", "done", "failed"}
  /\ sub \in 1 .. Last + 1
  /\ rule \in [SchemaColumns -> Rules] /\ original \in [SchemaColumns -> Rules] /\ read \in [SchemaColumns -> Rules]
  /\ loose \subseteq SchemaColumns /\ reported \subseteq SchemaColumns
  /\ failed \subseteq degraded /\ degraded \subseteq SchemaColumns
  /\ round \in 0 .. MaxRounds + 1
  /\ patch \in [SchemaColumns -> ModelRules \cup {Untouched}] /\ twice \in BOOLEAN
  /\ Len(history) <= MaxHistory
  /\ result \in [Tables -> {"none", "valid", "default", "time", "rounds", "answer", "oscillation"}]

\* Until the last passes, a subgraph that was accepted without being degraded
\* or defaulted violates nothing: no later subgraph and no half patch undoes it.
AcceptedIsValid ==
  stage \notin {"done", "failed"} =>
    \A t \in Tables : result[t] = "valid" => Validate(rule, t) = {}

\* A column that still failed draws from what it drew from before the model
\* was asked, in whichever round and at whichever level the healer gave up;
\* the model's other settings of the column may stay (_restore_table_columns).
FailedReturnsToItsRule ==
  stage \notin {"done", "failed"} => \A c \in failed : rule[c].head \in {"start", "fixed"}

\* A column the caller wrote and nobody reported, changed or marked comes back
\* as it was, whatever the last passes do; every other column may change.
CallersColumnsAreKept ==
  stage = "done" /\ given =>
    \A c \in SchemaColumns : read[c] = Written /\ c \notin reported \cup loose \cup degraded => rule[c] = Written

\* What the healer accepts for a table passes its validation, what it gives up draws as it did, and the
\* caller's unmarked columns come back (HealOrchestrator.heal, AutoHealOrchestrator.run).
HealingIsSound ==
  HealTypeOK /\ AcceptedIsValid /\ FailedReturnsToItsRule /\ CallersColumnsAreKept

\* The healer gives up a subgraph for oscillating only after this subgraph
\* was in the same state before.
\*   oscillation.py:19: "Detect A<->B alternation in error states."
OscillationIsItsOwn ==
  [][\A t \in Tables : result[t] = "none" /\ result'[t] = "oscillation" => own > 0]_healVars

\* What level 2 could heal is merged and validated again.
\*   orchestrator.py:349: "Partial success - return what we have; remaining
\*   columns will be caught by re-validation and degraded."
HealedColumnsAreMerged == ~twice
=============================================================================
