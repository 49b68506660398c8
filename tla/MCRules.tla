------------------------------- MODULE MCRules -------------------------------
(***************************************************************************)
(* Algorithms that share no state: the refinement of the model's           *)
(* suggestions, what the plan check accepts, the healer's rounds, how it   *)
(* splits a schema, the rules it infers and the repair of a configuration. *)
(* A behaviour is one of part, and the others stay where they start.  The  *)
(* type invariant of a part is checked with its first property; those of   *)
(* the refinement are its own.                                             *)
(***************************************************************************)
EXTENDS MCRefinement, Healing

VARIABLES
  part,
  keys, links, selected, traits, sqlite, replace, rows, planPhase, todo, wrong,
  edges, whole, nodes, left, index, lowlink, stack, work, found, waiting, parts, broken,
  schema, asked, before, config, step, faults, flagged, applied,
  case

planVars == <<keys, links, selected, traits, sqlite, replace, rows, planPhase, todo, wrong>>
splitVars == <<edges, whole, nodes, left, index, lowlink, stack, work, found, waiting, parts, broken>>
repairVars == <<schema, asked, before, config, step, faults, flagged, applied>>

Plan == INSTANCE PlanCheck WITH
  N <- 3, MaxFeatures <- 3,
  Traits <- {{}, {"trigger"}, {"enrich"}, {"restrict"}, {"pair"}, {"wide"}},
  phase <- planPhase

\* Two columns of one table and a column of another, under five sets of constraints.
a == [table |-> 1, name |-> "a"]
b == [table |-> 1, name |-> "b"]
d == [table |-> 2, name |-> "a"]
Has(c, h) == <<c, [head |-> h, rest |-> IF h \in ModelRules THEN "model" ELSE "own"]>>
FiveWorlds == {
    [bad |-> {Has(a, "start")}, clash |-> {}],
    [bad |-> {Has(a, "start"), Has(a, "model"), Has(d, "start"), Has(d, "model")}, clash |-> {}],
    [bad |-> {Has(a, "start"), Has(a, "fixed"), Has(d, "start"), Has(d, "fixed")},
     clash |-> {<<Has(a, "model"), Has(b, "start")>>}],
    [bad |-> {Has(a, "start"), Has(a, "fixed")}, clash |-> {<<Has(a, "fixed"), Has(b, "start")>>}],
    [bad |-> {Has(a, "fixed"), Has(b, "model")},
     clash |-> {<<Has(a, "start"), Has(b, "start")>>, <<Has(a, "other"), Has(b, "other")>>}]}
ThreeColumns == {a, b, d}
EachOther == {<<b, a>>, <<a, b>>}
OneLoose == {d}

ASSUME HealAssumption

\* Every graph over four tables.
Pairs == [i \in 1 .. 16 |-> <<1 + ((i - 1) \div 4), 1 + ((i - 1) % 4)>>]
Graphs4 == {SelectSeq(Pairs, LAMBDA e : e \in E) : E \in SUBSET {e \in (1 .. 4) \X (1 .. 4) : e[1] # e[2]}}
Split == INSTANCE Subgraphs WITH N <- 4, MaxSize <- 2, Keys <- Graphs4

Checks == INSTANCE CheckPatterns WITH Odd <- FALSE
Repairs == INSTANCE ColumnRepair WITH
  Odd <- FALSE, rows <- asked, given <- before, phase <- step, queue <- faults

\* A database with nothing to plan, and where the other parts stay.
NoPlan ==
  /\ keys = {} /\ links = {} /\ selected = {} /\ traits = {} /\ sqlite = TRUE
  /\ replace = FALSE /\ rows = <<>> /\ planPhase = "none" /\ todo = <<>> /\ wrong = {}

NoHealing == HealInit /\ ~given /\ world = CHOOSE w \in Worlds : TRUE
NoSplit ==
  /\ edges = <<>> /\ whole = FALSE /\ nodes = <<>> /\ left = <<>> /\ index = <<>> /\ lowlink = <<>>
  /\ stack = <<>> /\ work = <<>> /\ found = <<>> /\ waiting = <<>> /\ parts = <<>> /\ broken = <<>>
NoRepair ==
  /\ schema = <<>> /\ asked = 0 /\ before = <<>> /\ config = <<>> /\ step = "none"
  /\ faults = <<>> /\ flagged = {} /\ applied = {}
NoRequest ==
  /\ setup = <<>> /\ table = <<>> /\ cache = <<>> /\ legacy = <<>> /\ phase = "none" /\ run = <<>>
  /\ attempt = 0 /\ state = <<>> /\ call = <<>> /\ answer = <<>> /\ outcome = <<>> /\ runs = 0
  /\ refused = {} /\ valid = {}

RulesInit ==
  /\ part \in {"plan", "heal", "split", "checks", "repair", "ask"}
  /\ IF part = "checks" THEN case \in Checks!Cases ELSE case = <<>>
  /\ IF part = "repair" THEN Repairs!Init ELSE NoRepair
  /\ IF part = "ask" THEN Init ELSE NoRequest
  /\ IF part = "heal" THEN HealInit ELSE NoHealing
  /\ IF part = "split" THEN Split!Init ELSE NoSplit
  /\ IF part = "plan" THEN Plan!Init ELSE NoPlan

RulesNext ==
  /\ UNCHANGED <<part, case>>
  /\ \/ part = "plan" /\ Plan!Next /\ UNCHANGED <<healVars, splitVars, repairVars, vars>>
     \/ part = "heal" /\ HealNext /\ UNCHANGED <<planVars, splitVars, repairVars, vars>>
     \/ part = "split" /\ Split!Next /\ UNCHANGED <<planVars, healVars, repairVars, vars>>
     \/ part = "repair" /\ Repairs!Next /\ UNCHANGED <<planVars, healVars, splitVars, vars>>
     \/ part = "ask" /\ Next /\ UNCHANGED <<planVars, healVars, splitVars, repairVars>>

RulesSpec == RulesInit /\ [][RulesNext]_<<part, case, planVars, healVars, splitVars, repairVars, vars>>

\* What the plan check accepts can be executed, and the cycles and layers it finds are those of the
\* graph (build_execution_plan, cyclic_components, _dependency_plan); the tables that need each other
\* are found together, and the parts are small and in order (TarjanSCC, SubgraphSplitter).
GraphsAreExact ==
  /\ part = "plan" => Plan!PlanTypeOK /\ Plan!AcceptedRunsNeverStarve /\ Plan!GraphsAreExact
  /\ part = "split" => Split!SplitTypeOK /\ Split!ComponentsAreExact /\ Split!SubgraphsAreUsable
\* The rules inferred from CHECKs draw values the CHECKs accept (_cross_column_checks), and what the
\* repair changes stays repaired when it is validated again (RepairPipeline).
RulesAreUsable ==
  /\ part = "checks" => Checks!InferredValuesPass
  /\ part = "repair" => Repairs!RepairsHold
==============================================================================
