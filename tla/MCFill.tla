-------------------------------- MODULE MCFill --------------------------------
(***************************************************************************)
(* Filling tables, in parts that share no state: one fill through the      *)
(* bulk optimizer, the order of several tables and their references, the   *)
(* second pass over self-references, the generator each column gets, and   *)
(* the rules the healer emits for the columns of a table.  A behaviour is  *)
(* one of part, and the others stay where they start.  The type invariant  *)
(* of a part is checked with its first property.                           *)
(***************************************************************************)
EXTENDS TableFill, SelfReference

VARIABLES
  part,
  fk, conditional, sparse, assoc, queued, remaining, result, stage, emptied, todo, failed, runs,
  counts, refs, link, shared,
  case

tablesVars == <<fk, conditional, sparse, assoc, queued, remaining, result, stage, emptied, todo,
  failed, runs, counts, refs, link, shared>>

Several == INSTANCE TableRelations WITH
  T <- 3, Degree <- 1, Count <- 1, MaxRuns <- 2, phase <- stage, clear <- emptied, pool <- shared,
  pending <- queued, rows <- counts
Specs == INSTANCE ColumnSpecs WITH Odd <- FALSE
Emitter == INSTANCE ColumnRules WITH Odd <- FALSE

ASSUME FillAssumption /\ SelfReferenceAssumption /\ Several!RelationsAssumption

NoSelf ==
  /\ unique = {} /\ check = "none" /\ listed = FALSE /\ pk = [i \in Rows |-> i] /\ ref = pk
  /\ linked = [i \in Rows |-> [parent |-> Null, kind |-> 1, code |-> Null]]
  /\ known = <<>> /\ index = 1 /\ updated = 0 /\ refused = FALSE
NoTables ==
  /\ fk = <<>> /\ conditional = {} /\ sparse = {} /\ assoc = <<>> /\ queued = <<>>
  /\ remaining = {} /\ result = <<>> /\ stage = "none" /\ emptied = FALSE /\ todo = <<>>
  /\ failed = {} /\ runs = 0 /\ counts = <<>> /\ refs = <<>> /\ link = {} /\ shared = <<>>

Init ==
  /\ part \in {"fill", "self", "tables", "specs", "rules"}
  /\ FillInit /\ (part = "fill" \/ table = 0)
  /\ IF part = "self" THEN SelfInit ELSE NoSelf
  /\ IF part = "tables" THEN Several!Init ELSE NoTables
  /\ CASE part = "specs" -> Specs!Init
       [] part = "rules" -> Emitter!Init
       [] OTHER -> case = <<>>

Next ==
  /\ UNCHANGED <<part, case>>
  /\ \/ part = "fill" /\ FillNext /\ UNCHANGED <<selfVars, tablesVars>>
     \/ part = "self" /\ apply /\ UNCHANGED <<fillVars, tablesVars>>
     \/ part = "tables" /\ Several!Next /\ UNCHANGED <<fillVars, selfVars>>

Spec == Init /\ [][Next]_<<part, case, fillVars, selfVars, tablesVars>>

\* Tables are filled in an order their references can be resolved in (topological_sort).
EveryTableIsFilled == part = "tables" => Several!EveryTableIsFilled
\* The generators of columns draw what the table accepts (_resolve_specs).
SpecsFitTheSchema == part = "specs" => Specs!SpecsFitTheSchema
\* The rules the healer emits produce rows the CHECKs of the table accept (the emitter's passes).
EmittedRulesFit == part = "rules" => Emitter!EmittedRulesFit
=============================================================================
