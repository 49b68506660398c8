------------------------------ MODULE PlanCheck ------------------------------
(***************************************************************************)
(* What the workbench accepts before a run, and what the run then does to  *)
(* the rows: the dependencies of the selected tables and their layers      *)
(* (_dependency_plan in workbench_runtime.py), the cycles that existing    *)
(* keys make possible (workbench_cycles.py), the replacement plan          *)
(* (workbench_execution.py), and the statements of an accepted run in the  *)
(* order of the plan.  A database is the foreign keys and associations     *)
(* between a few tables and which of them hold rows.                       *)
(***************************************************************************)
EXTENDS Integers, FiniteSets, Sequences, SequencesExt, FiniteSetsExt

CONSTANTS
  N,           (* tables, in the order of the document                     *)
  MaxFeatures, (* bound: foreign keys, associations and traits of a case   *)
  Traits       (* what else table 1 has: subsets of "trigger", "enrich",   *)
               (* "restrict", "pair" (two-column keys), "wide" (three)     *)

VARIABLES
  keys,        (* foreign keys: <<child, parent, nullable>>                *)
  links,       (* configured associations: <<child, parent>>               *)
  selected,    (* tables of the document                                   *)
  traits, sqlite, replace,
  rows,        (* "none", "old", "new" or "both" for each table            *)
  phase, todo, (* the place of the run and its remaining statements        *)
  wrong        (* ghost: what a statement met that the check did not see   *)

vars == <<keys, links, selected, traits, sqlite, replace, rows, phase, todo, wrong>>
case == <<keys, links, selected, traits, sqlite, replace>>

Tables == 1 .. N
Key(child, parent, nullable) == <<child, parent, nullable>>
HasRows(t) == rows[t] # "none"

----------------------------------------------------------------------------
(* Graphs: a dependency function gives the parents of each table.          *)

\* dependency_layers: tables without pending parents, layer by layer.
Layers(dep) ==
  LET From[left \in SUBSET DOMAIN dep] ==
        LET layer == {t \in left : dep[t] \cap left = {}}
        IN  IF layer = {} THEN <<>> ELSE <<layer>> \o From[left \ layer]
  IN  From[DOMAIN dep]

Order(dep) == FoldLeft(LAMBDA found, layer : found \o SetToSortSeq(layer, <), <<>>, Layers(dep))

\* _finish_order: postorder with an explicit stack; -t marks the end of t.
FinishOrder(dep) ==
  LET RECURSIVE Walk(_, _, _)
      Walk(stack, visited, finished) ==
        IF stack = <<>> THEN <<visited, finished>>
        ELSE LET name == Head(stack)
                 rest == Tail(stack)
             IN  IF name < 0 THEN Walk(rest, visited, Append(finished, -name))
                 ELSE IF name \in visited THEN Walk(rest, visited, finished)
                 ELSE Walk(SetToSortSeq(dep[name], <) \o <<-name>> \o rest,
                           visited \cup {name}, finished)
  IN  FoldLeft(LAMBDA acc, start : Walk(<<start>>, acc[1], acc[2]),
               <<{}, <<>>>>, SetToSortSeq(DOMAIN dep, <))[2]

LastFinishedFirst(dep) == Reverse(FinishOrder(dep))

\* cyclic_components: what a table reaches through its children, last finished first.
CyclicComponents(dep) ==
  LET RECURSIVE Reach(_, _)
      Reach(found, visited) ==
        LET next == {c \in DOMAIN dep : dep[c] \cap found # {}} \ (visited \cup found)
        IN  IF next = {} THEN found ELSE Reach(found \cup next, visited)
      Collect(acc, start) ==
        IF start \in acc.visited THEN acc
        ELSE LET component == Reach({start}, acc.visited)
             IN  [visited |-> acc.visited \cup component, found |-> acc.found \cup {component}]
  IN  {c \in FoldLeft(Collect, [visited |-> {}, found |-> {}], LastFinishedFirst(dep)).found :
         Cardinality(c) > 1}

----------------------------------------------------------------------------
(* The check of a document.                                                *)

\* schema_dependencies: keys and associations inside the selection.
SchemaDependencies ==
  [t \in selected |-> ({k[2] : k \in {x \in keys : x[1] = t}}
                       \cup {l[2] : l \in {x \in links : x[1] = t}}) \cap (selected \ {t})]

\* existing_cycle_sources: all keys inside a cycle are single columns whose parents
\* have values, and no association crosses it; only in SQLite.
Inside(group) == {k \in keys : k[1] # k[2] /\ k[1] \in group /\ k[2] \in group}
SingleExistingSource(k) == HasRows(k[2]) /\ ~(k[1] = 1 /\ "pair" \in traits)

EverySource(group) == \A k \in Inside(group) : SingleExistingSource(k)

Pinned(dep) ==
  IF ~sqlite THEN {}
  ELSE UNION {Inside(group) : group \in {g \in CyclicComponents(dep) :
         /\ ~\E l \in links : l[1] \in g /\ l[2] \in g
         /\ Inside(g) # {} /\ EverySource(g)}}

\* The dependencies that order the run, without the keys that existing rows feed.
RunDependencies ==
  LET dep == SchemaDependencies
  IN  [t \in selected |-> dep[t] \ {k[2] : k \in {x \in Pinned(dep) : x[1] = t}}]

\* A mistake: an empty parent is reported only for tables outside the run.
OutsideOnly(t, p, nullable) == p \notin selected /\ ~nullable

\* _empty_source_issues: a required source that nothing will fill; a selected
\* parent is filled first, an empty self reference has no first row.
NoSource(t, p, nullable) == (p = t \/ p \notin selected) /\ ~nullable

EmptySource(t) ==
  \/ \E k \in keys : k[1] = t /\ ~HasRows(k[2]) /\ NoSource(t, k[2], k[3])
  \/ \E l \in links : l[1] = t /\ ~HasRows(l[2]) /\ NoSource(t, l[2], FALSE)

\* A nullable reference of two columns to its own empty table is not backfilled, and
\* keys of more than two columns are not paired.
UnsupportedKey(t) ==
  t = 1 /\ \E k \in keys :
    /\ k[1] = t
    /\ \/ "wide" \in traits
       \/ "pair" \in traits /\ k[2] = t /\ ~HasRows(t)

CheckOK ==
  /\ selected # {}
  /\ \A t \in selected : ~EmptySource(t) /\ ~UnsupportedKey(t)
  /\ Len(Order(RunDependencies)) = Cardinality(selected)

----------------------------------------------------------------------------
(* The replacement plan.                                                   *)

\* _incoming_replacement_issues: a key of an unselected table, or a required self
\* reference, which has no row left to point at.
BlocksClearing(k) == k[2] \in selected /\ (k[1] \notin selected \/ (k[1] = k[2] /\ ~k[3]))

\* _association_replacement_issues
LinkBlocksClearing(l) == l[2] \in selected /\ l[1] \notin selected

\* _sqlite_replacement_issues and _enrichment_issues for table 1.
TraitBlocksClearing ==
  /\ 1 \in selected
  /\ \/ "trigger" \in traits \/ "enrich" \in traits
     \/ "restrict" \in traits /\ HasRows(1) /\ \E k \in keys : k[1] = 1 /\ k[2] = 1

\* build_execution_plan
PlanOK ==
  replace =>
    /\ sqlite /\ CyclicComponents(SchemaDependencies) = {}
    /\ ~\E k \in keys : BlocksClearing(k)
    /\ ~\E l \in links : LinkBlocksClearing(l)
    /\ ~TraitBlocksClearing

DeleteOrder(order) == Reverse(order)

Statements ==
  LET order == Order(RunDependencies)
      Do(op, names) == [i \in DOMAIN names |-> <<op, names[i]>>]
  IN  (IF replace THEN Do("delete", DeleteOrder(order)) ELSE <<>>) \o Do("fill", order)

----------------------------------------------------------------------------
(* Databases, and the run.                                                 *)

Init ==
  /\ keys \in UNION {kSubset(n, Tables \X Tables \X BOOLEAN) : n \in 0 .. MaxFeatures}
  /\ links \in {{}} \cup {{<<a, b>>} : a \in Tables, b \in Tables}
  /\ \A l \in links : l[1] # l[2] /\ \A k \in keys : <<k[1], k[2]>> # l
  /\ \A k \in keys : <<k[1], k[2], ~k[3]>> \notin keys
  /\ selected \in SUBSET Tables \ {{}}
  /\ traits \in Traits /\ sqlite \in BOOLEAN /\ replace \in BOOLEAN
  /\ Cardinality(keys) + Cardinality(links) + 2 * Cardinality(traits)
       + (IF sqlite THEN 0 ELSE 2) <= MaxFeatures
  /\ rows \in [Tables -> {"none", "old"}]
  /\ \A k \in keys : rows[k[1]] = "old" /\ ~k[3] => rows[k[2]] = "old"
  /\ phase = "new" /\ todo = <<>> /\ wrong = {}

\* check_document and plan_execution, again under the run's own transaction.
Accept ==
  /\ phase = "new" /\ CheckOK /\ PlanOK
  /\ phase' = "running" /\ todo' = Statements
  /\ UNCHANGED <<case, rows, wrong>>

Refuse ==
  /\ phase = "new" /\ ~(CheckOK /\ PlanOK)
  /\ phase' = "refused" /\ UNCHANGED <<case, rows, todo, wrong>>

\* What the database does with DELETE FROM t.
Broken(t) ==
  {k \in keys : k[2] = t /\ k[1] # t /\ HasRows(k[1]) /\ HasRows(t)}
SideEffects(t) ==
  t = 1 /\ HasRows(t) /\ ("trigger" \in traits \/ ("restrict" \in traits /\ <<1, 1, TRUE>> \in keys))

\* _clear_replacement_tables
Delete(t) ==
  /\ rows' = [rows EXCEPT ![t] = "none"]
  /\ wrong' = wrong \cup (IF Broken(t) # {} THEN {"reference"} ELSE {})
                    \cup (IF SideEffects(t) THEN {"other rows"} ELSE {})

\* fill_table: every required reference needs a row to point at, a rule learnt from
\* the table's rows needs them, and a pair pointing at itself needs a first row.
Starved(t) ==
  \/ \E k \in keys : k[1] = t /\ ~k[3] /\ ~HasRows(k[2])
  \/ \E l \in links : l[1] = t /\ ~HasRows(l[2])

Fill(t) ==
  /\ rows' = [rows EXCEPT ![t] = IF HasRows(t) THEN "both" ELSE "new"]
  /\ wrong' = wrong \cup (IF Starved(t) THEN {"source"} ELSE {})
                    \cup (IF replace /\ t = 1 /\ "enrich" \in traits THEN {"rules"} ELSE {})

Execute ==
  /\ phase = "running" /\ todo # <<>>
  /\ LET t == Head(todo)[2] IN IF Head(todo)[1] = "delete" THEN Delete(t) ELSE Fill(t)
  /\ todo' = Tail(todo) /\ UNCHANGED <<case, phase>>

Finish == phase = "running" /\ todo = <<>> /\ phase' = "done" /\ UNCHANGED <<case, rows, todo, wrong>>

Next == Accept \/ Refuse \/ Execute \/ Finish
Spec == Init /\ [][Next]_vars

----------------------------------------------------------------------------
(* Properties.                                                             *)

PlanTypeOK ==
  /\ rows \in [Tables -> {"none", "old", "new", "both"}]
  /\ phase \in {"new", "refused", "running", "done"}
  /\ \A i \in DOMAIN todo : todo[i] \in {"delete", "fill"} \X selected

\* A run that was accepted never meets what its check should have seen: no fill
\* without a row for a required reference, no deletion under a row that still
\* points at it, no rows of other tables changed on the way.
AcceptedRunsNeverStarve == wrong = {}

Reaches(dep, a, b) ==
  LET Upto[k \in 0 .. N] == IF k = 0 THEN {a} ELSE Upto[k - 1] \cup UNION {dep[t] : t \in Upto[k - 1]}
  IN  b \in Upto[N]

\* The iterative search finds exactly the sets of mutually dependent tables, and the
\* layers hold exactly the tables that depend on no cycle, each in the first layer
\* its parents allow.
GraphsAreExact ==
  phase = "new" =>
    LET dep == SchemaDependencies
        twins == [t \in selected |-> {u \in selected : Reaches(dep, t, u) /\ Reaches(dep, u, t)}]
        layers == Layers(dep)
        free == {t \in selected : \A u \in selected : Reaches(dep, t, u) => twins[u] = {u}}
    IN  /\ CyclicComponents(dep) = {twins[t] : t \in {x \in selected : Cardinality(twins[x]) > 1}}
        /\ UNION Range(layers) = free
        /\ \A i \in DOMAIN layers : layers[i] =
             {t \in free \ UNION {layers[j] : j \in 1 .. (i - 1)} :
                dep[t] \subseteq UNION {layers[j] : j \in 1 .. (i - 1)}}
=============================================================================
