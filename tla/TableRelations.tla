---------------------------- MODULE TableRelations ----------------------------
(***************************************************************************)
(* Filling the tables of a configuration: the order topological_sort gives *)
(* them, and what each fill makes of the table's references when their     *)
(* targets are full, empty, or being cleared (RelationResolver).           *)
(*                                                                         *)
(* The rows of a table have the keys 1 .. rows[t].  A table refers to      *)
(* another, or to itself, by one column or by a pair of columns; a column  *)
(* without a foreign key may be associated with a source table.  A value   *)
(* that a rule invents for want of a parent is refused by the database.    *)
(***************************************************************************)
EXTENDS Integers, Sequences, FiniteSets, SequencesExt

CONSTANTS
  T,            (* number of tables, in the order of the configuration *)
  Degree,       (* bound of the references of one table *)
  Count,        (* rows asked for *)
  MaxRuns

RelationsAssumption == T \in Nat \ {0} /\ Count \in Nat \ {0} /\ MaxRuns \in Nat

Tables == 1 .. T
Kinds == {"none", "nullable", "required", "pair", "unsupported"}

VARIABLES
  fk,          (* fk[t][u]: how t refers to u *)
  conditional, (* the tables with the CHECK kind = 1 OR reference IS NOT NULL *)
  sparse,      (* the tables whose second key column is NULL in every row *)
  assoc,       (* _associations: <<>> or <<[target, source]>> *)
  pending, remaining, result,    (* of topological_sort *)
  phase, clear, todo, failed, runs,
  rows,
  refs,        (* refs[t][u]: the keys of u that rows of t hold *)
  link,        (* values of the associated column *)
  pool         (* SharedPool, of the column names "id" and "link" *)

given == <<fk, conditional, sparse, assoc>>
sorting == <<pending, remaining, result>>
data == <<rows, refs, link, pool>>
vars == <<given, sorting, data, phase, clear, todo, failed, runs>>

Targets(t) == {u \in Tables : fk[t][u] # "none"}
get_dependencies(t) ==
  (Targets(t) \ {t}) \cup {a.source : a \in {x \in Range(assoc) : x.target = t /\ x.source # t}}

\* A pool for every column name; a run begins without values in it.
EmptyPool == [id |-> {}, link |-> {}]

Init ==
  /\ fk \in [Tables -> {e \in [Tables -> Kinds] : Cardinality({u \in Tables : e[u] # "none"}) <= Degree}]
  /\ conditional \in {{}, {t \in Tables : \E u \in Tables : fk[t][u] = "nullable"}}
  /\ sparse \in {{}, {u \in Tables : \E t \in Tables : fk[t][u] = "pair"}}
  /\ assoc \in {<<>>, <<[target |-> 1, source |-> T]>>}
  /\ assoc # <<>> => \A t, u \in Tables : fk[t][u] # "pair" /\ fk[t][u] # "unsupported"
  /\ pending = [t \in Tables |-> {}] /\ remaining = {} /\ result = <<>>
  /\ phase = "idle" /\ clear = FALSE /\ todo = <<>> /\ failed = {} /\ runs = 0
  /\ rows = [t \in Tables |-> 0] /\ refs = [t \in Tables |-> [u \in Tables |-> {}]]
  /\ link = {} /\ pool = EmptyPool

----------------------------------------------------------------------------
(* The order.                                                              *)

\* A reference by three columns or more cannot be drawn.
validate_generation_schema(t) == \A u \in Tables : fk[t][u] # "unsupported"

\* validate_generation_schema for every table comes before the first change.
fill_from_config ==
  /\ phase = "idle" /\ runs < MaxRuns /\ runs' = runs + 1
  /\ clear' \in BOOLEAN /\ failed' = {} /\ result' = <<>> /\ todo' = <<>>
  /\ pool' = EmptyPool
  /\ IF \E t \in Tables : ~validate_generation_schema(t)
     THEN phase' = "idle" /\ UNCHANGED <<pending, remaining>>
     ELSE /\ phase' = "sort" /\ remaining' = Tables
          /\ pending' = [t \in Tables |-> get_dependencies(t)]
  /\ UNCHANGED <<given, rows, refs, link>>

First(S) == CHOOSE t \in S : \A u \in S : t <= u
_has_nullable_cycle_edge(t) == \E u \in remaining \ {t} : fk[t][u] = "nullable"
_pick_cycle_breaker ==
  LET nullable == {t \in remaining : _has_nullable_cycle_edge(t)}
  IN  First(IF nullable # {} THEN nullable ELSE remaining)

\* One round of topological_sort.
topological_sort ==
  /\ phase = "sort"
  /\ LET free == {t \in remaining : pending[t] = {}}
         ready == IF free # {} THEN free ELSE {_pick_cycle_breaker}
     IN  /\ result' = result \o SetToSortSeq(ready, <)
         /\ remaining' = remaining \ ready
         /\ pending' = [t \in Tables |-> pending[t] \ ready]
         /\ IF remaining' = {} THEN phase' = "fill" /\ todo' = result' ELSE UNCHANGED <<phase, todo>>
  /\ UNCHANGED <<given, data, clear, failed, runs>>

----------------------------------------------------------------------------
(* The rules of one table, and its rows.                                   *)

Keys(t) == 1 .. rows[t]
\* DELETE FROM t: refused while other tables refer to its rows.
ClearRefused(t) == clear /\ \E u \in Tables \ {t} : refs[u][t] # {}

\* resolve_foreign_keys for the reference of t to u, over the keys u has when t was cleared:
\* what the rule draws from; all NULL; or numbers of its own.
Keys2(t, u) == IF u = t /\ clear THEN {} ELSE Keys(u)
_column_allows_null(t, u) == fk[t][u] = "nullable"
\* A mistake: only the fallback range is prepared for an empty parent.
Invented(t, u) == IF Keys2(t, u) # {} THEN "parent" ELSE "invented"
_resolve_fk_or_integer_spec(t, u) ==
  CASE Keys2(t, u) # {} -> "parent"
    [] _column_allows_null(t, u) -> "null"
    [] OTHER -> "invented"

\* A reference of the table to itself is resolved apart, to the same effect.
_upgrade_fk_constrained_columns(t) ==
  CASE Keys2(t, t) # {} -> "parent"
    [] _column_allows_null(t, t) -> "null"
    [] OTHER -> "invented"
Rule(t, u) == IF u = t THEN _upgrade_fk_constrained_columns(t) ELSE _resolve_fk_or_integer_spec(t, u)

\* _fix_conditional_column_for_null_fk leaves only the kind that needs no reference; without
\* it the rows of the other kinds would be refused.
_fix_conditional_column_for_null_fk(t) ==
  \A u \in Targets(t) : Rule(t, u) = "null"

\* _apply_single_association: the pool of the column, filled once from the pool of the source's
\* column name or from the table.
_apply_single_association(a) ==
  [pool EXCEPT !.link = CASE pool.link # {} -> pool.link
                          [] pool.id # {} -> pool.id
                          [] OTHER -> Keys(a.source)]
apply_associations(t) ==
  LET own == SelectSeq(assoc, LAMBDA a : a.target = t)
  IN  IF own = <<>> THEN pool ELSE _apply_single_association(own[1])

\* The key of u a row holds: both columns of a pair are those of one row of u; 0 is NULL.
Drawn(t, u) ==
  IF u \in Targets(t) /\ Rule(t, u) = "parent" THEN Keys2(t, u) ELSE {0}

\* register_shared_pool.
Registered(p, t, n) == [p EXCEPT !.id = @ \cup 1 .. n]

\* _compatible_fk_pairs: no pair of the parent fits columns that take no NULL; a configuration
\* error, which ends the run.
NoCompatiblePair(t) == \E u \in Targets(t) \cap sparse : fk[t][u] = "pair" /\ Keys2(t, u) # {}

Refused(t) ==
  \/ ClearRefused(t) \/ NoCompatiblePair(t)
  \/ \E u \in Targets(t) : Rule(t, u) = "invented"
  \/ t \in conditional /\ ~_fix_conditional_column_for_null_fk(t)
       /\ \E u \in Targets(t) : Rule(t, u) = "null"

Emptied(t) ==
  /\ rows' = [rows EXCEPT ![t] = IF clear THEN 0 ELSE @]
  /\ refs' = IF clear THEN [refs EXCEPT ![t] = [u \in Tables |-> {}]] ELSE refs
  /\ link' = IF clear /\ t = 1 THEN {} ELSE link

\* fill_table, to its result.  A refused clear leaves everything; refused rows leave the table
\* cleared.
fill_table ==
  /\ phase = "fill" /\ todo # <<>>
  /\ IF NoCompatiblePair(Head(todo)) /\ ~ClearRefused(Head(todo)) THEN phase' = "idle" /\ todo' = <<>>
     ELSE todo' = Tail(todo) /\ UNCHANGED phase
  /\ LET t == Head(todo)
         kept == IF clear THEN 0 ELSE rows[t]
         offered == apply_associations(t)
     IN  IF ClearRefused(t)
         THEN failed' = failed \cup {t} /\ UNCHANGED data
         ELSE IF Refused(t)
         THEN failed' = failed \cup {t} /\ pool' = offered /\ Emptied(t)
         ELSE /\ UNCHANGED failed
              /\ rows' = [rows EXCEPT ![t] = kept + Count]
              /\ \E drawn \in [Tables -> 0 .. Count * MaxRuns] :
                   /\ \A u \in Tables : drawn[u] \in Drawn(t, u)
                   /\ refs' = [refs EXCEPT ![t] = [u \in Tables |->
                                (IF clear THEN {} ELSE refs[t][u]) \cup ({drawn[u]} \ {0})]]
              /\ link' \in IF t \in {a.target : a \in Range(assoc)} /\ offered.link # {}
                           THEN {(IF clear THEN {} ELSE link) \cup {v} : v \in offered.link}
                           ELSE {IF clear /\ t = 1 THEN {} ELSE link}
              /\ pool' = Registered(offered, t, kept + Count)
  /\ UNCHANGED <<given, sorting, clear, runs>>

Finish ==
  /\ phase = "fill" /\ todo = <<>> /\ phase' = "idle"
  /\ UNCHANGED <<given, sorting, data, clear, todo, failed, runs>>

Next == fill_from_config \/ topological_sort \/ fill_table \/ Finish

Spec == Init /\ [][Next]_vars

----------------------------------------------------------------------------
(* Properties.                                                             *)

Before(t, u) == \E i, j \in DOMAIN result : i < j /\ result[i] = t /\ result[j] = u
Step(S) == S \cup UNION {get_dependencies(t) : t \in S}
Reach(t) == FoldLeft(LAMBDA S, i : Step(S), get_dependencies(t), [i \in Tables |-> i])
Acyclic == \A t \in Tables : t \notin Reach(t)
\* Every cycle can be opened at a nullable reference, and no row needs another of its table.
Openable ==
  /\ sparse = {} /\ \A t \in Tables : fk[t][t] \in {"none", "nullable"}
  /\ \A t \in Tables : t \in Reach(t) =>
       \E u \in Reach(t) \cap {v \in Tables : t \in Reach(v)} :
         \E v \in Reach(t) \cap {x \in Tables : t \in Reach(x)} : u # v /\ fk[u][v] = "nullable"

\* When every cycle of references has a nullable one and no table has two references, a run that
\* clears nothing refuses no row: the order and the NULLs forced on references to a table that
\* is still empty fit together; and without cycles every table follows the tables it needs
\* (topological_sort, _pick_cycle_breaker, resolve_foreign_keys).
EveryTableIsFilled ==
  /\ Openable /\ ~clear /\ assoc = <<>> => failed = {}
  /\ Acyclic /\ phase = "fill" => \A t \in Tables : \A u \in get_dependencies(t) : Before(u, t)

\* Only a reference that is part of a cycle may point to a table that comes later
\* ("referenced tables precede their dependents").
OnlyCyclesAreBroken ==
  phase = "fill" => \A t \in Tables : \A u \in get_dependencies(t) : t \in Reach(u) \/ Before(u, t)
=============================================================================
