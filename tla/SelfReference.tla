---------------------------- MODULE SelfReference ----------------------------
(***************************************************************************)
(* The pass after a fill that links rows of a table to earlier rows of the *)
(* same table (SelfReferenceUpdater).  Each row is read once, before the   *)
(* first update, and each UPDATE commits: what the pass believes of a row  *)
(* and what the table holds may differ.                                    *)
(***************************************************************************)
EXTENDS Integers, FiniteSets

CONSTANTS
  N,                     (* rows of the table, in the order of the SELECT *)
  _MAX_PARENT_ATTEMPTS,
  Unlisted               (* whether a two-way CHECK may come without the list of the other kinds *)

SelfReferenceAssumption == N \in Nat \ {0} /\ _MAX_PARENT_ATTEMPTS \in Nat \ {0} /\ Unlisted \in BOOLEAN

Rows == 1 .. N
Null == 0
Kinds == {1, 2, 3}       \* of the condition column; 1 allows a row without a parent
Columns == {"parent", "kind", "code"}

VARIABLES
  unique,    (* _unique_keys: sets of columns *)
  check,     (* of the CHECK: "none", "one" (kind = 1 OR parent IS NOT NULL), "both" directions *)
  listed,    (* another CHECK lists the kinds *)
  pk, ref,   (* of each row; the primary key may hold NULL, the referenced column too *)
  linked,    (* what the rows hold *)
  known,     (* _known_keys *)
  index, updated, refused

given == <<unique, check, listed, pk, ref>>
selfVars == <<given, linked, known, index, updated, refused>>

\* A fill of an empty table: every deferred reference is NULL and the CHECK holds.
SelfInit ==
  /\ unique \in SUBSET {{"parent"}, {"parent", "kind"}, {"kind", "code"}}
  /\ check \in {"none", "one", "both"} /\ listed \in BOOLEAN
  /\ check = "both" => listed \/ Unlisted
  /\ \E S \in SUBSET Rows : pk = [i \in Rows |-> IF i \in S THEN Null ELSE i]
  /\ \E S \in SUBSET Rows : ref = [i \in Rows |-> IF i \in S THEN Null ELSE i]
  /\ \E code \in [Rows -> {Null, 1, 2}], kind \in [Rows -> {1, 2}] :
       /\ check # "none" => \A i \in Rows : kind[i] = 1
       /\ linked = [i \in Rows |-> [parent |-> Null, kind |-> kind[i], code |-> code[i]]]
  /\ \A k \in unique : \A i, j \in Rows :
       i # j /\ (\A c \in k : linked[i][c] # Null) => \E c \in k : linked[i][c] # linked[j][c]
  /\ known = [k \in unique |-> {}] /\ index = 1 /\ updated = 0 /\ refused = FALSE

\* _detect_cond_column, _extract_non_null_values, _self_ref_condition_values.
_condition_values ==
  CASE check = "none" -> {}
    [] listed -> Kinds \ {1}
    [] OTHER -> {linked[i].kind : i \in Rows} \ {1}

Values(k, row) == [c \in k |-> row[c]]
Complete(v) == \A c \in DOMAIN v : v[c] # Null

Taken(k, v) == v \in known[k] \/ \E i \in Rows : Values(k, linked[i]) = v
_conflicts(row, new) ==
  \E k \in unique :
    /\ k \cap {"parent", "kind"} # {}
    /\ Complete(Values(k, new)) /\ Values(k, new) # Values(k, row)
    /\ Taken(k, Values(k, new))

parents(i) == {ref[j] : j \in 1 .. i - 1} \ {Null}

\* _choose_changes: what the row may become; the row itself when it stays as it is.
Fitting(row, p) ==
  {new \in {[row EXCEPT !.parent = p, !.kind = k] :
              k \in IF _condition_values = {} THEN {row.kind} ELSE _condition_values} : ~_conflicts(row, new)}
_choose_changes(i, row) ==
  LET fits == {p \in parents(i) : Fitting(row, p) # {}}
      sampled == IF unique = {} THEN 1 ELSE _MAX_PARENT_ATTEMPTS
  IN  (UNION {Fitting(row, p) : p \in fits})
        \cup (IF Cardinality(parents(i) \ fits) >= sampled \/ fits = {} THEN {row} ELSE {})

\* _identity: the rows an UPDATE of row i touches; none when it cannot be told from others.
\* A mistake: the primary key is the identity, NULLs included.
KeyOnly(i) == {j \in Rows : pk[j] = pk[i]}
_identity(i) ==
  IF pk[i] # Null THEN {j \in Rows : pk[j] = pk[i]}
  ELSE IF ref[i] = Null THEN {}
  ELSE {j \in Rows : pk[j] = Null /\ ref[j] = ref[i]}

Checked(row) ==
  /\ check # "none" => row.kind = 1 \/ row.parent # Null
  /\ check = "both" => row.kind # 1 \/ row.parent = Null

\* One row of the loop of apply.
Step(i) ==
  /\ index = i /\ ~refused /\ i <= N /\ index' = i + 1 /\ UNCHANGED given
  /\ \/ UNCHANGED <<linked, known, updated, refused>>
     \/ /\ parents(i) # {} /\ linked[i].parent = Null /\ _identity(i) # {}
        /\ \E new \in _choose_changes(i, linked[i]) \ {linked[i]} :
             IF Checked(new)
             THEN /\ linked' = [j \in Rows |->
                       IF j \in _identity(i)
                       THEN [linked[j] EXCEPT !.parent = new.parent,
                              !.kind = IF _condition_values = {} THEN @ ELSE new.kind]
                       ELSE linked[j]]
                  /\ updated' = updated + Cardinality(_identity(i))
                  /\ known' = [k \in unique |->
                       known[k] \cup (IF Complete(Values(k, new)) THEN {Values(k, new)} ELSE {})]
                  /\ UNCHANGED refused
             ELSE refused' = TRUE /\ UNCHANGED <<linked, known, updated>>
apply == \E i \in Rows : Step(i)

SelfSpec == SelfInit /\ [][apply]_selfVars

----------------------------------------------------------------------------
(* Properties.                                                             *)

\* After every UPDATE, since each commits: a row refers to an earlier row, so the hierarchy has
\* no cycle; no unique key is doubled; the linking CHECK holds; the count reported is the number
\* of rows that were linked; and the database refuses no UPDATE of the pass
\* (SelfReferenceUpdater.apply, _conflicts, _identity).
HierarchyIsSound ==
  /\ ~refused
  /\ \A i \in Rows : linked[i].parent # Null => linked[i].parent \in {ref[j] : j \in 1 .. i - 1}
  /\ \A i \in Rows : Checked(linked[i])
  /\ \A k \in unique : \A i, j \in Rows :
       i # j /\ Complete(Values(k, linked[i])) => Values(k, linked[i]) # Values(k, linked[j])
  /\ updated = Cardinality({i \in Rows : linked[i].parent # Null})
=============================================================================
