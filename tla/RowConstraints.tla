--------------------------- MODULE RowConstraints ---------------------------
(***************************************************************************)
(* What the rows of one generated table must satisfy: the constraints a    *)
(* DataStream and its ConstraintSolver are configured with (core/stream.py, *)
(* core/constraints.py).  A row gives every column a value or Null; a      *)
(* column the row dict does not have reads as Null, as row.get does.       *)
(***************************************************************************)
EXTENDS Integers, Sequences

CONSTANTS
  N,             (* number of columns                                       *)
  Values,        (* values a column can hold                                *)
  Null,          (* SQL NULL, Python's None                                 *)
  Unique,        (* columns with a UNIQUE constraint                        *)
  Composites,    (* column sets of the composite UNIQUE constraints         *)
  Inequalities,  (* pairs <<c, d>> of columns compared by a CHECK           *)
  Permitted,     (* Permitted[e]: the pairs of values the CHECK e accepts   *)
  Allowed,       (* Allowed[c]: the values within min, max and regex of c   *)
  Existing       (* keys that the database already holds                    *)

Columns == 1 .. N    \* in the order of the column DAG

ASSUME ConstraintsAssumption ==
  /\ N \in Nat \ {0}
  /\ Null \notin Values
  /\ Unique \subseteq Columns
  /\ Composites \subseteq SUBSET Columns
  /\ \A k \in Composites : \E c, d \in k : c # d
  /\ Inequalities \subseteq Columns \X Columns
  /\ Permitted \in [Inequalities -> SUBSET (Values \X Values)]
  /\ Allowed \in [Columns -> SUBSET Values]

Rows == [Columns -> Values \cup {Null}]
Blank == [c \in Columns |-> Null]

(* A key is the part of a row on the columns of one UNIQUE constraint.     *)
(* Keys of different constraints differ in their domains, as the solver's  *)
(* sets differ in their names.                                             *)
Singles == {{c} : c \in Unique}
Constraints == Singles \cup Composites
KeyOf(k, r) == [c \in k |-> r[c]]
Complete(k, r) == \A c \in k : r[c] # Null

\* Null takes no part in a UNIQUE constraint.
KeysOn(ks, r) == {KeyOf(k, r) : k \in {i \in ks : Complete(i, r)}}
KeysOf(r) == KeysOn(Constraints, r)
KeysIn(t) == UNION {KeysOf(t[i]) : i \in 1 .. Len(t)}

\* A CHECK with a NULL operand holds.
Compares(r) ==
  \A e \in Inequalities :
    Complete({e[1], e[2]}, r) => <<r[e[1]], r[e[2]]>> \in Permitted[e]

InRange(r) == \A c \in Columns : r[c] \in Allowed[c] \cup {Null}

\* A table the database accepts next to what it holds.
Acceptable(t) ==
  /\ \A i \in 1 .. Len(t) :
       Compares(t[i]) /\ InRange(t[i]) /\ KeysOf(t[i]) \cap Existing = {}
  /\ \A i, j \in 1 .. Len(t) : i # j => KeysOf(t[i]) \cap KeysOf(t[j]) = {}
=============================================================================
