-------------------------- MODULE DataStreamProofs --------------------------
(***************************************************************************)
(* StreamInv is an inductive invariant of DataStream, for any columns,     *)
(* constraints, generators and limits; what it says of the keys in use,    *)
(* and that the stream implements RowStream, follow from it.               *)
(***************************************************************************)
EXTENDS DataStream, SequenceTheorems, TLAPS

-----------------------------------------------------------------------------
(* Keys of rows (core/constraints.py).                                     *)

\* A composite constraint is on at least two columns, so a blank row has no
\* key.
LEMMA BlankHasNoKeys ==
  ASSUME NEW ks \in SUBSET Constraints
  PROVE  KeysOn(ks, Blank) = {}
<1>1. ASSUME NEW k \in ks PROVE ~Complete(k, Blank)
  <2>1. PICK c \in k : c \in Columns
    BY <1>1, ConstraintsAssumption DEF Constraints, Singles
  <2> QED
    BY <2>1 DEF Complete, Blank
<1> QED
  BY <1>1 DEF KeysOn

\* The row before its first column is a row.
LEMMA BlankIsARow == Blank \in Rows
BY DEF Blank, Rows

\* The key of a complete row is a key of the solver.
LEMMA KeysAreTyped ==
  ASSUME NEW ks \in SUBSET Constraints, NEW r \in Rows
  PROVE  KeysOn(ks, r) \subseteq Keys
<1>1. ASSUME NEW k \in ks, Complete(k, r) PROVE KeyOf(k, r) \in [k -> Values]
  <2>1. k \subseteq Columns
    BY ConstraintsAssumption DEF Constraints, Singles
  <2> QED
    BY <1>1, <2>1 DEF KeyOf, Complete, Rows
<1> QED
  BY <1>1 DEF KeysOn, Keys

\* The keys on two sets of constraints together.
LEMMA KeysOnUnion ==
  ASSUME NEW ks, NEW ls, NEW r
  PROVE  KeysOn(ks \cup ls, r) = KeysOn(ks, r) \cup KeysOn(ls, r)
BY DEF KeysOn

\* The keys of a table one row longer.
LEMMA KeysInAppend ==
  ASSUME NEW t \in Seq(Rows), NEW r \in Rows
  PROVE  KeysIn(Append(t, r)) = KeysIn(t) \cup KeysOf(r)
<1> DEFINE s == Append(t, r)
<1>1. Len(s) = Len(t) + 1 /\ Len(t) \in Nat
  BY AppendProperties
<1>2. s[Len(t) + 1] = r /\ \A i \in 1 .. Len(t) : s[i] = t[i]
  BY AppendProperties
<1>3. ASSUME NEW x \in KeysIn(s) PROVE x \in KeysIn(t) \cup KeysOf(r)
  <2>1. PICK i \in 1 .. Len(s) : x \in KeysOf(s[i])
    BY <1>3 DEF KeysIn
  <2>2. CASE i = Len(t) + 1
    BY <1>2, <2>1, <2>2
  <2>3. CASE i \in 1 .. Len(t)
    BY <1>2, <2>1, <2>3 DEF KeysIn
  <2> QED
    BY <1>1, <2>2, <2>3
<1>4. ASSUME NEW x \in KeysIn(t) PROVE x \in KeysIn(s)
  <2>1. PICK i \in 1 .. Len(t) : x \in KeysOf(t[i])
    BY <1>4 DEF KeysIn
  <2>2. i \in 1 .. Len(s) /\ s[i] = t[i]
    BY <1>1, <1>2
  <2> QED
    BY <2>1, <2>2 DEF KeysIn
<1>5. KeysOf(r) \subseteq KeysIn(s)
  <2>1. Len(t) + 1 \in 1 .. Len(s)
    BY <1>1
  <2> QED
    BY <1>2, <2>1 DEF KeysIn
<1> QED
  BY <1>3, <1>4, <1>5

\* A prefix of a table.
LEMMA PrefixRows ==
  ASSUME NEW t \in Seq(Rows), NEW n \in 0 .. Len(t)
  PROVE  /\ SubSeq(t, 1, n) \in Seq(Rows)
         /\ Len(SubSeq(t, 1, n)) = n
         /\ \A i \in 1 .. n : SubSeq(t, 1, n)[i] = t[i]
<1>1. \A i \in 1 .. n : t[i] \in Rows
  BY ElementOfSeq
<1> QED
  BY <1>1, SubSeqProperties

\* The keys of a prefix, and of the rows after it.
LEMMA KeysInPrefix ==
  ASSUME NEW t \in Seq(Rows), NEW n \in 0 .. Len(t)
  PROVE  /\ KeysIn(SubSeq(t, 1, n)) = UNION {KeysOf(t[i]) : i \in 1 .. n}
         /\ KeysIn(t) = KeysIn(SubSeq(t, 1, n))
                          \cup UNION {KeysOf(t[i]) : i \in n + 1 .. Len(t)}
<1> DEFINE s == SubSeq(t, 1, n)
<1>1. Len(s) = n /\ \A i \in 1 .. n : s[i] = t[i]
  BY PrefixRows
<1>2. \A i \in 1 .. Len(s) : KeysOf(s[i]) = KeysOf(t[i])
  BY <1>1
<1>3. KeysIn(s) = UNION {KeysOf(t[i]) : i \in 1 .. n}
  <2> HIDE DEF s
  <2> QED
    BY <1>1, <1>2 DEF KeysIn
<1>4. 1 .. Len(t) = (1 .. n) \cup (n + 1 .. Len(t))
  BY LenProperties
<1> QED
  BY <1>3, <1>4 DEF KeysIn

\* An acceptable row with new keys can join an acceptable table.
LEMMA AcceptableAppend ==
  ASSUME NEW t \in Seq(Rows), NEW r \in Rows,
         Acceptable(t), Compares(r), InRange(r),
         KeysOf(r) \cap Existing = {}, KeysOf(r) \cap KeysIn(t) = {}
  PROVE  Acceptable(Append(t, r))
<1> DEFINE s == Append(t, r)
<1>1. Len(s) = Len(t) + 1 /\ Len(t) \in Nat
  BY AppendProperties
<1>2. s[Len(t) + 1] = r /\ \A i \in 1 .. Len(t) : s[i] = t[i]
  BY AppendProperties
<1>3. \A i \in 1 .. Len(t) : KeysOf(t[i]) \cap KeysOf(r) = {}
  BY DEF KeysIn
<1>4. \A i \in 1 .. Len(s) : i \in 1 .. Len(t) \/ i = Len(t) + 1
  BY <1>1
<1> HIDE DEF s
<1>5. ASSUME NEW i \in 1 .. Len(s)
      PROVE  Compares(s[i]) /\ InRange(s[i]) /\ KeysOf(s[i]) \cap Existing = {}
  <2>1. CASE i \in 1 .. Len(t)
    BY <1>2, <2>1 DEF Acceptable
  <2>2. CASE i = Len(t) + 1
    BY <1>2, <2>2
  <2> QED
    BY <1>4, <2>1, <2>2
<1>6. ASSUME NEW i \in 1 .. Len(s), NEW j \in 1 .. Len(s), i # j
      PROVE  KeysOf(s[i]) \cap KeysOf(s[j]) = {}
  <2>1. CASE i \in 1 .. Len(t) /\ j \in 1 .. Len(t)
    BY <1>2, <1>6, <2>1 DEF Acceptable
  <2>2. CASE i = Len(t) + 1 /\ j \in 1 .. Len(t)
    BY <1>2, <1>3, <2>2
  <2>3. CASE j = Len(t) + 1 /\ i \in 1 .. Len(t)
    BY <1>2, <1>3, <2>3
  <2> QED
    BY <1>4, <1>6, <2>1, <2>2, <2>3
<1>7. Acceptable(s)
  BY <1>5, <1>6 DEF Acceptable
<1> QED
  BY <1>7 DEF s

\* So is every prefix of an acceptable table, and its keys are not those of
\* the rows after it.
LEMMA AcceptablePrefix ==
  ASSUME NEW t \in Seq(Rows), NEW n \in 0 .. Len(t), Acceptable(t)
  PROVE  /\ Acceptable(SubSeq(t, 1, n))
         /\ KeysIn(SubSeq(t, 1, n))
              \cap UNION {KeysOf(t[i]) : i \in n + 1 .. Len(t)} = {}
<1> DEFINE s == SubSeq(t, 1, n)
<1>1. Len(s) = n /\ \A i \in 1 .. n : s[i] = t[i]
  BY PrefixRows
<1>2. Len(t) \in Nat
  BY LenProperties
<1>3. \A i \in 1 .. n : i \in 1 .. Len(t)
  BY <1>2
<1>4. KeysIn(s) = UNION {KeysOf(t[i]) : i \in 1 .. n}
  BY KeysInPrefix
<1>5. \A i \in 1 .. n, j \in n + 1 .. Len(t) : i # j /\ j \in 1 .. Len(t)
  BY <1>2
<1> HIDE DEF s
<1>6. Acceptable(s)
  BY <1>1, <1>3 DEF Acceptable
<1>7. \A i \in 1 .. n, j \in n + 1 .. Len(t) : KeysOf(t[i]) \cap KeysOf(t[j]) = {}
  BY <1>3, <1>5 DEF Acceptable
<1>8. KeysIn(s) \cap UNION {KeysOf(t[i]) : i \in n + 1 .. Len(t)} = {}
  <2> SUFFICES ASSUME NEW x \in KeysIn(s), NEW j \in n + 1 .. Len(t), x \in KeysOf(t[j])
               PROVE  FALSE
    OBVIOUS
  <2>1. PICK i \in 1 .. n : x \in KeysOf(t[i])
    BY <1>4
  <2> QED
    BY <1>7, <2>1
<1> QED
  BY <1>6, <1>8 DEF s

-----------------------------------------------------------------------------
(* The steps that give keys back.                                          *)

\* A row that starts again: its reservations, and nothing else, are gone.
LEMMA ReleaseRowPreserves ==
  ASSUME StreamInv, pc \in {"node", "composites", "compare"}, ReleaseRow,
         attempts' \in Nat, queue' \in [Covered -> SUBSET Values]
  PROVE  StreamInv'
<1> USE DEF StreamInv
<1>1. row' = Blank /\ taken' = {} /\ tries' = 0 /\ pos' = 1 /\ pc' = "row"
      /\ retries' = retries + 1 /\ UNCHANGED <<rows, delivered, left, size>>
  BY DEF ReleaseRow, Blanked, accepted, call
<1>2. Held' = {}
  <2>1. Singles \cup {} \in SUBSET Constraints
    BY DEF Constraints
  <2> QED
    BY <1>1, <2>1, BlankHasNoKeys DEF Held
<1>3. seen' = KeysIn(rows)
  BY DEF ReleaseRow, SeenIsExact
<1>4. StreamTypeOK'
  BY <1>1, <1>3, BlankIsARow, ConstraintsAssumption DEF StreamTypeOK, SeenIsExact, Phases
<1>5. SeenIsExact' /\ (KeysIn(rows) \cap Held)' = {} /\ (Held \cap Existing)' = {}
  BY <1>1, <1>2, <1>3 DEF SeenIsExact
<1>6. Progress'
  BY <1>1 DEF Progress, Blank
<1>7. BatchIsOpen'
  BY <1>1 DEF BatchIsOpen
<1>8. Acceptable(rows)' /\ InRange(row)'
  BY <1>1 DEF InRange, Blank
<1> QED
  BY <1>4, <1>5, <1>6, <1>7, <1>8

\* An exception: the reservations of the row and of the batch are gone.
LEMMA AbortPreserves ==
  ASSUME StreamInv, Abort, attempts' = attempts, queue' = queue
  PROVE  StreamInv'
<1> USE DEF StreamInv
<1>1. row' = Blank /\ taken' = {} /\ tries' = 0 /\ pos' = 1 /\ pc' = "idle"
      /\ retries' = retries /\ left' = 0 /\ size' = size /\ delivered' = delivered
      /\ rows' = Delivered
  BY DEF Abort, Blanked
<1>2. rows \in Seq(Rows) /\ delivered \in 0 .. Len(rows)
  BY DEF StreamTypeOK
<1>3. Delivered \in Seq(Rows) /\ Len(Delivered) = delivered /\ Acceptable(Delivered)
  BY <1>2, PrefixRows, AcceptablePrefix DEF Delivered
<1>4. Held' = {}
  <2>1. Singles \cup {} \in SUBSET Constraints
    BY DEF Constraints
  <2> QED
    BY <1>1, <2>1, BlankHasNoKeys DEF Held
<1>5. BatchKeys = UNION {KeysOf(rows[i]) : i \in delivered + 1 .. Len(rows)}
  BY DEF BatchKeys, Batch
<1>6. KeysIn(rows) = KeysIn(Delivered) \cup BatchKeys /\ KeysIn(Delivered) \cap BatchKeys = {}
  BY <1>2, <1>5, KeysInPrefix, AcceptablePrefix DEF Delivered
<1>7. seen' = KeysIn(Delivered)
  BY <1>6 DEF Abort, SeenIsExact
<1>8. StreamTypeOK'
  <2>1. seen' \subseteq Keys
    BY <1>6, <1>7 DEF StreamTypeOK, SeenIsExact
  <2>2. delivered' \in 0 .. Len(rows')
    BY <1>1, <1>2, <1>3
  <2> QED
    BY <1>1, <1>3, <2>1, <2>2, BlankIsARow, ConstraintsAssumption DEF StreamTypeOK, Phases
<1>9. SeenIsExact' /\ (KeysIn(rows) \cap Held)' = {} /\ (Held \cap Existing)' = {}
  BY <1>1, <1>4, <1>7 DEF SeenIsExact
<1>10. Progress'
  BY <1>1 DEF Progress, Blank
<1>11. BatchIsOpen'
  BY <1>1, <1>3 DEF BatchIsOpen
<1>12. Acceptable(rows)' /\ InRange(row)'
  BY <1>1, <1>3 DEF InRange, Blank
<1> QED
  BY <1>8, <1>9, <1>10, <1>11, <1>12
-----------------------------------------------------------------------------
(* The steps that reserve keys.                                            *)

\* The value of a draw is one the column can hold, and the queue keeps its
\* type.
LEMMA DrawIsTyped ==
  ASSUME NEW c \in Columns, NEW v, Draw(c, v), queue \in [Covered -> SUBSET Values]
  PROVE  v \in Values \cup {Null} /\ queue' \in [Covered -> SUBSET Values]
<1>1. v \in Values \cup {Null} /\ Domain[c] \ {Null} \subseteq Values
  BY StreamAssumption DEF Draw
<1>2. CASE UsesQueue(c) /\ v # Null
  <2> DEFINE parents == IF queue[c] = {} THEN Domain[c] \ {Null} ELSE queue[c]
  <2>1. c \in Covered
    BY <1>2 DEF UsesQueue
  <2>2. parents \ {v} \subseteq Values
    BY <1>1, <2>1
  <2>3. queue' = [queue EXCEPT ![c] = parents \ {v}]
    BY <1>2 DEF Draw
  <2> QED
    BY <1>1, <2>1, <2>2, <2>3
<1>3. CASE ~(UsesQueue(c) /\ v # Null)
  BY <1>1, <1>3 DEF Draw
<1> QED
  BY <1>2, <1>3

\* Consuming an attempt keeps the counter of attempts a number.
LEMMA ConsumeIsTyped ==
  ASSUME attempts \in Nat, Consume \/ UNCHANGED attempts
  PROVE  attempts' \in Nat
BY DEF Consume

\* While the row's columns are generated, registering a value adds the key
\* of its UNIQUE column, if there is one, and no other.
LEMMA RegisterHolds ==
  ASSUME NEW c \in Columns, NEW v \in Values \cup {Null},
         row \in Rows, row[c] = Null, taken = {}, taken' = {},
         row' = [row EXCEPT ![c] = v]
  PROVE  Held' = Held \cup (IF c \in Unique /\ v # Null THEN {Single(c, v)} ELSE {})
<1>1. Held = {[i \in {d} |-> row[i]] : d \in {e \in Unique : row[e] # Null}}
  BY DEF Held, KeysOn, Singles, Complete, KeyOf
<1>2. Held' = {[i \in {d} |-> row'[i]] : d \in {e \in Unique : row'[e] # Null}}
  BY DEF Held, KeysOn, Singles, Complete, KeyOf
<1>3. \A d \in Unique \ {c} : row'[d] = row[d]
  BY ConstraintsAssumption DEF Rows
<1>4. row'[c] = v
  BY DEF Rows
<1>5. ASSUME NEW d \in Unique \ {c} PROVE [i \in {d} |-> row'[i]] = [i \in {d} |-> row[i]]
  BY <1>3
<1>6. [i \in {c} |-> row'[i]] = Single(c, v)
  BY <1>4 DEF Single
<1>7. {e \in Unique : row'[e] # Null}
        = {e \in Unique : row[e] # Null} \cup (IF c \in Unique /\ v # Null THEN {c} ELSE {})
  BY <1>3, <1>4
<1> DEFINE key(r, d) == [i \in {d} |-> r[i]]
           old == {e \in Unique : row[e] # Null}
           add == IF c \in Unique /\ v # Null THEN {c} ELSE {}
<1>8. \A d \in old : key(row', d) = key(row, d)
  BY <1>5
<1>9. Held = {key(row, d) : d \in old} /\ Held' = {key(row', d) : d \in old \cup add}
  BY <1>1, <1>2, <1>7
<1>10. key(row', c) = Single(c, v)
  BY <1>6
<1> HIDE DEF key, old
<1> QED
  BY <1>8, <1>9, <1>10

\* Registering a column's value preserves the invariant.
LEMMA RegisterPreserves ==
  ASSUME StreamInv, NEW v, Register(v)
  PROVE  StreamInv'
<1> USE DEF StreamInv
<1>1. pc = "node" /\ pos \in Columns /\ taken = {} /\ row[pos] = Null /\ row \in Rows
  BY DEF Register, AtNode, Progress, StreamTypeOK
<1>2. v \in Values \cup {Null} /\ queue' \in [Covered -> SUBSET Values]
  BY <1>1, DrawIsTyped DEF Register, StreamTypeOK
<1>3. attempts' \in Nat
  BY ConsumeIsTyped DEF Register, AtNode, StreamTypeOK
<1>4. /\ row' = [row EXCEPT ![pos] = v] /\ pos' = pos + 1 /\ tries' = 0
      /\ pc' = IF pos < N THEN "node" ELSE "composites"
      /\ UNCHANGED <<rows, delivered, taken, retries, left, size>>
  BY DEF Register, Advance, accepted, call
<1> DEFINE new == IF pos \in Unique /\ v # Null THEN {Single(pos, v)} ELSE {}
<1>5. Held' = Held \cup new
  BY <1>1, <1>2, <1>4, RegisterHolds
<1>6. seen' = seen \cup new
  BY DEF Register
<1>7. new \cap (seen \cup Existing) = {}
  BY DEF Register, Registrable, Fresh
<1>8. new \subseteq Keys
  <2>1. pos \in Unique /\ v # Null => Single(pos, v) \in [{pos} -> Values] /\ {pos} \in Constraints
    BY <1>2 DEF Single, Constraints, Singles
  <2> QED
    BY <2>1 DEF Keys
<1> HIDE DEF new
<1>9. row' \in Rows
  BY <1>1, <1>2, <1>4 DEF Rows
<1>10. StreamTypeOK'
  <2>1. pos' \in 1 .. N + 1
    BY <1>1, <1>4, ConstraintsAssumption DEF Columns
  <2>2. seen' \subseteq Keys
    BY <1>6, <1>8 DEF StreamTypeOK
  <2> QED
    BY <1>2, <1>3, <1>4, <1>9, <2>1, <2>2 DEF StreamTypeOK, Phases
<1>11. SeenIsExact' /\ (KeysIn(rows) \cap Held)' = {} /\ (Held \cap Existing)' = {}
  BY <1>4, <1>5, <1>6, <1>7 DEF SeenIsExact
<1>12. InRange(row)'
  <2>1. v \in Allowed[pos] \cup {Null}
    BY DEF Register, Registrable, Valid
  <2> QED
    BY <1>1, <1>4, <2>1 DEF InRange, Rows
<1>13. Progress'
  <2>1. \A c \in Columns : c >= pos' => row'[c] = Null
    BY <1>1, <1>4 DEF Progress, Rows, Columns
  <2>2. pc' = "node" => pos' \in Columns
    BY <1>1, <1>4, ConstraintsAssumption DEF Columns
  <2> QED
    BY <1>1, <1>4, <2>1, <2>2 DEF Progress
<1>14. BatchIsOpen'
  BY <1>1, <1>4 DEF BatchIsOpen
<1>15. Acceptable(rows)'
  BY <1>4
<1> QED
  BY <1>10, <1>11, <1>12, <1>13, <1>14, <1>15

\* Registering a composite of a finished row preserves the invariant.
LEMMA RegisterCompositePreserves ==
  ASSUME StreamInv, NEW k \in Composites, RegisterComposite(k)
  PROVE  StreamInv'
<1> USE DEF StreamInv
<1> DEFINE new == IF Complete(k, row) THEN {KeyOf(k, row)} ELSE {}
<1>1. pc = "composites" /\ taken' = taken \cup {k} /\ seen' = seen \cup new
      /\ UNCHANGED <<pc, rows, delivered, row, pos, tries, retries, attempts, left, size, queue>>
  BY DEF RegisterComposite, accepted, counters, call
<1>2. new = KeysOn({k}, row)
  BY DEF KeysOn
<1>3. Held' = Held \cup new
  <2>1. Singles \cup taken' = (Singles \cup taken) \cup {k}
    BY <1>1
  <2>2. KeysOn(Singles \cup taken', row) = KeysOn(Singles \cup taken, row) \cup KeysOn({k}, row)
    BY <2>1, KeysOnUnion
  <2> QED
    BY <1>1, <1>2, <2>2 DEF Held
<1>4. new \cap (seen \cup Existing) = {}
  BY DEF RegisterComposite, Fresh
<1>5. new \subseteq Keys
  BY <1>2, KeysAreTyped DEF Constraints, StreamTypeOK
<1> HIDE DEF new
<1>6. StreamTypeOK'
  BY <1>1, <1>5 DEF StreamTypeOK
<1>7. SeenIsExact' /\ (KeysIn(rows) \cap Held)' = {} /\ (Held \cap Existing)' = {}
  BY <1>1, <1>3, <1>4 DEF SeenIsExact
<1>8. Progress' /\ BatchIsOpen' /\ InRange(row)' /\ Acceptable(rows)'
  BY <1>1 DEF Progress, BatchIsOpen, InRange
<1> QED
  BY <1>6, <1>7, <1>8

-----------------------------------------------------------------------------
(* The steps that move rows on.                                            *)

\* A finalized row's reservations are all its keys; they become the batch's.
LEMMA FinalizePreserves ==
  ASSUME StreamInv, Finalize
  PROVE  StreamInv'
<1> USE DEF StreamInv
<1>1. /\ rows' = Append(rows, row)
      /\ row' = Blank /\ taken' = {} /\ tries' = 0 /\ pos' = 1 /\ retries' = 0
      /\ UNCHANGED <<seen, delivered, attempts, left, size, queue>>
  BY DEF Finalize, Blanked, call
<1>2. /\ rows \in Seq(Rows) /\ row \in Rows /\ delivered \in 0 .. Len(rows)
      /\ left \in Nat /\ size \in Nat
  BY DEF StreamTypeOK
<1>3. /\ rows' \in Seq(Rows)
      /\ Len(rows') = Len(rows) + 1
      /\ Len(rows) \in Nat
  BY <1>1, <1>2, AppendProperties
<1>4. Held = KeysOf(row)
  BY DEF Finalize, Progress, Held, KeysOf, Constraints
<1>5. Held' = {}
  <2>1. Singles \cup {} \in SUBSET Constraints
    BY DEF Constraints
  <2> QED
    BY <1>1, <2>1, BlankHasNoKeys DEF Held
<1>6. KeysIn(rows)' = KeysIn(rows) \cup Held
  BY <1>1, <1>2, <1>4, KeysInAppend
<1>7. Acceptable(rows)'
  BY <1>1, <1>2, <1>4, AcceptableAppend DEF Finalize, Progress
<1>8. StreamTypeOK'
  <2>1. delivered' \in 0 .. Len(rows')
    BY <1>1, <1>2, <1>3
  <2>2. pc' \in Phases
    BY DEF Finalize, Phases
  <2> QED
    BY <1>1, <1>3, <2>1, <2>2, BlankIsARow, ConstraintsAssumption DEF StreamTypeOK
<1>9. SeenIsExact' /\ (KeysIn(rows) \cap Held)' = {} /\ (Held \cap Existing)' = {}
  BY <1>1, <1>5, <1>6 DEF SeenIsExact
<1>10. pc' \in {"row", "deliver"}
  BY DEF Finalize
<1>11. Progress' /\ InRange(row)'
  BY <1>1, <1>10 DEF Progress, InRange, Blank
<1>12. BatchIsOpen'
  <2>1. Len(rows) - delivered < Smaller(size, left)
    BY DEF Finalize, BatchIsOpen
  <2>2. Smaller(size, left) \in Nat
    BY <1>2 DEF Smaller
  <2>3. pc' = "deliver" <=> Len(rows) + 1 - delivered = Smaller(size, left)
    BY DEF Finalize
  <2>4. Smaller(size, left)' = Smaller(size, left)
    BY <1>1
  <2>5. left > 0
    BY <1>2, <1>3, <2>1 DEF Smaller
  <2> QED
    BY <1>1, <1>2, <1>3, <1>10, <2>1, <2>2, <2>3, <2>4, <2>5 DEF BatchIsOpen
<1> QED
  BY <1>7, <1>8, <1>9, <1>11, <1>12

\* Handing over a batch preserves the invariant.
LEMMA DeliverPreserves ==
  ASSUME StreamInv, Deliver
  PROVE  StreamInv'
<1> USE DEF StreamInv
<1>1. /\ delivered' = Len(rows) /\ left' = left - (Len(rows) - delivered) /\ pc' = "yield"
      /\ UNCHANGED <<seen, rows, row, taken, pos, tries, retries, attempts, size, queue>>
  BY DEF Deliver, counters
<1>2. left' \in Nat /\ Len(rows) \in Nat
  BY <1>1 DEF Deliver, BatchIsOpen, StreamTypeOK, Smaller
<1>3. StreamTypeOK'
  BY <1>1, <1>2 DEF StreamTypeOK, Phases
<1>4. SeenIsExact' /\ Held' = Held
  BY <1>1 DEF SeenIsExact, Held
<1>5. Progress' /\ BatchIsOpen'
  BY <1>1 DEF Deliver, Progress, BatchIsOpen
<1>6. Acceptable(rows)' /\ InRange(row)'
  BY <1>1
<1> QED
  BY <1>1, <1>3, <1>4, <1>5, <1>6

\* Steps that touch neither the keys nor the rows.
LEMMA QuietPreserves ==
  ASSUME StreamInv, UNCHANGED <<seen, rows, delivered, row, taken>>,
         StreamTypeOK', Progress', BatchIsOpen'
  PROVE  StreamInv'
<1>1. SeenIsExact' /\ Held' = Held
  BY DEF StreamInv, SeenIsExact, Held
<1> QED
  BY <1>1 DEF StreamInv

-----------------------------------------------------------------------------
(* The stream's invariant.                                                 *)

\* A new stream satisfies the invariant.
LEMMA InitEstablishes == Init => StreamInv
<1> SUFFICES ASSUME Init PROVE StreamInv
  OBVIOUS
<1> USE DEF Init
<1>1. Len(rows) = 0 /\ rows \in Seq(Rows)
  OBVIOUS
<1>2. StreamTypeOK
  BY <1>1, BlankIsARow, ConstraintsAssumption DEF StreamTypeOK, Phases
<1>3. Held = {}
  <2>1. Singles \cup {} \in SUBSET Constraints
    BY DEF Constraints
  <2> QED
    BY <2>1, BlankHasNoKeys DEF Held
<1>4. KeysIn(rows) = {} /\ Acceptable(rows)
  BY <1>1 DEF KeysIn, Acceptable
<1>5. SeenIsExact /\ InRange(row) /\ Progress /\ BatchIsOpen
  BY <1>1, <1>3, <1>4 DEF SeenIsExact, InRange, Blank, Progress, BatchIsOpen
<1> QED
  BY <1>2, <1>3, <1>4, <1>5 DEF StreamInv

\* Every step of the stream preserves the invariant.
LEMMA StepPreserves == StreamInv /\ [Next]_vars => StreamInv'
<1> SUFFICES ASSUME StreamInv, [Next]_vars PROVE StreamInv'
  OBVIOUS
<1>0. StreamTypeOK /\ Progress /\ BatchIsOpen
  BY DEF StreamInv
<1> USE DEF accepted, counters, call
<1>1. ASSUME NEW n \in 0 .. MaxRows, NEW b \in 1 .. MaxRows, Generate(n, b)
      PROVE  StreamInv'
  <2>1. StreamTypeOK'
    BY <1>0, <1>1, StreamAssumption DEF Generate, StreamTypeOK, Phases
  <2>2. Progress'
    BY <1>0, <1>1 DEF Generate, Progress
  <2>3. BatchIsOpen'
    BY <1>0, <1>1, StreamAssumption DEF Generate, BatchIsOpen, Smaller, StreamTypeOK
  <2> QED
    BY <1>1, <2>1, <2>2, <2>3, QuietPreserves DEF Generate
<1>2. CASE BeginRow
  <2>1. attempts' \in Nat
    BY <1>0, <1>2, ConsumeIsTyped DEF BeginRow, StreamTypeOK
  <2>2. StreamTypeOK'
    BY <1>0, <1>2, <2>1 DEF BeginRow, StreamTypeOK, Phases
  <2>3. Progress'
    BY <1>0, <1>2, ConstraintsAssumption DEF BeginRow, Progress, Columns
  <2>4. BatchIsOpen'
    BY <1>0, <1>2 DEF BeginRow, BatchIsOpen
  <2> QED
    BY <1>2, <2>2, <2>3, <2>4, QuietPreserves DEF BeginRow
<1>3. CASE GiveUp \/ Interrupt
  BY <1>3, AbortPreserves DEF GiveUp, Interrupt
<1>4. CASE SkipNode
  <2>1. pos \in Columns /\ pos' = pos + 1
    BY <1>0, <1>4 DEF SkipNode, Advance, Progress
  <2>2. pos' \in 1 .. N + 1 /\ (pos < N => pos' \in Columns)
    BY <2>1, ConstraintsAssumption DEF Columns
  <2>3. StreamTypeOK'
    BY <1>0, <1>4, <2>2 DEF SkipNode, Advance, StreamTypeOK, Phases
  <2>4. \A c \in Columns : c >= pos' => c >= pos
    BY <2>1 DEF Columns
  <2>5. Progress'
    BY <1>0, <1>4, <2>2, <2>4 DEF SkipNode, Advance, Progress
  <2>6. BatchIsOpen'
    BY <1>0, <1>4 DEF SkipNode, Advance, BatchIsOpen
  <2> QED
    BY <1>4, <2>3, <2>5, <2>6, QuietPreserves DEF SkipNode
<1>5. CASE FailNode
  <2>1. pc = "node" /\ attempts' \in Nat
    BY <1>0, <1>5, ConsumeIsTyped DEF FailNode, AtNode, StreamTypeOK
  <2> QED
    BY <1>0, <1>5, <2>1, ReleaseRowPreserves DEF FailNode, StreamTypeOK
<1>6. ASSUME NEW v, Register(v)
      PROVE  StreamInv'
  BY <1>6, RegisterPreserves
<1>7. ASSUME NEW v, Reject(v)
      PROVE  StreamInv'
  <2>1. pc = "node" /\ attempts' \in Nat
    BY <1>0, <1>7, ConsumeIsTyped DEF Reject, AtNode, StreamTypeOK
  <2>2. queue' \in [Covered -> SUBSET Values]
    BY <1>0, <1>7, <2>1, DrawIsTyped DEF Reject, Progress, StreamTypeOK
  <2>3. StreamTypeOK'
    BY <1>0, <1>7, <2>1, <2>2 DEF Reject, StreamTypeOK
  <2>4. Progress' /\ BatchIsOpen'
    BY <1>0, <1>7 DEF Reject, Progress, BatchIsOpen
  <2> QED
    BY <1>7, <2>3, <2>4, QuietPreserves DEF Reject
<1>8. ASSUME NEW v, Backtrack(v)
      PROVE  StreamInv'
  <2>1. pc = "node" /\ attempts' \in Nat
    BY <1>0, <1>8, ConsumeIsTyped DEF Backtrack, AtNode, StreamTypeOK
  <2>2. queue' \in [Covered -> SUBSET Values]
    BY <1>0, <1>8, <2>1, DrawIsTyped DEF Backtrack, Progress, StreamTypeOK
  <2> QED
    BY <1>8, <2>1, <2>2, ReleaseRowPreserves DEF Backtrack, ReleaseDerived
<1>9. ASSUME NEW k \in Composites, RegisterComposite(k)
      PROVE  StreamInv'
  BY <1>9, RegisterCompositePreserves
<1>10. ASSUME NEW k \in Composites, Collide(k)
       PROVE  StreamInv'
  BY <1>0, <1>10, ReleaseRowPreserves DEF Collide, StreamTypeOK
<1>11. CASE CompositesDone
  <2>1. StreamTypeOK' /\ Progress' /\ BatchIsOpen'
    BY <1>0, <1>11 DEF CompositesDone, StreamTypeOK, Phases, Progress, BatchIsOpen
  <2> QED
    BY <1>11, <2>1, QuietPreserves DEF CompositesDone
<1>12. CASE CheckInequalities
  <2>1. CASE ~Compares(row)
    BY <1>0, <1>12, <2>1, ReleaseRowPreserves DEF CheckInequalities, StreamTypeOK
  <2>2. CASE Compares(row)
    <3>1. StreamTypeOK' /\ Progress' /\ BatchIsOpen'
      BY <1>0, <1>12, <2>2 DEF CheckInequalities, StreamTypeOK, Phases, Progress, BatchIsOpen
    <3> QED
      BY <1>12, <2>2, <3>1, QuietPreserves DEF CheckInequalities
  <2> QED
    BY <2>1, <2>2
<1>13. CASE Finalize
  BY <1>13, FinalizePreserves
<1>14. CASE Deliver
  BY <1>14, DeliverPreserves
<1>15. CASE Resume \/ Close
  <2>1. StreamTypeOK'
    BY <1>0, <1>15 DEF Resume, Close, StreamTypeOK, Phases
  <2>2. Progress'
    BY <1>0, <1>15 DEF Resume, Close, Progress
  <2>3. BatchIsOpen'
    BY <1>0, <1>15 DEF Resume, Close, BatchIsOpen, Smaller, StreamTypeOK
  <2> QED
    BY <1>15, <2>1, <2>2, <2>3, QuietPreserves DEF Resume, Close
<1>16. CASE UNCHANGED vars
  BY <1>0, <1>16, QuietPreserves DEF vars, StreamTypeOK, Progress, BatchIsOpen
<1> QED
  BY <1>1, <1>2, <1>3, <1>4, <1>5, <1>6, <1>7, <1>8, <1>9, <1>10, <1>11, <1>12,
     <1>13, <1>14, <1>15, <1>16 DEF Next, GenerateRow

\* The whole invariant: types, exact reservations, acceptable rows.
THEOREM StreamInvariance == Spec => []StreamInv
BY InitEstablishes, StepPreserves, PTL DEF Spec

\* No key leaks and none is lost, through backtracking, collisions and errors.
THEOREM ReservationsAreExact == Spec => []SeenIsExact
<1>1. StreamInv => SeenIsExact
  BY DEF StreamInv
<1> QED
  BY <1>1, StreamInvariance, PTL

\* A failed or abandoned call leaves the keys of the delivered rows, exactly.
THEOREM FailuresLeaveNothing == Spec => []NothingLeftBehind
<1>1. StreamInv => NothingLeftBehind
  <2> SUFFICES ASSUME StreamInv, pc \in {"idle", "yield"} PROVE seen = KeysIn(Delivered)
    BY DEF NothingLeftBehind
  <2>1. Held = {}
    <3>1. Singles \cup {} \in SUBSET Constraints
      BY DEF Constraints
    <3> QED
      BY <3>1, BlankHasNoKeys DEF StreamInv, Progress, Held
  <2>2. rows \in Seq(Rows) /\ delivered = Len(rows)
    BY DEF StreamInv, StreamTypeOK, BatchIsOpen
  <2>3. Delivered = rows
    BY <2>2, SubSeqFull DEF Delivered
  <2> QED
    BY <2>1, <2>3 DEF StreamInv, SeenIsExact
<1> QED
  BY <1>1, StreamInvariance, PTL

-----------------------------------------------------------------------------
(* The stream implements RowStream.                                        *)

\* A row that joins the batch does not change what has been delivered.
LEMMA FinalizeDeliversNothing ==
  ASSUME StreamInv, Finalize
  PROVE  Delivered' = Delivered
<1>1. rows \in Seq(Rows) /\ row \in Rows /\ delivered \in 0 .. Len(rows)
  BY DEF StreamInv, StreamTypeOK
<1>2. rows' = Append(rows, row) /\ delivered' = delivered
  BY DEF Finalize
<1>3. /\ rows' \in Seq(Rows) /\ Len(rows') = Len(rows) + 1
      /\ \A i \in 1 .. Len(rows) : rows'[i] = rows[i]
      /\ Len(rows) \in Nat
  BY <1>1, <1>2, AppendProperties
<1>4. /\ Delivered \in Seq(Rows) /\ Len(Delivered) = delivered
      /\ \A i \in 1 .. delivered : Delivered[i] = rows[i]
  BY <1>1, PrefixRows DEF Delivered
<1>5. delivered \in 0 .. Len(rows')
  BY <1>1, <1>3
<1>6. /\ Delivered' \in Seq(Rows) /\ Len(Delivered') = delivered
      /\ \A i \in 1 .. delivered : Delivered'[i] = rows'[i]
  BY <1>2, <1>3, <1>5, PrefixRows DEF Delivered
<1>7. \A i \in 1 .. delivered : i \in 1 .. Len(rows)
  BY <1>1, <1>3
<1> HIDE DEF Delivered
<1> QED
  BY <1>3, <1>4, <1>6, <1>7, SeqEqual

\* RowStream is instantiated with the stream's own constraints.
LEMMA SameConstraints ==
  ASSUME NEW t
  PROVE  Promise!Rows = Rows /\ (Acceptable(t) => Promise!Acceptable(t))
<1>1. Promise!Rows = Rows
  BY DEF Promise!Rows, Rows, Promise!Columns, Columns
<1>2. \A r : Promise!Compares(r) = Compares(r) /\ Promise!InRange(r) = InRange(r)
  BY DEF Promise!Compares, Compares, Promise!InRange, InRange, Promise!Complete, Complete,
         Promise!Columns, Columns
<1>3. \A r : Promise!KeysOf(r) = KeysOf(r)
  BY DEF Promise!KeysOf, KeysOf, Promise!KeysOn, KeysOn, Promise!KeyOf, KeyOf,
         Promise!Constraints, Constraints, Promise!Singles, Singles,
         Promise!Complete, Complete
<1> QED
  BY <1>1, <1>2, <1>3 DEF Promise!Acceptable, Acceptable

\* Every step of the stream is a step of RowStream, or changes nothing of it.
LEMMA StepImplements ==
  ASSUME StreamInv, StreamInv', [Next]_vars
  PROVE  [Promise!Next]_<<Delivered, left, size>>
<1> USE DEF accepted, counters, call
<1>0. /\ rows \in Seq(Rows) /\ delivered \in 0 .. Len(rows) /\ Len(rows) \in Nat
      /\ left \in Nat /\ left' \in Nat /\ size' \in Nat \ {0}
      /\ BatchIsOpen
  BY DEF StreamInv, StreamTypeOK
<1>1. Delivered \in Seq(Rows) /\ Len(Delivered) = delivered
  BY <1>0, PrefixRows DEF Delivered
<1>2. CASE UNCHANGED <<rows, delivered, left, size>>
  BY <1>2 DEF Delivered
<1>3. ASSUME NEW n \in 0 .. MaxRows, NEW b \in 1 .. MaxRows, Generate(n, b)
      PROVE  Promise!Next
  <2>1. left = 0 /\ UNCHANGED Delivered
    BY <1>0, <1>3 DEF Generate, BatchIsOpen, Delivered
  <2> QED
    BY <1>0, <2>1 DEF Promise!Next, Promise!Call
<1>4. CASE Abort
  <2>1. Delivered' = SubSeq(Delivered, 1, delivered)
    BY <1>4 DEF Abort, Delivered
  <2>2. Delivered' = Delivered
    BY <1>1, <2>1, SubSeqFull
  <2> QED
    BY <1>4, <2>2 DEF Abort, Promise!Next, Promise!End
<1>5. CASE Close
  <2>1. UNCHANGED Delivered
    BY <1>5 DEF Close, Delivered
  <2> QED
    BY <1>5, <2>1 DEF Close, Promise!Next, Promise!End
<1>6. CASE Finalize
  <2>1. UNCHANGED <<Delivered, left, size>>
    BY <1>6, FinalizeDeliversNothing DEF Finalize
  <2> QED
    BY <2>1
<1>7. CASE Deliver
  <2>1. delivered' = Len(rows) /\ rows' = rows /\ size' = size
        /\ left' = left - (Len(rows) - delivered)
    BY <1>7 DEF Deliver
  <2>2. left > 0 /\ Len(rows) - delivered = Smaller(size, left)
    BY <1>7 DEF Deliver, StreamInv, BatchIsOpen
  <2>3. Delivered' = rows
    BY <1>0, <2>1, SubSeqFull DEF Delivered
  <2>4. Len(rows) >= Len(Delivered) /\ SubSeq(rows, 1, Len(Delivered)) = Delivered
    BY <1>0, <1>1 DEF Delivered
  <2>5. Smaller(size, left) = Promise!Smaller(size, left)
    BY DEF Smaller, Promise!Smaller
  <2>6. Len(rows) = Len(Delivered) + Smaller(size, left)
        /\ left' = left - Smaller(size, left)
    BY <1>0, <1>1, <2>1, <2>2
  <2>7. Promise!Acceptable(rows) /\ rows \in Seq(Promise!Rows)
    BY <1>0, SameConstraints DEF StreamInv
  <2>8. Promise!Deliver
    BY <1>0, <2>1, <2>2, <2>3, <2>4, <2>5, <2>6, <2>7 DEF Promise!Deliver, Promise!Extends
  <2> QED
    BY <2>8 DEF Promise!Next
<1>8. CASE Next
  <2>1. CASE GenerateRow
    <3>1. CASE GiveUp
      BY <1>4, <3>1 DEF GiveUp
    <3>2. CASE \/ BeginRow \/ SkipNode \/ FailNode \/ CompositesDone \/ CheckInequalities
               \/ \E v \in Values \cup {Null} : Register(v) \/ Reject(v) \/ Backtrack(v)
               \/ \E k \in Composites : RegisterComposite(k) \/ Collide(k)
      <4>1. UNCHANGED <<rows, delivered, left, size>>
        BY <3>2 DEF BeginRow, SkipNode, FailNode, CompositesDone, CheckInequalities,
                    Register, Reject, Backtrack, ReleaseDerived, RegisterComposite,
                    Collide, ReleaseRow
      <4> QED
        BY <1>2, <4>1
    <3> QED
      BY <1>6, <1>7, <2>1, <3>1, <3>2 DEF GenerateRow
  <2>2. CASE Resume
    <3>1. UNCHANGED <<rows, delivered, left, size>>
      BY <2>2 DEF Resume
    <3> QED
      BY <1>2, <3>1
  <2>3. CASE Interrupt
    BY <1>4, <2>3 DEF Interrupt
  <2> QED
    BY <1>3, <1>5, <1>8, <2>1, <2>2, <2>3 DEF Next
<1>9. CASE UNCHANGED vars
  BY <1>2, <1>9 DEF vars
<1> QED
  BY <1>8, <1>9

\* Whatever the generators produce, whichever candidates are rejected and
\* wherever a call is interrupted, the batches are those RowStream allows.
THEOREM StreamImplementsRowStream == Spec => ImplementsRowStream
<1>1. Init => Promise!Init
  BY EmptySeq, SubSeqEmpty DEF Init, Delivered, Promise!Init
<1> QED
  BY <1>1, StepImplements, StreamInvariance, PTL DEF Spec, ImplementsRowStream, Promise!Spec

=============================================================================
