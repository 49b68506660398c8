------------------------------ MODULE FillProofs ------------------------------
(***************************************************************************)
(* What a fill reports, and which settings it gives back, for any number   *)
(* of rows, batches, connections and fills, and whatever fails.  The pass  *)
(* that links rows of a table keeps the hierarchy sound for tables of any  *)
(* size, whatever primary keys and referenced values are NULL, provided a  *)
(* CHECK that works both ways comes with the list of the kinds it is about.*)
(***************************************************************************)
EXTENDS TableFill, SelfReference, FiniteSetTheorems, SequenceTheorems, TLAPS

(***************************************************************************)
(* The pool.                                                               *)
(***************************************************************************)

LEMMA ConnectionFacts ==
  ASSUME FillAssumption
  PROVE  /\ IsFiniteSet(Connections) /\ Cardinality(Connections) = MaxConnections
         /\ \A s \in SUBSET Connections : IsFiniteSet(s) /\ Cardinality(s) \in Nat
<1>1. 1 \in Int /\ MaxConnections \in Int /\ MaxConnections >= 1
  BY DEF FillAssumption
<1>2. IsFiniteSet(Connections) /\ Cardinality(Connections) = IF 1 > MaxConnections THEN 0 ELSE MaxConnections - 1 + 1
  BY <1>1, FS_Interval DEF Connections
<1>3. \A s \in SUBSET Connections : IsFiniteSet(s) /\ Cardinality(s) \in Nat
  BY <1>2, FS_Subset, FS_CardinalityType
<1>. QED BY <1>1, <1>2, <1>3

\* A connection that can be opened when none is idle.
LEMMA FreshFacts ==
  ASSUME FillAssumption, PoolTypeOK
  PROVE  Fresh \in Connections /\ Fresh \notin cursor
<1>1. cursor # Connections
  BY ConnectionFacts DEF PoolTypeOK, FillAssumption
<1>2. \E c \in Connections : c \notin cursor
  BY <1>1 DEF PoolTypeOK
<1>. QED BY <1>2 DEF Fresh

LEMMA IdleFacts ==
  ASSUME FillAssumption, PoolTypeOK
  PROVE  /\ Idle \in Seq(Connections) /\ Len(Idle) \in Nat \ {0}
         /\ \A i, j \in 1 .. Len(Idle) : Idle[i] = Idle[j] => i = j
         /\ \A i \in 1 .. Len(Idle) : Idle[i] \in Connections /\ Idle[i] \notin cursor
<1>1. CASE pool = <<>>
  <2>1. Idle = <<Fresh>>
    BY <1>1 DEF Idle
  <2>. QED BY <2>1, FreshFacts
<1>2. CASE pool # <<>>
  <2>1. Idle = pool /\ pool \in Seq(Connections)
    BY <1>2 DEF Idle, PoolTypeOK
  <2>. QED BY <1>2, <2>1 DEF PoolTypeOK
<1>. QED BY <1>1, <1>2

LEMMA NthFacts ==
  ASSUME FillAssumption, PoolTypeOK, NEW k \in Nat
  PROVE  Nth(k) \in Connections /\ k % Len(Idle) \in 0 .. Len(Idle) - 1
<1>1. k % Len(Idle) \in 0 .. Len(Idle) - 1
  BY IdleFacts
<1>2. 1 + (k % Len(Idle)) \in 1 .. Len(Idle)
  BY <1>1, IdleFacts
<1>. QED BY <1>1, <1>2, IdleFacts DEF Nth

\* The pool after k statements is as good as before.
LEMMA RotatedFacts ==
  ASSUME FillAssumption, PoolTypeOK, NEW k \in Nat
  PROVE  /\ Rotated(k) \in Seq(Connections) /\ Len(Rotated(k)) = Len(Idle)
         /\ \A i, j \in 1 .. Len(Rotated(k)) : Rotated(k)[i] = Rotated(k)[j] => i = j
         /\ \A i \in 1 .. Len(Rotated(k)) : Rotated(k)[i] \notin cursor
         /\ \A i \in 1 .. Len(Rotated(k)) : \E p \in 1 .. Len(Idle) : Rotated(k)[i] = Idle[p]
<1> DEFINE r == k % Len(Idle)
           l == Len(Idle)
<1>1. r \in 0 .. l - 1 /\ Idle \in Seq(Connections) /\ l \in Nat \ {0}
  BY NthFacts, IdleFacts
<1>2. /\ SubSeq(Idle, r + 1, l) \in Seq(Connections) /\ Len(SubSeq(Idle, r + 1, l)) = l - r
      /\ \A i \in 1 .. l - r : SubSeq(Idle, r + 1, l)[i] = Idle[r + i]
  BY <1>1
<1>3. /\ SubSeq(Idle, 1, r) \in Seq(Connections) /\ Len(SubSeq(Idle, 1, r)) = r
      /\ \A i \in 1 .. r : SubSeq(Idle, 1, r)[i] = Idle[i]
  BY <1>1
<1>4. Rotated(k) = SubSeq(Idle, r + 1, l) \o SubSeq(Idle, 1, r)
  BY DEF Rotated
<1>5. /\ Rotated(k) \in Seq(Connections) /\ Len(Rotated(k)) = l
      /\ \A i \in 1 .. l : Rotated(k)[i] = IF i <= l - r THEN Idle[r + i] ELSE Idle[i - (l - r)]
  <2> DEFINE u == SubSeq(Idle, r + 1, l)
             v == SubSeq(Idle, 1, r)
  <2>1. /\ u \in Seq(Connections) /\ v \in Seq(Connections) /\ Len(u) = l - r /\ Len(v) = r
        /\ \A i \in 1 .. l - r : u[i] = Idle[r + i]
        /\ \A i \in 1 .. r : v[i] = Idle[i]
    BY <1>2, <1>3
  <2>. HIDE DEF u, v
  <2>2. u \o v \in Seq(Connections) /\ Len(u \o v) = l
    BY <1>1, <2>1, ConcatProperties
  <2>3. ASSUME NEW i \in 1 .. l
        PROVE  (u \o v)[i] = IF i <= l - r THEN Idle[r + i] ELSE Idle[i - (l - r)]
    <3>. l \in Nat /\ r \in Nat /\ r < l /\ i \in Nat
      BY <1>1, <2>3
    <3>. HIDE DEF r, l
    <3>1. CASE i <= l - r
      <4>1. (u \o v)[i] = u[i]
        BY <2>1, <2>3, <3>1
      <4>. QED BY <4>1, <2>1, <2>3, <3>1
    <3>2. CASE ~ (i <= l - r)
      <4>1. i - (l - r) \in 1 .. r
        BY <2>3, <3>2
      <4>2. (u \o v)[i] = v[i - (l - r)]
        BY <2>1, <2>3, <3>2, <4>1
      <4>. QED BY <4>1, <4>2, <2>1, <3>2
    <3>. QED BY <3>1, <3>2
  <2>4. Rotated(k) = u \o v
    BY <1>4 DEF u, v
  <2>. QED BY <2>2, <2>3, <2>4
<1>. HIDE DEF r, l
<1>6. ASSUME NEW i \in 1 .. l
      PROVE  \E p \in 1 .. l : Rotated(k)[i] = Idle[p] /\ p = IF i <= l - r THEN r + i ELSE i - (l - r)
  <2>1. (IF i <= l - r THEN r + i ELSE i - (l - r)) \in 1 .. l
    BY <1>1
  <2>2. Rotated(k)[i] = Idle[IF i <= l - r THEN r + i ELSE i - (l - r)]
    BY <1>5
  <2>. QED BY <2>1, <2>2
<1>7. ASSUME NEW i \in 1 .. l, NEW j \in 1 .. l, Rotated(k)[i] = Rotated(k)[j] PROVE i = j
  <2>1. PICK p \in 1 .. l : Rotated(k)[i] = Idle[p] /\ p = IF i <= l - r THEN r + i ELSE i - (l - r)
    BY <1>6
  <2>2. PICK q \in 1 .. l : Rotated(k)[j] = Idle[q] /\ q = IF j <= l - r THEN r + j ELSE j - (l - r)
    BY <1>6
  <2>3. p = q
    BY <1>7, <2>1, <2>2, IdleFacts DEF l
  <2>. QED BY <1>1, <2>1, <2>2, <2>3
<1>8. \A i \in 1 .. l : Rotated(k)[i] \notin cursor
  BY <1>6, IdleFacts DEF l
<1>. QED BY <1>5, <1>6, <1>7, <1>8 DEF l

LEMMA HistoryTyped ==
  ASSUME FillAssumption, PoolTypeOK
  PROVE  /\ {Idle[i] : i \in DOMAIN Idle} \subseteq Connections
         /\ \A failed \in SUBSET Refusable :
              {<<Nth(PragmaProfile[a]), a>> : a \in failed} \subseteq Connections \X Attrs
<1>1. \A i \in DOMAIN Idle : Idle[i] \in Connections
  BY IdleFacts
<1>2. \A a \in Refusable : a \in Attrs /\ PragmaProfile[a] \in Nat
  BY DEF FillAssumption, Attrs, PragmaProfile
<1>3. \A a \in Refusable : Nth(PragmaProfile[a]) \in Connections
  BY <1>2, NthFacts
<1>. QED BY <1>1, <1>2, <1>3

(***************************************************************************)
(* Counting.                                                               *)
(***************************************************************************)

\* (stated for the primed sums of the steps below)
LEMMA SumFacts == \A a, b \in Nat : a + b >= 0
OBVIOUS
LEMMA SumReflexive == \A a, b \in Nat : a + b >= a + b
OBVIOUS

LEMMA InitCounts == ASSUME FillAssumption, FillInit PROVE CountsInv
<1>. USE DEF FillInit
<1>1. settings \in [Connections -> [Attrs -> {"own", "bulk"}]]
  OBVIOUS
<1>2. pool \in Seq(Connections) /\ Len(pool) = 0
  OBVIOUS
<1>3. Cardinality(cursor) < MaxConnections
  BY FS_EmptySet DEF FillAssumption
<1>4. committed \in [rows : Nat, batches : Nat, error : Errors]
  BY DEF FillSession, Errors
<1>5. table \in Nat /\ left \in 0 .. Count
  BY DEF FillAssumption
<1>6. FillTypeOK
  <2>1. connected \in BOOLEAN /\ transaction \in BOOLEAN /\ clear \in BOOLEAN
    OBVIOUS
  <2>2. \A i \in 1 .. Len(pool) : FALSE
    BY <1>2
  <2>3. original # <<>> => original[1] \in [Attrs -> {"own", "bulk"}]
    OBVIOUS
  <2>4. pending \in Int /\ before \in Nat /\ outcome \in {"none", "result", "raised"} /\ cursor \subseteq Connections
    OBVIOUS
  <2>5. unrestored \subseteq Connections \X Attrs /\ mixed \subseteq Connections
    OBVIOUS
  <2>. QED BY <1>1, <1>2, <1>3, <1>4, <1>5, <2>1, <2>2, <2>3, <2>4, <2>5, Zenon DEF FillTypeOK, PoolTypeOK
<1>. QED BY <1>6 DEF CountsInv

\* The pool after another use of the database, and what else of the adapter has a type.
LEMMA UseFacts ==
  ASSUME FillAssumption, PoolTypeOK, Use \/ (\E k \in Nat : pool' = Rotated(k)) \/ pool' = pool, cursor' = cursor
  PROVE  /\ pool' \in Seq(Connections) /\ \A i, j \in 1 .. Len(pool') : pool'[i] = pool'[j] => i = j
         /\ cursor' \subseteq Connections /\ Cardinality(cursor') < MaxConnections
         /\ \A i \in 1 .. Len(pool') : pool'[i] \notin cursor'
<1>1. pool' = pool \/ \E k \in Nat : pool' = Rotated(k)
  BY DEF Use
<1>2. CASE pool' = pool
  BY <1>2 DEF PoolTypeOK
<1>3. ASSUME NEW k \in Nat, pool' = Rotated(k)
      PROVE  /\ pool' \in Seq(Connections) /\ \A i, j \in 1 .. Len(pool') : pool'[i] = pool'[j] => i = j
             /\ \A i \in 1 .. Len(pool') : pool'[i] \notin cursor'
  BY <1>3, RotatedFacts
<1>. QED BY <1>1, <1>2, <1>3 DEF PoolTypeOK

\* What the optimizer does to settings keeps their type.
LEMMA SettingsTyped ==
  ASSUME FillAssumption, PoolTypeOK
  PROVE  /\ preserve \in [Attrs -> {"own", "bulk"}]
         /\ \A statements : optimize(statements) \in [Connections -> [Attrs -> {"own", "bulk"}]]
         /\ original # <<>> => \A failed : restore(failed) \in [Connections -> [Attrs -> {"own", "bulk"}]]
<1>1. \A a \in Attrs : PragmaProfile[a] \in Nat
  BY DEF Attrs, PragmaProfile
<1>2. \A a \in Attrs : Nth(PragmaProfile[a]) \in Connections
  BY <1>1, NthFacts
<1>3. \A c \in Connections : \A a \in Attrs : settings[c][a] \in {"own", "bulk"}
  BY DEF PoolTypeOK
<1>. HIDE DEF Attrs
<1>4. preserve \in [Attrs -> {"own", "bulk"}]
  BY <1>2, <1>3 DEF preserve
<1>5. ASSUME NEW statements PROVE optimize(statements) \in [Connections -> [Attrs -> {"own", "bulk"}]]
  BY <1>3 DEF optimize
<1>6. ASSUME original # <<>>, NEW failed PROVE restore(failed) \in [Connections -> [Attrs -> {"own", "bulk"}]]
  BY <1>3, <1>6 DEF restore, PoolTypeOK
<1>. QED BY <1>4, <1>5, <1>6

\* Steps of the caller and the pool between fills.
LEMMA CallerKeepsCounts ==
  ASSUME FillAssumption, CountsInv, _ensure_connected \/ close \/ execute \/ _release \/ BeginTransaction
  PROVE  CountsInv'
<1>. USE DEF rows, fill
<1>1. FillTypeOK /\ PoolTypeOK /\ phase = "idle" /\ UNCHANGED <<rows, fill>>
  BY DEF CountsInv, FillTypeOK, _ensure_connected, close, execute, _release, BeginTransaction
<1>2. pool \in Seq(Connections)
  BY <1>1 DEF PoolTypeOK
<1>3. /\ pool' \in Seq(Connections) /\ \A i, j \in 1 .. Len(pool') : pool'[i] = pool'[j] => i = j
      /\ cursor' \subseteq Connections /\ Cardinality(cursor') < MaxConnections
      /\ \A i \in 1 .. Len(pool') : pool'[i] \notin cursor'
  <2>1. CASE _ensure_connected
    <3>1. pool' = <<>> /\ cursor' = cursor
      BY <2>1 DEF _ensure_connected
    <3>. QED BY <1>1, <3>1 DEF PoolTypeOK
  <2>2. CASE close
    <3>1. pool' = <<>> /\ cursor' = {}
      BY <2>2 DEF close
    <3>2. Cardinality(cursor') < MaxConnections
      BY <3>1, FS_EmptySet DEF FillAssumption
    <3>. QED BY <3>1, <3>2
  <2>3. CASE execute
    <3>1. /\ cursor' = cursor \cup {Idle[1]} /\ pool' = Tail(Idle)
          /\ Cardinality(cursor) + 1 < MaxConnections
      BY <2>3 DEF execute
    <3>2. /\ Idle \in Seq(Connections) /\ Len(Idle) \in Nat \ {0} /\ Idle # <<>>
          /\ \A i, j \in 1 .. Len(Idle) : Idle[i] = Idle[j] => i = j
          /\ \A i \in 1 .. Len(Idle) : Idle[i] \in Connections /\ Idle[i] \notin cursor
      BY <1>1, IdleFacts
    <3>3. /\ pool' \in Seq(Connections) /\ Len(pool') = Len(Idle) - 1
          /\ \A i \in 1 .. Len(pool') : pool'[i] = Idle[i + 1]
      BY <3>1, <3>2, HeadTailProperties
    <3>4. IsFiniteSet(cursor) /\ Idle[1] \notin cursor /\ cursor' \subseteq Connections /\ Cardinality(cursor) \in Nat
      BY <1>1, <3>1, <3>2, ConnectionFacts DEF PoolTypeOK
    <3>5. Cardinality(cursor') = Cardinality(cursor) + 1
      BY <3>1, <3>4, FS_AddElement
    <3>6. ASSUME NEW i \in 1 .. Len(pool') PROVE pool'[i] \notin cursor'
      <4>1. i + 1 \in 1 .. Len(Idle) /\ 1 \in 1 .. Len(Idle) /\ i + 1 # 1
        BY <3>2, <3>3
      <4>2. Idle[i + 1] # Idle[1]
        BY <3>2, <4>1
      <4>. QED BY <3>1, <3>2, <3>3, <4>1, <4>2
    <3>7. ASSUME NEW i \in 1 .. Len(pool'), NEW j \in 1 .. Len(pool'), pool'[i] = pool'[j] PROVE i = j
      <4>1. i + 1 \in 1 .. Len(Idle) /\ j + 1 \in 1 .. Len(Idle)
        BY <3>2, <3>3
      <4>2. i + 1 = j + 1
        BY <3>2, <3>3, <3>7, <4>1
      <4>. QED BY <4>2
    <3>. QED BY <3>1, <3>3, <3>4, <3>5, <3>6, <3>7 DEF FillAssumption
  <2>4. CASE _release
    <3>1. PICK c \in cursor : cursor' = cursor \ {c} /\ pool' = Append(pool, c)
      BY <2>4 DEF _release
    <3>2. c \in Connections
      BY <1>1, <3>1 DEF PoolTypeOK
    <3>3. /\ pool' \in Seq(Connections) /\ Len(pool') = Len(pool) + 1
          /\ \A i \in 1 .. Len(pool) : pool'[i] = pool[i]
          /\ pool'[Len(pool) + 1] = c /\ Len(pool) \in Nat
      BY <1>2, <3>1, <3>2, AppendProperties
    <3>4. IsFiniteSet(cursor) /\ Cardinality(cursor) \in Nat
      BY <1>1, ConnectionFacts DEF PoolTypeOK
    <3>5. Cardinality(cursor') = Cardinality(cursor) - 1
      BY <3>1, <3>4, FS_RemoveElement
    <3>6. \A i \in 1 .. Len(pool') : i = Len(pool) + 1 \/ (i \in 1 .. Len(pool) /\ pool[i] # c)
      BY <1>1, <3>1, <3>3 DEF PoolTypeOK
    <3>7. \A i \in 1 .. Len(pool') : pool'[i] \notin cursor'
      BY <1>1, <3>1, <3>3, <3>6 DEF PoolTypeOK
    <3>8. \A i, j \in 1 .. Len(pool') : pool'[i] = pool'[j] => i = j
      BY <1>1, <3>3, <3>6 DEF PoolTypeOK
    <3>9. cursor' \subseteq Connections /\ Cardinality(cursor') < MaxConnections
      BY <1>1, <3>1, <3>4, <3>5 DEF PoolTypeOK, FillAssumption
    <3>. QED BY <3>3, <3>7, <3>8, <3>9
  <2>5. CASE BeginTransaction
    BY <1>1, <2>5 DEF BeginTransaction, PoolTypeOK
  <2>. QED BY <2>1, <2>2, <2>3, <2>4, <2>5
<1>4. /\ connected' \in BOOLEAN /\ transaction' \in BOOLEAN
      /\ settings' \in [Connections -> [Attrs -> {"own", "bulk"}]]
      /\ original' # <<>> => original'[1] \in [Attrs -> {"own", "bulk"}]
  <2>1. /\ connected \in BOOLEAN /\ transaction \in BOOLEAN
        /\ settings \in [Connections -> [Attrs -> {"own", "bulk"}]]
        /\ original # <<>> => original[1] \in [Attrs -> {"own", "bulk"}]
    BY <1>1 DEF PoolTypeOK
  <2>2. CASE close
    BY <2>1, <2>2 DEF close
  <2>3. CASE _ensure_connected
    BY <2>1, <2>3 DEF _ensure_connected
  <2>4. CASE execute
    BY <2>1, <2>4 DEF execute
  <2>5. CASE _release
    BY <2>1, <2>5 DEF _release
  <2>6. CASE BeginTransaction
    BY <2>1, <2>6 DEF BeginTransaction
  <2>. QED BY <2>2, <2>3, <2>4, <2>5, <2>6
<1>9. unrestored' \subseteq Connections \X Attrs /\ mixed' \subseteq Connections
  <2>1. UNCHANGED history \/ (unrestored' = {} /\ mixed' = {})
    BY DEF _ensure_connected, close, execute, _release, BeginTransaction
  <2>. QED BY <1>1, <2>1 DEF PoolTypeOK, history
<1>5. FillTypeOK'
  BY <1>1, <1>3, <1>4, <1>9 DEF FillTypeOK, PoolTypeOK
<1>6. transaction' = transaction \/ (~transaction /\ pending = 0)
  BY DEF CountsInv, _ensure_connected, close, execute, _release, BeginTransaction
<1>7. (outcome = "result" => Counted)'
  BY <1>1, <1>6 DEF CountsInv, Counted, FillTypeOK
<1>8. (~transaction => pending = 0)'
  BY <1>1, <1>6 DEF CountsInv
<1>. QED BY <1>1, <1>5, <1>7, <1>8 DEF CountsInv

\* The caller's transaction is kept or rolled back.
LEMMA EndKeepsCounts == ASSUME FillAssumption, CountsInv, EndTransaction PROVE CountsInv'
<1>1. /\ phase = "idle" /\ outcome' = "none" /\ pending' = 0 /\ transaction' = FALSE /\ before' = 0
      /\ committed' = FillSession /\ table' \in {table, table + pending}
      /\ UNCHANGED <<connected, settings, pool, cursor, original, phase, clear, level, left, batch, fills, history>>
  BY DEF EndTransaction
<1>2. FillTypeOK /\ table + pending >= 0 /\ batch \in Nat
  BY DEF CountsInv
<1>3. table' \in Nat
  BY <1>1, <1>2 DEF FillTypeOK
<1>4. committed' \in [rows : Nat, batches : Nat, error : Errors]
  BY <1>1 DEF FillSession, Errors
<1>5. PoolTypeOK'
  BY <1>1, <1>2 DEF FillTypeOK, PoolTypeOK, history
<1>6. FillTypeOK'
  BY <1>1, <1>2, <1>3, <1>4, <1>5 DEF FillTypeOK
<1>7. table' + pending' >= 0
  <2>1. table' \in Nat /\ pending' \in Nat
    BY <1>1, <1>3
  <2>. QED BY <2>1, SumFacts
<1>8. batch' \in Nat /\ phase' = "idle" /\ outcome' # "result" /\ pending' = 0
  BY <1>1, <1>2
<1>. QED BY <1>6, <1>7, <1>8 DEF CountsInv

\* The stages of a fill.
LEMMA StagesKeepCounts ==
  ASSUME FillAssumption, CountsInv,
         \/ fill_table \/ _preflight_generation \/ Generate \/ batch_insert \/ AfterInsert
         \/ AfterGenerate \/ Return \/ _prepare_specs
  PROVE  CountsInv'
<1>. USE DEF adapter, rows, Errors, Fails
<1>0. FillTypeOK /\ PoolTypeOK /\ Count \in Nat \ {0} /\ BatchSize \in Nat \ {0}
  BY DEF CountsInv, FillTypeOK, FillAssumption
<1>1. PoolTypeOK'
  <2>1. /\ Use \/ (\E k \in Nat : pool' = Rotated(k)) \/ pool' = pool
        /\ UNCHANGED <<connected, settings, cursor, original, transaction, history>>
    BY DEF fill_table, _preflight_generation, Generate, batch_insert, AfterInsert, AfterGenerate, Return, _prepare_specs
  <2>2. /\ pool' \in Seq(Connections) /\ \A i, j \in 1 .. Len(pool') : pool'[i] = pool'[j] => i = j
        /\ cursor' \subseteq Connections /\ Cardinality(cursor') < MaxConnections
        /\ \A i \in 1 .. Len(pool') : pool'[i] \notin cursor'
    BY <1>0, <2>1, UseFacts
  <2>. QED BY <1>0, <2>1, <2>2 DEF PoolTypeOK, history
<1>2. /\ table \in Nat /\ pending \in Int /\ before \in Nat /\ left \in 0 .. Count /\ batch \in Nat
      /\ committed \in [rows : Nat, batches : Nat, error : {"none", "operational", "seen"}]
      /\ clear \in BOOLEAN /\ outcome \in {"none", "result", "raised"} /\ transaction \in BOOLEAN
      /\ committed.rows \in Nat /\ table + pending >= 0 /\ (~transaction => pending = 0)
  BY DEF CountsInv, FillTypeOK, PoolTypeOK
<1>3. CASE fill_table
  <2>1. /\ phase' = "preflight" /\ left' = Count /\ batch' = 0 /\ outcome' = "none" /\ clear' \in BOOLEAN
        /\ committed' = FillSession /\ before' = table + pending /\ UNCHANGED <<table, pending, transaction>>
    BY <1>3 DEF fill_table
  <2>2. committed' \in [rows : Nat, batches : Nat, error : Errors] /\ committed'.rows = 0 /\ committed'.error = "none"
    BY <2>1 DEF FillSession
  <2>3. FillTypeOK'
    BY <1>0, <1>1, <1>2, <2>1, <2>2 DEF FillTypeOK
  <2>4. Counted'
    BY <1>2, <2>1, <2>2 DEF Counted
  <2>. QED BY <1>2, <2>1, <2>2, <2>3, <2>4 DEF CountsInv
<1>4. CASE _preflight_generation
  <2>1. /\ phase = "preflight" /\ UNCHANGED <<table, pending, transaction, clear, left, batch, before, outcome>>
        /\ \/ phase' = "optimize" /\ committed' = committed
           \/ \E e \in {"operational", "seen"} : phase' = "return" /\ committed' = [committed EXCEPT !.error = e]
    BY <1>4 DEF _preflight_generation
  <2>2. table + pending = before /\ committed.rows = 0 /\ committed.error = "none" /\ Counted
    BY <2>1 DEF CountsInv
  <2>3. /\ committed' \in [rows : Nat, batches : Nat, error : Errors] /\ committed'.rows = committed.rows
        /\ phase' = "return" \/ committed'.error = "none"
    BY <1>2, <2>1, <2>2
  <2>4. FillTypeOK' /\ Counted'
    BY <1>1, <1>2, <2>1, <2>2, <2>3 DEF FillTypeOK, Counted
  <2>. QED BY <1>2, <2>1, <2>2, <2>3, <2>4 DEF CountsInv
<1>5. CASE Generate
  <2>1. phase = "generate" /\ UNCHANGED <<table, pending, transaction, clear, before, outcome>>
    BY <1>5 DEF Generate
  <2>2. Counted /\ committed.error = "none"
    BY <2>1 DEF CountsInv
  <2>3. CASE left = 0 /\ phase' = "restore" /\ UNCHANGED <<left, batch, committed>>
    <3>1. FillTypeOK' /\ Counted'
      BY <1>1, <1>2, <2>1, <2>2, <2>3 DEF FillTypeOK, Counted
    <3>. QED BY <1>2, <2>1, <2>3, <3>1 DEF CountsInv
  <2>4. CASE /\ left # 0 /\ left' = left - (IF left < BatchSize THEN left ELSE BatchSize)
             /\ batch' \in {left - left', left - left' - 1, left - left' + 1}
             /\ phase' = "insert" /\ committed' = committed
    <3>1. left' \in 0 .. Count /\ left - left' \in Nat \ {0}
      BY <1>0, <1>2, <2>4
    <3>2. batch' \in Nat
      BY <1>2, <2>4, <3>1
    <3>3. FillTypeOK' /\ Counted'
      BY <1>1, <1>2, <2>1, <2>2, <2>4, <3>1 DEF FillTypeOK, Counted
    <3>. QED BY <1>2, <2>1, <2>2, <2>4, <3>2, <3>3 DEF CountsInv
  <2>5. CASE \E e \in {"operational", "seen"} :
               phase' = "restore" /\ committed' = [committed EXCEPT !.error = e] /\ UNCHANGED <<left, batch>>
    <3>1. committed' \in [rows : Nat, batches : Nat, error : Errors] /\ committed'.rows = committed.rows
      BY <1>2, <2>5
    <3>2. FillTypeOK' /\ Counted'
      BY <1>1, <1>2, <2>1, <2>2, <2>5, <3>1 DEF FillTypeOK, Counted
    <3>. QED BY <1>2, <2>1, <2>5, <3>2 DEF CountsInv
  <2>. QED BY <1>5, <2>3, <2>4, <2>5 DEF Generate
<1>6. CASE batch_insert
  <2>1. phase = "insert" /\ UNCHANGED <<transaction, clear, left, batch, before, outcome>>
    BY <1>6 DEF batch_insert
  <2>2. Counted /\ committed.error = "none"
    BY <2>1 DEF CountsInv
  <2>3. CASE /\ IF transaction THEN pending' = pending + batch /\ table' = table
                ELSE table' = table + batch /\ pending' = pending
             /\ committed' = [committed EXCEPT !.rows = @ + batch, !.batches = @ + 1]
             /\ phase' = "inserted"
    <3>1. /\ committed' \in [rows : Nat, batches : Nat, error : Errors]
          /\ committed'.rows = committed.rows + batch /\ committed'.error = "none"
      <4>1. committed.batches \in Nat /\ committed.rows + batch \in Nat
        BY <1>2
      <4>2. committed' = [rows |-> committed.rows + batch, batches |-> committed.batches + 1, error |-> committed.error]
        BY <1>2, <2>3
      <4>. QED BY <2>2, <4>1, <4>2
    <3>2. /\ table' \in Nat /\ pending' \in Int /\ table' + pending' = table + pending + batch
          /\ (~transaction' => pending' = 0) /\ table' + pending' >= 0
      BY <1>2, <2>1, <2>3
    <3>3. FillTypeOK'
      BY <1>1, <1>2, <2>1, <3>1, <3>2 DEF FillTypeOK
    <3>4. Counted'
      <4>1. table + pending + batch = before + (committed.rows + batch)
        BY <1>2, <2>2 DEF Counted
      <4>2. table' + pending' = before' + committed'.rows /\ before' \in Nat /\ committed'.rows \in Nat
        BY <1>2, <2>1, <3>1, <3>2, <4>1
      <4>. QED BY <4>2, SumReflexive DEF Counted
    <3>. QED BY <1>2, <2>1, <2>3, <3>1, <3>2, <3>3, <3>4 DEF CountsInv
  <2>4. CASE /\ \E n \in 0 .. batch : pending' = pending + (IF transaction THEN n ELSE 0)
             /\ committed' = Uncounted(batch) /\ phase' = "restore" /\ table' = table
    <3>1. /\ committed' \in [rows : Nat, batches : Nat, error : Errors]
          /\ committed'.rows = committed.rows /\ committed'.error = "operational"
      BY <1>2, <2>2, <2>4 DEF Uncounted
    <3>2. /\ table' \in Nat /\ pending' \in Int /\ table' + pending' >= table + pending
          /\ (~transaction' => pending' = 0) /\ table' + pending' >= 0
          /\ (~transaction => table' + pending' = table + pending)
      <4>1. PICK n \in 0 .. batch : pending' = pending + (IF transaction THEN n ELSE 0)
        BY <2>4
      <4>2. n \in Nat /\ table' = table /\ transaction' = transaction
        BY <1>2, <2>1, <2>4
      <4>3. CASE transaction
        BY <1>2, <4>1, <4>2, <4>3
      <4>4. CASE ~transaction
        BY <1>2, <4>1, <4>2, <4>4
      <4>. QED BY <4>3, <4>4
    <3>3. FillTypeOK'
      BY <1>1, <1>2, <2>1, <2>2, <3>1, <3>2 DEF FillTypeOK
    <3>4. Counted'
      <4>1. PICK n \in 0 .. batch : pending' = pending + (IF transaction THEN n ELSE 0)
        BY <2>4
      <4>2. table + (pending + (IF transaction THEN n ELSE 0)) >= before + committed.rows
        BY <1>2, <2>2 DEF Counted
      <4>3. ~transaction => table + (pending + (IF transaction THEN n ELSE 0)) = before + committed.rows
        BY <1>2, <2>2 DEF Counted
      <4>4. /\ table' + pending' = table + (pending + (IF transaction THEN n ELSE 0))
            /\ before' + committed'.rows = before + committed.rows /\ transaction' = transaction
            /\ committed'.error # "none"
        BY <2>1, <2>4, <3>1, <4>1
      <4>. QED BY <4>2, <4>3, <4>4, Zenon DEF Counted
    <3>. QED BY <1>2, <2>1, <2>4, <3>1, <3>2, <3>3, <3>4 DEF CountsInv
  <2>. QED BY <1>6, <2>3, <2>4 DEF batch_insert
<1>7. CASE AfterInsert
  <2>1. /\ phase = "inserted" /\ UNCHANGED <<table, pending, transaction, clear, left, batch, before, outcome>>
        /\ \/ phase' = "generate" /\ committed' = committed
           \/ \E e \in {"operational", "seen"} : phase' = "restore" /\ committed' = [committed EXCEPT !.error = e]
    BY <1>7 DEF AfterInsert
  <2>2. Counted /\ committed.error = "none"
    BY <2>1 DEF CountsInv
  <2>3. /\ committed' \in [rows : Nat, batches : Nat, error : Errors] /\ committed'.rows = committed.rows
        /\ phase' = "restore" \/ committed'.error = "none"
    BY <1>2, <2>1, <2>2
  <2>4. FillTypeOK' /\ Counted'
    BY <1>1, <1>2, <2>1, <2>2, <2>3 DEF FillTypeOK, Counted
  <2>. QED BY <1>2, <2>1, <2>2, <2>3, <2>4 DEF CountsInv
<1>8. CASE AfterGenerate
  <2>1. /\ phase = "after" /\ UNCHANGED <<table, pending, transaction, clear, left, batch, before, outcome>>
        /\ phase' = "return"
        /\ \/ committed' = committed
           \/ \E e \in {"operational", "seen"} : committed' = [committed EXCEPT !.error = e]
    BY <1>8 DEF AfterGenerate
  <2>2. Counted /\ committed.error = "none"
    BY <2>1 DEF CountsInv
  <2>3. committed' \in [rows : Nat, batches : Nat, error : Errors] /\ committed'.rows = committed.rows
    BY <1>2, <2>1
  <2>4. FillTypeOK' /\ Counted'
    BY <1>1, <1>2, <2>1, <2>2, <2>3 DEF FillTypeOK, Counted
  <2>. QED BY <1>2, <2>1, <2>4 DEF CountsInv
<1>9. CASE Return
  <2>1. /\ phase = "return" /\ phase' = "idle" /\ outcome' \in {"raised", "result"}
        /\ UNCHANGED <<table, pending, transaction, clear, left, batch, before, committed>>
    BY <1>9 DEF Return
  <2>2. Counted
    BY <2>1 DEF CountsInv
  <2>3. FillTypeOK' /\ Counted'
    BY <1>1, <1>2, <2>1, <2>2 DEF FillTypeOK, Counted
  <2>. QED BY <1>2, <2>1, <2>3 DEF CountsInv
<1>10. CASE _prepare_specs
  <2>1. phase = "resolve" /\ UNCHANGED <<transaction, clear, left, batch, outcome>>
    BY <1>10 DEF _prepare_specs
  <2>2. table + pending = before /\ committed.rows = 0 /\ committed.error = "none"
    BY <2>1 DEF CountsInv
  <2>3. /\ table' \in Nat /\ pending' \in Int /\ before' \in Nat /\ table' + pending' = before'
        /\ (~transaction => pending' = 0)
    <3>1. CASE UNCHANGED <<rows, before>>
      BY <1>2, <2>2, <3>1
    <3>2. CASE /\ before' = 0
               /\ IF transaction THEN pending' = -table /\ UNCHANGED table ELSE table' = 0 /\ UNCHANGED pending
      BY <1>2, <3>2
    <3>. QED BY <1>10, <3>1, <3>2 DEF _prepare_specs, Cleared
  <2>4. /\ committed' \in [rows : Nat, batches : Nat, error : Errors] /\ committed'.rows = 0
        /\ \/ phase' = "generate" /\ committed'.error = "none"
           \/ phase' = "restore"
    <3>1. \/ phase' = "generate" /\ committed' = committed
          \/ \E e \in {"operational", "seen"} : phase' = "restore" /\ committed' = [committed EXCEPT !.error = e]
      BY <1>10 DEF _prepare_specs
    <3>. QED BY <1>2, <2>2, <3>1
  <2>5. FillTypeOK'
    BY <1>1, <1>2, <2>1, <2>3, <2>4 DEF FillTypeOK
  <2>6. Counted'
    <3>1. table' + pending' = before' /\ before' \in Nat /\ committed'.rows = 0
      BY <2>3, <2>4
    <3>. QED BY <3>1 DEF Counted
  <2>7. table' + pending' >= 0
    <3>1. table' + pending' = before' /\ before' \in Nat
      BY <2>3
    <3>2. \A n \in Nat : n >= 0
      OBVIOUS
    <3>. QED BY <3>1, <3>2
  <2>. QED BY <1>2, <2>1, <2>3, <2>4, <2>5, <2>6, <2>7 DEF CountsInv
<1>. QED BY <1>3, <1>4, <1>5, <1>6, <1>7, <1>8, <1>9, <1>10

\* The stages that touch the settings.
LEMMA SettingsKeepCounts ==
  ASSUME FillAssumption, CountsInv, optimize_for_bulk_write \/ restore_settings
  PROVE  CountsInv'
<1>. USE DEF adapter, rows, Errors, Fails
<1>0. FillTypeOK /\ PoolTypeOK
  BY DEF CountsInv, FillTypeOK
<1>1. /\ table \in Nat /\ pending \in Int /\ before \in Nat /\ left \in 0 .. Count /\ batch \in Nat
      /\ committed \in [rows : Nat, batches : Nat, error : {"none", "operational", "seen"}]
      /\ clear \in BOOLEAN /\ outcome \in {"none", "result", "raised"}
      /\ table + pending >= 0 /\ (~transaction => pending = 0)
  BY DEF CountsInv, FillTypeOK
<1>2. /\ settings \in [Connections -> [Attrs -> {"own", "bulk"}]]
      /\ original # <<>> => original[1] \in [Attrs -> {"own", "bulk"}]
      /\ connected \in BOOLEAN /\ transaction \in BOOLEAN
  BY <1>0 DEF PoolTypeOK
<1>3. UNCHANGED <<connected, cursor, transaction, table, pending, clear, left, batch, before, outcome>>
  BY DEF optimize_for_bulk_write, restore_settings
<1>4. CASE optimize_for_bulk_write
  <2> DEFINE statements == CASE level = "light" -> _apply_light [] level = "moderate" -> _apply_moderate
                             [] OTHER -> _apply_aggressive
  <2>0. unrestored' \subseteq Connections \X Attrs /\ mixed' \subseteq Connections
    <3>1. unrestored' = unrestored /\ mixed' \in {mixed, mixed \cup {Idle[i] : i \in DOMAIN Idle}}
      BY <1>4 DEF optimize_for_bulk_write
    <3>. QED BY <1>0, <3>1, HistoryTyped DEF PoolTypeOK
  <2>1. phase = "optimize" /\ Counted /\ committed.error = "none" /\ committed.rows = 0 /\ table + pending = before
    BY <1>4 DEF optimize_for_bulk_write, CountsInv
  <2>2. \/ /\ phase' = "resolve" /\ UNCHANGED <<settings, pool, original, committed>>
        \/ \E n \in 0 .. Len(statements) :
             /\ original' = <<preserve>> /\ settings' = optimize(SubSeq(statements, 1, n)) /\ pool' = Rotated(7 + n)
             /\ \/ phase' = "resolve" /\ UNCHANGED committed
                \/ committed' = [committed EXCEPT !.error = "operational"] /\ phase' = "restore"
    BY <1>4, Zenon DEF optimize_for_bulk_write
  <2>3. Len(statements) \in Nat
    <3>1. Len(_apply_light) \in Nat /\ Len(_apply_moderate) \in Nat /\ Len(_apply_aggressive) \in Nat
      BY DEF _apply_light, _apply_moderate, _apply_aggressive
    <3>2. statements \in {_apply_light, _apply_moderate, _apply_aggressive}
      BY Zenon
    <3>. QED BY <3>1, <3>2
  <2>. HIDE DEF statements
  <2>4. /\ pool' = pool \/ \E k \in Nat : pool' = Rotated(k)
        /\ settings' \in [Connections -> [Attrs -> {"own", "bulk"}]]
        /\ original' # <<>> => original'[1] \in [Attrs -> {"own", "bulk"}]
    <3>1. CASE UNCHANGED <<settings, pool, original, committed>>
      BY <1>2, <3>1
    <3>2. ASSUME NEW n \in 0 .. Len(statements), original' = <<preserve>>,
                 settings' = optimize(SubSeq(statements, 1, n)), pool' = Rotated(7 + n)
          PROVE  <2>4
      <4>1. 7 + n \in Nat
        BY <2>3
      <4>. QED BY <1>0, <3>2, <4>1, SettingsTyped
    <3>. QED BY <2>2, <3>1, <3>2
  <2>5. PoolTypeOK'
    <3>1. /\ pool' \in Seq(Connections) /\ \A i, j \in 1 .. Len(pool') : pool'[i] = pool'[j] => i = j
          /\ cursor' \subseteq Connections /\ Cardinality(cursor') < MaxConnections
          /\ \A i \in 1 .. Len(pool') : pool'[i] \notin cursor'
      BY <1>0, <1>3, <2>4, UseFacts
    <3>. QED BY <1>2, <1>3, <2>0, <2>4, <3>1 DEF PoolTypeOK
  <2>6. /\ committed' \in [rows : Nat, batches : Nat, error : Errors] /\ committed'.rows = 0
        /\ \/ phase' = "resolve" /\ committed'.error = "none"
           \/ phase' = "restore"
    BY <1>1, <2>1, <2>2
  <2>7. FillTypeOK'
    BY <1>1, <1>3, <2>5, <2>6 DEF FillTypeOK
  <2>8. Counted'
    BY <1>1, <1>3, <2>1, <2>6 DEF Counted
  <2>. QED BY <1>1, <1>3, <2>1, <2>6, <2>7, <2>8 DEF CountsInv
<1>5. CASE restore_settings
  <2>1. /\ phase = "restore" /\ committed' = committed
        /\ phase' \in {"after", "return"} /\ (phase' = "after" => committed.error = "none")
        /\ \/ /\ pool' = Rotated(7) /\ original' = <<>> /\ original # <<>>
              /\ \E failed : settings' = restore(failed)
           \/ UNCHANGED <<settings, pool, original>>
    BY <1>5 DEF restore_settings, Restorable
  <2>0. unrestored' \subseteq Connections \X Attrs /\ mixed' \subseteq Connections
    <3>1. /\ mixed' = mixed
          /\ \/ unrestored' = unrestored
             \/ \E failed \in SUBSET Refusable :
                  unrestored' = unrestored \cup {<<Nth(PragmaProfile[a]), a>> : a \in failed}
      BY <1>5 DEF restore_settings
    <3>. QED BY <1>0, <3>1, HistoryTyped DEF PoolTypeOK
  <2>2. /\ pool' = pool \/ \E k \in Nat : pool' = Rotated(k)
        /\ settings' \in [Connections -> [Attrs -> {"own", "bulk"}]]
        /\ original' # <<>> => original'[1] \in [Attrs -> {"own", "bulk"}]
    <3>1. 7 \in Nat
      OBVIOUS
    <3>. QED BY <1>0, <1>2, <2>1, <3>1, SettingsTyped
  <2>3. PoolTypeOK'
    <3>1. /\ pool' \in Seq(Connections) /\ \A i, j \in 1 .. Len(pool') : pool'[i] = pool'[j] => i = j
          /\ cursor' \subseteq Connections /\ Cardinality(cursor') < MaxConnections
          /\ \A i \in 1 .. Len(pool') : pool'[i] \notin cursor'
      BY <1>0, <1>3, <2>2, UseFacts
    <3>. QED BY <1>2, <1>3, <2>0, <2>2, <3>1 DEF PoolTypeOK
  <2>4. Counted
    BY <2>1 DEF CountsInv
  <2>5. FillTypeOK'
    BY <1>1, <1>3, <2>1, <2>3 DEF FillTypeOK
  <2>6. Counted'
    BY <1>3, <2>1, <2>4 DEF Counted
  <2>. QED BY <1>1, <1>3, <2>1, <2>5, <2>6 DEF CountsInv
<1>. QED BY <1>4, <1>5

LEMMA CountsStep == ASSUME FillAssumption, CountsInv, [FillNext]_fillVars PROVE CountsInv'
<1>1. CASE UNCHANGED fillVars
  BY <1>1 DEF fillVars, adapter, rows, fill, history, CountsInv, FillTypeOK, PoolTypeOK, Counted
<1>2. CASE FillNext
  BY <1>2, CallerKeepsCounts, EndKeepsCounts, StagesKeepCounts, SettingsKeepCounts DEF FillNext
<1>. QED BY <1>1, <1>2

\* The counter of a fill agrees with the table at every stage of it.
THEOREM CountsInvariance == ASSUME FillAssumption PROVE FillSpec => []CountsInv
<1>1. FillInit => CountsInv
  BY InitCounts
<1>2. CountsInv /\ [FillNext]_fillVars => CountsInv'
  BY CountsStep
<1>. QED BY <1>1, <1>2, PTL DEF FillSpec

\* Whatever fails, and wherever, for every number of rows and every batch size: what fill_table
\* reports is what it left in the table (FillSession.result, batch_insert).
THEOREM ReportsAreExact == ASSUME FillAssumption PROVE FillSpec => []ReportIsExact
<1>1. CountsInv => ReportIsExact
  BY DEF CountsInv, ReportIsExact
<1>. QED BY <1>1, CountsInvariance, PTL

(***************************************************************************)
(* The settings.                                                           *)
(***************************************************************************)

\* With one idle connection every statement is sent on it.
LEMMA OneFacts ==
  ASSUME FillAssumption, PoolTypeOK, Len(Idle) = 1
  PROVE  /\ Idle[1] \in Connections /\ Idle = <<Idle[1]>>
         /\ \A k \in Nat : Nth(k) = Idle[1] /\ Rotated(k) = <<Idle[1]>>
<1>1. Idle \in Seq(Connections) /\ Idle[1] \in Connections
  BY IdleFacts
<1>2. Idle = <<Idle[1]>>
  BY <1>1
<1>3. ASSUME NEW k \in Nat PROVE Nth(k) = Idle[1] /\ Rotated(k) = <<Idle[1]>>
  <2>1. k % Len(Idle) = 0
    OBVIOUS
  <2>2. Nth(k) = Idle[1]
    BY <2>1 DEF Nth
  <2>3. Rotated(k) = SubSeq(Idle, 1, 1) \o SubSeq(Idle, 1, 0)
    BY <2>1 DEF Rotated
  <2>4. SubSeq(Idle, 1, 1) = Idle /\ SubSeq(Idle, 1, 0) = <<>>
    BY <1>1
  <2>5. Idle \o <<>> = Idle
    BY <1>1
  <2>. QED BY <1>2, <2>2, <2>3, <2>4, <2>5
<1>. QED BY <1>1, <1>2, <1>3

\* While there is something to restore, the fill uses the connections of the pool.
LEMMA PooledFacts ==
  ASSUME FillAssumption, PoolTypeOK, pool # <<>>
  PROVE  /\ Idle = pool /\ Len(pool) \in Nat \ {0}
         /\ \A c : pool = <<c>> => Len(Idle) = 1 /\ Idle[1] = c
         /\ \A k \in Nat : \E i \in 1 .. Len(pool) : Nth(k) = pool[i]
<1>1. Idle = pool
  BY DEF Idle
<1>2. Len(pool) \in Nat \ {0}
  BY <1>1, IdleFacts
<1>3. ASSUME NEW k \in Nat PROVE \E i \in 1 .. Len(pool) : Nth(k) = pool[i]
  <2>1. k % Len(pool) \in 0 .. Len(pool) - 1
    BY <1>1, NthFacts
  <2>2. 1 + (k % Len(pool)) \in 1 .. Len(pool)
    BY <1>2, <2>1
  <2>. QED BY <1>1, <2>2 DEF Nth
<1>. QED BY <1>1, <1>2, <1>3

LEMMA InitSettings == FillInit => SettingsInv
BY DEF FillInit, SettingsInv

\* Steps that leave the optimizer and the settings alone.
LEMMA UseKeepsSettings ==
  ASSUME FillAssumption, PoolTypeOK, SettingsInv, UNCHANGED <<settings, original, transaction, history>>,
         \/ original = <<>>
         \/ /\ phase' \in {"resolve", "generate", "insert", "inserted", "restore"}
            /\ pool' = pool \/ Use
  PROVE  SettingsInv'
<1>0. UNCHANGED <<settings, original, transaction, unrestored, mixed>>
  BY DEF history
<1>1. \A c, a : Excused(c, a)' <=> Excused(c, a)
  BY <1>0 DEF Excused
<1>2. CASE original = <<>>
  <2>1. \A c \in Connections : \A a \in Attrs : settings[c][a] = "own" \/ Excused(c, a)
    BY <1>2 DEF SettingsInv
  <2>. QED BY <1>0, <1>1, <1>2, <2>1 DEF SettingsInv
<1>3. CASE original # <<>> /\ pool' = pool
  BY <1>0, <1>1, <1>3 DEF SettingsInv
<1>4. CASE original # <<>> /\ pool' # pool
  <2>1. pool # <<>> /\ pool' = Rotated(1)
    BY <1>4 DEF SettingsInv, Use
  <2>2. \A c : pool # <<c>>
    BY <1>4, <2>1, PooledFacts, OneFacts
  <2>3. /\ Len(pool') = Len(pool) /\ Len(pool) \in Nat \ {0}
        /\ \A i \in 1 .. Len(pool') : \E j \in 1 .. Len(pool) : pool'[i] = pool[j]
    <3>1. 1 \in Nat
      OBVIOUS
    <3>2. /\ Len(Rotated(1)) = Len(Idle)
          /\ \A i \in 1 .. Len(Rotated(1)) : \E j \in 1 .. Len(Idle) : Rotated(1)[i] = Idle[j]
      BY <3>1, RotatedFacts
    <3>3. Idle = pool /\ Len(pool) \in Nat \ {0}
      BY <2>1, PooledFacts
    <3>. QED BY <2>1, <3>2, <3>3
  <2>4. pool' # <<>>
    BY <2>3
  <2>5. \A i \in 1 .. Len(pool') : pool'[i] \in mixed'
    BY <1>0, <1>4, <2>2, <2>3 DEF SettingsInv
  <2>6. \A c \in Connections : \A a \in Attrs : settings[c][a] = "own" \/ Excused(c, a)
    BY <2>2 DEF SettingsInv
  <2>7. ~transaction /\ phase' \in {"resolve", "generate", "insert", "inserted", "restore"}
    BY <1>4 DEF SettingsInv
  <2>. QED BY <1>0, <1>1, <2>4, <2>5, <2>6, <2>7 DEF SettingsInv
<1>. QED BY <1>2, <1>3, <1>4

\* The statements of a level, all of them or up to one that fails.
LEMMA OptimizeKeepsSettings ==
  ASSUME FillAssumption, PoolTypeOK, SettingsInv, optimize_for_bulk_write
  PROVE  SettingsInv'
<1> DEFINE statements == CASE level = "light" -> _apply_light [] level = "moderate" -> _apply_moderate
                           [] OTHER -> _apply_aggressive
<1>1. /\ phase = "optimize" /\ UNCHANGED <<transaction, unrestored>>
      /\ \/ transaction /\ UNCHANGED <<settings, pool, original, mixed>>
         \/ \E n \in 0 .. Len(statements) :
              /\ ~transaction /\ original' = <<preserve>>
              /\ mixed' = IF Len(Idle) = 1 THEN mixed ELSE mixed \cup {Idle[i] : i \in DOMAIN Idle}
              /\ settings' = optimize(SubSeq(statements, 1, n)) /\ pool' = Rotated(7 + n)
              /\ phase' \in {"resolve", "restore"}
  BY Zenon DEF optimize_for_bulk_write, Fails
<1>2. Len(statements) \in Nat
  <2>1. Len(_apply_light) \in Nat /\ Len(_apply_moderate) \in Nat /\ Len(_apply_aggressive) \in Nat
    BY DEF _apply_light, _apply_moderate, _apply_aggressive
  <2>2. statements \in {_apply_light, _apply_moderate, _apply_aggressive}
    BY Zenon
  <2>. QED BY <2>1, <2>2
<1>. HIDE DEF statements
<1>3. original = <<>> /\ \A c \in Connections : \A a \in Attrs : settings[c][a] = "own" \/ Excused(c, a)
  BY <1>1 DEF SettingsInv
<1>4. CASE UNCHANGED <<settings, pool, original, mixed>>
  BY <1>1, <1>3, <1>4 DEF SettingsInv, Excused
<1>5. ASSUME NEW n \in 0 .. Len(statements), ~transaction, original' = <<preserve>>,
             mixed' = IF Len(Idle) = 1 THEN mixed ELSE mixed \cup {Idle[i] : i \in DOMAIN Idle},
             settings' = optimize(SubSeq(statements, 1, n)), pool' = Rotated(7 + n),
             phase' \in {"resolve", "restore"}
      PROVE  SettingsInv'
  <2> DEFINE s == SubSeq(statements, 1, n)
  <2>1. 7 + n \in Nat /\ \A k \in DOMAIN s : 6 + k \in Nat
    BY <1>2
  <2>. HIDE DEF s
  <2>2. \A c, a : Excused(c, a) => Excused(c, a)'
    BY <1>1, <1>5 DEF Excused
  <2>3. ASSUME NEW c \in Connections, NEW a \in Attrs, \A k \in Nat : Nth(k) # c
        PROVE  settings'[c][a] = "own" \/ Excused(c, a)'
    <3>1. optimize(s)[c][a] = settings[c][a]
      BY <2>1, <2>3 DEF optimize
    <3>2. settings' = optimize(s)
      BY <1>5 DEF s
    <3>. QED BY <1>3, <2>2, <3>1, <3>2
  <2>4. pool' # <<>>
    <3>1. Len(pool') \in Nat \ {0}
      BY <1>5, <2>1, RotatedFacts, IdleFacts
    <3>. QED BY <3>1
  <2>5. CASE Len(Idle) = 1
    <3>1. PICK o \in Connections : pool' = <<o>> /\ \A k \in Nat : Nth(k) = o
      BY <1>5, <2>1, <2>5, OneFacts
    <3>2. \A a \in Attrs : PragmaProfile[a] \in Nat
      BY DEF Attrs, PragmaProfile
    <3>3. ASSUME NEW a \in Attrs PROVE original'[1][a] = "own" \/ Excused(o, a)'
      <4>1. preserve[a] = settings[o][a]
        BY <3>1, <3>2 DEF preserve
      <4>2. original'[1][a] = preserve[a]
        BY <1>5
      <4>3. settings[o][a] = "own" \/ Excused(o, a)'
        BY <1>3, <2>2, <3>1
      <4>. QED BY <4>1, <4>2, <4>3, Zenon
    <3>4. ASSUME NEW c \in Connections, NEW a \in Attrs
          PROVE  settings'[c][a] = "own" \/ Excused(c, a)' \/ (original' # <<>> /\ pool' = <<c>>)
      BY <1>5, <2>3, <3>1
    <3>5. \E c \in Connections : pool' = <<c>> /\ \A a \in Attrs : original'[1][a] = "own" \/ Excused(c, a)'
      BY <3>1, <3>3
    <3>6. ~transaction' /\ phase' \in {"resolve", "generate", "insert", "inserted", "restore"}
      BY <1>1, <1>5
    <3>. QED BY <2>4, <3>4, <3>5, <3>6, Zenon DEF SettingsInv
  <2>6. CASE Len(Idle) # 1
    <3>1. \A i \in 1 .. Len(Idle) : Idle[i] \in mixed'
      <4>1. DOMAIN Idle = 1 .. Len(Idle)
        BY IdleFacts
      <4>. QED BY <1>5, <2>6, <4>1
    <3>2. \A i \in 1 .. Len(pool') : pool'[i] \in mixed'
      <4>1. \A i \in 1 .. Len(Rotated(7 + n)) : \E j \in 1 .. Len(Idle) : Rotated(7 + n)[i] = Idle[j]
        BY <2>1, RotatedFacts
      <4>. QED BY <1>5, <3>1, <4>1
    <3>3. \A k \in Nat : Nth(k) \in mixed'
      <4>1. ASSUME NEW k \in Nat PROVE 1 + (k % Len(Idle)) \in 1 .. Len(Idle)
        <5>1. k % Len(Idle) \in 0 .. Len(Idle) - 1
          BY NthFacts
        <5>2. Len(Idle) \in Nat \ {0}
          BY IdleFacts
        <5>. QED BY <5>1, <5>2
      <4>2. ASSUME NEW k \in Nat PROVE Nth(k) \in mixed'
        BY <3>1, <4>1, <4>2 DEF Nth
      <4>. QED BY <4>2
    <3>4. ASSUME NEW c \in Connections, NEW a \in Attrs PROVE settings'[c][a] = "own" \/ Excused(c, a)'
      <4>1. CASE c \in mixed'
        BY <4>1 DEF Excused
      <4>2. CASE c \notin mixed'
        BY <2>3, <3>3, <4>2
      <4>. QED BY <4>1, <4>2
    <3>. QED BY <1>1, <1>5, <2>4, <3>2, <3>4 DEF SettingsInv
  <2>. QED BY <2>5, <2>6
<1>. QED BY <1>1, <1>4, <1>5

\* Each setting is changed back or refused, on the connection its statement meets.
LEMMA RestoreKeepsSettings ==
  ASSUME FillAssumption, PoolTypeOK, SettingsInv, restore_settings
  PROVE  SettingsInv'
<1>1. /\ UNCHANGED <<transaction, mixed>>
      /\ IF ~transaction /\ original # <<>>
         THEN \E failed \in SUBSET Refusable :
                /\ settings' = restore(failed) /\ original' = <<>>
                /\ unrestored' = unrestored \cup {<<Nth(PragmaProfile[a]), a>> : a \in failed}
         ELSE UNCHANGED <<settings, pool, original, unrestored>>
  BY DEF restore_settings, Restorable
<1>2. CASE original = <<>>
  <2>1. \A c \in Connections : \A a \in Attrs : settings[c][a] = "own" \/ Excused(c, a)
    BY <1>2 DEF SettingsInv
  <2>. QED BY <1>1, <1>2, <2>1 DEF SettingsInv, Excused
<1>3. CASE original # <<>>
  <2>1. ~transaction /\ pool # <<>>
    BY <1>3 DEF SettingsInv
  <2>2. PICK failed \in SUBSET Refusable :
          /\ settings' = restore(failed) /\ original' = <<>>
          /\ unrestored' = unrestored \cup {<<Nth(PragmaProfile[a]), a>> : a \in failed}
    BY <1>1, <1>3, <2>1
  <2>3. \A c, a : Excused(c, a) => Excused(c, a)'
    BY <1>1, <2>2 DEF Excused
  <2>4. \A a \in Attrs : PragmaProfile[a] \in Nat
    BY DEF Attrs, PragmaProfile
  <2>5. ASSUME NEW c \in Connections, NEW a \in Attrs PROVE settings'[c][a] = "own" \/ Excused(c, a)'
    <3>1. settings'[c][a] = IF Nth(PragmaProfile[a]) = c /\ a \notin failed THEN original[1][a] ELSE settings[c][a]
      BY <2>2 DEF restore
    <3>2. CASE c \in mixed
      BY <1>1, <3>2 DEF Excused
    <3>3. CASE c \notin mixed /\ pool = <<c>>
      <4>1. Nth(PragmaProfile[a]) = c
        BY <2>1, <2>4, <3>3, PooledFacts, OneFacts
      <4>2. CASE a \in failed
        BY <2>2, <4>1, <4>2 DEF Excused
      <4>3. CASE a \notin failed
        <5>1. pool[1] = c /\ 1 \in 1 .. Len(pool)
          BY <3>3
        <5>2. original[1][a] = "own" \/ Excused(c, a)
          BY <1>3, <3>3, <5>1 DEF SettingsInv
        <5>. QED BY <2>3, <3>1, <4>1, <4>3, <5>2
      <4>. QED BY <4>2, <4>3
    <3>4. CASE c \notin mixed /\ pool # <<c>>
      <4>1. settings[c][a] = "own" \/ Excused(c, a)
        BY <3>4 DEF SettingsInv
      <4>2. Nth(PragmaProfile[a]) # c
        <5>1. PICK i \in 1 .. Len(pool) : Nth(PragmaProfile[a]) = pool[i]
          BY <2>1, <2>4, PooledFacts
        <5>2. CASE \E e \in Connections : pool = <<e>>
          BY <3>4, <5>1, <5>2
        <5>3. CASE \A j \in 1 .. Len(pool) : pool[j] \in mixed
          BY <3>4, <5>1, <5>3
        <5>. QED BY <1>3, <5>2, <5>3 DEF SettingsInv
      <4>. QED BY <2>3, <3>1, <4>1, <4>2
    <3>. QED BY <3>2, <3>3, <3>4
  <2>. QED BY <2>2, <2>5 DEF SettingsInv
<1>. QED BY <1>2, <1>3

LEMMA SettingsStep ==
  ASSUME FillAssumption, CountsInv, SettingsInv, [FillNext]_fillVars
  PROVE  SettingsInv'
<1>. USE DEF adapter, Fails
<1>0. PoolTypeOK
  BY DEF CountsInv, FillTypeOK
<1>1. ASSUME phase \notin {"resolve", "generate", "insert", "inserted", "restore"} PROVE original = <<>>
  BY <1>1 DEF SettingsInv
<1>2. ASSUME original = <<>>, UNCHANGED <<settings, original, history>> PROVE SettingsInv'
  BY <1>2 DEF SettingsInv, Excused, history
<1>3. CASE UNCHANGED fillVars
  <2>1. UNCHANGED <<settings, original, transaction, pool, phase, unrestored, mixed>>
    BY <1>3 DEF fillVars, fill, history
  <2>. QED BY <2>1, Zenon DEF SettingsInv, Excused
<1>4. CASE close
  BY <1>4 DEF close, SettingsInv
<1>5. CASE \/ _ensure_connected \/ execute \/ _release \/ BeginTransaction \/ EndTransaction
           \/ fill_table \/ _preflight_generation \/ AfterGenerate \/ Return
  <2>1. UNCHANGED <<settings, original, history>>
        /\ phase \notin {"resolve", "generate", "insert", "inserted", "restore"}
    BY <1>5 DEF _ensure_connected, execute, _release, BeginTransaction, EndTransaction, fill_table,
         _preflight_generation, AfterGenerate, Return
  <2>. QED BY <1>1, <1>2, <2>1
<1>6. CASE _prepare_specs \/ Generate \/ batch_insert \/ AfterInsert
  <2>1. /\ UNCHANGED <<settings, original, transaction, history>> /\ (pool' = pool \/ Use)
        /\ phase' \in {"resolve", "generate", "insert", "inserted", "restore"}
    BY <1>6 DEF _prepare_specs, Generate, batch_insert, AfterInsert
  <2>. QED BY <1>0, <2>1, UseKeepsSettings
<1>. QED BY <1>0, <1>3, <1>4, <1>5, <1>6, OptimizeKeepsSettings, RestoreKeepsSettings DEF FillNext

\* For every pool, level and sequence of fills, and whatever fails: when a fill is over, a setting
\* that is not the connection's own is one that SQLite refused to change back, or of a connection
\* that a fill used along with another (PragmaOptimizer.preserve, optimize and restore).
THEOREM SettingsAreGivenBack == ASSUME FillAssumption PROVE FillSpec => []SettingsReturn
<1>1. FillInit => SettingsInv
  BY InitSettings
<1>2. CountsInv /\ SettingsInv /\ [FillNext]_fillVars => SettingsInv'
  BY SettingsStep
<1>3. SettingsInv => SettingsReturn
  BY DEF SettingsInv, SettingsReturn
<1>. QED BY <1>1, <1>2, <1>3, CountsInvariance, PTL DEF FillSpec

(***************************************************************************)
(* Linking the rows of a table.                                            *)
(***************************************************************************)

\* What rows, keys and CHECKs may be.
RowType == [parent : 0 .. N, kind : Kinds, code : {Null, 1, 2}]
SelfShapes ==
  /\ unique \subseteq {{"parent"}, {"parent", "kind"}, {"kind", "code"}}
  /\ check \in {"none", "one", "both"} /\ listed \in BOOLEAN /\ (check = "both" => listed)
  /\ \A i \in Rows : pk[i] \in {i, Null} /\ ref[i] \in {i, Null}
  /\ linked \in [Rows -> RowType] /\ updated \in Nat
SelfInv == SelfShapes /\ HierarchyIsSound

\* A row's identity is the row, or nothing (_identity).
LEMMA IdentityIsTheRow ==
  ASSUME SelfReferenceAssumption, SelfShapes, NEW i \in Rows, _identity(i) # {}
  PROVE  _identity(i) = {i}
<1>1. i \in Nat \ {0} /\ Rows \subseteq Nat \ {0}
  BY DEF Rows, SelfReferenceAssumption
<1>2. CASE pk[i] # Null
  <2>1. _identity(i) = {j \in Rows : pk[j] = pk[i]}
    BY <1>2 DEF _identity
  <2>2. \A j \in Rows : pk[j] \in {j, Null}
    BY DEF SelfShapes
  <2>3. \A j \in Rows : pk[j] = pk[i] <=> j = i
    BY <1>1, <1>2, <2>2 DEF Null
  <2>. QED BY <2>1, <2>3
<1>3. CASE pk[i] = Null /\ ref[i] # Null
  <2>1. _identity(i) = {j \in Rows : pk[j] = Null /\ ref[j] = ref[i]}
    BY <1>3 DEF _identity
  <2>2. \A j \in Rows : ref[j] \in {j, Null}
    BY DEF SelfShapes
  <2>3. \A j \in Rows : ref[j] = ref[i] <=> j = i
    BY <1>1, <1>3, <2>2 DEF Null
  <2>. QED BY <1>3, <2>1, <2>3
<1>4. CASE pk[i] = Null /\ ref[i] = Null
  BY <1>4 DEF _identity
<1>. QED BY <1>2, <1>3, <1>4

\* What a row may become: linked to an earlier row, of a kind the CHECK wants, without a conflict
\* (_choose_changes).
LEMMA ChosenRow ==
  ASSUME SelfReferenceAssumption, SelfShapes, NEW i \in Rows,
         NEW new \in _choose_changes(i, linked[i]), new # linked[i]
  PROVE  /\ new \in RowType /\ new.parent \in parents(i) /\ new.parent # Null
         /\ new.code = linked[i].code /\ (_condition_values = {} => new.kind = linked[i].kind)
         /\ ~_conflicts(linked[i], new) /\ Checked(new)
<1>1. PICK p \in parents(i) : new \in Fitting(linked[i], p)
  <2> DEFINE fits == {p \in parents(i) : Fitting(linked[i], p) # {}}
  <2>1. \A x \in _choose_changes(i, linked[i]) : x = linked[i] \/ \E p \in fits : x \in Fitting(linked[i], p)
    BY DEF _choose_changes
  <2> HIDE DEF fits
  <2>2. PICK p \in fits : new \in Fitting(linked[i], p)
    BY <2>1
  <2>3. p \in parents(i)
    BY <2>2 DEF fits
  <2>. QED BY <2>2, <2>3
<1>2. PICK k \in IF _condition_values = {} THEN {linked[i].kind} ELSE _condition_values :
        new = [linked[i] EXCEPT !.parent = p, !.kind = k]
  BY <1>1 DEF Fitting
<1>3. p \in 1 .. N
  <2>1. PICK j \in 1 .. i - 1 : p = ref[j] /\ p # Null
    BY <1>1 DEF parents
  <2>2. j \in Rows
    BY <2>1 DEF Rows, SelfReferenceAssumption
  <2>. QED BY <2>1, <2>2 DEF SelfShapes, Rows, Null, SelfReferenceAssumption
<1>4. linked[i] \in RowType
  BY DEF SelfShapes
<1>5. _condition_values \subseteq Kinds
  BY DEF _condition_values, SelfShapes, RowType, Kinds
<1>6. k \in Kinds /\ (check = "both" => k # 1)
  <2>1. k \in Kinds
    BY <1>2, <1>4, <1>5 DEF RowType
  <2>2. ASSUME check = "both" PROVE k # 1
    <3>1. _condition_values = Kinds \ {1} /\ 2 \in Kinds \ {1}
      BY <2>2 DEF _condition_values, SelfShapes, Kinds
    <3>. QED BY <1>2, <3>1
  <2>. QED BY <2>1, <2>2
<1>7. /\ new.parent = p /\ new.kind = k /\ new.code = linked[i].code /\ new \in RowType
  <2>1. p \in 0 .. N
    BY <1>3 DEF SelfReferenceAssumption
  <2>. QED BY <1>2, <1>4, <1>6, <2>1 DEF RowType
<1>8. Checked(new) /\ p # Null
  BY <1>3, <1>6, <1>7 DEF Checked, Null, SelfReferenceAssumption
<1>9. ~_conflicts(linked[i], new)
  BY <1>1 DEF Fitting
<1>. QED BY <1>1, <1>2, <1>7, <1>8, <1>9

\* The first link of a row keeps the hierarchy sound (apply).
LEMMA LinkKeeps ==
  ASSUME SelfReferenceAssumption, SelfInv, NEW i \in Rows, UNCHANGED given, UNCHANGED refused,
         linked[i].parent = Null,
         NEW new \in _choose_changes(i, linked[i]), new # linked[i],
         linked' = [linked EXCEPT ![i] = new], updated' = updated + 1
  PROVE  SelfInv'
<1>1. /\ new \in RowType /\ new.parent \in parents(i) /\ new.parent # Null
      /\ ~_conflicts(linked[i], new) /\ Checked(new)
  BY ChosenRow DEF SelfInv
<1>2. /\ linked' \in [Rows -> RowType] /\ linked'[i] = new
      /\ \A j \in Rows \ {i} : linked'[j] = linked[j]
  BY <1>1 DEF SelfInv, SelfShapes
<1>3. SelfShapes'
  BY <1>2 DEF SelfInv, SelfShapes, given
<1>4. \A j \in Rows : linked'[j].parent # Null => linked'[j].parent \in {ref[k] : k \in 1 .. j - 1}
  BY <1>1, <1>2 DEF SelfInv, HierarchyIsSound, parents
<1>5. \A j \in Rows : Checked(linked[j])'
  <2>1. \A row : Checked(row)' <=> Checked(row)
    BY DEF Checked, given
  <2>2. \A j \in Rows : Checked(linked'[j])
    BY <1>1, <1>2 DEF SelfInv, HierarchyIsSound
  <2>. QED BY <2>2 DEF Checked, given
<1>6. ASSUME NEW k \in unique, NEW a \in Rows, NEW b \in Rows, a # b, Complete(Values(k, linked'[a]))
      PROVE  Values(k, linked'[a]) # Values(k, linked'[b])
  <2> DEFINE earlier == Values(k, linked[i])
             after == Values(k, new)
  <2>1. \A c, e \in Rows : c # e /\ Complete(Values(k, linked[c])) => Values(k, linked[c]) # Values(k, linked[e])
    BY DEF SelfInv, HierarchyIsSound
  <2>2. k \cap {"parent", "kind"} # {}
    BY DEF SelfInv, SelfShapes
  <2>3. Complete(after) /\ after # earlier => \A j \in Rows : Values(k, linked[j]) # after
    BY <1>1, <2>2 DEF _conflicts, Taken
  <2> HIDE DEF earlier, after
  <2>4. CASE a # i /\ b # i
    BY <1>2, <1>6, <2>1, <2>4
  <2>5. CASE a = i
    <3>1. Values(k, linked'[a]) = after /\ Values(k, linked'[b]) = Values(k, linked[b])
      BY <1>2, <1>6, <2>5 DEF after
    <3>2. CASE after = earlier
      BY <1>6, <2>1, <2>5, <3>1, <3>2 DEF earlier
    <3>3. CASE after # earlier
      BY <1>6, <2>3, <3>1, <3>3
    <3>. QED BY <3>2, <3>3
  <2>6. CASE b = i
    <3>1. Values(k, linked'[b]) = after /\ Values(k, linked'[a]) = Values(k, linked[a])
      BY <1>2, <1>6, <2>6 DEF after
    <3>2. CASE after = earlier
      BY <1>6, <2>1, <2>6, <3>1, <3>2 DEF earlier
    <3>3. CASE after # earlier
      BY <1>6, <2>3, <3>1, <3>3
    <3>. QED BY <3>2, <3>3
  <2>. QED BY <1>6, <2>4, <2>5, <2>6
<1>7. updated' = Cardinality({j \in Rows : linked'[j].parent # Null})
  <2> DEFINE L == {j \in Rows : linked[j].parent # Null}
  <2>1. IsFiniteSet(L) /\ i \notin L
    <3>1. IsFiniteSet(Rows)
      BY FS_Interval DEF Rows, SelfReferenceAssumption
    <3>. QED BY <3>1, FS_Subset
  <2>2. {j \in Rows : linked'[j].parent # Null} = L \cup {i}
    BY <1>1, <1>2
  <2>3. Cardinality(L \cup {i}) = Cardinality(L) + 1
    BY <2>1, FS_AddElement
  <2>4. updated = Cardinality(L)
    BY DEF SelfInv, HierarchyIsSound
  <2>. QED BY <2>2, <2>3, <2>4
<1>8. HierarchyIsSound'
  <2>1. \A k \in unique' : \A a, b \in Rows :
          a # b /\ Complete(Values(k, linked'[a])) => Values(k, linked'[a]) # Values(k, linked'[b])
    BY <1>6 DEF given
  <2>. QED BY <1>4, <1>5, <1>7, <2>1 DEF SelfInv, HierarchyIsSound, given
<1>. QED BY <1>3, <1>8 DEF SelfInv

\* What a fill left is a sound hierarchy: nothing is linked (_post_fill_self_ref_fks).
LEMMA SelfInitHolds ==
  ASSUME SelfReferenceAssumption, ~Unlisted, SelfInit
  PROVE  SelfInv
<1>1. PICK code \in [Rows -> {Null, 1, 2}], kind \in [Rows -> {1, 2}] :
        /\ check # "none" => \A i \in Rows : kind[i] = 1
        /\ linked = [i \in Rows |-> [parent |-> Null, kind |-> kind[i], code |-> code[i]]]
  BY DEF SelfInit
<1>2. linked \in [Rows -> RowType]
  BY <1>1 DEF RowType, Kinds, Null, SelfReferenceAssumption
<1>3. \A i \in Rows : linked[i].parent = Null /\ linked[i].kind = kind[i]
  BY <1>1
<1>4. SelfShapes
  <2>1. \A i \in Rows : pk[i] \in {i, Null}
    <3>1. PICK S \in SUBSET Rows : pk = [i \in Rows |-> IF i \in S THEN Null ELSE i]
      BY DEF SelfInit
    <3>. QED BY <3>1
  <2>2. \A i \in Rows : ref[i] \in {i, Null}
    <3>1. PICK S \in SUBSET Rows : ref = [i \in Rows |-> IF i \in S THEN Null ELSE i]
      BY DEF SelfInit
    <3>. QED BY <3>1
  <2>3. unique \subseteq {{"parent"}, {"parent", "kind"}, {"kind", "code"}}
    BY DEF SelfInit
  <2>4. check \in {"none", "one", "both"} /\ listed \in BOOLEAN /\ (check = "both" => listed) /\ updated \in Nat
    BY DEF SelfInit
  <2>. QED BY <1>2, <2>1, <2>2, <2>3, <2>4 DEF SelfShapes
<1>5. \A i \in Rows : Checked(linked[i])
  BY <1>1, <1>3 DEF Checked
<1>6. ASSUME NEW k \in unique, NEW i \in Rows, NEW j \in Rows, i # j, Complete(Values(k, linked[i]))
      PROVE  Values(k, linked[i]) # Values(k, linked[j])
  <2>1. \A c \in k : linked[i][c] # Null
    BY <1>6 DEF Complete, Values
  <2>2. PICK c \in k : linked[i][c] # linked[j][c]
    <3>1. \A q \in unique : \A a, b \in Rows :
            a # b /\ (\A c \in q : linked[a][c] # Null) => \E c \in q : linked[a][c] # linked[b][c]
      BY DEF SelfInit
    <3>. QED BY <1>6, <2>1, <3>1
  <2>3. Values(k, linked[i])[c] # Values(k, linked[j])[c]
    BY <2>2 DEF Values
  <2>. QED BY <2>3
<1>7. updated = Cardinality({i \in Rows : linked[i].parent # Null})
  <2>1. {i \in Rows : linked[i].parent # Null} = {}
    BY <1>3
  <2>. QED BY <2>1, FS_EmptySet DEF SelfInit
<1>8. HierarchyIsSound
  BY <1>3, <1>5, <1>6, <1>7 DEF SelfInit, HierarchyIsSound
<1>. QED BY <1>4, <1>8 DEF SelfInv

\* However many rows there are and whatever is drawn for them: the pass commits no cycle, no doubled
\* key and no row a CHECK refuses, counts the rows it linked, and no UPDATE of it is refused
\* (SelfReferenceUpdater.apply).
THEOREM HierarchyStaysSound ==
  ASSUME SelfReferenceAssumption, ~Unlisted
  PROVE  SelfSpec => []HierarchyIsSound
<1>1. SelfInit => SelfInv
  BY SelfInitHolds
<1>2. SelfInv /\ [apply]_selfVars => SelfInv'
  <2> SUFFICES ASSUME SelfInv, [apply]_selfVars
               PROVE  SelfInv'
    OBVIOUS
  <2>1. CASE UNCHANGED selfVars
    BY <2>1 DEF selfVars, given, SelfInv, SelfShapes, HierarchyIsSound, Checked
  <2>2. ASSUME NEW i \in Rows, Step(i)
        PROVE  SelfInv'
    <3>1. CASE UNCHANGED <<linked, known, updated, refused>>
      <4>1. UNCHANGED given
        BY <2>2 DEF Step
      <4>. QED BY <3>1, <4>1 DEF given, SelfInv, SelfShapes, HierarchyIsSound, Checked
    <3>2. CASE ~UNCHANGED <<linked, known, updated, refused>>
      <4>1. PICK new \in _choose_changes(i, linked[i]) \ {linked[i]} :
              /\ linked[i].parent = Null /\ _identity(i) # {}
              /\ IF Checked(new)
                 THEN /\ linked' = [j \in Rows |->
                           IF j \in _identity(i)
                           THEN [linked[j] EXCEPT !.parent = new.parent,
                                  !.kind = IF _condition_values = {} THEN @ ELSE new.kind]
                           ELSE linked[j]]
                      /\ updated' = updated + Cardinality(_identity(i))
                      /\ UNCHANGED refused
                 ELSE refused' = TRUE /\ UNCHANGED <<linked, known, updated>>
        BY <2>2, <3>2 DEF Step
      <4>2. /\ new \in RowType /\ Checked(new) /\ new.code = linked[i].code
            /\ (_condition_values = {} => new.kind = linked[i].kind)
        BY <4>1, ChosenRow DEF SelfInv
      <4>3. _identity(i) = {i} /\ Cardinality({i}) = 1
        BY <4>1, IdentityIsTheRow, FS_Singleton DEF SelfInv
      <4>4. linked[i] \in RowType /\ linked \in [Rows -> RowType]
        BY DEF SelfInv, SelfShapes
      <4>5. [linked[i] EXCEPT !.parent = new.parent,
                              !.kind = IF _condition_values = {} THEN linked[i].kind ELSE new.kind] = new
        BY <4>2, <4>4 DEF RowType
      <4>6. linked' = [linked EXCEPT ![i] = new]
        BY <4>1, <4>2, <4>3, <4>4, <4>5
      <4>7. updated' = updated + 1 /\ UNCHANGED refused /\ UNCHANGED given
        BY <2>2, <4>1, <4>2, <4>3 DEF Step
      <4>. QED BY <4>1, <4>6, <4>7, LinkKeeps
    <3>. QED BY <3>1, <3>2
  <2>. QED BY <2>1, <2>2 DEF apply
<1>3. SelfInv => HierarchyIsSound
  BY DEF SelfInv
<1>. QED BY <1>1, <1>2, <1>3, PTL DEF SelfSpec
===============================================================================
