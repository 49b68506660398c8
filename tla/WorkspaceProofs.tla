---------------------------- MODULE WorkspaceProofs ----------------------------
(***************************************************************************)
(* Theorems about the workspace file: the drafts in it, WorkspaceStore,    *)
(* and the runs recorded in it, WorkbenchRun; and about the analyses that  *)
(* propose changes of a document, Analysis.  They share no state.          *)
(*                                                                         *)
(* Drafts.  The invariant speaks of snapshots: what pages display, what    *)
(* run requests have read and what runs hold.  All snapshots of one        *)
(* revision of a draft are equal, none is newer than the stored draft, and *)
(* one of the stored revision equals it; so who saves at the stored        *)
(* revision has seen every change that the save replaces.                  *)
(*                                                                         *)
(* Runs.  RunInv is an invariant for every number of tables and rows, and  *)
(* from it follow what a page may conclude from a record, that a run that  *)
(* is atomic leaves all of its rows or none, and that rows are erased only *)
(* as reviewed.                                                            *)
(*                                                                         *)
(* Analyses.  AnalysisInv is an invariant for any analyses, columns and    *)
(* constraints: the outcome of an analysis outlives a full queue, and what *)
(* the page applies was sampled as one by the server.                      *)
(***************************************************************************)
EXTENDS WorkspaceStore, WorkbenchRun, Analysis, SequenceTheorems, FiniteSetTheorems, TLAPS

Record == [revision : Nat, document : SUBSET (Changes \ Unsafe)]
Snapshot == [id : Drafts \cup {"none"}, revision : Nat, document : SUBSET Changes]
Run == [id : Drafts, revision : Nat, document : SUBSET (Changes \ Unsafe), stored : SUBSET Changes]

Typed ==
  /\ drafts \in [Drafts -> Record]
  /\ fresh \subseteq Drafts
  /\ view \in [Pages -> Snapshot]
  /\ checked \in [Pages -> Snapshot]
  /\ \A p \in Pages : view[p].id = "none" => view[p] = NoView
  /\ \A p \in Pages : checked[p].id = "none" => checked[p] = NoView
  /\ local \in [Pages -> SUBSET Changes]
  /\ runs \subseteq Run
  /\ acked \subseteq [id : Drafts, change : Changes]

Snapshots ==
  {view[p] : p \in Pages} \cup {checked[p] : p \in Pages} \cup {Displayed(r.id, r) : r \in runs}

\* A snapshot is of a draft that was created, and is no newer than the stored one.
Known(s) ==
  s.id # "none" =>
    /\ s.id \in Drafts \ fresh
    /\ s.revision # 0
    /\ drafts[s.id].revision # 0 => s.revision <= drafts[s.id].revision
    /\ drafts[s.id].revision = s.revision => s.document = drafts[s.id].document

Agree ==
  /\ \A d \in Drafts : d \in fresh \/ drafts[d].revision = 0 => drafts[d] = Absent
  /\ \A s \in Snapshots : Known(s)
  /\ \A s, t \in Snapshots :
       s.id # "none" /\ s.id = t.id /\ s.revision = t.revision => s.document = t.document

StoreInv == Typed /\ Agree /\ SavedChangesSurvive /\ RunsAreSavedDocuments

-----------------------------------------------------------------------------
(* How a step may change drafts and snapshots.                             *)

\* The draft d keeps its row, gets the next revision, or loses its row.
DraftStep(d) ==
  \/ drafts' = drafts /\ fresh' = fresh
  \/ /\ \E doc \in SUBSET (Changes \ Unsafe) : drafts' = Store(d, doc)
     /\ \/ drafts[d].revision # 0 /\ fresh' = fresh
        \/ d \in fresh /\ fresh' = fresh \ {d}
  \/ drafts' = [drafts EXCEPT ![d] = Absent] /\ fresh' = fresh

\* A snapshot is an earlier one, that of no draft, or one of what d now stores.
SnapshotStep(d) ==
  \A s \in Snapshots' :
    \/ s \in Snapshots \/ s.id = "none"
    \/ s = Displayed(d, drafts'[d]) /\ drafts'[d].revision # 0 /\ d \notin fresh'

\* Snapshots agree after a step of one draft.
LEMMA AgreePreserved ==
  ASSUME StoreAssumption, Typed, Agree, NEW d \in Drafts, DraftStep(d), SnapshotStep(d)
  PROVE  Agree'
<1> DEFINE Next1(e) == drafts'[e] = drafts[e] \/ (e = d /\ drafts'[e] = Absent)
                        \/ (e = d /\ drafts'[e].revision = drafts[e].revision + 1)
<1>1. ASSUME NEW e \in Drafts PROVE Next1(e)
  <2>1. CASE drafts' = drafts
    BY <2>1
  <2>2. ASSUME NEW doc \in SUBSET (Changes \ Unsafe), drafts' = Store(d, doc)
        PROVE  Next1(e)
    <3>1. drafts'[e] = IF e = d THEN [revision |-> drafts[e].revision + 1, document |-> doc]
                                ELSE drafts[e]
      BY <1>1, <2>2 DEF Store, Typed
    <3> QED BY <3>1
  <2>3. CASE drafts' = [drafts EXCEPT ![d] = Absent]
    BY <1>1, <2>3 DEF Typed
  <2> QED BY <2>1, <2>2, <2>3 DEF DraftStep
<1>2. ASSUME NEW e \in Drafts
      PROVE  drafts[e] \in Record /\ drafts[e].revision \in Nat
  BY <1>2 DEF Typed, Record
<1>3. fresh' \subseteq fresh
  BY DEF DraftStep
<1>9. ASSUME NEW e \in Drafts, e \in fresh' PROVE drafts'[e] = drafts[e] \/ drafts'[e] = Absent
  <2>1. CASE drafts' = drafts
    BY <2>1
  <2>2. ASSUME NEW doc \in SUBSET (Changes \ Unsafe), drafts' = Store(d, doc),
               \/ drafts[d].revision # 0 /\ fresh' = fresh
               \/ d \in fresh /\ fresh' = fresh \ {d}
        PROVE  drafts'[e] = drafts[e]
    <3>1. e # d
      BY <1>9, <2>2 DEF Agree, Absent
    <3> QED BY <2>2, <3>1, <1>9 DEF Store, Typed
  <2>3. CASE drafts' = [drafts EXCEPT ![d] = Absent]
    BY <1>9, <2>3 DEF Typed
  <2> QED BY <2>1, <2>2, <2>3 DEF DraftStep
<1>4. \A e \in Drafts : e \in fresh' \/ drafts'[e].revision = 0 => drafts'[e] = Absent
  <2>1. ASSUME NEW e \in Drafts, e \in fresh' PROVE drafts'[e] = Absent
    BY <1>3, <1>9, <2>1 DEF Agree
  <2>2. ASSUME NEW e \in Drafts, drafts'[e].revision = 0 PROVE drafts'[e] = Absent
    BY <1>1, <1>2, <2>2 DEF Agree
  <2> QED BY <2>1, <2>2
<1>5. ASSUME NEW s \in Snapshots, s.id # "none"
      PROVE  /\ s.id \in Drafts \ fresh' /\ s.revision # 0
             /\ drafts'[s.id].revision # 0 => s.revision <= drafts'[s.id].revision
             /\ drafts'[s.id].revision = s.revision => s.document = drafts'[s.id].document
             /\ s.revision \in Nat
  <2>1. Known(s) /\ s.id \in Drafts \ fresh
    BY <1>5 DEF Agree, Known
  <2>2. s.revision \in Nat
    BY <1>5 DEF Snapshots, Typed, Snapshot, Run, Displayed
  <2>3. drafts[s.id] \in Record
    BY <2>1, <1>2
  <2>4. CASE drafts'[s.id] = drafts[s.id]
    BY <1>3, <1>5, <2>1, <2>2, <2>4 DEF Known
  <2>5. CASE drafts'[s.id] = Absent
    BY <1>3, <1>5, <2>1, <2>2, <2>5 DEF Known, Absent
  <2>6. CASE s.id = d /\ drafts'[s.id].revision = drafts[s.id].revision + 1
    <3>1. drafts[s.id].revision # 0
      <4>1. drafts' # drafts
        BY <1>2, <2>1, <2>6
      <4>2. drafts' # [drafts EXCEPT ![d] = Absent]
        BY <1>2, <2>1, <2>6 DEF Absent, Typed
      <4> QED BY <2>1, <2>6, <4>1, <4>2 DEF DraftStep
    <3> QED BY <1>3, <1>5, <2>1, <2>2, <2>3, <2>6, <3>1 DEF Known, Record
  <2> QED BY <1>1, <2>1, <2>4, <2>5, <2>6
<1>6. ASSUME NEW s \in Snapshots' PROVE Known(s)'
  <2>1. CASE s \in Snapshots
    BY <1>5, <2>1 DEF Known
  <2>2. CASE s.id = "none"
    BY <2>2 DEF Known
  <2>3. CASE s = Displayed(d, drafts'[d]) /\ drafts'[d].revision # 0 /\ d \notin fresh'
    <3>1. drafts'[d] \in Record
      BY DEF DraftStep, Typed, Store, Absent, Record
    <3> QED BY <2>3, <3>1 DEF Known, Displayed, Record
  <2> QED BY <1>6, <2>1, <2>2, <2>3 DEF SnapshotStep
<1>7. ASSUME NEW s \in Snapshots, NEW t, s.id # "none", s.id = t.id, s.revision = t.revision,
             t = Displayed(d, drafts'[d]), drafts'[d].revision # 0
      PROVE  s.document = t.document
  BY <1>5, <1>7 DEF Displayed
<1>8. ASSUME NEW s \in Snapshots', NEW t \in Snapshots',
             s.id # "none", s.id = t.id, s.revision = t.revision
      PROVE  s.document = t.document
  <2>1. CASE s \in Snapshots /\ t \in Snapshots
    BY <1>8, <2>1 DEF Agree
  <2>2. CASE s \in Snapshots /\ t \notin Snapshots
    BY <1>7, <1>8, <2>2 DEF SnapshotStep
  <2>3. CASE s \notin Snapshots /\ t \in Snapshots
    BY <1>7, <1>8, <2>3 DEF SnapshotStep
  <2>4. CASE s \notin Snapshots /\ t \notin Snapshots
    BY <1>8, <2>4 DEF SnapshotStep
  <2> QED BY <2>1, <2>2, <2>3, <2>4
<1> QED BY <1>4, <1>6, <1>8 DEF Agree

\* Snapshots are moved, forgotten, or taken of d.
LEMMA SnapshotsMove ==
  ASSUME NEW d \in Drafts,
         \A q \in Pages : \/ view'[q] = view[q]
                           \/ view'[q].id = "none"
                           \/ (view'[q] = Displayed(d, drafts'[d]) /\ drafts'[d].revision # 0 /\ d \notin fresh'),
         \A q \in Pages : \/ checked'[q] = checked[q]
                           \/ checked'[q].id = "none"
                           \/ checked'[q] \in Snapshots,
         \A r \in runs' : r \in runs \/ Displayed(r.id, r) \in Snapshots
  PROVE  SnapshotStep(d)
<1> SUFFICES ASSUME NEW s \in Snapshots'
             PROVE  \/ s \in Snapshots \/ s.id = "none"
                    \/ s = Displayed(d, drafts'[d]) /\ drafts'[d].revision # 0 /\ d \notin fresh'
  BY DEF SnapshotStep
<1>1. CASE \E q \in Pages : s = view'[q]
  BY <1>1 DEF Snapshots
<1>2. CASE \E q \in Pages : s = checked'[q]
  BY <1>2 DEF Snapshots
<1>3. CASE \E r \in runs' : s = Displayed(r.id, r)
  BY <1>3 DEF Snapshots
<1> QED BY <1>1, <1>2, <1>3 DEF Snapshots, Displayed

\* A page at the stored revision displays what is stored.
LEMMA AtRevisionIsStored ==
  ASSUME Typed, Agree, NEW p \in Pages, AtRevision(p)
  PROVE  /\ view[p].id \in Drafts \ fresh
         /\ drafts[view[p].id] \in Record
         /\ view[p].revision # 0
         /\ view[p].revision = drafts[view[p].id].revision
         /\ view[p].document = drafts[view[p].id].document
         /\ view[p] = Displayed(view[p].id, drafts[view[p].id])
<1>1. view[p] \in Snapshots /\ view[p] \in Snapshot /\ view[p].id # "none"
  BY DEF Snapshots, Typed, AtRevision
<1>2. Known(view[p])
  BY <1>1 DEF Agree
<1>3. drafts[view[p].id] \in Record
  BY <1>1, <1>2 DEF Known, Typed
<1>4. view[p].document = drafts[view[p].id].document /\ view[p].revision = drafts[view[p].id].revision
  BY <1>1, <1>2 DEF Known, AtRevision
<1> QED BY <1>1, <1>2, <1>3, <1>4 DEF Known, Displayed, Snapshot

-----------------------------------------------------------------------------
(* The steps.                                                              *)

LEMMA InitStoreInv == StoreInit => StoreInv
<1> SUFFICES ASSUME StoreInit PROVE StoreInv
  OBVIOUS
<1>1. Absent \in Record /\ NoView \in Snapshot
  BY DEF Absent, Record, NoView, Snapshot
<1>2. Typed
  BY <1>1 DEF StoreInit, Typed
<1>3. \A s \in Snapshots : s.id = "none"
  BY DEF StoreInit, Snapshots, NoView, Displayed
<1>4. Agree
  BY <1>3 DEF Agree, Known, StoreInit
<1> QED BY <1>2, <1>4 DEF StoreInv, StoreInit, SavedChangesSurvive, RunsAreSavedDocuments

LEMMA OpenPreserves ==
  ASSUME StoreInv, NEW p \in Pages, NEW d \in Drafts, Open(p, d), StoreAssumption
  PROVE  StoreInv'
<1>1. drafts[d] \in Record /\ d \notin fresh /\ drafts[d].revision # 0
  BY DEF StoreInv, Typed, Agree, Open
<1>2. Displayed(d, drafts[d]) \in Snapshot /\ Displayed(d, drafts[d]).id = d
  BY <1>1 DEF Displayed, Snapshot, Record
<1>3. Typed'
  BY <1>2 DEF StoreInv, Typed, Open, StoreAssumption
<1>4. DraftStep(d)
  BY DEF DraftStep, Open
<1>5. SnapshotStep(d)
  <2>1. \A q \in Pages : view'[q] = view[q] \/ view'[q] = Displayed(d, drafts'[d])
    BY DEF Open, StoreInv, Typed
  <2> QED BY <1>1, <2>1, SnapshotsMove DEF Open
<1>6. Agree'
  BY <1>4, <1>5, AgreePreserved DEF StoreInv
<1> QED BY <1>3, <1>6 DEF StoreInv, Open, SavedChangesSurvive, RunsAreSavedDocuments

LEMMA EditPreserves ==
  ASSUME StoreInv, NEW p \in Pages, NEW c \in Changes, Edit(p, c)
  PROVE  StoreInv'
<1>1. Typed'
  BY DEF StoreInv, Typed, Edit
<1>2. Snapshots' = Snapshots
  BY DEF Edit, Snapshots
<1>3. Agree'
  BY <1>2 DEF StoreInv, Agree, Known, Edit
<1> QED BY <1>1, <1>3 DEF StoreInv, Edit, SavedChangesSurvive, RunsAreSavedDocuments

\* A draft that is fresh has no changes that could be lost.
LEMMA CreatePreserves ==
  ASSUME StoreInv, NEW p \in Pages, NEW d \in Drafts, Create(p, d), StoreAssumption
  PROVE  StoreInv'
<1>1. Document(p) \in SUBSET (Changes \ Unsafe) /\ d \in fresh
  BY DEF Create, Document, Storable, StoreInv, Typed, Snapshot
<1>2. drafts[d] = Absent
  BY <1>1 DEF StoreInv, Agree
<1>3. drafts'[d] = [revision |-> 1, document |-> Document(p)]
  BY <1>2 DEF Create, Store, StoreInv, Typed, Absent
<1>4. drafts'[d] \in Record /\ d \notin fresh'
  BY <1>1, <1>3 DEF Record, Create
<1>5. Displayed(d, drafts'[d]) \in Snapshot /\ Displayed(d, drafts'[d]).id = d
  BY <1>4 DEF Displayed, Snapshot, Record
<1>6. \A e \in Drafts : e # d => drafts'[e] = drafts[e]
  BY DEF Create, Store, StoreInv, Typed
<1>7. Typed'
  <2>1. drafts' \in [Drafts -> Record]
    BY <1>4, <1>6 DEF Create, Store, StoreInv, Typed
  <2>2. acked' \subseteq [id : Drafts, change : Changes]
    BY <1>1 DEF Create, Confirm, StoreInv, Typed
  <2> QED BY <1>5, <2>1, <2>2 DEF Create, Confirm, StoreInv, Typed, StoreAssumption
<1>8. DraftStep(d)
  BY <1>1 DEF DraftStep, Create
<1>9. SnapshotStep(d)
  <2>1. \A q \in Pages : view'[q] = view[q] \/ view'[q] = Displayed(d, drafts'[d])
    BY DEF Create, Confirm, StoreInv, Typed
  <2> QED BY <1>3, <1>4, <2>1, SnapshotsMove DEF Create
<1>10. Agree'
  BY <1>8, <1>9, AgreePreserved DEF StoreInv
<1>11. SavedChangesSurvive'
  <2> SUFFICES ASSUME NEW a \in acked' PROVE a.change \in drafts'[a.id].document \/ a \in seen'
    BY DEF SavedChangesSurvive
  <2>1. CASE a \in acked
    <3>1. a.id \in Drafts
      BY <2>1 DEF StoreInv, Typed
    <3>2. CASE a.id = d
      BY <1>2, <2>1, <3>2 DEF StoreInv, SavedChangesSurvive, Absent, Create
    <3>3. CASE a.id # d
      BY <1>6, <2>1, <3>1, <3>3 DEF StoreInv, SavedChangesSurvive, Create
    <3> QED BY <3>2, <3>3
  <2>2. CASE a \notin acked
    BY <1>3, <2>2 DEF Create, Confirm
  <2> QED BY <2>1, <2>2
<1> QED BY <1>7, <1>10, <1>11 DEF StoreInv, Create, RunsAreSavedDocuments

\* A save contains the changes it replaces: its page displayed the stored document.
LEMMA SavePreserves ==
  ASSUME StoreInv, NEW p \in Pages, Save(p), StoreAssumption
  PROVE  StoreInv'
<1> DEFINE d == view[p].id
<1>1. /\ d \in Drafts \ fresh /\ drafts[d] \in Record /\ view[p].revision # 0
      /\ drafts[d].revision = view[p].revision
      /\ drafts[d].document = view[p].document
  <2>1. AtRevision(p)
    BY DEF Save
  <2> QED BY <2>1, AtRevisionIsStored DEF StoreInv
<1>2. Document(p) \in SUBSET (Changes \ Unsafe) /\ view[p].document \subseteq Document(p)
  BY DEF Save, Document, Storable, StoreInv, Typed, Snapshot
<1> HIDE DEF d
<1>3. drafts'[d] = [revision |-> drafts[d].revision + 1, document |-> Document(p)]
  BY <1>1 DEF Save, Store, StoreInv, Typed, d
<1>4. drafts'[d] \in Record /\ drafts'[d].revision # 0 /\ d \notin fresh'
  BY <1>1, <1>2, <1>3 DEF Record, Save
<1>5. Displayed(d, drafts'[d]) \in Snapshot /\ Displayed(d, drafts'[d]).id = d
  BY <1>1, <1>4 DEF Displayed, Snapshot, Record
<1>6. \A e \in Drafts : e # d => drafts'[e] = drafts[e]
  BY DEF Save, Store, StoreInv, Typed, d
<1>7. Typed'
  <2>1. drafts' \in [Drafts -> Record]
    BY <1>4, <1>6 DEF Save, Store, StoreInv, Typed
  <2>2. acked' \subseteq [id : Drafts, change : Changes]
    BY <1>1, <1>2 DEF Save, Confirm, StoreInv, Typed, d
  <2> QED BY <1>1, <1>5, <2>1, <2>2 DEF Save, Confirm, StoreInv, Typed, StoreAssumption, d
<1>8. DraftStep(d)
  <2>1. drafts' = Store(d, Document(p))
    BY DEF Save, d
  <2>2. drafts[d].revision # 0 /\ fresh' = fresh
    BY <1>1 DEF Save
  <2> QED BY <1>2, <2>1, <2>2 DEF DraftStep
<1>9. SnapshotStep(d)
  <2>1. \A q \in Pages : view'[q] = view[q] \/ view'[q] = Displayed(d, drafts'[d])
    BY DEF Save, Confirm, StoreInv, Typed, d
  <2> QED BY <1>1, <1>4, <2>1, SnapshotsMove DEF Save
<1>10. Agree'
  BY <1>1, <1>8, <1>9, AgreePreserved DEF StoreInv
<1>11. SavedChangesSurvive'
  <2> SUFFICES ASSUME NEW a \in acked' PROVE a.change \in drafts'[a.id].document \/ a \in seen'
    BY DEF SavedChangesSurvive
  <2>1. CASE a \in acked
    <3>1. a.id \in Drafts
      BY <2>1 DEF StoreInv, Typed
    <3>2. CASE a.id = d
      BY <1>1, <1>2, <1>3, <2>1, <3>2 DEF StoreInv, SavedChangesSurvive, Save
    <3>3. CASE a.id # d
      BY <1>6, <2>1, <3>1, <3>3 DEF StoreInv, SavedChangesSurvive, Save
    <3> QED BY <3>2, <3>3
  <2>2. CASE a \notin acked
    BY <1>3, <2>2 DEF Save, Confirm, d
  <2> QED BY <2>1, <2>2
<1> QED BY <1>7, <1>10, <1>11 DEF StoreInv, Save, RunsAreSavedDocuments

LEMMA RenamePreserves ==
  ASSUME StoreInv, NEW p \in Pages, Rename(p), StoreAssumption
  PROVE  StoreInv'
<1> DEFINE d == view[p].id
<1>1. d \in Drafts \ fresh /\ drafts[d] \in Record /\ drafts[d].revision # 0
  <2>1. AtRevision(p)
    BY DEF Rename
  <2> QED BY <2>1, AtRevisionIsStored DEF StoreInv
<1> HIDE DEF d
<1>2. drafts[d].document \in SUBSET (Changes \ Unsafe)
  BY <1>1 DEF Record
<1>3. drafts'[d] = [revision |-> drafts[d].revision + 1, document |-> drafts[d].document]
  BY <1>1 DEF Rename, Store, StoreInv, Typed, d
<1>4. drafts'[d] \in Record /\ drafts'[d].revision # 0 /\ d \notin fresh'
  BY <1>1, <1>2, <1>3 DEF Record, Rename
<1>5. Displayed(d, drafts'[d]) \in Snapshot /\ Displayed(d, drafts'[d]).id = d
  BY <1>1, <1>4 DEF Displayed, Snapshot, Record
<1>6. \A e \in Drafts : e # d => drafts'[e] = drafts[e]
  BY DEF Rename, Store, StoreInv, Typed, d
<1>7. Typed'
  <2>1. drafts' \in [Drafts -> Record]
    BY <1>4, <1>6 DEF Rename, Store, StoreInv, Typed
  <2> QED BY <1>1, <1>5, <2>1 DEF Rename, StoreInv, Typed, StoreAssumption, d
<1>8. DraftStep(d)
  <2>1. drafts' = Store(d, drafts[d].document) /\ fresh' = fresh
    BY DEF Rename, d
  <2> QED BY <1>1, <1>2, <2>1 DEF DraftStep
<1>9. SnapshotStep(d)
  <2>1. \A q \in Pages : view'[q] = view[q] \/ view'[q] = Displayed(d, drafts'[d])
    BY DEF Rename, StoreInv, Typed, d
  <2> QED BY <1>1, <1>4, <2>1, SnapshotsMove DEF Rename
<1>10. Agree'
  BY <1>1, <1>8, <1>9, AgreePreserved DEF StoreInv
<1>11. SavedChangesSurvive'
  <2>1. \A e \in Drafts : drafts'[e].document = drafts[e].document
    BY <1>3, <1>6
  <2> QED BY <2>1 DEF StoreInv, Typed, SavedChangesSurvive, Rename
<1> QED BY <1>7, <1>10, <1>11 DEF StoreInv, Rename, RunsAreSavedDocuments

LEMMA CopyPreserves ==
  ASSUME StoreInv, NEW p \in Pages, NEW d \in Drafts, Copy(p, d), StoreAssumption
  PROVE  StoreInv'
<1> DEFINE doc == drafts[view[p].id].document
<1>1. doc \in SUBSET (Changes \ Unsafe) /\ doc = view[p].document /\ d \in fresh
  <2>1. AtRevision(p)
    BY DEF Copy
  <2> QED BY <2>1, AtRevisionIsStored DEF StoreInv, Record, Copy
<1>2. drafts[d] = Absent
  BY <1>1 DEF StoreInv, Agree
<1>3. drafts' = Store(d, doc)
  BY DEF Copy
<1> HIDE DEF doc
<1>4. drafts'[d] = [revision |-> 1, document |-> doc]
  BY <1>2, <1>3 DEF Store, StoreInv, Typed, Absent
<1>5. drafts'[d] \in Record
  BY <1>1, <1>4 DEF Record
<1>6. \A e \in Drafts : e # d => drafts'[e] = drafts[e]
  BY <1>3 DEF Store, StoreInv, Typed
<1>7. Typed'
  <2>1. drafts' \in [Drafts -> Record]
    BY <1>3, <1>5, <1>6 DEF Store, StoreInv, Typed
  <2>2. acked' \subseteq [id : Drafts, change : Changes]
    BY <1>1 DEF Copy, StoreInv, Typed
  <2> QED BY <2>1, <2>2 DEF Copy, StoreInv, Typed
<1>8. DraftStep(d)
  BY <1>1, <1>3 DEF DraftStep, Copy
<1>9. SnapshotStep(d)
  <2>1. \A q \in Pages : view'[q] = view[q] /\ checked'[q] = checked[q]
    BY DEF Copy
  <2>2. runs' = runs
    BY DEF Copy
  <2> QED BY <2>1, <2>2, SnapshotsMove
<1>10. Agree'
  BY <1>8, <1>9, AgreePreserved DEF StoreInv
<1>11. SavedChangesSurvive'
  <2> SUFFICES ASSUME NEW a \in acked' PROVE a.change \in drafts'[a.id].document \/ a \in seen'
    BY DEF SavedChangesSurvive
  <2>1. CASE a \in acked
    <3>1. a.id \in Drafts
      BY <2>1 DEF StoreInv, Typed
    <3>2. CASE a.id = d
      BY <1>2, <2>1, <3>2 DEF StoreInv, SavedChangesSurvive, Absent, Copy
    <3>3. CASE a.id # d
      BY <1>6, <2>1, <3>1, <3>3 DEF StoreInv, SavedChangesSurvive, Copy
    <3> QED BY <3>2, <3>3
  <2>2. CASE a \notin acked
    BY <1>1, <1>4, <2>2 DEF Copy
  <2> QED BY <2>1, <2>2
<1> QED BY <1>7, <1>10, <1>11 DEF StoreInv, Copy, RunsAreSavedDocuments

\* Who deletes a draft has seen what it contained.
LEMMA DeletePreserves ==
  ASSUME StoreInv, NEW p \in Pages, Delete(p), StoreAssumption
  PROVE  StoreInv'
<1> DEFINE d == view[p].id
<1>1. d \in Drafts /\ drafts[d].document = view[p].document
  <2>1. AtRevision(p)
    BY DEF Delete
  <2> QED BY <2>1, AtRevisionIsStored DEF StoreInv
<1> HIDE DEF d
<1>2. drafts' = [drafts EXCEPT ![d] = Absent] /\ fresh' = fresh
  BY DEF Delete, d
<1>3. \A e \in Drafts : e # d => drafts'[e] = drafts[e]
  BY <1>2 DEF StoreInv, Typed
<1>4. Typed'
  <2>1. Absent \in Record /\ NoView \in Snapshot
    BY DEF Absent, Record, NoView, Snapshot
  <2> QED BY <1>2, <2>1 DEF Delete, StoreInv, Typed
<1>5. DraftStep(d)
  BY <1>2 DEF DraftStep
<1>6. SnapshotStep(d)
  <2>1. \A q \in Pages : view'[q] = view[q] \/ view'[q].id = "none"
    BY DEF Delete, StoreInv, Typed, NoView
  <2> QED BY <1>1, <2>1, SnapshotsMove DEF Delete
<1>7. Agree'
  BY <1>1, <1>5, <1>6, AgreePreserved DEF StoreInv
<1>8. SavedChangesSurvive'
  <2> SUFFICES ASSUME NEW a \in acked PROVE a.change \in drafts'[a.id].document \/ a \in seen'
    BY DEF SavedChangesSurvive, Delete
  <2>1. a.id \in Drafts /\ a = [id |-> a.id, change |-> a.change]
    BY DEF StoreInv, Typed
  <2>2. CASE a.id = d
    BY <1>1, <2>1, <2>2 DEF StoreInv, SavedChangesSurvive, Delete, d
  <2>3. CASE a.id # d
    BY <1>3, <2>1, <2>3 DEF StoreInv, SavedChangesSurvive, Delete
  <2> QED BY <2>2, <2>3
<1> QED BY <1>4, <1>7, <1>8 DEF StoreInv, Delete, RunsAreSavedDocuments

LEMMA CheckSavedPreserves ==
  ASSUME StoreInv, NEW p \in Pages, CheckSaved(p), StoreAssumption
  PROVE  StoreInv'
<1>1. /\ view[p].id \in Drafts /\ view[p] \in Snapshot
      /\ checked' = [checked EXCEPT ![p] = view[p]]
  <2>1. AtRevision(p)
    BY DEF CheckSaved
  <2> QED BY <2>1, AtRevisionIsStored DEF StoreInv, CheckSaved, Typed
<1>2. Typed'
  BY <1>1 DEF CheckSaved, StoreInv, Typed, StoreAssumption
<1>3. DraftStep(view[p].id)
  BY DEF DraftStep, CheckSaved
<1>4. SnapshotStep(view[p].id)
  <2>1. \A q \in Pages : checked'[q] = checked[q] \/ checked'[q] \in Snapshots
    BY <1>1 DEF StoreInv, Typed, Snapshots
  <2> QED BY <1>1, <2>1, SnapshotsMove DEF CheckSaved
<1>5. Agree'
  BY <1>1, <1>3, <1>4, AgreePreserved DEF StoreInv
<1> QED BY <1>2, <1>5 DEF StoreInv, CheckSaved, SavedChangesSurvive, RunsAreSavedDocuments

\* A run's document was checked earlier, and still is the stored one.
LEMMA CreateRunPreserves ==
  ASSUME StoreInv, NEW p \in Pages, CreateRun(p), StoreAssumption
  PROVE  StoreInv'
<1> DEFINE d == checked[p].id
           run == [id |-> d, revision |-> checked[p].revision,
                   document |-> checked[p].document, stored |-> drafts[d].document]
<1>1. checked[p] \in Snapshot /\ checked[p] \in Snapshots /\ d # "none" /\ Displayed(d, checked[p]) = checked[p]
  BY DEF StoreInv, Typed, Snapshot, Snapshots, CreateRun, Displayed
<1>2. d \in Drafts /\ drafts[d] \in Record
  BY <1>1 DEF StoreInv, Agree, Known, Typed
<1>3. \A r \in runs' : r \in runs \/ (r = run /\ Unchanged(p))
  BY DEF CreateRun
<1>4. Unchanged(p) => run \in Run /\ run.document = run.stored
  BY <1>1, <1>2 DEF Unchanged, Run, Record, Snapshot
<1>5. Typed'
  <2>1. NoView \in Snapshot
    BY DEF NoView, Snapshot
  <2>2. runs' \subseteq Run
    BY <1>3, <1>4 DEF StoreInv, Typed
  <2> QED BY <2>1, <2>2 DEF CreateRun, StoreInv, Typed
<1>6. DraftStep(d)
  BY DEF DraftStep, CreateRun
<1>7. SnapshotStep(d)
  <2>1. \A q \in Pages : checked'[q] = checked[q] \/ checked'[q].id = "none"
    BY DEF CreateRun, StoreInv, Typed, NoView
  <2>2. \A r \in runs' : r \in runs \/ Displayed(r.id, r) \in Snapshots
    BY <1>1, <1>3 DEF Displayed
  <2> QED BY <1>2, <2>1, <2>2, SnapshotsMove DEF CreateRun
<1>8. Agree'
  BY <1>2, <1>6, <1>7, AgreePreserved DEF StoreInv
<1>9. RunsAreSavedDocuments'
  BY <1>3, <1>4 DEF StoreInv, RunsAreSavedDocuments
<1> QED BY <1>5, <1>8, <1>9 DEF StoreInv, CreateRun, SavedChangesSurvive

LEMMA StutterPreserves == StoreInv /\ UNCHANGED storeVars => StoreInv'
<1> SUFFICES ASSUME StoreInv, UNCHANGED storeVars PROVE StoreInv'
  OBVIOUS
<1>1. Snapshots' = Snapshots
  BY DEF storeVars, Snapshots
<1>2. Agree'
  BY <1>1 DEF storeVars, StoreInv, Agree, Known
<1> QED BY <1>2 DEF storeVars, StoreInv, Typed, SavedChangesSurvive, RunsAreSavedDocuments

LEMMA StoreInvariant == ASSUME StoreAssumption PROVE StoreSpec => []StoreInv
<1>1. StoreInit => StoreInv
  BY InitStoreInv
<1>2. StoreInv /\ [StoreNext]_storeVars => StoreInv'
  <2> SUFFICES ASSUME StoreInv, [StoreNext]_storeVars PROVE StoreInv'
    OBVIOUS
  <2>1. CASE UNCHANGED storeVars
    BY <2>1, StutterPreserves
  <2>2. ASSUME NEW p \in Pages, Save(p) PROVE StoreInv'
    BY <2>2, SavePreserves
  <2>3. ASSUME NEW p \in Pages, Rename(p) PROVE StoreInv'
    BY <2>3, RenamePreserves
  <2>4. ASSUME NEW p \in Pages, Delete(p) PROVE StoreInv'
    BY <2>4, DeletePreserves
  <2>5. ASSUME NEW p \in Pages, CheckSaved(p) PROVE StoreInv'
    BY <2>5, CheckSavedPreserves
  <2>6. ASSUME NEW p \in Pages, CreateRun(p) PROVE StoreInv'
    BY <2>6, CreateRunPreserves
  <2>7. ASSUME NEW p \in Pages, NEW d \in Drafts, Open(p, d) PROVE StoreInv'
    BY <2>7, OpenPreserves
  <2>8. ASSUME NEW p \in Pages, NEW d \in Drafts, Create(p, d) PROVE StoreInv'
    BY <2>8, CreatePreserves
  <2>9. ASSUME NEW p \in Pages, NEW d \in Drafts, Copy(p, d) PROVE StoreInv'
    BY <2>9, CopyPreserves
  <2>10. ASSUME NEW p \in Pages, NEW c \in Changes, Edit(p, c) PROVE StoreInv'
    BY <2>10, EditPreserves
  <2> QED BY <2>1, <2>2, <2>3, <2>4, <2>5, <2>6, <2>7, <2>8, <2>9, <2>10 DEF StoreNext
<1> QED BY <1>1, <1>2, PTL DEF StoreSpec

-----------------------------------------------------------------------------
(* The theorems.                                                           *)

\* A save that was confirmed is never lost to another page (save_draft, rename_draft, copy_draft,
\* delete_draft of workbench_store.py), for any pages and drafts.
THEOREM SavesAreKept == ASSUME StoreAssumption PROVE StoreSpec => []SavedChangesSurvive
<1>1. StoreInv => SavedChangesSurvive
  BY DEF StoreInv
<1> QED BY <1>1, StoreInvariant, PTL

\* What a run executes is what its page had checked, and was the stored document when the run was
\* accepted (create_run with require_current_draft).
THEOREM RunsExecuteSavedDocuments == ASSUME StoreAssumption PROVE StoreSpec => []RunsAreSavedDocuments
<1>1. StoreInv => RunsAreSavedDocuments
  BY DEF StoreInv
<1> QED BY <1>1, StoreInvariant, PTL

\* Pages and runs that agree on the revision of a draft agree on its document (_draft_at_revision).
THEOREM RevisionsNameDocuments == ASSUME StoreAssumption PROVE StoreSpec => []RevisionsAreUnique
<1>1. StoreInv => RevisionsAreUnique
  <2> SUFFICES ASSUME StoreInv, NEW p \in Pages, NEW q \in Pages, NEW r \in runs
               PROVE  /\ view[p].id = view[q].id /\ view[p].revision = view[q].revision
                           => view[p].document = view[q].document
                      /\ view[p].id = r.id /\ view[p].revision = r.revision
                           => view[p].document = r.document
    BY DEF RevisionsAreUnique
  <2>1. view[p] \in Snapshots /\ view[q] \in Snapshots /\ Displayed(r.id, r) \in Snapshots
    BY DEF Snapshots
  <2>2. r.id # "none"
    BY DEF StoreInv, Typed, Run, StoreAssumption
  <2>3. CASE view[p].id = "none"
    BY <2>2, <2>3 DEF StoreInv, Typed
  <2>4. CASE view[p].id # "none"
    BY <2>1, <2>4 DEF StoreInv, Agree, Displayed
  <2> QED BY <2>3, <2>4
<1> QED BY <1>1, StoreInvariant, PTL

\* The store holds nothing that must not be stored (_snapshot, _json_text).
THEOREM StoreTypeCorrect == ASSUME StoreAssumption PROVE StoreSpec => []StoreTypeOK
<1>1. StoreInv => StoreTypeOK
  <2> SUFFICES ASSUME StoreInv PROVE StoreTypeOK
    OBVIOUS
  <2>1. \A p \in Pages : view[p] = NoView \/ view[p].id \in Drafts
    <3> SUFFICES ASSUME NEW p \in Pages, view[p].id # "none" PROVE view[p].id \in Drafts
      BY DEF StoreInv, Typed
    <3> QED BY DEF StoreInv, Typed, Snapshot
  <2>2. \A r \in runs : r.id \in Drafts /\ r.document \subseteq Changes \ Unsafe
    BY DEF StoreInv, Typed, Run
  <2> QED BY <2>1, <2>2 DEF StoreTypeOK, StoreInv, Typed, Record
<1> QED BY <1>1, StoreInvariant, PTL

\* What pages may rely on, at once: their confirmed saves, the revisions they see and the runs they
\* start (the transactions of workbench_store.py).
THEOREM ConfirmedChangesAreKept == ASSUME StoreAssumption PROVE StoreSpec => []ConfirmedChangesSurvive
<1>1. StoreTypeOK /\ SavedChangesSurvive /\ RunsAreSavedDocuments /\ RevisionsAreUnique
        => ConfirmedChangesSurvive
  BY DEF ConfirmedChangesSurvive
<1> QED BY <1>1, SavesAreKept, RunsExecuteSavedDocuments, RevisionsNameDocuments, StoreTypeCorrect, PTL

(***************************************************************************)
(* Rows of tables, counted.                                                *)
(***************************************************************************)

\* Finitely many.
LEMMA RowsAreFinite ==
  ASSUME RunAssumption, NEW rows \in [Tables -> 0 .. Unknown]
  PROVE  IsFiniteSet(RowsOf(rows)) /\ TotalOf(rows) \in Nat
<1>1. IsFiniteSet(Tables \X (1 .. Unknown))
  <2>1. 1 \in Int /\ N \in Int /\ Unknown \in Int
    BY DEF RunAssumption, Unknown
  <2>2. IsFiniteSet(1 .. N) /\ IsFiniteSet(1 .. Unknown)
    BY <2>1, FS_Interval
  <2>. QED BY <2>2, FS_Product DEF Tables
<1>2. RowsOf(rows) \in SUBSET (Tables \X (1 .. Unknown))
  BY DEF RowsOf
<1>. QED BY <1>1, <1>2, FS_Subset, FS_CardinalityType DEF TotalOf

\* No rows.
LEMMA SumOfNone == ASSUME RunAssumption PROVE TotalOf(NoRows) = 0
<1>1. RowsOf(NoRows) = {}
  BY DEF RowsOf, NoRows, Unknown, RunAssumption
<1>. QED BY <1>1, FS_EmptySet DEF TotalOf

\* A table that had none gets k rows.
LEMMA SumOfFilled ==
  ASSUME RunAssumption, NEW rows \in [Tables -> 0 .. Unknown],
         NEW t \in Tables, rows[t] = 0, NEW k \in 0 .. Unknown
  PROVE  TotalOf([rows EXCEPT ![t] = k]) = TotalOf(rows) + k
<1> DEFINE more == [rows EXCEPT ![t] = k]
           new == {t} \X (1 .. k)
<1>0. k \in Nat
  BY DEF Unknown, RunAssumption
<1>1. IsFiniteSet(RowsOf(rows)) /\ TotalOf(rows) \in Nat
  BY RowsAreFinite
<1>2. IsFiniteSet(new) /\ Cardinality(new) = k
  <2>1. IsFiniteSet({t}) /\ Cardinality({t}) = 1
    BY FS_Singleton
  <2>2. IsFiniteSet(1 .. k) /\ Cardinality(1 .. k) = k
    <3>1. 1 \in Int /\ k \in Int /\ k \in Nat
      BY DEF RunAssumption, Unknown
    <3>2. IsFiniteSet(1 .. k) /\ Cardinality(1 .. k) = IF 1 > k THEN 0 ELSE k - 1 + 1
      BY <3>1, FS_Interval
    <3>. QED BY <3>1, <3>2
  <2>. QED BY <2>1, <2>2, FS_Product DEF Unknown, RunAssumption
<1>3. RowsOf(more) = RowsOf(rows) \cup new
  <2>1. ASSUME NEW r \in Tables \X (1 .. Unknown)
        PROVE  r[2] <= more[r[1]] <=> r[2] <= rows[r[1]] \/ r \in new
    <3>1. CASE r[1] = t
      BY <3>1 DEF Unknown, RunAssumption
    <3>2. CASE r[1] # t
      BY <3>2 DEF Unknown, RunAssumption
    <3>. QED BY <3>1, <3>2
  <2>2. new \subseteq Tables \X (1 .. Unknown)
    BY DEF Unknown, RunAssumption
  <2>. QED BY <2>1, <2>2 DEF RowsOf
<1>4. RowsOf(rows) \cap new = {}
  BY DEF RowsOf, Unknown, RunAssumption
<1>5. Cardinality(RowsOf(rows) \cup new) = Cardinality(RowsOf(rows)) + Cardinality(new) - Cardinality(RowsOf(rows) \cap new)
  BY <1>1, <1>2, FS_Union
<1>6. Cardinality(RowsOf(rows) \cap new) = 0
  BY <1>4, FS_EmptySet
<1>7. Cardinality(RowsOf(more)) = Cardinality(RowsOf(rows)) + k
  <2>1. Cardinality(RowsOf(more)) = Cardinality(RowsOf(rows)) + k - 0
    BY <1>2, <1>3, <1>5, <1>6
  <2>2. Cardinality(RowsOf(rows)) \in Nat
    BY <1>1 DEF TotalOf
  <2> HIDE DEF more
  <2>. QED BY <1>0, <2>1, <2>2
<1>. QED BY <1>7 DEF TotalOf

\* The tables, and the states of a run before it touches them.
LEMMA TablesFacts ==
  ASSUME RunAssumption
  PROVE  /\ 1 \in Tables /\ Tables \subseteq Nat /\ Tables # {}
         /\ Queued \in [Tables -> TableStates] /\ Queued \in [Tables -> RecordStates]
         /\ NoRows \in [Tables -> 0 .. Want] /\ Full \in [Tables -> 0 .. Want] /\ NoRows # Full
         /\ NoRows \in [Tables -> 0 .. Unknown] /\ Full \in [Tables -> 0 .. Unknown]
         /\ Unknown \in Nat /\ Unknown \notin 0 .. Want /\ 0 .. Want \subseteq 0 .. Unknown
<1>1. 1 \in Tables /\ Tables \subseteq Nat /\ Tables # {}
  BY DEF RunAssumption, Tables
<1>2. Unknown \in Nat /\ Unknown \notin 0 .. Want /\ 0 .. Want \subseteq 0 .. Unknown
  BY DEF RunAssumption, Unknown
<1>3. NoRows[1] # Full[1]
  BY <1>1 DEF RunAssumption, NoRows, Full
<1>4. Queued \in [Tables -> TableStates] /\ Queued \in [Tables -> RecordStates]
  BY <1>2 DEF Queued, TableStates, RecordStates, RunAssumption
<1>. QED BY <1>1, <1>2, <1>3, <1>4 DEF NoRows, Full, RunAssumption

LEMMA RunInitInv == ASSUME RunAssumption, RunInit PROVE RunInv
<1>1. RunTypeOK
  <2>1. NoRecord \in Records
    BY TablesFacts DEF NoRecord, Records
  <2>2. /\ pc \in Places /\ mode \in Modes /\ job \in {"none", "running", "done", "error"}
        /\ cur \in 1 .. N + 1 /\ total \in Nat
    BY DEF RunInit, Places, RunAssumption
  <2>4. failed \in BOOLEAN /\ committed \in BOOLEAN /\ old \in BOOLEAN
    BY Zenon DEF RunInit
  <2>5. {sources, reviewed, erased, faults, deaths} \subseteq Nat
    BY DEF RunInit
  <2>3. /\ mem \in [Tables -> TableStates]
        /\ db \in [Tables -> 0 .. Want] /\ staged \in [Tables -> 0 .. Want]
    BY TablesFacts DEF RunInit
  <2>. QED BY <2>1, <2>2, <2>3, <2>4, <2>5 DEF RunInit, RunTypeOK
<1>2. /\ rec.status = "none" /\ ~rec.exact /\ ~rec.committed
      /\ \A t \in Tables : rec.tables[t].status = "queued"
  <2>1. rec = [status |-> "none", tables |-> Queued, total |-> 0, exact |-> FALSE, committed |-> FALSE]
    BY DEF RunInit, NoRecord
  <2>. QED BY <2>1 DEF Queued
<1>3. pc = "idle" /\ ~failed /\ ~committed /\ old /\ job = "none"
  BY DEF RunInit
<1>4. NothingYet /\ AppendInOrder /\ AtomicInTransaction /\ KnownAtTheEnd
  BY <1>3 DEF RunInit, NothingYet, AppendInOrder, AtomicInTransaction, KnownAtTheEnd, Early
<1>5. RecordFollows /\ CountsAreTrue
  BY <1>1, <1>2, <1>3 DEF RecordFollows, CountsAreTrue, CountsAreExact, SuccessfulTablesAreCommitted, JobAgrees
<1>6. Atomicity /\ AllOrNothing /\ ErasedAsReviewed
  BY <1>2, <1>3 DEF RunInit, Atomicity, AllOrNothing, ErasedAsReviewed
<1>. QED BY <1>3, <1>4, <1>5, <1>6 DEF RunInv

\* What an update of the record leaves alone.
LEMMA RecordUpdates ==
  ASSUME RunAssumption, RunTypeOK,
         NEW s \in {"queued", "running", "error", "interrupted"},
         NEW tables \in [Tables -> RecordStates], NEW k \in Nat
  PROVE  /\ [rec EXCEPT !.status = s] \in Records
         /\ [rec EXCEPT !.status = s].status = s
         /\ [rec EXCEPT !.status = s].tables = rec.tables
         /\ [rec EXCEPT !.status = s].exact = rec.exact
         /\ [rec EXCEPT !.status = s].committed = rec.committed
         /\ [rec EXCEPT !.tables = tables] \in Records
         /\ [rec EXCEPT !.tables = tables].status = rec.status
         /\ [rec EXCEPT !.tables = tables].tables = tables
         /\ [rec EXCEPT !.tables = tables].exact = rec.exact
         /\ [rec EXCEPT !.tables = tables].committed = rec.committed
         /\ [rec EXCEPT !.tables = tables, !.total = k] \in Records
         /\ [rec EXCEPT !.tables = tables, !.total = k].status = rec.status
         /\ [rec EXCEPT !.tables = tables, !.total = k].tables = tables
         /\ [rec EXCEPT !.tables = tables, !.total = k].exact = rec.exact
         /\ [rec EXCEPT !.tables = tables, !.total = k].committed = rec.committed
BY DEF RunTypeOK, Records

\* As long as the record is open, only its finished tables claim anything.
LEMMA WhileOpen ==
  ASSUME RunAssumption, UNCHANGED <<mode, reviewed>>,
         Atomicity', (~Atomic => old)',
         ~rec.exact', ~rec.committed', rec.status' # "done", job' # "done",
         \A t \in Tables : rec.tables[t].status' = "done" => rec.tables[t].rows' = Want /\ db'[t] = Want
  PROVE  CountsAreExact' /\ SuccessfulTablesAreCommitted' /\ JobAgrees' /\ AllOrNothing' /\ ErasedAsReviewed'
<1>1. CountsAreExact' /\ JobAgrees' /\ SuccessfulTablesAreCommitted'
  BY DEF CountsAreExact, JobAgrees, SuccessfulTablesAreCommitted
<1>2. AllOrNothing' /\ ErasedAsReviewed'
  BY DEF Atomicity, AllOrNothing, ErasedAsReviewed, Atomic
<1>. QED BY <1>1, <1>2

\* What the worker knows while it fills: every table that is not being
\* filled has the rows it has counted.
LEMMA KnownSoFar ==
  ASSUME RunAssumption, RunInv,
         pc \in Early \cup {"next", "fill", "stored", "stage", "fillstaged", "dispose"}
  PROVE  /\ \A t \in Tables :
              /\ mem[t] \in TableStates
              /\ mem[t].status # "running" => mem[t].rows = db[t]
              /\ mem[t].status = "done" => mem[t].rows = Want
              /\ Atomic /\ ~committed => db[t] = 0
         /\ total = TotalOf(db) \/ (Atomic /\ committed)
         /\ committed => db = Full /\ pc = "dispose"
         /\ ~committed /\ Atomic => db = NoRows
<1> USE DEF RunInv
<1>0. mem \in [Tables -> TableStates] /\ db \in [Tables -> 0 .. Want]
  BY DEF RunTypeOK, CountsAreTrue
<1>00. \A t \in Tables : mem[t] \in TableStates
  BY <1>0
<1>1. CASE pc \in Early
  <2>1. mem = Queued /\ total = 0 /\ db = NoRows /\ ~committed
    BY <1>1, Zenon DEF NothingYet
  <2>2. total = TotalOf(db)
    BY <2>1, SumOfNone
  <2>3. \A t \in Tables : mem[t].status = "queued" /\ mem[t].rows = db[t] /\ db[t] = 0
    BY <2>1 DEF Queued, NoRows
  <2>5. \A t \in Tables :
           /\ mem[t] \in TableStates
           /\ mem[t].status # "running" => mem[t].rows = db[t]
           /\ mem[t].status = "done" => mem[t].rows = Want
           /\ Atomic /\ ~committed => db[t] = 0
    BY <1>00, <2>3
  <2>. QED BY <2>1, <2>2, <2>5, Zenon
<1>2. CASE pc \in {"next", "fill", "stored"}
  <2>1. ~Atomic /\ total = TotalOf(db) /\ ~committed
    BY <1>2, Zenon DEF NothingYet, AppendInOrder
  <2>2. ASSUME NEW t \in Tables
        PROVE  /\ mem[t].status # "running" => mem[t].rows = db[t]
               /\ mem[t].status = "done" => mem[t].rows = Want
    <3>1. cur \in Nat /\ t \in Nat
      BY TablesFacts DEF RunTypeOK, CountsAreTrue, RunAssumption
    <3>2. CASE t < cur
      BY <1>2, <3>2 DEF AppendInOrder, Done
    <3>3. CASE t > cur
      BY <1>2, <3>3 DEF AppendInOrder, Waiting
    <3>4. CASE t = cur
      BY <1>2, <3>4 DEF AppendInOrder, Waiting, Filling
    <3>. QED BY <3>1, <3>2, <3>3, <3>4
  <2>3. \A t \in Tables :
           /\ mem[t] \in TableStates
           /\ mem[t].status # "running" => mem[t].rows = db[t]
           /\ mem[t].status = "done" => mem[t].rows = Want
           /\ Atomic /\ ~committed => db[t] = 0
    BY <1>00, <2>1, <2>2
  <2>. QED BY <2>1, <2>3, Zenon
<1>3. CASE pc \in {"stage", "fillstaged"}
  <2>1. Atomic /\ db = NoRows /\ total = 0 /\ ~committed
    BY <1>3, Zenon DEF NothingYet, AtomicInTransaction
  <2>2. ASSUME NEW t \in Tables
        PROVE  mem[t] = Filling \/ mem[t] = Waiting
    <3>1. cur \in Nat /\ t \in Nat
      BY TablesFacts DEF RunTypeOK, CountsAreTrue, RunAssumption
    <3>. QED BY <1>3, <3>1 DEF AtomicInTransaction
  <2>3. total = TotalOf(db)
    BY <2>1, SumOfNone
  <2>4. ASSUME NEW t \in Tables
        PROVE  (mem[t].status # "running" => mem[t].rows = db[t]) /\ mem[t].status # "done" /\ db[t] = 0
    BY <2>1, <2>2 DEF Filling, Waiting, NoRows
  <2>5. \A t \in Tables :
           /\ mem[t] \in TableStates
           /\ mem[t].status # "running" => mem[t].rows = db[t]
           /\ mem[t].status = "done" => mem[t].rows = Want
           /\ Atomic /\ ~committed => db[t] = 0
    BY <1>00, <2>4
  <2>. QED BY <2>1, <2>3, <2>5, Zenon
<1>4. CASE pc = "dispose"
  BY <1>0, <1>4, TablesFacts DEF AtomicInTransaction, Done, Full
<1>. QED BY <1>1, <1>2, <1>3, <1>4

\* A failed run tells what it has committed, or that it does not know.
LEMMA FailKeeps ==
  ASSUME RunAssumption, RunInv, NEW tables \in [Tables -> TableStates],
         pc \in {"recheck", "mark", "begin", "next", "fill", "stored", "stage", "fillstaged", "dispose"},
         \A t \in Tables : tables[t].status # "running" => tables[t] = mem[t],
         \A t \in Tables : tables[t] # mem[t] => mem[t].status = "queued" /\ pc # "dispose",
         FailRun(tables), db' \in [Tables -> 0 .. Want],
         \A t \in Tables : tables[t].status # "running" \/ Atomic => db'[t] = db[t],
         UNCHANGED <<rec, job, old, erased, mode, sources, reviewed, deaths>>, faults' \in Nat
  PROVE  RunInv'
<1>1. RunTypeOK /\ RecordFollows /\ Atomicity /\ (~Atomic => old)
  BY DEF RunInv, CountsAreTrue
<1>2. pc' = "terminal" /\ failed' = TRUE /\ staged' = NoRows /\ cur' = cur /\ (committed' <=> committed)
  BY DEF FailRun, Goto
<1>3. /\ mem' \in [Tables -> TableStates]
      /\ \A t \in Tables : mem'[t] = IF tables[t].status = "running"
                                     THEN [status |-> "error", rows |-> RowsOfFailed] ELSE tables[t]
  BY TablesFacts DEF FailRun, TableStates, RowsOfFailed
<1>4. [t \in Tables |-> tables[t].rows] \in [Tables -> 0 .. Unknown]
  BY DEF TableStates
<1>5. total' \in Nat
  BY <1>1, <1>4, RowsAreFinite, Zenon DEF FailRun, RunTypeOK
<1>6. RunTypeOK'
  <2>1. committed' \in BOOLEAN /\ failed' \in BOOLEAN /\ old' \in BOOLEAN
    BY <1>1, <1>2, Zenon DEF RunTypeOK, FailRun
  <2>2. staged' \in [Tables -> 0 .. Want]
    BY <1>2, TablesFacts
  <2>. QED BY <1>1, <1>2, <1>3, <1>5, <2>1, <2>2 DEF RunTypeOK, Places
<1>7. /\ \A t \in Tables :
           /\ mem[t] \in TableStates
           /\ mem[t].status # "running" => mem[t].rows = db[t]
           /\ mem[t].status = "done" => mem[t].rows = Want
           /\ Atomic /\ ~committed => db[t] = 0
      /\ total = TotalOf(db) \/ (Atomic /\ committed)
      /\ committed => db = Full /\ pc = "dispose"
      /\ ~committed /\ Atomic => db = NoRows
  BY KnownSoFar DEF Early
<1>8. Atomic => db' = db
  BY <1>1 DEF RunTypeOK
<1>9. committed => \A t \in Tables : mem[t] = Done /\ tables[t] = mem[t]
  BY <1>7 DEF RunInv, AtomicInTransaction
<1>10. KnownAtTheEnd'
  <2>1. ASSUME NEW t \in Tables
        PROVE  /\ mem'[t].status # "running"
               /\ mem'[t].rows # Unknown => mem'[t].rows = db'[t]
               /\ mem'[t].status = "done" => mem'[t].rows = Want
    <3>1. CASE tables[t].status = "running"
      <4>1. mem'[t] = [status |-> "error", rows |-> RowsOfFailed]
        BY <1>3, <3>1
      <4>2. CASE Atomic
        <5>1. ~committed /\ db[t] = 0
          BY <1>7, <1>9, <3>1, <4>2 DEF Done
        <5>. QED BY <1>8, <4>1, <4>2, <5>1 DEF RowsOfFailed
      <4>3. CASE ~Atomic
        BY <4>1, <4>3 DEF RowsOfFailed
      <4>. QED BY <4>2, <4>3
    <3>2. CASE tables[t].status # "running"
      BY <1>3, <1>7, <3>2
    <3>. QED BY <3>1, <3>2
  <2>2. (\A t \in Tables : mem'[t].rows # Unknown) => total' = TotalOf(db')
    <3>1. CASE Atomic /\ committed
      <4>1. total' = TotalOf([t \in Tables |-> tables[t].rows])
        BY <3>1 DEF FailRun
      <4>2. [t \in Tables |-> tables[t].rows] = Full
        BY <1>9, <3>1 DEF Done, Full
      <4>. QED BY <1>7, <1>8, <3>1, <4>1, <4>2
    <3>2. CASE ~(Atomic /\ committed)
      <4>1. total' = total
        BY <3>2 DEF FailRun
      <4>2. ASSUME \A t \in Tables : mem'[t].rows # Unknown PROVE db' = db
        <5>1. CASE Atomic
          BY <1>8, <5>1
        <5>2. CASE ~Atomic
          <6>1. \A t \in Tables : tables[t].status # "running"
            BY <1>3, <4>2, <5>2 DEF RowsOfFailed
          <6>. QED BY <1>1, <6>1 DEF RunTypeOK
        <5>. QED BY <5>1, <5>2
      <4>. QED BY <1>7, <3>2, <4>1, <4>2
    <3>. QED BY <3>1, <3>2
  <2>3. Atomic' => (committed' <=> db' = Full)
    BY <1>2, <1>7, <1>8, TablesFacts DEF Atomic
  <2>. QED BY <1>2, <2>1, <2>2, <2>3 DEF KnownAtTheEnd
<1>11. NothingYet' /\ AppendInOrder' /\ AtomicInTransaction'
  BY <1>2 DEF NothingYet, AppendInOrder, AtomicInTransaction, Early
<1>12. RecordFollows'
  BY <1>1, <1>2 DEF RecordFollows
<1>13. Atomicity' /\ (~Atomic => old)'
  BY <1>1, <1>8 DEF Atomicity, Atomic
<1>14. \A t \in Tables : rec.tables[t].status' = "done" => rec.tables[t].rows' = Want /\ db'[t] = Want
  <2>1. ASSUME NEW t \in Tables, rec.tables[t].status = "done"
        PROVE  rec.tables[t].rows = Want /\ db'[t] = Want
    <3>1. rec.tables[t].rows = Want /\ db[t] = Want /\ mem[t].status = "done"
      BY <1>1, <2>1 DEF RunInv, CountsAreTrue, SuccessfulTablesAreCommitted, RecordFollows
    <3>. QED BY <3>1
  <2>. QED BY <2>1
<1>15. ~rec.exact' /\ ~rec.committed' /\ rec.status' # "done" /\ job' # "done"
  BY <1>1 DEF RecordFollows
<1>16. CountsAreExact' /\ SuccessfulTablesAreCommitted' /\ JobAgrees' /\ AllOrNothing' /\ ErasedAsReviewed'
  BY <1>13, <1>14, <1>15, WhileOpen
<1>. QED BY <1>6, <1>10, <1>11, <1>12, <1>13, <1>16 DEF RunInv, CountsAreTrue

\* A failure outside of a table leaves the tables of the database alone.
LEMMA FailAtRestKeeps ==
  ASSUME RunAssumption, RunInv, FailAtRest(mem),
         pc \in {"recheck", "mark", "begin", "next", "fill", "stored", "stage", "fillstaged", "dispose"},
         UNCHANGED <<rec, job, mode, sources, reviewed, deaths>>, faults' \in Nat
  PROVE  RunInv'
<1>1. mem \in [Tables -> TableStates] /\ db \in [Tables -> 0 .. Want]
  BY DEF RunInv, CountsAreTrue, RunTypeOK
<1>2. FailRun(mem) /\ db' = db /\ UNCHANGED <<old, erased>>
  BY DEF FailAtRest, RolledBack
<1>. QED BY <1>1, <1>2, FailKeeps

\* Until the worker starts, the request writes to the record and nothing else.
LEMMA RequestKeeps ==
  ASSUME RunAssumption, RunInv,
         pc \in {"create", "launch", "load", "lost"},
         pc' \in {"launch", "load", "lost", "recheck", "ended"},
         UNCHANGED <<progress, target, rest>>, faults' \in Nat,
         rec' \in Records, ~rec'.exact, ~rec'.committed, rec'.status # "done",
         job' \in {"none", "running", "error"}, pc' # "ended" => job' = "running",
         \A t \in Tables : rec'.tables[t].status = "done" =>
           rec.tables[t].status = "done" /\ rec'.tables[t].rows = rec.tables[t].rows
  PROVE  RunInv'
<1>1. RunTypeOK /\ NothingYet /\ RecordFollows /\ SuccessfulTablesAreCommitted /\ (~Atomic => old)
  BY DEF RunInv, CountsAreTrue
<1>2. /\ mem' = mem /\ cur' = cur /\ total' = total /\ failed' = failed /\ committed' = committed
      /\ db' = db /\ staged' = staged /\ old' = old /\ erased' = erased /\ mode' = mode
      /\ sources' = sources /\ reviewed' = reviewed /\ deaths' = deaths
  BY DEF progress, target, rest
<1>3. RunTypeOK'
  <2>1. committed' \in BOOLEAN /\ failed' \in BOOLEAN /\ old' \in BOOLEAN
    BY <1>1, <1>2, Zenon DEF RunTypeOK
  <2>. QED BY <1>1, <1>2, <2>1 DEF RunTypeOK, Places
<1>4. /\ mem = Queued /\ cur = 1 /\ total = 0 /\ db = NoRows /\ staged = NoRows
      /\ ~failed /\ ~committed /\ old
  <2>1. pc \in Early /\ pc \notin {"stage", "fillstaged"}
    BY DEF Early
  <2>. QED BY <1>1, <2>1, Zenon DEF NothingYet
<1>5. NothingYet'
  <2>1. pc' # "idle"
    OBVIOUS
  <2>. QED BY <1>2, <1>4, <2>1, Zenon DEF NothingYet
<1>6. AppendInOrder' /\ AtomicInTransaction' /\ KnownAtTheEnd'
  BY DEF AppendInOrder, AtomicInTransaction, KnownAtTheEnd
<1>7. \A t \in Tables : rec'.tables[t].status # "done"
  <2>1. \A t \in Tables : rec.tables[t].status = "done" => mem[t].status = "done"
    BY <1>1 DEF RecordFollows
  <2>. QED BY <1>4, <2>1 DEF Queued
<1>8. RecordFollows'
  BY <1>7 DEF RecordFollows
<1>9. Atomicity' /\ (~Atomic => old)'
  BY <1>2, <1>4, Zenon DEF Atomicity, Atomic
<1>10. CountsAreExact' /\ SuccessfulTablesAreCommitted' /\ JobAgrees' /\ AllOrNothing' /\ ErasedAsReviewed'
  BY <1>2, <1>7, <1>9, WhileOpen
<1>. QED BY <1>3, <1>5, <1>6, <1>8, <1>9, <1>10 DEF RunInv, CountsAreTrue

\* The types of what a progress of the worker leaves alone.
LEMMA TypesKept ==
  ASSUME RunAssumption, RunTypeOK, UNCHANGED <<job, rest>>, faults' \in Nat,
         pc' \in Places, rec' \in Records, mem' \in [Tables -> TableStates],
         cur' \in 1 .. N + 1, total' \in Nat, erased' \in Nat,
         db' \in [Tables -> 0 .. Want], staged' \in [Tables -> 0 .. Want],
         failed' \in BOOLEAN, committed' \in BOOLEAN, old' \in BOOLEAN
  PROVE  RunTypeOK'
BY DEF RunTypeOK, rest

LEMMA AcceptKeeps == ASSUME RunAssumption, RunInv, Accept PROVE RunInv'
<1> USE DEF RunInv, CountsAreTrue
<1>1. RunTypeOK'
  BY TablesFacts DEF Accept, Goto, Saved, NotSaved, progress, target, rest, SourcesUnchanged, Atomic, RunTypeOK, Places
<1>2. NothingYet'
  BY DEF Accept, Goto, Saved, NotSaved, progress, target, rest, SourcesUnchanged, Atomic, NothingYet, Early
<1>3. AppendInOrder'
  BY DEF Accept, Goto, Saved, NotSaved, progress, target, rest, SourcesUnchanged, Atomic, AppendInOrder
<1>4. AtomicInTransaction'
  BY DEF Accept, Goto, Saved, NotSaved, progress, target, rest, SourcesUnchanged, Atomic, AtomicInTransaction, NothingYet, Early
<1>5. KnownAtTheEnd'
  BY DEF Accept, Goto, Saved, NotSaved, progress, target, rest, SourcesUnchanged, Atomic, KnownAtTheEnd
<1>6. RecordFollows'
  BY DEF Accept, Goto, Saved, NotSaved, progress, target, rest, SourcesUnchanged, Atomic, RecordFollows, NothingYet
<1>7. CountsAreExact' /\ SuccessfulTablesAreCommitted'
  BY DEF Accept, Goto, Saved, NotSaved, progress, target, rest, SourcesUnchanged, Atomic, RecordFollows, CountsAreExact, SuccessfulTablesAreCommitted
<1>8. JobAgrees'
  BY DEF Accept, Goto, Saved, NotSaved, progress, target, rest, SourcesUnchanged, Atomic, RecordFollows, JobAgrees
<1>9. Atomicity' /\ (~Atomic => old)'
  BY DEF Accept, Goto, Saved, NotSaved, progress, target, rest, SourcesUnchanged, Atomic, Atomicity
<1>10. AllOrNothing' /\ ErasedAsReviewed'
  BY DEF Accept, Goto, Saved, NotSaved, progress, target, rest, SourcesUnchanged, Atomic, RecordFollows, AllOrNothing, ErasedAsReviewed
<1>. QED BY <1>1, <1>2, <1>3, <1>4, <1>5, <1>6, <1>7, <1>8, <1>9, <1>10

LEMMA RefuseKeeps == ASSUME RunAssumption, RunInv, Refuse PROVE RunInv'
<1> USE DEF RunInv, CountsAreTrue
<1>1. RunTypeOK'
  BY TablesFacts DEF Refuse, Goto, Saved, NotSaved, progress, target, rest, SourcesUnchanged, Atomic, RunTypeOK, Places
<1>2. NothingYet'
  BY DEF Refuse, Goto, Saved, NotSaved, progress, target, rest, SourcesUnchanged, Atomic, NothingYet, Early
<1>3. AppendInOrder'
  BY DEF Refuse, Goto, Saved, NotSaved, progress, target, rest, SourcesUnchanged, Atomic, AppendInOrder
<1>4. AtomicInTransaction'
  BY DEF Refuse, Goto, Saved, NotSaved, progress, target, rest, SourcesUnchanged, Atomic, AtomicInTransaction, NothingYet, Early
<1>5. KnownAtTheEnd'
  BY DEF Refuse, Goto, Saved, NotSaved, progress, target, rest, SourcesUnchanged, Atomic, KnownAtTheEnd
<1>6. RecordFollows'
  BY DEF Refuse, Goto, Saved, NotSaved, progress, target, rest, SourcesUnchanged, Atomic, RecordFollows, NothingYet
<1>7. CountsAreExact' /\ SuccessfulTablesAreCommitted'
  BY DEF Refuse, Goto, Saved, NotSaved, progress, target, rest, SourcesUnchanged, Atomic, RecordFollows, CountsAreExact, SuccessfulTablesAreCommitted
<1>8. JobAgrees'
  BY DEF Refuse, Goto, Saved, NotSaved, progress, target, rest, SourcesUnchanged, Atomic, RecordFollows, JobAgrees
<1>9. Atomicity' /\ (~Atomic => old)'
  BY DEF Refuse, Goto, Saved, NotSaved, progress, target, rest, SourcesUnchanged, Atomic, Atomicity
<1>10. AllOrNothing' /\ ErasedAsReviewed'
  BY DEF Refuse, Goto, Saved, NotSaved, progress, target, rest, SourcesUnchanged, Atomic, RecordFollows, AllOrNothing, ErasedAsReviewed
<1>. QED BY <1>1, <1>2, <1>3, <1>4, <1>5, <1>6, <1>7, <1>8, <1>9, <1>10

LEMMA CreateRecordKeeps == ASSUME RunAssumption, RunInv, CreateRecord PROVE RunInv'
<1>1. RunTypeOK /\ RecordFollows /\ pc = "create"
  BY DEF RunInv, CountsAreTrue, CreateRecord
<1>2. ~rec.exact /\ ~rec.committed /\ rec.status # "done" /\ job = "running" /\ rec \in Records
  BY <1>1 DEF RecordFollows, RunTypeOK
<1>3. UNCHANGED <<progress, target, rest>> /\ faults' \in Nat
  BY <1>1 DEF CreateRecord, Saved, NotSaved, RunTypeOK
<1>4. CASE Saved([NoRecord EXCEPT !.status = "queued"]) /\ Goto("launch") /\ UNCHANGED job
  <2>1. rec' = [status |-> "queued", tables |-> Queued, total |-> 0, exact |-> FALSE, committed |-> FALSE]
    BY <1>4 DEF Saved, NoRecord
  <2>2. rec' \in Records
    BY <2>1, TablesFacts DEF Records
  <2>3. \A t \in Tables : rec'.tables[t].status # "done"
    BY <2>1 DEF Queued
  <2>4. ~rec'.exact /\ ~rec'.committed /\ rec'.status # "done"
    BY <2>1
  <2>. QED BY <1>1, <1>2, <1>3, <1>4, <2>2, <2>3, <2>4, RequestKeeps DEF Goto
<1>5. CASE NotSaved /\ Goto("ended") /\ job' = "error"
  <2>1. rec' = rec
    BY <1>5 DEF NotSaved
  <2>. QED BY <1>1, <1>2, <1>3, <1>5, <2>1, RequestKeeps DEF Goto
<1>. QED BY <1>4, <1>5 DEF CreateRecord

LEMMA LaunchKeeps == ASSUME RunAssumption, RunInv, Launch PROVE RunInv'
<1>1. RunTypeOK /\ RecordFollows /\ pc = "launch"
  BY DEF RunInv, CountsAreTrue, Launch
<1>2. ~rec.exact /\ ~rec.committed /\ rec.status # "done" /\ job = "running" /\ rec \in Records
  BY <1>1 DEF RecordFollows, RunTypeOK
<1>3. UNCHANGED <<progress, target, rest>> /\ faults' \in Nat
  BY <1>1 DEF Launch, Saved, NotSaved, RunTypeOK
<1>4. CASE Goto("load") /\ UNCHANGED <<job, rec, faults>>
  BY <1>1, <1>2, <1>3, <1>4, RequestKeeps DEF Goto
<1>5. CASE (Saved([rec EXCEPT !.status = "error"]) \/ NotSaved) /\ Goto("ended") /\ job' = JobOfFailedStart
  <2>1. Queued \in [Tables -> RecordStates] /\ 0 \in Nat
    BY TablesFacts
  <2>2. /\ rec' \in Records /\ rec'.tables = rec.tables /\ rec'.status # "done"
        /\ ~rec'.exact /\ ~rec'.committed
    BY <1>1, <1>2, <1>5, <2>1, RecordUpdates DEF Saved, NotSaved
  <2>. QED BY <1>1, <1>3, <1>5, <2>2, RequestKeeps DEF Goto, JobOfFailedStart
<1>. QED BY <1>4, <1>5 DEF Launch

LEMMA LoadRunKeeps == ASSUME RunAssumption, RunInv, LoadRun PROVE RunInv'
<1>1. RunTypeOK /\ RecordFollows /\ pc = "load"
  BY DEF RunInv, CountsAreTrue, LoadRun
<1>2. ~rec.exact /\ ~rec.committed /\ rec.status # "done" /\ job = "running" /\ rec \in Records
  BY <1>1 DEF RecordFollows, RunTypeOK
<1>3. UNCHANGED <<progress, target, rest, job, rec>> /\ faults' \in Nat /\ pc' \in {"recheck", "lost"}
  BY <1>1 DEF LoadRun, RunTypeOK, Goto
<1>. QED BY <1>1, <1>2, <1>3, RequestKeeps

LEMMA SnapshotFailureKeeps == ASSUME RunAssumption, RunInv, SnapshotFailure PROVE RunInv'
<1>1. RunTypeOK /\ RecordFollows /\ pc = "lost"
  BY DEF RunInv, CountsAreTrue, SnapshotFailure
<1>2. ~rec.exact /\ ~rec.committed /\ rec.status # "done" /\ job = "running" /\ rec \in Records
  BY <1>1 DEF RecordFollows, RunTypeOK
<1>3. UNCHANGED <<progress, target, rest>> /\ faults' \in Nat
  BY <1>1 DEF SnapshotFailure, Saved, NotSaved, RunTypeOK
<1>4. Queued \in [Tables -> RecordStates] /\ 0 \in Nat
  BY TablesFacts
<1>5. /\ rec' \in Records /\ rec'.tables = rec.tables /\ rec'.status # "done"
      /\ ~rec'.exact /\ ~rec'.committed
  BY <1>1, <1>2, <1>4, RecordUpdates DEF SnapshotFailure, Saved, NotSaved
<1>. QED BY <1>1, <1>3, <1>5, RequestKeeps DEF SnapshotFailure, Goto

LEMMA CurrentRunCheckKeeps == ASSUME RunAssumption, RunInv, CurrentRunCheck PROVE RunInv'
<1>1. RunTypeOK /\ NothingYet /\ RecordFollows /\ pc = "recheck" /\ UNCHANGED <<job, rec, rest, faults>>
  BY DEF RunInv, CountsAreTrue, CurrentRunCheck
<1>2. CASE FailAtRest(mem)
  BY <1>1, <1>2, FailAtRestKeeps DEF rest, RunTypeOK
<1>3. CASE Goto("mark") /\ UNCHANGED <<progress, target>>
  <2>1. RunTypeOK'
    <3>1. failed' \in BOOLEAN /\ committed' \in BOOLEAN /\ old' \in BOOLEAN
      BY <1>1, <1>3, Zenon DEF RunTypeOK, progress, target
    <3>. QED BY <1>1, <1>3, <3>1 DEF RunTypeOK, Places, Goto, progress, target, rest
  <2>2. NothingYet'
    BY <1>1, <1>3 DEF NothingYet, Early, Goto, progress, target
  <2>3. AppendInOrder' /\ AtomicInTransaction' /\ KnownAtTheEnd'
    BY <1>3 DEF AppendInOrder, AtomicInTransaction, KnownAtTheEnd, Goto
  <2>4. RecordFollows'
    BY <1>1, <1>3 DEF RecordFollows, Goto, progress
  <2>5. Atomicity' /\ (~Atomic => old)' /\ CountsAreExact' /\ SuccessfulTablesAreCommitted' /\ JobAgrees'
    BY <1>1, <1>3 DEF RunInv, CountsAreTrue, Atomicity, Atomic, CountsAreExact,
       SuccessfulTablesAreCommitted, JobAgrees, progress, target, rest
  <2>6. AllOrNothing' /\ ErasedAsReviewed'
    BY <1>1, <1>3 DEF RunInv, AllOrNothing, ErasedAsReviewed, Atomic, target, rest
  <2>. QED BY <2>1, <2>2, <2>3, <2>4, <2>5, <2>6 DEF RunInv, CountsAreTrue
<1>. QED BY <1>2, <1>3 DEF CurrentRunCheck

LEMMA MarkRunningKeeps == ASSUME RunAssumption, RunInv, MarkRunning PROVE RunInv'
<1>1. RunTypeOK /\ NothingYet /\ RecordFollows /\ pc = "mark" /\ UNCHANGED <<job, rest>>
  BY DEF RunInv, CountsAreTrue, MarkRunning
<1>2. CASE NotSaved /\ FailAtRest(mem)
  BY <1>1, <1>2, FailAtRestKeeps DEF rest, NotSaved, RunTypeOK
<1>3. CASE /\ Saved([rec EXCEPT !.status = "running"])
           /\ Goto(IF Atomic THEN "begin" ELSE "next") /\ UNCHANGED <<progress, target>>
  <2>1. Queued \in [Tables -> RecordStates] /\ 0 \in Nat
    BY TablesFacts
  <2>2. /\ rec' \in Records /\ rec'.tables = rec.tables /\ rec'.status # "done"
        /\ ~rec'.exact /\ ~rec'.committed /\ job' # "done" /\ faults' = faults
    BY <1>1, <1>3, <2>1, RecordUpdates DEF Saved, RecordFollows
  <2>3. /\ mem = Queued /\ cur = 1 /\ total = 0 /\ db = NoRows /\ staged = NoRows
        /\ ~failed /\ ~committed /\ old
    <3>1. pc \in Early /\ pc \notin {"stage", "fillstaged"}
      BY <1>1 DEF Early
    <3>. QED BY <1>1, <3>1, Zenon DEF NothingYet
  <2>4. /\ mem' = Queued /\ cur' = 1 /\ total' = 0 /\ db' = NoRows /\ staged' = NoRows
        /\ failed' = failed /\ committed' = committed /\ old' = old /\ erased' = erased
        /\ mode' = mode /\ reviewed' = reviewed
    BY <1>1, <1>3, <2>3 DEF progress, target, rest
  <2>5. \A t \in Tables : rec'.tables[t].status # "done"
    <3>1. \A t \in Tables : rec.tables[t].status = "done" => mem[t].status = "done"
      BY <1>1 DEF RecordFollows
    <3>. QED BY <2>2, <2>3, <3>1 DEF Queued
  <2>6. RunTypeOK'
    <3>1. failed' \in BOOLEAN /\ committed' \in BOOLEAN /\ old' \in BOOLEAN /\ erased' \in Nat
      BY <1>1, <2>4 DEF RunTypeOK
    <3>2. pc' \in Places /\ faults' \in Nat /\ 1 \in 1 .. N + 1
      BY <1>1, <1>3, <2>2 DEF RunTypeOK, Goto, Places, RunAssumption
    <3>. QED BY <1>1, <2>2, <2>4, <3>1, <3>2, TablesFacts, TypesKept
  <2>7. NothingYet'
    <3>1. pc' # "idle"
      BY <1>3 DEF Goto
    <3>. QED BY <2>3, <2>4, <3>1, Zenon DEF NothingYet
  <2>8. AppendInOrder'
    <3>1. total' = TotalOf(db')
      BY <2>4, SumOfNone
    <3>2. pc' \notin {"fill", "stored"}
      BY <1>3 DEF Goto
    <3>3. \A t \in Tables : ~(t < 1) /\ mem'[t] = Waiting /\ db'[t] = 0
      BY <2>4, TablesFacts DEF Queued, NoRows, Waiting, Tables
    <3>4. pc' = "next" => ~Atomic'
      BY <1>3, <2>4 DEF Goto, Atomic
    <3>. QED BY <2>4, <3>1, <3>2, <3>3, <3>4 DEF AppendInOrder
  <2>9. AtomicInTransaction' /\ KnownAtTheEnd'
    BY <1>3, <2>4 DEF AtomicInTransaction, KnownAtTheEnd, Goto, Atomic
  <2>10. RecordFollows'
    BY <1>1, <1>3, <2>2, <2>5 DEF RecordFollows, Goto
  <2>11. Atomicity' /\ (~Atomic => old)'
    BY <2>3, <2>4, Zenon DEF Atomicity, Atomic
  <2>12. CountsAreExact' /\ SuccessfulTablesAreCommitted' /\ JobAgrees' /\ AllOrNothing' /\ ErasedAsReviewed'
    BY <2>2, <2>4, <2>5, <2>11, WhileOpen
  <2>. QED BY <2>6, <2>7, <2>8, <2>9, <2>10, <2>11, <2>12 DEF RunInv, CountsAreTrue
<1>. QED BY <1>2, <1>3 DEF MarkRunning

LEMMA NextTableKeeps == ASSUME RunAssumption, RunInv, NextTable PROVE RunInv'
<1> DEFINE announced == [mem EXCEPT ![cur].status = "running"]
<1>1. /\ RunTypeOK /\ NothingYet /\ RecordFollows /\ AppendInOrder /\ AtomicInTransaction
      /\ SuccessfulTablesAreCommitted /\ Atomicity /\ (~Atomic => old)
      /\ pc \in {"next", "stage"} /\ cur <= N /\ UNCHANGED <<job, rest>>
  BY DEF RunInv, CountsAreTrue, NextTable
<1>2. cur \in Tables /\ Tables \subseteq Nat
  BY <1>1, TablesFacts DEF RunTypeOK, Tables, RunAssumption
<1>3. mem[cur] = Waiting /\ db[cur] = 0
  <2>1. CASE pc = "next"
    BY <1>1, <1>2, <2>1 DEF AppendInOrder
  <2>2. CASE pc = "stage"
    BY <1>1, <1>2, <2>2 DEF AtomicInTransaction, NoRows
  <2>. QED BY <1>1, <2>1, <2>2
<1>4. /\ announced \in [Tables -> TableStates] /\ announced[cur] = Filling
      /\ \A t \in Tables : t # cur => announced[t] = mem[t]
  <2>1. mem \in [Tables -> TableStates]
    BY <1>1 DEF RunTypeOK
  <2>2. announced[cur] = Filling
    BY <1>2, <1>3, <2>1 DEF Waiting, Filling
  <2>3. Filling \in TableStates
    BY TablesFacts DEF Filling, TableStates
  <2>. QED BY <2>1, <2>2, <2>3
<1>5. announced \in [Tables -> RecordStates]
  BY <1>4 DEF TableStates, RecordStates
<1>6. CASE NotSaved /\ FailAtRest(announced)
  <2>1. /\ \A t \in Tables : announced[t].status # "running" => announced[t] = mem[t]
        /\ \A t \in Tables : announced[t] # mem[t] => mem[t].status = "queued" /\ pc # "dispose"
    BY <1>1, <1>3, <1>4 DEF Filling, Waiting
  <2>2. db' = db /\ db' \in [Tables -> 0 .. Want] /\ faults' \in Nat
    BY <1>1, <1>6 DEF FailAtRest, RolledBack, RunTypeOK, NotSaved
  <2>3. FailRun(announced) /\ UNCHANGED <<rec, job, old, erased, mode, sources, reviewed, deaths>>
    BY <1>1, <1>6 DEF FailAtRest, NotSaved, rest
  <2> HIDE DEF announced
  <2>. QED BY <1>1, <1>4, <2>1, <2>2, <2>3, FailKeeps
<1>7. CASE /\ Saved([rec EXCEPT !.tables = announced])
           /\ mem' = announced /\ Goto(IF Atomic THEN "fillstaged" ELSE "fill")
           /\ UNCHANGED <<cur, total, failed, committed, target>>
  <2> HIDE DEF announced
  <2>1. 0 \in Nat /\ "queued" \in {"queued", "running", "error", "interrupted"}
    OBVIOUS
  <2>2. /\ rec' \in Records /\ rec'.tables = announced /\ rec'.status # "done"
        /\ ~rec'.exact /\ ~rec'.committed /\ job' # "done" /\ faults' = faults
    BY <1>1, <1>5, <1>7, <2>1, RecordUpdates DEF Saved, RecordFollows
  <2>3. /\ mem' = announced /\ cur' = cur /\ total' = total /\ db' = db /\ staged' = staged
        /\ failed' = failed /\ committed' = committed /\ old' = old /\ erased' = erased
        /\ mode' = mode /\ reviewed' = reviewed
    BY <1>1, <1>7 DEF target, rest
  <2>4. ~failed /\ ~committed /\ old
    <3>1. pc \in Early \cup {"next", "fill", "stored", "stage", "fillstaged"}
      BY <1>1
    <3>. QED BY <1>1, <3>1, Zenon DEF NothingYet
  <2>5. RunTypeOK'
    <3>1. failed' \in BOOLEAN /\ committed' \in BOOLEAN /\ old' \in BOOLEAN
      BY <1>1, <2>3 DEF RunTypeOK
    <3>2. /\ pc' \in Places /\ faults' \in Nat /\ cur' \in 1 .. N + 1 /\ erased' \in Nat
          /\ total' \in Nat /\ db' \in [Tables -> 0 .. Want] /\ staged' \in [Tables -> 0 .. Want]
      BY <1>1, <1>7, <2>2, <2>3 DEF RunTypeOK, Goto, Places
    <3>. QED BY <1>1, <1>4, <2>2, <2>3, <3>1, <3>2, TypesKept
  <2>6. NothingYet'
    <3>1. pc' \in {"fill", "fillstaged"} /\ (pc' = "fill" => pc = "next")
      BY <1>1, <1>7 DEF Goto, AtomicInTransaction, AppendInOrder
    <3>2. pc' = "fill" => staged' = NoRows
      BY <1>1, <2>3, <3>1 DEF NothingYet
    <3>. QED BY <2>3, <2>4, <3>1, <3>2, Zenon DEF NothingYet, Early
  <2>7. AppendInOrder'
    <3>1. CASE pc' = "fill"
      <4>1. pc = "next"
        BY <1>1, <1>7, <3>1 DEF Goto, AtomicInTransaction
      <4>. QED BY <1>1, <1>2, <1>3, <1>4, <2>3, <3>1, <4>1 DEF AppendInOrder, Atomic
    <3>. QED BY <1>7, <3>1 DEF AppendInOrder, Goto
  <2>8. AtomicInTransaction'
    <3>1. CASE pc' = "fillstaged"
      <4>1. pc = "stage"
        BY <1>1, <1>7, <3>1 DEF Goto, AppendInOrder
      <4>. QED BY <1>1, <1>2, <1>4, <2>3, <3>1, <4>1 DEF AtomicInTransaction, Atomic
    <3>. QED BY <1>7, <3>1 DEF AtomicInTransaction, Goto
  <2>9. KnownAtTheEnd'
    BY <1>7 DEF KnownAtTheEnd, Goto
  <2>10. RecordFollows'
    BY <1>1, <1>7, <2>2, <2>3 DEF RecordFollows, Goto
  <2>11. Atomicity' /\ (~Atomic => old)'
    BY <1>1, <2>3, <2>4, Zenon DEF Atomicity, Atomic
  <2>12. ASSUME NEW t \in Tables, rec'.tables[t].status = "done"
         PROVE  rec'.tables[t].rows = Want /\ db'[t] = Want
    <3>1. t # cur /\ mem[t].status = "done" /\ rec'.tables[t] = mem[t]
      BY <1>4, <2>2, <2>12 DEF Filling
    <3>2. CASE pc = "next"
      <4>1. t < cur
        <5>1. ~(t > cur)
          BY <1>1, <3>1, <3>2 DEF AppendInOrder, Waiting
        <5>. QED BY <1>2, <3>1, <5>1
      <4>. QED BY <1>1, <2>3, <3>1, <3>2, <4>1 DEF AppendInOrder, Done
    <3>3. CASE pc = "stage"
      BY <1>1, <1>2, <3>1, <3>3 DEF AtomicInTransaction, Waiting, Filling
    <3>. QED BY <1>1, <3>2, <3>3
  <2>13. CountsAreExact' /\ SuccessfulTablesAreCommitted' /\ JobAgrees' /\ AllOrNothing' /\ ErasedAsReviewed'
    BY <2>2, <2>3, <2>11, <2>12, WhileOpen
  <2>. QED BY <2>5, <2>6, <2>7, <2>8, <2>9, <2>10, <2>11, <2>13 DEF RunInv, CountsAreTrue
<1>. QED BY <1>6, <1>7 DEF NextTable

LEMMA FillKeeps == ASSUME RunAssumption, RunInv, Fill PROVE RunInv'
<1>1. /\ RunTypeOK /\ NothingYet /\ RecordFollows /\ AppendInOrder
      /\ SuccessfulTablesAreCommitted /\ Atomicity /\ (~Atomic => old)
      /\ pc = "fill" /\ UNCHANGED <<job, rec, rest, faults>>
  BY DEF RunInv, CountsAreTrue, Fill
<1>2. cur \in Tables /\ Tables \subseteq Nat
  BY <1>1, TablesFacts DEF RunTypeOK, AppendInOrder, Tables, RunAssumption
<1>3. mem[cur] = Filling /\ db[cur] = 0 /\ ~Atomic /\ total = TotalOf(db)
  BY <1>1, <1>2 DEF AppendInOrder
<1>4. \A t \in Tables : mem[t].status = "running" => t = cur
  BY <1>1, <1>2 DEF AppendInOrder, Done, Waiting
<1>5. PICK k \in 0 .. Want :
        \/ /\ \E s \in {"error"} \cup (IF k = Want THEN {"done"} ELSE {}) :
                mem' = [mem EXCEPT ![cur] = [status |-> s, rows |-> k]]
           /\ db' = [db EXCEPT ![cur] = k] /\ total' = Counted(k)
           /\ Goto("stored") /\ UNCHANGED <<cur, failed, committed, staged, old, erased>>
        \/ FailRun(mem) /\ db' = [db EXCEPT ![cur] = k] /\ UNCHANGED <<old, erased>>
  BY DEF Fill
<1>6. /\ db \in [Tables -> 0 .. Want] /\ mem \in [Tables -> TableStates]
      /\ db' = [db EXCEPT ![cur] = k] /\ db' \in [Tables -> 0 .. Want]
      /\ db'[cur] = k /\ \A t \in Tables : t # cur => db'[t] = db[t]
  BY <1>1, <1>2, <1>5 DEF RunTypeOK
<1>7. CASE FailRun(mem) /\ db' = [db EXCEPT ![cur] = k] /\ UNCHANGED <<old, erased>>
  <2>1. \A t \in Tables : mem[t].status # "running" \/ Atomic => db'[t] = db[t]
    BY <1>3, <1>6 DEF Filling
  <2>2. UNCHANGED <<rec, job, old, erased, mode, sources, reviewed, deaths>> /\ faults' \in Nat
    BY <1>1, <1>7 DEF rest, RunTypeOK
  <2>. QED BY <1>1, <1>6, <1>7, <2>1, <2>2, FailKeeps
<1>8. CASE /\ \E s \in {"error"} \cup (IF k = Want THEN {"done"} ELSE {}) :
                mem' = [mem EXCEPT ![cur] = [status |-> s, rows |-> k]]
           /\ db' = [db EXCEPT ![cur] = k] /\ total' = Counted(k)
           /\ Goto("stored") /\ UNCHANGED <<cur, failed, committed, staged, old, erased>>
  <2>1. PICK s \in {"error"} \cup (IF k = Want THEN {"done"} ELSE {}) :
               mem' = [mem EXCEPT ![cur] = [status |-> s, rows |-> k]]
    BY <1>8
  <2>2. k \in 0 .. Unknown /\ s \in {"error", "done"} /\ (s = "done" => k = Want)
    BY <2>1, TablesFacts
  <2>3. /\ mem' \in [Tables -> TableStates] /\ mem'[cur].status = s /\ mem'[cur].rows = k
        /\ \A t \in Tables : t # cur => mem'[t] = mem[t]
    BY <1>2, <1>6, <2>1, <2>2 DEF TableStates
  <2>4. /\ cur' = cur /\ staged' = staged /\ failed' = failed /\ committed' = committed
        /\ old' = old /\ erased' = erased /\ mode' = mode /\ reviewed' = reviewed /\ rec' = rec
        /\ job' = job /\ pc' = "stored" /\ faults' = faults
    BY <1>1, <1>8 DEF rest, Goto
  <2>5. total' = TotalOf(db') /\ total' \in Nat
    <3>1. db \in [Tables -> 0 .. Unknown]
      BY <1>6, TablesFacts
    <3>2. total' = TotalOf(db) + k
      BY <1>3, <1>8 DEF Counted
    <3>3. TotalOf(db') = TotalOf(db) + k /\ TotalOf(db) \in Nat
      BY <1>2, <1>3, <1>6, <2>2, <3>1, SumOfFilled, RowsAreFinite
    <3>4. k \in Nat
      BY DEF RunAssumption
    <3>. QED BY <3>2, <3>3, <3>4
  <2>6. RunTypeOK'
    <3>1. failed' \in BOOLEAN /\ committed' \in BOOLEAN /\ old' \in BOOLEAN
      BY <1>1, <2>4 DEF RunTypeOK
    <3>2. /\ pc' \in Places /\ faults' \in Nat /\ cur' \in 1 .. N + 1 /\ erased' \in Nat
          /\ staged' \in [Tables -> 0 .. Want] /\ rec' \in Records
      BY <1>1, <2>4 DEF RunTypeOK, Places
    <3>. QED BY <1>1, <1>6, <2>3, <2>5, <3>1, <3>2, TypesKept
  <2>7. NothingYet'
    <3>1. staged' = NoRows
      BY <1>1, <2>4 DEF NothingYet
    <3>2. ~failed /\ ~committed /\ old
      <4>1. pc \in Early \cup {"next", "fill", "stored", "stage", "fillstaged"}
        BY <1>1
      <4>. QED BY <1>1, <4>1, Zenon DEF NothingYet
    <3>3. pc' \notin Early
      BY <2>4 DEF Early
    <3>4. pc' # "idle"
      BY <2>4
    <3>. QED BY <2>4, <3>1, <3>2, <3>3, <3>4, Zenon DEF NothingYet
  <2>8. AppendInOrder'
    <3>1. \A t \in Tables :
            /\ t < cur => mem'[t] = Done /\ db'[t] = Want
            /\ t > cur => mem'[t] = Waiting /\ db'[t] = 0
      <4>1. \A t \in Tables : t < cur \/ t > cur => t # cur
        BY <1>2
      <4>. QED BY <1>1, <1>6, <2>3, <4>1 DEF AppendInOrder
    <3>2. cur' <= N
      BY <1>1, <2>4 DEF AppendInOrder
    <3>. QED BY <1>3, <1>6, <2>2, <2>3, <2>4, <2>5, <3>1, <3>2 DEF AppendInOrder, Atomic
  <2>9. AtomicInTransaction' /\ KnownAtTheEnd'
    BY <2>4 DEF AtomicInTransaction, KnownAtTheEnd
  <2>10. \A t \in Tables : rec.tables[t].status = "done" =>
           t # cur /\ mem[t].status = "done" /\ rec.tables[t].rows = Want /\ db[t] = Want
    BY <1>1, <1>3 DEF RecordFollows, SuccessfulTablesAreCommitted, Filling
  <2>11. RecordFollows'
    BY <1>1, <2>3, <2>4, <2>10 DEF RecordFollows
  <2>12. Atomicity' /\ (~Atomic => old)'
    BY <1>1, <1>3, <2>4, Zenon DEF Atomicity, Atomic
  <2>13. ~rec'.exact /\ ~rec'.committed /\ rec'.status # "done" /\ job' # "done"
    BY <1>1, <2>4 DEF RecordFollows
  <2>14. \A t \in Tables : rec'.tables[t].status = "done" => rec'.tables[t].rows = Want /\ db'[t] = Want
    BY <1>6, <2>4, <2>10
  <2>15. CountsAreExact' /\ SuccessfulTablesAreCommitted' /\ JobAgrees' /\ AllOrNothing' /\ ErasedAsReviewed'
    BY <2>4, <2>12, <2>13, <2>14, WhileOpen
  <2>. QED BY <2>6, <2>7, <2>8, <2>9, <2>11, <2>12, <2>15 DEF RunInv, CountsAreTrue
<1>. QED BY <1>5, <1>7, <1>8

LEMMA StoreTableKeeps == ASSUME RunAssumption, RunInv, StoreTable PROVE RunInv'
<1>1. /\ RunTypeOK /\ NothingYet /\ RecordFollows /\ AppendInOrder
      /\ Atomicity /\ (~Atomic => old)
      /\ pc = "stored" /\ UNCHANGED <<job, rest>>
  BY DEF RunInv, CountsAreTrue, StoreTable
<1>2. cur \in Tables /\ Tables \subseteq Nat
  BY <1>1, TablesFacts DEF RunTypeOK, AppendInOrder, Tables, RunAssumption
<1>3. CASE NotSaved /\ FailAtRest(mem)
  BY <1>1, <1>3, FailAtRestKeeps DEF rest, NotSaved, RunTypeOK
<1>4. CASE /\ Saved([rec EXCEPT !.tables = mem, !.total = total])
           /\ IF mem[cur].status = "error"
              THEN failed' = TRUE /\ Goto("terminal") /\ UNCHANGED cur
              ELSE cur' = cur + 1 /\ Goto("next") /\ UNCHANGED failed
           /\ UNCHANGED <<mem, total, committed, target>>
  <2>1. /\ mem \in [Tables -> RecordStates] /\ total \in Nat
        /\ "queued" \in {"queued", "running", "error", "interrupted"}
    BY <1>1 DEF RunTypeOK, TableStates, RecordStates
  <2>2. /\ rec' \in Records /\ rec'.tables = mem /\ rec'.status # "done"
        /\ ~rec'.exact /\ ~rec'.committed /\ job' # "done" /\ faults' = faults
    BY <1>1, <1>4, <2>1, RecordUpdates DEF Saved, RecordFollows
  <2>3. /\ mem' = mem /\ total' = total /\ db' = db /\ staged' = staged
        /\ committed' = committed /\ old' = old /\ erased' = erased
        /\ mode' = mode /\ reviewed' = reviewed
    BY <1>1, <1>4 DEF target, rest
  <2>4. ~failed /\ ~committed /\ old /\ staged = NoRows /\ ~Atomic /\ total = TotalOf(db)
    <3>1. pc \in Early \cup {"next", "fill", "stored", "stage", "fillstaged"} /\ pc \notin {"stage", "fillstaged"}
      BY <1>1
    <3>2. pc \in {"next", "fill", "stored"}
      BY <1>1
    <3>. QED BY <1>1, <3>1, <3>2, Zenon DEF NothingYet, AppendInOrder
  <2>5. ASSUME NEW t \in Tables
        PROVE  /\ mem[t].status \in {"queued", "done", "error"} /\ mem[t].rows = db[t]
               /\ mem[t].status = "done" => mem[t].rows = Want
    <3>1. t < cur \/ t = cur \/ t > cur
      BY <1>2
    <3>. QED BY <1>1, <3>1 DEF AppendInOrder, Done, Waiting
  <2>6. /\ pc' \in {"terminal", "next"} /\ cur' \in 1 .. N + 1
        /\ pc' = "terminal" => failed' = TRUE
        /\ pc' = "next" => failed' = failed /\ cur' = cur + 1 /\ mem[cur].status # "error"
    BY <1>2, <1>4 DEF Goto, Tables, RunAssumption
  <2>7. RunTypeOK'
    <3>1. failed' \in BOOLEAN /\ committed' \in BOOLEAN /\ old' \in BOOLEAN
      BY <1>1, <2>3, <2>6 DEF RunTypeOK
    <3>2. /\ pc' \in Places /\ faults' \in Nat /\ erased' \in Nat /\ mem' \in [Tables -> TableStates]
          /\ total' \in Nat /\ db' \in [Tables -> 0 .. Want] /\ staged' \in [Tables -> 0 .. Want]
      BY <1>1, <2>2, <2>3, <2>6 DEF RunTypeOK, Places
    <3>. QED BY <1>1, <2>2, <2>6, <3>1, <3>2, TypesKept
  <2>8. NothingYet'
    <3>1. pc' \notin Early /\ pc' # "idle" /\ (pc' # "next" => pc' \notin Early \cup {"next", "fill", "stored", "stage", "fillstaged"})
      BY <2>6 DEF Early
    <3>. QED BY <2>3, <2>4, <2>6, <3>1, Zenon DEF NothingYet
  <2>9. AppendInOrder'
    <3>1. CASE pc' = "next"
      <4>1. \A t \in Tables : t < cur + 1 <=> t < cur \/ t = cur
        BY <1>2
      <4>2. \A t \in Tables : t >= cur + 1 => t > cur
        BY <1>2
      <4>3. mem[cur] = Done /\ db[cur] = Want
        <5>1. mem[cur].status = "done" /\ mem[cur].rows = Want /\ db[cur] = Want
          BY <1>1, <1>2, <2>6, <3>1 DEF AppendInOrder
        <5>2. mem[cur] \in TableStates
          BY <1>1, <1>2 DEF RunTypeOK
        <5>. QED BY <5>1, <5>2 DEF TableStates, Done
      <4>4. \A t \in Tables :
             /\ t < cur' => mem'[t] = Done /\ db'[t] = Want
             /\ (t > cur' \/ t = cur') => mem'[t] = Waiting /\ db'[t] = 0
        <5>1. \A t \in Tables : (t > cur + 1 \/ t = cur + 1) => t > cur
          BY <1>2
        <5>. QED BY <1>1, <2>3, <2>6, <3>1, <4>1, <4>3, <5>1 DEF AppendInOrder
      <4>. QED BY <2>3, <2>4, <3>1, <4>4 DEF AppendInOrder, Atomic
    <3>. QED BY <2>6, <3>1 DEF AppendInOrder
  <2>10. AtomicInTransaction'
    BY <2>6 DEF AtomicInTransaction
  <2>11. KnownAtTheEnd'
    BY <2>3, <2>4, <2>5, <2>6 DEF KnownAtTheEnd, Atomic
  <2>12. RecordFollows'
    BY <1>1, <2>2, <2>3, <2>6 DEF RecordFollows
  <2>13. Atomicity' /\ (~Atomic => old)'
    BY <2>3, <2>4, Zenon DEF Atomicity, Atomic
  <2>14. \A t \in Tables : rec'.tables[t].status = "done" => rec'.tables[t].rows = Want /\ db'[t] = Want
    BY <2>2, <2>3, <2>5
  <2>15. CountsAreExact' /\ SuccessfulTablesAreCommitted' /\ JobAgrees' /\ AllOrNothing' /\ ErasedAsReviewed'
    BY <2>2, <2>3, <2>13, <2>14, WhileOpen
  <2>. QED BY <2>7, <2>8, <2>9, <2>10, <2>11, <2>12, <2>13, <2>15 DEF RunInv, CountsAreTrue
<1>. QED BY <1>3, <1>4 DEF StoreTable

LEMMA CloseSessionKeeps == ASSUME RunAssumption, RunInv, CloseSession PROVE RunInv'
<1>1. /\ RunTypeOK /\ NothingYet /\ RecordFollows /\ AppendInOrder /\ AtomicInTransaction
      /\ SuccessfulTablesAreCommitted /\ Atomicity /\ (~Atomic => old)
      /\ (pc = "next" /\ cur > N) \/ pc = "dispose"
      /\ UNCHANGED <<job, rec, rest, faults>>
  BY DEF RunInv, CountsAreTrue, CloseSession
<1>2. CASE FailAtRest(mem)
  BY <1>1, <1>2, FailAtRestKeeps DEF rest, RunTypeOK
<1>3. CASE /\ Goto("terminal")
           /\ total' = IF Atomic THEN TotalOf([t \in Tables |-> mem[t].rows]) ELSE total
           /\ UNCHANGED <<mem, cur, failed, committed, target>>
  <2>1. /\ mem' = mem /\ cur' = cur /\ db' = db /\ staged' = staged
        /\ failed' = failed /\ committed' = committed /\ old' = old /\ erased' = erased
        /\ mode' = mode /\ reviewed' = reviewed /\ rec' = rec /\ job' = job /\ faults' = faults
        /\ pc' = "terminal"
    BY <1>1, <1>3 DEF target, rest, Goto
  <2>2. \A t \in Tables : mem[t] = Done /\ db[t] = Want
    <3>1. CASE pc = "next" /\ cur > N
      <4>1. \A t \in Tables : t < cur
        BY <1>1, <3>1 DEF RunTypeOK, Tables, RunAssumption
      <4>. QED BY <1>1, <3>1, <4>1 DEF AppendInOrder
    <3>2. CASE pc = "dispose"
      BY <1>1, <3>2 DEF AtomicInTransaction, Full
    <3>. QED BY <1>1, <3>1, <3>2
  <2>3. total' = TotalOf(db')
    <3>1. CASE Atomic
      <4>1. total' = TotalOf([t \in Tables |-> mem[t].rows])
        BY <1>3, <3>1
      <4>2. [t \in Tables |-> mem[t].rows] = db
        BY <1>1, <2>2 DEF Done, RunTypeOK
      <4>. QED BY <2>1, <4>1, <4>2
    <3>2. CASE ~Atomic
      <4>1. pc = "next"
        BY <1>1, <3>2 DEF AtomicInTransaction
      <4>. QED BY <1>1, <1>3, <2>1, <3>2, <4>1 DEF AppendInOrder
    <3>. QED BY <3>1, <3>2
  <2>4. db \in [Tables -> 0 .. Want] /\ db \in [Tables -> 0 .. Unknown] /\ db = Full
    BY <1>1, <2>2, TablesFacts DEF RunTypeOK, Full
  <2>5. RunTypeOK'
    <3>1. failed' \in BOOLEAN /\ committed' \in BOOLEAN /\ old' \in BOOLEAN
      BY <1>1, <2>1 DEF RunTypeOK
    <3>2. /\ pc' \in Places /\ faults' \in Nat /\ erased' \in Nat /\ mem' \in [Tables -> TableStates]
          /\ cur' \in 1 .. N + 1 /\ staged' \in [Tables -> 0 .. Want] /\ rec' \in Records
      BY <1>1, <2>1 DEF RunTypeOK, Places
    <3>3. total' \in Nat
      BY <2>1, <2>3, <2>4, RowsAreFinite
    <3>. QED BY <1>1, <2>1, <2>4, <3>1, <3>2, <3>3, TypesKept
  <2>6. NothingYet'
    <3>1. staged = NoRows
      <4>1. pc \notin {"stage", "fillstaged"}
        BY <1>1
      <4>. QED BY <1>1, <4>1 DEF NothingYet
    <3>. QED BY <2>1, <3>1 DEF NothingYet, Early
  <2>7. AppendInOrder' /\ AtomicInTransaction'
    BY <2>1 DEF AppendInOrder, AtomicInTransaction
  <2>8. Atomic => committed
    BY <1>1 DEF AppendInOrder, AtomicInTransaction
  <2>9. KnownAtTheEnd'
    <3>1. \A t \in Tables : mem'[t] = Done /\ db'[t] = Want
      BY <2>1, <2>2
    <3>2. Atomic' => (committed' <=> db' = Full)
      BY <2>1, <2>4, <2>8, Zenon DEF Atomic
    <3>. QED BY <2>3, <3>1, <3>2, TablesFacts DEF KnownAtTheEnd, Done
  <2>10. RecordFollows'
    BY <1>1, <2>1 DEF RecordFollows
  <2>11. Atomicity' /\ (~Atomic => old)'
    BY <1>1, <2>1 DEF Atomicity, Atomic
  <2>12. ~rec'.exact /\ ~rec'.committed /\ rec'.status # "done" /\ job' # "done"
    BY <1>1, <2>1 DEF RecordFollows
  <2>13. \A t \in Tables : rec'.tables[t].status = "done" => rec'.tables[t].rows = Want /\ db'[t] = Want
    BY <1>1, <2>1 DEF SuccessfulTablesAreCommitted
  <2>14. CountsAreExact' /\ SuccessfulTablesAreCommitted' /\ JobAgrees' /\ AllOrNothing' /\ ErasedAsReviewed'
    BY <2>1, <2>11, <2>12, <2>13, WhileOpen
  <2>. QED BY <2>5, <2>6, <2>7, <2>9, <2>10, <2>11, <2>14 DEF RunInv, CountsAreTrue
<1>. QED BY <1>2, <1>3 DEF CloseSession

LEMMA BeginKeeps == ASSUME RunAssumption, RunInv, Begin PROVE RunInv'
<1>1. /\ RunTypeOK /\ NothingYet /\ RecordFollows /\ AtomicInTransaction
      /\ SuccessfulTablesAreCommitted /\ Atomicity /\ (~Atomic => old)
      /\ pc = "begin" /\ UNCHANGED <<job, rec, rest, faults>>
  BY DEF RunInv, CountsAreTrue, Begin
<1>2. CASE FailAtRest(mem)
  BY <1>1, <1>2, FailAtRestKeeps DEF rest, RunTypeOK
<1>3. CASE /\ PlanStillReviewed
           /\ erased' = IF mode = "replace" THEN sources ELSE erased
           /\ Goto("stage") /\ UNCHANGED <<progress, db, staged, old>>
  <2>1. /\ mem = Queued /\ cur = 1 /\ total = 0 /\ db = NoRows /\ staged = NoRows
        /\ ~failed /\ ~committed /\ old
    <3>1. pc \in Early /\ pc \notin {"stage", "fillstaged"}
      BY <1>1 DEF Early
    <3>. QED BY <1>1, <3>1, Zenon DEF NothingYet
  <2>2. /\ mem' = Queued /\ cur' = 1 /\ total' = 0 /\ db' = NoRows /\ staged' = NoRows
        /\ failed' = failed /\ committed' = committed /\ old' = old
        /\ mode' = mode /\ sources' = sources /\ reviewed' = reviewed /\ rec' = rec /\ job' = job
        /\ faults' = faults /\ pc' = "stage"
    BY <1>1, <1>3, <2>1 DEF progress, rest, Goto
  <2>3. (mode = "replace" => erased' = reviewed) /\ erased' \in Nat
    BY <1>1, <1>3 DEF PlanStillReviewed, SourcesUnchanged, RunTypeOK
  <2>4. RunTypeOK'
    <3>1. failed' \in BOOLEAN /\ committed' \in BOOLEAN /\ old' \in BOOLEAN
      BY <1>1, <2>2 DEF RunTypeOK
    <3>2. pc' \in Places /\ faults' \in Nat /\ 1 \in 1 .. N + 1 /\ rec' \in Records
      BY <1>1, <2>2 DEF RunTypeOK, Places, RunAssumption
    <3>. QED BY <1>1, <2>2, <2>3, <3>1, <3>2, TablesFacts, TypesKept
  <2>5. NothingYet'
    <3>1. pc' \notin Early /\ pc' # "idle"
      BY <2>2 DEF Early
    <3>. QED BY <2>1, <2>2, <3>1, Zenon DEF NothingYet
  <2>6. AtomicInTransaction'
    <3>1. \A t \in Tables : ~(t < 1) /\ mem'[t] = Waiting /\ staged'[t] = 0
      BY <2>2 DEF Queued, NoRows, Waiting, Tables
    <3>2. Atomic' /\ (mode' = "replace" => erased' = reviewed')
      BY <1>1, <2>2, <2>3 DEF AtomicInTransaction, Atomic
    <3>. QED BY <2>2, <3>1, <3>2 DEF AtomicInTransaction
  <2>7. AppendInOrder' /\ KnownAtTheEnd'
    BY <2>2 DEF AppendInOrder, KnownAtTheEnd
  <2>8. \A t \in Tables : rec.tables[t].status # "done"
    <3>1. \A t \in Tables : rec.tables[t].status = "done" => mem[t].status = "done"
      BY <1>1 DEF RecordFollows
    <3>. QED BY <2>1, <3>1 DEF Queued
  <2>9. RecordFollows'
    BY <1>1, <2>2, <2>8 DEF RecordFollows
  <2>10. Atomicity' /\ (~Atomic => old)'
    BY <2>1, <2>2, Zenon DEF Atomicity, Atomic
  <2>11. ~rec'.exact /\ ~rec'.committed /\ rec'.status # "done" /\ job' # "done"
    BY <1>1, <2>2 DEF RecordFollows
  <2>12. CountsAreExact' /\ SuccessfulTablesAreCommitted' /\ JobAgrees' /\ AllOrNothing' /\ ErasedAsReviewed'
    BY <2>2, <2>8, <2>10, <2>11, WhileOpen
  <2>. QED BY <2>4, <2>5, <2>6, <2>7, <2>9, <2>10, <2>12 DEF RunInv, CountsAreTrue
<1>. QED BY <1>2, <1>3 DEF Begin

LEMMA FillStagedKeeps == ASSUME RunAssumption, RunInv, FillStaged PROVE RunInv'
<1>1. /\ RunTypeOK /\ NothingYet /\ RecordFollows /\ AtomicInTransaction
      /\ SuccessfulTablesAreCommitted /\ Atomicity /\ (~Atomic => old)
      /\ pc = "fillstaged" /\ UNCHANGED <<job, rec, rest, faults>>
  BY DEF RunInv, CountsAreTrue, FillStaged
<1>2. CASE FailAtRest(mem)
  BY <1>1, <1>2, FailAtRestKeeps DEF rest, RunTypeOK
<1>3. CASE /\ staged' = [staged EXCEPT ![cur] = Want] /\ mem' = StillRunning
           /\ cur' = cur + 1 /\ Goto("stage")
           /\ UNCHANGED <<total, failed, committed, db, old, erased>>
  <2>1. /\ mem' = mem /\ cur' = cur + 1 /\ total' = total /\ db' = db
        /\ failed' = failed /\ committed' = committed /\ old' = old /\ erased' = erased
        /\ mode' = mode /\ sources' = sources /\ reviewed' = reviewed /\ rec' = rec /\ job' = job
        /\ faults' = faults /\ pc' = "stage"
    BY <1>1, <1>3 DEF rest, Goto, StillRunning
  <2>2. cur \in Tables /\ Tables \subseteq Nat /\ cur \in Nat /\ cur + 1 \in 1 .. N + 1
    BY <1>1, TablesFacts DEF RunTypeOK, AtomicInTransaction, Tables, RunAssumption
  <2>3. /\ staged' \in [Tables -> 0 .. Want] /\ staged'[cur] = Want
        /\ \A t \in Tables : t # cur => staged'[t] = staged[t]
    BY <1>1, <1>3, <2>2 DEF RunTypeOK, RunAssumption
  <2>4. ~failed /\ ~committed /\ old
    <3>1. pc \in Early \cup {"next", "fill", "stored", "stage", "fillstaged"}
      BY <1>1
    <3>. QED BY <1>1, <3>1, Zenon DEF NothingYet
  <2>5. RunTypeOK'
    <3>1. failed' \in BOOLEAN /\ committed' \in BOOLEAN /\ old' \in BOOLEAN
      BY <1>1, <2>1 DEF RunTypeOK
    <3>2. /\ pc' \in Places /\ faults' \in Nat /\ erased' \in Nat /\ mem' \in [Tables -> TableStates]
          /\ total' \in Nat /\ db' \in [Tables -> 0 .. Want] /\ rec' \in Records
      BY <1>1, <2>1 DEF RunTypeOK, Places
    <3>. QED BY <1>1, <2>1, <2>2, <2>3, <3>1, <3>2, TypesKept
  <2>6. NothingYet'
    <3>1. pc' \notin Early /\ pc' # "idle" /\ pc' \in {"stage", "fillstaged"}
      BY <2>1 DEF Early
    <3>. QED BY <2>1, <2>4, <3>1, Zenon DEF NothingYet
  <2>7. AtomicInTransaction'
    <3>1. Atomic' /\ db' = NoRows /\ total' = 0 /\ (mode' = "replace" => erased' = reviewed')
      BY <1>1, <2>1 DEF AtomicInTransaction, Atomic
    <3>2. \A t \in Tables : (t < cur + 1 <=> t < cur \/ t = cur) /\ ((t > cur + 1 \/ t = cur + 1) => t > cur /\ t # cur)
      BY <2>2
    <3>3. \A t \in Tables :
            /\ t < cur' => mem'[t] = Filling /\ staged'[t] = Want
            /\ (t > cur' \/ t = cur') => mem'[t] = Waiting /\ staged'[t] = 0
      <4>1. \A t \in Tables : t < cur => t # cur
        BY <2>2
      <4>. QED BY <1>1, <2>1, <2>3, <3>2, <4>1 DEF AtomicInTransaction
    <3>. QED BY <2>1, <3>1, <3>3 DEF AtomicInTransaction
  <2>8. AppendInOrder' /\ KnownAtTheEnd'
    BY <2>1 DEF AppendInOrder, KnownAtTheEnd
  <2>9. RecordFollows'
    BY <1>1, <2>1 DEF RecordFollows
  <2>10. Atomicity' /\ (~Atomic => old)'
    BY <2>1, <2>4, <1>1, Zenon DEF Atomicity, Atomic
  <2>11. ~rec'.exact /\ ~rec'.committed /\ rec'.status # "done" /\ job' # "done"
    BY <1>1, <2>1 DEF RecordFollows
  <2>12. \A t \in Tables : rec'.tables[t].status = "done" => rec'.tables[t].rows = Want /\ db'[t] = Want
    BY <1>1, <2>1 DEF SuccessfulTablesAreCommitted
  <2>13. CountsAreExact' /\ SuccessfulTablesAreCommitted' /\ JobAgrees' /\ AllOrNothing' /\ ErasedAsReviewed'
    BY <2>1, <2>10, <2>11, <2>12, WhileOpen
  <2>. QED BY <2>5, <2>6, <2>7, <2>8, <2>9, <2>10, <2>13 DEF RunInv, CountsAreTrue
<1>. QED BY <1>2, <1>3 DEF FillStaged

LEMMA CommitKeeps == ASSUME RunAssumption, RunInv, Commit PROVE RunInv'
<1>1. /\ RunTypeOK /\ NothingYet /\ RecordFollows /\ AtomicInTransaction
      /\ SuccessfulTablesAreCommitted /\ Atomicity /\ (~Atomic => old)
      /\ pc = "stage" /\ cur > N /\ UNCHANGED <<job, rec, rest, faults>>
  BY DEF RunInv, CountsAreTrue, Commit
<1>2. CASE FailAtRest(mem)
  BY <1>1, <1>2, FailAtRestKeeps DEF rest, RunTypeOK
<1>3. CASE /\ db' = staged /\ staged' = NoRows /\ old' = (mode # "replace")
           /\ committed' = TRUE
           /\ mem' = [t \in Tables |-> [status |-> "done", rows |-> staged[t]]]
           /\ Goto("dispose") /\ UNCHANGED <<cur, total, failed, erased>>
  <2>1. /\ cur' = cur /\ total' = total /\ failed' = failed /\ erased' = erased
        /\ mode' = mode /\ sources' = sources /\ reviewed' = reviewed /\ rec' = rec /\ job' = job
        /\ faults' = faults /\ pc' = "dispose" /\ committed' = TRUE /\ staged' = NoRows
    BY <1>1, <1>3 DEF rest, Goto
  <2>2. Atomic /\ (mode = "replace" => erased = reviewed)
    BY <1>1 DEF AtomicInTransaction
  <2>3. staged = Full
    <3>1. \A t \in Tables : t < cur
      BY <1>1 DEF RunTypeOK, Tables, RunAssumption
    <3>2. \A t \in Tables : staged[t] = Want
      BY <1>1, <3>1 DEF AtomicInTransaction
    <3>. QED BY <1>1, <3>2 DEF RunTypeOK, Full
  <2>4. db' = Full /\ (\A t \in Tables : mem'[t] = Done) /\ mem' \in [Tables -> TableStates]
    <3>1. Done \in TableStates
      BY TablesFacts DEF Done, TableStates, RunAssumption, Unknown
    <3>. QED BY <1>3, <2>3, <3>1 DEF Full, Done
  <2>5. ~failed /\ ~failed'
    <3>1. pc \in Early \cup {"next", "fill", "stored", "stage", "fillstaged"}
      BY <1>1
    <3>. QED BY <1>1, <2>1, <3>1, Zenon DEF NothingYet
  <2>6. RunTypeOK'
    <3>1. failed' \in BOOLEAN /\ committed' \in BOOLEAN
      BY <1>1, <2>1 DEF RunTypeOK
    <3>3. old' \in BOOLEAN
      <4>1. (mode # "replace") \in BOOLEAN
        OBVIOUS
      <4>. QED BY <1>3, <4>1, Zenon
    <3>2. /\ pc' \in Places /\ faults' \in Nat /\ erased' \in Nat
          /\ total' \in Nat /\ cur' \in 1 .. N + 1 /\ rec' \in Records
      BY <1>1, <2>1 DEF RunTypeOK, Places
    <3>. QED BY <1>1, <2>1, <2>4, <3>1, <3>2, <3>3, TablesFacts, TypesKept
  <2>7. NothingYet'
    BY <2>1 DEF NothingYet, Early
  <2>8. AtomicInTransaction'
    BY <2>1, <2>2, <2>4, <2>5 DEF AtomicInTransaction, Atomic
  <2>9. AppendInOrder' /\ KnownAtTheEnd'
    BY <2>1 DEF AppendInOrder, KnownAtTheEnd
  <2>10. RecordFollows'
    <3>1. \A t \in Tables : mem'[t].status = "done"
      BY <2>4 DEF Done
    <3>. QED BY <1>1, <2>1, <3>1 DEF RecordFollows
  <2>11. Atomicity' /\ (~Atomic => old)'
    <3>1. ~old' => mode' = "replace" /\ erased' = reviewed'
      BY <1>3, <2>1, <2>2
    <3>. QED BY <2>1, <2>2, <2>4, <3>1 DEF Atomicity, Atomic
  <2>12. ~rec'.exact /\ ~rec'.committed /\ rec'.status # "done" /\ job' # "done"
    BY <1>1, <2>1 DEF RecordFollows
  <2>13. \A t \in Tables : rec'.tables[t].status = "done" => rec'.tables[t].rows = Want /\ db'[t] = Want
    BY <1>1, <2>1, <2>4 DEF SuccessfulTablesAreCommitted, Full
  <2>14. CountsAreExact' /\ SuccessfulTablesAreCommitted' /\ JobAgrees' /\ AllOrNothing' /\ ErasedAsReviewed'
    BY <2>1, <2>11, <2>12, <2>13, WhileOpen
  <2>. QED BY <2>6, <2>7, <2>8, <2>9, <2>10, <2>11, <2>14 DEF RunInv, CountsAreTrue
<1>. QED BY <1>2, <1>3 DEF Commit

LEMMA PublishTerminalKeeps == ASSUME RunAssumption, RunInv, PublishTerminal PROVE RunInv'
<1>1. /\ RunTypeOK /\ NothingYet /\ RecordFollows /\ KnownAtTheEnd
      /\ SuccessfulTablesAreCommitted /\ Atomicity /\ (~Atomic => old)
      /\ pc = "terminal" /\ UNCHANGED <<job, mem, cur, total, committed, target, rest>>
  BY DEF RunInv, CountsAreTrue, PublishTerminal
<1>2. /\ mem' = mem /\ cur' = cur /\ total' = total /\ committed' = committed /\ db' = db
      /\ staged' = staged /\ old' = old /\ erased' = erased /\ mode' = mode
      /\ sources' = sources /\ reviewed' = reviewed /\ job' = job
  BY <1>1 DEF target, rest
<1>3. staged = NoRows /\ ~rec.exact /\ ~rec.committed /\ rec.status # "done" /\ job = "running"
  BY <1>1 DEF NothingYet, RecordFollows
<1>4. /\ failed \in BOOLEAN /\ committed \in BOOLEAN /\ old \in BOOLEAN /\ total \in Nat
      /\ mem \in [Tables -> TableStates] /\ rec \in Records /\ faults \in Nat /\ erased \in Nat
      /\ cur \in 1 .. N + 1 /\ db \in [Tables -> 0 .. Want] /\ staged \in [Tables -> 0 .. Want]
  BY <1>1 DEF RunTypeOK
<1>5. Atomicity' /\ (~Atomic => old)'
  BY <1>1, <1>2 DEF Atomicity, Atomic
<1>6. CASE NotSaved /\ failed' = OutcomeLost /\ Goto("retry")
  <2>1. rec' = rec /\ pc' = "retry" /\ failed' = TRUE /\ faults' \in Nat
    BY <1>4, <1>6 DEF NotSaved, OutcomeLost, Goto
  <2>2. RunTypeOK'
    <3>1. failed' \in BOOLEAN /\ pc' \in Places
      BY <2>1 DEF Places
    <3>. QED BY <1>1, <1>2, <1>4, <2>1, <3>1, TypesKept
  <2>3. NothingYet' /\ AppendInOrder' /\ AtomicInTransaction' /\ KnownAtTheEnd'
    BY <1>2, <1>3, <2>1 DEF NothingYet, Early, AppendInOrder, AtomicInTransaction, KnownAtTheEnd
  <2>4. RecordFollows'
    BY <1>2, <1>3, <2>1 DEF RecordFollows
  <2>5. CountsAreExact' /\ SuccessfulTablesAreCommitted' /\ JobAgrees' /\ AllOrNothing' /\ ErasedAsReviewed'
    <3>1. \A t \in Tables : rec'.tables[t].status = "done" => rec'.tables[t].rows = Want /\ db'[t] = Want
      BY <1>1, <1>2, <2>1 DEF SuccessfulTablesAreCommitted
    <3>. QED BY <1>2, <1>3, <1>5, <2>1, <3>1, WhileOpen
  <2>. QED BY <1>5, <2>2, <2>3, <2>4, <2>5 DEF RunInv, CountsAreTrue
<1>7. CASE Saved(TerminalRecord) /\ Goto("finish") /\ UNCHANGED failed
  <2> DEFINE tables == [t \in Tables |-> IF mem[t].status = "queued"
                                         THEN [mem[t] EXCEPT !.status = "not_run"] ELSE mem[t]]
  <2>1. /\ pc' = "finish" /\ failed' = failed /\ faults' = faults
        /\ rec' = [status |-> IF failed THEN "error" ELSE "done", tables |-> tables, total |-> total,
                   exact |-> \A t \in Tables : tables[t].rows # Unknown, committed |-> committed]
    BY <1>7 DEF Saved, Goto, TerminalRecord
  <2>2. ASSUME NEW t \in Tables
        PROVE  /\ tables[t] \in RecordStates /\ tables[t].rows = mem[t].rows
               /\ tables[t].status = "done" <=> mem[t].status = "done"
    <3>1. mem[t] \in TableStates
      BY <1>4
    <3>2. CASE mem[t].status = "queued"
      <4>1. tables[t] = [status |-> "not_run", rows |-> mem[t].rows]
        BY <3>1, <3>2 DEF TableStates
      <4>. QED BY <3>1, <3>2, <4>1 DEF TableStates, RecordStates
    <3>3. CASE mem[t].status # "queued"
      <4>1. tables[t] = mem[t]
        BY <3>3
      <4>. QED BY <3>1, <4>1 DEF TableStates, RecordStates
    <3>. QED BY <3>2, <3>3
  <2>3. tables \in [Tables -> RecordStates]
    BY <2>2
  <2> HIDE DEF tables
  <2>4. (\A t \in Tables : tables[t].rows # Unknown) \in BOOLEAN
    OBVIOUS
  <2>5. /\ rec'.status = (IF failed THEN "error" ELSE "done") /\ rec'.tables = tables /\ rec'.total = total
        /\ rec'.exact = (\A t \in Tables : tables[t].rows # Unknown) /\ rec'.committed = committed
    BY <2>1
  <2>6. rec' \in Records
    BY <1>4, <2>1, <2>3, <2>4 DEF Records
  <2>7. RunTypeOK'
    <3>1. failed' \in BOOLEAN /\ pc' \in Places /\ faults' \in Nat
      BY <1>4, <2>1 DEF Places
    <3>. QED BY <1>1, <1>2, <1>4, <2>6, <3>1, TypesKept
  <2>8. NothingYet' /\ AppendInOrder' /\ AtomicInTransaction' /\ KnownAtTheEnd'
    BY <1>2, <1>3, <2>1 DEF NothingYet, Early, AppendInOrder, AtomicInTransaction, KnownAtTheEnd
  <2>9. \A t \in Tables :
          /\ mem[t].rows # Unknown => mem[t].rows = db[t]
          /\ mem[t].status = "done" => mem[t].rows = Want
          /\ ~failed => mem[t].status = "done"
    BY <1>1 DEF KnownAtTheEnd
  <2>10. (\A t \in Tables : mem[t].rows # Unknown) => total = TotalOf(db)
    BY <1>1 DEF KnownAtTheEnd
  <2>11. \A t \in Tables : mem[t].status = "done" => mem[t].rows = Want /\ db[t] = Want
    BY <2>9, TablesFacts DEF RunAssumption, Unknown
  <2>12. CountsAreExact'
    <3>1. ASSUME rec'.exact, NEW t \in Tables PROVE rec'.tables[t].rows = db'[t] /\ rec'.total = TotalOf(db')
      <4>1. \A u \in Tables : mem[u].rows # Unknown
        BY <2>2, <2>5, <3>1
      <4>. QED BY <1>2, <2>2, <2>5, <2>9, <2>10, <4>1
    <3>. QED BY <3>1 DEF CountsAreExact
  <2>13. SuccessfulTablesAreCommitted'
    <3>1. \A t \in Tables : rec'.tables[t].status = "done" => rec'.tables[t].rows = Want /\ db'[t] = Want
      BY <1>2, <2>2, <2>5, <2>11
    <3>2. rec'.status = "done" => db' = Full
      <4>1. ASSUME rec'.status = "done" PROVE db = Full
        <5>1. ~failed
          BY <2>5, <4>1
        <5>2. \A t \in Tables : db[t] = Want
          BY <2>9, <2>11, <5>1
        <5>. QED BY <1>4, <5>2 DEF Full
      <4>. QED BY <1>2, <4>1
    <3>. QED BY <3>1, <3>2 DEF SuccessfulTablesAreCommitted
  <2>14. RecordFollows'
    <3>1. failed <=> rec'.status # "done"
      BY <1>4, <2>5
    <3>2. job' = "running"
      BY <1>1, <1>2 DEF RecordFollows
    <3>. QED BY <2>1, <3>1, <3>2 DEF RecordFollows
  <2>15. JobAgrees'
    BY <1>2, <1>3 DEF JobAgrees
  <2>16. AllOrNothing' /\ ErasedAsReviewed'
    <3>1. Atomic => (committed <=> db = Full)
      BY <1>1 DEF KnownAtTheEnd
    <3>. QED BY <1>2, <1>5, <2>5, <3>1 DEF AllOrNothing, ErasedAsReviewed, Atomicity, Atomic
  <2>. QED BY <1>5, <2>7, <2>8, <2>12, <2>13, <2>14, <2>15, <2>16 DEF RunInv, CountsAreTrue
<1>. QED BY <1>6, <1>7 DEF PublishTerminal

LEMMA RetryTerminalKeeps == ASSUME RunAssumption, RunInv, RetryTerminal PROVE RunInv'
<1>1. /\ RunTypeOK /\ NothingYet /\ RecordFollows
      /\ SuccessfulTablesAreCommitted /\ Atomicity /\ (~Atomic => old)
      /\ pc = "retry" /\ UNCHANGED <<job, progress, target, rest>>
  BY DEF RunInv, CountsAreTrue, RetryTerminal
<1>2. /\ mem' = mem /\ cur' = cur /\ total' = total /\ failed' = failed /\ committed' = committed
      /\ db' = db /\ staged' = staged /\ old' = old /\ erased' = erased /\ mode' = mode
      /\ sources' = sources /\ reviewed' = reviewed /\ job' = job /\ pc' = "finish"
  BY <1>1 DEF progress, target, rest, RetryTerminal, Goto
<1>3. Queued \in [Tables -> RecordStates] /\ 0 \in Nat
  BY TablesFacts
<1>4. /\ rec' \in Records /\ rec'.tables = rec.tables /\ rec'.status # "done"
      /\ ~rec'.exact /\ ~rec'.committed /\ faults' \in Nat
  <2>1. rec \in Records /\ faults \in Nat /\ rec.status # "done" /\ ~rec.exact /\ ~rec.committed
    BY <1>1 DEF RecordFollows, RunTypeOK
  <2>2. CASE Saved([rec EXCEPT !.status = "error"])
    BY <1>1, <1>3, <2>1, <2>2, RecordUpdates DEF Saved
  <2>3. CASE NotSaved
    BY <2>1, <2>3 DEF NotSaved
  <2>. QED BY <2>2, <2>3 DEF RetryTerminal
<1>5. RunTypeOK'
  <2>1. failed' \in BOOLEAN /\ committed' \in BOOLEAN /\ old' \in BOOLEAN
    BY <1>1, <1>2 DEF RunTypeOK
  <2>2. /\ pc' \in Places /\ erased' \in Nat /\ mem' \in [Tables -> TableStates]
        /\ cur' \in 1 .. N + 1 /\ total' \in Nat
        /\ db' \in [Tables -> 0 .. Want] /\ staged' \in [Tables -> 0 .. Want]
    BY <1>1, <1>2 DEF RunTypeOK, Places
  <2>. QED BY <1>1, <1>4, <2>1, <2>2, TypesKept
<1>6. NothingYet' /\ AppendInOrder' /\ AtomicInTransaction' /\ KnownAtTheEnd'
  BY <1>1, <1>2 DEF NothingYet, Early, AppendInOrder, AtomicInTransaction, KnownAtTheEnd
<1>7. RecordFollows'
  <2>1. failed /\ job = "running"
    BY <1>1 DEF RecordFollows
  <2>. QED BY <1>2, <1>4, <2>1 DEF RecordFollows
<1>8. Atomicity' /\ (~Atomic => old)'
  BY <1>1, <1>2 DEF Atomicity, Atomic
<1>9. CountsAreExact' /\ SuccessfulTablesAreCommitted' /\ JobAgrees' /\ AllOrNothing' /\ ErasedAsReviewed'
  <2>1. \A t \in Tables : rec'.tables[t].status = "done" => rec'.tables[t].rows = Want /\ db'[t] = Want
    BY <1>1, <1>2, <1>4 DEF SuccessfulTablesAreCommitted
  <2>2. job' # "done"
    BY <1>1, <1>2 DEF RecordFollows
  <2>. QED BY <1>2, <1>4, <1>8, <2>1, <2>2, WhileOpen
<1>. QED BY <1>5, <1>6, <1>7, <1>8, <1>9 DEF RunInv, CountsAreTrue

LEMMA CompleteJobKeeps == ASSUME RunAssumption, RunInv, CompleteJob PROVE RunInv'
<1> USE DEF RunInv, CountsAreTrue
<1>1. RunTypeOK'
  BY TablesFacts DEF CompleteJob, Goto, Saved, NotSaved, progress, target, rest, SourcesUnchanged, Atomic, RunTypeOK, Places
<1>2. NothingYet'
  BY DEF CompleteJob, Goto, Saved, NotSaved, progress, target, rest, SourcesUnchanged, Atomic, NothingYet, Early
<1>3. AppendInOrder'
  BY DEF CompleteJob, Goto, Saved, NotSaved, progress, target, rest, SourcesUnchanged, Atomic, AppendInOrder
<1>4. AtomicInTransaction'
  BY DEF CompleteJob, Goto, Saved, NotSaved, progress, target, rest, SourcesUnchanged, Atomic, AtomicInTransaction, NothingYet, Early
<1>5. KnownAtTheEnd'
  BY DEF CompleteJob, Goto, Saved, NotSaved, progress, target, rest, SourcesUnchanged, Atomic, KnownAtTheEnd
<1>6. RecordFollows'
  BY DEF CompleteJob, Goto, Saved, NotSaved, progress, target, rest, SourcesUnchanged, Atomic, RecordFollows, NothingYet
<1>7. CountsAreExact' /\ SuccessfulTablesAreCommitted'
  BY DEF CompleteJob, Goto, Saved, NotSaved, progress, target, rest, SourcesUnchanged, Atomic, RecordFollows, CountsAreExact, SuccessfulTablesAreCommitted
<1>8. JobAgrees'
  BY DEF CompleteJob, Goto, Saved, NotSaved, progress, target, rest, SourcesUnchanged, Atomic, RecordFollows, JobAgrees
<1>9. Atomicity' /\ (~Atomic => old)'
  BY DEF CompleteJob, Goto, Saved, NotSaved, progress, target, rest, SourcesUnchanged, Atomic, Atomicity
<1>10. AllOrNothing' /\ ErasedAsReviewed'
  BY DEF CompleteJob, Goto, Saved, NotSaved, progress, target, rest, SourcesUnchanged, Atomic, RecordFollows, AllOrNothing, ErasedAsReviewed
<1>. QED BY <1>1, <1>2, <1>3, <1>4, <1>5, <1>6, <1>7, <1>8, <1>9, <1>10

LEMMA ChangeSourcesKeeps == ASSUME RunAssumption, RunInv, ChangeSources PROVE RunInv'
<1> USE DEF RunInv, CountsAreTrue
<1>1. RunTypeOK'
  BY TablesFacts DEF ChangeSources, Goto, Saved, NotSaved, progress, target, rest, SourcesUnchanged, Atomic, RunTypeOK, Places
<1>2. NothingYet'
  BY DEF ChangeSources, Goto, Saved, NotSaved, progress, target, rest, SourcesUnchanged, Atomic, NothingYet, Early
<1>3. AppendInOrder'
  BY DEF ChangeSources, Goto, Saved, NotSaved, progress, target, rest, SourcesUnchanged, Atomic, AppendInOrder
<1>4. AtomicInTransaction'
  BY DEF ChangeSources, Goto, Saved, NotSaved, progress, target, rest, SourcesUnchanged, Atomic, AtomicInTransaction, NothingYet, Early
<1>5. KnownAtTheEnd'
  BY DEF ChangeSources, Goto, Saved, NotSaved, progress, target, rest, SourcesUnchanged, Atomic, KnownAtTheEnd
<1>6. RecordFollows'
  BY DEF ChangeSources, Goto, Saved, NotSaved, progress, target, rest, SourcesUnchanged, Atomic, RecordFollows, NothingYet
<1>7. CountsAreExact' /\ SuccessfulTablesAreCommitted'
  BY DEF ChangeSources, Goto, Saved, NotSaved, progress, target, rest, SourcesUnchanged, Atomic, RecordFollows, CountsAreExact, SuccessfulTablesAreCommitted
<1>8. JobAgrees'
  BY DEF ChangeSources, Goto, Saved, NotSaved, progress, target, rest, SourcesUnchanged, Atomic, RecordFollows, JobAgrees
<1>9. Atomicity' /\ (~Atomic => old)'
  BY DEF ChangeSources, Goto, Saved, NotSaved, progress, target, rest, SourcesUnchanged, Atomic, Atomicity
<1>10. AllOrNothing' /\ ErasedAsReviewed'
  BY DEF ChangeSources, Goto, Saved, NotSaved, progress, target, rest, SourcesUnchanged, Atomic, RecordFollows, AllOrNothing, ErasedAsReviewed
<1>. QED BY <1>1, <1>2, <1>3, <1>4, <1>5, <1>6, <1>7, <1>8, <1>9, <1>10

LEMMA DieKeeps == ASSUME RunAssumption, RunInv, Die PROVE RunInv'
<1> USE DEF RunInv, CountsAreTrue
<1>1. RunTypeOK'
  BY TablesFacts DEF Die, Goto, Saved, NotSaved, progress, target, rest, SourcesUnchanged, Atomic, RunTypeOK, Places
<1>2. NothingYet'
  BY DEF Die, Goto, Saved, NotSaved, progress, target, rest, SourcesUnchanged, Atomic, NothingYet, Early
<1>3. AppendInOrder'
  BY DEF Die, Goto, Saved, NotSaved, progress, target, rest, SourcesUnchanged, Atomic, AppendInOrder
<1>4. AtomicInTransaction'
  BY DEF Die, Goto, Saved, NotSaved, progress, target, rest, SourcesUnchanged, Atomic, AtomicInTransaction, NothingYet, Early
<1>5. KnownAtTheEnd'
  BY DEF Die, Goto, Saved, NotSaved, progress, target, rest, SourcesUnchanged, Atomic, KnownAtTheEnd
<1>6. RecordFollows'
  BY DEF Die, Goto, Saved, NotSaved, progress, target, rest, SourcesUnchanged, Atomic, RecordFollows, NothingYet
<1>7. CountsAreExact' /\ SuccessfulTablesAreCommitted'
  BY DEF Die, Goto, Saved, NotSaved, progress, target, rest, SourcesUnchanged, Atomic, RecordFollows, CountsAreExact, SuccessfulTablesAreCommitted
<1>8. JobAgrees'
  BY DEF Die, Goto, Saved, NotSaved, progress, target, rest, SourcesUnchanged, Atomic, RecordFollows, JobAgrees
<1>9. Atomicity' /\ (~Atomic => old)'
  BY DEF Die, Goto, Saved, NotSaved, progress, target, rest, SourcesUnchanged, Atomic, Atomicity
<1>10. AllOrNothing' /\ ErasedAsReviewed'
  BY DEF Die, Goto, Saved, NotSaved, progress, target, rest, SourcesUnchanged, Atomic, RecordFollows, AllOrNothing, ErasedAsReviewed
<1>. QED BY <1>1, <1>2, <1>3, <1>4, <1>5, <1>6, <1>7, <1>8, <1>9, <1>10

LEMMA ReviewKeeps == ASSUME RunAssumption, RunInv, Review PROVE RunInv'
<1>1. /\ RunTypeOK /\ NothingYet /\ RecordFollows /\ SuccessfulTablesAreCommitted /\ pc = "idle"
      /\ UNCHANGED <<mode, pc, job, rec, progress, target, sources, deaths, faults>>
      /\ reviewed' = sources
  BY DEF RunInv, CountsAreTrue, Review
<1>2. /\ mem' = mem /\ cur' = cur /\ total' = total /\ failed' = failed /\ committed' = committed
      /\ db' = db /\ staged' = staged /\ old' = old /\ erased' = erased /\ mode' = mode
      /\ sources' = sources /\ job' = job /\ pc' = pc /\ rec' = rec /\ faults' = faults /\ deaths' = deaths
  BY <1>1 DEF progress, target
<1>3. RunTypeOK'
  <2>1. failed' \in BOOLEAN /\ committed' \in BOOLEAN /\ old' \in BOOLEAN
    BY <1>1, <1>2 DEF RunTypeOK
  <2>. QED BY <1>1, <1>2, <2>1 DEF RunTypeOK
<1>4. old /\ old' /\ db = NoRows /\ ~rec.exact /\ ~rec.committed
  <2>1. pc \in Early
    BY <1>1 DEF Early
  <2>. QED BY <1>1, <1>2, <2>1, Zenon DEF NothingYet, RecordFollows, Early
<1>5. NothingYet' /\ AppendInOrder' /\ AtomicInTransaction' /\ KnownAtTheEnd' /\ RecordFollows'
  BY <1>1, <1>2 DEF NothingYet, AppendInOrder, AtomicInTransaction, KnownAtTheEnd, RecordFollows
<1>6. Atomicity' /\ (~Atomic => old)' /\ AllOrNothing' /\ ErasedAsReviewed'
  BY <1>2, <1>4 DEF Atomicity, Atomic, AllOrNothing, ErasedAsReviewed
<1>7. CountsAreExact' /\ SuccessfulTablesAreCommitted' /\ JobAgrees'
  BY <1>1, <1>2, <1>4 DEF RunInv, CountsAreTrue, CountsAreExact, SuccessfulTablesAreCommitted, JobAgrees
<1>. QED BY <1>3, <1>5, <1>6, <1>7 DEF RunInv, CountsAreTrue

\* The recovery of a store that is opened.
LEMMA RecoveredFacts ==
  ASSUME RunAssumption, RunTypeOK
  PROVE  /\ Recovered \in Records /\ Recovered.committed = rec.committed
         /\ ~OpenRecord(rec) => Recovered = rec
         /\ OpenRecord(rec) => Recovered.status = "interrupted" /\ ~Recovered.exact
         /\ \A t \in Tables :
              Recovered.tables[t].status = "done" =>
                rec.tables[t].status = "done" /\ Recovered.tables[t] = rec.tables[t]
<1> DEFINE tables == [t \in Tables |-> IF rec.tables[t].status \in {"queued", "running"}
                                       THEN [rec.tables[t] EXCEPT !.status = "interrupted"] ELSE rec.tables[t]]
<1>1. rec \in Records /\ rec.tables \in [Tables -> RecordStates]
  BY DEF RunTypeOK, Records
<1>2. ASSUME NEW t \in Tables
      PROVE  /\ tables[t] \in RecordStates
             /\ tables[t].status = "done" => rec.tables[t].status = "done" /\ tables[t] = rec.tables[t]
  <2>1. rec.tables[t] \in RecordStates
    BY <1>1
  <2>2. CASE rec.tables[t].status \in {"queued", "running"}
    <3>1. tables[t] = [status |-> "interrupted", rows |-> rec.tables[t].rows]
      BY <2>1, <2>2 DEF RecordStates
    <3>. QED BY <2>1, <3>1 DEF RecordStates
  <2>3. CASE rec.tables[t].status \notin {"queued", "running"}
    BY <2>1, <2>3
  <2>. QED BY <2>2, <2>3
<1>3. tables \in [Tables -> RecordStates]
  BY <1>2
<1> HIDE DEF tables
<1>4. CASE OpenRecord(rec)
  <2>1. Recovered = [rec EXCEPT !.status = "interrupted", !.exact = FALSE, !.tables = tables]
    BY <1>4 DEF Recovered, LeftOpen, tables
  <2>2. /\ Recovered \in Records /\ Recovered.committed = rec.committed
        /\ Recovered.status = "interrupted" /\ ~Recovered.exact /\ Recovered.tables = tables
    BY <1>1, <1>3, <2>1 DEF Records
  <2>. QED BY <1>2, <1>4, <2>2
<1>5. CASE ~OpenRecord(rec)
  <2>1. Recovered = rec
    BY <1>5 DEF Recovered, LeftOpen
  <2>. QED BY <1>1, <1>5, <2>1
<1>. QED BY <1>4, <1>5

\* Closing a record that another process has left, or has not left, open.
LEMMA RecoveryKeeps ==
  ASSUME RunAssumption, RunInv, rec' = Recovered, OpenRecord(rec) \/ pc = "dead",
         \/ pc = "dead" /\ pc' = "ended"
         \/ pc' = pc,
         UNCHANGED <<job, progress, target, rest, faults>>
  PROVE  RunInv'
<1>1. /\ RunTypeOK /\ NothingYet /\ AppendInOrder /\ AtomicInTransaction /\ KnownAtTheEnd /\ RecordFollows
      /\ CountsAreExact /\ SuccessfulTablesAreCommitted /\ JobAgrees
      /\ Atomicity /\ (~Atomic => old) /\ AllOrNothing /\ ErasedAsReviewed
  BY DEF RunInv, CountsAreTrue
<1>2. /\ mem' = mem /\ cur' = cur /\ total' = total /\ failed' = failed /\ committed' = committed
      /\ db' = db /\ staged' = staged /\ old' = old /\ erased' = erased /\ mode' = mode
      /\ sources' = sources /\ reviewed' = reviewed /\ job' = job /\ faults' = faults /\ deaths' = deaths
  BY DEF progress, target, rest
<1>3. /\ rec' \in Records /\ rec'.committed = rec.committed
      /\ ~OpenRecord(rec) => rec' = rec
      /\ OpenRecord(rec) => rec'.status = "interrupted" /\ ~rec'.exact
      /\ \A t \in Tables :
           rec'.tables[t].status = "done" => rec.tables[t].status = "done" /\ rec'.tables[t] = rec.tables[t]
  BY <1>1, RecoveredFacts
<1>4. RunTypeOK'
  <2>1. failed' \in BOOLEAN /\ committed' \in BOOLEAN /\ old' \in BOOLEAN
    BY <1>1, <1>2 DEF RunTypeOK
  <2>2. pc' \in Places
    BY <1>1 DEF RunTypeOK, Places
  <2>. QED BY <1>1, <1>2, <1>3, <2>1, <2>2 DEF RunTypeOK
<1>5. NothingYet' /\ AppendInOrder' /\ AtomicInTransaction' /\ KnownAtTheEnd'
  <2>1. CASE pc' = pc
    BY <1>1, <1>2, <2>1 DEF NothingYet, AppendInOrder, AtomicInTransaction, KnownAtTheEnd, Atomic
  <2>2. CASE pc = "dead" /\ pc' = "ended"
    BY <1>1, <1>2, <2>2 DEF NothingYet, AppendInOrder, AtomicInTransaction, KnownAtTheEnd, Early
  <2>. QED BY <2>1, <2>2
<1>6. Atomicity' /\ (~Atomic => old)'
  BY <1>1, <1>2 DEF Atomicity, Atomic
<1>7. CASE OpenRecord(rec)
  <2>1. rec'.status = "interrupted" /\ ~rec'.exact /\ rec.status # "done"
    BY <1>3, <1>7 DEF OpenRecord
  <2>2. RecordFollows'
    BY <1>1, <1>2, <1>3, <2>1 DEF RecordFollows
  <2>3. CountsAreExact' /\ SuccessfulTablesAreCommitted'
    BY <1>1, <1>2, <1>3, <2>1 DEF CountsAreExact, SuccessfulTablesAreCommitted
  <2>4. JobAgrees'
    BY <1>1, <1>2, <2>1 DEF JobAgrees
  <2>5. AllOrNothing' /\ ErasedAsReviewed'
    BY <1>1, <1>2, <1>3, <2>1 DEF AllOrNothing, ErasedAsReviewed, Atomic
  <2>. QED BY <1>4, <1>5, <1>6, <2>2, <2>3, <2>4, <2>5 DEF RunInv, CountsAreTrue
<1>8. CASE ~OpenRecord(rec)
  <2>1. rec' = rec /\ pc = "dead"
    BY <1>3, <1>8
  <2>2. RecordFollows'
    BY <1>1, <1>2, <2>1 DEF RecordFollows
  <2>3. CountsAreExact' /\ SuccessfulTablesAreCommitted' /\ JobAgrees' /\ AllOrNothing' /\ ErasedAsReviewed'
    BY <1>1, <1>2, <2>1 DEF CountsAreExact, SuccessfulTablesAreCommitted, JobAgrees, AllOrNothing,
       ErasedAsReviewed, Atomic
  <2>. QED BY <1>4, <1>5, <1>6, <2>2, <2>3 DEF RunInv, CountsAreTrue
<1>. QED BY <1>7, <1>8

LEMMA RestartKeeps == ASSUME RunAssumption, RunInv, Restart PROVE RunInv'
<1>1. /\ pc = "dead" /\ pc' = "ended" /\ rec' = Recovered
      /\ UNCHANGED <<job, progress, target, rest, faults>>
  BY DEF Restart, Goto
<1>. QED BY <1>1, RecoveryKeeps

LEMMA OpenSecondStoreKeeps == ASSUME RunAssumption, RunInv, OpenSecondStore PROVE RunInv'
<1>1. /\ OpenRecord(rec) /\ pc' = pc /\ rec' = Recovered
      /\ UNCHANGED <<job, progress, target, rest, faults>>
  BY DEF OpenSecondStore
<1>. QED BY <1>1, RecoveryKeeps

\* A step of the run, of its surroundings, or of neither.
LEMMA RunStepKeeps == ASSUME RunAssumption, RunInv, [RunNext]_runVars PROVE RunInv'
<1>1. CASE Work
  BY <1>1, AcceptKeeps, RefuseKeeps, CreateRecordKeeps, LaunchKeeps, LoadRunKeeps,
     SnapshotFailureKeeps, CurrentRunCheckKeeps, MarkRunningKeeps, NextTableKeeps, FillKeeps,
     StoreTableKeeps, CloseSessionKeeps, BeginKeeps, FillStagedKeeps, CommitKeeps,
     PublishTerminalKeeps, RetryTerminalKeeps, CompleteJobKeeps DEF Work
<1>2. CASE ChangeSources \/ Review \/ Die \/ Restart \/ OpenSecondStore
  BY <1>2, ChangeSourcesKeeps, ReviewKeeps, DieKeeps, RestartKeeps, OpenSecondStoreKeeps
<1>3. CASE UNCHANGED runVars
  BY <1>3 DEF runVars, RunInv, CountsAreTrue, NothingYet, AppendInOrder, AtomicInTransaction,
     KnownAtTheEnd, RecordFollows, Atomicity, RunTypeOK, CountsAreExact, SuccessfulTablesAreCommitted,
     JobAgrees, AllOrNothing, ErasedAsReviewed, Atomic
<1>. QED BY <1>1, <1>2, <1>3 DEF RunNext

-----------------------------------------------------------------------------

\* The invariant that the properties of a run rest on: the tables are filled
\* in order, an atomic run changes its transaction only, and the worker knows
\* at its end what it has committed (workbench_runtime.py, execute_run).
THEOREM RunInvariance == ASSUME RunAssumption PROVE RunSpec => []RunInv
BY RunInitInv, RunStepKeeps, PTL DEF RunSpec

\* For every number of tables and rows, and with every failed write, lost
\* worker and second server: a record that says its counts are exact tells the
\* rows of every table, a table that is said to be done is committed in full,
\* and the job agrees with the record (_run_terminal, _initialize).
THEOREM RunCountsAreTrue == ASSUME RunAssumption PROVE RunSpec => []CountsAreTrue
<1>1. RunInv => CountsAreTrue
  BY DEF RunInv
<1>. QED BY <1>1, RunInvariance, PTL

\* A run in one transaction leaves all of its rows or none, and its record
\* says which (_execute_atomic_run).
THEOREM RunsAreAtomic == ASSUME RunAssumption PROVE RunSpec => []AllOrNothing
<1>1. RunInv => AllOrNothing
  BY DEF RunInv
<1>. QED BY <1>1, RunInvariance, PTL

\* Rows are deleted on the sources the user has reviewed: the comparison inside
\* of BEGIN IMMEDIATE is the one that counts (_execute_atomic_run).
THEOREM RowsAreErasedAsReviewed == ASSUME RunAssumption PROVE RunSpec => []ErasedAsReviewed
<1>1. RunInv => ErasedAsReviewed
  BY DEF RunInv
<1>. QED BY <1>1, RunInvariance, PTL


(***************************************************************************)
(* Queues, events and groups.                                              *)
(***************************************************************************)

\* The queue after publish: the event is last, the others were queued, and it fits.
LEMMA PublishFacts ==
  ASSUME AnalysisAssumption, NEW S, NEW q \in Seq(S), Len(q) <= Capacity, NEW e \in S
  PROVE  /\ Publish(q, e) \in Seq(S) /\ Len(Publish(q, e)) <= Capacity
         /\ Publish(q, e) # <<>> /\ Last(Publish(q, e)) = e
         /\ \A i \in DOMAIN Publish(q, e) :
              Publish(q, e)[i] = e \/ \E j \in DOMAIN q : Publish(q, e)[i] = q[j]
<1> DEFINE r == IF Len(q) = Capacity THEN Tail(q) ELSE q
<1>0. Capacity \in Nat /\ Capacity > 0 /\ Len(q) \in Nat
  BY DEF AnalysisAssumption
<1>1. /\ r \in Seq(S) /\ Len(r) \in Nat /\ Len(r) < Capacity
      /\ \A i \in 1 .. Len(r) : \E j \in DOMAIN q : r[i] = q[j]
  <2>1. CASE Len(q) = Capacity
    <3>1. q # <<>>
      BY <1>0, <2>1
    <3>2. Tail(q) \in Seq(S) /\ Len(Tail(q)) = Len(q) - 1 /\ \A i \in 1 .. Len(Tail(q)) : Tail(q)[i] = q[i + 1]
      BY <3>1, HeadTailProperties
    <3>3. \A i \in 1 .. Len(Tail(q)) : i + 1 \in DOMAIN q
      BY <1>0, <3>2
    <3>. QED BY <1>0, <2>1, <3>2, <3>3
  <2>2. CASE Len(q) # Capacity
    BY <1>0, <2>2
  <2>. QED BY <2>1, <2>2
<1>2. /\ Append(r, e) \in Seq(S) /\ Len(Append(r, e)) = Len(r) + 1
      /\ \A i \in 1 .. Len(r) : Append(r, e)[i] = r[i]
      /\ Append(r, e)[Len(r) + 1] = e
  <2>1. r \in Seq(S)
    BY <1>1
  <2>. QED BY <2>1, AppendProperties
<1>3. Publish(q, e) = Append(r, e)
  BY DEF Publish
<1>4. Last(Append(r, e)) = e
  BY <1>1, <1>2 DEF Last
<1>5. Append(r, e) # <<>> /\ Len(Append(r, e)) <= Capacity
  BY <1>0, <1>1, <1>2
<1>6. ASSUME NEW i \in DOMAIN Append(r, e)
      PROVE  Append(r, e)[i] = e \/ \E j \in DOMAIN q : Append(r, e)[i] = q[j]
  <2>1. i \in 1 .. Len(r) + 1
    BY <1>2
  <2>2. i = Len(r) + 1 \/ i \in 1 .. Len(r)
    BY <1>1, <2>1
  <2>. QED BY <1>1, <1>2, <2>2
<1>. HIDE DEF r
<1>. QED BY <1>2, <1>3, <1>4, <1>5, <1>6

\* The queue after its first event was read.
LEMMA TailFacts ==
  ASSUME NEW S, NEW q \in Seq(S), q # <<>>
  PROVE  /\ Head(q) \in S /\ Head(q) = q[1] /\ 1 \in DOMAIN q
         /\ Tail(q) \in Seq(S) /\ Len(Tail(q)) = Len(q) - 1 /\ Len(q) \in Nat
         /\ \A i \in DOMAIN Tail(q) : i + 1 \in DOMAIN q /\ Tail(q)[i] = q[i + 1]
         /\ IF Tail(q) = <<>> THEN Last(q) = Head(q) ELSE Last(Tail(q)) = Last(q)
<1>1. /\ Head(q) \in S /\ Tail(q) \in Seq(S) /\ Len(Tail(q)) = Len(q) - 1
      /\ \A i \in 1 .. Len(Tail(q)) : Tail(q)[i] = q[i + 1]
  BY HeadTailProperties
<1>2. Len(q) \in Nat /\ Len(q) > 0 /\ Head(q) = q[1] /\ 1 \in DOMAIN q /\ DOMAIN q = 1 .. Len(q)
      /\ DOMAIN Tail(q) = 1 .. Len(Tail(q))
  BY <1>1
<1>3. \A i \in DOMAIN Tail(q) : i + 1 \in DOMAIN q /\ Tail(q)[i] = q[i + 1]
  BY <1>1, <1>2
<1>4. CASE Tail(q) = <<>>
  <2>1. Len(q) = 1
    BY <1>1, <1>2, <1>4
  <2>. QED BY <1>1, <1>2, <1>3, <1>4, <2>1 DEF Last
<1>5. CASE Tail(q) # <<>>
  <2>1. Len(Tail(q)) \in DOMAIN Tail(q) /\ Len(Tail(q)) + 1 = Len(q)
    BY <1>1, <1>2, <1>5
  <2>. QED BY <1>1, <1>2, <1>3, <1>5, <2>1 DEF Last
<1>. QED BY <1>4, <1>5

\* Proposals are rules of one analysis for columns it was asked about.
LEMMA ProposalFacts ==
  ASSUME NEW a, NEW rules \in Proposals(a) \cup {Nothing}
  PROVE  /\ DOMAIN rules \subseteq asked[a] \ Locked
         /\ rules = [c \in DOMAIN rules |-> a]
         /\ rules # Nothing => rules \in Proposals(a)
<1>1. CASE rules = Nothing
  BY <1>1 DEF Nothing
<1>2. CASE rules \in Proposals(a)
  <2>1. PICK d \in SUBSET (asked[a] \ Locked) : rules \in [d -> {a}]
    BY <1>2 DEF Proposals
  <2>. QED BY <1>2, <2>1
<1>. QED BY <1>1, <1>2

\* The events of an analysis.
LEMMA EventFacts ==
  ASSUME NEW a, NEW e \in Events(a)
  PROVE  /\ e.type \in {"progress", "error", "result"}
         /\ e.type = "result" => e.rules \in Proposals(a) \cup {Nothing}
         /\ Terminal(e) <=> e.type # "progress"
BY DEF Events, Progress, Failure, Result, Terminal

LEMMA EventsToPublish ==
  ASSUME NEW a, NEW rules \in Proposals(a) \cup {Nothing}
  PROVE  /\ {Progress, Failure, Result(rules), Result(Nothing)} \subseteq Events(a)
         /\ Terminal(Failure) /\ Terminal(Result(rules)) /\ Result(rules).rules = rules
         /\ Failure.type # "result" /\ Progress.type # "result"
BY DEF Events, Progress, Failure, Result, Terminal

\* A column's group is made of whole constraints.
LEMMA GroupFacts ==
  ASSUME AnalysisAssumption, NEW c \in Columns
  PROVE  c \in Group(c) /\ Group(c) \subseteq Columns /\ Whole(Group(c))
<1>1. ASSUME NEW t \in Ties, t \cap Group(c) # {} PROVE t \subseteq Group(c)
  <2>1. PICK e \in t : e \in Group(c)
    BY <1>1
  <2>2. ASSUME NEW d \in t, NEW s \in SUBSET Columns, c \in s, Whole(s) PROVE d \in s
    <3>1. e \in s
      BY <2>1, <2>2 DEF Group
    <3>. QED BY <1>1, <2>1, <2>2, <3>1 DEF Whole
  <2>3. t \subseteq Columns
    BY <1>1 DEF AnalysisAssumption
  <2>. QED BY <2>2, <2>3 DEF Group
<1>. QED BY <1>1 DEF Group, Whole

(***************************************************************************)
(* The steps.                                                              *)
(***************************************************************************)

LEMMA InitAnalysisInv == AnalysisAssumption /\ AnalysisInit => AnalysisInv
<1>. SUFFICES ASSUME AnalysisAssumption, AnalysisInit PROVE AnalysisInv
  OBVIOUS
<1>. USE DEF AnalysisInit
<1>1. AnalysisTypeOK
  <2>1. Nothing \in [{} -> Rules] /\ {} \in SUBSET Columns /\ DOMAIN Nothing = {}
    BY DEF Nothing
  <2>2. 0 \in 0 .. MaxChanges /\ 0 \in 0 .. 1 /\ \A a \in Analyses : Len(queue[a]) <= Capacity
    BY DEF AnalysisAssumption
  <2>3. suggestions \in UNION {[d -> Rules] : d \in SUBSET Columns}
    BY <2>1
  <2>. QED BY <2>1, <2>2, <2>3 DEF AnalysisTypeOK, Rules
<1>2. HeldUntilExit
  <2>1. {a \in Analyses : Running(a)} = {}
    BY DEF Running
  <2>. QED BY <2>1, FS_EmptySet DEF HeldUntilExit
<1>3. EventsAreTheirAnalysis /\ OutcomeIsLast /\ OneIsAwaited
  BY DEF EventsAreTheirAnalysis, OutcomeIsLast, OneIsAwaited
<1>4. ReviewIsWhatWasAsked
  BY DEF ReviewIsWhatWasAsked, AnalysisAssumption
<1>5. ReviewIsSampled
  BY DEF ReviewIsSampled
<1>6. TiedAsPreviewed
  BY DEF TiedAsPreviewed, Tied, AnalysisAssumption
<1>. QED BY <1>1, <1>2, <1>3, <1>4, <1>5, <1>6 DEF AnalysisInv

\* Sampled of the next state.
SampledNext(rules) ==
  \/ rules = Nothing
  \/ \A t \in Ties :
       Tied([c \in Columns |-> IF c \in DOMAIN rules THEN rules[c] ELSE document'[c]], t) \in previewed'

LEMMA SampledLater ==
  ASSUME AnalysisAssumption
  PROVE  /\ document' = document /\ previewed \subseteq previewed' => \A rules : Sampled(rules) => SampledNext(rules)
         /\ (\A a \in Analyses : stream'[a] = "open" /\ ~gone'[a] =>
               \A i \in DOMAIN queue'[a] : queue'[a][i].type = "result" => SampledNext(queue'[a][i].rules))
            /\ (ui' \in {"review", "checking"} =>
                  /\ SampledNext([c \in DOMAIN suggestions' |-> ticket'])
                  /\ \A c \in DOMAIN suggestions' \ adjusted' : suggestions'[c] = ticket'
                  /\ \A t \in Ties : t \cap chosen' # {} => t \cap DOMAIN suggestions' \subseteq chosen')
            => ReviewIsSampled'
<1>1. ASSUME document' = document, previewed \subseteq previewed', NEW CONSTANT rules, Sampled(rules) PROVE SampledNext(rules)
  BY <1>1 DEF Sampled, SampledNext, Patched, Tied
<1>. QED BY <1>1 DEF ReviewIsSampled, Sampled, SampledNext, Patched, Tied, Nothing

\* A worker that publishes an event and goes on.
Publishes(a, e) ==
  /\ worker[a] \in {"start", "context", "model", "validating", "previewing"}
  /\ Published(a, e)
  /\ \E w \in {"context", "model", "validating", "previewing", "done"} :
       /\ worker' = [worker EXCEPT ![a] = w]
       /\ w = "done" => Terminal(e)
       /\ w = "previewing" => raw'[a] \subseteq asked[a] \ Locked
  /\ raw' \in [Analyses -> SUBSET Columns] /\ \A b \in Analyses \ {a} : raw'[b] = raw[b]
  /\ previewed \subseteq previewed'
  /\ e.type = "result" => SampledNext(e.rules)
  /\ UNCHANGED <<schema, late, gone, asked, pageVars, operationVars>>

LEMMA PublishesPreserves ==
  ASSUME AnalysisAssumption, AnalysisInv, NEW a \in Analyses, NEW e \in Events(a), Publishes(a, e)
  PROVE  AnalysisInv'
<1>. USE DEF pageVars, operationVars
<1>1. PICK w \in {"context", "model", "validating", "previewing", "done"} :
       /\ worker' = [worker EXCEPT ![a] = w]
       /\ w = "done" => Terminal(e)
       /\ w = "previewing" => raw'[a] \subseteq asked[a] \ Locked
  BY DEF Publishes
<1>2. /\ AnalysisTypeOK /\ HeldUntilExit /\ EventsAreTheirAnalysis /\ OutcomeIsLast
      /\ OneIsAwaited /\ ReviewIsWhatWasAsked /\ ReviewIsSampled /\ TiedAsPreviewed
  BY DEF AnalysisInv
<1>3. worker'[a] = w /\ \A b \in Analyses \ {a} : worker'[b] = worker[b]
  BY <1>1, <1>2 DEF AnalysisTypeOK
<1>4. queue'[a] = Publish(queue[a], e) /\ \A b \in Analyses \ {a} : queue'[b] = queue[b]
  BY <1>2 DEF Publishes, Published, AnalysisTypeOK
<1>5. UNCHANGED <<schema, late, gone, asked, ui, ticket, suggestions, chosen, adjusted, stale, document,
                  cancelled, stream, active, leases>>
  BY DEF Publishes
<1>6. queue[a] \in Seq(Events(a)) /\ Len(queue[a]) <= Capacity
  BY <1>2 DEF EventsAreTheirAnalysis, AnalysisTypeOK
<1>7. /\ queue'[a] \in Seq(Events(a)) /\ Len(queue'[a]) <= Capacity
      /\ queue'[a] # <<>> /\ Last(queue'[a]) = e
      /\ \A i \in DOMAIN queue'[a] : queue'[a][i] = e \/ \E j \in DOMAIN queue[a] : queue'[a][i] = queue[a][j]
  BY <1>4, <1>6, PublishFacts
<1>8. \A b \in Analyses : Running(b)' <=> Running(b)
  BY <1>1, <1>3 DEF Running, Publishes
<1>11. AnalysisTypeOK'
  <2>1. worker' \in [Analyses -> {"new", "start", "context", "model", "validating", "previewing", "done", "exited"}]
    BY <1>1, <1>2 DEF AnalysisTypeOK
  <2>2. queue' = [b \in Analyses |-> queue'[b]]
    BY <1>2 DEF Publishes, Published, AnalysisTypeOK
  <2>3. \A b \in Analyses : Len(queue'[b]) <= Capacity
    BY <1>2, <1>4, <1>7 DEF AnalysisTypeOK
  <2>4. raw' \in [Analyses -> SUBSET Columns]
    BY DEF Publishes
  <2>. QED BY <1>2, <1>5, <2>1, <2>2, <2>3, <2>4 DEF AnalysisTypeOK
<1>12. HeldUntilExit'
  <2>1. {b \in Analyses : Running(b)}' = {b \in Analyses : Running(b)}
    BY <1>8
  <2>. QED BY <1>2, <1>5, <2>1 DEF HeldUntilExit
<1>13. EventsAreTheirAnalysis'
  <2>1. \A b \in Analyses : Events(b)' = Events(b)
    BY <1>5 DEF Events, Proposals, Progress, Failure, Result, Nothing
  <2>2. \A b \in Analyses : queue'[b] \in Seq(Events(b)')
    BY <1>2, <1>4, <1>7, <2>1 DEF EventsAreTheirAnalysis
  <2>3. ASSUME NEW b \in Analyses, worker'[b] = "previewing" PROVE raw'[b] \subseteq asked'[b] \ Locked
    BY <1>1, <1>2, <1>3, <1>5, <2>3 DEF EventsAreTheirAnalysis, Publishes
  <2>. QED BY <2>2, <2>3 DEF EventsAreTheirAnalysis
<1>14. OutcomeIsLast'
  BY <1>1, <1>2, <1>3, <1>4, <1>5, <1>7 DEF OutcomeIsLast, Terminal
<1>15. OneIsAwaited'
  <2>1. ASSUME NEW b \in Analyses, worker'[b] = "new" PROVE stream'[b] = "none" /\ queue'[b] = <<>>
    BY <1>1, <1>2, <1>3, <1>4, <1>5, <2>1 DEF OneIsAwaited
  <2>. QED BY <1>2, <1>5, <2>1 DEF OneIsAwaited
<1>16. ReviewIsWhatWasAsked'
  BY <1>2, <1>5 DEF ReviewIsWhatWasAsked
<1>17. \A rules : Sampled(rules) => SampledNext(rules)
  BY <1>5, SampledLater DEF Publishes
<1>18. ReviewIsSampled'
  <2>1. ASSUME NEW b \in Analyses, stream'[b] = "open", ~gone'[b], NEW i \in DOMAIN queue'[b], queue'[b][i].type = "result"
        PROVE  SampledNext(queue'[b][i].rules)
    <3>0. stream[b] = "open" /\ ~gone[b]
      BY <1>5, <2>1
    <3>1. CASE b # a
      <4>1. queue'[b] = queue[b]
        BY <1>4, <3>1
      <4>. QED BY <1>2, <1>17, <2>1, <3>0, <4>1 DEF ReviewIsSampled
    <3>2. CASE b = a /\ queue'[b][i] = e
      BY <2>1, <3>2 DEF Publishes
    <3>3. CASE b = a /\ \E j \in DOMAIN queue[a] : queue'[b][i] = queue[a][j]
      BY <1>2, <1>17, <2>1, <3>0, <3>3 DEF ReviewIsSampled
    <3>. QED BY <1>7, <2>1, <3>1, <3>2, <3>3
  <2>2. ui' \in {"review", "checking"} =>
          /\ SampledNext([c \in DOMAIN suggestions' |-> ticket'])
          /\ \A c \in DOMAIN suggestions' \ adjusted' : suggestions'[c] = ticket'
          /\ \A t \in Ties : t \cap chosen' # {} => t \cap DOMAIN suggestions' \subseteq chosen'
    BY <1>2, <1>5, <1>17 DEF ReviewIsSampled
  <2>. QED BY <2>1, <2>2, SampledLater
<1>19. TiedAsPreviewed'
  BY <1>2, <1>5 DEF TiedAsPreviewed, Tied, Publishes
<1>. QED BY <1>11, <1>12, <1>13, <1>14, <1>15, <1>16, <1>18, <1>19 DEF AnalysisInv

\* The steps of a worker up to its outcome publish.
LEMMA WorkersPublish ==
  ASSUME AnalysisAssumption, AnalysisInv, NEW a \in Analyses,
         ReadContext(a) \/ AskModel(a) \/ ModelAnswers(a) \/ Validate(a) \/ Preview(a)
  PROVE  AnalysisInv'
<1>. DEFINE rules == [c \in raw[a] |-> a]
<1>1. /\ raw \in [Analyses -> SUBSET Columns]
      /\ worker[a] = "previewing" => raw[a] \subseteq asked[a] \ Locked
  BY DEF AnalysisInv, AnalysisTypeOK, EventsAreTheirAnalysis
<1>2. Progress \in Events(a) /\ Failure \in Events(a) /\ Result(Nothing) \in Events(a)
  BY EventsToPublish
<1>3. Terminal(Failure) /\ Terminal(Result(Nothing)) /\ Failure.type # "result" /\ Progress.type # "result"
      /\ SampledNext(Result(Nothing).rules)
  BY DEF Terminal, Failure, Progress, Result, SampledNext
<1>4. ASSUME Fail(a), UNCHANGED <<schema, late, gone, asked, raw, previewed, pageVars, operationVars>>,
             worker[a] \in {"start", "context", "model", "validating", "previewing"}
      PROVE  AnalysisInv'
  <2>1. Publishes(a, Failure)
    BY <1>1, <1>3, <1>4 DEF Fail, Publishes
  <2>. QED BY <1>2, <2>1, PublishesPreserves
<1>5. CASE ReadContext(a)
  <2>1. CASE Fail(a)
    BY <1>4, <1>5, <2>1 DEF ReadContext
  <2>2. CASE ~Stopped(a)
    <3>1. Publishes(a, Progress)
      BY <1>1, <1>3, <1>5, <2>2 DEF ReadContext, Publishes
    <3>. QED BY <1>2, <3>1, PublishesPreserves
  <2>. QED BY <1>5, <2>1, <2>2 DEF ReadContext
<1>6. CASE AskModel(a)
  <2>1. CASE Fail(a)
    BY <1>4, <1>6, <2>1 DEF AskModel
  <2>2. CASE ~Fail(a)
    <3>1. Publishes(a, Progress)
      BY <1>1, <1>3, <1>6, <2>2 DEF AskModel, Publishes
    <3>. QED BY <1>2, <3>1, PublishesPreserves
  <2>. QED BY <2>1, <2>2
<1>7. CASE ModelAnswers(a)
  <2>1. CASE Fail(a) /\ UNCHANGED raw
    BY <1>4, <1>7, <2>1 DEF ModelAnswers
  <2>2. CASE ~(Fail(a) /\ UNCHANGED raw)
    <3>1. PICK proposal \in SUBSET Columns : raw' = [raw EXCEPT ![a] = proposal]
      BY <1>7, <2>2 DEF ModelAnswers
    <3>2. raw' \in [Analyses -> SUBSET Columns] /\ \A b \in Analyses \ {a} : raw'[b] = raw[b]
      BY <1>1, <3>1
    <3>3. Publishes(a, Progress)
      BY <1>3, <1>7, <2>2, <3>2 DEF ModelAnswers, Publishes
    <3>. QED BY <1>2, <3>3, PublishesPreserves
  <2>. QED BY <2>1, <2>2
<1>8. CASE Validate(a)
  <2>1. CASE Fail(a) /\ UNCHANGED raw
    BY <1>4, <1>8, <2>1 DEF Validate
  <2>2. CASE ~(Fail(a) /\ UNCHANGED raw)
    <3>1. raw' = [raw EXCEPT ![a] = Collected(a)]
      BY <1>8, <2>2 DEF Validate
    <3>2. /\ raw' \in [Analyses -> SUBSET Columns] /\ \A b \in Analyses \ {a} : raw'[b] = raw[b]
          /\ raw'[a] \subseteq asked[a] \ Locked
      BY <1>1, <3>1 DEF Collected
    <3>3. CASE Published(a, Progress) /\ worker' = [worker EXCEPT ![a] = "previewing"]
      <4>1. Publishes(a, Progress)
        BY <1>3, <1>8, <3>2, <3>3 DEF Validate, Publishes
      <4>. QED BY <1>2, <4>1, PublishesPreserves
    <3>4. CASE Published(a, Result(Nothing)) /\ worker' = [worker EXCEPT ![a] = "done"]
      <4>1. Publishes(a, Result(Nothing))
        BY <1>3, <1>8, <3>2, <3>4 DEF Validate, Publishes
      <4>. QED BY <1>2, <4>1, PublishesPreserves
    <3>. QED BY <1>8, <2>2, <3>3, <3>4 DEF Validate
  <2>. QED BY <2>1, <2>2
<1>9. CASE Preview(a)
  <2>1. CASE Fail(a) /\ UNCHANGED previewed
    BY <1>4, <1>9, <2>1 DEF Preview
  <2>2. CASE Published(a, Result(Nothing)) /\ UNCHANGED previewed /\ worker' = [worker EXCEPT ![a] = "done"]
    <3>1. Publishes(a, Result(Nothing))
      BY <1>1, <1>3, <1>9, <2>2 DEF Preview, Publishes
    <3>. QED BY <1>2, <3>1, PublishesPreserves
  <2>3. CASE /\ Published(a, Result(rules)) /\ worker' = [worker EXCEPT ![a] = "done"]
             /\ previewed' = previewed \cup {Tied(Patched(rules), t) : t \in Ties}
    <3>1. rules \in Proposals(a)
      BY <1>1, <1>9 DEF Preview, Proposals
    <3>2. Result(rules) \in Events(a) /\ Terminal(Result(rules)) /\ Result(rules).rules = rules
      BY <3>1, EventsToPublish
    <3>3. document' = document
      BY <1>9 DEF Preview, pageVars
    <3>4. SampledNext(rules)
      BY <2>3, <3>3 DEF SampledNext, Patched, Tied
    <3>5. Publishes(a, Result(rules))
      BY <1>1, <1>9, <2>3, <3>2, <3>4 DEF Preview, Publishes
    <3>. QED BY <3>2, <3>5, PublishesPreserves
  <2>. QED BY <1>9, <2>1, <2>2, <2>3 DEF Preview
<1>. QED BY <1>5, <1>6, <1>7, <1>8, <1>9

\* A worker that is done exits and gives the connection and its lease back.
LEMMA FinishPreserves ==
  ASSUME AnalysisAssumption, AnalysisInv, NEW a \in Analyses, Finish(a)
  PROVE  AnalysisInv'
<1>. USE DEF Finish, pageVars
<1>1. /\ AnalysisTypeOK /\ HeldUntilExit /\ EventsAreTheirAnalysis /\ OutcomeIsLast
      /\ OneIsAwaited /\ ReviewIsWhatWasAsked /\ ReviewIsSampled /\ TiedAsPreviewed
  BY DEF AnalysisInv
<1>2. worker'[a] = "exited" /\ \A b \in Analyses \ {a} : worker'[b] = worker[b]
  BY <1>1 DEF AnalysisTypeOK
<1>3. raw' \in [Analyses -> SUBSET Columns] /\ \A b \in Analyses \ {a} : raw'[b] = raw[b]
  BY <1>1 DEF AnalysisTypeOK
<1>4. {b \in Analyses : Running(b)} = {a} /\ active = a
  <2>1. a \in {b \in Analyses : Running(b)}
    BY DEF Running
  <2>. QED BY <1>1, <2>1 DEF HeldUntilExit
<1>5. {b \in Analyses : Running(b)}' = {}
  BY <1>2, <1>4 DEF Running
<1>6. leases' = 0
  BY <1>1, <1>4, FS_Singleton DEF HeldUntilExit
<1>7. AnalysisTypeOK'
  BY <1>1, <1>3, <1>6 DEF AnalysisTypeOK
<1>8. HeldUntilExit'
  BY <1>5, <1>6, FS_EmptySet DEF HeldUntilExit
<1>9. EventsAreTheirAnalysis'
  BY <1>1, <1>2, <1>3 DEF EventsAreTheirAnalysis, Events, Proposals
<1>10. OutcomeIsLast' /\ OneIsAwaited'
  BY <1>1, <1>2 DEF OutcomeIsLast, OneIsAwaited
<1>11. ReviewIsWhatWasAsked' /\ TiedAsPreviewed'
  BY <1>1 DEF ReviewIsWhatWasAsked, TiedAsPreviewed, Tied
<1>12. ReviewIsSampled'
  BY <1>1 DEF ReviewIsSampled, Sampled, Patched, Tied
<1>. QED BY <1>7, <1>8, <1>9, <1>10, <1>11, <1>12 DEF AnalysisInv

\* A step that leaves the workers alone: the response of a may be read or end, and the modal
\* stays, is left, or shows what a proposed.
Reads(a) ==
  \/ queue' = queue
  \/ /\ stream[a] = "open" /\ queue[a] # <<>> /\ queue' = [queue EXCEPT ![a] = Tail(@)]
     /\ Terminal(Head(queue[a])) => stream'[a] = "closed"
Ends(a) ==
  \/ stream' = stream
  \/ stream[a] = "open" /\ stream' = [stream EXCEPT ![a] = "closed"]
Stays == UNCHANGED <<ui, ticket, suggestions, chosen, adjusted>>
Leaves ==
  /\ ui' \in {"idle", "closed"} /\ ticket' = None /\ Cleared
  /\ \A b \in Analyses : stream'[b] = "open" => gone'[b]
Shows(a) ==
  /\ stream[a] = "open" /\ ~gone[a] /\ stream'[a] = "closed"
  /\ \E rules \in Proposals(a) \cup {Nothing} : Sampled(rules) /\ Shown(rules)

LEMMA ResponsePreserves ==
  ASSUME AnalysisAssumption, AnalysisInv, NEW a \in Analyses, Reads(a), Ends(a),
         UNCHANGED <<worker, active, leases, asked, raw, document, previewed>>,
         schema' \in 0 .. MaxChanges,
         gone' \in [Analyses -> BOOLEAN], \A b \in Analyses : gone[b] => gone'[b],
         cancelled' \in [Analyses -> BOOLEAN], late' \in [Analyses -> BOOLEAN],
         Stays \/ Leaves \/ Shows(a)
  PROVE  AnalysisInv'
<1>1. /\ AnalysisTypeOK /\ HeldUntilExit /\ EventsAreTheirAnalysis /\ OutcomeIsLast
      /\ OneIsAwaited /\ ReviewIsWhatWasAsked /\ ReviewIsSampled /\ TiedAsPreviewed
  BY DEF AnalysisInv
<1>2. /\ stream' \in [Analyses -> {"none", "open", "closed"}]
      /\ \A b \in Analyses : stream'[b] = "open" => stream[b] = "open"
      /\ \A b \in Analyses : stream'[b] = "none" <=> stream[b] = "none"
  BY <1>1 DEF Ends, AnalysisTypeOK
<1>3. ASSUME NEW b \in Analyses
      PROVE  \/ queue'[b] = queue[b]
             \/ /\ b = a /\ stream[b] = "open" /\ queue[b] # <<>> /\ queue'[b] = Tail(queue[b])
                /\ Terminal(Head(queue[b])) => stream'[b] = "closed"
  BY <1>1 DEF Reads, AnalysisTypeOK
<1>4. ASSUME NEW b \in Analyses
      PROVE  /\ queue'[b] \in Seq(Events(b)) /\ Len(queue'[b]) <= Capacity
             /\ \A i \in DOMAIN queue'[b] : \E j \in DOMAIN queue[b] : queue'[b][i] = queue[b][j]
  <2>1. queue[b] \in Seq(Events(b)) /\ Len(queue[b]) <= Capacity
    BY <1>1, <1>4 DEF EventsAreTheirAnalysis, AnalysisTypeOK
  <2>2. CASE queue[b] # <<>> /\ queue'[b] = Tail(queue[b])
    <3>1. /\ Tail(queue[b]) \in Seq(Events(b)) /\ Len(Tail(queue[b])) = Len(queue[b]) - 1 /\ Len(queue[b]) \in Nat
          /\ \A i \in DOMAIN Tail(queue[b]) : i + 1 \in DOMAIN queue[b] /\ Tail(queue[b])[i] = queue[b][i + 1]
      BY <2>1, <2>2, TailFacts
    <3>. QED BY <2>1, <2>2, <3>1 DEF AnalysisAssumption
  <2>. QED BY <1>3, <1>4, <2>1, <2>2
<1>5. queue' = [b \in Analyses |-> queue'[b]]
  BY <1>1 DEF Reads, AnalysisTypeOK
<1>6. /\ suggestions' \in UNION {[d -> Rules] : d \in SUBSET Columns}
      /\ chosen' \subseteq DOMAIN suggestions' /\ adjusted' \subseteq DOMAIN suggestions'
      /\ ticket' \in Analyses \cup {None} /\ ui' \in {"idle", "busy", "review", "checking", "closed"}
  <2>1. CASE Stays
    BY <1>1, <2>1 DEF Stays, AnalysisTypeOK
  <2>2. CASE Leaves
    <3>1. Nothing \in [{} -> Rules] /\ {} \in SUBSET Columns /\ DOMAIN Nothing = {}
      BY DEF Nothing
    <3>2. suggestions' \in UNION {[d -> Rules] : d \in SUBSET Columns}
      BY <2>2, <3>1 DEF Leaves, Cleared
    <3>. QED BY <2>2, <3>1, <3>2 DEF Leaves, Cleared
  <2>3. CASE Shows(a)
    <3>1. PICK rules \in Proposals(a) \cup {Nothing} : Shown(rules)
      BY <2>3 DEF Shows
    <3>2. DOMAIN rules \subseteq asked[a] \ Locked /\ rules = [c \in DOMAIN rules |-> a]
      BY <3>1, ProposalFacts
    <3>3. DOMAIN rules \in SUBSET Columns
      BY <1>1, <3>2 DEF AnalysisTypeOK
    <3>4. rules \in [DOMAIN rules -> Rules]
      BY <3>2 DEF Rules
    <3>. QED BY <1>1, <3>1, <3>3, <3>4 DEF Shown, AnalysisTypeOK
  <2>. QED BY <2>1, <2>2, <2>3
<1>11. AnalysisTypeOK'
  BY <1>1, <1>2, <1>4, <1>5, <1>6 DEF AnalysisTypeOK
<1>12. HeldUntilExit'
  <2>1. {b \in Analyses : Running(b)}' = {b \in Analyses : Running(b)}
    BY DEF Running
  <2>. QED BY <1>1, <2>1 DEF HeldUntilExit
<1>13. EventsAreTheirAnalysis'
  <2>1. \A b \in Analyses : Events(b)' = Events(b)
    BY DEF Events, Proposals, Progress, Failure, Result, Nothing
  <2>. QED BY <1>1, <1>4, <2>1 DEF EventsAreTheirAnalysis
<1>14. OutcomeIsLast'
  <2>1. ASSUME NEW b \in Analyses, worker'[b] \in {"done", "exited"}, stream'[b] = "open"
        PROVE  queue'[b] # <<>> /\ Terminal(Last(queue'[b]))
    <3>1. queue[b] # <<>> /\ Terminal(Last(queue[b])) /\ queue[b] \in Seq(Events(b))
      BY <1>1, <1>2, <2>1 DEF OutcomeIsLast, EventsAreTheirAnalysis
    <3>2. IF Tail(queue[b]) = <<>> THEN Last(queue[b]) = Head(queue[b]) ELSE Last(Tail(queue[b])) = Last(queue[b])
      BY <3>1, TailFacts
    <3>. QED BY <1>3, <2>1, <3>1, <3>2
  <2>. QED BY <2>1 DEF OutcomeIsLast, Terminal
<1>15. OneIsAwaited'
  <2>1. ASSUME NEW b \in Analyses, worker'[b] = "new" PROVE stream'[b] = "none" /\ queue'[b] = <<>>
    <3>1. stream[b] = "none" /\ queue[b] = <<>>
      BY <1>1, <2>1 DEF OneIsAwaited
    <3>. QED BY <1>2, <1>3, <2>1, <3>1
  <2>2. ASSUME NEW b \in Analyses, stream'[b] = "open", ~gone'[b]
        PROVE  ui' = "busy" /\ ticket' = b
    <3>1. stream[b] = "open" /\ ~gone[b] /\ ui = "busy" /\ ticket = b
      BY <1>1, <1>2, <2>2 DEF OneIsAwaited
    <3>2. ~Leaves
      BY <2>2 DEF Leaves
    <3>3. ~Shows(a)
      BY <1>1, <2>2, <3>1 DEF Shows, OneIsAwaited
    <3>. QED BY <3>1, <3>2, <3>3 DEF Stays
  <2>3. ui' \in {"busy", "review", "checking"} => ticket' \in Analyses
    <3>1. Shows(a) => ticket' \in Analyses
      BY <1>1 DEF Shows, Shown, OneIsAwaited
    <3>. QED BY <1>1, <3>1 DEF Stays, Leaves, OneIsAwaited
  <2>4. ui' \in {"review", "checking"} => stream'[ticket'] # "none"
    <3>1. Shows(a) => ticket' = a /\ stream'[a] # "none"
      BY <1>1 DEF Shows, Shown, OneIsAwaited
    <3>. QED BY <1>1, <1>2, <3>1 DEF Stays, Leaves, OneIsAwaited
  <2>5. ui' \notin {"review", "checking"} => suggestions' = Nothing
    BY <1>1 DEF Stays, Leaves, Cleared, Shows, Shown, OneIsAwaited
  <2>. QED BY <2>1, <2>2, <2>3, <2>4, <2>5 DEF OneIsAwaited, Nothing
<1>16. ReviewIsWhatWasAsked'
  <2>1. CASE Stays
    BY <1>1, <2>1 DEF Stays, ReviewIsWhatWasAsked
  <2>2. CASE Leaves
    BY <1>1, <2>2 DEF Leaves, ReviewIsWhatWasAsked
  <2>3. CASE Shows(a)
    <3>1. PICK rules \in Proposals(a) \cup {Nothing} : Shown(rules)
      BY <2>3 DEF Shows
    <3>2. DOMAIN rules \subseteq asked[a] \ Locked /\ rules = [c \in DOMAIN rules |-> a]
      BY <3>1, ProposalFacts
    <3>3. ticket' = a /\ suggestions' = rules
      BY <1>1, <2>3, <3>1 DEF Shows, Shown, OneIsAwaited
    <3>. QED BY <1>1, <3>2, <3>3 DEF ReviewIsWhatWasAsked
  <2>. QED BY <2>1, <2>2, <2>3
<1>17. \A rules : Sampled(rules) => SampledNext(rules)
  BY SampledLater
<1>18. ReviewIsSampled'
  <2>1. ASSUME NEW b \in Analyses, stream'[b] = "open", ~gone'[b], NEW i \in DOMAIN queue'[b], queue'[b][i].type = "result"
        PROVE  SampledNext(queue'[b][i].rules)
    <3>1. stream[b] = "open" /\ ~gone[b]
      BY <1>2, <2>1
    <3>2. PICK j \in DOMAIN queue[b] : queue'[b][i] = queue[b][j]
      BY <1>4, <2>1
    <3>. QED BY <1>1, <1>17, <2>1, <3>1, <3>2 DEF ReviewIsSampled
  <2>2. ASSUME ui' \in {"review", "checking"}
        PROVE  /\ SampledNext([c \in DOMAIN suggestions' |-> ticket'])
               /\ \A c \in DOMAIN suggestions' \ adjusted' : suggestions'[c] = ticket'
               /\ \A t \in Ties : t \cap chosen' # {} => t \cap DOMAIN suggestions' \subseteq chosen'
    <3>1. CASE Stays
      BY <1>1, <1>17, <2>2, <3>1 DEF Stays, ReviewIsSampled
    <3>2. CASE Shows(a)
      <4>1. PICK rules \in Proposals(a) \cup {Nothing} : Sampled(rules) /\ Shown(rules)
        BY <3>2 DEF Shows
      <4>2. rules = [c \in DOMAIN rules |-> a]
        BY <4>1, ProposalFacts
      <4>3. ticket' = a /\ suggestions' = rules /\ chosen' = {}
        BY <1>1, <3>2, <4>1 DEF Shows, Shown, OneIsAwaited
      <4>. QED BY <1>17, <4>1, <4>2, <4>3
    <3>. QED BY <2>2, <3>1, <3>2 DEF Leaves
  <2>. QED BY <2>1, <2>2, SampledLater
<1>19. TiedAsPreviewed'
  BY <1>1 DEF TiedAsPreviewed, Tied
<1>. QED BY <1>11, <1>12, <1>13, <1>14, <1>15, <1>16, <1>18, <1>19 DEF AnalysisInv

\* The steps that only read, end or leave a response, and those of others.
LEMMA ResponseSteps ==
  ASSUME AnalysisAssumption, AnalysisInv,
         \/ \E a \in Analyses : DeadlinePasses(a) \/ Abandon(a) \/ Expire(a) \/ Receive(a)
         \/ SchemaChanges \/ PageTimeout \/ Close \/ Invalidate
  PROVE  AnalysisInv'
<1>. USE DEF serverVars, pageVars
<1>1. /\ AnalysisTypeOK /\ EventsAreTheirAnalysis /\ OneIsAwaited /\ ReviewIsSampled
  BY DEF AnalysisInv
<1>2. /\ schema \in 0 .. MaxChanges /\ gone \in [Analyses -> BOOLEAN] /\ stream \in [Analyses -> {"none", "open", "closed"}]
      /\ cancelled \in [Analyses -> BOOLEAN] /\ late \in [Analyses -> BOOLEAN]
  BY <1>1 DEF AnalysisTypeOK
<1>3. ASSUME NEW a \in Analyses, EndResponse(a), stream[a] = "open"
      PROVE  Ends(a) /\ cancelled' \in [Analyses -> BOOLEAN] /\ stream'[a] = "closed" /\ UNCHANGED <<active, leases>>
             /\ \A b \in Analyses \ {a} : stream'[b] = stream[b]
  BY <1>2, <1>3 DEF EndResponse, KeptByWorker, Ends
<1>4. ASSUME NEW a \in Analyses, GiveUp(a)
      PROVE  ui' = "idle" /\ ticket' = None /\ Cleared /\ gone' \in [Analyses -> BOOLEAN] /\ gone'[a]
             /\ \A b \in Analyses : gone[b] => gone'[b]
  BY <1>2, <1>4 DEF GiveUp
<1>5. \A a, b \in Analyses : stream[a] = "open" /\ ~gone[a] /\ stream[b] = "open" /\ ~gone[b] => a = b
  BY <1>1 DEF OneIsAwaited
<1>6. ASSUME NEW a \in Analyses, DeadlinePasses(a) PROVE AnalysisInv'
  <2>1. late' \in [Analyses -> BOOLEAN] /\ Reads(a) /\ Ends(a) /\ Stays
    BY <1>2, <1>6 DEF DeadlinePasses, Reads, Ends, Stays
  <2>2. UNCHANGED <<worker, active, leases, asked, raw, document, previewed, schema, gone, cancelled>>
    BY <1>6 DEF DeadlinePasses
  <2>. QED BY <1>2, <2>1, <2>2, ResponsePreserves
<1>7. ASSUME NEW a \in Analyses, Abandon(a) PROVE AnalysisInv'
  <2>1. Reads(a) /\ Ends(a) /\ Stays /\ cancelled' \in [Analyses -> BOOLEAN]
    BY <1>3, <1>7 DEF Abandon, Reads, Stays
  <2>2. UNCHANGED <<worker, active, leases, asked, raw, document, previewed, schema, gone, late>>
    BY <1>3, <1>7 DEF Abandon
  <2>. QED BY <1>2, <2>1, <2>2, ResponsePreserves
<1>8. ASSUME NEW a \in Analyses, Expire(a) PROVE AnalysisInv'
  <2>0. stream[a] = "open" /\ ~gone[a] /\ EndResponse(a) /\ GiveUp(a)
    BY <1>8 DEF Expire
  <2>1. Reads(a) /\ Ends(a) /\ cancelled' \in [Analyses -> BOOLEAN]
    BY <1>3, <1>8, <2>0 DEF Expire, Reads
  <2>2. UNCHANGED <<worker, active, leases, asked, raw, document, previewed, schema, late>>
    BY <1>3, <1>8, <2>0 DEF Expire
  <2>3. Leaves /\ gone' \in [Analyses -> BOOLEAN] /\ \A b \in Analyses : gone[b] => gone'[b]
    BY <1>2, <1>3, <1>4, <1>5, <2>0 DEF Leaves
  <2>. QED BY <1>2, <2>1, <2>2, <2>3, ResponsePreserves
<1>9. ASSUME NEW a \in Analyses, Receive(a) PROVE AnalysisInv'
  <2>1. /\ stream[a] = "open" /\ ~gone[a] /\ queue[a] # <<>> /\ queue' = [queue EXCEPT ![a] = Tail(@)]
        /\ UNCHANGED <<worker, asked, raw, document, previewed, schema, late>>
    BY <1>9 DEF Receive
  <2>2. Head(queue[a]) \in Events(a) /\ Head(queue[a]) = queue[a][1] /\ 1 \in DOMAIN queue[a]
    BY <1>1, <2>1, TailFacts DEF EventsAreTheirAnalysis
  <2>3. /\ Head(queue[a]).type \in {"progress", "error", "result"}
        /\ Head(queue[a]).type = "result" => Head(queue[a]).rules \in Proposals(a) \cup {Nothing}
        /\ Terminal(Head(queue[a])) <=> Head(queue[a]).type # "progress"
    BY <2>2, EventFacts
  <2>4. IF Terminal(Head(queue[a])) THEN EndResponse(a) ELSE UNCHANGED <<stream, cancelled, active, leases>>
    BY <1>9 DEF Receive
  <2>5. /\ Reads(a) /\ Ends(a) /\ cancelled' \in [Analyses -> BOOLEAN] /\ UNCHANGED <<active, leases>>
        /\ Terminal(Head(queue[a])) => stream'[a] = "closed"
        /\ \A b \in Analyses \ {a} : stream'[b] = stream[b]
    BY <1>2, <1>3, <2>1, <2>4 DEF Reads, Ends
  <2>6. CASE Head(queue[a]).type = "progress" /\ UNCHANGED <<ui, ticket, suggestions, chosen, adjusted, gone>>
    <3>1. Stays
      BY <2>6 DEF Stays
    <3>. QED BY <1>2, <2>1, <2>5, <2>6, <3>1, ResponsePreserves
  <2>7. CASE Head(queue[a]).type = "result" /\ Shown(Head(queue[a]).rules)
    <3>1. Sampled(Head(queue[a]).rules)
      BY <1>1, <2>1, <2>2, <2>7 DEF ReviewIsSampled
    <3>2. Shows(a) /\ gone' = gone
      BY <2>1, <2>3, <2>5, <2>7, <3>1 DEF Shows, Shown
    <3>. QED BY <1>2, <2>1, <2>5, <3>2, ResponsePreserves
  <2>8. CASE GiveUp(a)
    <3>1. Leaves /\ gone' \in [Analyses -> BOOLEAN] /\ \A b \in Analyses : gone[b] => gone'[b]
      BY <1>2, <1>4, <1>5, <2>1, <2>5, <2>8 DEF Leaves
    <3>. QED BY <1>2, <2>1, <2>5, <3>1, ResponsePreserves
  <2>. QED BY <1>9, <2>6, <2>7, <2>8 DEF Receive
<1>10. CASE SchemaChanges \/ Invalidate
  <2>1. schema' \in 0 .. MaxChanges
    BY <1>2, <1>10 DEF SchemaChanges, Invalidate, AnalysisAssumption
  <2>2. UNCHANGED <<queue, stream, worker, active, leases, asked, raw, document, previewed, gone, cancelled, late>> /\ Stays
    BY <1>10 DEF SchemaChanges, Invalidate, Stays
  <2>3. CASE \E a \in Analyses : TRUE
    <3>1. PICK a \in Analyses : TRUE
      BY <2>3
    <3>2. Reads(a) /\ Ends(a)
      BY <2>2 DEF Reads, Ends
    <3>. QED BY <1>2, <2>1, <2>2, <3>2, ResponsePreserves
  <2>4. CASE Analyses = {}
    <3>1. PICK a : a \notin Analyses
      BY DEF AnalysisAssumption
    <3>. QED BY <2>1, <2>2, <2>4 DEF AnalysisInv, AnalysisTypeOK, HeldUntilExit, EventsAreTheirAnalysis, OutcomeIsLast,
              OneIsAwaited, ReviewIsWhatWasAsked, ReviewIsSampled, TiedAsPreviewed, Running, Stays, Tied, Sampled, Patched
  <2>. QED BY <2>3, <2>4
<1>11. CASE PageTimeout
  <2>1. ticket \in Analyses /\ GiveUp(ticket)
    BY <1>1, <1>11 DEF PageTimeout, OneIsAwaited
  <2>2. UNCHANGED <<queue, stream, worker, active, leases, asked, raw, document, previewed, schema, cancelled, late>>
    BY <1>11 DEF PageTimeout
  <2>3. Reads(ticket) /\ Ends(ticket)
    BY <2>2 DEF Reads, Ends
  <2>4. Leaves /\ gone' \in [Analyses -> BOOLEAN] /\ \A b \in Analyses : gone[b] => gone'[b]
    BY <1>1, <1>4, <2>1, <2>2 DEF Leaves, OneIsAwaited
  <2>. QED BY <1>2, <2>1, <2>2, <2>3, <2>4, ResponsePreserves
<1>12. CASE Close
  <2>1. UNCHANGED <<queue, stream, worker, active, leases, asked, raw, document, previewed, schema, cancelled, late>>
    BY <1>12 DEF Close
  <2>2. ticket \in Analyses
    BY <1>1, <1>12 DEF Close, OneIsAwaited, AnalysisTypeOK
  <2>3. Leaves /\ gone' \in [Analyses -> BOOLEAN] /\ \A b \in Analyses : gone[b] => gone'[b]
    BY <1>1, <1>2, <1>12, <2>1, <2>2 DEF Close, Leaves, OneIsAwaited, AnalysisAssumption
  <2>4. Reads(ticket) /\ Ends(ticket)
    BY <2>1 DEF Reads, Ends
  <2>. QED BY <1>2, <2>1, <2>2, <2>3, <2>4, ResponsePreserves
<1>. QED BY <1>6, <1>7, <1>8, <1>9, <1>10, <1>11, <1>12

\* A new request, accepted or refused.
LEMMA AnalyzePreserves ==
  ASSUME AnalysisAssumption, AnalysisInv, NEW a \in Analyses, Analyze(a)
  PROVE  AnalysisInv'
<1>1. /\ AnalysisTypeOK /\ HeldUntilExit /\ EventsAreTheirAnalysis /\ OutcomeIsLast
      /\ OneIsAwaited /\ ReviewIsWhatWasAsked /\ ReviewIsSampled /\ TiedAsPreviewed
  BY DEF AnalysisInv
<1>2. /\ worker[a] = "new" /\ stream[a] = "none" /\ queue[a] = <<>> /\ ui \in {"idle", "review"}
      /\ UNCHANGED <<schema, queue, cancelled, late, gone, raw, stale, document, previewed>>
      /\ Cleared
  BY <1>1 DEF Analyze, OneIsAwaited
<1>3. /\ asked' \in [Analyses -> SUBSET (Columns \ Locked)]
      /\ \A b \in Analyses \ {a} : asked'[b] = asked[b]
  <2>1. PICK targets \in SUBSET (Columns \ Locked) \ {{}} : asked' = [asked EXCEPT ![a] = targets]
    BY DEF Analyze
  <2>. QED BY <1>1, <2>1 DEF AnalysisTypeOK
<1>4. PICK w \in {"start", "exited"} :
        /\ worker' = [worker EXCEPT ![a] = w]
        /\ IF w = "start"
           THEN /\ active = None /\ active' = a /\ leases' = leases + 1 /\ ui' = "busy" /\ ticket' = a
                /\ stream' = [stream EXCEPT ![a] = "open"]
           ELSE UNCHANGED <<active, leases, stream>> /\ ui' = "idle" /\ ticket' = None
  BY DEF Analyze, Accepted, Refused
<1>5. /\ worker' \in [Analyses -> {"new", "start", "context", "model", "validating", "previewing", "done", "exited"}]
      /\ worker'[a] = w /\ \A b \in Analyses \ {a} : worker'[b] = worker[b]
  BY <1>1, <1>4 DEF AnalysisTypeOK
<1>6. /\ stream' \in [Analyses -> {"none", "open", "closed"}]
      /\ stream'[a] = (IF w = "start" THEN "open" ELSE "none")
      /\ \A b \in Analyses \ {a} : stream'[b] = stream[b]
  BY <1>1, <1>2, <1>4 DEF AnalysisTypeOK
<1>7. active' \in Analyses \cup {None} /\ leases' \in 0 .. 1 /\ HeldUntilExit'
  <2>1. ~Running(a)
    BY <1>2 DEF Running
  <2>2. CASE w = "start"
    <3>1. {b \in Analyses : Running(b)} = {} /\ leases = 0
      BY <1>1, <1>4, <2>2, FS_EmptySet DEF HeldUntilExit
    <3>2. {b \in Analyses : Running(b)}' = {a}
      BY <1>5, <2>2, <3>1 DEF Running
    <3>3. active' = a /\ a # None /\ leases' = 1 /\ Cardinality({a}) = 1
      <4>1. active' = a /\ a # None /\ leases' = 1
        BY <1>4, <2>2, <3>1 DEF AnalysisAssumption
      <4>. QED BY <4>1, FS_Singleton
    <3>4. HeldUntilExit'
      BY <3>2, <3>3 DEF HeldUntilExit
    <3>. QED BY <3>3, <3>4
  <2>3. CASE w = "exited"
    <3>1. {b \in Analyses : Running(b)}' = {b \in Analyses : Running(b)}
      BY <1>5, <2>1, <2>3 DEF Running
    <3>. QED BY <1>1, <1>4, <2>3, <3>1 DEF HeldUntilExit, AnalysisTypeOK
  <2>. QED BY <2>2, <2>3
<1>8. AnalysisTypeOK'
  <2>1. Nothing \in [{} -> Rules] /\ {} \in SUBSET Columns /\ DOMAIN Nothing = {}
    BY DEF Nothing
  <2>2. suggestions' \in UNION {[d -> Rules] : d \in SUBSET Columns}
    BY <1>2, <2>1 DEF Cleared
  <2>. QED BY <1>1, <1>2, <1>3, <1>4, <1>5, <1>6, <1>7, <2>1, <2>2 DEF AnalysisTypeOK, Cleared
<1>9. EventsAreTheirAnalysis'
  <2>1. \A b \in Analyses \ {a} : Events(b)' = Events(b)
    BY <1>3 DEF Events, Proposals, Progress, Failure, Result, Nothing
  <2>2. <<>> \in Seq(Events(a)')
    OBVIOUS
  <2>. QED BY <1>1, <1>2, <1>3, <1>4, <1>5, <2>1, <2>2 DEF EventsAreTheirAnalysis
<1>10. OutcomeIsLast'
  BY <1>1, <1>2, <1>4, <1>5, <1>6 DEF OutcomeIsLast, Terminal
<1>11. OneIsAwaited'
  <2>1. \A b \in Analyses : ~(stream[b] = "open" /\ ~gone[b])
    BY <1>1, <1>2 DEF OneIsAwaited
  <2>. QED BY <1>1, <1>2, <1>4, <1>5, <1>6, <2>1 DEF OneIsAwaited, Cleared, Nothing
<1>12. ReviewIsWhatWasAsked'
  BY <1>1, <1>2, <1>4 DEF ReviewIsWhatWasAsked
<1>13. TiedAsPreviewed'
  BY <1>1, <1>2 DEF TiedAsPreviewed, Tied
<1>14. ReviewIsSampled'
  <2>1. \A b \in Analyses : stream'[b] = "open" /\ ~gone'[b] => DOMAIN queue'[b] = {}
    BY <1>1, <1>2, <1>6 DEF OneIsAwaited
  <2>. QED BY <1>4, <2>1 DEF ReviewIsSampled
<1>. QED BY <1>1, <1>7, <1>8, <1>9, <1>10, <1>11, <1>12, <1>13, <1>14 DEF AnalysisInv

\* A step of the review changes nothing of the server.
Reviews ==
  /\ ui \in {"review", "checking"}
  /\ UNCHANGED <<schema, serverVars, late, gone, asked>>
  /\ previewed \subseteq previewed' /\ document' \in [Columns -> Rules]
  /\ \A c \in Locked : document'[c] = NoRule
  /\ \/ /\ ui' \in {"review", "checking"} /\ UNCHANGED <<ticket, document>>
        /\ DOMAIN suggestions' = DOMAIN suggestions
        /\ suggestions' \in [DOMAIN suggestions -> Rules]
        /\ chosen' \subseteq DOMAIN suggestions /\ adjusted \subseteq adjusted' /\ adjusted' \subseteq DOMAIN suggestions
        /\ \A c \in DOMAIN suggestions :
             suggestions'[c] = suggestions[c] \/ (suggestions'[c] = "mine" /\ c \in adjusted')
        /\ \A t \in Ties : t \cap chosen' # {} => t \cap DOMAIN suggestions \subseteq chosen'
     \/ ui' = "idle" /\ ticket' = None /\ Cleared
  /\ TiedAsPreviewed'

LEMMA ReviewsPreserve == ASSUME AnalysisAssumption, AnalysisInv, Reviews PROVE AnalysisInv'
<1>. USE DEF Reviews, serverVars
<1>1. /\ AnalysisTypeOK /\ HeldUntilExit /\ EventsAreTheirAnalysis /\ OutcomeIsLast
      /\ OneIsAwaited /\ ReviewIsWhatWasAsked /\ ReviewIsSampled /\ TiedAsPreviewed
  BY DEF AnalysisInv
<1>2. AnalysisTypeOK'
  <2>1. Nothing \in [{} -> Rules] /\ {} \in SUBSET Columns /\ DOMAIN Nothing = {}
    BY DEF Nothing
  <2>2. DOMAIN suggestions \in SUBSET Columns
    BY <1>1 DEF AnalysisTypeOK
  <2>3. suggestions' \in UNION {[d -> Rules] : d \in SUBSET Columns}
    BY <2>1, <2>2 DEF Cleared
  <2>4. chosen' \subseteq DOMAIN suggestions' /\ adjusted' \subseteq DOMAIN suggestions'
    BY <2>1 DEF Cleared
  <2>. QED BY <1>1, <2>3, <2>4 DEF AnalysisTypeOK
<1>3. HeldUntilExit' /\ OutcomeIsLast'
  BY <1>1 DEF HeldUntilExit, Running, OutcomeIsLast
<1>4. EventsAreTheirAnalysis'
  <2>1. \A b \in Analyses : Events(b)' = Events(b)
    BY DEF Events, Proposals, Progress, Failure, Result, Nothing
  <2>. QED BY <1>1, <2>1 DEF EventsAreTheirAnalysis
<1>5. \A b \in Analyses : ~(stream[b] = "open" /\ ~gone[b])
  BY <1>1 DEF OneIsAwaited
<1>6. OneIsAwaited'
  BY <1>1, <1>5 DEF OneIsAwaited, Cleared, Nothing
<1>7. ReviewIsWhatWasAsked'
  BY <1>1 DEF ReviewIsWhatWasAsked
<1>8. ReviewIsSampled'
  <2>1. ASSUME ui' \in {"review", "checking"}
        PROVE  /\ SampledNext([c \in DOMAIN suggestions' |-> ticket'])
               /\ \A c \in DOMAIN suggestions' \ adjusted' : suggestions'[c] = ticket'
               /\ \A t \in Ties : t \cap chosen' # {} => t \cap DOMAIN suggestions' \subseteq chosen'
    <3>1. UNCHANGED <<ticket, document>> /\ DOMAIN suggestions' = DOMAIN suggestions
      BY <2>1
    <3>2. SampledNext([c \in DOMAIN suggestions' |-> ticket'])
      BY <1>1, <3>1, SampledLater DEF ReviewIsSampled
    <3>. QED BY <1>1, <2>1, <3>1, <3>2 DEF ReviewIsSampled
  <2>2. \A b \in Analyses : ~(stream'[b] = "open" /\ ~gone'[b])
    BY <1>5
  <2>. QED BY <2>1, <2>2, SampledLater
<1>. QED BY <1>2, <1>3, <1>4, <1>6, <1>7, <1>8 DEF AnalysisInv

\* What is applied of a review was sampled: the groups of the constraints are chosen whole.
LEMMA ChosenAreSampled ==
  ASSUME AnalysisAssumption, AnalysisInv, ui \in {"review", "checking"}, Rechecked = {},
         document' = Patched(ChosenRules), previewed' = previewed
  PROVE  TiedAsPreviewed'
<1>1. AnalysisTypeOK /\ ReviewIsSampled /\ TiedAsPreviewed
  BY DEF AnalysisInv
<1>2. ASSUME NEW t \in Ties PROVE Tied(document', t) = [c \in t |-> NoRule] \/ Tied(document', t) \in previewed
  <2>0. t \subseteq Columns
    BY <1>2 DEF AnalysisAssumption
  <2>1. CASE t \cap chosen = {}
    <3>1. \A c \in t : document'[c] = document[c]
      BY <2>0, <2>1 DEF Patched, ChosenRules
    <3>2. Tied(document', t) = Tied(document, t)
      BY <3>1 DEF Tied
    <3>. QED BY <1>1, <1>2, <3>2 DEF TiedAsPreviewed
  <2>2. CASE t \cap chosen # {}
    <3> DEFINE all == [c \in DOMAIN suggestions |-> ticket]
    <3>1. t \cap DOMAIN suggestions \subseteq chosen /\ chosen \subseteq DOMAIN suggestions
      BY <1>1, <1>2, <2>2 DEF ReviewIsSampled, AnalysisTypeOK
    <3>2. all # Nothing
      <4>1. DOMAIN all # {}
        BY <2>2, <3>1
      <4>. QED BY <4>1 DEF Nothing
    <3>3. Tied(Patched(all), t) \in previewed
      BY <1>1, <1>2, <3>2 DEF ReviewIsSampled, Sampled
    <3>4. \A c \in chosen : suggestions[c] = ticket
      BY <1>1, <3>1 DEF ReviewIsSampled, Rechecked
    <3>5. \A c \in t : document'[c] = Patched(all)[c]
      BY <2>0, <3>1, <3>4 DEF Patched, ChosenRules
    <3>6. Tied(document', t) = Tied(Patched(all), t)
      BY <3>5 DEF Tied
    <3>. QED BY <3>3, <3>6
  <2>. QED BY <2>1, <2>2
<1>. QED BY <1>2 DEF TiedAsPreviewed, Tied

\* Ticks, adjustments, the second check and the application.
LEMMA ReviewSteps ==
  ASSUME AnalysisAssumption, AnalysisInv,
         Apply \/ Checked \/ \E c \in Columns : Toggle(c) \/ Adjust(c)
  PROVE  AnalysisInv'
<1>1. /\ AnalysisTypeOK /\ ReviewIsWhatWasAsked /\ ReviewIsSampled /\ TiedAsPreviewed
      /\ DOMAIN suggestions \subseteq Columns /\ suggestions \in [DOMAIN suggestions -> Rules]
  BY DEF AnalysisInv, AnalysisTypeOK
<1>2. ui \in {"review", "checking"} => DOMAIN suggestions \cap Locked = {}
  BY <1>1 DEF ReviewIsWhatWasAsked
<1>3. chosen \subseteq DOMAIN suggestions /\ adjusted \subseteq DOMAIN suggestions /\ document \in [Columns -> Rules]
  BY <1>1 DEF AnalysisTypeOK
<1>4. \A c \in Locked : document[c] = NoRule
  BY <1>1 DEF ReviewIsWhatWasAsked
<1>5. ASSUME NEW c \in DOMAIN suggestions
      PROVE  /\ Siblings(c) \subseteq DOMAIN suggestions
             /\ \A t \in Ties : t \cap Group(c) # {} => t \subseteq Group(c)
  BY <1>1, <1>5, GroupFacts DEF Siblings, Whole
<1>6. ui \in {"review", "checking"} => \A t \in Ties : t \cap chosen # {} => t \cap DOMAIN suggestions \subseteq chosen
  BY <1>1 DEF ReviewIsSampled
<1>7. ASSUME ui \in {"review", "checking"}, NEW c \in DOMAIN suggestions, NEW t \in Ties
      PROVE  /\ t \cap (chosen \ Siblings(c)) # {} => t \cap DOMAIN suggestions \subseteq chosen \ Siblings(c)
             /\ t \cap (chosen \cup Siblings(c)) # {} => t \cap DOMAIN suggestions \subseteq chosen \cup Siblings(c)
  <2>1. CASE t \cap Group(c) = {}
    BY <1>6, <1>7, <2>1 DEF Siblings
  <2>2. CASE t \subseteq Group(c)
    BY <1>3, <2>2 DEF Siblings
  <2>. QED BY <1>5, <1>7, <2>1, <2>2
<1>8. ASSUME NEW c \in Columns, Toggle(c) PROVE AnalysisInv'
  <2>1. /\ ui \in {"review", "checking"} /\ ui' = ui /\ c \in DOMAIN suggestions
        /\ UNCHANGED <<schema, serverVars, late, gone, asked, ticket, document, previewed, suggestions, adjusted>>
    BY <1>8 DEF Toggle
  <2>2. /\ chosen' \subseteq DOMAIN suggestions
        /\ \A t \in Ties : t \cap chosen' # {} => t \cap DOMAIN suggestions \subseteq chosen'
    <3>1. chosen' = chosen \ Siblings(c) \/ chosen' = chosen \cup Siblings(c)
      BY <1>8 DEF Toggle
    <3>. QED BY <1>3, <1>5, <1>7, <2>1, <3>1
  <2>3. TiedAsPreviewed'
    BY <1>1, <2>1 DEF TiedAsPreviewed, Tied
  <2>4. Reviews
    BY <1>1, <1>3, <1>4, <2>1, <2>2, <2>3 DEF Reviews
  <2>. QED BY <2>4, ReviewsPreserve
<1>9. ASSUME NEW c \in Columns, Adjust(c) PROVE AnalysisInv'
  <2>1. /\ ui \in {"review", "checking"} /\ ui' = ui /\ c \in DOMAIN suggestions
        /\ UNCHANGED <<schema, serverVars, late, gone, asked, ticket, document, previewed>>
        /\ suggestions' = [suggestions EXCEPT ![c] = "mine"]
        /\ adjusted' = adjusted \cup {c} /\ chosen' = chosen \ Siblings(c)
    BY <1>9 DEF Adjust
  <2>2. /\ chosen' \subseteq DOMAIN suggestions
        /\ \A t \in Ties : t \cap chosen' # {} => t \cap DOMAIN suggestions \subseteq chosen'
    BY <1>3, <1>7, <2>1
  <2>3. TiedAsPreviewed'
    BY <1>1, <2>1 DEF TiedAsPreviewed, Tied
  <2>4. /\ DOMAIN suggestions' = DOMAIN suggestions /\ suggestions' \in [DOMAIN suggestions -> Rules]
        /\ \A e \in DOMAIN suggestions :
             suggestions'[e] = suggestions[e] \/ (suggestions'[e] = "mine" /\ e \in adjusted')
    BY <1>1, <2>1 DEF Rules
  <2>5. Reviews
    BY <1>3, <1>4, <2>1, <2>2, <2>3, <2>4 DEF Reviews
  <2>. QED BY <2>5, ReviewsPreserve
<1>10. ASSUME ui \in {"review", "checking"}, Applied
       PROVE  document' \in [Columns -> Rules] /\ \A c \in Locked : document'[c] = NoRule
  <2>1. \A c \in Columns : document'[c] \in Rules
    BY <1>1, <1>3, <1>10 DEF Applied, Patched, ChosenRules
  <2>2. document' \in [Columns -> Rules]
    BY <1>10, <2>1 DEF Applied, Patched
  <2>3. \A c \in Locked : c \in Columns /\ c \notin chosen
    BY <1>2, <1>3, <1>10 DEF AnalysisAssumption
  <2>4. \A c \in Locked : document'[c] = document[c]
    BY <1>10, <2>3 DEF Applied, Patched, ChosenRules
  <2>. QED BY <1>4, <2>2, <2>4
<1>11. CASE Apply
  <2>1. ui = "review" /\ UNCHANGED <<schema, serverVars, late, gone, asked, previewed>>
    BY <1>11 DEF Apply
  <2>2. CASE Rechecked = {} /\ Applied
    <3>1. TiedAsPreviewed'
      BY <2>1, <2>2, ChosenAreSampled DEF Applied
    <3>2. Reviews
      BY <1>10, <2>1, <2>2, <3>1 DEF Reviews, Applied
    <3>. QED BY <3>2, ReviewsPreserve
  <2>3. CASE ui' = "checking" /\ UNCHANGED <<document, ticket, suggestions, chosen, adjusted>>
    <3>1. TiedAsPreviewed'
      BY <1>1, <2>1, <2>3 DEF TiedAsPreviewed, Tied
    <3>2. Reviews
      BY <1>1, <1>3, <1>4, <1>6, <2>1, <2>3, <3>1 DEF Reviews
    <3>. QED BY <3>2, ReviewsPreserve
  <2>. QED BY <1>11, <2>2, <2>3 DEF Apply
<1>12. CASE Checked
  <2>1. ui = "checking" /\ UNCHANGED <<schema, serverVars, late, gone, asked>>
    BY <1>12 DEF Checked
  <2>2. CASE Applied /\ previewed' = previewed \cup {Tied(Patched(ChosenRules), t) : t \in Ties}
    <3>1. TiedAsPreviewed'
      BY <2>2 DEF TiedAsPreviewed, Applied, Tied
    <3>2. Reviews
      BY <1>10, <2>1, <2>2, <3>1 DEF Reviews, Applied
    <3>. QED BY <3>2, ReviewsPreserve
  <2>3. CASE ui' = "review" /\ UNCHANGED <<document, ticket, suggestions, chosen, adjusted, previewed>>
    <3>1. TiedAsPreviewed'
      BY <1>1, <2>3 DEF TiedAsPreviewed, Tied
    <3>2. Reviews
      BY <1>1, <1>3, <1>4, <1>6, <2>1, <2>3, <3>1 DEF Reviews
    <3>. QED BY <3>2, ReviewsPreserve
  <2>. QED BY <1>12, <2>2, <2>3 DEF Checked
<1>. QED BY <1>8, <1>9, <1>11, <1>12

LEMMA AnalysisStutters == ASSUME AnalysisInv, UNCHANGED analysisVars PROVE AnalysisInv'
<1>. USE DEF analysisVars
<1>1. /\ AnalysisTypeOK /\ HeldUntilExit /\ EventsAreTheirAnalysis /\ OutcomeIsLast
      /\ OneIsAwaited /\ ReviewIsWhatWasAsked /\ ReviewIsSampled /\ TiedAsPreviewed
  BY DEF AnalysisInv
<1>2. AnalysisTypeOK'
  BY <1>1 DEF AnalysisTypeOK
<1>3. HeldUntilExit' /\ OutcomeIsLast'
  BY <1>1 DEF HeldUntilExit, Running, OutcomeIsLast
<1>4. EventsAreTheirAnalysis'
  BY <1>1 DEF EventsAreTheirAnalysis, Events, Proposals
<1>5. OneIsAwaited' /\ ReviewIsWhatWasAsked'
  BY <1>1 DEF OneIsAwaited, ReviewIsWhatWasAsked
<1>6. ReviewIsSampled' /\ TiedAsPreviewed'
  BY <1>1 DEF ReviewIsSampled, TiedAsPreviewed, Sampled, Patched, Tied
<1>. QED BY <1>2, <1>3, <1>4, <1>5, <1>6 DEF AnalysisInv

(***************************************************************************)
(* The theorems.                                                           *)
(***************************************************************************)

\* The analysis, its queue, its response and the modal tell the same story, whoever gives up,
\* times out or falls behind (AnalysisOperation, workbench/ai.js).
THEOREM AnalysisInvariance == ASSUME AnalysisAssumption PROVE AnalysisSpec => []AnalysisInv
<1>1. AnalysisInit => AnalysisInv
  BY InitAnalysisInv
<1>2. ASSUME AnalysisInv, [AnalysisNext]_analysisVars PROVE AnalysisInv'
  <2>1. CASE UNCHANGED analysisVars
    BY <1>2, <2>1, AnalysisStutters
  <2>2. ASSUME NEW a \in Analyses, Analyze(a) PROVE AnalysisInv'
    BY <1>2, <2>2, AnalyzePreserves
  <2>3. ASSUME NEW a \in Analyses, WorkerStep(a) PROVE AnalysisInv'
    BY <1>2, <2>3, WorkersPublish, FinishPreserves DEF WorkerStep
  <2>4. ASSUME NEW a \in Analyses, DeadlinePasses(a) \/ Abandon(a) \/ Expire(a) \/ Receive(a) PROVE AnalysisInv'
    BY <1>2, <2>4, ResponseSteps
  <2>5. CASE SchemaChanges \/ PageTimeout \/ Close \/ Invalidate
    BY <1>2, <2>5, ResponseSteps
  <2>6. CASE Apply \/ Checked \/ \E c \in Columns : Toggle(c) \/ Adjust(c)
    BY <1>2, <2>6, ReviewSteps
  <2>. QED BY <1>2, <2>1, <2>2, <2>3, <2>4, <2>5, <2>6 DEF AnalysisNext
<1>. QED BY <1>1, <1>2, PTL DEF AnalysisSpec

\* The bounded queue never loses the outcome of an analysis that is still read, and the
\* connection and its lease belong to the analysis until its worker exits (publish, finished).
THEOREM OutcomesAreKept == ASSUME AnalysisAssumption PROVE AnalysisSpec => []OutcomeIsKept
<1>1. AnalysisInv => OutcomeIsKept
  BY DEF AnalysisInv, OutcomeIsKept, OutcomeIsLast, OutcomeIsQueued
<1>. QED BY <1>1, AnalysisInvariance, PTL

\* Whatever part of the proposals is ticked or adjusted, in however many analyses, rules that a
\* constraint ties together are in the document only as the server has sampled them together
\* (group_patches, applySuggestions).
THEOREM TiedRulesAreSampled == ASSUME AnalysisAssumption PROVE AnalysisSpec => []AppliedAsPreviewed
<1>1. AnalysisInv => AppliedAsPreviewed
  BY DEF AnalysisInv, AppliedAsPreviewed
<1>. QED BY <1>1, AnalysisInvariance, PTL
=============================================================================
