----------------------------- MODULE MCWorkspace -----------------------------
(***************************************************************************)
(* The workspace's parts that share no state: the store of drafts, a run   *)
(* of the workbench and an analysis. A behaviour is one of part, and the   *)
(* others stay where they start. The instance: two pages share two drafts  *)
(* and each has something to save; a run has three tables, other           *)
(* connections and another server beside it; two analyses of three         *)
(* columns that one constraint ties, one of them managed.                  *)
(***************************************************************************)
EXTENDS WorkspaceStore, WorkbenchRun, Analysis, TLC

CONSTANT MaxRevision

VARIABLE part

ASSUME StoreAssumption /\ RunAssumption /\ AnalysisAssumption

\* The managed column comes first in the constraint.
FirstOfTie == [t \in Ties |-> CHOOSE c \in t : c \in Locked]

Init ==
  /\ part \in {"store", "run", "analysis"}
  /\ StoreInit /\ RunInit /\ AnalysisInit
  /\ part = "run" \/ mode = "append"

Next ==
  /\ UNCHANGED part
  /\ \/ part = "store" /\ StoreNext /\ UNCHANGED <<runVars, analysisVars>>
     \/ part = "run" /\ RunNext /\ UNCHANGED <<storeVars, analysisVars>>
     \/ part = "analysis" /\ AnalysisNext /\ UNCHANGED <<storeVars, runVars>>

Spec == Init /\ [][Next]_<<part, storeVars, runVars, analysisVars>>

Symmetric ==
  Permutations(Pages) \cup Permutations(Drafts) \cup Permutations(Changes \ Unsafe)
    \cup Permutations(Analyses) \cup Permutations(Columns \ Locked)

Bound == \A d \in Drafts : drafts[d].revision <= MaxRevision
=============================================================================
