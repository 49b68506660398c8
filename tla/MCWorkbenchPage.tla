-------------------------- MODULE MCWorkbenchPage --------------------------
(***************************************************************************)
(* The workbench page for TLC, twice: "documents", with the constants of   *)
(* the configuration, follows links and drafts from one document to        *)
(* another while a second tab saves; "rules" follows one document through  *)
(* a changing schema, lost answers and a run.                              *)
(***************************************************************************)
EXTENDS WorkbenchPage, TLC

VARIABLE part

Rules == INSTANCE WorkbenchPage WITH
  MaxEpoch <- 1, MaxModels <- 1, MaxDrafts <- 1, MaxRevision <- 1, MaxMounts <- 2, MaxSchema <- 1, MaxRuns <- 1,
  MaxWaiting <- 2, Lossy <- TRUE
ASSUME PageAssumption /\ Rules!PageAssumption

\* Contents that are not empty are interchangeable.
Contents == Permutations(Docs \ {Empty})

PagesInit == part \in {"rules", "documents"} /\ Init
PagesNext ==
  /\ part' = part
  /\ \/ part = "rules" /\ Rules!Next
     \/ part = "documents" /\ Next
PagesSpec == PagesInit /\ [][PagesNext]_<<part, vars>>
=============================================================================
