----------------------------- MODULE RuntimeGate -----------------------------
(***************************************************************************)
(* RuntimeGate (runtime_lifecycle.py): admission of work into a web worker *)
(* and the leases held until that work has really ended.  Every operation  *)
(* is one critical section under the gate's lock.                          *)
(***************************************************************************)
EXTENDS Naturals

VARIABLES
  paused,   (* _paused                                                     *)
  counts    (* _counts                                                     *)

gate == <<paused, counts>>

Categories == {"requests", "background_jobs", "ai_analyses"}

GateTypeOK ==
  /\ paused \in BOOLEAN
  /\ counts \in [Categories -> Nat]

Idle == \A k \in Categories : counts[k] = 0

\* run_worker pauses the gate before it restores the session.
GateInit ==
  /\ paused = TRUE
  /\ counts = [k \in Categories |-> 0]

\* A mistake: a paused gate still admits work.
AcquireDespitePause(k) ==
  /\ counts' = [counts EXCEPT ![k] = @ + 1]
  /\ UNCHANGED paused

Acquire(k) ==
  /\ ~paused
  /\ counts' = [counts EXCEPT ![k] = @ + 1]
  /\ UNCHANGED paused

\* A second release of the same lease raises, so it has no transition.
Release(k) ==
  /\ counts[k] > 0
  /\ counts' = [counts EXCEPT ![k] = @ - 1]
  /\ UNCHANGED paused

\* close_admission pauses whatever is running; pause_if_idle only when Idle.
CloseAdmission == paused' = TRUE /\ UNCHANGED counts

\* A mistake: background jobs are not counted as activity.
PauseUnlessRequested == counts["requests"] = 0 /\ CloseAdmission

PauseIfIdle == Idle /\ CloseAdmission

OpenGate == paused' = FALSE /\ UNCHANGED counts
=============================================================================
