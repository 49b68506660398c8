----------------------------- MODULE PackageProofs -----------------------------
(***************************************************************************)
(* Theorems about changing the packages of the environment and about       *)
(* looking for new versions, which share no state.                         *)
(*                                                                         *)
(* Packages.  For any distributions and requirements, any indexes, tabs    *)
(* and servers, and however installers, other tools, restarts and time     *)
(* limits interfere, PackageInv is an invariant: what the lock of the      *)
(* environment excludes, who has the network slot, how far the thread is,  *)
(* that plans are told apart by their numbers and fit what was reviewed,   *)
(* and that nobody has changed the reviewed packages unless meddled says   *)
(* so.                                                                     *)
(*                                                                         *)
(* Versions.  ChecksInv is an invariant for any requests and time limits.  *)
(***************************************************************************)
EXTENDS PackageManager, VersionChecks, TLAPS

(***************************************************************************)
(* Packages: the invariant.                                                *)
(***************************************************************************)

\* The lock of the environment: who has it, and what a group that still lives excludes.
LockInv ==
  /\ \A s \in Servers : server[s] = "locked" => keeper # "locked" /\ ~group
  /\ group /\ keeper = "locked" => step = "installing" \/ unclean
  /\ step # "idle" => keeper = "locked"
  /\ keeper = "unlocked" => stage = "ready"

\* The network slot is that of the one thread that reads.
NetworkInv ==
  /\ reads = (IF slot THEN 1 ELSE 0)
  /\ reviewing # {} \/ step = "download" => slot
  /\ ~(reviewing # {} /\ step = "download")
  /\ keeper = "off" => reviewing = {}

\* Steps before the result is reported, and those on the reviewed packages.
Begun == {"entering", "preparing", "download", "ready", "installing", "verifying", "finishing"}
Before == {"preparing", "download", "ready"}

\* How far the thread is, and what that says of the task, the installer and the service.
ThreadInv ==
  /\ step \in Begun => reported = "running" /\ finished = "failed" /\ operation = confirmed
  /\ step \in Begun \ {"finishing"} => ~unclean
  /\ step = "verifying" => ~group
  /\ step # "idle" => reviewing = {}
  /\ reviewing # {} /\ supervised => stage = "ready"
  /\ step # "idle" /\ supervised => stage = "busy"
  /\ step \in {"entering", "restoring", "retrying"} => supervised
  /\ step = "retrying" => reported = "running"
  /\ step \in {"finishing"} => outcome \in {"failed", "succeeded"}
  /\ step \in Begun => operation # {}
  /\ outcome = "succeeded" => step = "finishing" /\ ~group /\ ~unclean
  /\ finished = "succeeded" => ~group /\ ~unclean /\ operation # {}
  /\ reported = "succeeded" => finished = "succeeded"

\* What the review has found of a plan.
WellPlanned(p) ==
  /\ p.action = "uninstall" => required_by(p.component, p.snapshot) = {}
  /\ p.action = "update" => dependency_conflicts([p.snapshot EXCEPT ![p.component] = p.version]) = {}

\* Plans are told apart by their numbers.
PlansInv ==
  /\ \A p \in plan : p.id <= used.plans /\ (reviewing # {} => p.id < used.plans)
  /\ \A t \in Tabs : \A q \in shown[t] : q.id <= used.plans /\ (reviewing # {} => q.id < used.plans)
  /\ \A t \in Tabs : \A p, q \in shown[t] : p = q
  /\ \A t \in Tabs : \A p \in plan, q \in shown[t] : p.id = q.id => p = q
  /\ \A p \in plan \cup operation : WellPlanned(p)

\* Nobody has interfered since the last look: the packages are the reviewed ones, or fewer while
\* one is removed.
Unmeddled ==
  ~meddled.before => \A p \in operation :
    /\ step \in Before => packages = p.snapshot
    /\ step \in {"installing", "verifying"} /\ p.action = "uninstall" =>
         \A n \in Names : packages[n] \in {0, p.snapshot[n]}

\* What success promises.
Success ==
    /\ ~meddled.after => \A p \in operation : AsReviewed(p)
    /\ ~meddled.before => \A p \in operation : NothingBroken(p)

SuccessInv == outcome = "succeeded" \/ finished = "succeeded" => Success

PackageInv == PackageTypeOK /\ LockInv /\ NetworkInv /\ ThreadInv /\ PlansInv /\ Unmeddled /\ SuccessInv
(***************************************************************************)
(* Packages: every step keeps each part.                                   *)
(***************************************************************************)

\* The lock: nobody gets it while an installer's process lives.
LEMMA LockStays ==
  ASSUME PackageInv, [PackageNext]_packageVars
  PROVE  LockInv'
<1>1. CASE UNCHANGED packageVars
  BY <1>1 DEF PackageInv, LockInv, ThreadInv, Begun, PackageTypeOK, packageVars, memory, thread,
     network, child, outside
<1>2. CASE StartManager
  BY <1>2 DEF PackageInv, LockInv, ThreadInv, Begun, PackageTypeOK, StartManager, Excluded, Tally,
     memory, thread, network, child, outside
<1>3. CASE StopManager
  BY <1>3 DEF PackageInv, LockInv, ThreadInv, Begun, PackageTypeOK, StopManager, Forgotten, memory,
     thread, network, child, outside
<1>4. CASE LoseManager
  BY <1>4 DEF PackageInv, LockInv, ThreadInv, Begun, PackageTypeOK, LoseManager, Forgotten, memory,
     thread, network, child, outside
<1>5. CASE RecoverService
  BY <1>5 DEF PackageInv, LockInv, ThreadInv, Begun, PackageTypeOK, RecoverService, Step, memory,
     thread, network, child, outside
<1>6. CASE ReviewEnds
  BY <1>6 DEF PackageInv, LockInv, ThreadInv, Begun, PackageTypeOK, ReviewEnds, Planned, memory,
     thread, network, child, outside
<1>7. CASE ReviewTimesOut
  BY <1>7 DEF PackageInv, LockInv, ThreadInv, Begun, PackageTypeOK, ReviewTimesOut, memory, thread,
     network, child, outside
<1>8. CASE LateReadEnds
  BY <1>8 DEF PackageInv, LockInv, ThreadInv, Begun, PackageTypeOK, LateReadEnds, memory, thread,
     network, child, outside
<1>9. CASE PlanExpires
  BY <1>9 DEF PackageInv, LockInv, ThreadInv, Begun, PackageTypeOK, PlanExpires, memory, thread,
     network, child, outside
<1>10. CASE \E tab \in Tabs : ExecutePlan(tab)
  BY <1>10 DEF PackageInv, LockInv, ThreadInv, Begun, PackageTypeOK, ExecutePlan, Available, Looked,
     AsPlanned, memory, thread, network, child, outside
<1>11. CASE \E tab \in Tabs, c \in Components, a \in {"install", "uninstall", "update"} : Review(tab, c, a)
  BY <1>11 DEF PackageInv, LockInv, ThreadInv, Begun, PackageTypeOK, Review, Available, Planned,
     Tally, memory, thread, network, child, outside
<1>12. CASE EnterMaintenance
  BY <1>12 DEF PackageInv, LockInv, ThreadInv, Begun, PackageTypeOK, EnterMaintenance, Step, Looked,
     memory, thread, network, child, outside
<1>13. CASE PrepareInstallation
  BY <1>13 DEF PackageInv, LockInv, ThreadInv, Begun, PackageTypeOK, PrepareInstallation, Step,
     Fails, memory, thread, network, child, outside
<1>14. CASE DownloadEnds
  BY <1>14 DEF PackageInv, LockInv, ThreadInv, Begun, PackageTypeOK, DownloadEnds, Step, Fails,
     Looked, AsPlanned, memory, thread, network, child, outside
<1>15. CASE DownloadTimesOut
  BY <1>15 DEF PackageInv, LockInv, ThreadInv, Begun, PackageTypeOK, DownloadTimesOut, Step, Fails,
     memory, thread, network, child, outside
<1>16. CASE StartInstaller
  BY <1>16 DEF PackageInv, LockInv, ThreadInv, Begun, PackageTypeOK, StartInstaller, Step, Fails,
     memory, thread, network, child, outside
<1>17. CASE InstallerWaited
  BY <1>17 DEF PackageInv, LockInv, ThreadInv, Begun, PackageTypeOK, InstallerWaited, Step, Fails,
     memory, thread, network, child, outside
<1>18. CASE VerifyOperation
  BY <1>18 DEF PackageInv, LockInv, ThreadInv, Begun, PackageTypeOK, VerifyOperation, Step, memory,
     thread, network, child, outside
<1>19. CASE _finish_operation
  BY <1>19 DEF PackageInv, LockInv, ThreadInv, Begun, PackageTypeOK, _finish_operation, Step,
     memory, thread, network, child, outside
<1>20. CASE RestoreBusiness
  BY <1>20 DEF PackageInv, LockInv, ThreadInv, Begun, PackageTypeOK, RestoreBusiness, Step,
     RecoveryFailed, memory, thread, network, child, outside
<1>21. CASE InstallerWrites
  BY <1>21 DEF PackageInv, LockInv, ThreadInv, Begun, PackageTypeOK, InstallerWrites, Tally, memory,
     thread, network, child, outside
<1>22. CASE LeaderExits
  BY <1>22 DEF PackageInv, LockInv, ThreadInv, Begun, PackageTypeOK, LeaderExits, memory, thread,
     network, child, outside
<1>23. CASE GroupEnds
  BY <1>23 DEF PackageInv, LockInv, ThreadInv, Begun, PackageTypeOK, GroupEnds, memory, thread,
     network, child, outside
<1>24. CASE Meddle
  BY <1>24 DEF PackageInv, LockInv, ThreadInv, Begun, PackageTypeOK, Meddle, Tally, memory, thread,
     network, child, outside
<1>25. CASE \E s \in Servers : StartServer(s)
  BY <1>25 DEF PackageInv, LockInv, ThreadInv, Begun, PackageTypeOK, StartServer, Excluded, memory,
     thread, network, child, outside
<1>26. CASE \E s \in Servers : StopServer(s)
  BY <1>26 DEF PackageInv, LockInv, ThreadInv, Begun, PackageTypeOK, StopServer, memory, thread,
     network, child, outside
<1> QED BY <1>1, <1>2, <1>3, <1>4, <1>5, <1>6, <1>7, <1>8, <1>9, <1>10, <1>11, <1>12, <1>13, <1>14,
           <1>15, <1>16, <1>17, <1>18, <1>19, <1>20, <1>21, <1>22, <1>23, <1>24, <1>25, <1>26 DEF PackageNext, ManagerStep, ThreadStep
\* The network slot: whoever takes it gives it back, or the read that was given up does.
LEMMA NetworkStays ==
  ASSUME PackageInv, [PackageNext]_packageVars
  PROVE  NetworkInv'
<1>1. CASE UNCHANGED packageVars
  BY <1>1 DEF PackageInv, LockInv, NetworkInv, ThreadInv, Begun, PackageTypeOK, packageVars, memory,
     thread, network, child, outside
<1>2. CASE StartManager
  BY <1>2 DEF PackageInv, LockInv, NetworkInv, ThreadInv, Begun, PackageTypeOK, StartManager,
     Excluded, Tally, memory, thread, network, child, outside
<1>3. CASE StopManager
  BY <1>3 DEF PackageInv, LockInv, NetworkInv, ThreadInv, Begun, PackageTypeOK, StopManager,
     Forgotten, memory, thread, network, child, outside
<1>4. CASE LoseManager
  BY <1>4 DEF PackageInv, LockInv, NetworkInv, ThreadInv, Begun, PackageTypeOK, LoseManager,
     Forgotten, memory, thread, network, child, outside
<1>5. CASE RecoverService
  BY <1>5 DEF PackageInv, LockInv, NetworkInv, ThreadInv, Begun, PackageTypeOK, RecoverService,
     Step, memory, thread, network, child, outside
<1>6. CASE ReviewEnds
  BY <1>6 DEF PackageInv, LockInv, NetworkInv, ThreadInv, Begun, PackageTypeOK, ReviewEnds, Planned,
     memory, thread, network, child, outside
<1>7. CASE ReviewTimesOut
  BY <1>7 DEF PackageInv, LockInv, NetworkInv, ThreadInv, Begun, PackageTypeOK, ReviewTimesOut,
     memory, thread, network, child, outside
<1>8. CASE LateReadEnds
  BY <1>8 DEF PackageInv, LockInv, NetworkInv, ThreadInv, Begun, PackageTypeOK, LateReadEnds,
     memory, thread, network, child, outside
<1>9. CASE PlanExpires
  BY <1>9 DEF PackageInv, LockInv, NetworkInv, ThreadInv, Begun, PackageTypeOK, PlanExpires, memory,
     thread, network, child, outside
<1>10. CASE \E tab \in Tabs : ExecutePlan(tab)
  BY <1>10 DEF PackageInv, LockInv, NetworkInv, ThreadInv, Begun, PackageTypeOK, ExecutePlan,
     Available, Looked, AsPlanned, memory, thread, network, child, outside
<1>11. CASE \E tab \in Tabs, c \in Components, a \in {"install", "uninstall", "update"} : Review(tab, c, a)
  BY <1>11 DEF PackageInv, LockInv, NetworkInv, ThreadInv, Begun, PackageTypeOK, Review, Available,
     Planned, Tally, memory, thread, network, child, outside
<1>12. CASE EnterMaintenance
  BY <1>12 DEF PackageInv, LockInv, NetworkInv, ThreadInv, Begun, PackageTypeOK, EnterMaintenance,
     Step, Looked, memory, thread, network, child, outside
<1>13. CASE PrepareInstallation
  BY <1>13 DEF PackageInv, LockInv, NetworkInv, ThreadInv, Begun, PackageTypeOK,
     PrepareInstallation, Step, Fails, memory, thread, network, child, outside
<1>14. CASE DownloadEnds
  BY <1>14 DEF PackageInv, LockInv, NetworkInv, ThreadInv, Begun, PackageTypeOK, DownloadEnds, Step,
     Fails, Looked, AsPlanned, memory, thread, network, child, outside
<1>15. CASE DownloadTimesOut
  BY <1>15 DEF PackageInv, LockInv, NetworkInv, ThreadInv, Begun, PackageTypeOK, DownloadTimesOut,
     Step, Fails, memory, thread, network, child, outside
<1>16. CASE StartInstaller
  BY <1>16 DEF PackageInv, LockInv, NetworkInv, ThreadInv, Begun, PackageTypeOK, StartInstaller,
     Step, Fails, memory, thread, network, child, outside
<1>17. CASE InstallerWaited
  BY <1>17 DEF PackageInv, LockInv, NetworkInv, ThreadInv, Begun, PackageTypeOK, InstallerWaited,
     Step, Fails, memory, thread, network, child, outside
<1>18. CASE VerifyOperation
  BY <1>18 DEF PackageInv, LockInv, NetworkInv, ThreadInv, Begun, PackageTypeOK, VerifyOperation,
     Step, memory, thread, network, child, outside
<1>19. CASE _finish_operation
  BY <1>19 DEF PackageInv, LockInv, NetworkInv, ThreadInv, Begun, PackageTypeOK, _finish_operation,
     Step, memory, thread, network, child, outside
<1>20. CASE RestoreBusiness
  BY <1>20 DEF PackageInv, LockInv, NetworkInv, ThreadInv, Begun, PackageTypeOK, RestoreBusiness,
     Step, RecoveryFailed, memory, thread, network, child, outside
<1>21. CASE InstallerWrites
  BY <1>21 DEF PackageInv, LockInv, NetworkInv, ThreadInv, Begun, PackageTypeOK, InstallerWrites,
     Tally, memory, thread, network, child, outside
<1>22. CASE LeaderExits
  BY <1>22 DEF PackageInv, LockInv, NetworkInv, ThreadInv, Begun, PackageTypeOK, LeaderExits,
     memory, thread, network, child, outside
<1>23. CASE GroupEnds
  BY <1>23 DEF PackageInv, LockInv, NetworkInv, ThreadInv, Begun, PackageTypeOK, GroupEnds, memory,
     thread, network, child, outside
<1>24. CASE Meddle
  BY <1>24 DEF PackageInv, LockInv, NetworkInv, ThreadInv, Begun, PackageTypeOK, Meddle, Tally,
     memory, thread, network, child, outside
<1>25. CASE \E s \in Servers : StartServer(s)
  BY <1>25 DEF PackageInv, LockInv, NetworkInv, ThreadInv, Begun, PackageTypeOK, StartServer,
     Excluded, memory, thread, network, child, outside
<1>26. CASE \E s \in Servers : StopServer(s)
  BY <1>26 DEF PackageInv, LockInv, NetworkInv, ThreadInv, Begun, PackageTypeOK, StopServer, memory,
     thread, network, child, outside
<1> QED BY <1>1, <1>2, <1>3, <1>4, <1>5, <1>6, <1>7, <1>8, <1>9, <1>10, <1>11, <1>12, <1>13, <1>14,
           <1>15, <1>16, <1>17, <1>18, <1>19, <1>20, <1>21, <1>22, <1>23, <1>24, <1>25, <1>26 DEF PackageNext, ManagerStep, ThreadStep
\* The thread: a task begins from idle, and reports once.
LEMMA ThreadStays ==
  ASSUME PackageInv, [PackageNext]_packageVars
  PROVE  ThreadInv'
<1>1. CASE UNCHANGED packageVars
  BY <1>1 DEF PackageInv, LockInv, NetworkInv, ThreadInv, PlansInv, Begun, PackageTypeOK,
     packageVars, memory, thread, network, child, outside
<1>2. CASE StartManager
  BY <1>2 DEF PackageInv, LockInv, NetworkInv, ThreadInv, PlansInv, Begun, PackageTypeOK,
     StartManager, Excluded, Tally, memory, thread, network, child, outside
<1>3. CASE StopManager
  BY <1>3 DEF PackageInv, LockInv, NetworkInv, ThreadInv, PlansInv, Begun, PackageTypeOK,
     StopManager, Forgotten, memory, thread, network, child, outside
<1>4. CASE LoseManager
  BY <1>4 DEF PackageInv, LockInv, NetworkInv, ThreadInv, PlansInv, Begun, PackageTypeOK,
     LoseManager, Forgotten, memory, thread, network, child, outside
<1>5. CASE RecoverService
  BY <1>5 DEF PackageInv, LockInv, NetworkInv, ThreadInv, PlansInv, Begun, PackageTypeOK,
     RecoverService, Step, memory, thread, network, child, outside
<1>6. CASE ReviewEnds
  BY <1>6 DEF PackageInv, LockInv, NetworkInv, ThreadInv, PlansInv, Begun, PackageTypeOK,
     ReviewEnds, Planned, memory, thread, network, child, outside
<1>7. CASE ReviewTimesOut
  BY <1>7 DEF PackageInv, LockInv, NetworkInv, ThreadInv, PlansInv, Begun, PackageTypeOK,
     ReviewTimesOut, memory, thread, network, child, outside
<1>8. CASE LateReadEnds
  BY <1>8 DEF PackageInv, LockInv, NetworkInv, ThreadInv, PlansInv, Begun, PackageTypeOK,
     LateReadEnds, memory, thread, network, child, outside
<1>9. CASE PlanExpires
  BY <1>9 DEF PackageInv, LockInv, NetworkInv, ThreadInv, PlansInv, Begun, PackageTypeOK,
     PlanExpires, memory, thread, network, child, outside
<1>10. CASE \E tab \in Tabs : ExecutePlan(tab)
  <2>1. PICK tab \in Tabs : ExecutePlan(tab)
    BY <1>10
  <2>2. PICK p \in plan : \E q \in shown[tab] : q.id = p.id
    BY <2>1 DEF ExecutePlan
  <2>3. plan = {p} /\ shown[tab] = {p}
    BY <2>2 DEF PackageInv, PlansInv, PackageTypeOK
  <2>4. reviewing = {} /\ reported # "running" /\ (supervised => stage = "ready") /\ keeper = "locked" /\ ~unclean
    BY <2>1 DEF ExecutePlan, Available
  <2>5. step = "idle"
    BY <2>4 DEF PackageInv, ThreadInv, Begun, PackageTypeOK
  <2>6. \/ UNCHANGED thread /\ UNCHANGED stage
        \/ /\ outcome' = "none" /\ finished' = "failed" /\ reported' = "running"
           /\ operation' = {p} /\ confirmed' = {p}
           /\ step' = (IF supervised THEN "entering" ELSE "preparing")
           /\ stage' = (IF supervised THEN "busy" ELSE "ready")
        \/ /\ outcome' = "none" /\ finished' = "failed" /\ reported' = "failed"
           /\ operation' = {} /\ confirmed' = {} /\ step' = "idle" /\ UNCHANGED stage
    BY <2>1, <2>3 DEF ExecutePlan
  <2>7. UNCHANGED <<group, unclean, reviewing, supervised>>
    BY <2>1 DEF ExecutePlan, child
  <2> QED BY <2>4, <2>5, <2>6, <2>7 DEF PackageInv, ThreadInv, Begun, thread
<1>11. CASE \E tab \in Tabs, c \in Components, a \in {"install", "uninstall", "update"} : Review(tab, c, a)
  BY <1>11 DEF PackageInv, LockInv, NetworkInv, ThreadInv, PlansInv, Begun, PackageTypeOK, Review,
     Available, Planned, Tally, memory, thread, network, child, outside
<1>12. CASE EnterMaintenance
  BY <1>12 DEF PackageInv, LockInv, NetworkInv, ThreadInv, PlansInv, Begun, PackageTypeOK,
     EnterMaintenance, Step, Looked, memory, thread, network, child, outside
<1>13. CASE PrepareInstallation
  BY <1>13 DEF PackageInv, LockInv, NetworkInv, ThreadInv, PlansInv, Begun, PackageTypeOK,
     PrepareInstallation, Step, Fails, memory, thread, network, child, outside
<1>14. CASE DownloadEnds
  BY <1>14 DEF PackageInv, LockInv, NetworkInv, ThreadInv, PlansInv, Begun, PackageTypeOK,
     DownloadEnds, Step, Fails, Looked, AsPlanned, memory, thread, network, child, outside
<1>15. CASE DownloadTimesOut
  BY <1>15 DEF PackageInv, LockInv, NetworkInv, ThreadInv, PlansInv, Begun, PackageTypeOK,
     DownloadTimesOut, Step, Fails, memory, thread, network, child, outside
<1>16. CASE StartInstaller
  BY <1>16 DEF PackageInv, LockInv, NetworkInv, ThreadInv, PlansInv, Begun, PackageTypeOK,
     StartInstaller, Step, Fails, memory, thread, network, child, outside
<1>17. CASE InstallerWaited
  BY <1>17 DEF PackageInv, LockInv, NetworkInv, ThreadInv, PlansInv, Begun, PackageTypeOK,
     InstallerWaited, Step, Fails, memory, thread, network, child, outside
<1>18. CASE VerifyOperation
  BY <1>18 DEF PackageInv, LockInv, NetworkInv, ThreadInv, PlansInv, Begun, PackageTypeOK,
     VerifyOperation, Step, memory, thread, network, child, outside
<1>19. CASE _finish_operation
  BY <1>19 DEF PackageInv, LockInv, NetworkInv, ThreadInv, PlansInv, Begun, PackageTypeOK,
     _finish_operation, Step, memory, thread, network, child, outside
<1>20. CASE RestoreBusiness
  BY <1>20 DEF PackageInv, LockInv, NetworkInv, ThreadInv, PlansInv, Begun, PackageTypeOK,
     RestoreBusiness, Step, RecoveryFailed, memory, thread, network, child, outside
<1>21. CASE InstallerWrites
  BY <1>21 DEF PackageInv, LockInv, NetworkInv, ThreadInv, PlansInv, Begun, PackageTypeOK,
     InstallerWrites, Tally, memory, thread, network, child, outside
<1>22. CASE LeaderExits
  BY <1>22 DEF PackageInv, LockInv, NetworkInv, ThreadInv, PlansInv, Begun, PackageTypeOK,
     LeaderExits, memory, thread, network, child, outside
<1>23. CASE GroupEnds
  BY <1>23 DEF PackageInv, LockInv, NetworkInv, ThreadInv, PlansInv, Begun, PackageTypeOK,
     GroupEnds, memory, thread, network, child, outside
<1>24. CASE Meddle
  BY <1>24 DEF PackageInv, LockInv, NetworkInv, ThreadInv, PlansInv, Begun, PackageTypeOK, Meddle,
     Tally, memory, thread, network, child, outside
<1>25. CASE \E s \in Servers : StartServer(s)
  BY <1>25 DEF PackageInv, LockInv, NetworkInv, ThreadInv, PlansInv, Begun, PackageTypeOK,
     StartServer, Excluded, memory, thread, network, child, outside
<1>26. CASE \E s \in Servers : StopServer(s)
  BY <1>26 DEF PackageInv, LockInv, NetworkInv, ThreadInv, PlansInv, Begun, PackageTypeOK,
     StopServer, memory, thread, network, child, outside
<1> QED BY <1>1, <1>2, <1>3, <1>4, <1>5, <1>6, <1>7, <1>8, <1>9, <1>10, <1>11, <1>12, <1>13, <1>14,
           <1>15, <1>16, <1>17, <1>18, <1>19, <1>20, <1>21, <1>22, <1>23, <1>24, <1>25, <1>26 DEF PackageNext, ManagerStep, ThreadStep
\* A plan that has been made, and is the only one with its number.
LEMMA PlannedFits ==
  ASSUME PackageInv, NEW tab \in Tabs, NEW c \in Components, NEW action, NEW version, NEW p, NEW found,
         Planned(tab, c, action, version, p, found), reviewing' = {}, operation' = operation,
         used'.plans \in Nat, used.plans <= used'.plans,
         used.plans < used'.plans \/ reviewing # {},
         action = "uninstall" => required_by(c, p) = {},
         action = "update" => dependency_conflicts([p EXCEPT ![c] = version]) = {}
  PROVE  PlansInv'
<1> DEFINE new == [id |-> used'.plans, component |-> c, action |-> action, version |-> version,
                   snapshot |-> p, tool |-> found]
<1>1. plan' = {new} /\ shown' = [shown EXCEPT ![tab] = {new}]
  BY DEF Planned
<1>2. /\ new.id = used'.plans /\ new.component = c /\ new.action = action /\ new.version = version
      /\ new.snapshot = p
  OBVIOUS
<1>3. WellPlanned(new)
  BY <1>2 DEF WellPlanned
<1> HIDE DEF new
<1>4. \A t \in Tabs : shown'[t] = IF t = tab THEN {new} ELSE shown[t]
  BY <1>1 DEF PackageInv, PackageTypeOK
<1>5. \A t \in Tabs : \A q \in shown[t] : q.id \in Nat /\ q.id < used'.plans
  <2> SUFFICES ASSUME NEW t \in Tabs, NEW q \in shown[t] PROVE q.id \in Nat /\ q.id < used'.plans
    OBVIOUS
  <2>1. q.id \in Nat /\ used.plans \in Nat
    BY DEF PackageInv, PackageTypeOK, Plans
  <2> QED BY <2>1 DEF PackageInv, PlansInv
<1>6. \A q \in plan' \cup operation' : WellPlanned(q)
  BY <1>1, <1>3 DEF PackageInv, PlansInv
<1>7. \A t \in Tabs : \A q \in shown'[t] : q.id \in Nat /\ q.id <= used'.plans /\ (q.id = used'.plans => q = new)
  BY <1>2, <1>4, <1>5
<1>8. \A t \in Tabs : \A x, y \in shown'[t] : x = y
  BY <1>4 DEF PackageInv, PlansInv
<1> QED BY <1>1, <1>2, <1>6, <1>7, <1>8 DEF PlansInv, WellPlanned

\* Plans: a new one has a new number.
LEMMA PlansStay ==
  ASSUME PackageInv, [PackageNext]_packageVars
  PROVE  PlansInv'
<1>1. CASE UNCHANGED packageVars
  BY <1>1 DEF PackageInv, PlansInv, ThreadInv, Begun, PackageTypeOK, packageVars, memory, thread,
     network, child, outside
<1>2. CASE StartManager
  BY <1>2 DEF PackageInv, PlansInv, ThreadInv, Begun, PackageTypeOK, StartManager, Excluded, Tally,
     memory, thread, network, child, outside
<1>3. CASE StopManager
  BY <1>3 DEF PackageInv, PlansInv, ThreadInv, Begun, PackageTypeOK, StopManager, Forgotten, memory,
     thread, network, child, outside
<1>4. CASE LoseManager
  BY <1>4 DEF PackageInv, PlansInv, ThreadInv, Begun, PackageTypeOK, LoseManager, Forgotten, memory,
     thread, network, child, outside
<1>5. CASE RecoverService
  BY <1>5 DEF PackageInv, PlansInv, ThreadInv, Begun, PackageTypeOK, RecoverService, Step, memory,
     thread, network, child, outside
<1>6. CASE ReviewEnds
  <2>1. reviewing' = {} /\ operation' = operation /\ UNCHANGED used /\ reviewing # {}
    BY <1>6 DEF ReviewEnds, thread
  <2>2. CASE UNCHANGED <<plan, shown>>
    BY <2>1, <2>2 DEF PackageInv, PlansInv, WellPlanned
  <2>3. CASE \E r \in reviewing, files \in Indexes :
               \E v \in _prepare_update(r.component, r.snapshot, files) :
                 Planned(r.tab, r.component, "update", v, r.snapshot, r.tool)
    <3>1. PICK r \in reviewing, files \in Indexes :
                 \E v \in _prepare_update(r.component, r.snapshot, files) :
                   Planned(r.tab, r.component, "update", v, r.snapshot, r.tool)
      BY <2>3
    <3>2. PICK v \in _prepare_update(r.component, r.snapshot, files) :
                 Planned(r.tab, r.component, "update", v, r.snapshot, r.tool)
      BY <3>1
    <3>3. dependency_conflicts([r.snapshot EXCEPT ![r.component] = v]) = {}
      BY <3>2 DEF _prepare_update
    <3>4. r.tab \in Tabs /\ r.component \in Components /\ used.plans \in Nat
      BY DEF PackageInv, PackageTypeOK
    <3> QED BY <2>1, <3>2, <3>3, <3>4, PlannedFits
  <2> QED BY <1>6, <2>2, <2>3 DEF ReviewEnds
<1>7. CASE ReviewTimesOut
  BY <1>7 DEF PackageInv, PlansInv, ThreadInv, Begun, PackageTypeOK, ReviewTimesOut, memory, thread,
     network, child, outside
<1>8. CASE LateReadEnds
  BY <1>8 DEF PackageInv, PlansInv, ThreadInv, Begun, PackageTypeOK, LateReadEnds, memory, thread,
     network, child, outside
<1>9. CASE PlanExpires
  BY <1>9 DEF PackageInv, PlansInv, ThreadInv, Begun, PackageTypeOK, PlanExpires, memory, thread,
     network, child, outside
<1>10. CASE \E tab \in Tabs : ExecutePlan(tab)
  BY <1>10 DEF PackageInv, PlansInv, ThreadInv, Begun, PackageTypeOK, ExecutePlan, Available,
     Looked, AsPlanned, memory, thread, network, child, outside
<1>11. CASE \E tab \in Tabs, c \in Components, a \in {"install", "uninstall", "update"} : Review(tab, c, a)
  <2>1. PICK tab \in Tabs, c \in Components, a \in {"install", "uninstall", "update"} : Review(tab, c, a)
    BY <1>11
  <2>2. /\ used.plans \in Nat /\ used' = [used EXCEPT !["plans"] = @ + 1] /\ operation' = operation
        /\ reviewing = {} /\ _review_action(c, a)
    BY <2>1 DEF PackageInv, PackageTypeOK, Review, Tally, Available, thread
  <2>3. used'.plans = used.plans + 1
    BY <2>2 DEF PackageInv, PackageTypeOK
  <2>4. CASE a = "update"
    <3>1. UNCHANGED <<plan, shown>>
      BY <2>1, <2>4 DEF Review
    <3>2. (\A q \in plan : q.id \in Nat) /\ \A t \in Tabs : \A q \in shown[t] : q.id \in Nat
      BY DEF PackageInv, PackageTypeOK, Plans
    <3>3. \A q \in plan : q.id <= used.plans /\ q.id < used'.plans /\ q.id <= used'.plans
      BY <2>2, <2>3, <3>2 DEF PackageInv, PlansInv
    <3>4. \A t \in Tabs : \A q \in shown[t] : q.id < used'.plans /\ q.id <= used'.plans
      BY <2>2, <2>3, <3>2 DEF PackageInv, PlansInv
    <3>5. \A q \in plan' \cup operation' : WellPlanned(q)
      BY <2>2, <3>1 DEF PackageInv, PlansInv
    <3> QED BY <3>1, <3>3, <3>4, <3>5 DEF PackageInv, PlansInv, WellPlanned
  <2>5. CASE a # "update"
    <3>1. Planned(tab, c, a, 0, packages, tool) /\ reviewing' = {}
      BY <2>1, <2>2, <2>5 DEF Review
    <3>2. a = "uninstall" => required_by(c, packages) = {}
      BY <2>2 DEF _review_action
    <3>3. used'.plans \in Nat /\ used.plans <= used'.plans /\ used.plans < used'.plans
      BY <2>2, <2>3
    <3>4. a = "update" => dependency_conflicts([packages EXCEPT ![c] = 0]) = {}
      BY <2>5
    <3> QED BY <2>2, <3>1, <3>2, <3>3, <3>4, PlannedFits
  <2> QED BY <2>4, <2>5
<1>12. CASE EnterMaintenance
  BY <1>12 DEF PackageInv, PlansInv, ThreadInv, Begun, PackageTypeOK, EnterMaintenance, Step,
     Looked, memory, thread, network, child, outside
<1>13. CASE PrepareInstallation
  BY <1>13 DEF PackageInv, PlansInv, ThreadInv, Begun, PackageTypeOK, PrepareInstallation, Step,
     Fails, memory, thread, network, child, outside
<1>14. CASE DownloadEnds
  BY <1>14 DEF PackageInv, PlansInv, ThreadInv, Begun, PackageTypeOK, DownloadEnds, Step, Fails,
     Looked, AsPlanned, memory, thread, network, child, outside
<1>15. CASE DownloadTimesOut
  BY <1>15 DEF PackageInv, PlansInv, ThreadInv, Begun, PackageTypeOK, DownloadTimesOut, Step, Fails,
     memory, thread, network, child, outside
<1>16. CASE StartInstaller
  BY <1>16 DEF PackageInv, PlansInv, ThreadInv, Begun, PackageTypeOK, StartInstaller, Step, Fails,
     memory, thread, network, child, outside
<1>17. CASE InstallerWaited
  BY <1>17 DEF PackageInv, PlansInv, ThreadInv, Begun, PackageTypeOK, InstallerWaited, Step, Fails,
     memory, thread, network, child, outside
<1>18. CASE VerifyOperation
  BY <1>18 DEF PackageInv, PlansInv, ThreadInv, Begun, PackageTypeOK, VerifyOperation, Step, memory,
     thread, network, child, outside
<1>19. CASE _finish_operation
  BY <1>19 DEF PackageInv, PlansInv, ThreadInv, Begun, PackageTypeOK, _finish_operation, Step,
     memory, thread, network, child, outside
<1>20. CASE RestoreBusiness
  BY <1>20 DEF PackageInv, PlansInv, ThreadInv, Begun, PackageTypeOK, RestoreBusiness, Step,
     RecoveryFailed, memory, thread, network, child, outside
<1>21. CASE InstallerWrites
  BY <1>21 DEF PackageInv, PlansInv, ThreadInv, Begun, PackageTypeOK, InstallerWrites, Tally,
     memory, thread, network, child, outside
<1>22. CASE LeaderExits
  BY <1>22 DEF PackageInv, PlansInv, ThreadInv, Begun, PackageTypeOK, LeaderExits, memory, thread,
     network, child, outside
<1>23. CASE GroupEnds
  BY <1>23 DEF PackageInv, PlansInv, ThreadInv, Begun, PackageTypeOK, GroupEnds, memory, thread,
     network, child, outside
<1>24. CASE Meddle
  BY <1>24 DEF PackageInv, PlansInv, ThreadInv, Begun, PackageTypeOK, Meddle, Tally, memory, thread,
     network, child, outside
<1>25. CASE \E s \in Servers : StartServer(s)
  BY <1>25 DEF PackageInv, PlansInv, ThreadInv, Begun, PackageTypeOK, StartServer, Excluded, memory,
     thread, network, child, outside
<1>26. CASE \E s \in Servers : StopServer(s)
  BY <1>26 DEF PackageInv, PlansInv, ThreadInv, Begun, PackageTypeOK, StopServer, memory, thread,
     network, child, outside
<1> QED BY <1>1, <1>2, <1>3, <1>4, <1>5, <1>6, <1>7, <1>8, <1>9, <1>10, <1>11, <1>12, <1>13, <1>14,
           <1>15, <1>16, <1>17, <1>18, <1>19, <1>20, <1>21, <1>22, <1>23, <1>24, <1>25, <1>26 DEF PackageNext, ManagerStep, ThreadStep
\* The packages: a look finds the reviewed ones.
LEMMA UnmeddledStays ==
  ASSUME PackageInv, [PackageNext]_packageVars
  PROVE  Unmeddled'
<1>1. CASE UNCHANGED packageVars
  BY <1>1 DEF PackageInv, Unmeddled, ThreadInv, LockInv, Begun, Before, PackageTypeOK, packageVars,
     memory, thread, network, child, outside
<1>2. CASE StartManager
  BY <1>2 DEF PackageInv, Unmeddled, ThreadInv, LockInv, Begun, Before, PackageTypeOK, StartManager,
     Excluded, Tally, memory, thread, network, child, outside
<1>3. CASE StopManager
  BY <1>3 DEF PackageInv, Unmeddled, ThreadInv, LockInv, Begun, Before, PackageTypeOK, StopManager,
     Forgotten, memory, thread, network, child, outside
<1>4. CASE LoseManager
  BY <1>4 DEF PackageInv, Unmeddled, ThreadInv, LockInv, Begun, Before, PackageTypeOK, LoseManager,
     Forgotten, memory, thread, network, child, outside
<1>5. CASE RecoverService
  BY <1>5 DEF PackageInv, Unmeddled, ThreadInv, LockInv, Begun, Before, PackageTypeOK,
     RecoverService, Step, memory, thread, network, child, outside
<1>6. CASE ReviewEnds
  BY <1>6 DEF PackageInv, Unmeddled, ThreadInv, LockInv, Begun, Before, PackageTypeOK, ReviewEnds,
     Planned, memory, thread, network, child, outside
<1>7. CASE ReviewTimesOut
  BY <1>7 DEF PackageInv, Unmeddled, ThreadInv, LockInv, Begun, Before, PackageTypeOK,
     ReviewTimesOut, memory, thread, network, child, outside
<1>8. CASE LateReadEnds
  BY <1>8 DEF PackageInv, Unmeddled, ThreadInv, LockInv, Begun, Before, PackageTypeOK, LateReadEnds,
     memory, thread, network, child, outside
<1>9. CASE PlanExpires
  BY <1>9 DEF PackageInv, Unmeddled, ThreadInv, LockInv, Begun, Before, PackageTypeOK, PlanExpires,
     memory, thread, network, child, outside
<1>10. CASE \E tab \in Tabs : ExecutePlan(tab)
  BY <1>10 DEF PackageInv, Unmeddled, ThreadInv, LockInv, Begun, Before, PackageTypeOK, ExecutePlan,
     Available, Looked, AsPlanned, memory, thread, network, child, outside
<1>11. CASE \E tab \in Tabs, c \in Components, a \in {"install", "uninstall", "update"} : Review(tab, c, a)
  BY <1>11 DEF PackageInv, Unmeddled, ThreadInv, LockInv, Begun, Before, PackageTypeOK, Review,
     Available, Planned, Tally, memory, thread, network, child, outside
<1>12. CASE EnterMaintenance
  BY <1>12 DEF PackageInv, Unmeddled, ThreadInv, LockInv, Begun, Before, PackageTypeOK,
     EnterMaintenance, Step, Looked, memory, thread, network, child, outside
<1>13. CASE PrepareInstallation
  BY <1>13 DEF PackageInv, Unmeddled, ThreadInv, LockInv, Begun, Before, PackageTypeOK,
     PrepareInstallation, Step, Fails, memory, thread, network, child, outside
<1>14. CASE DownloadEnds
  BY <1>14 DEF PackageInv, Unmeddled, ThreadInv, LockInv, Begun, Before, PackageTypeOK,
     DownloadEnds, Step, Fails, Looked, AsPlanned, memory, thread, network, child, outside
<1>15. CASE DownloadTimesOut
  BY <1>15 DEF PackageInv, Unmeddled, ThreadInv, LockInv, Begun, Before, PackageTypeOK,
     DownloadTimesOut, Step, Fails, memory, thread, network, child, outside
<1>16. CASE StartInstaller
  BY <1>16 DEF PackageInv, Unmeddled, ThreadInv, LockInv, Begun, Before, PackageTypeOK,
     StartInstaller, Step, Fails, memory, thread, network, child, outside
<1>17. CASE InstallerWaited
  BY <1>17 DEF PackageInv, Unmeddled, ThreadInv, LockInv, Begun, Before, PackageTypeOK,
     InstallerWaited, Step, Fails, memory, thread, network, child, outside
<1>18. CASE VerifyOperation
  BY <1>18 DEF PackageInv, Unmeddled, ThreadInv, LockInv, Begun, Before, PackageTypeOK,
     VerifyOperation, Step, memory, thread, network, child, outside
<1>19. CASE _finish_operation
  BY <1>19 DEF PackageInv, Unmeddled, ThreadInv, LockInv, Begun, Before, PackageTypeOK,
     _finish_operation, Step, memory, thread, network, child, outside
<1>20. CASE RestoreBusiness
  BY <1>20 DEF PackageInv, Unmeddled, ThreadInv, LockInv, Begun, Before, PackageTypeOK,
     RestoreBusiness, Step, RecoveryFailed, memory, thread, network, child, outside
<1>21. CASE InstallerWrites
  BY <1>21 DEF PackageInv, Unmeddled, ThreadInv, LockInv, Begun, Before, PackageTypeOK,
     InstallerWrites, Tally, memory, thread, network, child, outside
<1>22. CASE LeaderExits
  BY <1>22 DEF PackageInv, Unmeddled, ThreadInv, LockInv, Begun, Before, PackageTypeOK, LeaderExits,
     memory, thread, network, child, outside
<1>23. CASE GroupEnds
  BY <1>23 DEF PackageInv, Unmeddled, ThreadInv, LockInv, Begun, Before, PackageTypeOK, GroupEnds,
     memory, thread, network, child, outside
<1>24. CASE Meddle
  BY <1>24 DEF PackageInv, Unmeddled, ThreadInv, LockInv, Begun, Before, PackageTypeOK, Meddle,
     Tally, memory, thread, network, child, outside
<1>25. CASE \E s \in Servers : StartServer(s)
  BY <1>25 DEF PackageInv, Unmeddled, ThreadInv, LockInv, Begun, Before, PackageTypeOK, StartServer,
     Excluded, memory, thread, network, child, outside
<1>26. CASE \E s \in Servers : StopServer(s)
  BY <1>26 DEF PackageInv, Unmeddled, ThreadInv, LockInv, Begun, Before, PackageTypeOK, StopServer,
     memory, thread, network, child, outside
<1> QED BY <1>1, <1>2, <1>3, <1>4, <1>5, <1>6, <1>7, <1>8, <1>9, <1>10, <1>11, <1>12, <1>13, <1>14,
           <1>15, <1>16, <1>17, <1>18, <1>19, <1>20, <1>21, <1>22, <1>23, <1>24, <1>25, <1>26 DEF PackageNext, ManagerStep, ThreadStep
\* Nothing that success depends on has changed.
LEMMA SuccessKept ==
  ASSUME UNCHANGED <<packages, operation>>, meddled'.before = meddled.before,
         ~meddled'.after => \A p \in operation : AsReviewed(p),
         ~meddled.before => \A p \in operation : NothingBroken(p)
  PROVE  Success'
<1>1. \A p \in operation : AsReviewed(p) <=> AsReviewed(p)'
  BY DEF AsReviewed
<1>2. \A p \in operation : NothingBroken(p) <=> NothingBroken(p)'
  BY DEF NothingBroken
<1> QED BY <1>1, <1>2 DEF Success

\* A step that leaves what success is about alone.
LEMMA SuccessUnchanged ==
  ASSUME UNCHANGED <<packages, operation, meddled>>, SuccessInv,
         outcome' = "succeeded" \/ finished' = "succeeded" => outcome = "succeeded" \/ finished = "succeeded"
  PROVE  SuccessInv'
BY SuccessKept DEF SuccessInv, Success

\* Packages are not required by what another package has become.
LEMMA RequirementsOfOthers ==
  ASSUME NEW c, NEW p, NEW q, \A n \in Names \ {c} : p[n] = q[n], required_by(c, p) = {}
  PROVE  required_by(c, q) = {}
BY DEF required_by, Requirements

\* Success: verified for the reviewed change, and kept by what follows.
LEMMA SuccessStays ==
  ASSUME PackageAssumption, PackageInv, [PackageNext]_packageVars
  PROVE  SuccessInv'
<1>1. CASE UNCHANGED packageVars
  BY <1>1, SuccessUnchanged DEF PackageInv, SuccessInv, ThreadInv, Begun, PackageTypeOK,
     packageVars, memory, thread, network, child, outside
<1>2. CASE StartManager
  BY <1>2, SuccessUnchanged DEF PackageInv, SuccessInv, ThreadInv, Begun, PackageTypeOK,
     StartManager, Excluded, Tally, memory, thread, network, child, outside
<1>3. CASE StopManager
  BY <1>3, SuccessUnchanged DEF PackageInv, SuccessInv, ThreadInv, Begun, PackageTypeOK,
     StopManager, Forgotten, memory, thread, network, child, outside
<1>4. CASE LoseManager
  BY <1>4, SuccessUnchanged DEF PackageInv, SuccessInv, ThreadInv, Begun, PackageTypeOK,
     LoseManager, Forgotten, memory, thread, network, child, outside
<1>5. CASE RecoverService
  BY <1>5, SuccessUnchanged DEF PackageInv, SuccessInv, ThreadInv, Begun, PackageTypeOK,
     RecoverService, Step, memory, thread, network, child, outside
<1>6. CASE ReviewEnds
  BY <1>6, SuccessUnchanged DEF PackageInv, SuccessInv, ThreadInv, Begun, PackageTypeOK, ReviewEnds,
     Planned, memory, thread, network, child, outside
<1>7. CASE ReviewTimesOut
  BY <1>7, SuccessUnchanged DEF PackageInv, SuccessInv, ThreadInv, Begun, PackageTypeOK,
     ReviewTimesOut, memory, thread, network, child, outside
<1>8. CASE LateReadEnds
  BY <1>8, SuccessUnchanged DEF PackageInv, SuccessInv, ThreadInv, Begun, PackageTypeOK,
     LateReadEnds, memory, thread, network, child, outside
<1>9. CASE PlanExpires
  BY <1>9, SuccessUnchanged DEF PackageInv, SuccessInv, ThreadInv, Begun, PackageTypeOK,
     PlanExpires, memory, thread, network, child, outside
<1>10. CASE \E tab \in Tabs : ExecutePlan(tab)
  BY <1>10, SuccessUnchanged DEF PackageInv, SuccessInv, ThreadInv, Begun, PackageTypeOK,
     ExecutePlan, Available, Looked, AsPlanned, memory, thread, network, child, outside
<1>11. CASE \E tab \in Tabs, c \in Components, a \in {"install", "uninstall", "update"} : Review(tab, c, a)
  BY <1>11, SuccessUnchanged DEF PackageInv, SuccessInv, ThreadInv, Begun, PackageTypeOK, Review,
     Available, Planned, Tally, memory, thread, network, child, outside
<1>12. CASE EnterMaintenance
  BY <1>12, SuccessUnchanged DEF PackageInv, SuccessInv, ThreadInv, Begun, PackageTypeOK,
     EnterMaintenance, Step, Looked, memory, thread, network, child, outside
<1>13. CASE PrepareInstallation
  BY <1>13, SuccessUnchanged DEF PackageInv, SuccessInv, ThreadInv, Begun, PackageTypeOK,
     PrepareInstallation, Step, Fails, memory, thread, network, child, outside
<1>14. CASE DownloadEnds
  BY <1>14, SuccessUnchanged DEF PackageInv, SuccessInv, ThreadInv, Begun, PackageTypeOK,
     DownloadEnds, Step, Fails, Looked, AsPlanned, memory, thread, network, child, outside
<1>15. CASE DownloadTimesOut
  BY <1>15, SuccessUnchanged DEF PackageInv, SuccessInv, ThreadInv, Begun, PackageTypeOK,
     DownloadTimesOut, Step, Fails, memory, thread, network, child, outside
<1>16. CASE StartInstaller
  BY <1>16, SuccessUnchanged DEF PackageInv, SuccessInv, ThreadInv, Begun, PackageTypeOK,
     StartInstaller, Step, Fails, memory, thread, network, child, outside
<1>17. CASE InstallerWaited
  BY <1>17, SuccessUnchanged DEF PackageInv, SuccessInv, ThreadInv, Begun, PackageTypeOK,
     InstallerWaited, Step, Fails, memory, thread, network, child, outside
<1>18. CASE VerifyOperation
  <2>1. /\ meddled'.before = meddled.before /\ UNCHANGED <<packages, operation, finished>> /\ finished = "failed"
        /\ operation # {} /\ packages \in [Names -> Versions] /\ step = "verifying"
    BY <1>18 DEF VerifyOperation, PackageInv, PackageTypeOK, ThreadInv, Begun
  <2> SUFFICES ASSUME outcome' = "succeeded" PROVE Success'
    BY <2>1 DEF SuccessInv
  <2>2. \A p \in operation : _operation_preserved_environment(p)
    BY <1>18 DEF VerifyOperation
  <2>3. ASSUME NEW p \in operation
        PROVE  /\ p.action \in {"install", "uninstall", "update"} /\ p.snapshot \in [Names -> Versions]
               /\ p.component \in Names /\ WellPlanned(p)
    BY DEF PackageInv, PackageTypeOK, Plans, PlansInv, PackageAssumption
  <2>4. ASSUME NEW p \in operation PROVE AsReviewed(p)
    <3>1. p.action = "update" => packages = [p.snapshot EXCEPT ![p.component] = p.version]
      BY <2>1, <2>2, <2>3 DEF _operation_preserved_environment
    <3> QED BY <2>2, <2>3, <3>1 DEF AsReviewed, _operation_preserved_environment
  <2>5. ASSUME ~meddled.before, NEW p \in operation PROVE NothingBroken(p)
    <3>1. p.action = "update" => dependency_conflicts(packages) = {}
      BY <2>3, <2>4 DEF AsReviewed, WellPlanned
    <3>2. CASE p.action = "uninstall"
      <4>1. \A n \in Names : packages[n] \in {0, p.snapshot[n]}
        BY <2>1, <2>5, <3>2 DEF PackageInv, Unmeddled
      <4>2. \A n \in Names \ {p.component} : p.snapshot[n] = packages[n]
        BY <2>4, <4>1 DEF AsReviewed
      <4>3. required_by(p.component, p.snapshot) = {}
        BY <2>3, <3>2 DEF WellPlanned
      <4> QED BY <3>2, <4>2, <4>3, RequirementsOfOthers DEF NothingBroken
    <3> QED BY <3>1, <3>2 DEF NothingBroken
  <2> QED BY <2>1, <2>4, <2>5, SuccessKept
<1>19. CASE _finish_operation
  BY <1>19, SuccessUnchanged DEF PackageInv, SuccessInv, ThreadInv, Begun, PackageTypeOK,
     _finish_operation, Step, memory, thread, network, child, outside
<1>20. CASE RestoreBusiness
  BY <1>20, SuccessUnchanged DEF PackageInv, SuccessInv, ThreadInv, Begun, PackageTypeOK,
     RestoreBusiness, Step, RecoveryFailed, memory, thread, network, child, outside
<1>21. CASE InstallerWrites
  BY <1>21 DEF InstallerWrites, PackageInv, ThreadInv, SuccessInv, thread
<1>22. CASE LeaderExits
  BY <1>22, SuccessUnchanged DEF PackageInv, SuccessInv, ThreadInv, Begun, PackageTypeOK,
     LeaderExits, memory, thread, network, child, outside
<1>23. CASE GroupEnds
  BY <1>23, SuccessUnchanged DEF PackageInv, SuccessInv, ThreadInv, Begun, PackageTypeOK, GroupEnds,
     memory, thread, network, child, outside
<1>24. CASE Meddle
  BY <1>24 DEF Meddle, SuccessInv, Success
<1>25. CASE \E s \in Servers : StartServer(s)
  BY <1>25, SuccessUnchanged DEF PackageInv, SuccessInv, ThreadInv, Begun, PackageTypeOK,
     StartServer, Excluded, memory, thread, network, child, outside
<1>26. CASE \E s \in Servers : StopServer(s)
  BY <1>26, SuccessUnchanged DEF PackageInv, SuccessInv, ThreadInv, Begun, PackageTypeOK,
     StopServer, memory, thread, network, child, outside
<1> QED BY <1>1, <1>2, <1>3, <1>4, <1>5, <1>6, <1>7, <1>8, <1>9, <1>10, <1>11, <1>12, <1>13, <1>14,
           <1>15, <1>16, <1>17, <1>18, <1>19, <1>20, <1>21, <1>22, <1>23, <1>24, <1>25, <1>26 DEF PackageNext, ManagerStep, ThreadStep
\* A number that is counted.
LEMMA TallyTypes ==
  ASSUME PackageTypeOK, NEW what \in {"plans", "changes", "writes", "starts"}, Tally(what)
  PROVE  used' \in [plans : Nat, changes : Nat, writes : Nat, starts : Nat]
BY DEF PackageTypeOK, Tally

\* A plan that has been made.
LEMMA PlannedTypes ==
  ASSUME PackageTypeOK, NEW tab \in Tabs, NEW c \in Components,
         NEW action \in {"install", "uninstall", "update"}, NEW version \in Versions,
         NEW p \in [Names -> Versions], NEW found \in Tools, used'.plans \in Nat,
         Planned(tab, c, action, version, p, found)
  PROVE  /\ plan' \subseteq Plans /\ (\A x, y \in plan' : x = y) /\ expired' = FALSE
         /\ environment' \in Tools \cup {"none"} /\ shown' \in [Tabs -> SUBSET Plans]
<1> DEFINE new == [id |-> used'.plans, component |-> c, action |-> action, version |-> version,
                   snapshot |-> p, tool |-> found]
<1>1. new \in Plans
  BY DEF Plans
<1>2. plan' = {new} /\ expired' = FALSE /\ environment' = found /\ shown' = [shown EXCEPT ![tab] = {new}]
  BY DEF Planned
<1> HIDE DEF new
<1> QED BY <1>1, <1>2 DEF PackageTypeOK

\* The types, in parts.
OutsideTypes ==
  /\ packages \in [Names -> Versions] /\ tool \in Tools \cup {"none"}
  /\ meddled \in [before : BOOLEAN, after : BOOLEAN]
  /\ server \in [Servers -> {"off", "locked", "unlocked"}]

MemoryTypes ==
  /\ plan \subseteq Plans /\ (\A x, y \in plan : x = y)
  /\ environment \in Tools \cup {"none"} /\ shown \in [Tabs -> SUBSET Plans]

ReviewTypes ==
  reviewing \subseteq [component : Components, snapshot : [Names -> Versions], tool : Tools, tab : Tabs]

ThreadTypes ==
  /\ operation \subseteq Plans /\ confirmed \subseteq Plans
  /\ step \in {"idle", "entering", "preparing", "download", "ready", "installing", "verifying",
               "finishing", "restoring", "retrying"}
  /\ outcome \in {"none", "ok", "error", "failed", "succeeded"}
  /\ reported \in {"none", "running", "succeeded", "failed"} /\ finished \in {"succeeded", "failed"}

CounterTypes ==
  reads \in Nat /\ used \in [plans : Nat, changes : Nat, writes : Nat, starts : Nat]

FlagTypes ==
  /\ keeper \in {"off", "locked", "unlocked"} /\ stage \in {"ready", "busy", "recovery_failed"}
  /\ installer \in {"none", "running", "ok", "error"}
  /\ supervised \in BOOLEAN /\ restart_required \in BOOLEAN /\ expired \in BOOLEAN
  /\ slot \in BOOLEAN /\ group \in BOOLEAN /\ unclean \in BOOLEAN

\* PackageTypeOK is its parts.
LEMMA TypeParts ==
  PackageTypeOK <=> /\ OutsideTypes /\ MemoryTypes /\ ReviewTypes /\ ThreadTypes /\ CounterTypes /\ FlagTypes
BY Zenon DEF PackageTypeOK, OutsideTypes, MemoryTypes, ReviewTypes, ThreadTypes, CounterTypes, FlagTypes

\* And after a step.
LEMMA TypePartsNext ==
  PackageTypeOK' <=> /\ OutsideTypes' /\ MemoryTypes' /\ ReviewTypes' /\ ThreadTypes' /\ CounterTypes' /\ FlagTypes'
BY Zenon DEF PackageTypeOK, OutsideTypes, MemoryTypes, ReviewTypes, ThreadTypes, CounterTypes, FlagTypes

\* A look at the environment.
LEMMA LookedTypes == Looked => meddled' \in [before : BOOLEAN, after : BOOLEAN]
BY DEF Looked

\* The environment.
LEMMA OutsideTypesStay ==
  ASSUME PackageAssumption, PackageInv, PackageTypeOK, OutsideTypes, MemoryTypes, ReviewTypes, ThreadTypes, CounterTypes, FlagTypes, [PackageNext]_packageVars
  PROVE  OutsideTypes'
<1>1. CASE UNCHANGED packageVars
  BY <1>1 DEF OutsideTypes, packageVars, memory, thread, network, child, outside
<1>2. CASE StartManager
  BY <1>2 DEF OutsideTypes, StartManager, Excluded, Tally, memory, thread, network, child, outside
<1>3. CASE StopManager
  BY <1>3 DEF OutsideTypes, StopManager, Forgotten, memory, thread, network, child, outside
<1>4. CASE LoseManager
  BY <1>4 DEF OutsideTypes, LoseManager, Forgotten, memory, thread, network, child, outside
<1>5. CASE RecoverService
  BY <1>5 DEF OutsideTypes, RecoverService, Step, memory, thread, network, child, outside
<1>6. CASE ReviewEnds
  BY <1>6 DEF OutsideTypes, ReviewEnds, Planned, memory, thread, network, child, outside
<1>7. CASE ReviewTimesOut
  BY <1>7 DEF OutsideTypes, ReviewTimesOut, memory, thread, network, child, outside
<1>8. CASE LateReadEnds
  BY <1>8 DEF OutsideTypes, LateReadEnds, memory, thread, network, child, outside
<1>9. CASE PlanExpires
  BY <1>9 DEF OutsideTypes, PlanExpires, memory, thread, network, child, outside
<1>10. CASE \E tab \in Tabs : ExecutePlan(tab)
  BY <1>10, LookedTypes DEF OutsideTypes, ExecutePlan, Available, AsPlanned, memory, thread,
     network, child, outside
<1>11. CASE \E tab \in Tabs, c \in Components, a \in {"install", "uninstall", "update"} : Review(tab, c, a)
  BY <1>11 DEF OutsideTypes, Review, Available, Planned, Tally, memory, thread, network, child,
     outside
<1>12. CASE EnterMaintenance
  BY <1>12, LookedTypes DEF OutsideTypes, EnterMaintenance, Step, memory, thread, network, child,
     outside
<1>13. CASE PrepareInstallation
  BY <1>13 DEF OutsideTypes, PrepareInstallation, Step, Fails, memory, thread, network, child,
     outside
<1>14. CASE DownloadEnds
  BY <1>14, LookedTypes DEF OutsideTypes, DownloadEnds, Step, Fails, AsPlanned, memory, thread,
     network, child, outside
<1>15. CASE DownloadTimesOut
  BY <1>15 DEF OutsideTypes, DownloadTimesOut, Step, Fails, memory, thread, network, child, outside
<1>16. CASE StartInstaller
  BY <1>16 DEF OutsideTypes, StartInstaller, Step, Fails, memory, thread, network, child, outside
<1>17. CASE InstallerWaited
  BY <1>17 DEF OutsideTypes, InstallerWaited, Step, Fails, memory, thread, network, child, outside
<1>18. CASE VerifyOperation
  BY <1>18 DEF OutsideTypes, VerifyOperation, Step, memory, thread, network, child, outside
<1>19. CASE _finish_operation
  BY <1>19 DEF OutsideTypes, _finish_operation, Step, memory, thread, network, child, outside
<1>20. CASE RestoreBusiness
  BY <1>20 DEF OutsideTypes, RestoreBusiness, Step, RecoveryFailed, memory, thread, network, child,
     outside
<1>21. CASE InstallerWrites
  BY <1>21 DEF OutsideTypes, InstallerWrites, Tally, memory, thread, network, child, outside
<1>22. CASE LeaderExits
  BY <1>22 DEF OutsideTypes, LeaderExits, memory, thread, network, child, outside
<1>23. CASE GroupEnds
  BY <1>23 DEF OutsideTypes, GroupEnds, memory, thread, network, child, outside
<1>24. CASE Meddle
  BY <1>24 DEF OutsideTypes, Meddle, Tally, memory, thread, network, child, outside
<1>25. CASE \E s \in Servers : StartServer(s)
  BY <1>25 DEF OutsideTypes, StartServer, Excluded, memory, thread, network, child, outside
<1>26. CASE \E s \in Servers : StopServer(s)
  BY <1>26 DEF OutsideTypes, StopServer, memory, thread, network, child, outside
<1> QED BY <1>1, <1>2, <1>3, <1>4, <1>5, <1>6, <1>7, <1>8, <1>9, <1>10, <1>11, <1>12, <1>13, <1>14,
           <1>15, <1>16, <1>17, <1>18, <1>19, <1>20, <1>21, <1>22, <1>23, <1>24, <1>25, <1>26 DEF PackageNext, ManagerStep, ThreadStep
\* What the manager remembers.
LEMMA MemoryTypesStay ==
  ASSUME PackageAssumption, PackageInv, PackageTypeOK, OutsideTypes, MemoryTypes, ReviewTypes, ThreadTypes, CounterTypes, FlagTypes, [PackageNext]_packageVars
  PROVE  MemoryTypes'
<1>1. CASE UNCHANGED packageVars
  BY <1>1 DEF MemoryTypes, OutsideTypes, packageVars, memory, thread, network, child, outside
<1>2. CASE StartManager
  BY <1>2 DEF MemoryTypes, OutsideTypes, StartManager, Excluded, Tally, memory, thread, network,
     child, outside
<1>3. CASE StopManager
  BY <1>3 DEF MemoryTypes, OutsideTypes, StopManager, Forgotten, memory, thread, network, child,
     outside
<1>4. CASE LoseManager
  BY <1>4 DEF MemoryTypes, OutsideTypes, LoseManager, Forgotten, memory, thread, network, child,
     outside
<1>5. CASE RecoverService
  BY <1>5 DEF MemoryTypes, OutsideTypes, RecoverService, Step, memory, thread, network, child,
     outside
<1>6. CASE ReviewEnds
  <2>1. CASE UNCHANGED <<plan, expired, environment, shown>>
    BY <2>1 DEF MemoryTypes
  <2>2. CASE \E r \in reviewing, files \in Indexes :
               \E v \in _prepare_update(r.component, r.snapshot, files) :
                 Planned(r.tab, r.component, "update", v, r.snapshot, r.tool)
    <3>1. PICK r \in reviewing, files \in Indexes :
                 \E v \in _prepare_update(r.component, r.snapshot, files) :
                   Planned(r.tab, r.component, "update", v, r.snapshot, r.tool)
      BY <2>2
    <3>2. PICK v \in _prepare_update(r.component, r.snapshot, files) :
                 Planned(r.tab, r.component, "update", v, r.snapshot, r.tool)
      BY <3>1
    <3>3. v \in Versions
      BY DEF _prepare_update, _latest_stable, PackageAssumption, Versions
    <3>4. r.tab \in Tabs /\ r.component \in Components /\ r.snapshot \in [Names -> Versions] /\ r.tool \in Tools
      BY DEF ReviewTypes
    <3>5. used'.plans \in Nat
      BY <1>6 DEF ReviewEnds, CounterTypes
    <3> QED BY <3>2, <3>3, <3>4, <3>5, PlannedTypes DEF MemoryTypes
  <2> QED BY <1>6, <2>1, <2>2 DEF ReviewEnds
<1>7. CASE ReviewTimesOut
  BY <1>7 DEF MemoryTypes, OutsideTypes, ReviewTimesOut, memory, thread, network, child, outside
<1>8. CASE LateReadEnds
  BY <1>8 DEF MemoryTypes, OutsideTypes, LateReadEnds, memory, thread, network, child, outside
<1>9. CASE PlanExpires
  BY <1>9 DEF MemoryTypes, OutsideTypes, PlanExpires, memory, thread, network, child, outside
<1>10. CASE \E tab \in Tabs : ExecutePlan(tab)
  BY <1>10 DEF MemoryTypes, OutsideTypes, ExecutePlan, Available, Looked, AsPlanned, memory, thread,
     network, child, outside
<1>11. CASE \E tab \in Tabs, c \in Components, a \in {"install", "uninstall", "update"} : Review(tab, c, a)
  <2>1. PICK tab \in Tabs, c \in Components, a \in {"install", "uninstall", "update"} : Review(tab, c, a)
    BY <1>11
  <2>2. tool \in Tools /\ Tally("plans")
    BY <2>1 DEF Review, OutsideTypes
  <2>3. used'.plans \in Nat
    BY <2>2, TallyTypes
  <2>4. CASE a = "update"
    BY <2>1, <2>4 DEF Review, MemoryTypes
  <2>5. CASE a # "update"
    <3>1. Planned(tab, c, a, 0, packages, tool)
      BY <2>1, <2>5 DEF Review
    <3>2. 0 \in Versions /\ packages \in [Names -> Versions]
      BY DEF Versions, PackageAssumption, OutsideTypes
    <3> QED BY <2>2, <2>3, <3>1, <3>2, PlannedTypes DEF MemoryTypes
  <2> QED BY <2>4, <2>5
<1>12. CASE EnterMaintenance
  BY <1>12 DEF MemoryTypes, OutsideTypes, EnterMaintenance, Step, Looked, memory, thread, network,
     child, outside
<1>13. CASE PrepareInstallation
  BY <1>13 DEF MemoryTypes, OutsideTypes, PrepareInstallation, Step, Fails, memory, thread, network,
     child, outside
<1>14. CASE DownloadEnds
  BY <1>14 DEF MemoryTypes, OutsideTypes, DownloadEnds, Step, Fails, Looked, AsPlanned, memory,
     thread, network, child, outside
<1>15. CASE DownloadTimesOut
  BY <1>15 DEF MemoryTypes, OutsideTypes, DownloadTimesOut, Step, Fails, memory, thread, network,
     child, outside
<1>16. CASE StartInstaller
  BY <1>16 DEF MemoryTypes, OutsideTypes, StartInstaller, Step, Fails, memory, thread, network,
     child, outside
<1>17. CASE InstallerWaited
  BY <1>17 DEF MemoryTypes, OutsideTypes, InstallerWaited, Step, Fails, memory, thread, network,
     child, outside
<1>18. CASE VerifyOperation
  BY <1>18 DEF MemoryTypes, OutsideTypes, VerifyOperation, Step, memory, thread, network, child,
     outside
<1>19. CASE _finish_operation
  BY <1>19 DEF MemoryTypes, OutsideTypes, _finish_operation, Step, memory, thread, network, child,
     outside
<1>20. CASE RestoreBusiness
  BY <1>20 DEF MemoryTypes, OutsideTypes, RestoreBusiness, Step, RecoveryFailed, memory, thread,
     network, child, outside
<1>21. CASE InstallerWrites
  BY <1>21 DEF MemoryTypes, OutsideTypes, InstallerWrites, Tally, memory, thread, network, child,
     outside
<1>22. CASE LeaderExits
  BY <1>22 DEF MemoryTypes, OutsideTypes, LeaderExits, memory, thread, network, child, outside
<1>23. CASE GroupEnds
  BY <1>23 DEF MemoryTypes, OutsideTypes, GroupEnds, memory, thread, network, child, outside
<1>24. CASE Meddle
  BY <1>24 DEF MemoryTypes, OutsideTypes, Meddle, Tally, memory, thread, network, child, outside
<1>25. CASE \E s \in Servers : StartServer(s)
  BY <1>25 DEF MemoryTypes, OutsideTypes, StartServer, Excluded, memory, thread, network, child,
     outside
<1>26. CASE \E s \in Servers : StopServer(s)
  BY <1>26 DEF MemoryTypes, OutsideTypes, StopServer, memory, thread, network, child, outside
<1> QED BY <1>1, <1>2, <1>3, <1>4, <1>5, <1>6, <1>7, <1>8, <1>9, <1>10, <1>11, <1>12, <1>13, <1>14,
           <1>15, <1>16, <1>17, <1>18, <1>19, <1>20, <1>21, <1>22, <1>23, <1>24, <1>25, <1>26 DEF PackageNext, ManagerStep, ThreadStep
\* The review that waits.
LEMMA ReviewTypesStay ==
  ASSUME PackageAssumption, PackageInv, PackageTypeOK, OutsideTypes, MemoryTypes, ReviewTypes, ThreadTypes, CounterTypes, FlagTypes, [PackageNext]_packageVars
  PROVE  ReviewTypes'
<1>1. CASE UNCHANGED packageVars
  BY <1>1 DEF ReviewTypes, OutsideTypes, packageVars, memory, thread, network, child, outside
<1>2. CASE StartManager
  BY <1>2 DEF ReviewTypes, OutsideTypes, StartManager, Excluded, Tally, memory, thread, network,
     child, outside
<1>3. CASE StopManager
  BY <1>3 DEF ReviewTypes, OutsideTypes, StopManager, Forgotten, memory, thread, network, child,
     outside
<1>4. CASE LoseManager
  BY <1>4 DEF ReviewTypes, OutsideTypes, LoseManager, Forgotten, memory, thread, network, child,
     outside
<1>5. CASE RecoverService
  BY <1>5 DEF ReviewTypes, OutsideTypes, RecoverService, Step, memory, thread, network, child,
     outside
<1>6. CASE ReviewEnds
  BY <1>6 DEF ReviewTypes, OutsideTypes, ReviewEnds, Planned, memory, thread, network, child,
     outside
<1>7. CASE ReviewTimesOut
  BY <1>7 DEF ReviewTypes, OutsideTypes, ReviewTimesOut, memory, thread, network, child, outside
<1>8. CASE LateReadEnds
  BY <1>8 DEF ReviewTypes, OutsideTypes, LateReadEnds, memory, thread, network, child, outside
<1>9. CASE PlanExpires
  BY <1>9 DEF ReviewTypes, OutsideTypes, PlanExpires, memory, thread, network, child, outside
<1>10. CASE \E tab \in Tabs : ExecutePlan(tab)
  BY <1>10 DEF ReviewTypes, OutsideTypes, ExecutePlan, Available, Looked, AsPlanned, memory, thread,
     network, child, outside
<1>11. CASE \E tab \in Tabs, c \in Components, a \in {"install", "uninstall", "update"} : Review(tab, c, a)
  BY <1>11 DEF ReviewTypes, OutsideTypes, Review, Available, Planned, Tally, memory, thread,
     network, child, outside
<1>12. CASE EnterMaintenance
  BY <1>12 DEF ReviewTypes, OutsideTypes, EnterMaintenance, Step, Looked, memory, thread, network,
     child, outside
<1>13. CASE PrepareInstallation
  BY <1>13 DEF ReviewTypes, OutsideTypes, PrepareInstallation, Step, Fails, memory, thread, network,
     child, outside
<1>14. CASE DownloadEnds
  BY <1>14 DEF ReviewTypes, OutsideTypes, DownloadEnds, Step, Fails, Looked, AsPlanned, memory,
     thread, network, child, outside
<1>15. CASE DownloadTimesOut
  BY <1>15 DEF ReviewTypes, OutsideTypes, DownloadTimesOut, Step, Fails, memory, thread, network,
     child, outside
<1>16. CASE StartInstaller
  BY <1>16 DEF ReviewTypes, OutsideTypes, StartInstaller, Step, Fails, memory, thread, network,
     child, outside
<1>17. CASE InstallerWaited
  BY <1>17 DEF ReviewTypes, OutsideTypes, InstallerWaited, Step, Fails, memory, thread, network,
     child, outside
<1>18. CASE VerifyOperation
  BY <1>18 DEF ReviewTypes, OutsideTypes, VerifyOperation, Step, memory, thread, network, child,
     outside
<1>19. CASE _finish_operation
  BY <1>19 DEF ReviewTypes, OutsideTypes, _finish_operation, Step, memory, thread, network, child,
     outside
<1>20. CASE RestoreBusiness
  BY <1>20 DEF ReviewTypes, OutsideTypes, RestoreBusiness, Step, RecoveryFailed, memory, thread,
     network, child, outside
<1>21. CASE InstallerWrites
  BY <1>21 DEF ReviewTypes, OutsideTypes, InstallerWrites, Tally, memory, thread, network, child,
     outside
<1>22. CASE LeaderExits
  BY <1>22 DEF ReviewTypes, OutsideTypes, LeaderExits, memory, thread, network, child, outside
<1>23. CASE GroupEnds
  BY <1>23 DEF ReviewTypes, OutsideTypes, GroupEnds, memory, thread, network, child, outside
<1>24. CASE Meddle
  BY <1>24 DEF ReviewTypes, OutsideTypes, Meddle, Tally, memory, thread, network, child, outside
<1>25. CASE \E s \in Servers : StartServer(s)
  BY <1>25 DEF ReviewTypes, OutsideTypes, StartServer, Excluded, memory, thread, network, child,
     outside
<1>26. CASE \E s \in Servers : StopServer(s)
  BY <1>26 DEF ReviewTypes, OutsideTypes, StopServer, memory, thread, network, child, outside
<1> QED BY <1>1, <1>2, <1>3, <1>4, <1>5, <1>6, <1>7, <1>8, <1>9, <1>10, <1>11, <1>12, <1>13, <1>14,
           <1>15, <1>16, <1>17, <1>18, <1>19, <1>20, <1>21, <1>22, <1>23, <1>24, <1>25, <1>26 DEF PackageNext, ManagerStep, ThreadStep
\* The thread.
LEMMA ThreadTypesStay ==
  ASSUME PackageAssumption, PackageInv, PackageTypeOK, OutsideTypes, MemoryTypes, ReviewTypes, ThreadTypes, CounterTypes, FlagTypes, [PackageNext]_packageVars
  PROVE  ThreadTypes'
<1>1. CASE UNCHANGED packageVars
  BY <1>1 DEF ThreadTypes, MemoryTypes, FlagTypes, PackageInv, ThreadInv, packageVars, memory,
     thread, network, child, outside
<1>2. CASE StartManager
  BY <1>2 DEF ThreadTypes, MemoryTypes, FlagTypes, PackageInv, ThreadInv, StartManager, Excluded,
     Tally, memory, thread, network, child, outside
<1>3. CASE StopManager
  BY <1>3 DEF ThreadTypes, MemoryTypes, FlagTypes, PackageInv, ThreadInv, StopManager, Forgotten,
     memory, thread, network, child, outside
<1>4. CASE LoseManager
  BY <1>4 DEF ThreadTypes, MemoryTypes, FlagTypes, PackageInv, ThreadInv, LoseManager, Forgotten,
     memory, thread, network, child, outside
<1>5. CASE RecoverService
  BY <1>5 DEF ThreadTypes, MemoryTypes, FlagTypes, PackageInv, ThreadInv, RecoverService, Step,
     memory, thread, network, child, outside
<1>6. CASE ReviewEnds
  BY <1>6 DEF ThreadTypes, MemoryTypes, FlagTypes, PackageInv, ThreadInv, ReviewEnds, Planned,
     memory, thread, network, child, outside
<1>7. CASE ReviewTimesOut
  BY <1>7 DEF ThreadTypes, MemoryTypes, FlagTypes, PackageInv, ThreadInv, ReviewTimesOut, memory,
     thread, network, child, outside
<1>8. CASE LateReadEnds
  BY <1>8 DEF ThreadTypes, MemoryTypes, FlagTypes, PackageInv, ThreadInv, LateReadEnds, memory,
     thread, network, child, outside
<1>9. CASE PlanExpires
  BY <1>9 DEF ThreadTypes, MemoryTypes, FlagTypes, PackageInv, ThreadInv, PlanExpires, memory,
     thread, network, child, outside
<1>10. CASE \E tab \in Tabs : ExecutePlan(tab)
  BY <1>10 DEF ThreadTypes, MemoryTypes, FlagTypes, PackageInv, ThreadInv, ExecutePlan, Available,
     Looked, AsPlanned, memory, thread, network, child, outside
<1>11. CASE \E tab \in Tabs, c \in Components, a \in {"install", "uninstall", "update"} : Review(tab, c, a)
  BY <1>11 DEF ThreadTypes, MemoryTypes, FlagTypes, PackageInv, ThreadInv, Review, Available,
     Planned, Tally, memory, thread, network, child, outside
<1>12. CASE EnterMaintenance
  BY <1>12 DEF ThreadTypes, MemoryTypes, FlagTypes, PackageInv, ThreadInv, EnterMaintenance, Step,
     Looked, memory, thread, network, child, outside
<1>13. CASE PrepareInstallation
  BY <1>13 DEF ThreadTypes, MemoryTypes, FlagTypes, PackageInv, ThreadInv, PrepareInstallation,
     Step, Fails, memory, thread, network, child, outside
<1>14. CASE DownloadEnds
  BY <1>14 DEF ThreadTypes, MemoryTypes, FlagTypes, PackageInv, ThreadInv, DownloadEnds, Step,
     Fails, Looked, AsPlanned, memory, thread, network, child, outside
<1>15. CASE DownloadTimesOut
  BY <1>15 DEF ThreadTypes, MemoryTypes, FlagTypes, PackageInv, ThreadInv, DownloadTimesOut, Step,
     Fails, memory, thread, network, child, outside
<1>16. CASE StartInstaller
  BY <1>16 DEF ThreadTypes, MemoryTypes, FlagTypes, PackageInv, ThreadInv, StartInstaller, Step,
     Fails, memory, thread, network, child, outside
<1>17. CASE InstallerWaited
  BY <1>17 DEF ThreadTypes, MemoryTypes, FlagTypes, PackageInv, ThreadInv, InstallerWaited, Step,
     Fails, memory, thread, network, child, outside
<1>18. CASE VerifyOperation
  BY <1>18 DEF ThreadTypes, MemoryTypes, FlagTypes, PackageInv, ThreadInv, VerifyOperation, Step,
     memory, thread, network, child, outside
<1>19. CASE _finish_operation
  BY <1>19 DEF ThreadTypes, MemoryTypes, FlagTypes, PackageInv, ThreadInv, _finish_operation, Step,
     memory, thread, network, child, outside
<1>20. CASE RestoreBusiness
  BY <1>20 DEF ThreadTypes, MemoryTypes, FlagTypes, PackageInv, ThreadInv, RestoreBusiness, Step,
     RecoveryFailed, memory, thread, network, child, outside
<1>21. CASE InstallerWrites
  BY <1>21 DEF ThreadTypes, MemoryTypes, FlagTypes, PackageInv, ThreadInv, InstallerWrites, Tally,
     memory, thread, network, child, outside
<1>22. CASE LeaderExits
  BY <1>22 DEF ThreadTypes, MemoryTypes, FlagTypes, PackageInv, ThreadInv, LeaderExits, memory,
     thread, network, child, outside
<1>23. CASE GroupEnds
  BY <1>23 DEF ThreadTypes, MemoryTypes, FlagTypes, PackageInv, ThreadInv, GroupEnds, memory,
     thread, network, child, outside
<1>24. CASE Meddle
  BY <1>24 DEF ThreadTypes, MemoryTypes, FlagTypes, PackageInv, ThreadInv, Meddle, Tally, memory,
     thread, network, child, outside
<1>25. CASE \E s \in Servers : StartServer(s)
  BY <1>25 DEF ThreadTypes, MemoryTypes, FlagTypes, PackageInv, ThreadInv, StartServer, Excluded,
     memory, thread, network, child, outside
<1>26. CASE \E s \in Servers : StopServer(s)
  BY <1>26 DEF ThreadTypes, MemoryTypes, FlagTypes, PackageInv, ThreadInv, StopServer, memory,
     thread, network, child, outside
<1> QED BY <1>1, <1>2, <1>3, <1>4, <1>5, <1>6, <1>7, <1>8, <1>9, <1>10, <1>11, <1>12, <1>13, <1>14,
           <1>15, <1>16, <1>17, <1>18, <1>19, <1>20, <1>21, <1>22, <1>23, <1>24, <1>25, <1>26 DEF PackageNext, ManagerStep, ThreadStep
\* The counters.
LEMMA CounterTypesStay ==
  ASSUME PackageAssumption, PackageInv, PackageTypeOK, OutsideTypes, MemoryTypes, ReviewTypes, ThreadTypes, CounterTypes, FlagTypes, [PackageNext]_packageVars
  PROVE  CounterTypes'
<1>1. CASE UNCHANGED packageVars
  BY <1>1, TallyTypes DEF CounterTypes, PackageInv, NetworkInv, packageVars, memory, thread,
     network, child, outside
<1>2. CASE StartManager
  BY <1>2, TallyTypes DEF CounterTypes, PackageInv, NetworkInv, StartManager, Excluded, Tally,
     memory, thread, network, child, outside
<1>3. CASE StopManager
  BY <1>3, TallyTypes DEF CounterTypes, PackageInv, NetworkInv, StopManager, Forgotten, memory,
     thread, network, child, outside
<1>4. CASE LoseManager
  BY <1>4, TallyTypes DEF CounterTypes, PackageInv, NetworkInv, LoseManager, Forgotten, memory,
     thread, network, child, outside
<1>5. CASE RecoverService
  BY <1>5, TallyTypes DEF CounterTypes, PackageInv, NetworkInv, RecoverService, Step, memory,
     thread, network, child, outside
<1>6. CASE ReviewEnds
  BY <1>6, TallyTypes DEF CounterTypes, PackageInv, NetworkInv, ReviewEnds, Planned, memory, thread,
     network, child, outside
<1>7. CASE ReviewTimesOut
  BY <1>7, TallyTypes DEF CounterTypes, PackageInv, NetworkInv, ReviewTimesOut, memory, thread,
     network, child, outside
<1>8. CASE LateReadEnds
  BY <1>8, TallyTypes DEF CounterTypes, PackageInv, NetworkInv, LateReadEnds, memory, thread,
     network, child, outside
<1>9. CASE PlanExpires
  BY <1>9, TallyTypes DEF CounterTypes, PackageInv, NetworkInv, PlanExpires, memory, thread,
     network, child, outside
<1>10. CASE \E tab \in Tabs : ExecutePlan(tab)
  BY <1>10, TallyTypes DEF CounterTypes, PackageInv, NetworkInv, ExecutePlan, Available, Looked,
     AsPlanned, memory, thread, network, child, outside
<1>11. CASE \E tab \in Tabs, c \in Components, a \in {"install", "uninstall", "update"} : Review(tab, c, a)
  BY <1>11, TallyTypes DEF CounterTypes, PackageInv, NetworkInv, Review, Available, Planned, Tally,
     memory, thread, network, child, outside
<1>12. CASE EnterMaintenance
  BY <1>12, TallyTypes DEF CounterTypes, PackageInv, NetworkInv, EnterMaintenance, Step, Looked,
     memory, thread, network, child, outside
<1>13. CASE PrepareInstallation
  BY <1>13, TallyTypes DEF CounterTypes, PackageInv, NetworkInv, PrepareInstallation, Step, Fails,
     memory, thread, network, child, outside
<1>14. CASE DownloadEnds
  BY <1>14, TallyTypes DEF CounterTypes, PackageInv, NetworkInv, DownloadEnds, Step, Fails, Looked,
     AsPlanned, memory, thread, network, child, outside
<1>15. CASE DownloadTimesOut
  BY <1>15, TallyTypes DEF CounterTypes, PackageInv, NetworkInv, DownloadTimesOut, Step, Fails,
     memory, thread, network, child, outside
<1>16. CASE StartInstaller
  BY <1>16, TallyTypes DEF CounterTypes, PackageInv, NetworkInv, StartInstaller, Step, Fails,
     memory, thread, network, child, outside
<1>17. CASE InstallerWaited
  BY <1>17, TallyTypes DEF CounterTypes, PackageInv, NetworkInv, InstallerWaited, Step, Fails,
     memory, thread, network, child, outside
<1>18. CASE VerifyOperation
  BY <1>18, TallyTypes DEF CounterTypes, PackageInv, NetworkInv, VerifyOperation, Step, memory,
     thread, network, child, outside
<1>19. CASE _finish_operation
  BY <1>19, TallyTypes DEF CounterTypes, PackageInv, NetworkInv, _finish_operation, Step, memory,
     thread, network, child, outside
<1>20. CASE RestoreBusiness
  BY <1>20, TallyTypes DEF CounterTypes, PackageInv, NetworkInv, RestoreBusiness, Step,
     RecoveryFailed, memory, thread, network, child, outside
<1>21. CASE InstallerWrites
  BY <1>21, TallyTypes DEF CounterTypes, PackageInv, NetworkInv, InstallerWrites, Tally, memory,
     thread, network, child, outside
<1>22. CASE LeaderExits
  BY <1>22, TallyTypes DEF CounterTypes, PackageInv, NetworkInv, LeaderExits, memory, thread,
     network, child, outside
<1>23. CASE GroupEnds
  BY <1>23, TallyTypes DEF CounterTypes, PackageInv, NetworkInv, GroupEnds, memory, thread, network,
     child, outside
<1>24. CASE Meddle
  BY <1>24, TallyTypes DEF CounterTypes, PackageInv, NetworkInv, Meddle, Tally, memory, thread,
     network, child, outside
<1>25. CASE \E s \in Servers : StartServer(s)
  BY <1>25, TallyTypes DEF CounterTypes, PackageInv, NetworkInv, StartServer, Excluded, memory,
     thread, network, child, outside
<1>26. CASE \E s \in Servers : StopServer(s)
  BY <1>26, TallyTypes DEF CounterTypes, PackageInv, NetworkInv, StopServer, memory, thread,
     network, child, outside
<1> QED BY <1>1, <1>2, <1>3, <1>4, <1>5, <1>6, <1>7, <1>8, <1>9, <1>10, <1>11, <1>12, <1>13, <1>14,
           <1>15, <1>16, <1>17, <1>18, <1>19, <1>20, <1>21, <1>22, <1>23, <1>24, <1>25, <1>26 DEF PackageNext, ManagerStep, ThreadStep
\* The flags.
LEMMA FlagTypesStay ==
  ASSUME PackageAssumption, PackageInv, PackageTypeOK, OutsideTypes, MemoryTypes, ReviewTypes, ThreadTypes, CounterTypes, FlagTypes, [PackageNext]_packageVars
  PROVE  FlagTypes'
<1>1. CASE UNCHANGED packageVars
  BY <1>1 DEF FlagTypes, OutsideTypes, packageVars, memory, thread, network, child, outside
<1>2. CASE StartManager
  BY <1>2 DEF FlagTypes, OutsideTypes, StartManager, Excluded, Tally, memory, thread, network,
     child, outside
<1>3. CASE StopManager
  BY <1>3 DEF FlagTypes, OutsideTypes, StopManager, Forgotten, memory, thread, network, child,
     outside
<1>4. CASE LoseManager
  BY <1>4 DEF FlagTypes, OutsideTypes, LoseManager, Forgotten, memory, thread, network, child,
     outside
<1>5. CASE RecoverService
  BY <1>5 DEF FlagTypes, OutsideTypes, RecoverService, Step, memory, thread, network, child, outside
<1>6. CASE ReviewEnds
  BY <1>6 DEF FlagTypes, OutsideTypes, ReviewEnds, Planned, memory, thread, network, child, outside
<1>7. CASE ReviewTimesOut
  BY <1>7 DEF FlagTypes, OutsideTypes, ReviewTimesOut, memory, thread, network, child, outside
<1>8. CASE LateReadEnds
  BY <1>8 DEF FlagTypes, OutsideTypes, LateReadEnds, memory, thread, network, child, outside
<1>9. CASE PlanExpires
  BY <1>9 DEF FlagTypes, OutsideTypes, PlanExpires, memory, thread, network, child, outside
<1>10. CASE \E tab \in Tabs : ExecutePlan(tab)
  BY <1>10 DEF FlagTypes, OutsideTypes, ExecutePlan, Available, Looked, AsPlanned, memory, thread,
     network, child, outside
<1>11. CASE \E tab \in Tabs, c \in Components, a \in {"install", "uninstall", "update"} : Review(tab, c, a)
  <2>1. PICK tab \in Tabs, c \in Components, a \in {"install", "uninstall", "update"} : Review(tab, c, a)
    BY <1>11
  <2>2. /\ UNCHANGED <<restart_required, stage, child, keeper, supervised>>
        /\ \/ slot' = TRUE /\ UNCHANGED expired
           \/ expired' = FALSE /\ UNCHANGED slot
    BY <2>1 DEF Review, Planned, network
  <2>3. (slot' = TRUE \/ slot' = slot) /\ (expired' = FALSE \/ expired' = expired)
    BY <2>2
  <2>4. slot' \in BOOLEAN /\ expired' \in BOOLEAN
    BY <2>3 DEF FlagTypes
  <2> QED BY <2>2, <2>4 DEF FlagTypes, child
<1>12. CASE EnterMaintenance
  BY <1>12 DEF FlagTypes, OutsideTypes, EnterMaintenance, Step, Looked, memory, thread, network,
     child, outside
<1>13. CASE PrepareInstallation
  BY <1>13 DEF FlagTypes, OutsideTypes, PrepareInstallation, Step, Fails, memory, thread, network,
     child, outside
<1>14. CASE DownloadEnds
  BY <1>14 DEF FlagTypes, OutsideTypes, DownloadEnds, Step, Fails, Looked, AsPlanned, memory,
     thread, network, child, outside
<1>15. CASE DownloadTimesOut
  BY <1>15 DEF FlagTypes, OutsideTypes, DownloadTimesOut, Step, Fails, memory, thread, network,
     child, outside
<1>16. CASE StartInstaller
  BY <1>16 DEF FlagTypes, OutsideTypes, StartInstaller, Step, Fails, memory, thread, network, child,
     outside
<1>17. CASE InstallerWaited
  BY <1>17 DEF FlagTypes, OutsideTypes, InstallerWaited, Step, Fails, memory, thread, network,
     child, outside
<1>18. CASE VerifyOperation
  BY <1>18 DEF FlagTypes, OutsideTypes, VerifyOperation, Step, memory, thread, network, child,
     outside
<1>19. CASE _finish_operation
  BY <1>19 DEF FlagTypes, OutsideTypes, _finish_operation, Step, memory, thread, network, child,
     outside
<1>20. CASE RestoreBusiness
  BY <1>20 DEF FlagTypes, OutsideTypes, RestoreBusiness, Step, RecoveryFailed, memory, thread,
     network, child, outside
<1>21. CASE InstallerWrites
  BY <1>21 DEF FlagTypes, OutsideTypes, InstallerWrites, Tally, memory, thread, network, child,
     outside
<1>22. CASE LeaderExits
  BY <1>22 DEF FlagTypes, OutsideTypes, LeaderExits, memory, thread, network, child, outside
<1>23. CASE GroupEnds
  BY <1>23 DEF FlagTypes, OutsideTypes, GroupEnds, memory, thread, network, child, outside
<1>24. CASE Meddle
  BY <1>24 DEF FlagTypes, OutsideTypes, Meddle, Tally, memory, thread, network, child, outside
<1>25. CASE \E s \in Servers : StartServer(s)
  BY <1>25 DEF FlagTypes, OutsideTypes, StartServer, Excluded, memory, thread, network, child,
     outside
<1>26. CASE \E s \in Servers : StopServer(s)
  BY <1>26 DEF FlagTypes, OutsideTypes, StopServer, memory, thread, network, child, outside
<1> QED BY <1>1, <1>2, <1>3, <1>4, <1>5, <1>6, <1>7, <1>8, <1>9, <1>10, <1>11, <1>12, <1>13, <1>14,
           <1>15, <1>16, <1>17, <1>18, <1>19, <1>20, <1>21, <1>22, <1>23, <1>24, <1>25, <1>26 DEF PackageNext, ManagerStep, ThreadStep
\* The invariant at the start.
LEMMA PackageInvStarts == ASSUME PackageAssumption, PackageInit PROVE PackageInv
<1>1. PackageTypeOK
  BY DEF PackageAssumption, PackageInit, PackageTypeOK
<1>2. LockInv /\ NetworkInv /\ ThreadInv /\ PlansInv /\ Unmeddled /\ SuccessInv
  BY DEF PackageInit, LockInv, NetworkInv, ThreadInv, PlansInv, Unmeddled, SuccessInv, Begun, Before
<1> QED BY <1>1, <1>2 DEF PackageInv

\* Whatever the packages, requirements, indexes, tabs and servers, and whatever interferes: an
\* installer runs alone, on the packages and the plan that were reviewed and confirmed, one thread
\* reads from the network, and a task that has succeeded made the reviewed change and broke no
\* requirement, unless others changed the environment (PluginManager, run_installer, EnvironmentLock).
THEOREM PackagesChangeAsReviewed ==
  ASSUME PackageAssumption
  PROVE  PackageSpec => []PackagesAsReviewed
<1>1. PackageInit => PackageInv
  BY PackageInvStarts
<1>2. PackageInv /\ [PackageNext]_packageVars => PackageInv'
  BY TypeParts, TypePartsNext, OutsideTypesStay, MemoryTypesStay, ReviewTypesStay, ThreadTypesStay, CounterTypesStay,
     FlagTypesStay, LockStays, NetworkStays, ThreadStays, PlansStay, UnmeddledStays, SuccessStays DEF PackageInv
<1>3. PackageInv => PackagesAsReviewed
  <2> SUFFICES ASSUME PackageInv PROVE PackagesAsReviewed
    OBVIOUS
  <2>1. PackageTypeOK /\ InstallersRunAlone
    BY DEF PackageInv, LockInv, InstallersRunAlone
  <2>2. ReviewedIsInstalled
    BY DEF PackageInv, ThreadInv, Unmeddled, Begun, Before, ReviewedIsInstalled
  <2>3. SuccessIsTheReviewedChange
    BY DEF PackageInv, ThreadInv, SuccessInv, Success, SuccessIsTheReviewedChange
  <2>4. OneReader
    BY DEF PackageInv, NetworkInv, OneReader
  <2> QED BY <2>1, <2>2, <2>3, <2>4 DEF PackagesAsReviewed
<1> QED BY <1>1, <1>2, <1>3, PTL DEF PackageSpec

(***************************************************************************)
(* Versions.                                                               *)
(***************************************************************************)

\* What a request waits for, and why it woke.
CallersFit ==
  \A c \in Askers :
    /\ caller[c].at \in {"joined", "woken"} => caller[c].check \in 1 .. begun
    /\ caller[c].at \notin {"joined", "woken"} => caller[c].check = 0
    /\ caller[c].at = "woken" /\ caller[c].finished => Done(caller[c].check)
    /\ caller[c].at = "woken" /\ ~caller[c].finished =>
         clock >= Earlier(caller[c].deadline, check[caller[c].check].deadline)

\* Only the read that has the project's place goes on.
ReadsFit ==
  /\ \A i \in Checks : check[i].state = "none" <=> i > begun
  /\ \A i \in Checks : check[i].state = "reading" => i = current

\* A read that has not been given up has somebody who waits as long as it may take.
Attended ==
  current # 0 /\ ~check[current].discarded =>
    \E c \in Askers : /\ caller[c].at \in {"joined", "woken"} /\ caller[c].check = current
                      /\ caller[c].deadline >= check[current].deadline

TimelyAnswers == Timely(cache.from) /\ \A c \in Askers : Timely(caller[c].result)

ChecksInv == ChecksTypeOK /\ CallersFit /\ ReadsFit /\ Attended /\ TimelyAnswers

CallerRecord(n) == [at : {"idle"} \cup Waiting, deadline : Nat, check : 0 .. n, finished : BOOLEAN, result : 0 .. n]
CheckRecord == [state : {"none", "reading", "read", "raised"}, deadline : Nat,
                discarded : BOOLEAN, completed : Nat, error : BOOLEAN]

\* A request that begins or has its answer.
LEMMA NoRequestFields ==
  ASSUME NEW n \in Nat
  PROVE  /\ \A d \in Nat :
              LET k == [NoRequest EXCEPT !.at = "asking", !.deadline = d] IN
              k \in CallerRecord(n) /\ k.at = "asking" /\ k.check = 0 /\ ~k.finished /\ k.result = 0
         /\ \A x \in 0 .. n : LET k == [NoRequest EXCEPT !.result = x] IN
              k \in CallerRecord(n) /\ k.at = "idle" /\ k.check = 0 /\ ~k.finished /\ k.result = x
<1>1. NoRequest \in CallerRecord(n) /\ NoRequest.check = 0 /\ ~NoRequest.finished /\ NoRequest.result = 0
      /\ NoRequest.at = "idle"
  BY DEF NoRequest, CallerRecord, Waiting, Failed
<1> QED BY <1>1 DEF CallerRecord, Waiting

\* What the parts of the invariant say of a request that waits.
LEMMA ChecksFacts ==
  ASSUME ChecksAssumption, ChecksInv
  PROVE  /\ clock \in Nat /\ begun \in Nat /\ current \in Nat /\ MaxChecks \in Nat
         /\ begun <= MaxChecks /\ current <= begun /\ cache.from \in Nat /\ cache.until \in Nat
         /\ caller \in [Askers -> CallerRecord(begun)] /\ check \in [Checks -> CheckRecord]
         /\ current # 0 => current \in Checks
         /\ \A c \in Askers :
              /\ caller[c].at \in {"joined", "woken"} =>
                   caller[c].check \in Checks /\ caller[c].check \in 1 .. begun
              /\ caller[c].deadline \in Nat /\ caller[c].check \in Nat /\ caller[c].result \in Nat
         /\ \A i \in Checks : check[i].deadline \in Nat
<1>1. /\ clock \in Nat /\ begun \in Nat /\ current \in Nat /\ MaxChecks \in Nat
      /\ begun <= MaxChecks /\ current <= begun /\ cache.from \in Nat /\ cache.until \in Nat
      /\ caller \in [Askers -> CallerRecord(begun)] /\ check \in [Checks -> CheckRecord]
  BY DEF ChecksInv, ChecksTypeOK, ChecksAssumption, CallerRecord, CheckRecord
<1>2. 1 .. begun \subseteq Checks
  BY <1>1 DEF Checks
<1>3. \A c \in Askers : caller[c].at \in {"joined", "woken"} => caller[c].check \in 1 .. begun
  BY DEF ChecksInv, CallersFit
<1>4. \A c \in Askers : caller[c].deadline \in Nat /\ caller[c].check \in Nat /\ caller[c].result \in Nat
  BY <1>1 DEF CallerRecord
<1>5. (current # 0 => current \in Checks) /\ \A i \in Checks : check[i].deadline \in Nat
  BY <1>1 DEF Checks, CheckRecord
<1> QED BY <1>1, <1>2, <1>3, <1>4, <1>5

\* Begin.
LEMMA BeginKeeps ==
  ASSUME ChecksAssumption, ChecksInv, NEW c \in Askers, Begin(c)
  PROVE  ChecksInv'
<1>1. ChecksTypeOK /\ begun \in Nat /\ clock + _CHECK_TIMEOUT \in Nat
  BY DEF ChecksInv, ChecksTypeOK, ChecksAssumption
<1> DEFINE k == [NoRequest EXCEPT !.at = "asking", !.deadline = clock + _CHECK_TIMEOUT]
<1>2. k \in CallerRecord(begun) /\ k.at = "asking" /\ k.check = 0 /\ ~k.finished /\ k.result = 0
  BY <1>1, NoRequestFields
<1>3. caller' = [caller EXCEPT ![c] = k] /\ caller[c].at = "idle" /\ UNCHANGED <<clock, begun, check, current, cache>>
  BY DEF Begin, Put
<1>4. caller \in [Askers -> CallerRecord(begun)]
  BY <1>1 DEF ChecksTypeOK, CallerRecord
<1> HIDE DEF k
<1>5. \A d \in Askers : caller'[d] = IF d = c THEN k ELSE caller[d]
  BY <1>3, <1>4
<1>6. ChecksTypeOK'
  BY <1>1, <1>2, <1>3, <1>4 DEF ChecksTypeOK, CallerRecord
<1>7. CallersFit' /\ ReadsFit'
  BY <1>2, <1>3, <1>5 DEF ChecksInv, CallersFit, ReadsFit, Done
<1>8. Attended'
  BY <1>2, <1>3, <1>5 DEF ChecksInv, Attended
<1>9. TimelyAnswers'
  BY <1>2, <1>3, <1>5 DEF ChecksInv, TimelyAnswers, Timely, Checks
<1> QED BY <1>6, <1>7, <1>8, <1>9 DEF ChecksInv

\* Tick.
LEMMA TickKeeps ==
  ASSUME ChecksAssumption, ChecksInv, Tick
  PROVE  ChecksInv'
<1>1. clock \in Nat /\ clock' = clock + 1 /\ UNCHANGED <<begun, check, current, cache, caller>>
  BY DEF ChecksInv, ChecksTypeOK, Tick
<1>2. ChecksTypeOK'
  BY <1>1 DEF ChecksInv, ChecksTypeOK
<1>3. \A c \in Askers : /\ caller[c].deadline \in Nat
                        /\ caller[c].at \in {"joined", "woken"} => check[caller[c].check].deadline \in Nat
  BY ChecksFacts
<1>4. CallersFit'
  BY <1>1, <1>3 DEF ChecksInv, CallersFit, Done, Earlier
<1>5. ReadsFit' /\ Attended' /\ TimelyAnswers'
  BY <1>1 DEF ChecksInv, ReadsFit, Attended, TimelyAnswers, Timely
<1> QED BY <1>2, <1>4, <1>5 DEF ChecksInv

\* A read that ends.
LEMMA ReadEndsKeeps ==
  ASSUME ChecksAssumption, ChecksInv, NEW i \in Checks, ReadEnds(i)
  PROVE  ChecksInv'
<1>1. PICK s \in {"read", "raised"}, e \in BOOLEAN :
        check' = [check EXCEPT ![i].state = s, ![i].completed = clock, ![i].error = e]
  BY DEF ReadEnds
<1>2. check[i].state = "reading" /\ UNCHANGED <<clock, begun, current, cache, caller>>
  BY DEF ReadEnds
<1>3. check \in [Checks -> CheckRecord] /\ clock \in Nat
  BY DEF ChecksInv, ChecksTypeOK, CheckRecord
<1>4. check' \in [Checks -> CheckRecord]
  <2>1. [check[i] EXCEPT !.state = s, !.completed = clock, !.error = e] \in CheckRecord
    BY <1>3 DEF CheckRecord
  <2>2. check' = [check EXCEPT ![i] = [check[i] EXCEPT !.state = s, !.completed = clock, !.error = e]]
    BY <1>1, <1>3 DEF CheckRecord
  <2> QED BY <1>3, <2>1, <2>2
<1>5. /\ check'[i].state = s
      /\ \A j \in Checks : check'[j].deadline = check[j].deadline /\ check'[j].discarded = check[j].discarded
      /\ \A j \in Checks \ {i} : check'[j] = check[j]
  BY <1>1, <1>3 DEF CheckRecord
<1>6. ChecksTypeOK'
  BY <1>2, <1>4 DEF ChecksInv, ChecksTypeOK, CheckRecord
<1>7. ReadsFit'
  BY <1>2, <1>5 DEF ChecksInv, ReadsFit
<1>8. CallersFit'
  <2> SUFFICES ASSUME NEW c \in Askers, caller[c].at \in {"joined", "woken"}
               PROVE  /\ caller[c].check \in 1 .. begun
                      /\ caller[c].at = "woken" /\ caller[c].finished => Done(caller[c].check)'
                      /\ caller[c].at = "woken" /\ ~caller[c].finished =>
                           clock >= Earlier(caller[c].deadline, check'[caller[c].check].deadline)
    BY <1>2 DEF ChecksInv, CallersFit, Earlier
  <2>1. caller[c].check \in Checks
    BY ChecksFacts
  <2> QED BY <1>2, <1>5, <2>1 DEF ChecksInv, CallersFit, Done
<1>9. current # 0 => current \in Checks
  BY ChecksFacts
<1>10. Attended'
  BY <1>2, <1>5, <1>9 DEF ChecksInv, Attended
<1>11. \A j \in Nat : Timely(j) => Timely(j)'
  BY <1>2, <1>5 DEF Timely
<1>12. TimelyAnswers'
  BY <1>2, <1>11 DEF ChecksInv, TimelyAnswers, ChecksTypeOK
<1> QED BY <1>6, <1>7, <1>8, <1>10, <1>12 DEF ChecksInv

\* A request that stops waiting.
LEMMA WakeKeeps ==
  ASSUME ChecksAssumption, ChecksInv, NEW c \in Askers, Wake(c)
  PROVE  ChecksInv'
<1> DEFINE k == [caller[c] EXCEPT !.at = "woken", !.finished = Done(caller[c].check)]
<1>1. /\ caller' = [caller EXCEPT ![c] = k] /\ caller[c].at = "joined"
      /\ UNCHANGED <<clock, begun, check, current, cache>>
  BY DEF Wake, Put
<1>2. caller \in [Askers -> CallerRecord(begun)]
  BY DEF ChecksInv, ChecksTypeOK, CallerRecord
<1>3. /\ k \in CallerRecord(begun) /\ k.at = "woken" /\ k.finished = Done(caller[c].check)
      /\ k.check = caller[c].check /\ k.deadline = caller[c].deadline /\ k.result = caller[c].result
  <2>1. caller[c] \in CallerRecord(begun) /\ Done(caller[c].check) \in BOOLEAN
    BY <1>2 DEF Done
  <2> QED BY <2>1 DEF CallerRecord, Waiting
<1> HIDE DEF k
<1>4. \A d \in Askers : caller'[d] = IF d = c THEN k ELSE caller[d]
  BY <1>1, <1>2
<1>5. ChecksTypeOK'
  BY <1>1, <1>2, <1>3 DEF ChecksInv, ChecksTypeOK, CallerRecord
<1>6. CallersFit'
  <2>1. ~k.finished => clock >= Earlier(k.deadline, check[k.check].deadline)
    BY <1>3 DEF Wake
  <2>2. k.check \in 1 .. begun
    BY <1>1, <1>3, ChecksFacts
  <2>3. k.finished => check[k.check].state \in {"read", "raised"}
    BY <1>3 DEF Done
  <2>4. ASSUME NEW d \in Askers
        PROVE  /\ caller'[d].at \in {"joined", "woken"} => caller'[d].check \in 1 .. begun
               /\ caller'[d].at \notin {"joined", "woken"} => caller'[d].check = 0
               /\ caller'[d].at = "woken" /\ caller'[d].finished =>
                    check[caller'[d].check].state \in {"read", "raised"}
               /\ caller'[d].at = "woken" /\ ~caller'[d].finished =>
                    clock >= Earlier(caller'[d].deadline, check[caller'[d].check].deadline)
    <3>1. CASE d = c
      BY <1>3, <1>4, <2>1, <2>2, <2>3, <3>1
    <3>2. CASE d # c
      BY <1>4, <3>2 DEF ChecksInv, CallersFit, Done
    <3> QED BY <3>1, <3>2
  <2> QED BY <1>1, <2>4 DEF CallersFit, Done
<1>7. ReadsFit'
  BY <1>1 DEF ChecksInv, ReadsFit
<1>8. Attended'
  BY <1>1, <1>3, <1>4 DEF ChecksInv, Attended
<1>9. TimelyAnswers'
  BY <1>1, <1>3, <1>4 DEF ChecksInv, TimelyAnswers, Timely
<1> QED BY <1>5, <1>6, <1>7, <1>8, <1>9 DEF ChecksInv

\* A request that finds a cached answer, joins the read under way or begins one.
LEMMA VersionCheckKeeps ==
  ASSUME ChecksAssumption, ChecksInv, NEW c \in Askers, _version_check(c)
  PROVE  ChecksInv'
<1>1. /\ clock \in Nat /\ begun \in Nat /\ current \in Nat /\ begun <= MaxChecks /\ current <= begun
      /\ caller \in [Askers -> CallerRecord(begun)] /\ check \in [Checks -> CheckRecord]
      /\ caller[c].at = "asking" /\ clock' = clock
  BY ChecksFacts DEF _version_check
<1>3. ASSUME NEW x \in 0 .. begun, Told(c, x), Timely(x), begun' = begun, check' = check,
             current' \in {current, 0}, \/ current' = current
                                       \/ \A i \in Checks : check[i].state # "reading",
             cache' \in [until : Nat, from : {cache.from, 0}]
      PROVE  ChecksInv'
  <2> DEFINE k == [NoRequest EXCEPT !.result = x]
  <2>1. k \in CallerRecord(begun) /\ k.at = "idle" /\ k.check = 0 /\ ~k.finished /\ k.result = x
    BY <1>1, <1>3, NoRequestFields
  <2>2. caller' = [caller EXCEPT ![c] = k]
    BY <1>3 DEF Told, Put
  <2> HIDE DEF k
  <2>3. \A d \in Askers : caller'[d] = IF d = c THEN k ELSE caller[d]
    BY <2>2, <1>1
  <2>4. cache'.from \in {cache.from, 0} /\ cache.from \in 0 .. begun
    BY <1>3 DEF ChecksInv, ChecksTypeOK
  <2>5. ChecksTypeOK'
    BY <1>1, <1>3, <2>1, <2>2, <2>4 DEF ChecksInv, ChecksTypeOK, CallerRecord
  <2>6. CallersFit' /\ ReadsFit'
    BY <1>1, <1>3, <2>1, <2>3 DEF ChecksInv, CallersFit, ReadsFit, Done
  <2>7. Attended'
    BY <1>1, <1>3, <2>1, <2>3 DEF ChecksInv, Attended
  <2>8. TimelyAnswers'
    BY <1>1, <1>3, <2>1, <2>3, <2>4 DEF ChecksInv, TimelyAnswers, Timely, Checks
  <2> QED BY <2>5, <2>6, <2>7, <2>8 DEF ChecksInv
<1>4. CASE cache.until > clock /\ Told(c, cache.from) /\ UNCHANGED <<begun, check, current, cache>>
  <2>1. cache \in [until : Nat, from : 0 .. begun] /\ Timely(cache.from)
    BY DEF ChecksInv, ChecksTypeOK, TimelyAnswers
  <2> QED BY <1>3, <1>4, <2>1
<1>5. CASE /\ ~Free(current) /\ Put(c, [caller[c] EXCEPT !.at = "joined", !.check = current])
           /\ UNCHANGED <<begun, check, current, cache>>
  <2> DEFINE k == [caller[c] EXCEPT !.at = "joined", !.check = current]
  <2>1. current \in 1 .. begun
    BY <1>1, <1>5 DEF Free, Checks
  <2>2. /\ k \in CallerRecord(begun) /\ k.at = "joined" /\ k.check = current
        /\ k.deadline = caller[c].deadline /\ k.result = caller[c].result
    <3>1. caller[c] \in CallerRecord(begun) /\ current \in 0 .. begun
      BY <1>1
    <3> QED BY <3>1 DEF CallerRecord, Waiting
  <2>3. caller' = [caller EXCEPT ![c] = k]
    BY <1>5 DEF Put
  <2> HIDE DEF k
  <2>4. \A d \in Askers : caller'[d] = IF d = c THEN k ELSE caller[d]
    BY <2>3, <1>1
  <2>5. ChecksTypeOK'
    BY <1>1, <1>5, <2>2, <2>3 DEF ChecksInv, ChecksTypeOK, CallerRecord
  <2>6. CallersFit' /\ ReadsFit'
    BY <1>1, <1>5, <2>1, <2>2, <2>4 DEF ChecksInv, CallersFit, ReadsFit, Done
  <2>7. Attended'
    BY <1>1, <1>5, <2>2, <2>4 DEF ChecksInv, Attended
  <2>8. TimelyAnswers'
    BY <1>1, <1>5, <2>2, <2>4 DEF ChecksInv, TimelyAnswers, Timely
  <2> QED BY <2>5, <2>6, <2>7, <2>8 DEF ChecksInv
<1>6. ASSUME Free(current), NEW i \in Checks
      PROVE  check[i].state # "reading"
  BY <1>6 DEF ChecksInv, ReadsFit, Free, Done
<1>7. CASE /\ Free(current) /\ current' = 0 /\ UNCHANGED <<begun, check>>
           /\ cache' = [until |-> clock + WrongFor, from |-> Failed] /\ Told(c, Failed)
  <2>1. Timely(0) /\ 0 \in 0 .. begun
    BY <1>1 DEF Timely, Checks
  <2>2. cache' \in [until : Nat, from : {cache.from, 0}]
    BY <1>1, <1>7 DEF ChecksAssumption, Failed
  <2> QED BY <1>3, <1>6, <1>7, <2>1, <2>2 DEF Failed
<1>8. CASE /\ Free(current) /\ begun < MaxChecks
           /\ begun' = begun + 1 /\ current' = begun + 1
           /\ check' = [check EXCEPT ![begun + 1] =
                          [NoCheck EXCEPT !.state = "reading", !.deadline = caller[c].deadline]]
           /\ Put(c, [caller[c] EXCEPT !.at = "joined", !.check = begun + 1])
           /\ UNCHANGED cache
  <2> DEFINE new == begun + 1
             k == [caller[c] EXCEPT !.at = "joined", !.check = new]
             read == [NoCheck EXCEPT !.state = "reading", !.deadline = caller[c].deadline]
  <2>1. new \in Checks /\ new \in 1 .. new /\ 0 .. begun \subseteq 0 .. new /\ new \in Nat
    BY <1>1, <1>8, ChecksFacts DEF Checks
  <2>2. /\ k \in CallerRecord(new) /\ k.at = "joined" /\ k.check = new
        /\ k.deadline = caller[c].deadline /\ k.result = caller[c].result /\ k.deadline \in Nat
    <3>1. caller[c] \in CallerRecord(begun) /\ new \in 0 .. new
      BY <1>1, <2>1
    <3> QED BY <3>1, <2>1 DEF CallerRecord, Waiting
  <2>3. read \in CheckRecord /\ read.state = "reading" /\ read.deadline = k.deadline
    <3>1. NoCheck \in CheckRecord
      BY DEF NoCheck, CheckRecord
    <3> QED BY <3>1, <2>2 DEF CheckRecord
  <2>4. caller' = [caller EXCEPT ![c] = k] /\ check' = [check EXCEPT ![new] = read]
    BY <1>8 DEF Put
  <2>5. begun' = new /\ current' = new /\ cache' = cache
    BY <1>8
  <2>6. check[new].state = "none"
    BY <1>1, <2>1 DEF ChecksInv, ReadsFit
  <2> HIDE DEF k, read
  <2>7. /\ \A d \in Askers : caller'[d] = IF d = c THEN k ELSE caller[d]
        /\ \A j \in Checks : check'[j] = IF j = new THEN read ELSE check[j]
    BY <1>1, <2>4
  <2>8. ChecksTypeOK'
    <3>1. caller' \in [Askers -> CallerRecord(new)]
      <4>1. \A d \in Askers : caller[d] \in CallerRecord(new)
        BY <1>1, <2>1 DEF CallerRecord
      <4> QED BY <1>1, <2>2, <2>4, <4>1
    <3>2. check' \in [Checks -> CheckRecord]
      BY <1>1, <2>3, <2>4
    <3>3. cache \in [until : Nat, from : 0 .. new]
      BY <2>1 DEF ChecksInv, ChecksTypeOK
    <3>4. new <= MaxChecks
      BY <1>1, <1>8, ChecksFacts
    <3> HIDE DEF new
    <3> QED BY <1>1, <2>1, <2>5, <3>1, <3>2, <3>3, <3>4 DEF ChecksTypeOK, CallerRecord, CheckRecord
  <2>9. ReadsFit'
    <3>1. \A j \in Checks : check'[j].state = "none" <=> j > new
      BY <1>1, <2>3, <2>7 DEF ChecksInv, ReadsFit, Checks
    <3>2. \A j \in Checks : check'[j].state = "reading" => j = new
      BY <1>6, <1>8, <2>7
    <3> QED BY <2>5, <3>1, <3>2 DEF ReadsFit
  <2>10. CallersFit'
    <3> SUFFICES ASSUME NEW d \in Askers
                 PROVE  /\ caller'[d].at \in {"joined", "woken"} => caller'[d].check \in 1 .. new
                        /\ caller'[d].at \notin {"joined", "woken"} => caller'[d].check = 0
                        /\ caller'[d].at = "woken" /\ caller'[d].finished =>
                             check'[caller'[d].check].state \in {"read", "raised"}
                        /\ caller'[d].at = "woken" /\ ~caller'[d].finished =>
                             clock >= Earlier(caller'[d].deadline, check'[caller'[d].check].deadline)
      BY <1>1, <2>5 DEF CallersFit, Done
    <3>1. CASE d = c
      BY <2>1, <2>2, <2>7, <3>1
    <3>2. CASE d # c
      <4>1. caller'[d] = caller[d]
        BY <2>7, <3>2
      <4>2. CASE caller[d].at \in {"joined", "woken"}
        <5>1. caller[d].check \in Checks /\ caller[d].check \in 1 .. begun
          BY <4>2, ChecksFacts
        <5>2. check'[caller[d].check] = check[caller[d].check] /\ caller[d].check \in 1 .. new
          BY <1>1, <2>7, <5>1
        <5> QED BY <4>1, <4>2, <5>2 DEF ChecksInv, CallersFit, Done
      <4>3. CASE caller[d].at \notin {"joined", "woken"}
        BY <4>1, <4>3 DEF ChecksInv, CallersFit
      <4> QED BY <4>2, <4>3
    <3> QED BY <3>1, <3>2
  <2>11. Attended'
    <3>1. check'[new] = read /\ caller'[c] = k
      BY <2>1, <2>7
    <3>2. k.deadline >= read.deadline
      BY <2>2, <2>3
    <3> QED BY <2>2, <2>5, <3>1, <3>2 DEF Attended
  <2>12. TimelyAnswers'
    <3>1. \A j \in Nat : Timely(j) => Timely(j)'
      BY <2>6, <2>7 DEF Timely
    <3>2. \A d \in Askers : caller'[d].result = caller[d].result
      BY <2>2, <2>7
    <3>3. \A d \in Askers : Timely(caller[d].result) /\ caller[d].result \in Nat
      BY ChecksFacts DEF ChecksInv, TimelyAnswers
    <3>4. Timely(cache.from) /\ cache.from \in Nat
      BY ChecksFacts DEF ChecksInv, TimelyAnswers
    <3> QED BY <2>5, <3>1, <3>2, <3>3, <3>4 DEF TimelyAnswers
  <2> QED BY <2>8, <2>9, <2>10, <2>11, <2>12 DEF ChecksInv
<1> QED BY <1>4, <1>5, <1>7, <1>8 DEF _version_check

\* A request that takes what was read, or gives up.
LEMMA VersionResultKeeps ==
  ASSUME ChecksAssumption, ChecksInv, NEW c \in Askers, _version_result(c)
  PROVE  ChecksInv'
<1> DEFINE i == caller[c].check
           ended == caller[c].finished
           result == IF ended /\ check[i].state = "read" /\ InTime(check[i]) /\ ~check[i].error
                     THEN i ELSE Failed
           early == ~ended /\ clock < check[i].deadline
           discarded == ~ended \/ (check[i].state = "read" /\ ~InTime(check[i])) \/ check[i].discarded
           k == [NoRequest EXCEPT !.result = result]
<1>1. /\ caller[c].at = "woken" /\ Told(c, result) /\ UNCHANGED <<clock, begun>>
      /\ early => UNCHANGED <<check, cache, current>>
      /\ ~early =>
           /\ check' = [check EXCEPT ![i].discarded = discarded]
           /\ cache' = [until |-> clock + (IF result = Failed THEN WrongFor ELSE FreshFor), from |-> result]
              \/ cache' = cache
           /\ current' = IF ended /\ current = i THEN 0 ELSE current
  BY Zenon DEF _version_result
<1>2. /\ clock \in Nat /\ begun \in Nat /\ current \in Nat /\ begun <= MaxChecks /\ current <= begun
      /\ caller \in [Askers -> CallerRecord(begun)] /\ check \in [Checks -> CheckRecord]
      /\ i \in Checks /\ i \in 1 .. begun /\ caller[c].deadline \in Nat /\ check[i].deadline \in Nat
  BY <1>1, ChecksFacts
<1>3. result \in 0 .. begun /\ Timely(result)
  BY <1>2 DEF Failed, Timely, InTime, Checks
<1>4. caller' = [caller EXCEPT ![c] = k]
  BY <1>1 DEF Told, Put
<1>5. k \in CallerRecord(begun) /\ k.at = "idle" /\ k.check = 0 /\ ~k.finished /\ k.result = result
  BY <1>2, <1>3, NoRequestFields
<1>6. early \/ ended \/ discarded
  OBVIOUS
<1>7. ended => Done(i)
  BY <1>1 DEF ChecksInv, CallersFit
<1>8. ~ended => clock >= Earlier(caller[c].deadline, check[i].deadline)
  BY <1>1 DEF ChecksInv, CallersFit
<1>9. discarded \in BOOLEAN
  OBVIOUS
<1>10. /\ check' \in [Checks -> CheckRecord]
       /\ \A j \in Checks : /\ check'[j].state = check[j].state /\ check'[j].deadline = check[j].deadline
                             /\ check'[j].error = check[j].error /\ check'[j].completed = check[j].completed
                             /\ check'[j].discarded = IF j = i /\ ~early THEN discarded ELSE check[j].discarded
  <2>1. CASE early
    BY <1>1, <1>2, <2>1
  <2>2. CASE ~early
    <3> HIDE DEF i, discarded, early
    <3>1. [check[i] EXCEPT !.discarded = discarded] \in CheckRecord
      BY <1>2, <1>9 DEF CheckRecord
    <3>2. check' = [check EXCEPT ![i] = [check[i] EXCEPT !.discarded = discarded]]
      BY <1>1, <1>2, <2>2 DEF CheckRecord
    <3> QED BY <1>2, <2>2, <3>1, <3>2 DEF CheckRecord
  <2> QED BY <2>1, <2>2
<1>11. current' \in {current, 0} /\ (current' = current \/ (ended /\ current = i))
  BY <1>1
<1>12. cache' \in [until : Nat, from : {cache.from, result}]
  <2>1. cache \in [until : Nat, from : {cache.from}]
    BY DEF ChecksInv, ChecksTypeOK
  <2> HIDE DEF result, early, discarded
  <2> QED BY <1>1, <1>2, <2>1 DEF ChecksAssumption
<1>13. cache'.from \in {cache.from, result} /\ cache.from \in 0 .. begun /\ begun' = begun /\ clock' = clock
  BY <1>1, <1>12 DEF ChecksInv, ChecksTypeOK
<1>14. early => i # current \/ caller[c].deadline < check[i].deadline
  BY <1>1, <1>2, <1>8 DEF Earlier
<1> HIDE DEF i, result, early, discarded, k, ended
<1>15. \A d \in Askers : caller'[d] = IF d = c THEN k ELSE caller[d]
  BY <1>2, <1>4
<1>16. ChecksTypeOK'
  BY <1>2, <1>3, <1>4, <1>5, <1>10, <1>11, <1>12, <1>13 DEF ChecksTypeOK, CallerRecord, CheckRecord
<1>17. ReadsFit'
  <2>1. \A j \in Checks : check[j].state = "reading" => j = current'
    BY <1>7, <1>11 DEF ChecksInv, ReadsFit, Done
  <2> QED BY <1>10, <1>13, <2>1 DEF ChecksInv, ReadsFit
<1>18. CallersFit'
  <2> SUFFICES ASSUME NEW d \in Askers
               PROVE  /\ caller'[d].at \in {"joined", "woken"} => caller'[d].check \in 1 .. begun
                      /\ caller'[d].at \notin {"joined", "woken"} => caller'[d].check = 0
                      /\ caller'[d].at = "woken" /\ caller'[d].finished =>
                             check'[caller'[d].check].state \in {"read", "raised"}
                      /\ caller'[d].at = "woken" /\ ~caller'[d].finished =>
                           clock >= Earlier(caller'[d].deadline, check'[caller'[d].check].deadline)
    BY <1>13 DEF CallersFit, Done
  <2>1. CASE d = c
    BY <1>5, <1>15, <2>1
  <2>2. CASE d # c
    <3>1. caller'[d] = caller[d]
      BY <1>15, <2>2
    <3>2. CASE caller[d].at \in {"joined", "woken"}
      <4>1. caller[d].check \in Checks
        BY <3>2, ChecksFacts
      <4> QED BY <1>10, <3>1, <3>2, <4>1 DEF ChecksInv, CallersFit, Done
    <3>3. CASE caller[d].at \notin {"joined", "woken"}
      BY <3>1, <3>3 DEF ChecksInv, CallersFit
    <3> QED BY <3>2, <3>3
  <2> QED BY <2>1, <2>2
<1>19. Attended'
  <2> SUFFICES ASSUME current' # 0, ~check'[current'].discarded
               PROVE  \E d \in Askers : /\ caller'[d].at \in {"joined", "woken"}
                                         /\ caller'[d].check = current'
                                         /\ caller'[d].deadline >= check'[current'].deadline
    BY DEF Attended
  <2>1. current' = current /\ current \in Checks
    BY <1>11, ChecksFacts
  <2>2. ~check[current].discarded
    <3>1. CASE current = i /\ ~early
      <4>1. ~discarded
        BY <1>10, <2>1, <3>1
      <4>2. ~check[i].discarded
        BY <4>1 DEF discarded
      <4> QED BY <3>1, <4>2
    <3>2. CASE current # i \/ early
      BY <1>10, <2>1, <3>2
    <3> QED BY <3>1, <3>2
  <2>3. PICK d \in Askers : /\ caller[d].at \in {"joined", "woken"} /\ caller[d].check = current
                            /\ caller[d].deadline >= check[current].deadline
    BY <2>1, <2>2 DEF ChecksInv, Attended
  <2>4. d # c
    <3> SUFFICES ASSUME d = c PROVE FALSE
      OBVIOUS
    <3>1. i = current /\ caller[c].deadline >= check[i].deadline
      BY <2>3 DEF i
    <3>2. CASE early
      BY <1>2, <1>14, <3>1, <3>2
    <3>3. CASE ~early /\ ended
      BY <1>1, <2>1, <3>1, <3>3
    <3>4. CASE ~early /\ ~ended
      <4>1. discarded
        BY <3>4 DEF discarded
      <4> QED BY <1>10, <2>1, <3>1, <3>4, <4>1
    <3> QED BY <3>2, <3>3, <3>4
  <2> QED BY <1>10, <1>15, <2>1, <2>3, <2>4
<1>20. TimelyAnswers'
  <2>1. \A j \in Nat : Timely(j) => Timely(j)'
    BY <1>10 DEF Timely
  <2>2. \A d \in Askers : Timely(caller'[d].result) /\ caller'[d].result \in Nat
    <3>1. \A d \in Askers : Timely(caller[d].result) /\ caller[d].result \in Nat
      BY ChecksFacts DEF ChecksInv, TimelyAnswers
    <3> QED BY <1>2, <1>3, <1>5, <1>15, <3>1
  <2>3. Timely(cache'.from) /\ cache'.from \in Nat
    BY <1>2, <1>3, <1>13 DEF ChecksInv, TimelyAnswers
  <2> QED BY <2>1, <2>2, <2>3 DEF TimelyAnswers
<1> QED BY <1>16, <1>17, <1>18, <1>19, <1>20 DEF ChecksInv

\* The invariant at the start.
LEMMA ChecksInvStarts == ASSUME ChecksAssumption, ChecksInit PROVE ChecksInv
<1>1. NoRequest \in CallerRecord(0) /\ NoCheck \in CheckRecord
  BY DEF NoRequest, NoCheck, CallerRecord, CheckRecord, Waiting, Failed
<1>2. ChecksTypeOK
  BY <1>1 DEF ChecksInit, ChecksTypeOK, CallerRecord, CheckRecord, Failed, ChecksAssumption
<1>3. CallersFit /\ Attended
  BY DEF ChecksInit, CallersFit, Attended, NoRequest
<1>4. ReadsFit
  BY DEF ChecksInit, ReadsFit, NoCheck, Checks, ChecksAssumption
<1>5. TimelyAnswers
  BY DEF ChecksInit, TimelyAnswers, Timely, Checks, NoRequest, Failed
<1> QED BY <1>2, <1>3, <1>4, <1>5 DEF ChecksInv

\* And after every step.
LEMMA ChecksInvStays == ASSUME ChecksAssumption, ChecksInv, [ChecksNext]_checkVars PROVE ChecksInv'
<1>1. CASE UNCHANGED checkVars
  BY <1>1 DEF checkVars, ChecksInv, ChecksTypeOK, CallersFit, ReadsFit, Attended, TimelyAnswers, Timely, Done,
              Earlier
<1> QED BY <1>1, TickKeeps, ReadEndsKeeps, BeginKeeps, VersionCheckKeeps, WakeKeeps, VersionResultKeeps
        DEF ChecksNext

\* Whatever the number of requests, the time limits and the order of reads and answers, one thread
\* reads, a late answer is neither shown nor kept, and no read keeps the place of the project when
\* nobody waits for it (settings_updates._version_check, _version_result).
THEOREM LateAnswersNeverCount ==
  ASSUME ChecksAssumption
  PROVE  ChecksSpec => []LateAnswersAreDropped
<1>1. ChecksInit => ChecksInv
  BY ChecksInvStarts
<1>2. ChecksInv /\ [ChecksNext]_checkVars => ChecksInv'
  BY ChecksInvStays
<1>3. ChecksInv => LateAnswersAreDropped
  <2> SUFFICES ASSUME ChecksInv PROVE LateAnswersAreDropped
    OBVIOUS
  <2>1. OneRead
    BY DEF ChecksInv, ReadsFit, OneRead
  <2>2. NothingStuck
    BY DEF ChecksInv, Attended, NothingStuck, Checks
  <2> QED BY <2>1, <2>2 DEF ChecksInv, TimelyAnswers, LateAnswersAreDropped
<1> QED BY <1>1, <1>2, <1>3, PTL DEF ChecksSpec
===============================================================================
