------------------------------ MODULE MCControl ------------------------------
(***************************************************************************)
(* The supervisor process, the channel it shares with its worker, its      *)
(* package manager and the look for new versions, which the code keeps     *)
(* apart: a behaviour is one of part, and the others stay where they       *)
(* start.  The instance: two package or recovery requests, two faults and  *)
(* a session change; two pages that ask the supervisor through the worker, *)
(* which gets one command; two tabs that plan a change to a package, one   *)
(* of which needs the other and, in its newer version, an extra of it; two *)
(* requests that look for versions.                                        *)
(***************************************************************************)
EXTENDS Supervisor, ControlChannel, PackageManager, VersionChecks, TLC

CONSTANTS launcher, page, p, q, r, core, ai, cli

VARIABLE part

ASSUME SupervisorAssumption /\ ChannelAssumption /\ PackageAssumption /\ ChecksAssumption

Callers == p :> launcher @@ q :> page @@ r :> page

CoreNeeds == {
  [of |-> ai, version |-> 1, extra |-> "", on |-> cli, accepts |-> {1, 2}, extras |-> {}],
  [of |-> ai, version |-> 2, extra |-> "", on |-> cli, accepts |-> {1, 2}, extras |-> {"x"}],
  [of |-> cli, version |-> 1, extra |-> "x", on |-> core, accepts |-> {2}, extras |-> {}]}
File(v, withdrawn) == [version |-> v, stable |-> TRUE, yanked |-> withdrawn, rank |-> 1]
TwoIndexes == {{File(2, FALSE)}, {File(2, TRUE), File(1, FALSE)}}
OneFound == {core :> 1 @@ ai :> 1 @@ cli :> 1}

Init ==
  /\ part \in {"supervisor", "channel", "packages", "versions"}
  /\ SupervisorInit /\ ChannelInit /\ ChecksInit
  /\ PackageInit /\ (part # "packages" => tool = "pip")

Next ==
  /\ UNCHANGED part
  /\ \/ part = "supervisor" /\ SupervisorNext /\ UNCHANGED <<channelVars, packageVars, checkVars>>
     \/ part = "channel" /\ ChannelNext /\ UNCHANGED <<supervisorVars, packageVars, checkVars>>
     \/ part = "packages" /\ PackageNext /\ UNCHANGED <<supervisorVars, channelVars, checkVars>>
     \/ part = "versions" /\ ChecksNext /\ UNCHANGED <<supervisorVars, channelVars, packageVars>>

Spec == Init /\ [][Next]_<<part, supervisorVars, channelVars, packageVars, checkVars>>

Symmetric == Permutations(Workers) \cup Permutations({q, r})
=============================================================================
