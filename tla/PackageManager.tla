---------------------------- MODULE PackageManager ----------------------------
(***************************************************************************)
(* Changing the packages of the Python environment the web server runs in: *)
(* plugin_management.py and what it is built on (plugin_environment.py,    *)
(* plugin_updates.py, plugin_process.py), in a maintenance server or under *)
(* the supervisor (supervised_plugins.py, whose part with the workers is   *)
(* in Supervisor).                                                         *)
(*                                                                         *)
(* A page has a change planned, which reviews the installed packages, and  *)
(* executes the plan it was shown.  A thread of the manager then runs an   *)
(* installer, a process of its own, on the packages.  Other servers share  *)
(* the environment, other tools may change it at any time, the network is  *)
(* slow, installers hang, leave processes behind and do half of their      *)
(* work, and the manager may die.  What an installer writes is left open.  *)
(***************************************************************************)
EXTENDS Naturals, FiniteSets

CONSTANTS
  Names,       (* distributions                                             *)
  Components,  (* COMPONENT_DISTRIBUTIONS                                   *)
  Required,    (* distributions without which nothing can be read           *)
  Newest,      (* versions are 1 .. Newest; 0 is a package that is absent   *)
  Needs,       (* requirements: [of, version, extra, on, accepts, extras]   *)
  Indexes,     (* what the index may list of a component: sets of files     *)
  Found,       (* environments to begin with: versions of the distributions  *)
  Tools,       (* installation tools there may be                           *)
  Tabs,        (* pages                                                     *)
  Servers,     (* other servers in the environment                          *)
  MaxPlans, MaxChanges, MaxWrites, MaxStarts   (* bounds *)

Versions == 0 .. Newest

\* MCControl checks this of its instance.
PackageAssumption ==
  /\ Components \subseteq Names /\ Required \subseteq Names \ Components
  /\ Newest \in Nat
  /\ Found \subseteq [Names -> Versions] /\ Tools \subseteq {"pip", "uv"}
  /\ \A r \in Needs : r.of \in Names /\ r.on \in Names /\ r.accepts \subseteq 1 .. Newest
  /\ \A files \in Indexes : \A f \in files : f.version \in 1 .. Newest

VARIABLES
  packages,         (* the version of each distribution in the environment   *)
  tool,             (* its installation tool, or "none"                      *)
  server,           (* "off", "locked" or "unlocked"                         *)
  keeper,           (* the manager, likewise                                 *)
  supervised,       (* it is a SupervisedPluginManager                       *)
  environment,      (* the tool it knows of                                  *)
  restart_required,
  stage,            (* phase of the supervised manager                       *)
  plan, expired,    (* {} or the one plan, and whether its time is over      *)
  reviewing,        (* {} or the update whose review waits for the network   *)
  shown,            (* the plan each tab was shown                           *)
  step,             (* where the operation's thread is                       *)
  operation,        (* the plan it executes, and                             *)
  confirmed,        (* the one that the tab which asked for it was shown     *)
  outcome,          (* exit status of the installer, or the verified result  *)
  reported,         (* the status of _task                                   *)
  finished,         (* _package_status                                       *)
  unclean,          (* _installer_cleanup is set                             *)
  slot, reads,      (* _NETWORK_SLOT is taken; threads that read             *)
  installer,        (* "none", "running", or the exit status of its leader   *)
  group,            (* a process of its group is alive                       *)
  meddled,          (* ghost: others changed the environment since the last  *)
                    (* look before the installer, and since the last look    *)
  used              (* plans, changes, writes and starts so far              *)

memory == <<environment, restart_required, stage, plan, expired, reviewing>>
thread == <<step, operation, confirmed, outcome, reported, finished>>
network == <<slot, reads>>
child == <<installer, group, unclean>>
outside == <<packages, tool, server, meddled>>
packageVars ==
  <<memory, thread, network, child, outside, keeper, supervised, shown, used>>

Tally(what) == used' = [used EXCEPT ![what] = @ + 1]

-----------------------------------------------------------------------------
(* Installed packages and what they require                                *)

Readable == \A n \in Required : packages[n] # 0

Requirements(p) == {r \in Needs : p[r.of] = r.version}

\* Extras are not installed-state facts.
required_by(c, p) == {n \in Names \ {c} : \E r \in Requirements(p) : r.of = n /\ r.on = c /\ r.extra = ""}

Met(p, r) == p[r.on] \in r.accepts

\* The packages and the extras that are requested of them, directly or through others.
Requested(p) ==
  LET closed(S) == \A r \in Requirements(p) :
                     (r.extra = "" \/ <<r.of, r.extra>> \in S) /\ Met(p, r)
                       => \A e \in r.extras : <<r.on, e>> \in S
      extras == {r.extra : r \in Needs} \cup (UNION {r.extras : r \in Needs})
  IN  {x \in Names \X extras : \A S \in SUBSET (Names \X extras) : closed(S) => x \in S}

dependency_conflicts(p) ==
  {r \in Requirements(p) : (r.extra = "" \/ <<r.of, r.extra>> \in Requested(p)) /\ ~Met(p, r)}

_latest_stable(files) ==
  {f.version : f \in {g \in files : g.stable /\ ~g.yanked /\ \A h \in files :
                        h.stable /\ ~h.yanked => h.version <= g.version}}

\* Of the wheels of that version, the one that suits the interpreter best; rank 0 is none that does.
_select_wheel(files, latest) ==
  {f \in files : /\ f.version = latest /\ ~f.yanked /\ f.rank # 0
                 /\ \A g \in files : g.version = latest /\ ~g.yanked /\ g.rank # 0 => f.rank <= g.rank}

\* The version that an update of c leads to, if there is one and it fits the other packages.
_prepare_update(c, p, files) ==
  {v \in _latest_stable(files) :
     v > p[c] /\ _select_wheel(files, v) # {} /\ dependency_conflicts([p EXCEPT ![c] = v]) = {}}

-----------------------------------------------------------------------------
(* The lock of the environment.  Processes that the manager starts inherit  *)
(* it and keep it as long as they live.                                     *)

Excluded == keeper = "locked" \/ group

\* A server that could not manage the environment starts without the lock.
StartServer(s) ==
  /\ server[s] = "off"
  /\ \/ tool = "none" /\ server' = [server EXCEPT ![s] = "unlocked"]
     \/ tool # "none" /\ ~Excluded /\ server' = [server EXCEPT ![s] = "locked"]
  /\ UNCHANGED <<memory, thread, network, child, packages, tool, meddled, keeper, supervised, shown, used>>

StopServer(s) ==
  /\ server[s] # "off"
  /\ server' = [server EXCEPT ![s] = "off"]
  /\ UNCHANGED <<memory, thread, network, child, packages, tool, meddled, keeper, supervised, shown, used>>

\* Another tool installs, removes or replaces a package, or the installation tool.
Meddle ==
  /\ used.changes < MaxChanges
  /\ \/ \E n \in Names : \E v \in Versions \ {packages[n]} :
          packages' = [packages EXCEPT ![n] = v] /\ UNCHANGED tool
     \/ \E t \in (Tools \cup {"none"}) \ {tool} : tool' = t /\ UNCHANGED packages
  /\ meddled' = [before |-> TRUE, after |-> TRUE]
  /\ Tally("changes")
  /\ UNCHANGED <<memory, thread, network, child, server, keeper, supervised, shown>>

\* A manager that does not get the lock keeps the reason for its lifetime.
StartManager ==
  /\ keeper = "off" /\ used.starts < MaxStarts
  /\ supervised' \in BOOLEAN
  /\ keeper' = IF Excluded \/ \E s \in Servers : server[s] = "locked" THEN "unlocked" ELSE "locked"
  /\ environment' = tool /\ restart_required' = FALSE /\ stage' = "ready"
  /\ plan' = {} /\ expired' = FALSE /\ reviewing' = {}
  /\ shown' = [t \in Tabs |-> {}]
  /\ Tally("starts")
  /\ UNCHANGED <<thread, network, child, outside>>

Forgotten ==
  /\ keeper' = "off"
  /\ step' = "idle" /\ operation' = {} /\ confirmed' = {} /\ outcome' = "none"
  /\ reported' = "none" /\ finished' = "failed" /\ unclean' = FALSE
  /\ slot' = FALSE /\ reads' = 0

\* stop joins the operation and retries the cleanup; where that fails the manager ends with the error.
StopManager ==
  /\ keeper # "off" /\ step = "idle" /\ reviewing = {}
  /\ Forgotten
  /\ \/ unclean /\ group' = FALSE /\ installer' = "none"
     \/ UNCHANGED <<group, installer>>
  /\ UNCHANGED <<memory, outside, supervised, shown, used>>

\* The manager's process dies; the installer's processes live on.
LoseManager ==
  /\ keeper # "off"
  /\ Forgotten
  /\ reviewing' = {}
  /\ UNCHANGED <<environment, restart_required, stage, plan, expired, installer, group, outside,
       supervised, shown, used>>

-----------------------------------------------------------------------------
(* Plans.  The manager's lock is held while an update is reviewed.          *)

Available ==
  /\ keeper = "locked" /\ reviewing = {}
  /\ environment # "none" /\ ~restart_required /\ ~unclean /\ reported # "running"
  /\ supervised => stage = "ready"

Planned(tab, c, action, version, p, found) ==
  LET new == [id |-> used'.plans, component |-> c, action |-> action, version |-> version,
              snapshot |-> p, tool |-> found]
  IN  /\ plan' = {new} /\ expired' = FALSE /\ environment' = found
      /\ shown' = [shown EXCEPT ![tab] = {new}]

_review_action(c, action) ==
  CASE action = "install" -> packages[c] = 0
    [] action = "uninstall" -> packages[c] # 0 /\ required_by(c, packages) = {}
    [] action = "update" -> packages[c] # 0

\* _review_environment and _review_action; an update takes the network slot.
Review(tab, c, action) ==
  /\ Available /\ used.plans < MaxPlans
  /\ tool # "none" /\ Readable /\ _review_action(c, action)
  /\ Tally("plans")
  /\ IF action = "update"
     THEN /\ ~slot /\ slot' = TRUE /\ reads' = reads + 1
          /\ reviewing' = {[component |-> c, snapshot |-> packages, tool |-> tool, tab |-> tab]}
          /\ UNCHANGED <<plan, expired, environment, shown>>
     ELSE Planned(tab, c, action, 0, packages, tool) /\ UNCHANGED <<network, reviewing>>
  /\ UNCHANGED <<restart_required, stage, thread, child, outside, keeper, supervised>>

\* The index was read in time.  A rejected review leaves the earlier plan as it is.
ReviewEnds ==
  /\ reviewing # {}
  /\ slot' = FALSE /\ reads' = reads - 1 /\ reviewing' = {} /\ UNCHANGED used
  /\ \/ \E r \in reviewing, files \in Indexes :
          \E v \in _prepare_update(r.component, r.snapshot, files) :
            Planned(r.tab, r.component, "update", v, r.snapshot, r.tool)
     \/ UNCHANGED <<plan, expired, environment, shown>>
  /\ UNCHANGED <<restart_required, stage, thread, child, outside, keeper, supervised>>

\* _bounded_network gives up waiting; the slot stays with the thread that reads.
ReviewTimesOut ==
  /\ reviewing # {}
  /\ reviewing' = {}
  /\ UNCHANGED <<environment, restart_required, stage, plan, expired, thread, network, child, outside,
       keeper, supervised, shown, used>>

LateReadEnds ==
  /\ reads > (IF reviewing # {} \/ step = "download" THEN 1 ELSE 0)
  /\ slot' = FALSE /\ reads' = reads - 1
  /\ UNCHANGED <<memory, thread, child, outside, keeper, supervised, shown, used>>

PlanExpires ==
  /\ plan # {} /\ ~expired /\ expired' = TRUE
  /\ UNCHANGED <<environment, restart_required, stage, plan, reviewing, thread, network, child, outside,
       keeper, supervised, shown, used>>

-----------------------------------------------------------------------------
(* Executing a plan.                                                        *)

Looked == meddled' = [before |-> FALSE, after |-> FALSE]

AsPlanned(p) == Readable /\ packages = p.snapshot /\ tool = environment

\* The plan is used up, by a thread that may fail to start.
ExecutePlan(tab) ==
  /\ Available /\ ~expired
  /\ \E p \in plan :
       /\ \E q \in shown[tab] : q.id = p.id
       /\ Readable
       /\ plan' = {}
       /\ IF AsPlanned(p)
          THEN /\ Looked
               /\ outcome' = "none" /\ finished' = "failed"
               /\ \/ /\ reported' = "running" /\ operation' = {p} /\ confirmed' = shown[tab]
                     /\ step' = (IF supervised THEN "entering" ELSE "preparing")
                     /\ stage' = (IF supervised THEN "busy" ELSE "ready")
                  \/ /\ reported' = "failed" /\ operation' = {} /\ confirmed' = {}
                     /\ step' = "idle" /\ UNCHANGED stage
          ELSE UNCHANGED <<thread, stage, meddled>>
  /\ UNCHANGED <<environment, restart_required, expired, reviewing, network, child, packages, tool, server,
       keeper, supervised, shown, used>>

Step(to) == step' = to

\* A failure is reported by _finish_operation.
Fails == Step("finishing") /\ outcome' = "failed"

\* SupervisedPluginManager._run: the service is down, and the packages are still as they were.
EnterMaintenance ==
  /\ step = "entering"
  /\ \/ /\ Readable /\ \A p \in operation : packages = p.snapshot
        /\ Step("preparing") /\ Looked
     \/ Step("restoring") /\ UNCHANGED meddled
  /\ UNCHANGED <<memory, operation, confirmed, outcome, reported, finished, network, child, packages, tool,
       server, keeper, supervised, shown, used>>

\* _installation_arguments: an update is downloaded first.
PrepareInstallation ==
  /\ step = "preparing"
  /\ \E p \in operation :
       \/ p.action # "update" /\ Step("ready") /\ UNCHANGED <<network, outcome>>
       \/ p.action = "update" /\ ~slot /\ slot' = TRUE /\ reads' = reads + 1 /\ Step("download")
            /\ UNCHANGED outcome
       \/ Fails /\ UNCHANGED network
  /\ UNCHANGED <<memory, operation, confirmed, reported, finished, child, outside, keeper, supervised, shown, used>>

\* download_update, and a second look at the environment.
DownloadEnds ==
  /\ step = "download"
  /\ slot' = FALSE /\ reads' = reads - 1
  /\ \/ (\A p \in operation : AsPlanned(p)) /\ Step("ready") /\ Looked /\ UNCHANGED outcome
     \/ Fails /\ UNCHANGED meddled
  /\ UNCHANGED <<memory, operation, confirmed, reported, finished, child, packages, tool, server, keeper,
       supervised, shown, used>>

DownloadTimesOut ==
  /\ step = "download"
  /\ Fails
  /\ UNCHANGED <<memory, operation, confirmed, reported, finished, network, child, outside, keeper, supervised,
       shown, used>>

\* run_installer; from here on a restart is required.
StartInstaller ==
  /\ step = "ready"
  /\ restart_required' = TRUE
  /\ \/ /\ keeper = "locked" /\ installer' = "running" /\ group' = TRUE
        /\ Step("installing") /\ UNCHANGED outcome
     \/ Fails /\ UNCHANGED <<installer, group>>
  /\ UNCHANGED <<environment, stage, plan, expired, reviewing, operation, confirmed, reported, finished,
       network, unclean, outside, keeper, supervised, shown, used>>

\* A process of the installer's group replaces, adds or removes a package.
InstallerWrites ==
  /\ group /\ used.writes < MaxWrites
  /\ \E n \in Names : \E v \in Versions \ {packages[n]} :
       /\ (\E p \in operation : p.action = "uninstall") => v = 0
       /\ packages' = [packages EXCEPT ![n] = v]
  /\ Tally("writes")
  /\ UNCHANGED <<memory, thread, network, child, tool, server, meddled, keeper, supervised, shown>>

LeaderExits ==
  /\ installer = "running"
  /\ installer' \in {"ok", "error"}
  /\ UNCHANGED <<memory, thread, network, unclean, group, outside, keeper, supervised, shown, used>>

GroupEnds ==
  /\ group /\ installer # "running"
  /\ group' = FALSE
  /\ UNCHANGED <<memory, thread, network, installer, unclean, outside, keeper, supervised, shown, used>>

\* A mistake: an installer that has exited leaves its group alone.
LeaderWaited ==
  /\ step = "installing" /\ installer # "running"
  /\ Step("verifying") /\ outcome' = installer /\ installer' = "none"
  /\ UNCHANGED <<memory, operation, confirmed, reported, finished, network, group, unclean, outside, keeper,
       supervised, shown, used>>

\* _wait_installer returns the status, or gives up; the group is killed either way.  Where that is
\* not confirmed the processes and the files of the task are kept for a later try.
InstallerWaited ==
  /\ step = "installing"
  /\ \/ /\ group' = FALSE /\ installer' = "none" /\ UNCHANGED unclean
        /\ \/ installer # "running" /\ Step("verifying") /\ outcome' = installer
           \/ Step("verifying") /\ outcome' = "error"
           \/ Fails
     \/ /\ unclean' = TRUE /\ Fails
        /\ UNCHANGED <<installer, group>>
  /\ UNCHANGED <<memory, operation, confirmed, reported, finished, network, outside, keeper, supervised,
       shown, used>>

_operation_preserved_environment(p) ==
  /\ \A n \in Names \ {p.component} : p.snapshot[n] # 0 \/ p.action = "update" => packages[n] = p.snapshot[n]
  /\ CASE p.action = "install" -> packages[p.component] # 0
       [] p.action = "uninstall" -> packages[p.component] = 0
       [] p.action = "update" -> packages[p.component] = p.version

VerifyOperation ==
  /\ step = "verifying"
  /\ Step("finishing")
  /\ outcome' = IF outcome = "ok" /\ Readable /\ \A p \in operation : _operation_preserved_environment(p)
                THEN "succeeded" ELSE "failed"
  /\ meddled' = [meddled EXCEPT !.after = FALSE]
  /\ UNCHANGED <<memory, operation, confirmed, reported, finished, network, child, packages, tool, server,
       keeper, supervised, shown, used>>

\* The files of the task are removed, which may fail.
_finish_operation ==
  /\ step = "finishing"
  /\ Step(IF supervised THEN "restoring" ELSE "idle")
  /\ reported' \in {"failed", outcome}
  /\ finished' = reported'
  /\ confirmed' = {} /\ outcome' = "none"
  /\ UNCHANGED <<memory, operation, network, child, outside, keeper, supervised, shown, used>>

RecoveryFailed ==
  /\ stage' = "recovery_failed" /\ restart_required' = FALSE /\ reported' = "failed"

\* _restore; only an explicit retry touches an installer whose end was not confirmed.
RestoreBusiness ==
  /\ step \in {"restoring", "retrying"}
  /\ Step("idle")
  /\ \/ RecoveryFailed /\ UNCHANGED child
     \/ /\ step = "retrying" /\ unclean
        /\ unclean' = FALSE /\ group' = FALSE /\ installer' = "none"
        /\ RecoveryFailed
     \/ /\ step = "retrying" \/ ~unclean
        /\ IF unclean THEN unclean' = FALSE /\ group' = FALSE /\ installer' = "none" ELSE UNCHANGED child
        /\ stage' = "ready" /\ restart_required' = FALSE /\ reported' = finished
  /\ UNCHANGED <<environment, plan, expired, reviewing, operation, confirmed, outcome, finished, network,
       outside, keeper, supervised, shown, used>>

\* A thread that cannot be started leaves the task running in name, until the next try.
RecoverService ==
  /\ keeper # "off" /\ supervised /\ stage = "recovery_failed" /\ step = "idle"
  /\ reported' = "running"
  /\ \/ stage' = "busy" /\ Step("retrying")
     \/ UNCHANGED <<stage, step>>
  /\ UNCHANGED <<environment, restart_required, plan, expired, reviewing, operation, confirmed, outcome,
       finished, network, child, outside, keeper, supervised, shown, used>>

-----------------------------------------------------------------------------
PackageInit ==
  /\ packages \in Found /\ tool \in Tools \cup {"none"}
  /\ meddled = [before |-> FALSE, after |-> FALSE]
  /\ server = [s \in Servers |-> "off"] /\ keeper = "off" /\ supervised = FALSE
  /\ environment = "none" /\ restart_required = FALSE /\ stage = "ready"
  /\ plan = {} /\ expired = FALSE /\ reviewing = {} /\ shown = [t \in Tabs |-> {}]
  /\ step = "idle" /\ operation = {} /\ confirmed = {}
  /\ outcome = "none" /\ reported = "none" /\ finished = "failed"
  /\ slot = FALSE /\ reads = 0
  /\ installer = "none" /\ group = FALSE /\ unclean = FALSE
  /\ used = [plans |-> 0, changes |-> 0, writes |-> 0, starts |-> 0]

ManagerStep ==
  \/ StartManager \/ StopManager \/ LoseManager \/ RecoverService
  \/ ReviewEnds \/ ReviewTimesOut \/ LateReadEnds \/ PlanExpires
  \/ \E tab \in Tabs :
       ExecutePlan(tab) \/ \E c \in Components, a \in {"install", "uninstall", "update"} : Review(tab, c, a)

ThreadStep ==
  \/ EnterMaintenance \/ PrepareInstallation \/ DownloadEnds \/ DownloadTimesOut \/ StartInstaller
  \/ InstallerWaited \/ VerifyOperation \/ _finish_operation \/ RestoreBusiness

PackageNext ==
  \/ ManagerStep \/ ThreadStep \/ InstallerWrites \/ LeaderExits \/ GroupEnds \/ Meddle
  \/ \E s \in Servers : StartServer(s) \/ StopServer(s)

PackageSpec == PackageInit /\ [][PackageNext]_packageVars

-----------------------------------------------------------------------------
(* Properties                                                              *)

Plans == [id : Nat, component : Components, action : {"install", "uninstall", "update"},
          version : Versions, snapshot : [Names -> Versions], tool : Tools]

PackageTypeOK ==
  /\ packages \in [Names -> Versions] /\ tool \in Tools \cup {"none"}
  /\ meddled \in [before : BOOLEAN, after : BOOLEAN]
  /\ server \in [Servers -> {"off", "locked", "unlocked"}] /\ keeper \in {"off", "locked", "unlocked"}
  /\ supervised \in BOOLEAN /\ restart_required \in BOOLEAN /\ expired \in BOOLEAN
  /\ slot \in BOOLEAN /\ group \in BOOLEAN /\ unclean \in BOOLEAN
  /\ environment \in Tools \cup {"none"} /\ stage \in {"ready", "busy", "recovery_failed"}
  /\ plan \subseteq Plans /\ (\A p, q \in plan : p = q)
  /\ operation \subseteq Plans /\ confirmed \subseteq Plans
  /\ shown \in [Tabs -> SUBSET Plans]
  /\ reviewing \subseteq [component : Components, snapshot : [Names -> Versions],
                          tool : Tools, tab : Tabs]
  /\ step \in {"idle", "entering", "preparing", "download", "ready", "installing", "verifying",
               "finishing", "restoring", "retrying"}
  /\ outcome \in {"none", "ok", "error", "failed", "succeeded"}
  /\ reported \in {"none", "running", "succeeded", "failed"} /\ finished \in {"succeeded", "failed"}
  /\ reads \in Nat /\ installer \in {"none", "running", "ok", "error"}
  /\ used \in [plans : Nat, changes : Nat, writes : Nat, starts : Nat]

\* While a process of an installer lives, even one whose manager has died or
\* has given up on it, no server has the environment and no other operation
\* goes on.
InstallersRunAlone ==
  group => /\ \A s \in Servers : server[s] # "locked"
           /\ keeper = "locked" => step = "installing" \/ unclean

\* What is about to be installed is the plan that the tab was shown, and the
\* packages are the reviewed ones, unless they changed after the last look.
ReviewedIsInstalled ==
  step = "ready" =>
    /\ operation = confirmed /\ operation # {}
    /\ ~meddled.before => \A p \in operation : packages = p.snapshot

\* The reviewed change and nothing else, but for what an installation adds.
AsReviewed(p) ==
  /\ \A n \in Names \ {p.component} : p.snapshot[n] # 0 => packages[n] = p.snapshot[n]
  /\ p.action = "install" => packages[p.component] # 0
  /\ p.action = "uninstall" => packages[p.component] = 0
  /\ p.action = "update" => packages = [p.snapshot EXCEPT ![p.component] = p.version]

\* What the change must not break.
NothingBroken(p) ==
  /\ p.action = "uninstall" => required_by(p.component, packages) = {}
  /\ p.action = "update" => dependency_conflicts(packages) = {}

\* A task succeeds only with the reviewed change, and the change has broken no
\* requirement, if nobody else interfered.
SuccessIsTheReviewedChange ==
  reported = "succeeded" =>
    /\ operation # {}
    /\ ~meddled.after => \A p \in operation : AsReviewed(p)
    /\ ~meddled.before => \A p \in operation : NothingBroken(p)

\* Only one thread reads from the network, however often reads are given up.
OneReader == reads <= 1

\* Installers run alone, on the environment that was reviewed, as the user has confirmed, and a task
\* that has succeeded made that change and broke nothing (PluginManager.execute, _run,
\* _operation_preserved_environment, run_installer, EnvironmentLock, _bounded_network).
PackagesAsReviewed ==
  PackageTypeOK /\ InstallersRunAlone /\ ReviewedIsInstalled /\ SuccessIsTheReviewedChange /\ OneReader
=============================================================================
