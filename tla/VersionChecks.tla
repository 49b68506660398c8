----------------------------- MODULE VersionChecks -----------------------------
(***************************************************************************)
(* Looking up the newest version of a project (settings_updates.py).       *)
(* Requests share a read that is under way and a cached answer.  A read    *)
(* cannot be stopped: one that takes too long keeps its place until its    *)
(* thread ends, and is discarded.  Projects are looked up apart from each  *)
(* other, this is one of them.                                             *)
(***************************************************************************)
EXTENDS Integers, FiniteSets

CONSTANTS
  Askers,              (* threads of requests                              *)
  _CHECK_TIMEOUT,      (* in ticks of the monotonic clock                  *)
  FreshFor, WrongFor,  (* how long an answer and a failure are cached      *)
  LastTick, MaxChecks  (* bounds                                           *)

\* MCControl checks this of its instance.
ChecksAssumption ==
  /\ {_CHECK_TIMEOUT, FreshFor, WrongFor, LastTick, MaxChecks} \subseteq Nat

VARIABLES
  clock,
  begun,      (* number of reads so far                                     *)
  check,      (* _VersionCheck: state, deadline, discarded, what was read   *)
  current,    (* _PENDING: the read that has the project's place, or 0      *)
  cache,      (* _CACHE: until when, and the read the version is from; 0 is *)
              (* a failure                                                  *)
  caller      (* where each request is: its deadline, its read, its result  *)

checkVars == <<clock, begun, check, current, cache, caller>>

Checks == 1 .. MaxChecks
Failed == 0
Waiting == {"asking", "joined", "woken"}

NoCheck == [state |-> "none", deadline |-> 0, discarded |-> FALSE, completed |-> 0, error |-> FALSE]
NoRequest == [at |-> "idle", deadline |-> 0, check |-> 0, finished |-> FALSE, result |-> Failed]

Done(i) == check[i].state \in {"read", "raised"}

Tick == clock < LastTick /\ clock' = clock + 1 /\ UNCHANGED <<begun, check, current, cache, caller>>

Put(c, fields) == caller' = [caller EXCEPT ![c] = fields]

\* check_updates and _remote_version fix their own deadline first.
Begin(c) ==
  /\ caller[c].at = "idle"
  /\ Put(c, [NoRequest EXCEPT !.at = "asking", !.deadline = clock + _CHECK_TIMEOUT])
  /\ UNCHANGED <<clock, begun, check, current, cache>>

Told(c, result) == Put(c, [NoRequest EXCEPT !.result = result])

\* A mistake: a read that was given up makes way while it is still going on.
GivenUpIsFree(i) == i \notin {j \in Checks : ~check[j].discarded}

Free(i) == i \notin {j \in Checks : ~(check[j].discarded /\ Done(j))}

\* _version_check, under the lock: the cached answer, the read under way, or a new one.
_version_check(c) ==
  /\ caller[c].at = "asking"
  /\ \/ /\ cache.until > clock
        /\ Told(c, cache.from)
        /\ UNCHANGED <<begun, check, current, cache>>
     \/ /\ cache.until <= clock /\ ~Free(current)
        /\ Put(c, [caller[c] EXCEPT !.at = "joined", !.check = current])
        /\ UNCHANGED <<begun, check, current, cache>>
     \/ /\ cache.until <= clock /\ Free(current)
        /\ \/ /\ begun < MaxChecks
              /\ begun' = begun + 1 /\ current' = begun + 1
              /\ check' = [check EXCEPT ![begun + 1] =
                             [NoCheck EXCEPT !.state = "reading", !.deadline = caller[c].deadline]]
              /\ Put(c, [caller[c] EXCEPT !.at = "joined", !.check = begun + 1])
              /\ UNCHANGED cache
           \/ /\ current' = 0 /\ UNCHANGED <<begun, check>>
              /\ cache' = [until |-> clock + WrongFor, from |-> Failed]
              /\ Told(c, Failed)
  /\ UNCHANGED clock

\* _timed_remote_version: what the thread returns, or an exception it did not expect.
ReadEnds(i) ==
  /\ check[i].state = "reading"
  /\ \E s \in {"read", "raised"}, e \in BOOLEAN :
       check' = [check EXCEPT ![i].state = s, ![i].completed = clock, ![i].error = e]
  /\ UNCHANGED <<clock, begun, current, cache, caller>>

Earlier(a, b) == IF a < b THEN a ELSE b

\* The wait ends with the read, or at the earlier of the two deadlines.
Wake(c) ==
  /\ caller[c].at = "joined"
  /\ \/ Done(caller[c].check)
     \/ clock >= Earlier(caller[c].deadline, check[caller[c].check].deadline)
  /\ Put(c, [caller[c] EXCEPT !.at = "woken", !.finished = Done(caller[c].check)])
  /\ UNCHANGED <<clock, begun, check, current, cache>>

InTime(k) == ~k.discarded /\ k.completed <= k.deadline

\* _version_result, under the lock again.  Only the request whose read has the place caches its
\* result, and frees the place of a read that has ended.
_version_result(c) ==
  LET i == caller[c].check  k == check[i]  finished == caller[c].finished
      owns_slot == current = i
      result == IF finished /\ k.state = "read" /\ InTime(k) /\ ~k.error THEN i ELSE Failed
  IN
  /\ caller[c].at = "woken"
  /\ Told(c, result)
  /\ IF ~finished /\ clock < k.deadline
     THEN UNCHANGED <<check, cache, current>>
     ELSE /\ check' = [check EXCEPT ![i].discarded = ~finished \/ (k.state = "read" /\ ~InTime(k)) \/ @]
          /\ cache' = IF owns_slot /\ ~(finished /\ ~k.discarded /\ k.state = "raised")
                      THEN [until |-> clock + (IF result = Failed THEN WrongFor ELSE FreshFor), from |-> result]
                      ELSE cache
          /\ current' = IF finished /\ owns_slot THEN 0 ELSE current
  /\ UNCHANGED <<clock, begun>>

ChecksInit ==
  /\ clock = 0 /\ begun = 0 /\ current = 0
  /\ check = [i \in Checks |-> NoCheck]
  /\ cache = [until |-> 0, from |-> Failed]
  /\ caller = [c \in Askers |-> NoRequest]

ChecksNext ==
  \/ Tick \/ \E i \in Checks : ReadEnds(i)
  \/ \E c \in Askers : Begin(c) \/ _version_check(c) \/ Wake(c) \/ _version_result(c)

ChecksSpec == ChecksInit /\ [][ChecksNext]_checkVars

-----------------------------------------------------------------------------
(* Properties                                                              *)

ChecksTypeOK ==
  /\ {clock, begun, current} \subseteq Nat /\ begun <= MaxChecks /\ current <= begun
  /\ check \in [Checks -> [state : {"none", "reading", "read", "raised"}, deadline : Nat,
                           discarded : BOOLEAN, completed : Nat, error : BOOLEAN]]
  /\ cache \in [until : Nat, from : 0 .. begun]
  /\ caller \in [Askers -> [at : {"idle"} \cup Waiting, deadline : Nat, check : 0 .. begun,
                             finished : BOOLEAN, result : 0 .. begun]]

\* However often a page asks, one thread reads.
OneRead == \A i, j \in Checks : check[i].state = "reading" /\ check[j].state = "reading" => i = j

\* A version that is shown or kept was read within the time of the read.
Timely(i) ==
  i \in Checks => check[i].state = "read" /\ ~check[i].error /\ check[i].completed <= check[i].deadline

\* A read that nobody waits for has been discarded, so that the next request can begin another when
\* it ends.
NothingStuck ==
  \A i \in Checks : i = current /\ ~check[i].discarded => \E c \in Askers : caller[c].check = i

\* Late answers are neither shown nor kept, repeated requests do not add threads, and a read that
\* hangs does not keep the project's place for ever (_version_check, _version_result).
LateAnswersAreDropped ==
  /\ ChecksTypeOK /\ OneRead /\ NothingStuck
  /\ Timely(cache.from) /\ \A c \in Askers : Timely(caller[c].result)
=============================================================================
