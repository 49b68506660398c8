----------------------------- MODULE RemoteCalls -----------------------------
(***************************************************************************)
(* What a control channel promises a caller: a call is handled at most     *)
(* once, what it returns as the handler's answer is that answer, and a     *)
(* call refused as busy is never handled.  Any call may fail without       *)
(* saying whether it was handled, and it may be handled after it failed.   *)
(***************************************************************************)
CONSTANTS Calls

VARIABLES
  open,      (* calls in progress                                          *)
  returned,  (* what each finished call returned                           *)
  handled    (* the answer of each handler that ran: "none" until it ends  *)

Answers == {"value", "error"}
Failures == {"busy", "unavailable", "timeout", "lost"}

Init ==
  /\ open = {}
  /\ returned = [c \in Calls |-> "none"]
  /\ handled = [c \in Calls |-> "none"]

Begin(c) ==
  /\ c \notin open /\ returned[c] = "none"
  /\ open' = open \cup {c}
  /\ UNCHANGED <<returned, handled>>

Handle(c, a) ==
  /\ c \in open \/ returned[c] # "none"
  /\ handled[c] = "none"
  /\ returned[c] # "busy"
  /\ handled' = [handled EXCEPT ![c] = a]
  /\ UNCHANGED <<open, returned>>

Return(c, r) ==
  /\ c \in open
  /\ r \in Answers => handled[c] = r
  /\ r = "busy" => handled[c] = "none"
  /\ open' = open \ {c}
  /\ returned' = [returned EXCEPT ![c] = r]
  /\ UNCHANGED handled

\* A call that is refused before it is sent.
Refuse(c) ==
  /\ c \notin open /\ returned[c] = "none"
  /\ returned' = [returned EXCEPT ![c] = "unavailable"]
  /\ UNCHANGED <<open, handled>>

Next ==
  \E c \in Calls :
    \/ Begin(c) \/ Refuse(c)
    \/ \E a \in Answers : Handle(c, a)
    \/ \E r \in Answers \cup Failures : Return(c, r)

Spec == Init /\ [][Next]_<<open, returned, handled>>
=============================================================================
