---------------------------- MODULE ControlChannel ----------------------------
(***************************************************************************)
(* The two ControlChannel endpoints (worker_control.py) of one anonymous   *)
(* pipe.  On each side caller threads send requests and wait, one reader   *)
(* thread dispatches what arrives, and a daemon thread per request runs    *)
(* the handler and sends its answer.  All of them share one send lock, and *)
(* a send blocks while the pipe is full.                                   *)
(***************************************************************************)
EXTENDS Naturals, Sequences, FiniteSets

CONSTANTS
  Sides,       (* the two endpoints                                        *)
  Calls,       (* calls made during the life of the channel                *)
  Caller,      (* the side that makes a call                               *)
  MaxPending,  (* calls a side may wait for: 32                            *)
  MaxAnswers,  (* requests a side may be answering: 8                      *)
  Capacity     (* messages the pipe holds in one direction                 *)

\* MCControl checks this of its instance.
ChannelAssumption ==
  /\ \E a, b \in Sides : a # b /\ Sides = {a, b}
  /\ Caller \in [Calls -> Sides]
  /\ MaxPending \in Nat /\ MaxAnswers \in Nat /\ Capacity \in Nat \ {0}

Peer(s) == CHOOSE t \in Sides : t # s

VARIABLES
  call,      (* caller thread: "new", "sending", "waiting" or "returned"   *)
  returned,  (* what call() returned or raised                             *)
  stored,    (* the result dictionary of a pending call                    *)
  woken,     (* its event                                                  *)
  pending,   (* _pending                                                   *)
  answers,   (* _answers                                                   *)
  task,      (* DaemonTask of a request: "none", "running", "replying", "ended" *)
  handled,   (* the answer the handler of a request computed               *)
  sending,   (* messages that threads of a side wait to send               *)
  writer,    (* the one that holds the send lock                           *)
  pipe,      (* messages on their way to a side                            *)
  receiving, (* sides whose reader has seen ~closed and is in recv_bytes   *)
  closed,    (* _closed                                                    *)
  shut       (* the socket of a side is shut down                          *)

callers == <<call, returned, stored, woken, pending>>
answering == <<answers, task, handled>>
wire == <<sending, writer, pipe>>
ends == <<closed, shut>>  \* sides
channelVars == <<callers, answering, wire, receiving, ends>>

Kinds == {"request", "value", "error", "busy"}
Messages == [kind : Kinds, id : Calls]
Vacant == [kind |-> "none"]
Message(k, c) == [kind |-> k, id |-> c]

\* A request and its answer travel between the same two threads.
Sender(m) == IF m.kind = "request" THEN Caller[m.id] ELSE Peer(Caller[m.id])

\* The reader answers busy itself, so it reads nothing until that is sent.
Replying(s) ==
  \E m \in sending[s] \cup {writer[s]} : m # Vacant /\ m.kind = "busy"

ChannelInit ==
  /\ call = [c \in Calls |-> "new"]
  /\ returned = [c \in Calls |-> "none"]
  /\ stored = [c \in Calls |-> "none"]
  /\ woken = {}
  /\ pending = [s \in Sides |-> {}]
  /\ answers = [s \in Sides |-> {}]
  /\ task = [c \in Calls |-> "none"]
  /\ handled = [c \in Calls |-> "none"]
  /\ sending = [s \in Sides |-> {}]
  /\ writer = [s \in Sides |-> Vacant]
  /\ pipe = [s \in Sides |-> <<>>]
  /\ receiving = {}
  /\ closed = {}
  /\ shut = {}

-----------------------------------------------------------------------------
(* call()                                                                  *)

Register(c) ==
  /\ Cardinality(pending[Caller[c]]) < MaxPending
  /\ Caller[c] \notin closed
  /\ pending' = [pending EXCEPT ![Caller[c]] = @ \cup {c}]

\* A call is refused at the bound, on a closed channel, or because its
\* message is too large.
Call(c) ==
  /\ call[c] = "new"
  /\ \/ /\ Register(c)
        /\ call' = [call EXCEPT ![c] = "sending"]
        /\ sending' = [sending EXCEPT ![Caller[c]] = @ \cup {Message("request", c)}]
        /\ UNCHANGED returned
     \/ /\ call' = [call EXCEPT ![c] = "returned"]
        /\ returned' = [returned EXCEPT ![c] = "unavailable"]
        /\ UNCHANGED <<pending, sending>>
  /\ UNCHANGED <<stored, woken, answering, writer, pipe, receiving, ends>>

\* Every way out of call() forgets the identifier.
Leave(c, result) ==
  /\ call' = [call EXCEPT ![c] = "returned"]
  /\ returned' = [returned EXCEPT ![c] = result]
  /\ pending' = [pending EXCEPT ![Caller[c]] = @ \ {c}]
  /\ UNCHANGED <<stored, woken>>

Return(c) ==
  /\ call[c] = "waiting" /\ c \in woken
  /\ Leave(c, IF stored[c] = "none" THEN "lost" ELSE stored[c])
  /\ UNCHANGED <<answering, wire, receiving, ends>>

Timeout(c) ==
  /\ call[c] = "waiting" /\ c \notin woken
  /\ Leave(c, "timeout")
  /\ UNCHANGED <<answering, wire, receiving, ends>>

-----------------------------------------------------------------------------
(* _send: the lock, the closed check and send_bytes                        *)

\* What becomes of the thread whose send raised: a caller leaves, a handler
\* gives its slot back, the reader closes the channel.
EndTask(c) ==
  /\ task' = [task EXCEPT ![c] = "ended"]
  /\ answers' = [answers EXCEPT ![Peer(Caller[c])] = @ \ {c}]

MarkClosed(s) ==
  /\ closed' = closed \cup {s}
  /\ woken' = woken \cup pending[s]

SendFailed(m) ==
  \/ /\ m.kind = "request"
     /\ Leave(m.id, "lost")
     /\ UNCHANGED <<answering, ends>>
  \/ /\ m.kind \in {"value", "error"}
     /\ EndTask(m.id)
     /\ UNCHANGED <<callers, handled, ends>>
  \/ /\ m.kind = "busy"
     /\ MarkClosed(Sender(m))
     /\ UNCHANGED <<call, returned, stored, pending, answering, shut>>

TakeSendLock(s, m) ==
  /\ writer[s] = Vacant
  /\ m \in sending[s]
  /\ sending' = [sending EXCEPT ![s] = @ \ {m}]
  /\ IF s \in closed
     THEN SendFailed(m) /\ UNCHANGED writer
     ELSE /\ writer' = [writer EXCEPT ![s] = m]
          /\ UNCHANGED <<callers, answering, ends>>
  /\ UNCHANGED <<pipe, receiving>>

SendBytes(s) ==
  LET m == writer[s] IN
  /\ m # Vacant
  /\ writer' = [writer EXCEPT ![s] = Vacant]
  /\ IF Peer(s) \in shut
     THEN SendFailed(m) /\ UNCHANGED pipe
     ELSE /\ Len(pipe[Peer(s)]) < Capacity
          /\ pipe' = [pipe EXCEPT ![Peer(s)] = Append(@, m)]
          /\ \/ /\ m.kind = "request"
                /\ call' = [call EXCEPT ![m.id] = "waiting"]
                /\ UNCHANGED <<returned, stored, woken, pending, answering>>
             \/ /\ m.kind \in {"value", "error"}
                /\ EndTask(m.id)
                /\ UNCHANGED <<callers, handled>>
             \/ /\ m.kind = "busy"
                /\ UNCHANGED <<callers, answering>>
          /\ UNCHANGED ends
  /\ UNCHANGED <<sending, receiving>>

-----------------------------------------------------------------------------
(* _read, _dispatch_message and _start_answer                              *)

\* A mistake: a request that is answered busy is handled all the same.
DispatchAlways(s, c) ==
  /\ task' = [task EXCEPT ![c] = "running"]
  /\ answers' = [answers EXCEPT ![s] = @ \cup {c}]
  /\ IF Cardinality(answers[s]) >= MaxAnswers
     THEN sending' = [sending EXCEPT ![s] = @ \cup {Message("busy", c)}]
     ELSE UNCHANGED sending
  /\ UNCHANGED <<callers, handled, ends>>

\* The thread of a handler may fail to start, which ends the reader.
Dispatch(s, c) ==
  IF Cardinality(answers[s]) >= MaxAnswers
  THEN /\ sending' = [sending EXCEPT ![s] = @ \cup {Message("busy", c)}]
       /\ UNCHANGED <<callers, answering, ends>>
  ELSE \/ /\ task' = [task EXCEPT ![c] = "running"]
          /\ answers' = [answers EXCEPT ![s] = @ \cup {c}]
          /\ UNCHANGED <<callers, handled, sending, ends>>
       \/ /\ MarkClosed(s)
          /\ UNCHANGED <<call, returned, stored, pending, answering, sending, shut>>

\* An answer whose call has left is dropped.
Store(s, m) ==
  /\ IF m.id \in pending[s]
     THEN /\ stored' = [stored EXCEPT ![m.id] = m.kind]
          /\ woken' = woken \cup {m.id}
     ELSE UNCHANGED <<stored, woken>>
  /\ UNCHANGED <<call, returned, pending>>

\* The reader looks at the closed flag between two messages only.
Receive(s) ==
  /\ s \notin receiving \cup closed /\ ~Replying(s)
  /\ receiving' = receiving \cup {s}
  /\ UNCHANGED <<callers, answering, wire, ends>>

Read(s) ==
  /\ s \in receiving \ shut
  /\ pipe[s] # <<>>
  /\ pipe' = [pipe EXCEPT ![s] = Tail(@)]
  /\ LET m == Head(pipe[s]) IN
     IF m.kind = "request"
     THEN Dispatch(s, m.id)
     ELSE Store(s, m) /\ UNCHANGED <<answering, sending, ends>>
  /\ receiving' = receiving \ {s}
  /\ UNCHANGED writer

\* recv_bytes raises at the end of the stream.
EndOfStream(s) ==
  /\ s \in receiving
  /\ pipe[s] = <<>> /\ Peer(s) \in shut
  /\ receiving' = receiving \ {s}
  /\ MarkClosed(s)
  /\ UNCHANGED <<call, returned, stored, pending, answering, wire, shut>>

-----------------------------------------------------------------------------
(* Handlers, and close()                                                   *)

\* An answer that is too large is replaced by an error of fixed size.
Answer(c) ==
  /\ task[c] = "running"
  /\ task' = [task EXCEPT ![c] = "replying"]
  /\ \E a \in {"value", "error"} :
       /\ handled' = [handled EXCEPT ![c] = a]
       /\ sending' = [sending EXCEPT ![Peer(Caller[c])] = @ \cup {Message(a, c)}]
  /\ UNCHANGED <<callers, answers, writer, pipe, receiving, ends>>

Close(s) ==
  /\ s \notin closed
  /\ MarkClosed(s)
  /\ UNCHANGED <<call, returned, stored, pending, answering, wire, receiving, shut>>

\* A mistake: the descriptor is closed while the reader still refers to it,
\* so the peer is not told.
ShutDownUnnoticed(s) ==
  /\ s \in closed \ receiving
  /\ UNCHANGED channelVars

\* close() waits for the send lock before it shuts the socket down; what the
\* side has not read is gone.
ShutDown(s) ==
  /\ s \in closed \ shut
  /\ writer[s] = Vacant
  /\ shut' = shut \cup {s}
  /\ pipe' = [pipe EXCEPT ![s] = <<>>]
  /\ UNCHANGED <<callers, answering, sending, writer, receiving, closed>>

SideStep(s) ==
  \/ SendBytes(s) \/ Receive(s) \/ Read(s) \/ EndOfStream(s) \/ ShutDown(s)
  \/ \E m \in sending[s] : TakeSendLock(s, m)

CallStep(c) == Call(c) \/ Return(c) \/ Timeout(c) \/ Answer(c)

ChannelNext ==
  \/ \E s \in Sides : SideStep(s) \/ Close(s)
  \/ \E c \in Calls : CallStep(c)

ChannelSpec == ChannelInit /\ [][ChannelNext]_channelVars

\* Threads run.  Nobody has to call, to close, or to finish a handler.
ChannelFairness ==
  /\ \A s \in Sides :
       /\ WF_channelVars(SendBytes(s)) /\ WF_channelVars(Receive(s)) /\ WF_channelVars(Read(s))
       /\ WF_channelVars(EndOfStream(s)) /\ WF_channelVars(ShutDown(s))
       /\ WF_channelVars(\E m \in sending[s] : TakeSendLock(s, m))
  /\ \A c \in Calls : WF_channelVars(Return(c)) /\ WF_channelVars(Timeout(c))

FairChannel == ChannelSpec /\ ChannelFairness

-----------------------------------------------------------------------------
(* Properties                                                              *)

FieldsTypeOK ==
  /\ call \in [Calls -> {"new", "sending", "waiting", "returned"}]
  /\ returned \in [Calls -> {"none", "value", "error", "busy", "unavailable", "timeout", "lost"}]
  /\ stored \in [Calls -> {"none", "value", "error", "busy"}]
  /\ woken \subseteq Calls
  /\ pending \in [Sides -> SUBSET Calls]
  /\ answers \in [Sides -> SUBSET Calls]
  /\ task \in [Calls -> {"none", "running", "replying", "ended"}]
  /\ handled \in [Calls -> {"none", "value", "error"}]
  /\ sending \in [Sides -> SUBSET Messages]
  /\ writer \in [Sides -> Messages \cup {Vacant}]
  /\ pipe \in [Sides -> Seq(Messages)]
  /\ receiving \subseteq Sides
  /\ shut \subseteq closed /\ closed \subseteq Sides

ChannelTypeOK ==
  /\ FieldsTypeOK
  /\ \A s \in Sides :
       /\ Cardinality(pending[s]) <= MaxPending
       /\ Cardinality(answers[s]) <= MaxAnswers
       /\ Len(pipe[s]) <= Capacity

\* Slots are neither lost nor shared: _pending holds the calls in progress
\* and _answers the requests being handled, so a channel that has become idle
\* can be used to the full again.
SlotsMatchThreads ==
  \A s \in Sides :
    /\ pending[s] = {c \in Calls : Caller[c] = s /\ call[c] \in {"sending", "waiting"}}
    /\ answers[s] = {c \in Calls : Caller[c] # s /\ task[c] \in {"running", "replying"}}

\* Nobody reads: each side has a sender on a full pipe, and its reader waits for
\* the send lock to answer busy itself, or is gone and close() waits for that lock.
Jammed ==
  \A s \in Sides :
    /\ writer[s] # Vacant /\ Len(pipe[Peer(s)]) >= Capacity
    /\ Replying(s) \/ s \in closed \ receiving

\* call() always comes back, although a send has no timeout, and an endpoint
\* whose peer has closed closes too; unless the channel jams, every sender on a
\* full pipe is freed by the peer's reader or its close.
EveryCallReturns ==
  \/ <>[](/\ \A c \in Calls : call[c] \in {"new", "returned"}
          /\ closed \in {{}, Sides})
  \/ <>Jammed

\* Why a call is handled at most once: its request is in one place at a time,
\* ahead of its handler or of the reply that refuses it; and what carries an
\* answer carries its own handler's.
InTransit(m) ==
  \E s \in Sides : m \in sending[s] \/ m = writer[s] \/ \E i \in DOMAIN pipe[s] : pipe[s][i] = m

RequestsTravelOnce ==
  \A s \in Sides, c \in Calls :
    LET m == Message("request", c) IN
    /\ m \in sending[s] => s = Caller[c] /\ call[c] = "sending" /\ writer[s] # m
    /\ m = writer[s] => s = Caller[c] /\ call[c] = "sending"
    /\ \A i \in DOMAIN pipe[s] : pipe[s][i] = m =>
         /\ call[c] \in {"waiting", "returned"}
         /\ \A t \in Sides : \A j \in DOMAIN pipe[t] : pipe[t][j] = m => t = s /\ j = i

Refused(c) == InTransit(Message("busy", c)) \/ stored[c] = "busy" \/ returned[c] = "busy"

HandledOnce ==
  \A c \in Calls :
    /\ returned[c] = "none" <=> call[c] # "returned"
    /\ call[c] = "new" => task[c] = "none" /\ ~Refused(c)
    /\ InTransit(Message("request", c)) => task[c] = "none" /\ ~Refused(c)
    /\ Refused(c) => task[c] = "none"
    /\ task[c] \in {"none", "running"} => handled[c] = "none"

AnswersAreTheHandlers ==
  \A c \in Calls, a \in {"value", "error"} :
    InTransit(Message(a, c)) \/ stored[c] = a => handled[c] = a

ChannelInv == FieldsTypeOK /\ RequestsTravelOnce /\ HandledOnce /\ AnswersAreTheHandlers

\* Calls are handled at most once and never get another call's answer.
Remote == INSTANCE RemoteCalls WITH
  open <- {c \in Calls : call[c] \in {"sending", "waiting"}}

CallsAreRemote == Remote!Spec

\* Calls over the channel are calls of the other process, no slot is lost, and a request is in one
\* place at a time (ControlChannel.call, _send, _dispatch_message).
ImplementsRemoteCalls == [](ChannelTypeOK /\ SlotsMatchThreads /\ ChannelInv) /\ CallsAreRemote

\* Why slots match: a request is read by the side that did not send it.
PendingInOrder ==
  \A s \in Sides :
    /\ IsFiniteSet(pending[s]) /\ Cardinality(pending[s]) <= MaxPending
    /\ \A c \in Calls : c \in pending[s] <=> (Caller[c] = s /\ call[c] \in {"sending", "waiting"})

AnswersInOrder ==
  \A s \in Sides :
    /\ IsFiniteSet(answers[s]) /\ Cardinality(answers[s]) <= MaxAnswers
    /\ \A c \in Calls : c \in answers[s] <=> (Caller[c] # s /\ task[c] \in {"running", "replying"})

PipesInOrder ==
  \A s \in Sides :
    /\ Len(pipe[s]) <= Capacity
    /\ \A i \in DOMAIN pipe[s] : pipe[s][i].kind = "request" => Caller[pipe[s][i].id] # s

SlotsInv == PendingInOrder /\ AnswersInOrder /\ PipesInOrder
=============================================================================
