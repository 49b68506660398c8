---------------------------- MODULE ControlProofs ----------------------------
(***************************************************************************)
(* Theorems about the supervised worker and the channel it is controlled   *)
(* by, which share no state.                                               *)
(*                                                                         *)
(* The channel.  Whatever the sides, the calls, the limits and the size of *)
(* the pipe, and however its threads interleave, it keeps what RemoteCalls *)
(* promises.                                                               *)
(*                                                                         *)
(* The supervisor.  One lemma says where a thread goes when a step of its  *)
(* job succeeds or fails; one lemma per action shows that it keeps         *)
(* SupervisorInv, and a second one that it keeps SessionInv.               *)
(***************************************************************************)
EXTENDS ControlChannel, Supervisor, SequenceTheorems, FiniteSetTheorems, TLAPS

InProgress == {c \in Calls : call[c] \in {"sending", "waiting"}}
RemoteStep == [Remote!Next]_<<InProgress, returned, handled>>

(***************************************************************************)
(* Messages.                                                               *)
(***************************************************************************)

\* Messages are told apart by their kind and their call.
LEMMA MessageFacts ==
  /\ \A k \in Kinds, c \in Calls :
       /\ Message(k, c) \in Messages /\ Message(k, c) # Vacant
       /\ Message(k, c).kind = k /\ Message(k, c).id = c
  /\ \A m \in Messages : m.kind \in Kinds /\ m.id \in Calls /\ m = Message(m.kind, m.id)
  /\ Vacant \notin Messages
BY DEF Messages, Message, Vacant, Kinds

\* The other endpoint.
LEMMA PeerIsASide == ChannelAssumption => \A s \in Sides : Peer(s) \in Sides
BY DEF ChannelAssumption, Peer

\* A pipe one message shorter at its head.
LEMMA PipeTail ==
  ASSUME NEW S, NEW q \in Seq(S), q # <<>>
  PROVE  /\ Head(q) \in S /\ Tail(q) \in Seq(S)
         /\ 1 \in DOMAIN q /\ q[1] = Head(q)
         /\ \A i \in DOMAIN Tail(q) : i + 1 \in DOMAIN q /\ Tail(q)[i] = q[i + 1] /\ i \in Nat
  BY HeadTailProperties

\* A pipe one message longer at its end.
LEMMA PipeAppend ==
  ASSUME NEW S, NEW q \in Seq(S), NEW m \in S
  PROVE  /\ Append(q, m) \in Seq(S)
         /\ \A i \in DOMAIN Append(q, m) :
              \/ i \in DOMAIN q /\ Append(q, m)[i] = q[i]
              \/ i = Len(q) + 1 /\ Append(q, m)[i] = m
  OBVIOUS

(***************************************************************************)
(* The calls.                                                              *)
(***************************************************************************)

\* A step that moves no message and ends no handler.
LEMMA QuietStep ==
  ASSUME ChannelInv, FieldsTypeOK', UNCHANGED <<call, returned, stored, task, handled, wire>>
  PROVE  ChannelInv' /\ RemoteStep
<1>1. \A m : InTransit(m)' <=> InTransit(m)
  BY DEF InTransit, wire
<1>2. RequestsTravelOnce'
  BY DEF ChannelInv, RequestsTravelOnce, wire
<1>3. HandledOnce'
  BY <1>1 DEF ChannelInv, HandledOnce, Refused
<1>4. AnswersAreTheHandlers'
  BY <1>1 DEF ChannelInv, AnswersAreTheHandlers
<1>. QED BY <1>2, <1>3, <1>4 DEF ChannelInv, RemoteStep, InProgress

\* Types, whatever becomes of a call.
LEMMA CallTypes ==
  ASSUME FieldsTypeOK, NEW c \in Calls, Caller[c] \in Sides, Call(c)
  PROVE  FieldsTypeOK'
<1>1. /\ UNCHANGED <<stored, woken, answering, writer, pipe, receiving, ends>>
      /\ \E l \in {"sending", "returned"} : call' = [call EXCEPT ![c] = l]
      /\ returned' = returned \/ returned' = [returned EXCEPT ![c] = "unavailable"]
  BY DEF Call
<1>2. \/ UNCHANGED pending
      \/ pending' = [pending EXCEPT ![Caller[c]] = @ \cup {c}]
  BY DEF Call, Register
<1>3. \/ UNCHANGED sending
      \/ sending' = [sending EXCEPT ![Caller[c]] = @ \cup {Message("request", c)}]
  BY DEF Call
<1> DEFINE u == pending[Caller[c]] \cup {c}
           v == sending[Caller[c]] \cup {Message("request", c)}
<1>4. pending' \in [Sides -> SUBSET Calls]
  <2>1. pending \in [Sides -> SUBSET Calls] /\ u \in SUBSET Calls
    BY DEF FieldsTypeOK
  <2>2. pending' = pending \/ pending' = [pending EXCEPT ![Caller[c]] = u]
    BY <1>2
  <2> HIDE DEF u
  <2>. QED BY <2>1, <2>2
<1>5. Message("request", c) \in Messages
  BY MessageFacts DEF Kinds
<1>6. sending' \in [Sides -> SUBSET Messages]
  <2>1. sending \in [Sides -> SUBSET Messages] /\ v \in SUBSET Messages
    BY <1>5 DEF FieldsTypeOK
  <2>2. sending' = sending \/ sending' = [sending EXCEPT ![Caller[c]] = v]
    BY <1>3
  <2> HIDE DEF v
  <2>. QED BY <2>1, <2>2
<1>7. call' \in [Calls -> {"new", "sending", "waiting", "returned"}]
  BY <1>1 DEF FieldsTypeOK
<1>8. returned' \in [Calls -> {"none", "value", "error", "busy", "unavailable", "timeout", "lost"}]
  BY <1>1 DEF FieldsTypeOK
<1>. QED BY <1>1, <1>4, <1>6, <1>7, <1>8 DEF FieldsTypeOK, answering, ends

LEMMA LeaveTypes ==
  ASSUME FieldsTypeOK, NEW c \in Calls, Return(c) \/ Timeout(c)
  PROVE  FieldsTypeOK'
<1>1. /\ UNCHANGED <<stored, woken, answering, wire, receiving, ends>>
      /\ call' = [call EXCEPT ![c] = "returned"]
      /\ pending' = [pending EXCEPT ![Caller[c]] = @ \ {c}]
  BY DEF Return, Timeout, Leave
<1>2. PICK r : returned' = [returned EXCEPT ![c] = r] /\ (r \in {"lost", "timeout"} \/ r = stored[c])
  BY DEF Return, Timeout, Leave
<1>3. r \in {"none", "value", "error", "busy", "unavailable", "timeout", "lost"}
  BY <1>2 DEF FieldsTypeOK
<1>4. /\ call' \in [Calls -> {"new", "sending", "waiting", "returned"}]
      /\ returned' \in [Calls -> {"none", "value", "error", "busy", "unavailable", "timeout", "lost"}]
      /\ pending' \in [Sides -> SUBSET Calls]
  BY <1>1, <1>2, <1>3 DEF FieldsTypeOK
<1>. QED BY <1>1, <1>4 DEF FieldsTypeOK, answering, wire, ends

\* A request enters the caller's queue, or the call is refused.
LEMMA CallKeeps ==
  ASSUME ChannelInv, NEW c \in Calls, Caller[c] \in Sides, Call(c)
  PROVE  ChannelInv' /\ RemoteStep
<1> USE DEF ChannelInv
<1>0. FieldsTypeOK'
  BY CallTypes
<1>1. call[c] = "new" /\ returned[c] = "none" /\ UNCHANGED <<stored, task, handled, writer, pipe>>
  BY DEF Call, HandledOnce, answering
<1>2. CASE /\ call' = [call EXCEPT ![c] = "sending"]
           /\ sending' = [sending EXCEPT ![Caller[c]] = @ \cup {Message("request", c)}]
           /\ UNCHANGED returned
  <2>1. \A m : InTransit(m)' => InTransit(m) \/ m = Message("request", c)
    BY <1>1, <1>2 DEF InTransit, FieldsTypeOK
  <2>2. call' = [call EXCEPT ![c] = "sending"] /\ call \in [Calls -> {"new", "sending", "waiting", "returned"}]
    BY <1>2 DEF FieldsTypeOK
  <2>3. RequestsTravelOnce'
    <3> SUFFICES ASSUME NEW s \in Sides, NEW d \in Calls
                 PROVE  (LET m == Message("request", d) IN
                         /\ m \in sending[s] => s = Caller[d] /\ call[d] = "sending" /\ writer[s] # m
                         /\ m = writer[s] => s = Caller[d] /\ call[d] = "sending"
                         /\ \A i \in DOMAIN pipe[s] : pipe[s][i] = m =>
                              /\ call[d] \in {"waiting", "returned"}
                              /\ \A t \in Sides : \A j \in DOMAIN pipe[t] :
                                   pipe[t][j] = m => t = s /\ j = i)'
      BY DEF RequestsTravelOnce
    <3> DEFINE m == Message("request", d)
    <3>1. CASE d # c
      <4>1. m # Message("request", c)
        BY <3>1, MessageFacts DEF Kinds
      <4>2. m \in sending'[s] => m \in sending[s]
        BY <1>2, <4>1 DEF FieldsTypeOK
      <4>3. call'[d] = call[d] /\ UNCHANGED <<writer, pipe>>
        BY <1>1, <2>2, <3>1
      <4>. QED BY <4>2, <4>3 DEF RequestsTravelOnce
    <3>2. CASE d = c
      <4>1. /\ m \notin sending[s] /\ m # writer[s]
            /\ \A t \in Sides : \A j \in DOMAIN pipe[t] : pipe[t][j] # m
        BY <1>1, <3>2 DEF RequestsTravelOnce
      <4>2. m \in sending'[s] => s = Caller[c]
        BY <1>2, <4>1 DEF FieldsTypeOK
      <4>3. call'[c] = "sending"
        BY <2>2
      <4>. QED BY <1>1, <3>2, <4>1, <4>2, <4>3
    <3>. QED BY <3>1, <3>2
  <2>4. \A d \in Calls, k \in {"value", "error", "busy"} :
           InTransit(Message(k, d))' => InTransit(Message(k, d))
    BY <2>1, MessageFacts DEF Kinds
  <2>5. \A d \in Calls : Refused(d)' => Refused(d)
    BY <1>1, <1>2, <2>4 DEF Refused
  <2>6. \A d \in Calls \ {c} :
           InTransit(Message("request", d))' => InTransit(Message("request", d))
    BY <2>1, MessageFacts DEF Kinds
  <2>7. HandledOnce'
    BY <1>1, <1>2, <2>2, <2>5, <2>6 DEF HandledOnce
  <2>8. AnswersAreTheHandlers'
    BY <1>1, <2>4 DEF AnswersAreTheHandlers
  <2>9. Remote!Begin(c)
    BY <1>1, <1>2, <2>2 DEF Remote!Begin
  <2>. QED BY <1>0, <2>3, <2>7, <2>8, <2>9 DEF RemoteStep, Remote!Next, InProgress
<1>3. CASE /\ call' = [call EXCEPT ![c] = "returned"]
           /\ returned' = [returned EXCEPT ![c] = "unavailable"]
           /\ UNCHANGED <<pending, sending>>
  <2>1. \A m : InTransit(m)' <=> InTransit(m)
    BY <1>1, <1>3 DEF InTransit
  <2>2. /\ call'[c] = "returned" /\ returned'[c] = "unavailable"
        /\ \A d \in Calls \ {c} : call'[d] = call[d] /\ returned'[d] = returned[d]
    BY <1>3 DEF FieldsTypeOK
  <2>3. RequestsTravelOnce'
    BY <1>1, <1>3, <2>2 DEF RequestsTravelOnce
  <2>4. HandledOnce'
    BY <1>1, <2>1, <2>2 DEF HandledOnce, Refused
  <2>5. AnswersAreTheHandlers'
    BY <1>1, <2>1 DEF AnswersAreTheHandlers
  <2>6. Remote!Refuse(c)
    BY <1>1, <1>3, <2>2 DEF Remote!Refuse
  <2>. QED BY <1>0, <2>3, <2>4, <2>5, <2>6 DEF RemoteStep, Remote!Next, InProgress
<1>. QED BY <1>2, <1>3 DEF Call

\* A call that waits comes back: with what was stored for it, or with a failure.
LEMMA LeaveWaiting ==
  ASSUME ChannelInv, NEW c \in Calls, call[c] = "waiting", Return(c) \/ Timeout(c)
  PROVE  ChannelInv' /\ RemoteStep
<1> USE DEF ChannelInv
<1>0. FieldsTypeOK'
  BY LeaveTypes
<1>1. /\ UNCHANGED <<stored, task, handled, wire>>
      /\ call' = [call EXCEPT ![c] = "returned"]
  BY DEF Return, Timeout, Leave, answering
<1>2. PICK r : /\ returned' = [returned EXCEPT ![c] = r]
               /\ r \in {"lost", "timeout"} \/ (r = stored[c] /\ r # "none")
  BY DEF Return, Timeout, Leave
<1>3. /\ call'[c] = "returned" /\ returned'[c] = r
      /\ \A d \in Calls \ {c} : call'[d] = call[d] /\ returned'[d] = returned[d]
  BY <1>1, <1>2 DEF FieldsTypeOK
<1>4. \A m : InTransit(m)' <=> InTransit(m)
  BY <1>1 DEF InTransit, wire
<1>5. RequestsTravelOnce'
  BY <1>1, <1>3 DEF RequestsTravelOnce, wire
<1>6. r # "none" /\ (r = "busy" => stored[c] = "busy") /\ (r \in {"value", "error"} => stored[c] = r)
      /\ r \in Remote!Answers \cup Remote!Failures
  BY <1>2 DEF FieldsTypeOK, Remote!Answers, Remote!Failures
<1>7. HandledOnce'
  BY <1>1, <1>3, <1>4, <1>6 DEF HandledOnce, Refused
<1>8. AnswersAreTheHandlers'
  BY <1>1, <1>4 DEF AnswersAreTheHandlers
<1>9. Remote!Return(c, r)
  <2>1. r \in {"value", "error"} => handled[c] = r
    BY <1>6 DEF AnswersAreTheHandlers
  <2>2. r = "busy" => handled[c] = "none"
    BY <1>6 DEF HandledOnce, Refused
  <2>3. InProgress' = InProgress \ {c} /\ c \in InProgress
    BY <1>3 DEF InProgress
  <2>. QED BY <1>1, <1>2, <2>1, <2>2, <2>3 DEF Remote!Return, Remote!Answers, InProgress
<1>. QED BY <1>0, <1>5, <1>6, <1>7, <1>8, <1>9 DEF RemoteStep, Remote!Next, InProgress

\* A message that cannot be sent: its call is lost, its handler ends, or the
\* reader that wanted to refuse closes the channel.
LEMMA LostMessage ==
  ASSUME ChannelInv, FieldsTypeOK', NEW m \in Messages, SendFailed(m), UNCHANGED pipe,
         \A s \in Sides : /\ sending'[s] \subseteq sending[s]
                          /\ writer'[s] \in {writer[s], Vacant},
         m.kind = "request" =>
           /\ call[m.id] = "sending"
           /\ \A s \in Sides : m \notin sending'[s] /\ m # writer'[s],
         m.kind \in {"value", "error"} => handled[m.id] = m.kind
  PROVE  ChannelInv' /\ RemoteStep
<1> USE DEF ChannelInv
<1> DEFINE c == m.id
<1>0. c \in Calls /\ m = Message(m.kind, c)
  BY MessageFacts
<1>1. \A n \in Messages : InTransit(n)' => InTransit(n)
  BY MessageFacts DEF InTransit
<1>2. CASE m.kind = "request" /\ Leave(c, "lost") /\ UNCHANGED <<answering, ends>>
  <2>1. /\ call'[c] = "returned" /\ returned'[c] = "lost" /\ call[c] = "sending"
        /\ \A d \in Calls \ {c} : call'[d] = call[d] /\ returned'[d] = returned[d]
        /\ UNCHANGED <<stored, task, handled>>
        /\ returned' = [returned EXCEPT ![c] = "lost"]
    BY <1>0, <1>2 DEF Leave, FieldsTypeOK, answering
  <2>2. RequestsTravelOnce'
    <3> SUFFICES ASSUME NEW s \in Sides, NEW d \in Calls
                 PROVE  (LET n == Message("request", d) IN
                         /\ n \in sending[s] => s = Caller[d] /\ call[d] = "sending" /\ writer[s] # n
                         /\ n = writer[s] => s = Caller[d] /\ call[d] = "sending"
                         /\ \A i \in DOMAIN pipe[s] : pipe[s][i] = n =>
                              /\ call[d] \in {"waiting", "returned"}
                              /\ \A t \in Sides : \A j \in DOMAIN pipe[t] :
                                   pipe[t][j] = n => t = s /\ j = i)'
      BY DEF RequestsTravelOnce
    <3> DEFINE n == Message("request", d)
    <3>0. n # Vacant
      BY MessageFacts DEF Kinds
    <3>1. CASE d # c
      BY <2>1, <3>0, <3>1 DEF RequestsTravelOnce
    <3>2. CASE d = c
      <4>1. n \notin sending'[s] /\ n # writer'[s]
        BY <1>0, <1>2, <3>2
      <4>. QED BY <2>1, <3>2, <4>1 DEF RequestsTravelOnce
    <3>. QED BY <3>1, <3>2
  <2>3. \A d \in Calls, k \in Kinds : InTransit(Message(k, d))' => InTransit(Message(k, d))
    BY <1>1, MessageFacts
  <2>4. HandledOnce'
    BY <1>0, <2>1, <2>3 DEF HandledOnce, Refused, Kinds
  <2>5. AnswersAreTheHandlers'
    BY <2>1, <2>3 DEF AnswersAreTheHandlers, Kinds
  <2>6. Remote!Return(c, "lost")
    <3>1. InProgress' = InProgress \ {c} /\ c \in InProgress
      BY <1>0, <2>1 DEF InProgress
    <3>. QED BY <2>1, <3>1 DEF Remote!Return, Remote!Answers, InProgress
  <2>. QED BY <1>0, <2>2, <2>4, <2>5, <2>6
           DEF RemoteStep, Remote!Next, Remote!Failures, InProgress
<1>3. CASE m.kind # "request" /\ UNCHANGED <<call, returned, stored, handled>>
           /\ \A d \in Calls : \/ task'[d] = task[d]
                               \/ d = c /\ task'[d] = "ended" /\ m.kind \in {"value", "error"}
  <2>1. \A d \in Calls : task[d] \in {"none", "running"} => task'[d] = task[d]
    BY <1>0, <1>3 DEF HandledOnce
  <2>2. \A d \in Calls : task'[d] \in {"none", "running"} => task[d] = task'[d]
    BY <1>3
  <2>3. RequestsTravelOnce'
    <3>1. \A n \in Messages : \A s \in Sides : n \in sending'[s] => n \in sending[s]
      OBVIOUS
    <3>2. \A n \in Messages : \A s \in Sides : n = writer'[s] => n = writer[s]
      BY MessageFacts
    <3>3. \A d \in Calls : Message("request", d) \in Messages /\ Message("request", d) # Vacant
      BY MessageFacts DEF Kinds
    <3>. QED BY <1>3, <3>1, <3>2, <3>3 DEF RequestsTravelOnce
  <2>4. \A d \in Calls, k \in Kinds : InTransit(Message(k, d))' => InTransit(Message(k, d))
    BY <1>1, MessageFacts
  <2>5. \A d \in Calls : Refused(d)' => Refused(d)
    BY <1>3, <2>4 DEF Refused, Kinds
  <2>6. HandledOnce'
    BY <1>3, <2>1, <2>2, <2>4, <2>5 DEF HandledOnce, Kinds
  <2>7. AnswersAreTheHandlers'
    BY <1>3, <2>4 DEF AnswersAreTheHandlers, Kinds
  <2>. QED BY <1>3, <2>3, <2>6, <2>7 DEF RemoteStep, InProgress
<1>4. m.kind \in {"value", "error"} /\ EndTask(c) =>
        \A d \in Calls : \/ task'[d] = task[d]
                         \/ d = c /\ task'[d] = "ended" /\ m.kind \in {"value", "error"}
  BY DEF EndTask, FieldsTypeOK
<1>. QED BY <1>2, <1>3, <1>4 DEF SendFailed, callers, answering, MarkClosed

\* A thread takes the send lock and may find the channel closed.
LEMMA TakeSendLockKeeps ==
  ASSUME ChannelInv, NEW s \in Sides, NEW m \in sending[s], TakeSendLock(s, m), FieldsTypeOK'
  PROVE  ChannelInv' /\ RemoteStep
<1> USE DEF ChannelInv
<1>0. m \in Messages /\ m # Vacant /\ m.id \in Calls /\ m = Message(m.kind, m.id) /\ m.kind \in Kinds
  BY MessageFacts DEF FieldsTypeOK
<1>1. /\ \A t \in Sides \ {s} : sending'[t] = sending[t]
      /\ sending'[s] = sending[s] \ {m}
      /\ UNCHANGED pipe
  BY DEF TakeSendLock, FieldsTypeOK
<1>2. m.kind = "request" =>
        /\ s = Caller[m.id] /\ call[m.id] = "sending"
        /\ \A t \in Sides : m \notin sending'[t] /\ m # writer[t]
  BY <1>0, <1>1 DEF RequestsTravelOnce
<1>3. m.kind \in {"value", "error"} => handled[m.id] = m.kind
  BY <1>0 DEF AnswersAreTheHandlers, InTransit
<1>4. CASE SendFailed(m) /\ UNCHANGED writer
  <2>1. /\ \A t \in Sides : sending'[t] \subseteq sending[t] /\ writer'[t] \in {writer[t], Vacant}
        /\ m.kind = "request" =>
             call[m.id] = "sending" /\ \A t \in Sides : m \notin sending'[t] /\ m # writer'[t]
    BY <1>1, <1>2, <1>4
  <2>. QED BY <1>0, <1>1, <1>3, <1>4, <2>1, LostMessage
<1>5. CASE writer' = [writer EXCEPT ![s] = m] /\ UNCHANGED <<callers, answering, ends>>
  <2>1. /\ writer'[s] = m /\ \A t \in Sides \ {s} : writer'[t] = writer[t]
        /\ UNCHANGED <<call, returned, stored, task, handled>>
    BY <1>5 DEF FieldsTypeOK, callers, answering
  <2>2. \A n : InTransit(n)' => InTransit(n)
    BY <1>1, <2>1 DEF InTransit
  <2>3. RequestsTravelOnce'
    BY <1>0, <1>1, <1>2, <2>1 DEF RequestsTravelOnce
  <2>4. HandledOnce'
    BY <2>1, <2>2 DEF HandledOnce, Refused
  <2>5. AnswersAreTheHandlers'
    BY <2>1, <2>2 DEF AnswersAreTheHandlers
  <2>. QED BY <2>1, <2>3, <2>4, <2>5 DEF RemoteStep, InProgress
<1>. QED BY <1>4, <1>5 DEF TakeSendLock

\* The message reaches the pipe, or the peer has shut it down.
LEMMA SendBytesKeeps ==
  ASSUME ChannelInv, NEW s \in Sides, SendBytes(s), FieldsTypeOK'
  PROVE  ChannelInv' /\ RemoteStep
<1> USE DEF ChannelInv
<1> DEFINE m == writer[s]
           p == Peer(s)
<1>0. m \in Messages /\ m # Vacant /\ m.id \in Calls /\ m = Message(m.kind, m.id) /\ m.kind \in Kinds
  BY MessageFacts DEF FieldsTypeOK, SendBytes
<1>1. /\ \A t \in Sides \ {s} : writer'[t] = writer[t]
      /\ writer'[s] = Vacant
      /\ UNCHANGED sending
  BY DEF SendBytes, FieldsTypeOK
<1>2. m.kind = "request" =>
        /\ call[m.id] = "sending"
        /\ \A t \in Sides : m \notin sending[t] /\ m # writer'[t]
  BY <1>0, <1>1 DEF RequestsTravelOnce
<1>3. m.kind \in {"value", "error"} => handled[m.id] = m.kind
  BY <1>0 DEF AnswersAreTheHandlers, InTransit
<1>4. CASE SendFailed(m) /\ UNCHANGED pipe
  <2>1. /\ \A t \in Sides : sending'[t] \subseteq sending[t] /\ writer'[t] \in {writer[t], Vacant}
        /\ m.kind = "request" =>
             call[m.id] = "sending" /\ \A t \in Sides : m \notin sending'[t] /\ m # writer'[t]
    BY <1>1, <1>2
  <2>. QED BY <1>0, <1>3, <1>4, <2>1, LostMessage
<1>5. CASE /\ pipe' = [pipe EXCEPT ![p] = Append(@, m)]
           /\ \/ /\ m.kind = "request"
                 /\ call' = [call EXCEPT ![m.id] = "waiting"]
                 /\ UNCHANGED <<returned, stored, woken, pending, answering>>
              \/ /\ m.kind \in {"value", "error"}
                 /\ EndTask(m.id)
                 /\ UNCHANGED <<callers, handled>>
              \/ /\ m.kind = "busy"
                 /\ UNCHANGED <<callers, answering>>
  <2> DEFINE c == m.id
  <2>1. \A t \in Sides : \A i \in DOMAIN pipe'[t] :
          \/ i \in DOMAIN pipe[t] /\ pipe'[t][i] = pipe[t][i]
          \/ t = p /\ i = Len(pipe[t]) + 1 /\ pipe'[t][i] = m
    <3> SUFFICES ASSUME NEW t \in Sides
                 PROVE  \A i \in DOMAIN pipe'[t] :
                          \/ i \in DOMAIN pipe[t] /\ pipe'[t][i] = pipe[t][i]
                          \/ t = p /\ i = Len(pipe[t]) + 1 /\ pipe'[t][i] = m
      OBVIOUS
    <3>1. pipe \in [Sides -> Seq(Messages)] /\ pipe[t] \in Seq(Messages)
      BY DEF FieldsTypeOK
    <3> HIDE DEF p, m
    <3>2. CASE t # p
      BY <1>5, <3>1, <3>2
    <3>3. CASE t = p
      <4>1. pipe'[t] = Append(pipe[t], m)
        BY <1>5, <3>1, <3>3
      <4>. QED BY <1>0, <3>1, <3>3, <4>1, PipeAppend
    <3>. QED BY <3>2, <3>3
  <2>2. \A n \in Messages : InTransit(n)' => InTransit(n)
    BY <1>0, <1>1, <2>1, MessageFacts DEF InTransit
  <2>3. \A d \in Calls, k \in Kinds : InTransit(Message(k, d))' => InTransit(Message(k, d))
    BY <2>2, MessageFacts
  <2>4. CASE m.kind = "request"
    <3>1. /\ call[c] = "sending" /\ call'[c] = "waiting"
          /\ \A d \in Calls \ {c} : call'[d] = call[d]
          /\ UNCHANGED <<returned, stored, task, handled>>
      BY <1>0, <1>2, <1>5, <2>4 DEF FieldsTypeOK, answering
    <3>2. RequestsTravelOnce'
      <4> SUFFICES ASSUME NEW t \in Sides, NEW d \in Calls
                   PROVE  (LET n == Message("request", d) IN
                           /\ n \in sending[t] => t = Caller[d] /\ call[d] = "sending" /\ writer[t] # n
                           /\ n = writer[t] => t = Caller[d] /\ call[d] = "sending"
                           /\ \A i \in DOMAIN pipe[t] : pipe[t][i] = n =>
                                /\ call[d] \in {"waiting", "returned"}
                                /\ \A v \in Sides : \A j \in DOMAIN pipe[v] :
                                     pipe[v][j] = n => v = t /\ j = i)'
        BY DEF RequestsTravelOnce
      <4> DEFINE n == Message("request", d)
      <4> HIDE DEF p
      <4>0. n # Vacant
        BY MessageFacts DEF Kinds
      <4>1. CASE d = c
        <5>1. n = m
          BY <1>0, <2>4, <4>1
        <5>2. \A v \in Sides : \A j \in DOMAIN pipe[v] : pipe[v][j] # n
          BY <3>1, <4>1 DEF RequestsTravelOnce
        <5>3. n \notin sending'[t] /\ n # writer'[t]
          BY <1>1, <1>2, <2>4, <5>1
        <5>4. \A v \in Sides : \A j \in DOMAIN pipe'[v] : pipe'[v][j] = n => v = p /\ j = Len(pipe[p]) + 1
          BY <2>1, <5>2
        <5>. QED BY <3>1, <4>1, <5>3, <5>4
      <4>2. CASE d # c
        <5>1. n # m
          BY <1>0, <4>2, MessageFacts DEF Kinds
        <5>2. /\ n \in sending'[t] => n \in sending[t]
              /\ n = writer'[t] => n = writer[t]
              /\ n = writer[t] => n = writer'[t]
          BY <1>1, <4>0, <5>1
        <5>3. \A v \in Sides : \A j \in DOMAIN pipe'[v] : pipe'[v][j] = n =>
                j \in DOMAIN pipe[v] /\ pipe[v][j] = n
          BY <2>1, <5>1
        <5>. QED BY <3>1, <4>2, <5>2, <5>3 DEF RequestsTravelOnce
      <4>. QED BY <4>1, <4>2
    <3>3. HandledOnce'
      BY <1>0, <2>3, <3>1 DEF HandledOnce, Refused, Kinds
    <3>4. AnswersAreTheHandlers'
      BY <2>3, <3>1 DEF AnswersAreTheHandlers, Kinds
    <3>5. InProgress' = InProgress
      BY <3>1 DEF InProgress
    <3>. QED BY <3>1, <3>2, <3>3, <3>4, <3>5 DEF RemoteStep
  <2>5. CASE m.kind # "request"
    <3>1. /\ UNCHANGED <<call, returned, stored, handled>>
          /\ \A d \in Calls : \/ task'[d] = task[d]
                              \/ d = c /\ task'[d] = "ended" /\ m.kind \in {"value", "error"}
      BY <1>5, <2>5 DEF EndTask, FieldsTypeOK, callers, answering
    <3>2. \A d \in Calls : \/ task'[d] = task[d]
                           \/ task[d] = "replying" /\ task'[d] = "ended"
                           \/ task[d] = "ended" /\ task'[d] = "ended"
      <4>1. m.kind \in {"value", "error"} => task[c] \in {"replying", "ended"}
        BY <1>0, <1>3 DEF HandledOnce, FieldsTypeOK
      <4>. QED BY <3>1, <4>1
    <3>3. RequestsTravelOnce'
      <4> HIDE DEF p
      <4>1. \A d \in Calls : Message("request", d) # m /\ Message("request", d) # Vacant
        BY <2>5, MessageFacts DEF Kinds
      <4>2. \A d \in Calls : \A v \in Sides : \A j \in DOMAIN pipe'[v] :
              pipe'[v][j] = Message("request", d) =>
                j \in DOMAIN pipe[v] /\ pipe[v][j] = Message("request", d)
        BY <2>1, <4>1
      <4>3. \A d \in Calls : \A v \in Sides :
              Message("request", d) = writer'[v] <=> Message("request", d) = writer[v]
        BY <1>1, <4>1
      <4>. QED BY <1>1, <3>1, <4>2, <4>3 DEF RequestsTravelOnce
    <3>4. HandledOnce'
      BY <2>3, <3>1, <3>2 DEF HandledOnce, Refused, Kinds
    <3>5. AnswersAreTheHandlers'
      BY <2>3, <3>1 DEF AnswersAreTheHandlers, Kinds
    <3>. QED BY <3>1, <3>3, <3>4, <3>5 DEF RemoteStep, InProgress
  <2>. QED BY <2>4, <2>5
<1>. QED BY <1>4, <1>5 DEF SendBytes

\* A handler computes its answer, once.
LEMMA AnswerKeeps ==
  ASSUME ChannelInv, NEW c \in Calls, Answer(c), FieldsTypeOK'
  PROVE  ChannelInv' /\ RemoteStep
<1> USE DEF ChannelInv
<1>1. PICK a \in {"value", "error"} :
        /\ handled' = [handled EXCEPT ![c] = a]
        /\ sending' = [sending EXCEPT ![Peer(Caller[c])] = @ \cup {Message(a, c)}]
  BY DEF Answer
<1>2. /\ task[c] = "running" /\ task'[c] = "replying" /\ handled[c] = "none" /\ handled'[c] = a
      /\ \A d \in Calls \ {c} : task'[d] = task[d] /\ handled'[d] = handled[d]
      /\ UNCHANGED <<call, returned, stored, writer, pipe>>
  BY <1>1 DEF Answer, FieldsTypeOK, HandledOnce, callers
<1>3. Message(a, c) \in Messages /\ \A k \in Kinds, d \in Calls : Message(k, d) = Message(a, c) => k = a /\ d = c
  BY MessageFacts DEF Kinds
<1>4. \A s \in Sides : \A n \in sending'[s] : n \in sending[s] \/ n = Message(a, c)
  <2> HIDE DEF Peer
  <2>. QED BY <1>1 DEF FieldsTypeOK
<1>5. \A n : InTransit(n)' => InTransit(n) \/ n = Message(a, c)
  BY <1>2, <1>4 DEF InTransit
<1>6. \A d \in Calls, k \in {"request", "busy"} :
        InTransit(Message(k, d))' => InTransit(Message(k, d))
  BY <1>3, <1>5 DEF Kinds
<1>7. RequestsTravelOnce'
  <2>1. \A s \in Sides, d \in Calls : Message("request", d) \in sending'[s] => Message("request", d) \in sending[s]
    BY <1>3, <1>4 DEF Kinds
  <2>. QED BY <1>2, <2>1 DEF RequestsTravelOnce
<1>8. HandledOnce'
  BY <1>2, <1>6 DEF HandledOnce, Refused
<1>9. AnswersAreTheHandlers'
  <2> SUFFICES ASSUME NEW d \in Calls, NEW b \in {"value", "error"},
                      InTransit(Message(b, d))' \/ stored'[d] = b
               PROVE  handled'[d] = b
    BY DEF AnswersAreTheHandlers
  <2>1. CASE d # c
    BY <1>2, <1>3, <1>5, <2>1 DEF AnswersAreTheHandlers, Kinds
  <2>2. CASE d = c
    <3>1. ~InTransit(Message(b, c)) /\ stored[c] # b
      BY <1>2 DEF AnswersAreTheHandlers
    <3>. QED BY <1>2, <1>3, <1>5, <2>2, <3>1 DEF Kinds
  <2>. QED BY <2>1, <2>2
<1>10. Remote!Handle(c, a)
  <2>1. returned[c] # "busy" /\ (call[c] # "returned" => c \in InProgress)
    BY <1>2 DEF HandledOnce, Refused, FieldsTypeOK, InProgress
  <2>2. call[c] = "returned" => returned[c] # "none"
    BY DEF HandledOnce
  <2>. QED BY <1>1, <1>2, <2>1, <2>2 DEF Remote!Handle, InProgress
<1>. QED BY <1>7, <1>8, <1>9, <1>10 DEF RemoteStep, Remote!Next, Remote!Answers, InProgress

\* What a side that shuts down has not read is gone.
LEMMA ShutDownKeeps ==
  ASSUME ChannelInv, NEW s \in Sides, ShutDown(s), FieldsTypeOK'
  PROVE  ChannelInv' /\ RemoteStep
<1> USE DEF ChannelInv
<1>1. /\ pipe'[s] = <<>> /\ \A t \in Sides \ {s} : pipe'[t] = pipe[t]
      /\ UNCHANGED <<call, returned, stored, task, handled, sending, writer>>
  BY DEF ShutDown, FieldsTypeOK, callers, answering
<1>2. \A t \in Sides : \A i \in DOMAIN pipe'[t] : i \in DOMAIN pipe[t] /\ pipe'[t][i] = pipe[t][i]
  BY <1>1
<1>3. \A n : InTransit(n)' => InTransit(n)
  BY <1>1, <1>2 DEF InTransit
<1>4. RequestsTravelOnce'
  BY <1>1, <1>2 DEF RequestsTravelOnce
<1>5. HandledOnce'
  BY <1>1, <1>3 DEF HandledOnce, Refused
<1>6. AnswersAreTheHandlers'
  BY <1>1, <1>3 DEF AnswersAreTheHandlers
<1>. QED BY <1>1, <1>4, <1>5, <1>6 DEF RemoteStep, InProgress

\* The reader takes the next message: a request is handled or refused, an
\* answer is stored if somebody still waits for it.
LEMMA ReadKeeps ==
  ASSUME ChannelInv, NEW s \in Sides, Read(s), FieldsTypeOK'
  PROVE  ChannelInv' /\ RemoteStep
<1> USE DEF ChannelInv
<1>m. PICK m \in Messages : m = Head(pipe[s])
  BY PipeTail DEF Read, FieldsTypeOK
<1> DEFINE c == m.id
<1>1. /\ pipe[s] # <<>> /\ pipe[s] \in Seq(Messages)
      /\ pipe'[s] = Tail(pipe[s]) /\ \A t \in Sides \ {s} : pipe'[t] = pipe[t]
      /\ UNCHANGED writer
  BY DEF Read, FieldsTypeOK
<1>2. /\ m \in Messages /\ m # Vacant /\ c \in Calls /\ m = Message(m.kind, c) /\ m.kind \in Kinds
      /\ 1 \in DOMAIN pipe[s] /\ pipe[s][1] = m /\ InTransit(m)
  BY <1>m, <1>1, PipeTail, MessageFacts DEF InTransit
<1>3. \A i \in DOMAIN pipe'[s] : i \in Nat /\ i + 1 \in DOMAIN pipe[s] /\ pipe'[s][i] = pipe[s][i + 1]
  BY <1>1, PipeTail
<1>4. \A t \in Sides : \A i \in DOMAIN pipe'[t] : \E j \in DOMAIN pipe[t] : pipe[t][j] = pipe'[t][i]
  BY <1>1, <1>3
<1>5. /\ call' = call /\ returned' = returned /\ handled' = handled
  BY DEF Read, Dispatch, Store, MarkClosed, callers, answering
\* A request that has been read is nowhere else.
<1>6. m.kind = "request" => \A t \in Sides :
        m \notin sending[t] /\ m # writer[t] /\ \A j \in DOMAIN pipe'[t] : pipe'[t][j] # m
  <2> SUFFICES ASSUME m.kind = "request", NEW t \in Sides
               PROVE  m \notin sending[t] /\ m # writer[t] /\ \A j \in DOMAIN pipe'[t] : pipe'[t][j] # m
    OBVIOUS
  <2>1. call[c] \in {"waiting", "returned"}
    BY <1>2 DEF RequestsTravelOnce
  <2>2. m \notin sending[t] /\ m # writer[t]
    BY <1>2, <2>1 DEF RequestsTravelOnce
  <2>3. ASSUME NEW v \in Sides, NEW j \in DOMAIN pipe[v], pipe[v][j] = m PROVE v = s /\ j = 1
    BY <1>2, <2>3 DEF RequestsTravelOnce
  <2>4. ASSUME NEW j \in DOMAIN pipe'[t], pipe'[t][j] = m PROVE FALSE
    <3>1. CASE t = s
      <4>1. j \in Nat /\ j + 1 = 1 /\ j \in DOMAIN Tail(pipe[s])
        BY <1>1, <1>3, <2>3, <2>4, <3>1
      <4>2. j \in 1..Len(Tail(pipe[s]))
        BY <1>1, <4>1, PipeTail
      <4>. QED BY <4>1, <4>2
    <3>2. CASE t # s
      BY <1>1, <2>3, <2>4, <3>2
    <3>. QED BY <3>1, <3>2
  <2>. QED BY <2>2, <2>4
\* What is left in the pipes stays unique.
<1>7. ASSUME \A t \in Sides, d \in Calls : Message("request", d) \in sending'[t] => Message("request", d) \in sending[t]
      PROVE  RequestsTravelOnce'
  <2> SUFFICES ASSUME NEW t \in Sides, NEW d \in Calls
               PROVE  (LET n == Message("request", d) IN
                       /\ n \in sending[t] => t = Caller[d] /\ call[d] = "sending" /\ writer[t] # n
                       /\ n = writer[t] => t = Caller[d] /\ call[d] = "sending"
                       /\ \A i \in DOMAIN pipe[t] : pipe[t][i] = n =>
                            /\ call[d] \in {"waiting", "returned"}
                            /\ \A v \in Sides : \A j \in DOMAIN pipe[v] :
                                 pipe[v][j] = n => v = t /\ j = i)'
    BY DEF RequestsTravelOnce
  <2> DEFINE n == Message("request", d)
  <2>1. /\ n \in sending'[t] => t = Caller[d] /\ call'[d] = "sending" /\ writer'[t] # n
        /\ n = writer'[t] => t = Caller[d] /\ call'[d] = "sending"
    BY <1>1, <1>5, <1>7 DEF RequestsTravelOnce
  <2>2. ASSUME NEW i \in DOMAIN pipe'[t], pipe'[t][i] = n
        PROVE  /\ call'[d] \in {"waiting", "returned"}
               /\ \A v \in Sides : \A j \in DOMAIN pipe'[v] : pipe'[v][j] = n => v = t /\ j = i
    <3>1. PICK k \in DOMAIN pipe[t] : pipe[t][k] = n /\ k = IF t = s THEN i + 1 ELSE i
      BY <1>1, <1>3, <2>2
    <3>2. /\ call[d] \in {"waiting", "returned"}
          /\ \A v \in Sides : \A j \in DOMAIN pipe[v] : pipe[v][j] = n => v = t /\ j = k
      BY <3>1 DEF RequestsTravelOnce
    <3>3. ASSUME NEW v \in Sides, NEW j \in DOMAIN pipe'[v], pipe'[v][j] = n PROVE v = t /\ j = i
      <4>1. PICK l \in DOMAIN pipe[v] : pipe[v][l] = n /\ l = IF v = s THEN j + 1 ELSE j
        BY <1>1, <1>3, <3>3
      <4>2. v = t /\ l = k
        BY <3>2, <4>1
      <4>3. t = s => i \in Nat /\ j \in Nat
        BY <1>3, <4>2
      <4>. QED BY <3>1, <4>1, <4>2, <4>3
    <3>. QED BY <1>5, <3>2, <3>3
  <2>. QED BY <2>1, <2>2
<1>8. CASE m.kind = "request" /\ Cardinality(answers[s]) >= MaxAnswers
  <2> DEFINE n == Message("busy", c)
  <2>1. /\ sending' = [sending EXCEPT ![s] = @ \cup {n}]
        /\ UNCHANGED <<stored, task>>
    BY <1>m, <1>8 DEF Read, Dispatch, callers, answering
  <2>2. \A t \in Sides : \A x \in sending'[t] : x \in sending[t] \/ x = n
    BY <2>1 DEF FieldsTypeOK
  <2>3. \A x : InTransit(x)' => InTransit(x) \/ x = n
    BY <1>1, <1>4, <2>2 DEF InTransit
  <2>4. \A d \in Calls, k \in Kinds : Message(k, d) = n => k = "busy" /\ d = c
    BY <1>2, MessageFacts DEF Kinds
  <2>5. RequestsTravelOnce'
    BY <1>7, <2>2, <2>4 DEF Kinds
  <2>6. ~InTransit(m)'
    BY <1>1, <1>2, <1>6, <1>8, <2>2, <2>4 DEF InTransit, Kinds
  <2>7. task[c] = "none" /\ call[c] # "new"
    BY <1>2, <1>8 DEF HandledOnce, RequestsTravelOnce
  <2>8. HandledOnce'
    <3> SUFFICES ASSUME NEW d \in Calls
                 PROVE  /\ returned'[d] = "none" <=> call'[d] # "returned"
                        /\ call'[d] = "new" => task'[d] = "none" /\ ~Refused(d)'
                        /\ InTransit(Message("request", d))' => task'[d] = "none" /\ ~Refused(d)'
                        /\ Refused(d)' => task'[d] = "none"
                        /\ task'[d] \in {"none", "running"} => handled'[d] = "none"
      BY DEF HandledOnce
    <3>1. CASE d = c
      BY <1>2, <1>5, <1>8, <2>1, <2>6, <2>7, <3>1 DEF HandledOnce
    <3>2. CASE d # c
      <4>1. Refused(d)' => Refused(d)
        BY <1>5, <2>1, <2>3, <2>4, <3>2 DEF Refused, Kinds
      <4>2. InTransit(Message("request", d))' => InTransit(Message("request", d))
        BY <2>3, <2>4 DEF Kinds
      <4>. QED BY <1>5, <2>1, <4>1, <4>2 DEF HandledOnce
    <3>. QED BY <3>1, <3>2
  <2>9. AnswersAreTheHandlers'
    BY <1>5, <2>1, <2>3, <2>4 DEF AnswersAreTheHandlers, Kinds
  <2>. QED BY <1>5, <2>5, <2>8, <2>9 DEF RemoteStep, InProgress
<1>9. CASE m.kind = "request" /\ ~(Cardinality(answers[s]) >= MaxAnswers)
  <2>1. /\ UNCHANGED <<stored, sending>>
        /\ UNCHANGED task \/ task' = [task EXCEPT ![c] = "running"]
    BY <1>m, <1>9 DEF Read, Dispatch, MarkClosed, callers, answering
  <2>2. \A x : InTransit(x)' => InTransit(x)
    BY <1>1, <1>4, <2>1 DEF InTransit
  <2>3. RequestsTravelOnce'
    BY <1>7, <2>1
  <2>4. ~InTransit(m)'
    BY <1>1, <1>6, <1>9, <2>1 DEF InTransit
  <2>5. task[c] = "none" /\ ~Refused(c) /\ call[c] # "new" /\ handled[c] = "none"
    BY <1>2, <1>9 DEF HandledOnce, RequestsTravelOnce
  <2>6. \A d \in Calls : Refused(d)' => Refused(d)
    BY <1>5, <2>1, <2>2 DEF Refused
  <2>7. /\ task'[c] \in {"none", "running"}
        /\ \A d \in Calls \ {c} : task'[d] = task[d]
    BY <1>2, <2>1, <2>5 DEF FieldsTypeOK
  <2>8. HandledOnce'
    <3> SUFFICES ASSUME NEW d \in Calls
                 PROVE  /\ returned'[d] = "none" <=> call'[d] # "returned"
                        /\ call'[d] = "new" => task'[d] = "none" /\ ~Refused(d)'
                        /\ InTransit(Message("request", d))' => task'[d] = "none" /\ ~Refused(d)'
                        /\ Refused(d)' => task'[d] = "none"
                        /\ task'[d] \in {"none", "running"} => handled'[d] = "none"
      BY DEF HandledOnce
    <3>1. CASE d = c
      BY <1>2, <1>5, <1>9, <2>4, <2>5, <2>6, <2>7, <3>1 DEF HandledOnce
    <3>2. CASE d # c
      BY <1>5, <2>2, <2>6, <2>7, <3>2 DEF HandledOnce
    <3>. QED BY <3>1, <3>2
  <2>9. AnswersAreTheHandlers'
    BY <1>5, <2>1, <2>2 DEF AnswersAreTheHandlers
  <2>. QED BY <1>5, <2>3, <2>8, <2>9 DEF RemoteStep, InProgress
<1>10. CASE m.kind # "request"
  <2>1. /\ UNCHANGED <<task, sending>>
        /\ UNCHANGED stored \/ stored' = [stored EXCEPT ![c] = m.kind]
    BY <1>m, <1>10 DEF Read, Store, answering
  <2>2. \A x : InTransit(x)' => InTransit(x)
    BY <1>1, <1>4, <2>1 DEF InTransit
  <2>3. RequestsTravelOnce'
    BY <1>7, <2>1
  <2>4. \A d \in Calls : stored'[d] = stored[d] \/ (d = c /\ stored'[d] = m.kind)
    <3>1. stored \in [Calls -> {"none", "value", "error", "busy"}]
      BY DEF FieldsTypeOK
    <3>2. CASE stored' = [stored EXCEPT ![c] = m.kind]
      BY <3>1, <3>2
    <3>. QED BY <2>1, <3>2
  <2>5. \A d \in Calls : Refused(d)' => Refused(d)
    BY <1>2, <1>5, <2>2, <2>4 DEF Refused
  <2>6. HandledOnce'
    BY <1>5, <2>1, <2>2, <2>5 DEF HandledOnce
  <2>7. AnswersAreTheHandlers'
    BY <1>2, <1>5, <2>2, <2>4 DEF AnswersAreTheHandlers
  <2>. QED BY <1>5, <2>3, <2>6, <2>7 DEF RemoteStep, InProgress
<1>. QED BY <1>8, <1>9, <1>10

(***************************************************************************)
(* Every step.                                                             *)
(***************************************************************************)

\* Fields keep their types: what enters a pipe, a queue or the result of a
\* call is a message or a result.
LEMMA TypesNext ==
  ASSUME ChannelAssumption, FieldsTypeOK, ChannelNext
  PROVE  FieldsTypeOK'
<1> USE DEF FieldsTypeOK
<1>0. /\ \A c \in Calls : Caller[c] \in Sides /\ Peer(Caller[c]) \in Sides
      /\ \A s \in Sides : Peer(s) \in Sides
  BY PeerIsASide DEF ChannelAssumption
<1>1. ASSUME NEW m \in Messages, SendFailed(m)
      PROVE  /\ call' \in [Calls -> {"new", "sending", "waiting", "returned"}]
             /\ returned' \in [Calls -> {"none", "value", "error", "busy", "unavailable", "timeout", "lost"}]
             /\ stored' \in [Calls -> {"none", "value", "error", "busy"}]
             /\ woken' \subseteq Calls
             /\ pending' \in [Sides -> SUBSET Calls]
             /\ answers' \in [Sides -> SUBSET Calls]
             /\ task' \in [Calls -> {"none", "running", "replying", "ended"}]
             /\ handled' \in [Calls -> {"none", "value", "error"}]
             /\ shut' \subseteq closed' /\ closed' \subseteq Sides
  <2>1. CASE m.kind = "request" /\ Leave(m.id, "lost") /\ UNCHANGED <<answering, ends>>
    BY <2>1 DEF Leave, answering, ends
  <2>2. CASE m.kind \in {"value", "error"} /\ EndTask(m.id) /\ UNCHANGED <<callers, handled, ends>>
    BY <2>2 DEF EndTask, callers, ends
  <2>3. CASE /\ m.kind = "busy" /\ MarkClosed(Sender(m))
             /\ UNCHANGED <<call, returned, stored, pending, answering, shut>>
    <3>1. Sender(m) \in Sides
      BY <1>0, MessageFacts DEF Sender
    <3>. QED BY <2>3, <3>1 DEF MarkClosed, answering
  <2>. QED BY <1>1, <2>1, <2>2, <2>3 DEF SendFailed
<1>2. ASSUME NEW c \in Calls, Call(c) PROVE FieldsTypeOK'
  BY <1>0, <1>2, CallTypes
<1>3. ASSUME NEW c \in Calls, Return(c) \/ Timeout(c) PROVE FieldsTypeOK'
  BY <1>3, LeaveTypes
<1>4. ASSUME NEW c \in Calls, Answer(c) PROVE FieldsTypeOK'
  <2>1. PICK a \in {"value", "error"} :
          /\ handled' = [handled EXCEPT ![c] = a]
          /\ sending' = [sending EXCEPT ![Peer(Caller[c])] = @ \cup {Message(a, c)}]
    BY <1>4 DEF Answer
  <2>2. Message(a, c) \in Messages
    BY MessageFacts DEF Kinds
  <2> DEFINE v == sending[Peer(Caller[c])] \cup {Message(a, c)}
  <2>3. v \in SUBSET Messages
    BY <1>0, <2>2
  <2>4. sending' = [sending EXCEPT ![Peer(Caller[c])] = v]
    BY <2>1
  <2> HIDE DEF v
  <2>5. sending' \in [Sides -> SUBSET Messages]
    BY <2>3, <2>4
  <2>. QED BY <1>4, <2>1, <2>5 DEF Answer, callers, ends
<1>5. ASSUME NEW s \in Sides, NEW m \in sending[s], TakeSendLock(s, m) PROVE FieldsTypeOK'
  <2>0. m \in Messages
    OBVIOUS
  <2>1. /\ sending' \in [Sides -> SUBSET Messages]
        /\ UNCHANGED <<pipe, receiving>>
    BY <1>5 DEF TakeSendLock
  <2>2. CASE SendFailed(m) /\ UNCHANGED writer
    BY <1>1, <2>0, <2>1, <2>2
  <2>3. CASE writer' = [writer EXCEPT ![s] = m] /\ UNCHANGED <<callers, answering, ends>>
    BY <2>0, <2>1, <2>3 DEF callers, answering, ends
  <2>. QED BY <1>5, <2>2, <2>3 DEF TakeSendLock
<1>6. ASSUME NEW s \in Sides, SendBytes(s) PROVE FieldsTypeOK'
  <2>0. PICK m \in Messages : m = writer[s]
    BY <1>6 DEF SendBytes
  <2>1. /\ writer' \in [Sides -> Messages \cup {Vacant}]
        /\ UNCHANGED <<sending, receiving>>
    BY <1>6 DEF SendBytes
  <2>2. CASE SendFailed(m) /\ UNCHANGED pipe
    BY <1>1, <2>0, <2>1, <2>2
  <2>3. CASE /\ pipe' = [pipe EXCEPT ![Peer(s)] = Append(@, m)]
             /\ UNCHANGED ends
             /\ \/ call' = [call EXCEPT ![m.id] = "waiting"] /\ UNCHANGED <<returned, stored, woken, pending, answering>>
                \/ EndTask(m.id) /\ UNCHANGED <<callers, handled>>
                \/ UNCHANGED <<callers, answering>>
    <3>1. pipe' \in [Sides -> Seq(Messages)]
      <4>1. Append(pipe[Peer(s)], m) \in Seq(Messages)
        BY <1>0, PipeAppend
      <4>. QED BY <2>3, <4>1
    <3>2. CASE call' = [call EXCEPT ![m.id] = "waiting"] /\ UNCHANGED <<returned, stored, woken, pending, answering>>
      BY <2>1, <2>3, <3>1, <3>2 DEF answering, ends
    <3>3. CASE EndTask(m.id) /\ UNCHANGED <<callers, handled>>
      BY <2>1, <2>3, <3>1, <3>3 DEF EndTask, callers, ends
    <3>4. CASE UNCHANGED <<callers, answering>>
      BY <2>1, <2>3, <3>1, <3>4 DEF callers, answering, ends
    <3>. QED BY <2>3, <3>2, <3>3, <3>4
  <2>. QED BY <1>6, <2>0, <2>2, <2>3 DEF SendBytes
<1>7. ASSUME NEW s \in Sides, Read(s) PROVE FieldsTypeOK'
  <2>0. PICK m \in Messages : m = Head(pipe[s])
    BY <1>7, PipeTail DEF Read
  <2>1. /\ pipe' \in [Sides -> Seq(Messages)] /\ receiving' \subseteq Sides
        /\ UNCHANGED writer
    <3>1. Tail(pipe[s]) \in Seq(Messages)
      BY <1>7, PipeTail DEF Read
    <3>. QED BY <1>7, <3>1 DEF Read
  <2>2. m.id \in Calls /\ Message("busy", m.id) \in Messages
    BY MessageFacts DEF Kinds
  <2>3. CASE m.kind = "request" /\ Dispatch(s, m.id)
    <3>1. CASE /\ sending' = [sending EXCEPT ![s] = @ \cup {Message("busy", m.id)}]
               /\ UNCHANGED <<callers, answering, ends>>
      <4> DEFINE v == sending[s] \cup {Message("busy", m.id)}
      <4>1. v \in SUBSET Messages /\ sending' = [sending EXCEPT ![s] = v]
        BY <2>2, <3>1
      <4> HIDE DEF v
      <4>2. sending' \in [Sides -> SUBSET Messages]
        BY <4>1
      <4>. QED BY <2>1, <3>1, <4>2 DEF callers, answering, ends
    <3>2. CASE /\ task' = [task EXCEPT ![m.id] = "running"]
               /\ answers' = [answers EXCEPT ![s] = @ \cup {m.id}]
               /\ UNCHANGED <<callers, handled, sending, ends>>
      BY <2>1, <2>2, <3>2 DEF callers, ends
    <3>3. CASE MarkClosed(s) /\ UNCHANGED <<call, returned, stored, pending, answering, sending, shut>>
      BY <2>1, <3>3 DEF MarkClosed, answering
    <3>. QED BY <2>3, <3>1, <3>2, <3>3 DEF Dispatch
  <2>4. CASE m.kind # "request" /\ Store(s, m) /\ UNCHANGED <<answering, sending, ends>>
    <3>1. m.kind \in {"value", "error", "busy"}
      <4>1. m.kind \in Kinds
        BY MessageFacts
      <4>2. m.kind # "request"
        BY <2>4
      <4>. HIDE DEF FieldsTypeOK
      <4>. QED BY <4>1, <4>2 DEF Kinds
    <3>2. UNCHANGED <<call, returned, pending, answers, task, handled, sending, closed, shut>>
      BY <2>4 DEF Store, answering, ends
    <3>3. /\ stored' \in [Calls -> {"none", "value", "error", "busy"}]
          /\ woken' \subseteq Calls
      <4>1. CASE m.id \in pending[s]
        <5>1. stored' = [stored EXCEPT ![m.id] = m.kind] /\ woken' = woken \cup {m.id}
          BY <2>4, <4>1 DEF Store
        <5>. QED BY <2>2, <3>1, <5>1
      <4>2. CASE m.id \notin pending[s]
        BY <2>4, <4>2 DEF Store
      <4>. QED BY <4>1, <4>2
    <3>. QED BY <2>1, <3>2, <3>3
  <2>. QED BY <1>7, <2>0, <2>3, <2>4 DEF Read
<1>8. ASSUME NEW s \in Sides, Receive(s) \/ EndOfStream(s) \/ Close(s) \/ ShutDown(s)
      PROVE  FieldsTypeOK'
  <2>1. CASE Receive(s)
    BY <2>1 DEF Receive, callers, answering, wire, ends
  <2>2. CASE EndOfStream(s)
    BY <2>2 DEF EndOfStream, MarkClosed, answering, wire
  <2>3. CASE Close(s)
    BY <2>3 DEF Close, MarkClosed, answering, wire
  <2>4. CASE ShutDown(s)
    BY <2>4 DEF ShutDown, callers, answering
  <2>. QED BY <1>8, <2>1, <2>2, <2>3, <2>4
<1>. QED BY <1>2, <1>3, <1>4, <1>5, <1>6, <1>7, <1>8 DEF ChannelNext, SideStep, CallStep

\* A new channel carries nothing.
LEMMA InvAtStart == ChannelAssumption /\ ChannelInit => ChannelInv
<1> SUFFICES ASSUME ChannelAssumption, ChannelInit PROVE ChannelInv
  OBVIOUS
<1>1. \A m : InTransit(m) => m = Vacant
  BY DEF ChannelInit, InTransit
<1>2. \A k \in Kinds, c \in Calls : ~InTransit(Message(k, c)) /\ Message(k, c) # Vacant
  BY <1>1, MessageFacts
<1>3. FieldsTypeOK
  BY DEF ChannelInit, FieldsTypeOK
<1>4. RequestsTravelOnce
  BY <1>2 DEF ChannelInit, RequestsTravelOnce, InTransit, Kinds
<1>5. HandledOnce
  BY <1>2 DEF ChannelInit, HandledOnce, Refused, Kinds
<1>6. AnswersAreTheHandlers
  BY <1>2 DEF ChannelInit, AnswersAreTheHandlers, Kinds
<1>. QED BY <1>3, <1>4, <1>5, <1>6 DEF ChannelInv

\* Every step of a thread of either side keeps the invariant and is a step of
\* RemoteCalls or invisible to callers and handlers.
LEMMA StepsKeepInv ==
  ASSUME ChannelAssumption
  PROVE  ChannelInv /\ [ChannelNext]_channelVars => ChannelInv' /\ RemoteStep
<1> SUFFICES ASSUME ChannelInv, [ChannelNext]_channelVars PROVE ChannelInv' /\ RemoteStep
  OBVIOUS
<1>0. \A c \in Calls : Caller[c] \in Sides
  BY DEF ChannelAssumption
<1>1. FieldsTypeOK'
  <2>1. CASE UNCHANGED channelVars
    BY <2>1 DEF ChannelInv, FieldsTypeOK, channelVars, callers, answering, wire, ends
  <2>. QED BY <2>1, TypesNext DEF ChannelInv
<1>2. ASSUME NEW s \in Sides, SideStep(s) \/ Close(s) PROVE ChannelInv' /\ RemoteStep
  <2>1. CASE Receive(s) \/ EndOfStream(s) \/ Close(s)
    BY <1>1, <2>1, QuietStep DEF Receive, EndOfStream, Close, MarkClosed, callers, answering
  <2>2. CASE \E m \in sending[s] : TakeSendLock(s, m)
    BY <1>1, <2>2, TakeSendLockKeeps
  <2>. QED BY <1>1, <1>2, <2>1, <2>2, SendBytesKeeps, ReadKeeps, ShutDownKeeps DEF SideStep
<1>3. ASSUME NEW c \in Calls, CallStep(c) PROVE ChannelInv' /\ RemoteStep
  <2>1. CASE Return(c) \/ Timeout(c)
    <3>1. call[c] = "waiting"
      BY <2>1 DEF Return, Timeout
    <3>. QED BY <2>1, <3>1, LeaveWaiting
  <2>. QED BY <1>0, <1>1, <1>3, <2>1, CallKeeps, AnswerKeeps DEF CallStep
<1>4. CASE UNCHANGED channelVars
  BY <1>1, <1>4, QuietStep DEF channelVars, callers, answering
<1>. QED BY <1>2, <1>3, <1>4 DEF ChannelNext

(***************************************************************************)
(* Slots.                                                                  *)
(***************************************************************************)

\* A call takes a slot, keeps it on its way, or gives it back.
LEMMA PendingKept ==
  ASSUME ChannelAssumption, FieldsTypeOK, PendingInOrder,
         \/ UNCHANGED <<call, pending>>
         \/ \E c \in Calls : call[c] = "sending" /\ call' = [call EXCEPT ![c] = "waiting"] /\ pending' = pending
         \/ \E c \in Calls :
              /\ Cardinality(pending[Caller[c]]) < MaxPending
              /\ call' = [call EXCEPT ![c] = "sending"]
              /\ pending' = [pending EXCEPT ![Caller[c]] = @ \cup {c}]
         \/ \E c \in Calls :
              /\ call' = [call EXCEPT ![c] = "returned"]
              /\ pending' = [pending EXCEPT ![Caller[c]] = @ \ {c}] \/ (call[c] = "new" /\ pending' = pending)
  PROVE  PendingInOrder'
<1>0. /\ Caller \in [Calls -> Sides] /\ pending \in [Sides -> SUBSET Calls] /\ MaxPending \in Nat
      /\ call \in [Calls -> {"new", "sending", "waiting", "returned"}]
  BY DEF ChannelAssumption, FieldsTypeOK
<1>1. CASE UNCHANGED <<call, pending>>
  BY <1>1 DEF PendingInOrder
<1>2. ASSUME NEW c \in Calls, call[c] = "sending", call' = [call EXCEPT ![c] = "waiting"], pending' = pending
      PROVE  PendingInOrder'
  BY <1>0, <1>2 DEF PendingInOrder
<1>3. ASSUME NEW c \in Calls, Cardinality(pending[Caller[c]]) < MaxPending,
             call' = [call EXCEPT ![c] = "sending"],
             pending' = [pending EXCEPT ![Caller[c]] = @ \cup {c}]
      PROVE  PendingInOrder'
  <2> DEFINE u == pending[Caller[c]] \cup {c}
  <2>1. IsFiniteSet(pending[Caller[c]]) /\ Cardinality(pending[Caller[c]]) \in Nat
    BY <1>0, FS_CardinalityType DEF PendingInOrder
  <2>2. IsFiniteSet(u) /\ (Cardinality(u) = Cardinality(pending[Caller[c]]) \/ Cardinality(u) = Cardinality(pending[Caller[c]]) + 1)
    BY <2>1, FS_AddElement
  <2>3. Cardinality(u) <= MaxPending
    BY <1>0, <1>3, <2>1, <2>2
  <2>4. pending' = [pending EXCEPT ![Caller[c]] = u] /\ \A d : d \in u <=> d \in pending[Caller[c]] \/ d = c
    BY <1>3
  <2>5. /\ pending'[Caller[c]] = u /\ call'[c] = "sending" /\ Caller[c] \in Sides
        /\ \A s \in Sides : s # Caller[c] => pending'[s] = pending[s]
        /\ \A d \in Calls : d # c => call'[d] = call[d]
    BY <1>0, <1>3, <2>4
  <2> HIDE DEF u
  <2>6. ASSUME NEW d \in Calls
        PROVE  d \in u <=> (Caller[d] = Caller[c] /\ call'[d] \in {"sending", "waiting"})
    BY <2>4, <2>5 DEF PendingInOrder
  <2>7. ASSUME NEW s \in Sides, s # Caller[c], NEW d \in Calls
        PROVE  d \in pending'[s] <=> (Caller[d] = s /\ call'[d] \in {"sending", "waiting"})
    BY <2>5, <2>7 DEF PendingInOrder
  <2>. QED BY <2>2, <2>3, <2>5, <2>6, <2>7 DEF PendingInOrder
<1>4. ASSUME NEW c \in Calls, call' = [call EXCEPT ![c] = "returned"],
             pending' = [pending EXCEPT ![Caller[c]] = @ \ {c}]
      PROVE  PendingInOrder'
  <2> DEFINE u == pending[Caller[c]] \ {c}
  <2>1. IsFiniteSet(pending[Caller[c]]) /\ Cardinality(pending[Caller[c]]) \in Nat
    BY <1>0, FS_CardinalityType DEF PendingInOrder
  <2>2. IsFiniteSet(u) /\ (Cardinality(u) = Cardinality(pending[Caller[c]]) \/ Cardinality(u) = Cardinality(pending[Caller[c]]) - 1)
    BY <2>1, FS_RemoveElement
  <2>3. Cardinality(u) <= MaxPending
    BY <1>0, <2>1, <2>2 DEF PendingInOrder
  <2>4. pending' = [pending EXCEPT ![Caller[c]] = u] /\ \A d : d \in u <=> d \in pending[Caller[c]] /\ d # c
    BY <1>4
  <2>5. /\ pending'[Caller[c]] = u /\ call'[c] = "returned" /\ Caller[c] \in Sides
        /\ \A s \in Sides : s # Caller[c] => pending'[s] = pending[s]
        /\ \A d \in Calls : d # c => call'[d] = call[d]
    BY <1>0, <1>4, <2>4
  <2> HIDE DEF u
  <2>6. ASSUME NEW d \in Calls
        PROVE  d \in u <=> (Caller[d] = Caller[c] /\ call'[d] \in {"sending", "waiting"})
    BY <2>4, <2>5 DEF PendingInOrder
  <2>7. ASSUME NEW s \in Sides, s # Caller[c], NEW d \in Calls
        PROVE  d \in pending'[s] <=> (Caller[d] = s /\ call'[d] \in {"sending", "waiting"})
    BY <2>5, <2>7 DEF PendingInOrder
  <2>. QED BY <2>2, <2>3, <2>5, <2>6, <2>7 DEF PendingInOrder
<1>5. ASSUME NEW c \in Calls, call[c] = "new", call' = [call EXCEPT ![c] = "returned"], pending' = pending
      PROVE  PendingInOrder'
  BY <1>0, <1>5 DEF PendingInOrder
<1>. QED BY <1>1, <1>2, <1>3, <1>4, <1>5

\* A handler takes a slot of the side that did not call, and gives it back.
LEMMA AnswersKept ==
  ASSUME ChannelAssumption, FieldsTypeOK, AnswersInOrder,
         \/ UNCHANGED <<task, answers>>
         \/ \E c \in Calls : task[c] = "running" /\ task' = [task EXCEPT ![c] = "replying"] /\ answers' = answers
         \/ \E s \in Sides, c \in Calls :
              /\ ~(Cardinality(answers[s]) >= MaxAnswers) /\ Caller[c] # s
              /\ task' = [task EXCEPT ![c] = "running"]
              /\ answers' = [answers EXCEPT ![s] = @ \cup {c}]
         \/ \E c \in Calls : EndTask(c)
  PROVE  AnswersInOrder'
<1>0. /\ Caller \in [Calls -> Sides] /\ answers \in [Sides -> SUBSET Calls] /\ MaxAnswers \in Nat
      /\ task \in [Calls -> {"none", "running", "replying", "ended"}]
  BY DEF ChannelAssumption, FieldsTypeOK
<1>1. CASE UNCHANGED <<task, answers>>
  BY <1>1 DEF AnswersInOrder
<1>2. ASSUME NEW c \in Calls, task[c] = "running", task' = [task EXCEPT ![c] = "replying"], answers' = answers
      PROVE  AnswersInOrder'
  BY <1>0, <1>2 DEF AnswersInOrder
<1>3. ASSUME NEW s \in Sides, NEW c \in Calls, ~(Cardinality(answers[s]) >= MaxAnswers), Caller[c] # s,
             task' = [task EXCEPT ![c] = "running"],
             answers' = [answers EXCEPT ![s] = @ \cup {c}]
      PROVE  AnswersInOrder'
  <2> DEFINE u == answers[s] \cup {c}
  <2>1. IsFiniteSet(answers[s]) /\ Cardinality(answers[s]) \in Nat
    BY <1>0, FS_CardinalityType DEF AnswersInOrder
  <2>2. IsFiniteSet(u) /\ (Cardinality(u) = Cardinality(answers[s]) \/ Cardinality(u) = Cardinality(answers[s]) + 1)
    BY <2>1, FS_AddElement
  <2>3. Cardinality(u) <= MaxAnswers
    BY <1>0, <1>3, <2>1, <2>2
  <2>4. answers' = [answers EXCEPT ![s] = u] /\ \A d : d \in u <=> d \in answers[s] \/ d = c
    BY <1>3
  <2>5. \A t \in Sides : t # s => Caller[c] = t
    BY <1>0, <1>3 DEF ChannelAssumption
  <2>6. /\ answers'[s] = u /\ task'[c] = "running"
        /\ \A t \in Sides : t # s => answers'[t] = answers[t]
        /\ \A d \in Calls : d # c => task'[d] = task[d]
    BY <1>0, <1>3, <2>4
  <2> HIDE DEF u
  <2>7. ASSUME NEW d \in Calls
        PROVE  d \in u <=> (Caller[d] # s /\ task'[d] \in {"running", "replying"})
    BY <1>3, <2>4, <2>6 DEF AnswersInOrder
  <2>8. ASSUME NEW t \in Sides, t # s, NEW d \in Calls
        PROVE  d \in answers'[t] <=> (Caller[d] # t /\ task'[d] \in {"running", "replying"})
    BY <2>5, <2>6, <2>8 DEF AnswersInOrder
  <2>. QED BY <2>2, <2>3, <2>6, <2>7, <2>8 DEF AnswersInOrder
<1>4. ASSUME NEW c \in Calls, EndTask(c) PROVE AnswersInOrder'
  <2> DEFINE s == Peer(Caller[c])
             u == answers[s] \ {c}
  <2>0. s \in Sides /\ Caller[c] \in Sides /\ \A t \in Sides : t # s => Caller[c] = t
    BY <1>0, PeerIsASide DEF ChannelAssumption, Peer
  <2>1. IsFiniteSet(answers[s]) /\ Cardinality(answers[s]) \in Nat
    BY <2>0, FS_CardinalityType DEF AnswersInOrder
  <2>2. IsFiniteSet(u) /\ (Cardinality(u) = Cardinality(answers[s]) \/ Cardinality(u) = Cardinality(answers[s]) - 1)
    BY <2>1, FS_RemoveElement
  <2>3. Cardinality(u) <= MaxAnswers
    BY <1>0, <2>0, <2>1, <2>2 DEF AnswersInOrder
  <2>4. /\ answers' = [answers EXCEPT ![s] = u] /\ task' = [task EXCEPT ![c] = "ended"]
        /\ \A d : d \in u <=> d \in answers[s] /\ d # c
    BY <1>4 DEF EndTask
  <2> HIDE DEF u, s
  <2>. QED BY <1>0, <2>0, <2>2, <2>3, <2>4 DEF AnswersInOrder
<1>. QED BY <1>1, <1>2, <1>3, <1>4

\* A pipe takes a message at its end, gives one up at its head, or is emptied.
LEMMA PipesKept ==
  ASSUME ChannelAssumption, FieldsTypeOK, PipesInOrder,
         \/ UNCHANGED pipe
         \/ \E s \in Sides, m \in Messages :
              /\ Len(pipe[s]) < Capacity /\ pipe' = [pipe EXCEPT ![s] = Append(@, m)]
              /\ m.kind = "request" => Caller[m.id] # s
         \/ \E s \in Sides : pipe[s] # <<>> /\ pipe' = [pipe EXCEPT ![s] = Tail(@)]
         \/ \E s \in Sides : pipe' = [pipe EXCEPT ![s] = <<>>]
  PROVE  PipesInOrder'
<1>0. pipe \in [Sides -> Seq(Messages)] /\ Capacity \in Nat \ {0}
  BY DEF FieldsTypeOK, ChannelAssumption
<1>1. CASE UNCHANGED pipe
  BY <1>1 DEF PipesInOrder
<1>2. ASSUME NEW s \in Sides, NEW m \in Messages, Len(pipe[s]) < Capacity,
             pipe' = [pipe EXCEPT ![s] = Append(@, m)], m.kind = "request" => Caller[m.id] # s
      PROVE  PipesInOrder'
  <2>1. pipe[s] \in Seq(Messages)
    BY <1>0
  <2>2. /\ Len(Append(pipe[s], m)) <= Capacity
        /\ \A i \in DOMAIN Append(pipe[s], m) :
             \/ i \in DOMAIN pipe[s] /\ Append(pipe[s], m)[i] = pipe[s][i]
             \/ i = Len(pipe[s]) + 1 /\ Append(pipe[s], m)[i] = m
    BY <1>0, <1>2, <2>1
  <2>3. pipe'[s] = Append(pipe[s], m) /\ \A t \in Sides : t # s => pipe'[t] = pipe[t]
    BY <1>0, <1>2
  <2>. QED BY <1>2, <2>2, <2>3 DEF PipesInOrder
<1>3. ASSUME NEW s \in Sides, pipe[s] # <<>>, pipe' = [pipe EXCEPT ![s] = Tail(@)]
      PROVE  PipesInOrder'
  <2>1. pipe[s] \in Seq(Messages)
    BY <1>0
  <2>2. \A i \in DOMAIN Tail(pipe[s]) : i + 1 \in DOMAIN pipe[s] /\ Tail(pipe[s])[i] = pipe[s][i + 1]
    BY <1>3, <2>1, PipeTail
  <2>3. Len(Tail(pipe[s])) <= Capacity
    BY <1>0, <1>3, <2>1 DEF PipesInOrder
  <2>4. pipe'[s] = Tail(pipe[s]) /\ \A t \in Sides : t # s => pipe'[t] = pipe[t]
    BY <1>0, <1>3
  <2>5. \A i \in DOMAIN Tail(pipe[s]) : Tail(pipe[s])[i].kind = "request" => Caller[Tail(pipe[s])[i].id] # s
    BY <2>2 DEF PipesInOrder
  <2>6. Len(pipe'[s]) <= Capacity /\ \A i \in DOMAIN pipe'[s] : pipe'[s][i].kind = "request" => Caller[pipe'[s][i].id] # s
    BY <2>3, <2>4, <2>5
  <2>7. ASSUME NEW t \in Sides, t # s
        PROVE  Len(pipe'[t]) <= Capacity /\ \A i \in DOMAIN pipe'[t] : pipe'[t][i].kind = "request" => Caller[pipe'[t][i].id] # t
    BY <2>4, <2>7 DEF PipesInOrder
  <2>. QED BY <2>6, <2>7 DEF PipesInOrder
<1>4. ASSUME NEW s \in Sides, pipe' = [pipe EXCEPT ![s] = <<>>] PROVE PipesInOrder'
  BY <1>0, <1>4 DEF PipesInOrder
<1>. QED BY <1>1, <1>2, <1>3, <1>4

\* Every step keeps the slots in order.
LEMMA SlotsStep ==
  ASSUME ChannelAssumption, ChannelInv, SlotsInv, [ChannelNext]_channelVars
  PROVE  SlotsInv'
<1>1. FieldsTypeOK /\ PendingInOrder /\ AnswersInOrder /\ PipesInOrder
  BY DEF ChannelInv, SlotsInv
<1>2. Caller \in [Calls -> Sides]
  BY DEF ChannelAssumption
<1>3. ASSUME NEW s \in Sides, NEW m \in Messages, m \in sending[s] \/ m = writer[s], SendFailed(m)
      PROVE  PendingInOrder' /\ AnswersInOrder'
  <2>1. m.id \in Calls
    BY <1>3, MessageFacts
  <2>2. CASE m.kind = "request" /\ Leave(m.id, "lost") /\ UNCHANGED <<answering, ends>>
    <3>1. PendingInOrder'
      BY <1>1, <2>1, <2>2, PendingKept DEF Leave
    <3>. QED BY <1>1, <2>2, <3>1, AnswersKept DEF answering
  <2>3. CASE m.kind \in {"value", "error"} /\ EndTask(m.id) /\ UNCHANGED <<callers, handled, ends>>
    <3>1. AnswersInOrder'
      BY <1>1, <2>1, <2>3, AnswersKept
    <3>. QED BY <1>1, <2>3, <3>1, PendingKept DEF callers
  <2>4. CASE UNCHANGED <<call, returned, stored, pending, answering, shut>>
    BY <1>1, <2>4, PendingKept, AnswersKept DEF answering
  <2>. QED BY <1>3, <2>2, <2>3, <2>4 DEF SendFailed
<1>4. ASSUME NEW s \in Sides, SideStep(s) \/ Close(s) PROVE SlotsInv'
  <2>1. CASE Receive(s) \/ EndOfStream(s) \/ Close(s)
    <3>1. UNCHANGED <<call, pending, task, answers, pipe>>
      BY <2>1 DEF Receive, EndOfStream, Close, callers, answering, wire
    <3>. QED BY <1>1, <3>1, PendingKept, AnswersKept, PipesKept DEF SlotsInv
  <2>2. CASE ShutDown(s)
    <3>1. UNCHANGED <<call, pending, task, answers>> /\ pipe' = [pipe EXCEPT ![s] = <<>>]
      BY <2>2 DEF ShutDown, callers, answering
    <3>. QED BY <1>1, <3>1, PendingKept, AnswersKept, PipesKept DEF SlotsInv
  <2>3. ASSUME NEW m \in sending[s], TakeSendLock(s, m) PROVE SlotsInv'
    <3>1. m \in Messages
      BY <1>1 DEF FieldsTypeOK
    <3>2. UNCHANGED pipe
      BY <2>3 DEF TakeSendLock
    <3>3. CASE SendFailed(m)
      BY <1>1, <1>3, <3>1, <3>2, <3>3, PipesKept DEF SlotsInv
    <3>4. CASE UNCHANGED <<callers, answering, ends>>
      BY <1>1, <3>2, <3>4, PendingKept, AnswersKept, PipesKept DEF SlotsInv, callers, answering
    <3>. QED BY <2>3, <3>3, <3>4 DEF TakeSendLock
  <2>4. CASE SendBytes(s)
    <3> DEFINE m == writer[s]
    <3>0. writer[s] \in Messages \cup {Vacant} /\ m # Vacant
      BY <1>1, <2>4 DEF FieldsTypeOK, SendBytes
    <3>00. Peer(s) \in Sides /\ Peer(s) # s
      BY <1>4 DEF ChannelAssumption, Peer
    <3>1. m \in Messages /\ Peer(s) \in Sides /\ Peer(s) # s
      BY <3>0, <3>00
    <3>2. m.kind \in Kinds /\ m.id \in Calls /\ m = Message(m.kind, m.id)
      BY <3>1, MessageFacts
    <3>3. m.kind = "request" => s = Caller[m.id] /\ call[m.id] = "sending"
      BY <3>2 DEF ChannelInv, RequestsTravelOnce
    <3>4. CASE Peer(s) \in shut
      BY <1>1, <1>3, <2>4, <3>1, <3>4, PipesKept DEF SendBytes, SlotsInv
    <3>5. CASE Peer(s) \notin shut
      <4>1. PipesInOrder'
        <5>1. Len(pipe[Peer(s)]) < Capacity /\ pipe' = [pipe EXCEPT ![Peer(s)] = Append(@, m)]
          BY <2>4, <3>5 DEF SendBytes
        <5>2. m.kind = "request" => Caller[m.id] # Peer(s)
          BY <3>1, <3>3
        <5> HIDE DEF m
        <5>. QED BY <1>1, <3>1, <5>1, <5>2, PipesKept
      <4>2. CASE m.kind = "request"
        <5>1. call' = [call EXCEPT ![m.id] = "waiting"] /\ UNCHANGED <<pending, answering>>
          BY <2>4, <3>5, <4>2 DEF SendBytes
        <5> HIDE DEF m
        <5>. QED BY <1>1, <3>2, <3>3, <4>1, <4>2, <5>1, PendingKept, AnswersKept DEF SlotsInv, answering
      <4>3. CASE m.kind \in {"value", "error"}
        <5>1. EndTask(m.id) /\ UNCHANGED callers
          BY <2>4, <3>5, <4>3 DEF SendBytes
        <5> HIDE DEF m
        <5>. QED BY <1>1, <3>2, <4>1, <5>1, PendingKept, AnswersKept DEF SlotsInv, callers
      <4>4. CASE m.kind = "busy"
        <5>1. UNCHANGED <<callers, answering>>
          BY <2>4, <3>5, <4>4 DEF SendBytes
        <5>. QED BY <1>1, <4>1, <5>1, PendingKept, AnswersKept DEF SlotsInv, callers, answering
      <4>. QED BY <3>2, <4>2, <4>3, <4>4 DEF Kinds
    <3>. QED BY <3>4, <3>5
  <2>5. CASE Read(s)
    <3> DEFINE m == Head(pipe[s])
    <3>1. pipe[s] # <<>> /\ pipe' = [pipe EXCEPT ![s] = Tail(@)] /\ pipe[s] \in Seq(Messages)
      BY <1>1, <2>5 DEF Read, FieldsTypeOK
    <3>2. m \in Messages /\ 1 \in DOMAIN pipe[s] /\ pipe[s][1] = m
      BY <3>1, PipeTail
    <3>3. m.id \in Calls /\ (m.kind = "request" => Caller[m.id] # s)
      BY <1>1, <3>2, MessageFacts DEF PipesInOrder
    <3>4. PipesInOrder'
      BY <1>1, <3>1, PipesKept
    <3>5. CASE m.kind = "request"
      <4>1. Dispatch(s, m.id)
        BY <2>5, <3>5 DEF Read
      <4> HIDE DEF m
      <4>2. UNCHANGED <<call, pending>>
        BY <4>1 DEF Dispatch, callers, MarkClosed
      <4>3. \/ UNCHANGED <<task, answers>>
            \/ /\ ~(Cardinality(answers[s]) >= MaxAnswers)
               /\ task' = [task EXCEPT ![m.id] = "running"]
               /\ answers' = [answers EXCEPT ![s] = @ \cup {m.id}]
        BY <4>1 DEF Dispatch, answering
      <4>4. AnswersInOrder'
        BY <1>1, <3>3, <3>5, <4>3, AnswersKept
      <4>. QED BY <1>1, <3>4, <4>2, <4>4, PendingKept DEF SlotsInv
    <3>6. CASE m.kind # "request"
      <4>1. UNCHANGED <<call, pending, task, answers>>
        BY <2>5, <3>6 DEF Read, Store, answering
      <4>. QED BY <1>1, <3>4, <4>1, PendingKept, AnswersKept DEF SlotsInv
    <3>. QED BY <3>5, <3>6
  <2>. QED BY <1>4, <2>1, <2>2, <2>3, <2>4, <2>5 DEF SideStep
<1>5. ASSUME NEW c \in Calls, CallStep(c) PROVE SlotsInv'
  <2>1. PipesInOrder'
    <3>1. UNCHANGED pipe
      BY <1>5 DEF CallStep, Call, Return, Timeout, Answer, wire
    <3>. QED BY <1>1, <3>1, PipesKept
  <2>2. CASE Call(c)
    <3>1. UNCHANGED <<task, answers>>
      BY <2>2 DEF Call, answering
    <3>2. CASE Register(c) /\ call' = [call EXCEPT ![c] = "sending"]
      BY <1>1, <2>1, <3>1, <3>2, PendingKept, AnswersKept DEF SlotsInv, Register
    <3>3. CASE call[c] = "new" /\ call' = [call EXCEPT ![c] = "returned"] /\ pending' = pending
      BY <1>1, <2>1, <3>1, <3>3, PendingKept, AnswersKept DEF SlotsInv
    <3>. QED BY <2>2, <3>2, <3>3 DEF Call
  <2>3. CASE Return(c) \/ Timeout(c)
    <3>1. /\ call' = [call EXCEPT ![c] = "returned"]
          /\ pending' = [pending EXCEPT ![Caller[c]] = @ \ {c}]
          /\ UNCHANGED <<task, answers>>
      BY <2>3 DEF Return, Timeout, Leave, answering
    <3>. QED BY <1>1, <2>1, <3>1, PendingKept, AnswersKept DEF SlotsInv
  <2>4. CASE Answer(c)
    <3>1. /\ task[c] = "running" /\ task' = [task EXCEPT ![c] = "replying"] /\ answers' = answers
          /\ UNCHANGED <<call, pending>>
      BY <2>4 DEF Answer, callers
    <3>. QED BY <1>1, <2>1, <3>1, PendingKept, AnswersKept DEF SlotsInv
  <2>. QED BY <1>5, <2>2, <2>3, <2>4 DEF CallStep
<1>6. CASE UNCHANGED channelVars
  BY <1>1, <1>6, PendingKept, AnswersKept, PipesKept DEF SlotsInv, channelVars, callers, answering, wire
<1>. QED BY <1>4, <1>5, <1>6 DEF ChannelNext

\* No slot is taken at the start.
LEMMA SlotsAtStart == ChannelAssumption /\ ChannelInit => SlotsInv
<1> SUFFICES ASSUME ChannelAssumption, ChannelInit PROVE SlotsInv
  OBVIOUS
<1>1. IsFiniteSet({}) /\ Cardinality({}) = 0
  BY FS_EmptySet
<1>. QED BY <1>1 DEF ChannelAssumption, ChannelInit, SlotsInv, PendingInOrder, AnswersInOrder, PipesInOrder

\* What slots in order mean for pages and commands.
LEMMA SlotsMeaning == ASSUME FieldsTypeOK, SlotsInv PROVE ChannelTypeOK /\ SlotsMatchThreads
<1>1. ChannelTypeOK
  BY DEF ChannelTypeOK, SlotsInv, PendingInOrder, AnswersInOrder, PipesInOrder
<1>2. ASSUME NEW s \in Sides
      PROVE  /\ pending[s] = {c \in Calls : Caller[c] = s /\ call[c] \in {"sending", "waiting"}}
             /\ answers[s] = {c \in Calls : Caller[c] # s /\ task[c] \in {"running", "replying"}}
  <2>1. pending[s] \subseteq Calls /\ answers[s] \subseteq Calls
    BY DEF FieldsTypeOK
  <2>. QED BY <2>1 DEF SlotsInv, PendingInOrder, AnswersInOrder
<1>. QED BY <1>1, <1>2 DEF SlotsMatchThreads

(***************************************************************************)
(* For any calls, limits and size of the pipe, and however callers,        *)
(* readers, handlers, time-outs and closing interleave: a call runs at     *)
(* most once on the other side, what it returns as an answer is its own    *)
(* handler's, and a call refused as busy is never run (worker_control.py). *)
(***************************************************************************)
THEOREM ChannelImplementsRemoteCalls ==
  ASSUME ChannelAssumption PROVE ChannelSpec => ImplementsRemoteCalls
<1>1. ChannelInit => ChannelInv
  BY InvAtStart
<1>2. ChannelInv /\ [ChannelNext]_channelVars => ChannelInv' /\ RemoteStep
  BY StepsKeepInv
<1>3. ChannelInit => Remote!Init
  BY DEF ChannelInit, Remote!Init
<1>4. RemoteStep => [Remote!Next]_<<InProgress, returned, handled>>
  BY DEF RemoteStep
<1>5. ChannelInit => SlotsInv
  BY SlotsAtStart
<1>6. ChannelInv /\ SlotsInv /\ [ChannelNext]_channelVars => SlotsInv'
  BY SlotsStep
<1>7. ChannelInv /\ SlotsInv => ChannelTypeOK /\ SlotsMatchThreads /\ ChannelInv
  BY SlotsMeaning DEF ChannelInv
<1>. QED BY <1>1, <1>2, <1>3, <1>4, <1>5, <1>6, <1>7, PTL
         DEF ChannelSpec, ImplementsRemoteCalls, CallsAreRemote, Remote!Spec, InProgress

(***************************************************************************)
(* The invariant behind it: a request is in one place at a time, ahead of  *)
(* its handler or of the reply that refuses it, and whatever carries an    *)
(* answer carries that of its own handler.                                 *)
(***************************************************************************)
THEOREM MessagesAreTheirCalls ==
  ASSUME ChannelAssumption PROVE ChannelSpec => []ChannelInv
<1>1. ChannelInit => ChannelInv
  BY InvAtStart
<1>2. ChannelInv /\ [ChannelNext]_channelVars => ChannelInv'
  BY StepsKeepInv
<1>. QED BY <1>1, <1>2, PTL DEF ChannelSpec

-----------------------------------------------------------------------------
(* The supervisor.                                                          *)

WorkerRecord == [life : {"gone", "booting", "serving", "draining"},
                 mode : {"none", "business", "maintenance"},
                 paused : BOOLEAN, busy : BOOLEAN, session : 0..Edits]

Movers == {"main", "op"}

Labels == Swapping \cup {"idle", "loop", "joining", "locking", "finishing", "stopped",
  "raised", "pausing", "resuming", "lock", "staging", "installing", "restore", "retry",
  "restored", "failed"}

JobNames == {"none", "start", "ensure", "exit", "enter", "restore", "fallback"}

\* Thread t goes to label for job j, and the lifecycle lock is then held by holder.
Moves(t, label, j, holder) ==
  /\ pc' \in [Threads -> Labels] /\ job' \in [Threads -> JobNames]
  /\ pc'[t] = label /\ job'[t] = j /\ lifecycle' = holder
  /\ \A u \in Threads \ {t} : pc'[u] = pc[u] /\ job'[u] = job[u]

\* The ways out of a step of a job that fails.
Fails(t, during) ==
  \/ job[t] = "start" /\ Moves(t, "joining", job[t], lifecycle)
  \/ job[t] = "ensure" /\ Moves(t, "joining", job[t], "free")
  \/ job[t] = "enter" /\ Moves(t, "restore", job[t], "free")
  \/ job[t] = "restore" /\ during = "spawn" /\ Moves(t, "stop", "fallback", lifecycle)
  \/ job[t] = "restore" /\ during # "spawn" /\ Moves(t, "failed", job[t], "free")
  \/ job[t] = "fallback" /\ Moves(t, "failed", job[t], "free")
  \/ job[t] = "exit" /\ during = "refusal" /\ Moves(t, "stop", job[t], lifecycle)
  \/ job[t] = "exit" /\ during # "refusal" /\ Moves(t, "raised", job[t], "free")

\* Goto changes one thread's place.
LEMMA GotoMoves ==
  ASSUME PlacesOK, NEW t \in Threads, NEW l \in Labels, Goto(t, l), job' = job
  PROVE  Moves(t, l, job[t], lifecycle')
  BY DEF Goto, Moves, PlacesOK, Labels, JobNames

LEMMA FailMoves ==
  ASSUME PlacesOK, NEW t \in Movers, NEW during, pc[t] \in Swapping, Fail(t, during)
  PROVE  Fails(t, during)
<1>0. /\ t \in Threads /\ pc \in [Threads -> Labels] /\ job \in [Threads -> JobNames]
      /\ job[t] \in {"start", "ensure", "exit", "enter", "restore", "fallback"}
  BY DEF PlacesOK, Labels, JobNames, Movers, Threads
<1>1. "joining" \in Labels /\ "restore" \in Labels /\ "failed" \in Labels /\ "stop" \in Labels
      /\ "raised" \in Labels /\ "fallback" \in JobNames
  BY DEF Labels, JobNames, Swapping
<1>2. CASE job[t] = "start"
  BY <1>0, <1>1, <1>2, GotoMoves DEF Fail, Fails
<1>3. CASE job[t] = "ensure"
  BY <1>0, <1>1, <1>3, GotoMoves DEF Fail, Fails
<1>4. CASE job[t] = "enter"
  BY <1>0, <1>1, <1>4, GotoMoves DEF Fail, Fails
<1>5. CASE job[t] = "restore" /\ during = "spawn"
  <2>1. Fallback(t)
    BY <1>5 DEF Fail
  <2>2. Moves(t, "stop", "fallback", lifecycle)
    BY <1>0, <1>1, <2>1 DEF Fallback, Goto, Moves
  <2>. QED BY <1>5, <2>2 DEF Fails
<1>6. CASE job[t] = "restore" /\ during # "spawn"
  <2>1. Goto(t, "failed") /\ lifecycle' = "free" /\ UNCHANGED job
    BY <1>6 DEF Fail
  <2>. QED BY <1>0, <1>1, <1>6, <2>1, GotoMoves DEF Fails
<1>7. CASE job[t] = "fallback"
  <2>1. Goto(t, "failed") /\ lifecycle' = "free" /\ UNCHANGED job
    BY <1>7 DEF Fail
  <2>. QED BY <1>0, <1>1, <1>7, <2>1, GotoMoves DEF Fails
<1>8. CASE job[t] = "exit"
  <2>1. StopFails(t, during) /\ UNCHANGED job
    BY <1>8 DEF Fail
  <2>. QED BY <1>0, <1>1, <1>8, <2>1, GotoMoves DEF Fails, StopFails
<1>. QED BY <1>0, <1>2, <1>3, <1>4, <1>5, <1>6, <1>7, <1>8

\* Where a thread goes once its worker serves.
Succeeds(t) ==
  \/ job[t] = "start" /\ Moves(t, "loop", job[t], lifecycle) /\ phase' = "ready" /\ session' = session
  \/ job[t] = "ensure" /\ Moves(t, "loop", job[t], "free") /\ UNCHANGED <<phase, session>>
  \/ job[t] = "enter" /\ Moves(t, "staging", job[t], "free") /\ UNCHANGED <<phase, session>>
  \/ job[t] = "fallback" /\ Moves(t, "failed", job[t], "free") /\ UNCHANGED <<phase, session>>
  \/ job[t] = "restore" /\ Moves(t, "restored", job[t], "free") /\ phase' = phase /\ session' = 0

LEMMA SpawnedMoves ==
  ASSUME PlacesOK, LocksInOrder, NEW t \in Movers, pc[t] \in {"booting", "admitting"},
         Spawned(t), job' = job
  PROVE  Succeeds(t)
<1>0. /\ t \in Threads /\ pc \in [Threads -> Labels] /\ job \in [Threads -> JobNames]
      /\ job[t] \in {"start", "ensure", "enter", "restore", "fallback"}
  BY DEF PlacesOK, LocksInOrder, Labels, JobNames, Movers, Threads, Swapping
<1>1. "loop" \in Labels /\ "staging" \in Labels /\ "failed" \in Labels /\ "restored" \in Labels
  BY DEF Labels
<1>2. CASE job[t] = "start"
  BY <1>0, <1>1, <1>2, GotoMoves DEF Spawned, Succeeds
<1>3. CASE job[t] = "ensure"
  BY <1>0, <1>1, <1>3, GotoMoves DEF Spawned, Succeeds
<1>4. CASE job[t] = "enter"
  BY <1>0, <1>1, <1>4, GotoMoves DEF Spawned, Succeeds
<1>5. CASE job[t] = "fallback"
  BY <1>0, <1>1, <1>5, GotoMoves DEF Spawned, Succeeds
<1>6. CASE job[t] = "restore"
  BY <1>0, <1>1, <1>6, GotoMoves DEF Spawned, Succeeds
<1>. QED BY <1>0, <1>2, <1>3, <1>4, <1>5, <1>6

-----------------------------------------------------------------------------
(* Who replaces the worker                                                 *)

\* Only one thread is in the code that stops and spawns workers.
LEMMA OneSwapper ==
  ASSUME SupervisorTypeOK, PlacesOK, LocksInOrder, NEW t \in Movers, pc[t] \in Swapping
  PROVE  /\ \A u \in Movers : u # t => pc[u] \notin Swapping
         /\ job[t] # "exit" => phase # "ready" /\ pc["page"] = "idle"
         /\ lifecycle = (IF job[t] = "start" THEN "free" ELSE t)
         /\ t = "op" => phase \in {"preparing", "installing", "restoring"}
         /\ t = "main" => pc["op"] # "restored" \/ job[t] = "exit"
         /\ t = "op" => job[t] \in {"enter", "restore", "fallback"}
         /\ t = "main" => job[t] \in {"start", "ensure", "exit"}
<1>0. lifecycle \in {"free", "main", "op"}
  BY DEF SupervisorTypeOK
<1>1. CASE t = "main"
  BY <1>0, <1>1 DEF PlacesOK, LocksInOrder, Movers, Threads, Swapping
<1>2. CASE t = "op"
  BY <1>0, <1>2 DEF PlacesOK, LocksInOrder, Movers, Threads, Swapping
<1>. QED BY <1>1, <1>2 DEF Movers

\* A thread that goes on replacing the worker, gives up or is done leaves places and locks in order.
LEMMA SwapContinues ==
  ASSUME PlacesOK, LocksInOrder, NEW t \in Movers, pc[t] \in Swapping, NEW l \in Swapping,
         Moves(t, l, job[t], lifecycle), UNCHANGED <<phase, status, package, locked>>,
         job[t] = "start" => l \in {"booting", "admitting"},
         job[t] = "ensure" => l # "admitting",
         job[t] = "exit" => l \in {"asking", "joining worker"}
  PROVE  PlacesOK' /\ LocksInOrder'
<1>1. CASE t = "main"
  BY <1>1, ZenonT(60) DEF PlacesOK, LocksInOrder, Movers, Threads, Swapping, Moves, Labels, JobNames
<1>2. CASE t = "op"
  BY <1>2, ZenonT(60) DEF PlacesOK, LocksInOrder, Movers, Threads, Swapping, Moves, Labels, JobNames
<1>. QED BY <1>1, <1>2 DEF Movers

LEMMA SwapFails ==
  ASSUME PlacesOK, LocksInOrder, NEW t \in Movers, pc[t] \in Swapping, NEW during,
         Fails(t, during), UNCHANGED <<phase, status, package, locked>>
  PROVE  PlacesOK' /\ LocksInOrder'
<1>1. CASE t = "main"
  BY <1>1, ZenonT(60) DEF PlacesOK, LocksInOrder, Movers, Threads, Swapping, Moves, Labels, JobNames, Fails
<1>2. CASE t = "op"
  <2>1. \/ Moves(t, "restore", job[t], "free") \/ Moves(t, "failed", job[t], "free")
        \/ Moves(t, "stop", "fallback", lifecycle)
    BY <1>2 DEF PlacesOK, Fails
  <2>. QED
    BY <1>2, <2>1, ZenonT(60) DEF PlacesOK, LocksInOrder, Movers, Threads, Swapping, Moves, Labels, JobNames
<1>. QED BY <1>1, <1>2 DEF Movers

LEMMA SwapSucceeds ==
  ASSUME PlacesOK, LocksInOrder, NEW t \in Movers, pc[t] \in {"booting", "admitting"},
         Succeeds(t), UNCHANGED <<status, package, locked>>
  PROVE  PlacesOK' /\ LocksInOrder'
<1>1. CASE t = "main"
  BY <1>1 DEF PlacesOK, LocksInOrder, Movers, Threads, Swapping, Moves, Labels, JobNames, Succeeds
<1>2. CASE t = "op"
  BY <1>2, ZenonT(60) DEF PlacesOK, LocksInOrder, Movers, Threads, Swapping, Moves, Labels, JobNames, Succeeds
<1>. QED BY <1>1, <1>2 DEF Movers

LEMMA SwapEnds ==
  ASSUME PlacesOK, LocksInOrder, NEW t \in Movers, pc[t] \in {"stop", "joining worker"},
         Stopped(t), UNCHANGED <<phase, status, package, locked, job, lifecycle>>
  PROVE  /\ PlacesOK' /\ LocksInOrder'
         /\ Moves(t, IF job[t] = "exit" THEN "finishing" ELSE "spawn", job[t], lifecycle)
<1>1. Moves(t, IF job[t] = "exit" THEN "finishing" ELSE "spawn", job[t], lifecycle)
  <2>1. "finishing" \in Labels /\ "spawn" \in Labels /\ t \in Threads
    BY DEF Labels, Swapping, Movers, Threads
  <2>. QED BY <2>1, GotoMoves DEF Stopped
<1>2. CASE t = "main"
  BY <1>1, <1>2 DEF PlacesOK, LocksInOrder, Movers, Threads, Swapping, Moves, Labels, JobNames
<1>3. CASE t = "op"
  BY <1>1, <1>3, ZenonT(60) DEF PlacesOK, LocksInOrder, Movers, Threads, Swapping, Moves, Labels, JobNames
<1>. QED BY <1>1, <1>2, <1>3 DEF Movers

-----------------------------------------------------------------------------
(* Commands                                                                *)

CommandRecord == [to : Workers, method : {"prepare", "resume", "shutdown"}, by : Threads \cup {"nobody"}]
Replies == {"none", "awaited", "done", "refused", "lost"}

\* A command, to a live worker, whose thread waits for it.
Expected(c) == Alive(c.to) /\ (c.by # "nobody" => answer[c.by] = "awaited" /\ Awaits(c))

\* Commands that no thread but t is concerned by stay in order when t moves.
LEMMA CommandsStay ==
  ASSUME SupervisorTypeOK, CommandsInOrder, NEW t \in Threads,
         \A c \in commands : c.by # t,
         commands' \subseteq commands,
         \A u \in Threads \ {t} : pc'[u] = pc[u] /\ answer'[u] = answer[u],
         \A c \in commands' : Alive(c.to)',
         \A u \in Movers : pc'[u] = "booting" => commands' = {}
  PROVE  CommandsInOrder'
<1>1. ASSUME NEW c \in commands' PROVE Expected(c)'
  <2>1. /\ c \in commands /\ Alive(c.to)' /\ c.by # t /\ c.by \in Threads \cup {"nobody"}
        /\ (c.by # "nobody" => answer[c.by] = "awaited" /\ Awaits(c))
    BY <1>1 DEF CommandsInOrder, SupervisorTypeOK
  <2>2. CASE c.by = "nobody"
    BY <2>1, <2>2 DEF Expected
  <2>3. CASE c.by \in Threads
    <3>1. answer'[c.by] = answer[c.by] /\ pc'[c.by] = pc[c.by] /\ c.by # "nobody"
      BY <2>1, <2>3 DEF Threads
    <3>2. Awaits(c)'
      BY <2>1, <3>1 DEF Awaits
    <3>. QED BY <2>1, <3>1, <3>2 DEF Expected
  <2>. QED BY <2>1, <2>2, <2>3
<1>. QED BY <1>1 DEF CommandsInOrder, Expected, Movers

\* What asking changes, and that commands stay in order when the asking thread waits where it should.
LEMMA AskKeeps ==
  ASSUME SupervisorTypeOK, CommandsInOrder, WorkerInOrder, NEW t \in Threads,
         NEW m \in {"prepare", "resume", "shutdown"}, Ask(t, m),
         \A c \in commands : c.by # t, UNCHANGED <<worker, process>>,
         \A u \in Threads \ {t} : pc'[u] = pc[u],
         Awaits([to |-> process, method |-> m, by |-> t])',
         \A u \in Movers : pc'[u] # "booting"
  PROVE  /\ CommandsInOrder'
         /\ answer' \in [Threads -> Replies] /\ commands' \subseteq CommandRecord
         /\ answer'[t] \in {"awaited", "lost"} /\ \A u \in Threads \ {t} : answer'[u] = answer[u]
         /\ \A c \in commands' : c \in commands \/ c = [to |-> process, method |-> m, by |-> t]
<1>1. /\ answer \in [Threads -> Replies] /\ commands \subseteq CommandRecord
      /\ process \in Workers \cup {None} /\ (open => process # None /\ Alive(process))
  BY DEF SupervisorTypeOK, CommandRecord, Replies, WorkerInOrder, Alive
<1>2. \A c \in commands : Alive(c.to)'
  BY DEF CommandsInOrder, Alive
<1>3. CASE ~open
  <2>1. answer' = [answer EXCEPT ![t] = "lost"] /\ commands' = commands
    BY <1>3 DEF Ask
  <2>2. answer' \in [Threads -> Replies] /\ answer'[t] = "lost" /\ \A u \in Threads \ {t} : answer'[u] = answer[u]
    BY <1>1, <2>1 DEF Replies
  <2>3. CommandsInOrder'
    BY <1>2, <2>1, <2>2, CommandsStay
  <2>. QED BY <1>1, <2>1, <2>2, <2>3
<1>4. CASE open
  <2>0. PICK new \in CommandRecord : new = [to |-> process, method |-> m, by |-> t]
    BY <1>1, <1>4 DEF CommandRecord, Threads
  <2>1. answer' = [answer EXCEPT ![t] = "awaited"] /\ commands' = commands \cup {new}
    BY <1>4, <2>0 DEF Ask
  <2>2. answer' \in [Threads -> Replies] /\ answer'[t] = "awaited" /\ \A u \in Threads \ {t} : answer'[u] = answer[u]
    BY <1>1, <2>1 DEF Replies
  <2>3. new.by = t /\ new.to = process /\ t # "nobody"
    BY <2>0 DEF Threads
  <2>4. Expected(new)'
    <3>1. Awaits(new)'
      BY <2>0 DEF Awaits
    <3>. QED BY <1>1, <1>4, <2>2, <2>3, <3>1 DEF Expected, Alive
  <2>5. ASSUME NEW c \in commands PROVE Expected(c)'
    <3>1. /\ Alive(c.to)' /\ c.by # t /\ c.by \in Threads \cup {"nobody"}
          /\ (c.by # "nobody" => answer[c.by] = "awaited" /\ Awaits(c))
      BY <1>1, <1>2 DEF CommandsInOrder, CommandRecord
    <3>2. CASE c.by = "nobody"
      BY <3>1, <3>2 DEF Expected
    <3>3. CASE c.by \in Threads
      <4>1. answer'[c.by] = answer[c.by] /\ pc'[c.by] = pc[c.by] /\ c.by # "nobody"
        BY <2>2, <3>1, <3>3 DEF Threads
      <4>2. Awaits(c)'
        BY <3>1, <4>1 DEF Awaits
      <4>. QED BY <3>1, <4>1, <4>2 DEF Expected
    <3>. QED BY <3>1, <3>2, <3>3
  <2>6. CommandsInOrder'
    <3>1. \A c \in commands' : Expected(c)'
      BY <2>1, <2>4, <2>5
    <3>. QED BY <3>1 DEF CommandsInOrder, Expected, Movers
  <2>. QED BY <1>1, <2>0, <2>1, <2>2, <2>6
<1>. QED BY <1>3, <1>4

-----------------------------------------------------------------------------
(* The steps of a thread that replaces the worker                          *)

\* What the places of the threads say about a thread that replaces the worker.
LEMMA SwapperFacts ==
  ASSUME SupervisorInv, NEW t \in Movers, pc[t] \in Swapping
  PROVE  /\ t \in Threads /\ lifecycle = (IF job[t] = "start" THEN "free" ELSE t)
         /\ \A u \in Movers : u # t => pc[u] \notin Swapping
         /\ job[t] # "exit" => phase # "ready" /\ pc["page"] = "idle"
         /\ job[t] # "exit" => pc["op"] # "restored"
         /\ pc[t] # "stop" => ~flags.business
         /\ job[t] \in {"start", "ensure", "exit", "enter", "restore", "fallback"}
         /\ job[t] = "exit" => t = "main" /\ pc[t] \in {"stop", "asking", "joining worker"}
<1>1. /\ SupervisorTypeOK /\ PlacesOK /\ LocksInOrder
      /\ pc[t] # "stop" => ~flags.business
  BY DEF SupervisorInv, FlagsInOrder, Movers
<1>2. job[t] = "exit" => t = "main" /\ pc[t] \in {"stop", "asking", "joining worker"}
  BY <1>1, OneSwapper DEF LocksInOrder, Movers
<1>3. job[t] # "exit" => pc["op"] # "restored"
  BY <1>1, OneSwapper DEF Movers, Swapping
<1>. QED BY <1>1, <1>2, <1>3, OneSwapper DEF Movers, Threads

LEMMA StopWorkerInv ==
  ASSUME SupervisorAssumption, SupervisorInv, NEW t \in Movers, StopWorker(t)
  PROVE  SupervisorInv'
<1>0. /\ SupervisorTypeOK /\ PlacesOK /\ RecordsOK /\ LocksInOrder /\ WorkerInOrder /\ FlagsInOrder
      /\ CommandsInOrder /\ (LateReports \/ ReadyIsTrue)
  BY DEF SupervisorInv
<1>1. /\ pc[t] = "stop" /\ pc[t] \in Swapping
      /\ UNCHANGED <<worker, snapshot, reports, process, open, session, lost, told, job, lifecycle, count>>
      /\ UNCHANGED <<phase, package, status, cleanup, locked>>
  BY DEF StopWorker, saved, manager, Swapping
<1>2. t \in Threads /\ \A u \in Movers : u # t => pc[u] \notin Swapping
  BY <1>1, SwapperFacts
<1>3. CASE process = None
  <2>1. Stopped(t) /\ UNCHANGED <<commands, answer, flags>> /\ ~flags.business
    BY <1>0, <1>3 DEF StopWorker, FlagsInOrder
  <2>2. /\ PlacesOK' /\ LocksInOrder'
        /\ Moves(t, IF job[t] = "exit" THEN "finishing" ELSE "spawn", job[t], lifecycle)
    BY <1>0, <1>1, <2>1, SwapEnds
  <2>3. SupervisorTypeOK' /\ RecordsOK'
    BY <1>0, <1>1, <1>2, <2>1, <2>2 DEF SupervisorTypeOK, RecordsOK, Moves, Movers, Threads
  <2>4. WorkerInOrder'
    BY <1>0, <1>1, <1>2, <1>3, <2>2 DEF WorkerInOrder, OneWorker, Alive, Mode, Target, Moves, Movers, Threads
  <2>5. FlagsInOrder'
    BY <1>0, <1>1, <1>2, <1>3, <2>1, <2>2 DEF FlagsInOrder, Alive, Moves, Movers, Threads, Swapping
  <2>6. CommandsInOrder'
    BY <1>0, <1>1, <1>2, <2>1, <2>2 DEF CommandsInOrder, Alive, Awaits, Moves, Movers, Threads
  <2>7. (LateReports \/ ReadyIsTrue)'
    BY <1>0, <1>1, <1>3 DEF ReadyIsTrue
  <2>. QED BY <2>2, <2>3, <2>4, <2>5, <2>6, <2>7 DEF SupervisorInv
<1>4. CASE process # None
  <2> DEFINE l == IF Alive(process) /\ ~flags.shutdown THEN "asking" ELSE "joining worker"
  <2>1. /\ flags' = [flags EXCEPT !.business = FALSE] /\ Goto(t, l)
        /\ \/ l = "asking" /\ Ask(t, "shutdown")
           \/ l = "joining worker" /\ UNCHANGED <<commands, answer>>
    BY <1>4 DEF StopWorker
  <2>2. l \in {"asking", "joining worker"} /\ l \in Labels /\ l \in Swapping
    BY DEF Labels, Swapping
  <2> HIDE DEF l
  <2>3. Moves(t, l, job[t], lifecycle)
    BY <1>0, <1>1, <1>2, <2>1, <2>2, GotoMoves
  <2>4. job[t] # "start"
    BY <1>0, <1>1 DEF PlacesOK, LocksInOrder, Movers, Swapping
  <2>5. PlacesOK' /\ LocksInOrder'
    BY <1>0, <1>1, <2>2, <2>3, <2>4, SwapContinues
  <2>6. /\ flags' \in [ready : BOOLEAN, failed : BOOLEAN, business : BOOLEAN, shutdown : BOOLEAN]
        /\ flags'.business = FALSE /\ flags'.ready = flags.ready
    BY <1>0, <2>1 DEF RecordsOK
  <2>7. RecordsOK'
    BY <1>0, <1>1, <2>6 DEF RecordsOK
  <2>9. WorkerInOrder'
    BY <1>0, <1>1, <1>2, <2>2, <2>3 DEF WorkerInOrder, OneWorker, Alive, Mode, Target, Moves, Movers, Threads
  <2>10. FlagsInOrder'
    BY <1>0, <1>1, <1>2, <2>2, <2>3, <2>6, SwapperFacts
       DEF FlagsInOrder, PlacesOK, LocksInOrder, Alive, Moves, Movers, Threads, Swapping
  <2>11. \A c \in commands : c.by # t
    BY <1>0, <1>1 DEF CommandsInOrder, Awaits, Movers
  <2>12. \A u \in Movers : pc'[u] # "booting"
    BY <1>1, <1>2, <2>2, <2>3 DEF Swapping, Moves, Movers, Threads
  <2>13. CommandsInOrder' /\ answer' \in [Threads -> Replies] /\ commands' \subseteq CommandRecord
    <3>1. CASE l = "asking" /\ Ask(t, "shutdown")
      <4>1. Awaits([to |-> process, method |-> "shutdown", by |-> t])'
        BY <2>3, <3>1 DEF Awaits, Moves, Movers
      <4>2. \A u \in Threads \ {t} : pc'[u] = pc[u]
        BY <2>3 DEF Moves
      <4>. QED BY <1>0, <1>1, <1>2, <2>11, <2>12, <3>1, <4>1, <4>2, AskKeeps
    <3>2. CASE UNCHANGED <<commands, answer>>
      <4>1. \A c \in commands : Alive(c.to)'
        BY <1>0, <1>1 DEF CommandsInOrder, Alive
      <4>2. \A u \in Threads \ {t} : pc'[u] = pc[u] /\ answer'[u] = answer[u]
        BY <2>3, <3>2 DEF Moves
      <4>3. CommandsInOrder'
        BY <1>0, <1>2, <2>11, <2>12, <3>2, <4>1, <4>2, CommandsStay
      <4>. QED BY <1>0, <3>2, <4>3 DEF SupervisorTypeOK, CommandRecord, Replies
    <3>. QED BY <2>1, <3>1, <3>2
  <2>15. SupervisorTypeOK'
    <3>1. locked => pc'["page"] \in {"pausing", "resuming"}
      BY <1>0, <2>3 DEF SupervisorTypeOK, Moves, Movers, Threads
    <3>. QED BY <1>0, <1>1, <2>3, <2>13, <3>1 DEF SupervisorTypeOK, CommandRecord, Replies, Moves
  <2>14. (LateReports \/ ReadyIsTrue)'
    BY <1>0, <1>1, <1>2, <2>2, <2>3, <2>6 DEF ReadyIsTrue, Moves, Movers, Threads
  <2>. QED BY <2>5, <2>7, <2>15, <2>9, <2>10, <2>13, <2>14 DEF SupervisorInv
<1>. QED BY <1>3, <1>4

\* A thread that gives the worker up, or has nothing to do with it any more.
LEMMA WorkerAfterMove ==
  ASSUME WorkerInOrder, NEW t \in Movers,
         pc'[t] \notin {"booting", "admitting", "restored", "staging", "installing"},
         \A u \in Movers : u # t => pc'[u] = pc[u] /\ pc[u] \notin Swapping,
         phase' = phase, process' \in {process, None},
         process' # None => worker'[process].mode = worker[process].mode,
         OneWorker', open' => Alive(process)'
  PROVE  WorkerInOrder'
<1>1. CASE t = "main"
  BY <1>1 DEF WorkerInOrder, Mode, Target, Movers, Swapping
<1>2. CASE t = "op"
  BY <1>2 DEF WorkerInOrder, Mode, Target, Movers, Swapping
<1>. QED BY <1>1, <1>2 DEF Movers

LEMMA FlagsAfterMove ==
  ASSUME RecordsOK', flags'.business = FALSE,
         pc'["main"] # "loop" \/ (phase' # "ready" /\ pc'["op"] # "restored")
  PROVE  FlagsInOrder'
  BY DEF FlagsInOrder, RecordsOK

LEMMA AskedInv ==
  ASSUME SupervisorAssumption, SupervisorInv, NEW t \in Movers, Asked(t)
  PROVE  SupervisorInv'
<1>0. /\ SupervisorTypeOK /\ PlacesOK /\ RecordsOK /\ LocksInOrder /\ WorkerInOrder /\ FlagsInOrder
      /\ CommandsInOrder /\ (LateReports \/ ReadyIsTrue)
  BY DEF SupervisorInv
<1>1. /\ pc[t] = "asking" /\ pc[t] \in Swapping /\ answer[t] # "awaited"
      /\ answer' = [answer EXCEPT ![t] = "none"]
      /\ UNCHANGED <<worker, snapshot, commands, reports, process, session, lost, told, count>>
      /\ UNCHANGED <<phase, package, status, cleanup, locked>>
  BY DEF Asked, Answered, processes, saved, manager, Swapping
<1>2. /\ t \in Threads /\ \A u \in Movers : u # t => pc[u] \notin Swapping
      /\ ~flags.business /\ job[t] # "start"
      /\ job[t] # "exit" => phase # "ready" /\ pc["op"] # "restored"
      /\ job[t] = "exit" => t = "main"
  <2>1. job[t] # "start"
    BY <1>0, <1>1 DEF PlacesOK, LocksInOrder, Movers, Swapping
  <2>. QED BY <1>1, <2>1, SwapperFacts
<1>3. \A c \in commands : c.by # t
  BY <1>0, <1>1 DEF CommandsInOrder, Movers
<1>4. ASSUME PlacesOK', LocksInOrder', RecordsOK', flags'.business = FALSE,
             flags'.ready = flags.ready, open' \in BOOLEAN, open' => open,
             NEW l \in {"joining worker", "joining", "restore", "failed", "raised", "stop"},
             NEW j \in JobNames, NEW h \in {"free", lifecycle}, Moves(t, l, j, h)
      PROVE  SupervisorInv'
  <2>1. \A u \in Threads \ {t} : pc'[u] = pc[u] /\ answer'[u] = answer[u]
    BY <1>0, <1>1, <1>4 DEF Moves, SupervisorTypeOK
  <2>2. pc'[t] = l /\ \A u \in Movers : u # t => pc'[u] = pc[u] /\ pc[u] \notin Swapping
    BY <1>2, <1>4, <2>1 DEF Moves, Movers, Threads
  <2>3. SupervisorTypeOK'
    <3>1. locked' => pc'["page"] \in {"pausing", "resuming"}
      BY <1>0, <1>1, <2>1 DEF SupervisorTypeOK, Movers, Threads
    <3>2. answer' \in [Threads -> Replies] /\ lifecycle' \in {"free", "main", "op"}
      BY <1>0, <1>1, <1>4 DEF SupervisorTypeOK, Replies, Moves
    <3>. QED BY <1>0, <1>1, <1>4, <3>1, <3>2 DEF SupervisorTypeOK, Replies
  <2>4. WorkerInOrder'
    BY <1>0, <1>1, <1>4, <2>2, WorkerAfterMove DEF WorkerInOrder, OneWorker, Alive
  <2>5. FlagsInOrder'
    <3>1. pc'["main"] # "loop" \/ (phase' # "ready" /\ pc'["op"] # "restored")
      BY <1>0, <1>1, <1>2, <2>2, SwapperFacts DEF PlacesOK, LocksInOrder, Movers, Swapping
    <3>. QED BY <1>4, <3>1, FlagsAfterMove
  <2>6. CommandsInOrder'
    <3>1. \A u \in Movers : pc'[u] # "booting"
      BY <2>2 DEF Swapping
    <3>2. \A c \in commands' : Alive(c.to)'
      BY <1>0, <1>1 DEF CommandsInOrder, Alive
    <3>. QED BY <1>0, <1>1, <1>2, <1>3, <2>1, <3>1, <3>2, CommandsStay
  <2>7. (LateReports \/ ReadyIsTrue)'
    BY <1>0, <1>1, <1>4, <2>2 DEF ReadyIsTrue, Movers
  <2>. QED BY <1>4, <2>3, <2>4, <2>5, <2>6, <2>7 DEF SupervisorInv
<1>5. CASE answer[t] = "refused"
  <2>1. Fail(t, "refusal") /\ UNCHANGED <<open, flags>>
    BY <1>5 DEF Asked
  <2>2. Fails(t, "refusal")
    BY <1>0, <1>1, <2>1, FailMoves
  <2>3. PlacesOK' /\ LocksInOrder'
    BY <1>0, <1>1, <2>2, SwapFails
  <2>4. RecordsOK' /\ flags'.business = FALSE /\ flags'.ready = flags.ready
    BY <1>0, <1>1, <1>2, <2>1 DEF RecordsOK
  <2>5. \E l \in {"joining", "restore", "failed", "raised", "stop"}, j \in JobNames, h \in {"free", lifecycle} :
          Moves(t, l, j, h)
    BY <1>0, <1>2, <2>2 DEF Fails, JobNames, PlacesOK
  <2>. QED BY <1>0, <1>4, <2>1, <2>3, <2>4, <2>5 DEF SupervisorTypeOK
<1>6. CASE answer[t] # "refused"
  <2>1. /\ open' = (open /\ answer[t] # "lost") /\ flags' = [flags EXCEPT !.shutdown = TRUE]
        /\ Goto(t, "joining worker") /\ UNCHANGED <<job, lifecycle>>
    BY <1>6 DEF Asked
  <2>2. Moves(t, "joining worker", job[t], lifecycle)
    BY <1>0, <1>2, <2>1, GotoMoves DEF Labels, Swapping
  <2>3. PlacesOK' /\ LocksInOrder'
    BY <1>0, <1>1, <1>2, <2>2, SwapContinues DEF Swapping
  <2>4. RecordsOK' /\ flags'.business = FALSE /\ flags'.ready = flags.ready
    BY <1>0, <1>1, <1>2, <2>1 DEF RecordsOK
  <2>5. open' \in BOOLEAN /\ (open' => open)
    BY <2>1
  <2>6. job[t] \in JobNames
    BY <1>0, <1>2 DEF PlacesOK, JobNames
  <2>. QED BY <1>4, <2>2, <2>3, <2>4, <2>5, <2>6
<1>. QED BY <1>5, <1>6

\* What a thread that gives the worker up leaves behind.
LEMMA GivingUp ==
  ASSUME SupervisorInv, NEW t \in Movers, pc[t] \in Swapping, NEW j, NEW h,
         NEW l \in {"joining worker", "joining", "restore", "failed", "raised", "stop", "spawn", "finishing"},
         Moves(t, l, j, h), phase' = phase, RecordsOK', flags'.business = FALSE,
         process' \in {process, None},
         process' # None => worker'[process].mode = worker[process].mode,
         OneWorker', open' => Alive(process)'
  PROVE  WorkerInOrder' /\ FlagsInOrder'
<1>0. PlacesOK /\ LocksInOrder /\ WorkerInOrder
  BY DEF SupervisorInv
<1>1. /\ t \in Threads /\ \A u \in Movers : u # t => pc[u] \notin Swapping
      /\ job[t] # "exit" => phase # "ready" /\ pc["op"] # "restored"
      /\ job[t] = "exit" => t = "main"
  BY SwapperFacts
<1>2. pc'[t] = l /\ \A u \in Movers : u # t => pc'[u] = pc[u] /\ pc[u] \notin Swapping
  BY <1>1 DEF Moves, Movers, Threads
<1>3. WorkerInOrder'
  BY <1>0, <1>2, WorkerAfterMove
<1>4. pc'["main"] # "loop" \/ (phase' # "ready" /\ pc'["op"] # "restored")
  BY <1>1, <1>2 DEF Movers
<1>. QED BY <1>3, <1>4, FlagsAfterMove

\* Where the ways out of a failed step lead.
LEMMA FailLeads ==
  ASSUME PlacesOK, NEW t \in Movers, NEW during, Fails(t, during)
  PROVE  \E l \in {"joining", "restore", "failed", "raised", "stop"}, j \in JobNames, h \in {"free", lifecycle} :
           Moves(t, l, j, h)
  BY DEF Fails, JobNames, PlacesOK, Movers, Threads

\* A worker that has exited gets no commands.
LEMMA NoneLeft ==
  ASSUME CommandsInOrder, WorkerInOrder, SupervisorTypeOK, ~Alive(process)
  PROVE  commands = {} /\ \A w \in Workers : ~Alive(w)
<1>1. \A w \in Workers : ~Alive(w)
  BY DEF WorkerInOrder, OneWorker
<1>2. \A c \in commands : c.to \in Workers /\ Alive(c.to)
  BY DEF CommandsInOrder, SupervisorTypeOK
<1>. QED BY <1>1, <1>2

LEMMA JoinInv ==
  ASSUME SupervisorAssumption, SupervisorInv, NEW t \in Movers, Join(t)
  PROVE  SupervisorInv'
<1>0. /\ SupervisorTypeOK /\ PlacesOK /\ RecordsOK /\ LocksInOrder /\ WorkerInOrder /\ FlagsInOrder
      /\ CommandsInOrder /\ (LateReports \/ ReadyIsTrue)
  BY DEF SupervisorInv
<1>1. /\ pc[t] = "joining worker" /\ pc[t] \in Swapping
      /\ UNCHANGED <<worker, snapshot, commands, reports, flags, session, lost, told, answer, count>>
      /\ UNCHANGED <<phase, package, status, cleanup, locked>>
  BY DEF Join, processes, saved, manager, Swapping
<1>2. /\ t \in Threads /\ \A u \in Movers : u # t => pc[u] \notin Swapping
      /\ ~flags.business
  BY <1>1, SwapperFacts
<1>3. RecordsOK' /\ flags'.business = FALSE
  BY <1>0, <1>1, <1>2 DEF RecordsOK
<1>4. ASSUME PlacesOK', LocksInOrder', process' \in {process, None}, open' \in BOOLEAN,
             open' => open /\ process' = process,
             NEW l \in {"joining", "restore", "failed", "raised", "stop", "spawn", "finishing"},
             NEW j \in JobNames, NEW h \in {"free", lifecycle}, Moves(t, l, j, h),
             OneWorker'
      PROVE  SupervisorInv'
  <2>1. \A u \in Threads \ {t} : pc'[u] = pc[u] /\ answer'[u] = answer[u]
    BY <1>1, <1>4 DEF Moves
  <2>2. \A u \in Movers : pc'[u] # "booting"
    BY <1>2, <1>4, <2>1 DEF Moves, Movers, Threads, Swapping
  <2>3. SupervisorTypeOK'
    <3>1. locked' => pc'["page"] \in {"pausing", "resuming"}
      BY <1>0, <1>1, <2>1 DEF SupervisorTypeOK, Movers, Threads
    <3>2. lifecycle' \in {"free", "main", "op"}
      BY <1>0, <1>4 DEF SupervisorTypeOK, Moves
    <3>. QED BY <1>0, <1>1, <1>4, <3>1, <3>2 DEF SupervisorTypeOK
  <2>4. open' => Alive(process)'
    BY <1>0, <1>1, <1>4 DEF WorkerInOrder, Alive
  <2>5. WorkerInOrder' /\ FlagsInOrder'
    BY <1>1, <1>3, <1>4, <2>4, GivingUp
  <2>6. CommandsInOrder'
    <3>1. \A c \in commands : c.by # t
      BY <1>0, <1>1 DEF CommandsInOrder, Awaits, Movers
    <3>2. \A c \in commands' : Alive(c.to)'
      BY <1>0, <1>1 DEF CommandsInOrder, Alive
    <3>. QED BY <1>0, <1>1, <1>2, <2>1, <2>2, <3>1, <3>2, CommandsStay
  <2>7. (LateReports \/ ReadyIsTrue)'
    <3>1. \A u \in Movers : pc'[u] # "admitting"
      BY <1>2, <1>4, <2>1 DEF Moves, Movers, Threads, Swapping
    <3>. QED BY <1>0, <1>1, <1>4, <3>1 DEF ReadyIsTrue, Movers
  <2>. QED BY <1>3, <1>4, <2>3, <2>5, <2>6, <2>7 DEF SupervisorInv
<1>5. CASE ~Alive(process)
  <2>1. Disown /\ Stopped(t) /\ UNCHANGED <<job, lifecycle>>
    BY <1>5 DEF Join
  <2>2. /\ PlacesOK' /\ LocksInOrder'
        /\ Moves(t, IF job[t] = "exit" THEN "finishing" ELSE "spawn", job[t], lifecycle)
    BY <1>0, <1>1, <2>1, SwapEnds
  <2>3. OneWorker'
    BY <1>0, <1>1, <1>5, NoneLeft DEF OneWorker, Alive
  <2>. QED BY <1>0, <1>2, <1>4, <2>1, <2>2, <2>3 DEF Disown, PlacesOK, JobNames
<1>6. CASE Alive(process)
  <2>1. Fail(t, "timeout") /\ UNCHANGED <<process, open>>
    BY <1>6 DEF Join
  <2>2. Fails(t, "timeout")
    BY <1>0, <1>1, <2>1, FailMoves
  <2>3. PlacesOK' /\ LocksInOrder'
    BY <1>0, <1>1, <2>2, SwapFails
  <2>4. OneWorker'
    BY <1>0, <1>1, <2>1 DEF WorkerInOrder, OneWorker, Alive
  <2>. QED BY <1>0, <1>4, <2>1, <2>2, <2>3, <2>4, FailLeads DEF SupervisorTypeOK
<1>. QED BY <1>5, <1>6

LEMMA SpawnInv ==
  ASSUME SupervisorAssumption, SupervisorInv, NEW t \in Movers, Spawn(t)
  PROVE  SupervisorInv'
<1>0. /\ SupervisorTypeOK /\ PlacesOK /\ RecordsOK /\ LocksInOrder /\ WorkerInOrder /\ FlagsInOrder
      /\ CommandsInOrder /\ (LateReports \/ ReadyIsTrue)
  BY DEF SupervisorInv
<1>1. /\ pc[t] = "spawn" /\ pc[t] \in Swapping
      /\ UNCHANGED <<snapshot, commands, session, lost, told, answer>>
      /\ UNCHANGED <<phase, package, status, cleanup, locked>>
  BY DEF Spawn, saved, manager, Swapping
<1>2. /\ t \in Threads /\ \A u \in Movers : u # t => pc[u] \notin Swapping
      /\ ~flags.business /\ job[t] # "exit" /\ phase # "ready" /\ pc["op"] # "restored"
  BY <1>1, SwapperFacts
<1>3. \A c \in commands : c.by # t
  BY <1>0, <1>1 DEF CommandsInOrder, Awaits, Movers
<1>4. ASSUME Fail(t, "spawn"), UNCHANGED <<worker, process, open>>, RecordsOK',
             flags'.business = FALSE, flags'.ready => flags.ready
      PROVE  SupervisorInv'
  <2>1. Fails(t, "spawn")
    BY <1>0, <1>1, <1>4, FailMoves
  <2>2. PlacesOK' /\ LocksInOrder'
    BY <1>0, <1>1, <2>1, SwapFails
  <2>3. PICK l \in {"joining", "restore", "failed", "raised", "stop"}, j \in JobNames, h \in {"free", lifecycle} :
          Moves(t, l, j, h)
    BY <1>0, <2>1, FailLeads
  <2>4. \A u \in Threads \ {t} : pc'[u] = pc[u] /\ answer'[u] = answer[u]
    BY <1>1, <2>3 DEF Moves
  <2>5. \A u \in Movers : pc'[u] # "booting" /\ pc'[u] # "admitting"
    BY <1>2, <2>3, <2>4 DEF Moves, Movers, Threads, Swapping
  <2>6. SupervisorTypeOK'
    <3>1. locked' => pc'["page"] \in {"pausing", "resuming"}
      BY <1>0, <1>1, <2>4 DEF SupervisorTypeOK, Movers, Threads
    <3>2. lifecycle' \in {"free", "main", "op"}
      BY <1>0, <2>3 DEF SupervisorTypeOK, Moves
    <3>. QED BY <1>0, <1>1, <1>4, <3>1, <3>2 DEF SupervisorTypeOK
  <2>7. OneWorker' /\ (open' => Alive(process)')
    BY <1>0, <1>4 DEF WorkerInOrder, OneWorker, Alive
  <2>8. WorkerInOrder' /\ FlagsInOrder'
    BY <1>1, <1>4, <2>3, <2>7, GivingUp
  <2>9. CommandsInOrder'
    <3>1. \A c \in commands' : Alive(c.to)'
      BY <1>0, <1>1, <1>4 DEF CommandsInOrder, Alive
    <3>. QED BY <1>0, <1>1, <1>2, <1>3, <2>4, <2>5, <3>1, CommandsStay
  <2>10. (LateReports \/ ReadyIsTrue)'
    BY <1>0, <1>4, <2>5 DEF ReadyIsTrue, Movers
  <2>. QED BY <1>4, <2>2, <2>6, <2>8, <2>9, <2>10 DEF SupervisorInv
<1>5. CASE process # None
  <2>1. Fail(t, "spawn") /\ UNCHANGED <<worker, reports, process, open, flags, count>>
    BY <1>5 DEF Spawn, owned
  <2>2. RecordsOK'
    BY <1>0, <1>1, <2>1 DEF RecordsOK
  <2>. QED BY <1>0, <1>2, <1>4, <2>1, <2>2 DEF RecordsOK
<1>6. CASE process = None
  <2>0. /\ flags' = NoFlags /\ reports' \subseteq reports
        /\ flags' \in [ready : BOOLEAN, failed : BOOLEAN, business : BOOLEAN, shutdown : BOOLEAN]
        /\ flags'.ready = FALSE /\ flags'.business = FALSE
    <3>1. flags' = NoFlags /\ reports' = (IF LateReports THEN reports ELSE {})
      BY <1>6 DEF Spawn
    <3>. QED BY <3>1 DEF NoFlags
  <2>1. commands = {} /\ \A w \in Workers : ~Alive(w)
    BY <1>0, <1>6, NoneLeft DEF Alive
  <2>2. CASE Fail(t, "spawn") /\ count' = [count EXCEPT !.faults = @ + 1] /\ UNCHANGED <<worker, process, open>>
    <3>1. RecordsOK'
      BY <1>0, <1>1, <2>0, <2>2 DEF RecordsOK
    <3>. QED BY <1>4, <2>0, <2>2, <3>1
  <2>3. ASSUME NEW w \in Workers, \A r \in reports' : r.from # w,
               worker' = [worker EXCEPT ![w] = [Gone EXCEPT !.life = "booting", !.mode = Target(t),
                                       !.session = IF Target(t) = "business" THEN session ELSE 0]],
               process' = w, open' = TRUE, Goto(t, "booting"), UNCHANGED <<job, lifecycle, count>>
        PROVE  SupervisorInv'
    <3>1. Moves(t, "booting", job[t], lifecycle)
      BY <1>0, <1>2, <2>3, GotoMoves DEF Labels, Swapping
    <3>2. PlacesOK' /\ LocksInOrder'
      BY <1>0, <1>1, <1>2, <3>1, SwapContinues DEF Swapping
    <3>3. \A u \in Threads \ {t} : pc'[u] = pc[u] /\ job'[u] = job[u]
      BY <3>1 DEF Moves
    <3>4. /\ pc'[t] = "booting" /\ job'[t] = job[t]
          /\ \A u \in Movers : u # t => pc'[u] \notin Swapping /\ pc'[u] = pc[u]
      BY <1>2, <3>1, <3>3 DEF Moves, Movers, Threads
    <3> DEFINE new == [Gone EXCEPT !.life = "booting", !.mode = Target(t),
                         !.session = IF Target(t) = "business" THEN session ELSE 0]
    <3>5. new \in WorkerRecord /\ new.life = "booting" /\ new.mode = Target(t) /\ w # None
      <4>1. session \in 0..Edits /\ 0 \in 0..Edits /\ w # None /\ Target(t) \in {"business", "maintenance"}
        BY <1>0 DEF Target, SupervisorTypeOK, SupervisorAssumption
      <4> DEFINE x == IF Target(t) = "business" THEN session ELSE 0
      <4>2. Gone \in WorkerRecord /\ x \in 0..Edits
        BY <4>1 DEF Gone, WorkerRecord
      <4>3. new = [Gone EXCEPT !.life = "booting", !.mode = Target(t), !.session = x]
        OBVIOUS
      <4> HIDE DEF x, new
      <4>. QED BY <4>1, <4>2, <4>3 DEF WorkerRecord
    <3>6. worker' \in [Workers -> WorkerRecord] /\ worker'[w] = new /\ \A v \in Workers : v # w => worker'[v] = worker[v]
      <4> HIDE DEF new
      <4>1. worker \in [Workers -> WorkerRecord] /\ worker' = [worker EXCEPT ![w] = new]
        BY <1>0, <2>3 DEF SupervisorTypeOK, WorkerRecord, new
      <4>. QED BY <3>5, <4>1
    <3> HIDE DEF new
    <3>7. worker'[w].life = "booting" /\ worker'[w].mode = Target(t)
      BY <3>5, <3>6
    <3>8. SupervisorTypeOK'
      <4>1. locked' => pc'["page"] \in {"pausing", "resuming"}
        BY <1>0, <1>1, <3>3 DEF SupervisorTypeOK, Movers, Threads
      <4>. QED BY <1>0, <1>1, <2>3, <3>5, <3>6, <4>1 DEF SupervisorTypeOK, WorkerRecord
    <3>9. RecordsOK'
      BY <1>0, <1>1, <2>0, <2>3, <3>6 DEF RecordsOK
    <3>10. WorkerInOrder'
      <4>1. OneWorker' /\ Alive(process)'
        BY <2>1, <2>3, <3>5, <3>6, <3>7 DEF OneWorker, Alive
      <4>2. Target(t)' = Target(t)
        BY <3>4 DEF Target
      <4>3. Mode' = Target(t)
        BY <2>3, <3>5, <3>7 DEF Mode
      <4>4. pc'["op"] \notin {"restored", "staging", "installing"}
        BY <1>0, <1>1, <1>2, <3>4 DEF LocksInOrder, Movers, PlacesOK
      <4>. QED BY <1>1, <1>2, <2>3, <3>4, <3>5, <4>1, <4>2, <4>3, <4>4 DEF WorkerInOrder, Movers, Swapping
    <3>11. FlagsInOrder'
      <4>1. phase' # "ready" /\ pc'["op"] # "restored"
        BY <1>1, <1>2, <3>4 DEF Movers
      <4>. QED BY <2>0, <3>9, <4>1, FlagsAfterMove
    <3>12. CommandsInOrder'
      BY <1>1, <2>1 DEF CommandsInOrder
    <3>13. (LateReports \/ ReadyIsTrue)'
      BY <2>0, <3>4 DEF ReadyIsTrue, Movers, Swapping
    <3>. QED BY <3>2, <3>8, <3>9, <3>10, <3>11, <3>12, <3>13 DEF SupervisorInv
  <2>. QED BY <1>6, <2>2, <2>3 DEF Spawn, Count
<1>. QED BY <1>5, <1>6

\* A worker that serves for a job is the one that the next place in the job calls for.
LEMMA Arriving ==
  ASSUME SupervisorInv, NEW t \in Movers, pc[t] \in {"booting", "admitting"}, Succeeds(t),
         UNCHANGED <<worker, process, open>>, RecordsOK',
         flags'.business = (Target(t) = "business")
  PROVE  WorkerInOrder' /\ FlagsInOrder'
<1>0. /\ SupervisorTypeOK /\ PlacesOK /\ LocksInOrder /\ WorkerInOrder /\ FlagsInOrder
  BY DEF SupervisorInv
<1>1. /\ pc[t] \in Swapping /\ t \in Threads /\ \A u \in Movers : u # t => pc[u] \notin Swapping
      /\ job[t] # "exit" /\ phase # "ready" /\ pc["op"] # "restored"
  BY SwapperFacts DEF Swapping
<1>2. process # None /\ Mode = Target(t) /\ Mode' = Mode
  BY <1>0 DEF WorkerInOrder, Mode, Movers
<1>3. OneWorker' /\ (open' => Alive(process)')
  BY <1>0 DEF WorkerInOrder, OneWorker, Alive
<1>4. \A u \in Movers : u # t => pc'[u] = pc[u]
  BY DEF Succeeds, Moves, Movers, Threads
<1>5. CASE job[t] = "start"
  <2>1. t = "main" /\ pc'["main"] = "loop" /\ phase' = "ready" /\ pc["op"] = "idle" /\ Target(t) = "business"
    BY <1>0, <1>1, <1>5 DEF PlacesOK, LocksInOrder, Succeeds, Moves, Movers, Target
  <2>. QED BY <1>1, <1>2, <1>3, <1>4, <2>1
           DEF WorkerInOrder, FlagsInOrder, RecordsOK, Movers, Swapping
<1>6. CASE job[t] = "ensure"
  <2>1. t = "main" /\ pc'["main"] = "loop" /\ phase' = phase /\ Target(t) = "maintenance"
    BY <1>0, <1>1, <1>6 DEF PlacesOK, Succeeds, Moves, Movers, Target
  <2>. QED BY <1>1, <1>2, <1>3, <1>4, <2>1
           DEF WorkerInOrder, FlagsInOrder, RecordsOK, Movers, Swapping
<1>7. CASE job[t] = "enter"
  <2>1. t = "op" /\ pc'["op"] = "staging" /\ phase' = phase /\ Target(t) = "maintenance"
    BY <1>0, <1>1, <1>7 DEF PlacesOK, Succeeds, Moves, Movers, Target
  <2>. QED BY <1>1, <1>2, <1>3, <1>4, <2>1
           DEF WorkerInOrder, FlagsInOrder, RecordsOK, Movers, Swapping
<1>8. CASE job[t] = "fallback"
  <2>1. t = "op" /\ pc'["op"] = "failed" /\ phase' = phase /\ Target(t) = "maintenance"
    BY <1>0, <1>1, <1>8 DEF PlacesOK, Succeeds, Moves, Movers, Target
  <2>. QED BY <1>1, <1>2, <1>3, <1>4, <2>1
           DEF WorkerInOrder, FlagsInOrder, RecordsOK, Movers, Swapping
<1>9. CASE job[t] = "restore"
  <2>1. t = "op" /\ pc'["op"] = "restored" /\ phase' = phase /\ Target(t) = "business"
    BY <1>0, <1>1, <1>9 DEF PlacesOK, Succeeds, Moves, Movers, Target
  <2>2. pc'["main"] \notin Swapping
    BY <1>1, <1>4, <2>1 DEF Movers
  <2>3. WorkerInOrder'
    BY <1>2, <1>3, <2>1, <2>2 DEF WorkerInOrder, Movers, Swapping
  <2>4. FlagsInOrder'
    BY <1>2, <2>1, <2>2 DEF FlagsInOrder, RecordsOK, Movers, Swapping
  <2>. QED BY <2>3, <2>4
<1>. QED BY <1>5, <1>6, <1>7, <1>8, <1>9 DEF Succeeds

LEMMA BootedInv ==
  ASSUME SupervisorAssumption, SupervisorInv, NEW t \in Movers, Booted(t)
  PROVE  SupervisorInv'
<1>0. /\ SupervisorTypeOK /\ PlacesOK /\ RecordsOK /\ LocksInOrder /\ WorkerInOrder /\ FlagsInOrder
      /\ CommandsInOrder /\ (LateReports \/ ReadyIsTrue)
  BY DEF SupervisorInv
<1>1. /\ pc[t] = "booting" /\ pc[t] \in Swapping /\ flags.ready
      /\ UNCHANGED <<worker, snapshot, reports, process, open, flags, lost, told, job, count>>
      /\ UNCHANGED <<package, status, cleanup, locked>>
  BY DEF Booted, IsReady, owned, Swapping
<1>2. /\ t \in Threads /\ \A u \in Movers : u # t => pc[u] \notin Swapping
      /\ ~flags.business /\ job[t] # "exit" /\ phase # "ready" /\ pc["op"] # "restored"
      /\ job[t] \in {"start", "ensure", "enter", "restore", "fallback"}
  BY <1>1, SwapperFacts
<1>3. RecordsOK' /\ \A c \in commands : c.by # t
  BY <1>0, <1>1 DEF RecordsOK, CommandsInOrder, Awaits, Movers
<1>4. CASE Target(t) = "business"
  <2>1. Ask(t, "resume") /\ Goto(t, "admitting") /\ UNCHANGED <<phase, lifecycle, session>>
    BY <1>4 DEF Booted
  <2>2. Moves(t, "admitting", job[t], lifecycle)
    BY <1>0, <1>1, <1>2, <2>1, GotoMoves DEF Labels, Swapping
  <2>3. PlacesOK' /\ LocksInOrder'
    <3>1. job[t] # "ensure"
      BY <1>4 DEF Target
    <3>. QED BY <1>0, <1>1, <1>2, <2>1, <2>2, <3>1, SwapContinues DEF Swapping
  <2>4. /\ pc'[t] = "admitting" /\ job'[t] = job[t]
        /\ \A u \in Threads \ {t} : pc'[u] = pc[u] /\ job'[u] = job[u]
    BY <2>2 DEF Moves
  <2>5. \A u \in Movers : u # t => pc'[u] \notin Swapping /\ pc'[u] = pc[u]
    BY <1>2, <2>4 DEF Movers, Threads
  <2>6. CommandsInOrder' /\ answer' \in [Threads -> Replies] /\ commands' \subseteq CommandRecord
    <3>1. Awaits([to |-> process, method |-> "resume", by |-> t])'
      BY <2>4 DEF Awaits, Movers
    <3>2. \A u \in Movers : pc'[u] # "booting"
      BY <2>4, <2>5 DEF Swapping
    <3>. QED BY <1>0, <1>1, <1>2, <1>3, <2>1, <2>4, <3>1, <3>2, AskKeeps
  <2>7. SupervisorTypeOK'
    <3>1. locked' => pc'["page"] \in {"pausing", "resuming"}
      BY <1>0, <1>1, <2>4 DEF SupervisorTypeOK, Movers, Threads
    <3>. QED BY <1>0, <1>1, <2>1, <2>6, <3>1 DEF SupervisorTypeOK, Replies, CommandRecord
  <2>8. WorkerInOrder'
    <3>1. Target(t)' = Target(t) /\ Mode' = Mode
      BY <1>1, <2>4 DEF Target, Mode
    <3>2. OneWorker' /\ (open' => Alive(process)')
      BY <1>0, <1>1 DEF WorkerInOrder, OneWorker, Alive
    <3>3. process # None /\ Mode = Target(t)
      BY <1>0, <1>1 DEF WorkerInOrder, Movers
    <3>4. pc'["op"] \notin {"restored", "staging", "installing"}
      BY <1>0, <1>1, <1>2, <2>4, <2>5 DEF LocksInOrder, Movers, PlacesOK
    <3>. QED BY <1>1, <1>2, <1>4, <2>1, <2>4, <2>5, <3>1, <3>2, <3>3, <3>4
             DEF WorkerInOrder, Movers, Swapping
  <2>9. FlagsInOrder'
    <3>1. phase' # "ready" /\ pc'["op"] # "restored"
      BY <1>1, <1>2, <2>1, <2>4, <2>5 DEF Movers
    <3>2. flags'.business = FALSE
      BY <1>0, <1>1, <1>2 DEF RecordsOK
    <3>. QED BY <1>3, <3>1, <3>2, FlagsAfterMove
  <2>10. (LateReports \/ ReadyIsTrue)'
    BY <1>0, <1>1 DEF ReadyIsTrue
  <2>. QED BY <1>3, <2>3, <2>6, <2>7, <2>8, <2>9, <2>10 DEF SupervisorInv
<1>5. CASE Target(t) # "business"
  <2>1. Spawned(t) /\ UNCHANGED <<commands, answer>>
    BY <1>5 DEF Booted
  <2>2. Succeeds(t) /\ job[t] # "start" /\ job[t] # "restore"
    BY <1>0, <1>1, <1>5, <2>1, SpawnedMoves DEF Target
  <2>3. PlacesOK' /\ LocksInOrder'
    BY <1>0, <1>1, <2>2, SwapSucceeds
  <2>4. /\ \A u \in Threads \ {t} : pc'[u] = pc[u] /\ answer'[u] = answer[u]
        /\ pc'[t] \notin {"booting", "admitting"} /\ UNCHANGED <<phase, session>>
        /\ lifecycle' = "free"
    BY <2>1, <2>2 DEF Succeeds, Moves
  <2>5. \A u \in Movers : pc'[u] # "booting" /\ pc'[u] # "admitting"
    BY <1>2, <2>4 DEF Movers, Threads, Swapping
  <2>6. SupervisorTypeOK'
    <3>1. locked' => pc'["page"] \in {"pausing", "resuming"}
      BY <1>0, <1>1, <2>4 DEF SupervisorTypeOK, Movers, Threads
    <3>. QED BY <1>0, <1>1, <2>1, <2>4, <3>1 DEF SupervisorTypeOK
  <2>7. WorkerInOrder' /\ FlagsInOrder'
    <3>1. flags'.business = (Target(t) = "business")
      BY <1>0, <1>1, <1>2, <1>5 DEF RecordsOK
    <3>. QED BY <1>1, <1>3, <2>2, <3>1, Arriving
  <2>8. CommandsInOrder'
    <3>1. \A c \in commands' : Alive(c.to)'
      BY <1>0, <1>1, <2>1 DEF CommandsInOrder, Alive
    <3>. QED BY <1>0, <1>2, <1>3, <2>1, <2>4, <2>5, <3>1, CommandsStay
  <2>9. (LateReports \/ ReadyIsTrue)'
    BY <1>0, <1>1, <2>5 DEF ReadyIsTrue, Movers
  <2>. QED BY <1>3, <2>3, <2>6, <2>7, <2>8, <2>9 DEF SupervisorInv
<1>. QED BY <1>4, <1>5

LEMMA NotBootedInv ==
  ASSUME SupervisorAssumption, SupervisorInv, NEW t \in Movers, NotBooted(t)
  PROVE  SupervisorInv'
<1>0. /\ SupervisorTypeOK /\ PlacesOK /\ RecordsOK /\ LocksInOrder /\ WorkerInOrder /\ FlagsInOrder
      /\ CommandsInOrder /\ (LateReports \/ ReadyIsTrue)
  BY DEF SupervisorInv
<1>1. /\ pc[t] = "booting" /\ pc[t] \in Swapping /\ open' = FALSE /\ Fail(t, "spawn")
      /\ UNCHANGED <<snapshot, commands, reports, flags, session, lost, told, answer, count>>
      /\ UNCHANGED <<phase, package, status, cleanup, locked>>
  BY DEF NotBooted, saved, manager, Swapping
<1>2. /\ t \in Threads /\ \A u \in Movers : u # t => pc[u] \notin Swapping /\ ~flags.business
  BY <1>1, SwapperFacts
<1>3. commands = {} /\ process \in Workers /\ ~flags.business
  BY <1>0, <1>1, SwapperFacts DEF CommandsInOrder, WorkerInOrder, SupervisorTypeOK, Movers
<1>4. PICK rec \in WorkerRecord :
        /\ worker' = [worker EXCEPT ![process] = rec] /\ rec.mode = worker[process].mode
        /\ rec.life # "booting" /\ process' \in {process, None}
        /\ process' = None => rec.life = "gone"
  <2>0. worker[process] \in WorkerRecord /\ 0 \in 0..Edits
    BY <1>0, <1>3 DEF SupervisorTypeOK, WorkerRecord, SupervisorAssumption
  <2>1. CASE process' = None /\ worker' = [worker EXCEPT ![process] = [Gone EXCEPT !.mode = worker[process].mode]]
    <3> DEFINE m == worker[process].mode
    <3>1. m \in {"none", "business", "maintenance"} /\ Gone \in WorkerRecord /\ Gone.life = "gone"
      BY <2>0 DEF Gone, WorkerRecord
    <3> HIDE DEF m
    <3>2. /\ [Gone EXCEPT !.mode = m] \in WorkerRecord
          /\ [Gone EXCEPT !.mode = m].mode = m /\ [Gone EXCEPT !.mode = m].life = "gone"
      BY <3>1 DEF WorkerRecord
    <3>. QED BY <2>1, <3>2 DEF m
  <2>2. CASE process' = process /\ worker' = [worker EXCEPT ![process].life = "draining"]
    <3>1. worker' = [worker EXCEPT ![process] = [worker[process] EXCEPT !.life = "draining"]]
      BY <2>2
    <3>2. /\ [worker[process] EXCEPT !.life = "draining"] \in WorkerRecord
          /\ [worker[process] EXCEPT !.life = "draining"].mode = worker[process].mode
          /\ [worker[process] EXCEPT !.life = "draining"].life = "draining"
      BY <2>0 DEF WorkerRecord
    <3>. QED BY <1>3, <2>2, <3>1, <3>2 DEF SupervisorAssumption
  <2>. QED BY <2>1, <2>2 DEF NotBooted
<1>5. /\ worker' \in [Workers -> WorkerRecord] /\ worker'[process] = rec
      /\ \A w \in Workers : w # process => worker'[w] = worker[w]
  BY <1>0, <1>3, <1>4 DEF SupervisorTypeOK, WorkerRecord
<1>6. Fails(t, "spawn")
  BY <1>0, <1>1, FailMoves
<1>7. PlacesOK' /\ LocksInOrder'
  BY <1>0, <1>1, <1>6, SwapFails
<1>8. PICK l \in {"joining", "restore", "failed", "raised", "stop"}, j \in JobNames, h \in {"free", lifecycle} :
        Moves(t, l, j, h)
  BY <1>0, <1>6, FailLeads
<1>9. \A u \in Threads \ {t} : pc'[u] = pc[u] /\ answer'[u] = answer[u]
  BY <1>1, <1>8 DEF Moves
<1>10. \A u \in Movers : pc'[u] # "booting" /\ pc'[u] # "admitting"
  BY <1>2, <1>8, <1>9 DEF Moves, Movers, Threads, Swapping
<1>11. SupervisorTypeOK'
  <2>1. locked' => pc'["page"] \in {"pausing", "resuming"}
    BY <1>0, <1>1, <1>9 DEF SupervisorTypeOK, Movers, Threads
  <2>2. lifecycle' \in {"free", "main", "op"}
    BY <1>0, <1>8 DEF SupervisorTypeOK, Moves
  <2>3. process' \in Workers \cup {None} /\ open' = FALSE
    BY <1>1, <1>3, <1>4
  <2>. QED BY <1>0, <1>1, <1>5, <2>1, <2>2, <2>3 DEF SupervisorTypeOK, WorkerRecord
<1>12. RecordsOK' /\ flags'.business = FALSE
  <2>1. \A w \in Workers : worker'[w].life = "booting" => worker[w].life = "booting"
    BY <1>4, <1>5
  <2>. QED BY <1>0, <1>1, <1>3, <2>1 DEF RecordsOK
<1>13. WorkerInOrder' /\ FlagsInOrder'
  <2>1. OneWorker'
    <3>1. \A w \in Workers : w # process => worker'[w].life = "gone"
      BY <1>0, <1>5 DEF WorkerInOrder, OneWorker, Alive, SupervisorAssumption
    <3>. QED BY <1>4, <1>5, <3>1 DEF OneWorker, Alive
  <2>2. process' \in {process, None} /\ (process' # None => worker'[process].mode = worker[process].mode)
    BY <1>4, <1>5
  <2>3. pc[t] \in Swapping /\ phase' = phase /\ ~open'
    BY <1>1
  <2>4. l \in {"joining worker", "joining", "restore", "failed", "raised", "stop", "spawn", "finishing"}
    BY <1>8
  <2>. QED BY <1>8, <1>12, <2>1, <2>2, <2>3, <2>4, GivingUp
<1>14. CommandsInOrder'
  BY <1>1, <1>3 DEF CommandsInOrder
<1>15. (LateReports \/ ReadyIsTrue)'
  BY <1>3, <1>4, <1>5 DEF ReadyIsTrue
<1>. QED BY <1>7, <1>11, <1>12, <1>13, <1>14, <1>15 DEF SupervisorInv

LEMMA AdmittedInv ==
  ASSUME SupervisorAssumption, SupervisorInv, NEW t \in Movers, Admitted(t)
  PROVE  SupervisorInv'
<1>0. /\ SupervisorTypeOK /\ PlacesOK /\ RecordsOK /\ LocksInOrder /\ WorkerInOrder /\ FlagsInOrder
      /\ CommandsInOrder /\ (LateReports \/ ReadyIsTrue)
  BY DEF SupervisorInv
<1>1. /\ pc[t] = "admitting" /\ pc[t] \in Swapping /\ answer[t] # "awaited"
      /\ answer' = [answer EXCEPT ![t] = "none"]
      /\ UNCHANGED <<worker, snapshot, commands, reports, process, open, lost, told, count>>
      /\ UNCHANGED <<package, status, cleanup, locked>>
  BY DEF Admitted, Answered, processes, Swapping
<1>2. /\ t \in Threads /\ \A u \in Movers : u # t => pc[u] \notin Swapping
      /\ ~flags.business /\ job[t] # "exit" /\ phase # "ready" /\ pc["op"] # "restored"
  BY <1>1, SwapperFacts
<1>3. \A c \in commands : c.by # t
  BY <1>0, <1>1 DEF CommandsInOrder, Movers
<1>4. Target(t) = "business" /\ job[t] \in {"start", "restore"}
  BY <1>0, <1>1 DEF WorkerInOrder, Movers, Target
<1>5. ASSUME PlacesOK', LocksInOrder', RecordsOK', WorkerInOrder', FlagsInOrder',
             flags'.ready = flags.ready, phase' \in {phase, "ready"}, session' \in {session, 0},
             lifecycle' \in {"free", lifecycle},
             pc'[t] \notin {"booting", "admitting"}, \A u \in Threads \ {t} : pc'[u] = pc[u]
      PROVE  SupervisorInv'
  <2>1. answer' \in [Threads -> Replies] /\ \A u \in Threads \ {t} : pc'[u] = pc[u] /\ answer'[u] = answer[u]
    BY <1>0, <1>1, <1>5 DEF SupervisorTypeOK, Replies
  <2>2. \A u \in Movers : pc'[u] # "booting" /\ pc'[u] # "admitting"
    BY <1>2, <1>5, <2>1 DEF Movers, Threads, Swapping
  <2>3. SupervisorTypeOK'
    <3>1. locked' => pc'["page"] \in {"pausing", "resuming"}
      BY <1>0, <1>1, <2>1 DEF SupervisorTypeOK, Movers, Threads
    <3>2. {snapshot', session', told'} \subseteq 0..Edits
      BY <1>0, <1>1, <1>5 DEF SupervisorTypeOK, SupervisorAssumption
    <3>3. phase' \in {"preparing", "ready", "installing", "restoring", "recovery_failed"}
      BY <1>0, <1>5 DEF SupervisorTypeOK
    <3>. QED BY <1>0, <1>1, <1>5, <2>1, <3>1, <3>2, <3>3 DEF SupervisorTypeOK, Replies
  <2>4. CommandsInOrder'
    <3>1. \A c \in commands' : Alive(c.to)'
      BY <1>0, <1>1 DEF CommandsInOrder, Alive
    <3>. QED BY <1>0, <1>1, <1>2, <1>3, <2>1, <2>2, <3>1, CommandsStay
  <2>5. (LateReports \/ ReadyIsTrue)'
    BY <1>0, <1>1 DEF ReadyIsTrue, Movers
  <2>. QED BY <1>5, <2>3, <2>4, <2>5 DEF SupervisorInv
<1>6. CASE answer[t] = "done"
  <2>1. flags' = [flags EXCEPT !.business = TRUE] /\ Spawned(t) /\ UNCHANGED job
    BY <1>6 DEF Admitted
  <2>2. Succeeds(t)
    BY <1>0, <1>1, <2>1, SpawnedMoves
  <2>3. PlacesOK' /\ LocksInOrder'
    BY <1>0, <1>1, <2>2, SwapSucceeds
  <2>4. RecordsOK' /\ flags'.ready = flags.ready /\ flags'.business = TRUE
    BY <1>0, <1>1, <2>1 DEF RecordsOK
  <2>5. WorkerInOrder' /\ FlagsInOrder'
    BY <1>1, <1>4, <2>2, <2>4, Arriving
  <2>6. /\ phase' \in {phase, "ready"} /\ session' \in {session, 0} /\ lifecycle' \in {"free", lifecycle}
        /\ pc'[t] \notin {"booting", "admitting"} /\ \A u \in Threads \ {t} : pc'[u] = pc[u]
    BY <2>2 DEF Succeeds, Moves
  <2>. QED BY <1>5, <2>3, <2>4, <2>5, <2>6
<1>7. CASE answer[t] # "done"
  <2>1. Fail(t, "spawn") /\ UNCHANGED <<flags, phase, session>>
    BY <1>7 DEF Admitted
  <2>2. Fails(t, "spawn")
    BY <1>0, <1>1, <2>1, FailMoves
  <2>3. PlacesOK' /\ LocksInOrder'
    BY <1>0, <1>1, <2>1, <2>2, SwapFails
  <2>4. RecordsOK' /\ flags'.business = FALSE /\ flags'.ready = flags.ready
    BY <1>0, <1>1, <1>2, <2>1 DEF RecordsOK
  <2>5. PICK l \in {"joining", "restore", "failed", "raised", "stop"}, j \in JobNames, h \in {"free", lifecycle} :
          Moves(t, l, j, h)
    BY <1>0, <2>2, FailLeads
  <2>6. OneWorker' /\ (open' => Alive(process)')
    BY <1>0, <1>1 DEF WorkerInOrder, OneWorker, Alive
  <2>7. WorkerInOrder' /\ FlagsInOrder'
    BY <1>1, <2>1, <2>4, <2>5, <2>6, GivingUp
  <2>8. /\ lifecycle' \in {"free", lifecycle} /\ pc'[t] \notin {"booting", "admitting"}
        /\ \A u \in Threads \ {t} : pc'[u] = pc[u]
    BY <2>5 DEF Moves
  <2>. QED BY <1>5, <2>1, <2>3, <2>4, <2>7, <2>8
<1>. QED BY <1>6, <1>7

-----------------------------------------------------------------------------
(* The steps of a worker and of its channel                                *)

\* A worker that does not come to life leaves what the threads know in order.
LEMMA WorkerChanges ==
  ASSUME SupervisorAssumption, SupervisorInv, NEW w \in Workers, NEW rec \in WorkerRecord,
         worker' = [worker EXCEPT ![w] = rec], rec.mode = worker[w].mode, worker[w].life = "gone" => rec.life = "gone",
         rec.life = "booting" => worker[w].life = "booting",
         UNCHANGED <<process, flags, saved, manager, pc, job, lifecycle>>,
         open' \in BOOLEAN, open' => open /\ Alive(process)',
         snapshot' \in 0..Edits, answer' \in [Threads -> Replies], commands' \subseteq CommandRecord,
         CommandsInOrder', RecordsOK'
  PROVE  SupervisorInv'
<1>0. /\ SupervisorTypeOK /\ PlacesOK /\ LocksInOrder /\ WorkerInOrder /\ FlagsInOrder
      /\ (LateReports \/ ReadyIsTrue)
  BY DEF SupervisorInv
<1>1. /\ UNCHANGED <<process, flags, session, lost, told, phase, package, status, cleanup, locked>>
      /\ UNCHANGED <<pc, job, lifecycle>>
  BY DEF saved, manager
<1>2. /\ worker' \in [Workers -> WorkerRecord] /\ worker'[w] = rec
      /\ \A v \in Workers : v # w => worker'[v] = worker[v]
  BY <1>0 DEF SupervisorTypeOK, WorkerRecord
<1>3. \A v \in Workers : /\ worker'[v].mode = worker[v].mode
                         /\ worker'[v].life # "gone" => worker[v].life # "gone"
                         /\ worker'[v].life = "booting" => worker[v].life = "booting"
  BY <1>2
<1>4. SupervisorTypeOK'
  BY <1>0, <1>1, <1>2 DEF SupervisorTypeOK, WorkerRecord, Replies, CommandRecord
<1>5. PlacesOK' /\ LocksInOrder'
  BY <1>0, <1>1, ZenonT(60) DEF PlacesOK, LocksInOrder
<1>6. process \in Workers \cup {None} /\ Mode' = Mode
  BY <1>0, <1>1, <1>3 DEF SupervisorTypeOK, Mode
<1>7. WorkerInOrder'
  <2>1. OneWorker'
    BY <1>0, <1>1, <1>3 DEF WorkerInOrder, OneWorker, Alive
  <2>. QED BY <1>0, <1>1, <1>6, <2>1 DEF WorkerInOrder, Target
<1>8. FlagsInOrder'
  <2>1. Alive(process)' => Alive(process)
    BY <1>1, <1>3, <1>6 DEF Alive
  <2>. QED BY <1>0, <1>1, <2>1 DEF FlagsInOrder
<1>9. (LateReports \/ ReadyIsTrue)'
  BY <1>0, <1>1, <1>3, <1>6 DEF ReadyIsTrue
<1>. QED BY <1>4, <1>5, <1>7, <1>8, <1>9 DEF SupervisorInv

\* A worker that stays alive keeps its commands and its channel.
LEMMA WorkerLives ==
  ASSUME SupervisorAssumption, SupervisorInv, NEW w \in Workers, NEW rec \in WorkerRecord,
         worker' = [worker EXCEPT ![w] = rec], rec.mode = worker[w].mode, worker[w].life = "gone" <=> rec.life = "gone",
         rec.life = "booting" => worker[w].life = "booting",
         UNCHANGED <<snapshot, commands, owned, saved, manager, control>>, RecordsOK'
  PROVE  SupervisorInv'
<1>0. SupervisorTypeOK /\ CommandsInOrder /\ WorkerInOrder
  BY DEF SupervisorInv
<1>1. UNCHANGED <<snapshot, commands, process, open, flags, saved, manager, pc, job, answer, lifecycle>>
  BY DEF owned, control
<1>2. worker'[w] = rec /\ \A v \in Workers : v # w => worker'[v] = worker[v]
  BY <1>0 DEF SupervisorTypeOK
<1>3. \A v \in Workers : Alive(v) => Alive(v)'
  BY <1>2 DEF Alive
<1>4. open' => open /\ Alive(process)'
  BY <1>0, <1>1, <1>3 DEF WorkerInOrder, SupervisorTypeOK, Alive
<1>5. CommandsInOrder'
  <2>1. \A c \in commands : c.to \in Workers
    BY <1>0 DEF SupervisorTypeOK
  <2>. QED BY <1>0, <1>1, <1>3, <2>1 DEF CommandsInOrder, Awaits
<1>6. /\ open' \in BOOLEAN /\ snapshot' \in 0..Edits /\ answer' \in [Threads -> Replies]
      /\ commands' \subseteq CommandRecord
  BY <1>0, <1>1 DEF SupervisorTypeOK, Replies, CommandRecord
<1>. QED BY <1>1, <1>4, <1>5, <1>6, WorkerChanges

LEMMA WorkingInv ==
  ASSUME SupervisorAssumption, SupervisorInv, NEW w \in Workers,
         \/ Boot(w) \/ BootFails(w) \/ LoseChannel(w) \/ Work(w) \/ EndWork(w)
  PROVE  SupervisorInv'
<1>0. /\ SupervisorTypeOK /\ RecordsOK /\ worker[w] \in WorkerRecord
      /\ UNCHANGED <<snapshot, commands, owned, saved, manager, control>>
  BY DEF SupervisorInv, SupervisorTypeOK, WorkerRecord, Boot, BootFails, LoseChannel, Work, EndWork, control
<1>1. ASSUME NEW rec \in WorkerRecord, worker' = [worker EXCEPT ![w] = rec], rec.mode = worker[w].mode,
             worker[w].life = "gone" <=> rec.life = "gone", rec.life = "booting" => worker[w].life = "booting",
             count' \in [requests : Nat, faults : Nat, edits : 0..Edits],
             \A r \in reports' : r \in reports \/ (r.from = w /\ rec.life # "booting")
      PROVE  SupervisorInv'
  <2>1. worker'[w] = rec /\ \A v \in Workers : v # w => worker'[v] = worker[v]
    BY <1>0, <1>1 DEF SupervisorTypeOK
  <2>2. RecordsOK'
    BY <1>0, <1>1, <2>1 DEF RecordsOK, owned, manager
  <2>. QED BY <1>0, <1>1, <2>2, WorkerLives
<1>2. CASE Boot(w)
  <2>1. PICK rec : rec = [worker[w] EXCEPT !.life = "serving"]
    OBVIOUS
  <2>2. rec \in WorkerRecord /\ rec.life = "serving" /\ rec.mode = worker[w].mode
    BY <1>0, <2>1 DEF WorkerRecord
  <2>3. worker' = [worker EXCEPT ![w] = rec] /\ worker[w].life = "booting" /\ UNCHANGED count
    BY <1>2, <2>1 DEF Boot
  <2>4. \A r \in reports' : r \in reports \/ r.from = w
    BY <1>2 DEF Boot, Report
  <2>. QED BY <1>0, <1>1, <2>2, <2>3, <2>4 DEF RecordsOK
<1>3. CASE BootFails(w)
  <2>1. PICK rec : rec = [worker[w] EXCEPT !.life = "draining"]
    OBVIOUS
  <2>2. rec \in WorkerRecord /\ rec.life = "draining" /\ rec.mode = worker[w].mode
    BY <1>0, <2>1 DEF WorkerRecord
  <2>3. worker' = [worker EXCEPT ![w] = rec] /\ worker[w].life = "booting"
    BY <1>3, <2>1 DEF BootFails
  <2>4. \A r \in reports' : r \in reports \/ r.from = w
    BY <1>3 DEF BootFails, Report
  <2>5. count' \in [requests : Nat, faults : Nat, edits : 0..Edits]
    BY <1>0, <1>3 DEF BootFails, Count, RecordsOK
  <2>. QED BY <1>1, <2>2, <2>3, <2>4, <2>5
<1>4. CASE LoseChannel(w)
  <2>1. PICK rec : rec = [worker[w] EXCEPT !.life = "draining", !.paused = TRUE]
    OBVIOUS
  <2>2. rec \in WorkerRecord /\ rec.life = "draining" /\ rec.mode = worker[w].mode
    BY <1>0, <2>1 DEF WorkerRecord
  <2>3. worker' = [worker EXCEPT ![w] = rec] /\ worker[w].life # "gone" /\ UNCHANGED <<count, reports>>
    BY <1>4, <2>1 DEF LoseChannel
  <2>. QED BY <1>0, <1>1, <2>2, <2>3 DEF RecordsOK
<1>5. CASE Work(w)
  <2>0. count.edits + 1 \in 0..Edits
    BY <1>0, <1>5 DEF Work, RecordsOK, SupervisorAssumption
  <2>1. PICK rec : rec = [worker[w] EXCEPT !.busy = TRUE, !.session = count.edits + 1]
    OBVIOUS
  <2>2. rec \in WorkerRecord /\ rec.life = worker[w].life /\ rec.mode = worker[w].mode
    BY <1>0, <2>0, <2>1 DEF WorkerRecord
  <2>3. worker' = [worker EXCEPT ![w] = rec] /\ UNCHANGED reports
    BY <1>5, <2>1 DEF Work
  <2>5. count' \in [requests : Nat, faults : Nat, edits : 0..Edits]
    BY <1>0, <1>5, <2>0 DEF Work, Count, RecordsOK
  <2>. QED BY <1>1, <2>2, <2>3, <2>5
<1>6. CASE EndWork(w)
  <2>1. PICK rec : rec = [worker[w] EXCEPT !.busy = FALSE]
    OBVIOUS
  <2>2. rec \in WorkerRecord /\ rec.life = worker[w].life /\ rec.mode = worker[w].mode
    BY <1>0, <2>1 DEF WorkerRecord
  <2>3. worker' = [worker EXCEPT ![w] = rec] /\ UNCHANGED <<count, reports>>
    BY <1>6, <2>1 DEF EndWork
  <2>. QED BY <1>0, <1>1, <2>2, <2>3 DEF RecordsOK
<1>. QED BY <1>2, <1>3, <1>4, <1>5, <1>6

LEMMA EndsInv ==
  ASSUME SupervisorAssumption, SupervisorInv, NEW w \in Workers, Exit(w) \/ Crash(w)
  PROVE  SupervisorInv'
<1>0. /\ SupervisorTypeOK /\ RecordsOK /\ WorkerInOrder /\ CommandsInOrder
  BY DEF SupervisorInv
<1>1. /\ Ends(w) /\ worker[w].life # "gone"
      /\ count' \in [requests : Nat, faults : Nat, edits : 0..Edits]
  BY <1>0 DEF Exit, Crash, Count, RecordsOK
<1>2. /\ worker' = [worker EXCEPT ![w] = [Gone EXCEPT !.mode = worker[w].mode]]
      /\ commands' = commands \ {c \in commands : c.to = w}
      /\ answer' = [t \in Threads |-> IF \E c \in {c \in commands : c.to = w} : c.by = t
                                      THEN "lost" ELSE answer[t]]
      /\ open' = (open /\ process # w)
      /\ UNCHANGED <<snapshot, reports, process, flags, saved, manager, pc, job, lifecycle>>
  BY <1>1 DEF Ends
<1>3. PICK rec \in WorkerRecord :
        /\ worker' = [worker EXCEPT ![w] = rec] /\ rec.mode = worker[w].mode /\ rec.life = "gone"
  <2>1. PICK m \in {"none", "business", "maintenance"} : m = worker[w].mode
    BY <1>0 DEF SupervisorTypeOK
  <2>2. Gone \in WorkerRecord /\ Gone.life = "gone"
    BY <1>0 DEF Gone, WorkerRecord, SupervisorAssumption
  <2>3. /\ [Gone EXCEPT !.mode = m] \in WorkerRecord
        /\ [Gone EXCEPT !.mode = m].mode = m /\ [Gone EXCEPT !.mode = m].life = "gone"
    BY <2>2 DEF WorkerRecord
  <2>. QED BY <1>2, <2>1, <2>3
<1>4. worker'[w] = rec /\ \A v \in Workers : v # w => worker'[v] = worker[v]
  BY <1>0, <1>3 DEF SupervisorTypeOK
<1>5. w = process
  BY <1>0, <1>1 DEF WorkerInOrder, OneWorker, Alive, SupervisorAssumption
<1>6. RecordsOK'
  BY <1>0, <1>1, <1>2, <1>3, <1>4 DEF RecordsOK, manager
<1>7. commands' = {}
  BY <1>0, <1>2, <1>5 DEF CommandsInOrder, WorkerInOrder, OneWorker, SupervisorTypeOK
<1>8. CommandsInOrder'
  BY <1>7 DEF CommandsInOrder
<1>9. /\ open' = FALSE /\ snapshot' \in 0..Edits /\ commands' \subseteq CommandRecord
      /\ answer' \in [Threads -> Replies]
  BY <1>0, <1>2, <1>5, <1>7 DEF SupervisorTypeOK, Replies
<1>. QED BY <1>2, <1>3, <1>6, <1>8, <1>9, WorkerChanges

\* A thread waits for one command at a time.
LEMMA OneCommand ==
  ASSUME SupervisorTypeOK, WorkerInOrder, CommandsInOrder, NEW c \in commands, NEW d \in commands,
         c.by = d.by, c.by # "nobody"
  PROVE  c = d
<1>1. c \in CommandRecord /\ d \in CommandRecord
  BY DEF SupervisorTypeOK, CommandRecord
<1>2. c.to = d.to
  BY <1>1 DEF CommandsInOrder, WorkerInOrder, OneWorker, CommandRecord
<1>3. c.method = d.method
  BY DEF CommandsInOrder, Awaits
<1>. QED BY <1>1, <1>2, <1>3 DEF CommandRecord

\* Answering one command leaves the others in order.
LEMMA CommandAnswerKeeps ==
  ASSUME SupervisorTypeOK, WorkerInOrder, CommandsInOrder, NEW c \in commands,
         \A d \in commands' : (d \in commands /\ d # c)
                               \/ (d \in CommandRecord /\ d.by = "nobody" /\ d.to = c.to),
         answer' \in [Threads -> Replies], \A u \in Threads : u # c.by => answer'[u] = answer[u],
         \A w \in Workers : Alive(w) => Alive(w)', UNCHANGED pc
  PROVE  CommandsInOrder' /\ commands' \subseteq CommandRecord
<1>1. commands \subseteq CommandRecord
  BY DEF SupervisorTypeOK, CommandRecord
<1>2. \A u \in Movers : pc'[u] # "booting"
  BY DEF CommandsInOrder, Movers
<1>3. ASSUME NEW d \in commands' PROVE Expected(d)'
  <2>1. CASE d \in CommandRecord /\ d.by = "nobody" /\ d.to = c.to
    BY <1>1, <2>1 DEF Expected, CommandsInOrder, CommandRecord
  <2>2. CASE d \in commands /\ d # c
    <3>1. d \in CommandRecord /\ Alive(d.to)' /\ (d.by # "nobody" => d.by # c.by /\ d.by \in Threads)
      BY <1>1, <2>2, OneCommand DEF CommandsInOrder, CommandRecord
    <3>. QED BY <2>2, <3>1 DEF Expected, CommandsInOrder, Awaits
  <2>. QED BY <1>3, <2>1, <2>2
<1>4. CommandsInOrder'
  BY <1>2, <1>3 DEF CommandsInOrder, Expected, Movers
<1>. QED BY <1>1, <1>4

LEMMA HandleInv ==
  ASSUME SupervisorAssumption, SupervisorInv, NEW c \in commands, Handle(c)
  PROVE  SupervisorInv'
<1>0. /\ SupervisorTypeOK /\ RecordsOK /\ WorkerInOrder /\ CommandsInOrder
  BY DEF SupervisorInv
<1> DEFINE refused == c.method # "resume" /\ worker[c.to].busy
<1>1. /\ c \in CommandRecord /\ c.to \in Workers /\ worker[c.to] \in WorkerRecord
      /\ worker[c.to].life \in {"booting", "serving"}
      /\ commands' = commands \ {c} /\ Reply(c, IF refused THEN "refused" ELSE "done")
      /\ snapshot' = IF c.method = "prepare" /\ c.by # "nobody" /\ ~refused THEN worker[c.to].session ELSE snapshot
      /\ UNCHANGED <<reports, process, open, flags, saved, manager, pc, job, lifecycle, count>>
  BY <1>0 DEF Handle, owned, SupervisorTypeOK, CommandRecord, WorkerRecord
<1>2. PICK rec \in WorkerRecord :
        /\ worker' = [worker EXCEPT ![c.to] = rec] /\ rec.mode = worker[c.to].mode /\ rec.life # "gone"
        /\ rec.life = "booting" => worker[c.to].life = "booting"
  <2>1. CASE refused /\ UNCHANGED worker
    BY <1>0, <1>1, <2>1 DEF SupervisorTypeOK
  <2>2. CASE c.method = "prepare" /\ ~refused /\ worker' = [worker EXCEPT ![c.to].paused = TRUE]
    <3>1. PICK rec : rec = [worker[c.to] EXCEPT !.paused = TRUE]
      OBVIOUS
    <3>2. rec \in WorkerRecord /\ rec.mode = worker[c.to].mode /\ rec.life = worker[c.to].life
      BY <1>1, <3>1 DEF WorkerRecord
    <3>. QED BY <1>1, <2>2, <3>1, <3>2
  <2>3. CASE c.method = "resume" /\ worker' = [worker EXCEPT ![c.to].paused = worker[c.to].life = "booting"]
    <3>0. PICK b \in BOOLEAN : b = (worker[c.to].life = "booting")
      OBVIOUS
    <3>1. PICK rec : rec = [worker[c.to] EXCEPT !.paused = b]
      OBVIOUS
    <3>2. rec \in WorkerRecord /\ rec.mode = worker[c.to].mode /\ rec.life = worker[c.to].life
      BY <1>1, <3>1 DEF WorkerRecord
    <3>. QED BY <1>1, <2>3, <3>0, <3>1, <3>2
  <2>4. CASE worker' = [worker EXCEPT ![c.to].paused = TRUE, ![c.to].session = 0, ![c.to].life = "draining"]
    <3>1. PICK rec : rec = [worker[c.to] EXCEPT !.paused = TRUE, !.session = 0, !.life = "draining"]
      OBVIOUS
    <3>2. rec \in WorkerRecord /\ rec.mode = worker[c.to].mode /\ rec.life = "draining"
      <4>1. 0 \in 0..Edits
        BY DEF SupervisorAssumption
      <4>. QED BY <1>1, <3>1, <4>1 DEF WorkerRecord
    <3>3. worker' = [worker EXCEPT ![c.to] = rec]
      BY <1>0, <1>1, <2>4, <3>1 DEF SupervisorTypeOK
    <3>. QED BY <1>1, <3>2, <3>3
  <2>. QED BY <2>1, <2>2, <2>3, <2>4 DEF Handle
<1>3. worker'[c.to] = rec /\ \A v \in Workers : v # c.to => worker'[v] = worker[v]
  BY <1>0, <1>1, <1>2 DEF SupervisorTypeOK
<1>4. \A v \in Workers : Alive(v) => Alive(v)'
  BY <1>2, <1>3 DEF Alive
<1>5. answer' \in [Threads -> Replies] /\ \A u \in Threads : u # c.by => answer'[u] = answer[u]
  BY <1>0, <1>1 DEF Reply, SupervisorTypeOK, Replies
<1>6. CommandsInOrder' /\ commands' \subseteq CommandRecord
  <2>1. \A d \in commands' : d \in commands /\ d # c
    BY <1>1
  <2>. QED BY <1>0, <1>1, <1>4, <1>5, <2>1, CommandAnswerKeeps
<1>7. RecordsOK'
  BY <1>0, <1>1, <1>2, <1>3 DEF RecordsOK, manager
<1>8. /\ open' \in BOOLEAN /\ snapshot' \in 0..Edits
      /\ open' => open /\ Alive(process)'
  BY <1>0, <1>1, <1>4 DEF SupervisorTypeOK, WorkerRecord, WorkerInOrder, Alive
<1>. QED BY <1>1, <1>2, <1>5, <1>6, <1>7, <1>8, WorkerChanges

\* A step that touches no worker and no place.
LEMMA WorkerQuietStep ==
  ASSUME SupervisorInv, UNCHANGED <<worker, process, open, saved, manager, pc, job, lifecycle, count>>,
         UNCHANGED snapshot, reports' \subseteq reports, RecordsOK',
         flags'.business = flags.business,
         LateReports \/ (flags'.ready => flags.ready \/ worker[process].life # "booting"),
         answer' \in [Threads -> Replies], CommandsInOrder', commands' \subseteq CommandRecord
  PROVE  SupervisorInv'
<1>0. /\ SupervisorTypeOK /\ PlacesOK /\ LocksInOrder /\ WorkerInOrder /\ FlagsInOrder
      /\ (LateReports \/ ReadyIsTrue)
  BY DEF SupervisorInv
<1>1. /\ UNCHANGED <<worker, process, open, session, lost, told, phase, package, status, cleanup, locked>>
      /\ UNCHANGED <<pc, job, lifecycle, snapshot>>
  BY DEF saved, manager
<1>2. SupervisorTypeOK' /\ PlacesOK' /\ LocksInOrder'
  <2>1. SupervisorTypeOK'
    BY <1>0, <1>1 DEF SupervisorTypeOK, Replies, CommandRecord
  <2>2. PlacesOK' /\ LocksInOrder'
    BY <1>0, <1>1, ZenonT(60) DEF PlacesOK, LocksInOrder
  <2>. QED BY <2>1, <2>2
<1>3. WorkerInOrder' /\ FlagsInOrder'
  BY <1>0, <1>1 DEF WorkerInOrder, FlagsInOrder, OneWorker, Alive, Mode, Target
<1>4. (LateReports \/ ReadyIsTrue)'
  BY <1>0, <1>1 DEF ReadyIsTrue
<1>. QED BY <1>2, <1>3, <1>4 DEF SupervisorInv

LEMMA TimeOutInv ==
  ASSUME SupervisorInv, NEW c \in commands, TimeOut(c)
  PROVE  SupervisorInv'
<1>0. /\ SupervisorTypeOK /\ RecordsOK /\ WorkerInOrder /\ CommandsInOrder
  BY DEF SupervisorInv
<1>1. /\ c \in CommandRecord /\ c.by # "nobody"
      /\ answer' = [answer EXCEPT ![c.by] = "lost"]
      /\ UNCHANGED <<worker, snapshot, reports, process, open, flags, saved, manager, pc, job, lifecycle, count>>
  BY <1>0 DEF TimeOut, owned, SupervisorTypeOK, CommandRecord
<1>2. PICK d : d = [c EXCEPT !.by = "nobody"]
  OBVIOUS
<1>3. /\ d \in CommandRecord /\ d.by = "nobody" /\ d.to = c.to
      /\ commands' = (commands \ {c}) \cup {d}
  BY <1>1, <1>2 DEF CommandRecord, TimeOut
<1>4. answer' \in [Threads -> Replies] /\ \A u \in Threads : u # c.by => answer'[u] = answer[u]
  BY <1>0, <1>1 DEF SupervisorTypeOK, Replies
<1>5. CommandsInOrder' /\ commands' \subseteq CommandRecord
  <2>1. \A w \in Workers : Alive(w) => Alive(w)'
    BY <1>1 DEF Alive
  <2>2. \A e \in commands' : (e \in commands /\ e # c)
                            \/ (e \in CommandRecord /\ e.by = "nobody" /\ e.to = c.to)
    BY <1>3
  <2>. QED BY <1>0, <1>1, <1>4, <2>1, <2>2, CommandAnswerKeeps
<1>6. RecordsOK'
  BY <1>0, <1>1 DEF RecordsOK, manager
<1>. QED BY <1>0, <1>1, <1>4, <1>5, <1>6, WorkerQuietStep

LEMMA HandleReportInv ==
  ASSUME SupervisorInv, NEW r \in reports, HandleReport(r)
  PROVE  SupervisorInv'
<1>0. /\ SupervisorTypeOK /\ RecordsOK /\ CommandsInOrder
  BY DEF SupervisorInv
<1>1. /\ reports' \subseteq reports /\ (LateReports \/ r.from = process)
      /\ UNCHANGED <<worker, snapshot, commands, process, open, saved, manager, pc, job, answer, lifecycle, count>>
      /\ flags' \in {flags, [flags EXCEPT !.ready = TRUE], [flags EXCEPT !.failed = TRUE]}
  BY DEF HandleReport, control
<1>2. RecordsOK' /\ flags'.business = flags.business
  BY <1>0, <1>1 DEF RecordsOK, manager
<1>3. LateReports \/ worker[process].life # "booting"
  BY <1>0, <1>1 DEF RecordsOK
<1>4. CommandsInOrder'
  BY <1>0, <1>1 DEF CommandsInOrder, Alive, Awaits
<1>. QED BY <1>0, <1>1, <1>2, <1>3, <1>4, WorkerQuietStep DEF SupervisorTypeOK, Replies, CommandRecord

-----------------------------------------------------------------------------
(* The steps of the main thread and of the operation between replacements  *)

\* A step that moves threads and leaves the worker alone.
LEMMA PlacesMove ==
  ASSUME SupervisorInv, UNCHANGED <<worker, process, open, flags>>,
         SupervisorTypeOK', PlacesOK', RecordsOK', LocksInOrder', FlagsInOrder', CommandsInOrder',
         \A u \in Movers : pc'[u] \in {"booting", "admitting"} => pc[u] = pc'[u] /\ job[u] = job'[u],
         phase' = "ready" \/ pc'["op"] = "restored" => phase = "ready" \/ pc["op"] = "restored",
         pc'["op"] \in {"staging", "installing"} => pc["op"] \in {"staging", "installing"}
  PROVE  SupervisorInv'
<1>0. WorkerInOrder /\ (LateReports \/ ReadyIsTrue)
  BY DEF SupervisorInv
<1>1. WorkerInOrder'
  <2>1. \A u \in Movers : pc'[u] \in {"booting", "admitting"} => Target(u)' = Target(u)
    BY DEF Target
  <2>. QED BY <1>0, <2>1 DEF WorkerInOrder, OneWorker, Alive, Mode, Movers
<1>2. (LateReports \/ ReadyIsTrue)'
  BY <1>0 DEF ReadyIsTrue, Movers
<1>. QED BY <1>1, <1>2 DEF SupervisorInv

\* Commands stay in order while no thread that waits for one moves.
LEMMA WaitersStay ==
  ASSUME SupervisorInv, UNCHANGED <<worker, commands, process>>,
         \A u \in Threads : answer[u] = "awaited" /\ pc[u] \in {"pausing", "resuming", "asking", "admitting"}
                             => answer'[u] = answer[u] /\ pc'[u] = pc[u],
         \A u \in Movers : pc'[u] = "booting" => pc[u] = "booting"
  PROVE  CommandsInOrder'
<1>0. SupervisorTypeOK /\ CommandsInOrder
  BY DEF SupervisorInv
<1>1. ASSUME NEW c \in commands' PROVE Expected(c)'
  <2>1. c \in commands /\ c \in CommandRecord /\ Expected(c)
    BY <1>0, <1>1 DEF CommandsInOrder, Expected, SupervisorTypeOK, CommandRecord
  <2>2. CASE c.by = "nobody"
    BY <2>1, <2>2 DEF Expected, Alive
  <2>3. CASE c.by \in Threads
    <3>0. Awaits(c) /\ c.by # "nobody" /\ answer[c.by] = "awaited"
      BY <2>1, <2>3 DEF Expected, Threads
    <3>1. answer'[c.by] = "awaited" /\ pc'[c.by] = pc[c.by]
      BY <2>3, <3>0 DEF Awaits
    <3>2. Awaits(c)'
      BY <3>0, <3>1 DEF Awaits
    <3>. QED BY <2>1, <3>1, <3>2 DEF Expected, Alive
  <2>. QED BY <2>1, <2>2, <2>3 DEF CommandRecord
<1>2. \A u \in Movers : pc'[u] = "booting" => commands' = {}
  BY <1>0 DEF CommandsInOrder, Movers
<1>. QED BY <1>1, <1>2 DEF CommandsInOrder, Expected, Movers

LEMMA MovingInv ==
  ASSUME SupervisorAssumption, SupervisorInv,
         \/ EnsureWorker \/ Signal \/ JoinOperation \/ LockToStop \/ Finish
         \/ Recover \/ Stage \/ Install \/ Restore \/ EndOperation
  PROVE  SupervisorInv'
<1>0. /\ SupervisorTypeOK /\ PlacesOK /\ RecordsOK /\ LocksInOrder /\ WorkerInOrder /\ FlagsInOrder
      /\ CommandsInOrder
  BY DEF SupervisorInv
<1>1. /\ UNCHANGED <<worker, snapshot, commands, reports, process, open, flags, answer>>
      /\ count'.edits = count.edits /\ count' \in [requests : Nat, faults : Nat, edits : 0..Edits]
  <2>1. UNCHANGED <<worker, snapshot, commands, reports, process, open, flags, answer>>
    BY DEF EnsureWorker, Signal, JoinOperation, LockToStop, Finish, Recover, Stage, Install, Restore,
           EndOperation, processes, owned, control
  <2>2. count' = count \/ Recover
    BY DEF EnsureWorker, Signal, JoinOperation, LockToStop, Finish, Stage, Install, Restore, EndOperation
  <2>3. count'.edits = count.edits /\ count' \in [requests : Nat, faults : Nat, edits : 0..Edits]
    BY <1>0, <2>2 DEF Recover, Count, RecordsOK
  <2>. QED BY <2>1, <2>3
<1>2. CASE EnsureWorker
  <2>1. PlacesOK'
    BY <1>0, <1>2 DEF PlacesOK, EnsureWorker, LoseSession, Goto, saved, manager, control, Threads, Swapping
  <2>2. LocksInOrder'
    BY <1>0, <1>2 DEF PlacesOK, LocksInOrder, EnsureWorker, LoseSession, Goto, saved, manager, control, Threads, Swapping
  <2>3. SupervisorTypeOK' /\ RecordsOK'
    <3>1. RecordsOK'
      BY <1>0, <1>1, <1>2 DEF RecordsOK, EnsureWorker, LoseSession, Goto, saved, manager, control
    <3>2. /\ {snapshot', session', told'} \subseteq 0..Edits /\ {lost', cleanup', locked'} \subseteq BOOLEAN
          /\ phase' \in {"preparing", "ready", "installing", "restoring", "recovery_failed"}
          /\ status' \in {"none", "running", "succeeded", "failed"} /\ lifecycle' \in {"free", "main", "op"}
          /\ locked' = locked /\ pc'["page"] = pc["page"]
      <4>1. 0 \in 0..Edits
        BY DEF SupervisorAssumption
      <4>. QED BY <1>0, <1>1, <1>2, <4>1 DEF SupervisorTypeOK, PlacesOK, EnsureWorker, LoseSession, Goto, saved, manager, control, Threads
    <3>. QED BY <1>0, <1>1, <3>1, <3>2 DEF SupervisorTypeOK
  <2>4. FlagsInOrder'
    BY <1>0, <1>1, <1>2 DEF PlacesOK, LocksInOrder, FlagsInOrder, Alive, EnsureWorker, LoseSession, Goto, saved, manager, control, Threads, Swapping
  <2>5. CommandsInOrder'
    BY <1>0, <1>1, <1>2, WaitersStay
           DEF PlacesOK, EnsureWorker, LoseSession, Goto, saved, manager, control, Threads, Movers
  <2>. QED BY <1>0, <1>1, <1>2, <2>1, <2>2, <2>3, <2>4, <2>5, PlacesMove
           DEF PlacesOK, EnsureWorker, LoseSession, Goto, saved, manager, control, Threads, Movers
<1>3. CASE Signal
  <2>1. PlacesOK'
    BY <1>0, <1>3 DEF PlacesOK, Signal, Goto, saved, manager, control, Threads, Swapping
  <2>2. LocksInOrder'
    BY <1>0, <1>3 DEF PlacesOK, LocksInOrder, Signal, Goto, saved, manager, control, Threads, Swapping
  <2>3. SupervisorTypeOK' /\ RecordsOK'
    BY <1>0, <1>1, <1>3 DEF PlacesOK, SupervisorTypeOK, RecordsOK, SupervisorAssumption, Signal, Goto, saved, manager, control, Threads
  <2>4. FlagsInOrder'
    BY <1>0, <1>1, <1>3 DEF PlacesOK, LocksInOrder, FlagsInOrder, Alive, Signal, Goto, saved, manager, control, Threads, Swapping
  <2>5. CommandsInOrder'
    BY <1>0, <1>1, <1>3, WaitersStay
           DEF PlacesOK, Signal, Goto, saved, manager, control, Threads, Movers
  <2>. QED BY <1>0, <1>1, <1>3, <2>1, <2>2, <2>3, <2>4, <2>5, PlacesMove
           DEF PlacesOK, Signal, Goto, saved, manager, control, Threads, Movers
<1>4. CASE JoinOperation
  <2>1. PlacesOK'
    BY <1>0, <1>4 DEF PlacesOK, JoinOperation, Goto, saved, manager, control, Threads, Swapping
  <2>2. LocksInOrder'
    BY <1>0, <1>4 DEF PlacesOK, LocksInOrder, JoinOperation, Goto, saved, manager, control, Threads, Swapping
  <2>3. SupervisorTypeOK' /\ RecordsOK'
    BY <1>0, <1>1, <1>4 DEF PlacesOK, SupervisorTypeOK, RecordsOK, SupervisorAssumption, JoinOperation, Goto, saved, manager, control, Threads
  <2>4. FlagsInOrder'
    BY <1>0, <1>1, <1>4 DEF PlacesOK, LocksInOrder, FlagsInOrder, Alive, JoinOperation, Goto, saved, manager, control, Threads, Swapping
  <2>5. CommandsInOrder'
    BY <1>0, <1>1, <1>4, WaitersStay
           DEF PlacesOK, JoinOperation, Goto, saved, manager, control, Threads, Movers
  <2>. QED BY <1>0, <1>1, <1>4, <2>1, <2>2, <2>3, <2>4, <2>5, PlacesMove
           DEF PlacesOK, JoinOperation, Goto, saved, manager, control, Threads, Movers
<1>5. CASE LockToStop
  <2>1. PlacesOK'
    BY <1>0, <1>5 DEF PlacesOK, LockToStop, Goto, saved, manager, control, Threads, Swapping
  <2>2. LocksInOrder'
    BY <1>0, <1>5 DEF PlacesOK, LocksInOrder, LockToStop, Goto, saved, manager, control, Threads, Swapping
  <2>3. SupervisorTypeOK' /\ RecordsOK'
    BY <1>0, <1>1, <1>5 DEF PlacesOK, SupervisorTypeOK, RecordsOK, SupervisorAssumption, LockToStop, Goto, saved, manager, control, Threads
  <2>4. FlagsInOrder'
    BY <1>0, <1>1, <1>5 DEF PlacesOK, LocksInOrder, FlagsInOrder, Alive, LockToStop, Goto, saved, manager, control, Threads, Swapping
  <2>5. CommandsInOrder'
    BY <1>0, <1>1, <1>5, WaitersStay
           DEF PlacesOK, LockToStop, Goto, saved, manager, control, Threads, Movers
  <2>. QED BY <1>0, <1>1, <1>5, <2>1, <2>2, <2>3, <2>4, <2>5, PlacesMove
           DEF PlacesOK, LockToStop, Goto, saved, manager, control, Threads, Movers
<1>6. CASE Finish
  <2>1. PlacesOK'
    BY <1>0, <1>6 DEF PlacesOK, Finish, Goto, saved, manager, control, Threads, Swapping
  <2>2. LocksInOrder'
    BY <1>0, <1>6 DEF PlacesOK, LocksInOrder, Finish, Goto, saved, manager, control, Threads, Swapping
  <2>3. SupervisorTypeOK' /\ RecordsOK'
    <3>1. RecordsOK'
      BY <1>0, <1>1, <1>6 DEF RecordsOK, Finish, Goto, saved, manager, control
    <3>2. /\ {snapshot', session', told'} \subseteq 0..Edits /\ {lost', cleanup', locked'} \subseteq BOOLEAN
          /\ phase' \in {"preparing", "ready", "installing", "restoring", "recovery_failed"}
          /\ status' \in {"none", "running", "succeeded", "failed"} /\ lifecycle' \in {"free", "main", "op"}
          /\ locked' = locked /\ pc'["page"] = pc["page"]
      BY <1>0, <1>1, <1>6 DEF SupervisorTypeOK, SupervisorAssumption, PlacesOK, Finish, Goto, saved, manager, control, Threads
    <3>. QED BY <1>0, <1>1, <3>1, <3>2 DEF SupervisorTypeOK
  <2>4. FlagsInOrder'
    BY <1>0, <1>1, <1>6 DEF PlacesOK, LocksInOrder, FlagsInOrder, Alive, Finish, Goto, saved, manager, control, Threads, Swapping
  <2>5. CommandsInOrder'
    BY <1>0, <1>1, <1>6, WaitersStay
           DEF PlacesOK, Finish, Goto, saved, manager, control, Threads, Movers
  <2>. QED BY <1>0, <1>1, <1>6, <2>1, <2>2, <2>3, <2>4, <2>5, PlacesMove
           DEF PlacesOK, Finish, Goto, saved, manager, control, Threads, Movers
<1>7. CASE Recover
  <2>1. PlacesOK'
    BY <1>0, <1>7 DEF PlacesOK, Recover, Request, StartOperation, Count, Goto, saved, manager, control, Threads, Swapping
  <2>2. LocksInOrder'
    BY <1>0, <1>7 DEF PlacesOK, LocksInOrder, Recover, Request, StartOperation, Count, Goto, saved, manager, control, Threads, Swapping
  <2>3. SupervisorTypeOK' /\ RecordsOK'
    BY <1>0, <1>1, <1>7 DEF PlacesOK, SupervisorTypeOK, RecordsOK, SupervisorAssumption, Recover, Request, StartOperation, Count, Goto, saved, manager, control, Threads
  <2>4. FlagsInOrder'
    BY <1>0, <1>1, <1>7 DEF PlacesOK, LocksInOrder, FlagsInOrder, Alive, Recover, Request, StartOperation, Count, Goto, saved, manager, control, Threads, Swapping
  <2>5. CommandsInOrder'
    BY <1>0, <1>1, <1>7, WaitersStay
           DEF PlacesOK, Recover, Request, StartOperation, Count, Goto, saved, manager, control, Threads, Movers
  <2>. QED BY <1>0, <1>1, <1>7, <2>1, <2>2, <2>3, <2>4, <2>5, PlacesMove
           DEF PlacesOK, Recover, Request, StartOperation, Count, Goto, saved, manager, control, Threads, Movers
<1>8. CASE Stage
  <2>1. PlacesOK'
    BY <1>0, <1>8 DEF PlacesOK, Stage, Goto, saved, manager, control, Threads, Swapping
  <2>2. LocksInOrder'
    BY <1>0, <1>8 DEF PlacesOK, LocksInOrder, Stage, Goto, saved, manager, control, Threads, Swapping
  <2>3. SupervisorTypeOK' /\ RecordsOK'
    BY <1>0, <1>1, <1>8 DEF PlacesOK, SupervisorTypeOK, RecordsOK, SupervisorAssumption, Stage, Goto, saved, manager, control, Threads
  <2>4. FlagsInOrder'
    BY <1>0, <1>1, <1>8 DEF PlacesOK, LocksInOrder, FlagsInOrder, Alive, Stage, Goto, saved, manager, control, Threads, Swapping
  <2>5. CommandsInOrder'
    BY <1>0, <1>1, <1>8, WaitersStay
           DEF PlacesOK, Stage, Goto, saved, manager, control, Threads, Movers
  <2>. QED BY <1>0, <1>1, <1>8, <2>1, <2>2, <2>3, <2>4, <2>5, PlacesMove
           DEF PlacesOK, Stage, Goto, saved, manager, control, Threads, Movers
<1>9. CASE Install
  <2>1. PlacesOK'
    BY <1>0, <1>9 DEF PlacesOK, Install, Goto, saved, manager, control, Threads, Swapping
  <2>2. LocksInOrder'
    BY <1>0, <1>9 DEF PlacesOK, LocksInOrder, Install, Goto, saved, manager, control, Threads, Swapping
  <2>3. SupervisorTypeOK' /\ RecordsOK'
    <3>1. RecordsOK'
      BY <1>0, <1>1, <1>9 DEF RecordsOK, Install, Goto, saved, manager, control
    <3>2. /\ {snapshot', session', told'} \subseteq 0..Edits /\ {lost', cleanup', locked'} \subseteq BOOLEAN
          /\ phase' \in {"preparing", "ready", "installing", "restoring", "recovery_failed"}
          /\ status' \in {"none", "running", "succeeded", "failed"} /\ lifecycle' \in {"free", "main", "op"}
          /\ locked' = locked /\ pc'["page"] = pc["page"]
      BY <1>0, <1>1, <1>9 DEF SupervisorTypeOK, SupervisorAssumption, PlacesOK, Install, Goto, saved, manager, control, Threads
    <3>. QED BY <1>0, <1>1, <3>1, <3>2 DEF SupervisorTypeOK
  <2>4. FlagsInOrder'
    BY <1>0, <1>1, <1>9 DEF PlacesOK, LocksInOrder, FlagsInOrder, Alive, Install, Goto, saved, manager, control, Threads, Swapping
  <2>5. CommandsInOrder'
    BY <1>0, <1>1, <1>9, WaitersStay
           DEF PlacesOK, Install, Goto, saved, manager, control, Threads, Movers
  <2>. QED BY <1>0, <1>1, <1>9, <2>1, <2>2, <2>3, <2>4, <2>5, PlacesMove
           DEF PlacesOK, Install, Goto, saved, manager, control, Threads, Movers
<1>10. CASE Restore
  <2>1. PlacesOK'
    BY <1>0, <1>10 DEF PlacesOK, Restore, Goto, saved, manager, control, Threads, Swapping
  <2>2. LocksInOrder'
    BY <1>0, <1>10 DEF PlacesOK, LocksInOrder, Restore, Goto, saved, manager, control, Threads, Swapping
  <2>3. SupervisorTypeOK' /\ RecordsOK'
    <3>1. RecordsOK'
      BY <1>0, <1>1, <1>10 DEF RecordsOK, Restore, Goto, saved, manager, control
    <3>2. /\ {snapshot', session', told'} \subseteq 0..Edits /\ {lost', cleanup', locked'} \subseteq BOOLEAN
          /\ phase' \in {"preparing", "ready", "installing", "restoring", "recovery_failed"}
          /\ status' \in {"none", "running", "succeeded", "failed"} /\ lifecycle' \in {"free", "main", "op"}
          /\ locked' = locked /\ pc'["page"] = pc["page"]
      BY <1>0, <1>1, <1>10 DEF SupervisorTypeOK, SupervisorAssumption, PlacesOK, Restore, Goto, saved, manager, control, Threads
    <3>. QED BY <1>0, <1>1, <3>1, <3>2 DEF SupervisorTypeOK
  <2>4. FlagsInOrder'
    BY <1>0, <1>1, <1>10 DEF PlacesOK, LocksInOrder, FlagsInOrder, Alive, Restore, Goto, saved, manager, control, Threads, Swapping
  <2>5. CommandsInOrder'
    BY <1>0, <1>1, <1>10, WaitersStay
           DEF PlacesOK, Restore, Goto, saved, manager, control, Threads, Movers
  <2>. QED BY <1>0, <1>1, <1>10, <2>1, <2>2, <2>3, <2>4, <2>5, PlacesMove
           DEF PlacesOK, Restore, Goto, saved, manager, control, Threads, Movers
<1>11. CASE EndOperation
  <2>1. PlacesOK'
    BY <1>0, <1>11 DEF PlacesOK, EndOperation, Goto, saved, manager, control, Threads, Swapping
  <2>2. LocksInOrder'
    BY <1>0, <1>11 DEF PlacesOK, LocksInOrder, EndOperation, Goto, saved, manager, control, Threads, Swapping
  <2>3. SupervisorTypeOK' /\ RecordsOK'
    BY <1>0, <1>1, <1>11 DEF PlacesOK, SupervisorTypeOK, RecordsOK, SupervisorAssumption, EndOperation, Goto, saved, manager, control, Threads
  <2>4. FlagsInOrder'
    <3>1. pc["op"] \in {"restored", "kept", "failed"} /\ pc' = [pc EXCEPT !["op"] = "idle"] /\ job' = job
      BY <1>11 DEF EndOperation, Goto
    <3>2. pc \in [Threads -> Labels] /\ "op" \in Threads /\ "main" \in Threads
      BY <1>0 DEF PlacesOK, Labels, Threads
    <3>3. pc'["op"] = "idle" /\ pc'["main"] = pc["main"] /\ pc["op"] \in {"restored", "failed"}
      BY <1>0, <3>1, <3>2 DEF PlacesOK, Swapping
    <3>4. phase # "ready"
      BY <1>0, <3>3 DEF LocksInOrder
    <3>5. phase' = "ready" <=> pc["op"] = "restored"
      BY <1>11, <3>3 DEF EndOperation
    <3>6. Alive(process)' => Alive(process)
      BY <1>1 DEF Alive
    <3>7. (flags.business => /\ process # None
                            /\ \/ pc["op"] = "restored" \/ (pc["main"] = "stop" /\ job["main"] = "ensure"))
          /\ (pc["main"] \in Swapping \ {"stop"} => ~flags.business)
          /\ (pc["main"] = "loop" /\ pc["op"] = "restored" /\ Alive(process) => flags.business)
      BY <1>0, <3>3, <3>4 DEF FlagsInOrder
    <3>. QED BY <1>1, <3>1, <3>3, <3>5, <3>6, <3>7 DEF FlagsInOrder, Swapping
  <2>5. /\ pc["op"] \in {"restored", "failed"} /\ pc' = [pc EXCEPT !["op"] = "idle"] /\ job' = job
        /\ pc \in [Threads -> Labels]
        /\ phase' = "ready" => pc["op"] = "restored"
    BY <1>0, <1>11 DEF PlacesOK, EndOperation, Goto, Labels, Swapping
  <2>6. CommandsInOrder'
    BY <1>1, <2>5, WaitersStay DEF Threads, Movers
  <2>. QED BY <1>0, <1>1, <2>1, <2>2, <2>3, <2>4, <2>5, <2>6, PlacesMove DEF Threads, Movers
<1>. QED BY <1>2, <1>3, <1>4, <1>5, <1>6, <1>7, <1>8, <1>9, <1>10, <1>11

LEMMA LockInv ==
  ASSUME SupervisorAssumption, SupervisorInv, Lock
  PROVE  SupervisorInv'
<1>0. /\ SupervisorTypeOK /\ PlacesOK /\ RecordsOK /\ LocksInOrder /\ FlagsInOrder
  BY DEF SupervisorInv
<1>1. /\ pc["op"] = "lock" /\ lifecycle = "free" /\ lifecycle' = "op" /\ pc \in [Threads -> Labels]
      /\ UNCHANGED <<worker, snapshot, reports, process, open, flags, session, lost, told, job, count>>
      /\ UNCHANGED <<phase, package, status, cleanup, locked>>
  BY <1>0 DEF Lock, owned, saved, manager, PlacesOK, Labels
<1>2. ~(job["op"] = "restore" /\ flags.business)
  BY <1>0, <1>1 DEF FlagsInOrder, LocksInOrder, Swapping
<1>3. pc' = [pc EXCEPT !["op"] = "stop"] /\ UNCHANGED <<commands, answer>>
  BY <1>2 DEF Lock, Goto
<1>4. PlacesOK' /\ LocksInOrder'
  BY <1>0, <1>1, <1>3 DEF PlacesOK, LocksInOrder, Threads, Swapping
<1>5. SupervisorTypeOK' /\ RecordsOK'
  BY <1>0, <1>1, <1>3 DEF SupervisorTypeOK, RecordsOK, Threads
<1>6. FlagsInOrder'
  BY <1>0, <1>1, <1>2, <1>3 DEF PlacesOK, LocksInOrder, FlagsInOrder, Alive, Threads, Swapping
<1>7. CommandsInOrder'
  BY <1>1, <1>3, WaitersStay DEF Threads, Movers
<1>. QED BY <1>0, <1>1, <1>3, <1>4, <1>5, <1>6, <1>7, PlacesMove DEF Threads, Movers

-----------------------------------------------------------------------------
(* The steps of a page's request                                           *)

\* The page's thread moves beside a manager that is ready.
LEMMA PageMoves ==
  ASSUME SupervisorInv, phase = "ready", NEW l \in {"idle", "pausing", "resuming"},
         Goto("page", l), locked' = (l # "idle"), RecordsOK', CommandsInOrder',
         answer' \in [Threads -> Replies], commands' \subseteq CommandRecord,
         session' \in 0..Edits, lost' \in BOOLEAN,
         UNCHANGED <<worker, snapshot, process, open, flags, told, phase, package, status, cleanup>>,
         UNCHANGED <<job, lifecycle>>
  PROVE  SupervisorInv'
<1>0. /\ SupervisorTypeOK /\ PlacesOK /\ LocksInOrder /\ FlagsInOrder
  BY DEF SupervisorInv
<1>1. pc \in [Threads -> Labels] /\ pc' = [pc EXCEPT !["page"] = l]
  BY <1>0 DEF PlacesOK, Labels, Goto
<1>2. pc'["page"] = l /\ pc'["op"] = pc["op"] /\ pc'["main"] = pc["main"]
  BY <1>1 DEF Threads
<1>3. PlacesOK' /\ LocksInOrder'
  <2>1. pc' \in [Threads -> Labels]
    BY <1>1 DEF Labels
  <2>2. PlacesOK'
    BY <1>0, <1>2, <2>1 DEF PlacesOK, Labels
  <2>3. LocksInOrder'
    BY <1>0, <1>2 DEF LocksInOrder
  <2>. QED BY <2>2, <2>3
<1>4. SupervisorTypeOK'
  BY <1>0, <1>2 DEF SupervisorTypeOK, Replies, CommandRecord
<1>5. FlagsInOrder'
  BY <1>0, <1>2 DEF FlagsInOrder, Alive
<1>. QED BY <1>2, <1>3, <1>4, <1>5, PlacesMove DEF Movers

\* While a page may pause the worker no thread replaces it, unless the service stops.
LEMMA ReadyFacts ==
  ASSUME SupervisorInv, phase = "ready"
  PROVE  pc["op"] = "idle" /\ \A u \in Movers : pc[u] \notin {"booting", "admitting", "spawn"}
<1>0. PlacesOK /\ LocksInOrder
  BY DEF SupervisorInv
<1>1. pc["op"] = "idle"
  BY <1>0 DEF LocksInOrder
<1>2. pc["main"] \notin {"booting", "admitting", "spawn"}
  BY <1>0 DEF PlacesOK, LocksInOrder, Swapping
<1>. QED BY <1>1, <1>2 DEF Movers

LEMMA ExecuteInv ==
  ASSUME SupervisorAssumption, SupervisorInv, Execute
  PROVE  SupervisorInv'
<1>0. /\ SupervisorTypeOK /\ PlacesOK /\ RecordsOK /\ WorkerInOrder /\ CommandsInOrder
  BY DEF SupervisorInv
<1>1. /\ phase = "ready" /\ pc["page"] = "idle" /\ locked' = TRUE /\ Ask("page", "prepare")
      /\ Goto("page", "pausing") /\ pc \in [Threads -> Labels]
      /\ UNCHANGED <<worker, snapshot, reports, process, open, flags, session, lost, told>>
      /\ UNCHANGED <<phase, package, status, cleanup, job, lifecycle>>
  BY <1>0 DEF Execute, Request, owned, saved, PlacesOK, Labels
<1>2. pc'["page"] = "pausing" /\ \A u \in Threads \ {"page"} : pc'[u] = pc[u]
  BY <1>1 DEF Goto, Threads
<1>3. \A c \in commands : c.by # "page"
  BY <1>0, <1>1 DEF CommandsInOrder, Awaits
<1>4. CommandsInOrder' /\ answer' \in [Threads -> Replies] /\ commands' \subseteq CommandRecord
  <2>1. Awaits([to |-> process, method |-> "prepare", by |-> "page"])'
    BY <1>2 DEF Awaits
  <2>2. "page" \in Threads /\ \A u \in Movers : pc'[u] # "booting"
    BY <1>1, <1>2, ReadyFacts DEF Threads, Movers
  <2>. QED BY <1>0, <1>1, <1>2, <1>3, <2>1, <2>2, AskKeeps
<1>5. RecordsOK'
  BY <1>0, <1>1 DEF RecordsOK, Execute, Count
<1>. QED BY <1>0, <1>1, <1>4, <1>5, PageMoves DEF SupervisorTypeOK

LEMMA ResumedInv ==
  ASSUME SupervisorAssumption, SupervisorInv, Resumed
  PROVE  SupervisorInv'
<1>0. /\ SupervisorTypeOK /\ PlacesOK /\ RecordsOK /\ LocksInOrder /\ CommandsInOrder
  BY DEF SupervisorInv
<1>1. /\ pc["page"] = "resuming" /\ answer["page"] # "awaited" /\ locked' = FALSE /\ Goto("page", "idle")
      /\ answer' = [answer EXCEPT !["page"] = "none"] /\ session' \in {0, session}
      /\ UNCHANGED <<worker, snapshot, commands, reports, process, open, flags, lost, told>>
      /\ UNCHANGED <<phase, package, status, cleanup, job, lifecycle, count>>
  BY DEF Resumed, Answered, Unlock, processes, owned
<1>2. phase = "ready" /\ pc \in [Threads -> Labels] /\ answer \in [Threads -> Replies]
  BY <1>0, <1>1 DEF LocksInOrder, PlacesOK, Labels, SupervisorTypeOK, Replies
<1>3. /\ \A u \in Threads \ {"page"} : pc'[u] = pc[u] /\ answer'[u] = answer[u]
      /\ answer' \in [Threads -> Replies]
  BY <1>1, <1>2 DEF Goto, Replies
<1>4. CommandsInOrder' /\ RecordsOK'
  BY <1>0, <1>1, <1>3, WaitersStay DEF RecordsOK, Threads, Movers
<1>5. session' \in 0..Edits
  BY <1>0, <1>1 DEF SupervisorTypeOK, SupervisorAssumption
<1>. QED BY <1>0, <1>1, <1>2, <1>3, <1>4, <1>5, PageMoves DEF SupervisorTypeOK, CommandRecord

LEMMA PausedInv ==
  ASSUME SupervisorAssumption, SupervisorInv, Paused
  PROVE  SupervisorInv'
<1>0. /\ SupervisorTypeOK /\ PlacesOK /\ RecordsOK /\ LocksInOrder /\ WorkerInOrder /\ FlagsInOrder
      /\ CommandsInOrder
  BY DEF SupervisorInv
<1>1. /\ pc["page"] = "pausing" /\ answer["page"] # "awaited"
      /\ UNCHANGED <<worker, snapshot, reports, process, open, flags, told, cleanup, lifecycle, count>>
  BY DEF Paused, Answered, owned
<1>2. phase = "ready" /\ pc \in [Threads -> Labels] /\ answer \in [Threads -> Replies] /\ locked
  BY <1>0, <1>1 DEF LocksInOrder, PlacesOK, Labels, SupervisorTypeOK, Replies
<1>3. /\ \A c \in commands : c.by # "page"
      /\ pc["op"] = "idle" /\ \A u \in Movers : pc[u] \notin {"booting", "admitting", "spawn"}
  BY <1>0, <1>1, <1>2, ReadyFacts DEF CommandsInOrder
<1>5. CASE answer["page"] # "done"
  <2>1. /\ answer' = [answer EXCEPT !["page"] = "none"] /\ locked' = FALSE /\ Goto("page", "idle")
        /\ UNCHANGED <<commands, session, lost, phase, package, status, job>>
    BY <1>5 DEF Paused, Unlock
  <2>2. /\ \A u \in Threads \ {"page"} : pc'[u] = pc[u] /\ answer'[u] = answer[u]
        /\ answer' \in [Threads -> Replies]
    BY <1>2, <2>1 DEF Goto, Replies
  <2>3. CommandsInOrder' /\ RecordsOK'
    BY <1>0, <1>1, <2>1, <2>2, WaitersStay DEF RecordsOK, Threads, Movers
  <2>. QED BY <1>0, <1>1, <1>2, <2>1, <2>2, <2>3, PageMoves DEF SupervisorTypeOK, CommandRecord
<1>6. CASE /\ session' = snapshot /\ lost' = FALSE
           /\ ResumeWorker("page") /\ Goto("page", "resuming")
           /\ UNCHANGED <<phase, package, status, locked, job>>
  <2>1. pc'["page"] = "resuming" /\ \A u \in Threads \ {"page"} : pc'[u] = pc[u]
    BY <1>2, <1>6 DEF Goto, Threads
  <2>2. CommandsInOrder' /\ answer' \in [Threads -> Replies] /\ commands' \subseteq CommandRecord
    <3>0. "page" \in Threads /\ \A u \in Movers : pc'[u] # "booting"
      BY <1>3, <2>1 DEF Threads, Movers
    <3>1. CASE Mode = "business"
      <4>1. Awaits([to |-> process, method |-> "resume", by |-> "page"])' /\ Ask("page", "resume")
        BY <1>6, <2>1, <3>1 DEF Awaits, ResumeWorker
      <4>. QED BY <1>0, <1>1, <1>3, <2>1, <3>0, <4>1, AskKeeps
    <3>2. CASE Mode # "business"
      <4>1. answer' = [answer EXCEPT !["page"] = "done"] /\ commands' = commands
        BY <1>6, <3>2 DEF ResumeWorker
      <4>2. answer' \in [Threads -> Replies] /\ \A u \in Threads \ {"page"} : answer'[u] = answer[u]
        BY <1>2, <4>1 DEF Replies
      <4>3. CommandsInOrder'
        BY <1>1, <2>1, <3>0, <4>1, <4>2, WaitersStay DEF Threads, Movers
      <4>. QED BY <1>0, <4>1, <4>2, <4>3 DEF SupervisorTypeOK, CommandRecord
    <3>. QED BY <3>1, <3>2
  <2>3. RecordsOK' /\ session' \in 0..Edits
    BY <1>0, <1>1, <1>6 DEF RecordsOK, SupervisorTypeOK
  <2>. QED BY <1>0, <1>1, <1>2, <1>6, <2>2, <2>3, PageMoves DEF SupervisorTypeOK
<1>7. CASE /\ session' = snapshot /\ lost' = FALSE /\ answer' = [answer EXCEPT !["page"] = "none"]
           /\ StartOperation("lock", "enter") /\ locked' = FALSE
           /\ phase' = "preparing" /\ package' = "failed" /\ status' = "running"
           /\ UNCHANGED commands
  <2>1. /\ pc'["page"] = "idle" /\ pc'["op"] = "lock" /\ pc'["main"] = pc["main"]
        /\ job'["op"] = "enter" /\ job'["main"] = job["main"] /\ pc' \in [Threads -> Labels]
        /\ job' \in [Threads -> JobNames] /\ answer' \in [Threads -> Replies]
        /\ \A u \in Threads \ {"page"} : answer'[u] = answer[u]
    BY <1>0, <1>2, <1>7 DEF StartOperation, PlacesOK, Labels, JobNames, Threads, Replies
  <2>2. PlacesOK'
    BY <1>0, <2>1 DEF PlacesOK, Labels, JobNames, Swapping
  <2>3. LocksInOrder'
    BY <1>0, <1>1, <1>2, <1>3, <1>7, <2>1 DEF PlacesOK, LocksInOrder, Swapping
  <2>4. SupervisorTypeOK' /\ RecordsOK'
    BY <1>0, <1>1, <1>7, <2>1 DEF SupervisorTypeOK, RecordsOK, Replies
  <2>5. FlagsInOrder'
    BY <1>0, <1>1, <1>2, <1>3, <1>7, <2>1 DEF FlagsInOrder, Swapping
  <2>6. CommandsInOrder'
    BY <1>1, <1>3, <1>7, <2>1, WaitersStay DEF Threads, Movers
  <2>. QED BY <1>1, <1>3, <1>7, <2>1, <2>2, <2>3, <2>4, <2>5, <2>6, PlacesMove DEF Movers
<1>. QED BY <1>5, <1>6, <1>7 DEF Paused

-----------------------------------------------------------------------------
(* The invariant                                                           *)

LEMMA SupervisorInvStarts ==
  ASSUME SupervisorAssumption, SupervisorInit
  PROVE  SupervisorInv
<1>0. 0 \in 0..Edits /\ None \notin Workers
  BY DEF SupervisorAssumption
<1>1. SupervisorTypeOK
  <2>1. worker \in [Workers -> WorkerRecord]
    <3>1. Gone \in WorkerRecord
      BY <1>0 DEF Gone, WorkerRecord
    <3>. QED BY <3>1 DEF SupervisorInit
  <2>. QED BY <1>0, <2>1 DEF SupervisorInit, SupervisorTypeOK, WorkerRecord, Threads
<1>2. PlacesOK /\ LocksInOrder
  BY DEF SupervisorInit, PlacesOK, LocksInOrder, Threads, Swapping
<1>3. RecordsOK
  BY <1>0 DEF SupervisorInit, RecordsOK, NoFlags
<1>4. WorkerInOrder
  BY <1>0 DEF SupervisorInit, WorkerInOrder, OneWorker, Alive, Gone, Threads
<1>5. FlagsInOrder
  BY DEF SupervisorInit, FlagsInOrder, NoFlags, Threads
<1>6. CommandsInOrder /\ ReadyIsTrue
  BY DEF SupervisorInit, CommandsInOrder, ReadyIsTrue
<1>. QED BY <1>1, <1>2, <1>3, <1>4, <1>5, <1>6 DEF SupervisorInv

LEMMA SupervisorInvStays ==
  ASSUME SupervisorAssumption, SupervisorInv, [SupervisorNext]_supervisorVars
  PROVE  SupervisorInv'
<1>1. ASSUME NEW t \in Movers, Lifecycle(t) PROVE SupervisorInv'
  BY <1>1, StopWorkerInv, AskedInv, JoinInv, SpawnInv, BootedInv, NotBootedInv, AdmittedInv DEF Lifecycle
<1>2. CASE MainStep
  BY <1>1, <1>2, MovingInv DEF MainStep, Movers
<1>3. CASE OpStep
  <2>1. ~Kept
    BY DEF Kept, SupervisorInv, PlacesOK, Swapping
  <2>. QED BY <1>1, <1>3, <2>1, MovingInv, LockInv DEF OpStep, Movers
<1>4. CASE PageStep \/ Signal \/ Execute \/ Recover
  BY <1>4, MovingInv, ExecuteInv, PausedInv, ResumedInv DEF PageStep
<1>5. ASSUME NEW w \in Workers, WorkerStep(w) \/ BootFails(w) \/ Crash(w) \/ Work(w) PROVE SupervisorInv'
  BY <1>5, WorkingInv, EndsInv DEF WorkerStep
<1>6. ASSUME NEW c \in commands, Handle(c) \/ TimeOut(c) PROVE SupervisorInv'
  BY <1>6, HandleInv, TimeOutInv
<1>7. ASSUME NEW r \in reports, HandleReport(r) PROVE SupervisorInv'
  BY <1>7, HandleReportInv
<1>8. CASE UNCHANGED supervisorVars
  <2>1. UNCHANGED <<worker, snapshot, commands, reports, process, open, flags, session, lost, told,
                    phase, package, status, cleanup, locked, pc, job, answer, lifecycle, count>>
    BY <1>8 DEF supervisorVars, processes, owned, saved, manager, control
  <2>2. /\ SupervisorTypeOK /\ PlacesOK /\ RecordsOK /\ LocksInOrder /\ FlagsInOrder /\ CommandsInOrder
    BY DEF SupervisorInv
  <2>3. SupervisorTypeOK' /\ PlacesOK' /\ RecordsOK' /\ LocksInOrder' /\ FlagsInOrder' /\ CommandsInOrder'
    <3>1. SupervisorTypeOK' /\ PlacesOK'
      BY <2>1, <2>2 DEF SupervisorTypeOK, PlacesOK
    <3>2. LocksInOrder'
      BY <2>1, <2>2 DEF LocksInOrder
    <3>5. RecordsOK'
      BY <2>1, <2>2 DEF RecordsOK
    <3>4. FlagsInOrder'
      BY <2>1, <2>2 DEF FlagsInOrder, Alive
    <3>3. CommandsInOrder'
      BY <2>1, WaitersStay
    <3>. QED BY <3>1, <3>2, <3>3, <3>4, <3>5
  <2>. QED BY <2>1, <2>3, PlacesMove
<1>. QED BY <1>2, <1>3, <1>4, <1>5, <1>6, <1>7, <1>8 DEF SupervisorNext

\* The service's threads, flags, worker and commands agree in every reachable state
\* (_stop_worker, _spawn, enter_maintenance, restore_business, ensure_worker, stop).
THEOREM SupervisorInvariance ==
  ASSUME SupervisorAssumption
  PROVE  SupervisorSpec => []SupervisorInv
<1>1. SupervisorInit => SupervisorInv
  BY SupervisorInvStarts
<1>2. SupervisorInv /\ [SupervisorNext]_supervisorVars => SupervisorInv'
  BY SupervisorInvStays
<1>. QED BY <1>1, <1>2, PTL DEF SupervisorSpec

\* Packages change beside no business worker, no two workers share the listener, and the task, the
\* phase and the flags tell the truth of the worker (enter_maintenance, _spawn, _stop_worker).
THEOREM PackagesAreInstalledAlone ==
  ASSUME SupervisorAssumption
  PROVE  SupervisorSpec => []InstallAlone
<1>1. SupervisorInv => InstallAlone
  <2> SUFFICES ASSUME SupervisorInv PROVE InstallAlone
    OBVIOUS
  <2>0. SupervisorTypeOK /\ LocksInOrder /\ WorkerInOrder /\ FlagsInOrder /\ (LateReports \/ ReadyIsTrue)
    BY DEF SupervisorInv
  <2>1. OneWorker
    BY <2>0 DEF WorkerInOrder
  <2>2. PackagesChangeAlone
    BY <2>0, <2>1 DEF PackagesChangeAlone, WorkerInOrder, OneWorker, Alive, Mode
  <2>3. TaskTruthful
    BY <2>0 DEF TaskTruthful, LocksInOrder, WorkerInOrder, FlagsInOrder, Alive
  <2>4. LateReports \/ AdmissionConfirmed
    BY <2>0 DEF ReadyIsTrue, AdmissionConfirmed, Alive
  <2>. QED BY <2>0, <2>1, <2>2, <2>3, <2>4 DEF InstallAlone
<1>. QED BY <1>1, SupervisorInvariance, PTL

-----------------------------------------------------------------------------
(* The session                                                             *)

\* A step of the workers that changes no session that is served and admits no worker.
SessionsStay ==
  \A w \in Workers : Serving(w)' =>
    /\ Serving(w) /\ worker'[w].session = worker[w].session
    /\ worker[w].paused => worker'[w].paused

NoLateResume == \A c \in commands : c.method = "resume" => c.by # "nobody"

LEMMA SessionStays ==
  ASSUME SessionInv, SessionsStay, NoLateResume', UNCHANGED <<snapshot, saved>>, count'.edits = count.edits,
         phase' = "ready" <=> phase = "ready", pc'["op"] = "restored" <=> pc["op"] = "restored",
         \A u \in Movers : (pc'[u] = "admitting" /\ answer'[u] = "done")
                             <=> (pc[u] = "admitting" /\ answer[u] = "done"),
         pc'["page"] = "pausing" /\ answer'["page"] = "done" => pc["page"] = "pausing" /\ answer["page"] = "done",
         pc'["main"] \in Swapping /\ job'["main"] = "start" => pc["main"] \in Swapping /\ job["main"] = "start"
  PROVE  SessionInv'
<1>1. /\ UNCHANGED <<snapshot, session, lost, told>> /\ \A x : Latest(x)' <=> Latest(x)
  BY DEF saved, Latest
<1>2. Resuming' <=> Resuming
  BY DEF Resuming, Movers
<1>. QED BY <1>1, <1>2 DEF SessionInv, SessionsStay, NoLateResume

\* Only t moves, and no worker is admitted.
LEMMA SwapStays ==
  ASSUME SupervisorInv, SessionInv, NEW t \in Movers, pc[t] \in Swapping,
         ~(pc[t] = "admitting" /\ answer[t] = "done"),
         SessionsStay, NoLateResume', UNCHANGED <<snapshot, saved, phase>>, count'.edits = count.edits,
         \A u \in Threads \ {t} : pc'[u] = pc[u] /\ job'[u] = job[u] /\ answer'[u] = answer[u],
         pc'[t] # "restored", pc'[t] = "admitting" => answer'[t] # "done",
         job'[t] = "start" => job[t] = "start"
  PROVE  SessionInv'
<1>1. CASE t = "main"
  BY <1>1, SessionStays DEF Threads, Movers
<1>2. CASE t = "op"
  BY <1>2, SessionStays DEF Threads, Movers, Swapping
<1>. QED BY <1>1, <1>2 DEF Movers

LEMMA NoServing ==
  ASSUME UNCHANGED worker
  PROVE  SessionsStay
  BY DEF SessionsStay, Serving

\* Asking for anything but admission, and for admission by a thread that waits.
LEMMA AskNoLate ==
  ASSUME SessionInv, NEW t \in Threads, NEW m, Ask(t, m)
  PROVE  NoLateResume'
<1>1. NoLateResume /\ t # "nobody"
  BY DEF SessionInv, NoLateResume, Threads
<1>2. \A c \in commands' : c \in commands \/ c.by = t
  BY DEF Ask
<1>. QED BY <1>1, <1>2 DEF NoLateResume

LEMMA StopWorkerSession ==
  ASSUME SupervisorInv, SessionInv, NEW t \in Movers, StopWorker(t)
  PROVE  SessionInv'
<1>0. PlacesOK /\ SupervisorTypeOK /\ NoLateResume /\ t \in Threads
  BY DEF SupervisorInv, SessionInv, NoLateResume, Movers, Threads
<1>1. /\ pc[t] = "stop" /\ UNCHANGED <<worker, snapshot, saved, phase, job, count>>
      /\ pc \in [Threads -> Labels] /\ answer \in [Threads -> Replies]
  BY <1>0 DEF StopWorker, manager, PlacesOK, SupervisorTypeOK, Labels, Replies
<1>2. PICK l \in {"finishing", "spawn", "asking", "joining worker"} : Goto(t, l)
  BY DEF StopWorker, Stopped
<1>3. NoLateResume' /\ \A u \in Threads \ {t} : answer'[u] = answer[u]
  <2>1. CASE Ask(t, "shutdown")
    BY <1>0, <1>1, <2>1, AskNoLate DEF Ask, Replies
  <2>2. CASE UNCHANGED <<commands, answer>>
    BY <1>0, <2>2 DEF NoLateResume
  <2>. QED BY <2>1, <2>2 DEF StopWorker
<1>4. pc'[t] = l /\ \A u \in Threads \ {t} : pc'[u] = pc[u]
  BY <1>0, <1>1, <1>2 DEF Goto
<1>. QED BY <1>1, <1>3, <1>4, SwapStays, NoServing DEF Swapping

\* Where a failed step leads, for the session.
LEMMA FailPlaces ==
  ASSUME PlacesOK, NEW t \in Movers, NEW during, pc[t] \in Swapping, Fail(t, during)
  PROVE  /\ pc'[t] \in {"joining", "restore", "failed", "raised", "stop"}
         /\ \A u \in Threads \ {t} : pc'[u] = pc[u] /\ job'[u] = job[u]
         /\ job'[t] = "start" => job[t] = "start"
<1>1. Fails(t, during)
  BY FailMoves
<1>. QED BY <1>1 DEF Fails, Moves

LEMMA AskedSession ==
  ASSUME SupervisorInv, SessionInv, NEW t \in Movers, Asked(t)
  PROVE  SessionInv'
<1>0. PlacesOK /\ SupervisorTypeOK /\ NoLateResume /\ t \in Threads
  BY DEF SupervisorInv, SessionInv, NoLateResume, Movers, Threads
<1>1. /\ pc[t] = "asking" /\ pc[t] \in Swapping
      /\ UNCHANGED <<worker, snapshot, commands, saved, phase, count>>
      /\ pc \in [Threads -> Labels] /\ answer \in [Threads -> Replies]
      /\ answer' = [answer EXCEPT ![t] = "none"]
  BY <1>0 DEF Asked, processes, manager, PlacesOK, SupervisorTypeOK, Labels, Replies, Swapping
<1>2. /\ pc'[t] \notin {"restored", "admitting"}
      /\ \A u \in Threads \ {t} : pc'[u] = pc[u] /\ job'[u] = job[u]
      /\ job'[t] = "start" => job[t] = "start"
  <2>1. CASE answer[t] = "refused"
    <3>1. Fail(t, "refusal")
      BY <2>1 DEF Asked
    <3>. QED BY <1>0, <1>1, <3>1, FailPlaces
  <2>2. CASE answer[t] # "refused"
    BY <1>0, <1>1, <2>2 DEF Asked, Goto
  <2>. QED BY <2>1, <2>2
<1>3. NoLateResume' /\ \A u \in Threads \ {t} : answer'[u] = answer[u]
  BY <1>0, <1>1 DEF NoLateResume
<1>. QED BY <1>1, <1>2, <1>3, SwapStays, NoServing

LEMMA JoinSession ==
  ASSUME SupervisorInv, SessionInv, NEW t \in Movers, Join(t)
  PROVE  SessionInv'
<1>0. PlacesOK /\ SupervisorTypeOK /\ NoLateResume /\ t \in Threads
  BY DEF SupervisorInv, SessionInv, NoLateResume, Movers, Threads
<1>1. /\ pc[t] = "joining worker" /\ pc[t] \in Swapping
      /\ UNCHANGED <<worker, snapshot, commands, saved, phase, count, answer>>
      /\ pc \in [Threads -> Labels]
  BY <1>0 DEF Join, processes, manager, PlacesOK, Labels, Swapping
<1>2. /\ pc'[t] \notin {"restored", "admitting"}
      /\ \A u \in Threads \ {t} : pc'[u] = pc[u] /\ job'[u] = job[u]
      /\ job'[t] = "start" => job[t] = "start"
  <2>1. CASE Fail(t, "timeout")
    BY <1>0, <1>1, <2>1, FailPlaces
  <2>2. CASE Stopped(t) /\ UNCHANGED <<job, lifecycle>>
    BY <1>0, <1>1, <2>2 DEF Stopped, Goto
  <2>. QED BY <2>1, <2>2 DEF Join
<1>3. NoLateResume'
  BY <1>0, <1>1 DEF NoLateResume
<1>. QED BY <1>1, <1>2, <1>3, SwapStays, NoServing

LEMMA NotBootedSession ==
  ASSUME SupervisorAssumption, SupervisorInv, SessionInv, NEW t \in Movers, NotBooted(t)
  PROVE  SessionInv'
<1>0. PlacesOK /\ SupervisorTypeOK /\ WorkerInOrder /\ NoLateResume /\ t \in Threads
  BY DEF SupervisorInv, SessionInv, NoLateResume, Movers, Threads
<1>1. /\ pc[t] = "booting" /\ pc[t] \in Swapping /\ Fail(t, "spawn")
      /\ UNCHANGED <<snapshot, commands, saved, phase, count, answer>>
  BY DEF NotBooted, manager, Swapping
<1>2. NoLateResume' /\ process \in Workers
  BY <1>0, <1>1 DEF NoLateResume, WorkerInOrder, SupervisorTypeOK, Movers
<1>3. SessionsStay
  <2>1. \A w \in Workers : w # process => worker'[w] = worker[w]
    BY <1>0, <1>2 DEF NotBooted, SupervisorTypeOK
  <2>2. worker'[process].life \in {"gone", "draining"}
    <3>1. CASE worker' = [worker EXCEPT ![process] = [Gone EXCEPT !.mode = worker[process].mode]]
      <4>1. worker'[process] = [Gone EXCEPT !.mode = worker[process].mode]
        BY <1>0, <1>2, <3>1 DEF SupervisorTypeOK
      <4>. QED BY <4>1 DEF Gone
    <3>2. CASE worker' = [worker EXCEPT ![process].life = "draining"]
      BY <1>0, <1>2, <3>2 DEF SupervisorTypeOK
    <3>. QED BY <3>1, <3>2 DEF NotBooted
  <2>. QED BY <2>1, <2>2 DEF SessionsStay, Serving
<1>. QED BY <1>0, <1>1, <1>2, <1>3, FailPlaces, SwapStays

LEMMA BootedSession ==
  ASSUME SupervisorInv, SessionInv, NEW t \in Movers, Booted(t)
  PROVE  SessionInv'
<1>0. PlacesOK /\ LocksInOrder /\ SupervisorTypeOK /\ NoLateResume /\ t \in Threads
  BY DEF SupervisorInv, SessionInv, NoLateResume, Movers, Threads
<1>1. /\ pc[t] = "booting" /\ pc[t] \in Swapping /\ UNCHANGED <<worker, snapshot, lost, told, job, count>>
      /\ pc \in [Threads -> Labels] /\ answer \in [Threads -> Replies]
  BY <1>0 DEF Booted, PlacesOK, SupervisorTypeOK, Labels, Replies, Swapping
<1>2. CASE Target(t) = "business"
  <2>1. Ask(t, "resume") /\ Goto(t, "admitting") /\ UNCHANGED <<phase, session>>
    BY <1>2 DEF Booted
  <2>2. answer'[t] # "done" /\ \A u \in Threads \ {t} : answer'[u] = answer[u] /\ pc'[u] = pc[u]
    BY <1>0, <1>1, <2>1 DEF Ask, Goto, Replies
  <2>3. pc'[t] = "admitting"
    BY <1>0, <1>1, <2>1 DEF Goto
  <2>. QED BY <1>0, <1>1, <2>1, <2>2, <2>3, SwapStays, NoServing, AskNoLate DEF saved
<1>3. CASE Target(t) # "business"
  <2>1. Spawned(t) /\ UNCHANGED <<commands, answer>>
    BY <1>3 DEF Booted
  <2>2. Succeeds(t) /\ job[t] \notin {"start", "restore"}
    BY <1>0, <1>1, <1>3, <2>1, SpawnedMoves DEF Target
  <2>3. /\ pc'[t] \notin {"restored", "admitting"} /\ UNCHANGED <<phase, session>>
        /\ \A u \in Threads \ {t} : pc'[u] = pc[u] /\ job'[u] = job[u]
    BY <2>2 DEF Succeeds, Moves
  <2>4. NoLateResume'
    BY <1>0, <2>1 DEF NoLateResume
  <2>. QED BY <1>1, <2>1, <2>3, <2>4, SwapStays, NoServing DEF saved
<1>. QED BY <1>2, <1>3

LEMMA SpawnSession ==
  ASSUME SupervisorAssumption, SupervisorInv, SessionInv, NEW t \in Movers, Spawn(t)
  PROVE  SessionInv'
<1>0. PlacesOK /\ SupervisorTypeOK /\ WorkerInOrder /\ NoLateResume /\ t \in Threads
  BY DEF SupervisorInv, SessionInv, NoLateResume, Movers, Threads
<1>1. /\ pc[t] = "spawn" /\ pc[t] \in Swapping /\ pc \in [Threads -> Labels]
      /\ UNCHANGED <<snapshot, commands, saved, phase, answer>>
  BY <1>0 DEF Spawn, manager, PlacesOK, Labels, Swapping
<1>2. /\ \A u \in Movers : u # t => pc[u] \notin Swapping
      /\ phase # "ready" /\ pc["page"] = "idle" /\ pc["op"] # "restored"
  BY <1>1, SwapperFacts
<1>3. NoLateResume' /\ count'.edits = count.edits
  <2>1. count.edits = [count EXCEPT !.faults = @ + 1].edits
    BY DEF SupervisorInv, RecordsOK
  <2>. QED BY <1>0, <1>1, <2>1 DEF NoLateResume, Spawn, Count
<1>4. CASE Fail(t, "spawn") /\ UNCHANGED worker
  BY <1>0, <1>1, <1>3, <1>4, FailPlaces, SwapStays, NoServing
<1>5. ASSUME process = None, NEW w \in Workers,
             worker' = [worker EXCEPT ![w] =
                          [Gone EXCEPT !.life = "booting", !.mode = Target(t),
                                       !.session = IF Target(t) = "business" THEN session ELSE 0]],
             Goto(t, "booting"), UNCHANGED job
      PROVE  SessionInv'
  <2> DEFINE x == IF Target(t) = "business" THEN session ELSE 0
  <2>1. worker'[w] = [Gone EXCEPT !.life = "booting", !.mode = Target(t), !.session = x]
    BY <1>0, <1>5 DEF SupervisorTypeOK
  <2>2. worker'[w].paused = TRUE /\ worker'[w].session = x /\ worker'[w].mode = Target(t)
    <3> HIDE DEF x
    <3>. QED BY <2>1 DEF Gone
  <2>3. \A v \in Workers : v # w => worker'[v].life = "gone"
    BY <1>0, <1>5 DEF WorkerInOrder, OneWorker, Alive, SupervisorTypeOK, SupervisorAssumption
  <2>4. \A v \in Workers : Serving(v)' => worker'[v].paused /\ worker'[v].session = session
    BY <2>2, <2>3 DEF Serving
  <2>5. pc'[t] = "booting" /\ \A u \in Threads \ {t} : pc'[u] = pc[u]
    BY <1>0, <1>1, <1>5 DEF Goto
  <2>6. ~Resuming /\ ~Resuming' /\ pc'["page"] = "idle" /\ pc'["op"] # "restored"
    BY <1>1, <1>2, <2>5 DEF Resuming, Movers, Threads, Swapping
  <2>7. Latest(session) \/ lost
    BY <1>2, <2>6 DEF SessionInv
  <2>8. Latest(session)' \/ lost'
    BY <1>1, <1>3, <2>7 DEF Latest, saved
  <2>9. pc'["main"] \in Swapping /\ job'["main"] = "start" => ~lost'
    <3>1. pc'["main"] \in Swapping => pc["main"] \in Swapping
      BY <1>1, <2>5 DEF Movers, Threads
    <3>. QED BY <1>1, <1>5, <3>1 DEF SessionInv, saved
  <2>. QED BY <1>1, <1>2, <1>3, <2>4, <2>6, <2>8, <2>9 DEF SessionInv, NoLateResume, saved
<1>. QED BY <1>4, <1>5 DEF Spawn, owned

LEMMA AdmittedSession ==
  ASSUME SupervisorInv, SessionInv, NEW t \in Movers, Admitted(t)
  PROVE  SessionInv'
<1>0. PlacesOK /\ LocksInOrder /\ SupervisorTypeOK /\ WorkerInOrder /\ NoLateResume /\ t \in Threads
  BY DEF SupervisorInv, SessionInv, NoLateResume, Movers, Threads
<1>1. /\ pc[t] = "admitting" /\ pc[t] \in Swapping
      /\ UNCHANGED <<worker, snapshot, commands, lost, told, count>>
      /\ answer \in [Threads -> Replies] /\ answer' = [answer EXCEPT ![t] = "none"]
  BY <1>0 DEF Admitted, processes, SupervisorTypeOK, Replies, Swapping
<1>2. /\ \A u \in Movers : u # t => pc[u] \notin Swapping
      /\ phase # "ready" /\ pc["page"] = "idle" /\ pc["op"] # "restored"
  BY <1>1, SwapperFacts
<1>3. /\ NoLateResume' /\ answer'[t] # "done"
      /\ \A u \in Threads \ {t} : answer'[u] = answer[u]
  BY <1>0, <1>1 DEF NoLateResume
<1>4. CASE answer[t] # "done"
  <2>1. Fail(t, "spawn") /\ UNCHANGED <<phase, session>>
    BY <1>4 DEF Admitted
  <2>. QED BY <1>0, <1>1, <1>3, <1>4, <2>1, FailPlaces, SwapStays, NoServing DEF saved
<1>5. CASE answer[t] = "done"
  <2>1. Spawned(t) /\ UNCHANGED job
    BY <1>5 DEF Admitted
  <2>2. Succeeds(t) /\ job[t] \in {"start", "restore"}
    BY <1>0, <1>1, <2>1, SpawnedMoves DEF WorkerInOrder, Target, Movers
  <2>3. \A w \in Workers : Serving(w) => Latest(worker[w].session) \/ lost
    <3>1. Resuming
      BY <1>1, <1>5 DEF Resuming, Movers
    <3>. QED BY <3>1 DEF SessionInv
  <2>4. \A w \in Workers : Serving(w)' => Latest(worker[w].session)' \/ lost
    BY <1>1, <2>3 DEF Serving, Latest
  <2>5. CASE job[t] = "start"
    <3>1. t = "main" /\ ~lost
      BY <1>0, <1>1, <2>5 DEF PlacesOK, Movers, SessionInv
    <3>2. /\ phase' = "ready" /\ pc'["main"] = "loop" /\ pc'["op"] = pc["op"] /\ pc'["page"] = "idle"
          /\ job'["main"] = "start" /\ pc["op"] \notin Swapping
      BY <1>2, <2>2, <2>5, <3>1 DEF Succeeds, Moves, Threads, Movers
    <3>3. ~Resuming'
      BY <3>2 DEF Resuming, Swapping
    <3>. QED BY <1>1, <1>2, <1>3, <2>4, <3>1, <3>2, <3>3 DEF SessionInv, NoLateResume, Swapping, Latest, Serving
  <2>6. CASE job[t] = "restore"
    <3>1. t = "op"
      BY <1>0, <1>1, <2>6 DEF PlacesOK, Movers
    <3>2. /\ phase' = phase /\ pc'["op"] = "restored" /\ pc'["main"] = pc["main"] /\ pc'["page"] = "idle"
          /\ pc["main"] \notin Swapping
      BY <1>2, <2>2, <2>6, <3>1 DEF Succeeds, Moves, Threads, Movers
    <3>. QED BY <1>1, <1>2, <1>3, <2>4, <3>2 DEF SessionInv, NoLateResume, Latest, Serving
  <2>. QED BY <2>2, <2>5, <2>6
<1>. QED BY <1>4, <1>5

LEMMA WorkingSession ==
  ASSUME SupervisorInv, SessionInv, NEW w \in Workers,
         \/ Boot(w) \/ BootFails(w) \/ LoseChannel(w) \/ EndWork(w)
  PROVE  SessionInv'
<1>0. SupervisorTypeOK /\ NoLateResume /\ RecordsOK
  BY DEF SupervisorInv, SessionInv, NoLateResume
<1>1. UNCHANGED <<snapshot, commands, saved, phase, pc, job, answer>> /\ count'.edits = count.edits
  <2>1. count.edits = [count EXCEPT !.faults = @ + 1].edits
    BY <1>0 DEF RecordsOK
  <2>. QED BY <2>1 DEF Boot, BootFails, LoseChannel, EndWork, control, manager, Count
<1>2. SessionsStay
  <2>1. \A v \in Workers : v # w => worker'[v] = worker[v]
    BY <1>0 DEF SupervisorTypeOK, Boot, BootFails, LoseChannel, EndWork
  <2>2. Serving(w)' => /\ Serving(w) /\ worker'[w].session = worker[w].session
                       /\ worker[w].paused => worker'[w].paused
    BY <1>0 DEF SupervisorTypeOK, Boot, BootFails, LoseChannel, EndWork, Serving
  <2>. QED BY <2>1, <2>2 DEF SessionsStay, Serving
<1>3. NoLateResume'
  BY <1>0, <1>1 DEF NoLateResume
<1>. QED BY <1>1, <1>2, <1>3, SessionStays

LEMMA EndsSession ==
  ASSUME SupervisorInv, SessionInv, NEW w \in Workers, Exit(w) \/ Crash(w)
  PROVE  SessionInv'
<1>0. SupervisorTypeOK /\ CommandsInOrder /\ NoLateResume /\ RecordsOK
  BY DEF SupervisorInv, SessionInv, NoLateResume
<1>1. Ends(w) /\ count'.edits = count.edits
  <2>1. count.edits = [count EXCEPT !.faults = @ + 1].edits
    BY <1>0 DEF RecordsOK
  <2>. QED BY <2>1 DEF Exit, Crash, Count
<1>2. UNCHANGED <<snapshot, saved, phase, pc, job>> /\ commands' \subseteq commands
  BY <1>1 DEF Ends, manager
<1>3. SessionsStay
  <2>1. worker' = [worker EXCEPT ![w] = [Gone EXCEPT !.mode = worker[w].mode]]
    BY <1>1 DEF Ends
  <2>2. \A v \in Workers : v # w => worker'[v] = worker[v]
    BY <1>0, <2>1 DEF SupervisorTypeOK
  <2>3. worker'[w] = [Gone EXCEPT !.mode = worker[w].mode]
    BY <1>0, <2>1 DEF SupervisorTypeOK
  <2>4. worker'[w].life = "gone"
    BY <2>3 DEF Gone
  <2>. QED BY <2>2, <2>4 DEF SessionsStay, Serving
<1>4. \A u \in Threads : answer'[u] = "done" <=> answer[u] = "done"
  <2>1. \A c \in commands : c.by \in Threads => answer[c.by] = "awaited"
    BY <1>0 DEF CommandsInOrder, Threads
  <2>. QED BY <1>1, <2>1 DEF Ends
<1>5. NoLateResume'
  BY <1>0, <1>2 DEF NoLateResume
<1>. QED BY <1>1, <1>2, <1>3, <1>4, <1>5, SessionStays DEF Threads, Movers

LEMMA WorkSession ==
  ASSUME SupervisorAssumption, SupervisorInv, SessionInv, NEW w \in Workers, Work(w)
  PROVE  SessionInv'
<1>0. SupervisorTypeOK /\ WorkerInOrder /\ NoLateResume /\ RecordsOK
  BY DEF SupervisorInv, SessionInv, NoLateResume
<1>1. /\ worker[w].life = "serving" /\ worker[w].mode = "business" /\ ~worker[w].paused
      /\ UNCHANGED <<snapshot, commands, saved, phase, pc, job, answer>>
  BY DEF Work, control, manager
<1>2. worker'[w].session = count'.edits
  BY <1>0 DEF Work, Count, SupervisorTypeOK, RecordsOK
<1>3. \A v \in Workers : Serving(v)' => v = w
  <2>1. \A v \in Workers : v # w => worker'[v] = worker[v] /\ worker[v].life = "gone"
    BY <1>0, <1>1 DEF Work, WorkerInOrder, OneWorker, Alive, SupervisorTypeOK, SupervisorAssumption
  <2>. QED BY <2>1 DEF Serving
<1>4. Serving(w)
  BY <1>1 DEF Serving
<1>5. ~(pc["page"] = "pausing" /\ answer["page"] = "done")
  BY <1>1, <1>4 DEF SessionInv
<1>6. pc["op"] = "restored" \/ Resuming \/ phase = "ready"
  BY <1>1, <1>4 DEF SessionInv
<1>7. Resuming' <=> Resuming
  BY <1>1 DEF Resuming
<1>. QED BY <1>0, <1>1, <1>2, <1>3, <1>5, <1>6, <1>7 DEF SessionInv, NoLateResume, Latest, saved

LEMMA HandleReportSession ==
  ASSUME SupervisorInv, SessionInv, NEW r \in reports, HandleReport(r)
  PROVE  SessionInv'
<1>1. UNCHANGED <<worker, snapshot, commands, saved, phase, pc, job, answer, count>>
  BY DEF HandleReport, control, manager
<1>2. NoLateResume'
  BY <1>1 DEF NoLateResume, SessionInv
<1>. QED BY <1>1, <1>2, SessionStays, NoServing

\* Here it matters that admission is not given up too early.
LEMMA TimeOutSession ==
  ASSUME AdmissionInTime, SupervisorInv, SessionInv, NEW c \in commands, TimeOut(c)
  PROVE  SessionInv'
<1>0. SupervisorTypeOK /\ CommandsInOrder /\ NoLateResume
  BY DEF SupervisorInv, SessionInv, NoLateResume
<1>1. /\ UNCHANGED <<worker, snapshot, saved, phase, pc, job, count>>
      /\ answer' = [answer EXCEPT ![c.by] = "lost"] /\ answer \in [Threads -> Replies]
      /\ c \in CommandRecord /\ c.by # "nobody" /\ c.method # "resume"
  BY <1>0 DEF AdmissionInTime, TimeOut, manager, SupervisorTypeOK, CommandRecord, Replies
<1>2. answer[c.by] = "awaited" /\ c.by \in Threads
  BY <1>0, <1>1 DEF CommandsInOrder, CommandRecord
<1>3. \A u \in Threads : answer'[u] = "done" <=> answer[u] = "done"
  BY <1>1, <1>2
<1>4. NoLateResume'
  <2>1. PICK d : d = [c EXCEPT !.by = "nobody"]
    OBVIOUS
  <2>2. d.method # "resume" /\ commands' = (commands \ {c}) \cup {d}
    BY <1>1, <2>1 DEF CommandRecord, TimeOut
  <2>. QED BY <1>0, <2>2 DEF NoLateResume
<1>. QED BY <1>1, <1>3, <1>4, SessionStays, NoServing DEF Threads, Movers

LEMMA HandleSession ==
  ASSUME SupervisorAssumption, SupervisorInv, SessionInv, NEW c \in commands, Handle(c)
  PROVE  SessionInv'
<1>0. SupervisorTypeOK /\ PlacesOK /\ LocksInOrder /\ WorkerInOrder /\ CommandsInOrder /\ NoLateResume
  BY DEF SupervisorInv, SessionInv, NoLateResume
<1> DEFINE w == c.to
           refused == c.method # "resume" /\ worker[c.to].busy
<1>1. /\ c \in CommandRecord /\ worker \in [Workers -> WorkerRecord] /\ answer \in [Threads -> Replies]
      /\ worker[w].life \in {"booting", "serving"} /\ w \in Workers /\ w = process
      /\ commands' = commands \ {c}
      /\ UNCHANGED <<saved, phase, pc, job, count>>
  BY <1>0 DEF Handle, manager, SupervisorTypeOK, CommandRecord, WorkerRecord, Replies, WorkerInOrder,
              OneWorker, Alive, SupervisorAssumption
<1>2. /\ NoLateResume'
      /\ \A u \in Threads : u # c.by => answer'[u] = answer[u]
      /\ c.by # "nobody" => /\ c.by \in Threads /\ answer[c.by] = "awaited" /\ Awaits(c)
                            /\ answer'[c.by] = IF refused THEN "refused" ELSE "done"
  <2>1. Reply(c, IF refused THEN "refused" ELSE "done")
    BY DEF Handle
  <2>2. c.by # "nobody" => c.by \in Threads /\ answer[c.by] = "awaited" /\ Awaits(c)
    BY <1>0, <1>1 DEF CommandsInOrder, CommandRecord
  <2>. QED BY <1>0, <1>1, <2>1, <2>2 DEF NoLateResume, Reply
<1>3. \A v \in Workers : v # w => worker'[v] = worker[v] /\ ~Serving(v) /\ ~Serving(v)'
  <2>1. \A v \in Workers : v # w => worker'[v] = worker[v]
    BY <1>1 DEF Handle
  <2>. QED BY <1>0, <1>1, <2>1 DEF WorkerInOrder, OneWorker, Alive, Serving, SupervisorAssumption
<1>4. ASSUME SessionsStay, UNCHANGED snapshot,
             \A u \in Threads : answer'[u] = "done" /\ pc[u] \in {"admitting", "pausing"} => answer[u] = "done"
      PROVE  SessionInv'
  <2>1. \A u \in Threads : pc[u] \in {"admitting", "pausing"} => (answer'[u] = "done" <=> answer[u] = "done")
    BY <1>2, <1>4 DEF Threads
  <2>. QED BY <1>1, <1>2, <1>4, <2>1, SessionStays DEF Threads, Movers
<1>5. CASE refused
  <2>1. UNCHANGED <<worker, snapshot>>
    BY <1>5 DEF Handle
  <2>. QED BY <1>2, <1>4, <1>5, <2>1, NoServing DEF Threads
<1>6. CASE c.method = "prepare" /\ ~refused
  <2>1. worker' = [worker EXCEPT ![w].paused = TRUE]
    BY <1>6 DEF Handle
  <2>2. worker'[w].paused = TRUE /\ worker'[w].session = worker[w].session /\ (Serving(w)' => Serving(w))
    BY <1>1, <2>1 DEF WorkerRecord, Serving
  <2>3. SessionsStay
    BY <1>3, <2>2 DEF SessionsStay
  <2>4. CASE c.by = "nobody"
    <3>1. UNCHANGED snapshot
      BY <2>4 DEF Handle
    <3>. QED BY <1>2, <1>4, <2>3, <2>4, <3>1 DEF Threads
  <2>5. CASE c.by # "nobody"
    <3>1. c.by = "page" /\ pc["page"] = "pausing" /\ phase = "ready" /\ snapshot' = worker[w].session
      BY <1>0, <1>2, <1>6, <2>5 DEF Handle, Awaits, LocksInOrder
    <3>2. Latest(worker[w].session)
      <4>1. Serving(w)
        BY <1>0, <1>1, <3>1 DEF WorkerInOrder, Mode, Serving, SupervisorAssumption
      <4>. QED BY <1>1, <3>1, <4>1 DEF SessionInv
    <3>3. \A x : Latest(x)' <=> Latest(x)
      BY <1>1 DEF Latest, saved
    <3>4. ~Resuming' /\ pc'["op"] # "restored"
      BY <1>1, <3>1, ReadyFacts DEF Resuming, Movers
    <3>5. \A v \in Workers : Serving(v)' => v = w
      BY <1>3
    <3>. QED BY <1>1, <1>2, <2>2, <3>1, <3>2, <3>3, <3>4, <3>5 DEF SessionInv, NoLateResume, saved
  <2>. QED BY <2>4, <2>5
<1>7. CASE c.method = "resume"
  <2>1. UNCHANGED snapshot /\ worker' = [worker EXCEPT ![w].paused = worker[w].life = "booting"]
    BY <1>7 DEF Handle
  <2>2. worker'[w].session = worker[w].session /\ (Serving(w)' => Serving(w))
    BY <1>1, <2>1 DEF WorkerRecord, Serving
  <2>3. c.by # "nobody"
    BY <1>0, <1>7 DEF NoLateResume
  <2>4. \A x : Latest(x)' <=> Latest(x)
    BY <1>1 DEF Latest, saved
  <2>5. \A v \in Workers : Serving(v)' => v = w
    BY <1>3
  <2>6. CASE c.by = "page"
    <3>1. pc["page"] = "resuming" /\ phase = "ready"
      BY <1>0, <1>2, <1>7, <2>6 DEF Awaits, LocksInOrder
    <3>2. ~Resuming' /\ pc'["op"] # "restored"
      BY <1>1, <3>1, ReadyFacts DEF Resuming, Movers
    <3>. QED BY <1>1, <1>2, <2>2, <2>4, <2>5, <3>1, <3>2 DEF SessionInv, NoLateResume, saved
  <2>7. CASE c.by \in Movers
    <3>1. pc[c.by] = "admitting" /\ answer[c.by] # "done" /\ answer'[c.by] = "done"
      BY <1>2, <1>7, <2>3, <2>7 DEF Awaits, Movers
    <3>2. /\ \A u \in Movers : u # c.by => pc[u] \notin Swapping
          /\ phase # "ready" /\ pc["page"] = "idle" /\ pc["op"] # "restored"
      BY <2>7, <3>1, SwapperFacts DEF Swapping
    <3>3. ~Resuming /\ Resuming'
      BY <1>1, <2>7, <3>1, <3>2 DEF Resuming, Movers, Swapping
    <3>4. (Latest(session) \/ lost) /\ (Serving(w) => worker[w].session = session)
      BY <1>1, <3>2, <3>3 DEF SessionInv
    <3>. QED BY <1>1, <1>2, <2>2, <2>4, <2>5, <3>2, <3>3, <3>4 DEF SessionInv, NoLateResume, saved
  <2>. QED BY <1>2, <2>3, <2>6, <2>7 DEF Threads, Movers
<1>8. CASE c.method = "shutdown" /\ ~refused
  <2>1. UNCHANGED snapshot /\ worker'[w].life = "draining"
    BY <1>1, <1>8 DEF Handle, WorkerRecord
  <2>2. SessionsStay
    BY <1>3, <2>1 DEF SessionsStay, Serving
  <2>3. c.by # "nobody" => pc[c.by] = "asking"
    BY <1>2, <1>8 DEF Awaits
  <2>. QED BY <1>2, <1>4, <2>1, <2>2, <2>3 DEF Threads
<1>. QED BY <1>1, <1>5, <1>6, <1>7, <1>8 DEF CommandRecord

LEMMA MovingSession ==
  ASSUME SupervisorInv, SessionInv,
         \/ Signal \/ JoinOperation \/ LockToStop \/ Finish \/ Recover \/ Stage \/ Install \/ Restore
  PROVE  SessionInv'
<1>0. PlacesOK /\ LocksInOrder /\ NoLateResume /\ RecordsOK /\ pc \in [Threads -> Labels]
  BY DEF SupervisorInv, SessionInv, NoLateResume, PlacesOK, Labels
<1>1. UNCHANGED <<worker, snapshot, commands, saved, answer>> /\ count'.edits = count.edits
  <2>1. count.edits = [count EXCEPT !.requests = @ + 1].edits
    BY <1>0 DEF RecordsOK
  <2>. QED BY <2>1 DEF Signal, JoinOperation, LockToStop, Finish, Recover, Stage, Install, Restore, Count,
                       processes, control
<1>2. NoLateResume'
  BY <1>0, <1>1 DEF NoLateResume
<1>3. phase' = "ready" <=> phase = "ready"
  BY <1>0 DEF Signal, JoinOperation, LockToStop, Finish, Recover, Stage, Install, Restore, manager, LocksInOrder
<1>4. /\ pc'["op"] = "restored" <=> pc["op"] = "restored"
      /\ \A u \in Movers : pc'[u] = "admitting" <=> pc[u] = "admitting"
      /\ pc'["page"] = "pausing" => pc["page"] = "pausing"
  BY <1>0 DEF Signal, JoinOperation, LockToStop, Finish, Recover, Stage, Install, Restore, Goto,
              StartOperation, Movers, Threads, Request
<1>5. pc'["main"] \in Swapping /\ job'["main"] = "start" => pc["main"] \in Swapping /\ job["main"] = "start"
  BY <1>0 DEF Signal, JoinOperation, LockToStop, Finish, Recover, Stage, Install, Restore, Goto,
              StartOperation, Movers, Threads, Swapping, PlacesOK
<1>. QED BY <1>1, <1>2, <1>3, <1>4, <1>5, SessionStays, NoServing

LEMMA LockSession ==
  ASSUME SupervisorInv, SessionInv, Lock
  PROVE  SessionInv'
<1>0. PlacesOK /\ LocksInOrder /\ FlagsInOrder /\ NoLateResume /\ pc \in [Threads -> Labels]
  BY DEF SupervisorInv, SessionInv, NoLateResume, PlacesOK, Labels
<1>1. /\ pc["op"] = "lock" /\ lifecycle = "free" /\ UNCHANGED <<worker, snapshot, saved, phase, job, count>>
  BY DEF Lock, manager
<1>2. ~(job["op"] = "restore" /\ flags.business)
  BY <1>0, <1>1 DEF FlagsInOrder, LocksInOrder, Swapping
<1>3. pc' = [pc EXCEPT !["op"] = "stop"] /\ UNCHANGED <<commands, answer>>
  BY <1>2 DEF Lock, Goto
<1>4. NoLateResume'
  BY <1>0, <1>3 DEF NoLateResume
<1>. QED BY <1>0, <1>1, <1>3, <1>4, SessionStays, NoServing DEF Threads, Movers

LEMMA EnsureWorkerSession ==
  ASSUME SupervisorAssumption, SupervisorInv, SessionInv, EnsureWorker
  PROVE  SessionInv'
<1>0. PlacesOK /\ LocksInOrder /\ WorkerInOrder /\ NoLateResume /\ pc \in [Threads -> Labels]
  BY DEF SupervisorInv, SessionInv, NoLateResume, PlacesOK, Labels
<1>1. /\ pc["main"] = "loop" /\ pc["op"] = "idle" /\ ~locked /\ ~Alive(process)
      /\ pc' = [pc EXCEPT !["main"] = "stop"] /\ job' = [job EXCEPT !["main"] = "ensure"]
      /\ UNCHANGED <<worker, snapshot, commands, answer, told, count>>
  BY DEF EnsureWorker, Goto, processes
<1>2. pc["page"] = "idle" /\ pc'["page"] = "idle" /\ pc'["op"] = "idle" /\ job'["main"] = "ensure"
  BY <1>0, <1>1 DEF LocksInOrder, PlacesOK, Threads
<1>3. \A w \in Workers : ~Serving(w) /\ ~Serving(w)'
  BY <1>0, <1>1 DEF WorkerInOrder, OneWorker, Alive, Serving, SupervisorAssumption
<1>4. CASE phase = "ready"
  <2>1. phase' = "recovery_failed" /\ lost' = TRUE
    BY <1>4 DEF EnsureWorker, LoseSession
  <2>. QED BY <1>0, <1>1, <1>2, <1>3, <2>1 DEF SessionInv, NoLateResume
<1>5. CASE phase # "ready"
  <2>1. UNCHANGED <<phase, session, lost>>
    BY <1>5 DEF EnsureWorker
  <2>2. NoLateResume' /\ SessionsStay
    BY <1>0, <1>1, NoServing DEF NoLateResume
  <2>3. \A u \in Movers : pc'[u] = "admitting" <=> pc[u] = "admitting"
    BY <1>0, <1>1, <1>2 DEF Threads, Movers
  <2>. QED BY <1>1, <1>2, <2>1, <2>2, <2>3, SessionStays DEF saved
<1>. QED BY <1>4, <1>5

LEMMA EndOperationSession ==
  ASSUME SupervisorInv, SessionInv, EndOperation
  PROVE  SessionInv'
<1>0. PlacesOK /\ LocksInOrder /\ NoLateResume /\ pc \in [Threads -> Labels]
  BY DEF SupervisorInv, SessionInv, NoLateResume, PlacesOK, Labels
<1>1. /\ pc["op"] \in {"restored", "failed"} /\ pc' = [pc EXCEPT !["op"] = "idle"]
      /\ UNCHANGED <<worker, snapshot, commands, answer, session, lost, job, count>>
  BY <1>0 DEF EndOperation, Goto, processes, PlacesOK, Swapping
<1>2. /\ phase # "ready" /\ pc'["op"] = "idle" /\ pc'["main"] = pc["main"] /\ pc'["page"] = pc["page"]
      /\ pc["page"] = "idle" /\ pc["main"] # "admitting"
  BY <1>0, <1>1 DEF LocksInOrder, PlacesOK, Threads, Swapping
<1>3. ~Resuming /\ ~Resuming'
  BY <1>1, <1>2 DEF Resuming
<1>4. CASE pc["op"] = "failed"
  <2>1. phase' = "recovery_failed" /\ told' = told
    BY <1>4 DEF EndOperation
  <2>2. NoLateResume' /\ SessionsStay
    BY <1>0, <1>1, NoServing DEF NoLateResume
  <2>. QED BY <1>1, <1>2, <1>4, <2>1, <2>2, SessionStays DEF saved, Movers
<1>5. CASE pc["op"] = "restored"
  <2>1. phase' = "ready" /\ told' = IF lost THEN count.edits ELSE told
    BY <1>5 DEF EndOperation
  <2>2. \A w \in Workers : Serving(w) => Latest(worker[w].session) \/ lost
    BY <1>5 DEF SessionInv
  <2>3. \A w \in Workers : Serving(w)' => Latest(worker[w].session)'
    BY <1>1, <2>1, <2>2 DEF Serving, Latest
  <2>. QED BY <1>0, <1>1, <1>2, <1>3, <2>1, <2>3 DEF SessionInv, NoLateResume
<1>. QED BY <1>1, <1>4, <1>5

LEMMA ExecuteSession ==
  ASSUME SupervisorInv, SessionInv, Execute
  PROVE  SessionInv'
<1>0. PlacesOK /\ SupervisorTypeOK /\ RecordsOK /\ pc \in [Threads -> Labels] /\ answer \in [Threads -> Replies]
  BY DEF SupervisorInv, PlacesOK, Labels, SupervisorTypeOK, Replies
<1>1. /\ Ask("page", "prepare") /\ pc' = [pc EXCEPT !["page"] = "pausing"]
      /\ UNCHANGED <<worker, snapshot, saved, phase, job>>
  BY DEF Execute, Goto
<1>2. count'.edits = count.edits
  <2>1. count.edits = [count EXCEPT !.requests = @ + 1].edits
    BY <1>0 DEF RecordsOK
  <2>. QED BY <2>1 DEF Execute, Count
<1>3. answer'["page"] # "done" /\ \A u \in Threads \ {"page"} : answer'[u] = answer[u] /\ pc'[u] = pc[u]
  BY <1>0, <1>1 DEF Ask, Threads, Replies
<1>4. NoLateResume'
  BY <1>1, AskNoLate DEF Threads
<1>. QED BY <1>1, <1>2, <1>3, <1>4, SessionStays, NoServing DEF Threads, Movers

\* A page's request beside a manager that stays ready loses nothing.
LEMMA ReadySession ==
  ASSUME SupervisorInv, SessionInv, phase = "ready", NoLateResume',
         UNCHANGED <<worker, phase, told, count, job>>,
         \A u \in Threads \ {"page"} : pc'[u] = pc[u],
         pc'["page"] # "pausing", lost' => lost
  PROVE  SessionInv'
<1>1. pc["op"] = "idle" /\ \A u \in Movers : pc[u] # "admitting" /\ pc'[u] = pc[u]
  BY ReadyFacts DEF Movers, Threads
<1>2. ~Resuming' /\ pc'["op"] # "restored" /\ pc'["main"] = pc["main"]
  BY <1>1 DEF Resuming, Movers
<1>3. \A w \in Workers : Serving(w)' => Latest(worker[w].session)'
  BY DEF SessionInv, Serving, Latest
<1>. QED BY <1>2, <1>3 DEF SessionInv, NoLateResume

LEMMA ResumedSession ==
  ASSUME SupervisorInv, SessionInv, Resumed
  PROVE  SessionInv'
<1>0. PlacesOK /\ LocksInOrder /\ NoLateResume /\ pc \in [Threads -> Labels]
  BY DEF SupervisorInv, SessionInv, NoLateResume, PlacesOK, Labels
<1>1. /\ phase = "ready" /\ pc' = [pc EXCEPT !["page"] = "idle"]
      /\ UNCHANGED <<worker, commands, phase, told, lost, count, job>>
  BY <1>0 DEF Resumed, Unlock, Goto, processes, LocksInOrder
<1>2. NoLateResume'
  BY <1>0, <1>1 DEF NoLateResume
<1>. QED BY <1>0, <1>1, <1>2, ReadySession DEF Threads

LEMMA PausedSession ==
  ASSUME SupervisorInv, SessionInv, Paused
  PROVE  SessionInv'
<1>0. PlacesOK /\ LocksInOrder /\ NoLateResume /\ pc \in [Threads -> Labels]
  BY DEF SupervisorInv, SessionInv, NoLateResume, PlacesOK, Labels
<1>1. /\ pc["page"] = "pausing" /\ phase = "ready"
      /\ UNCHANGED <<worker, snapshot, told, count>>
  BY <1>0 DEF Paused, LocksInOrder
<1>2. CASE answer["page"] # "done"
  <2>1. /\ pc' = [pc EXCEPT !["page"] = "idle"] /\ UNCHANGED <<commands, lost, phase, job>>
    BY <1>2 DEF Paused, Unlock, Goto
  <2>2. NoLateResume'
    BY <1>0, <2>1 DEF NoLateResume
  <2>. QED BY <1>0, <1>1, <2>1, <2>2, ReadySession DEF Threads
<1>3. CASE /\ lost' = FALSE /\ ResumeWorker("page") /\ Goto("page", "resuming")
           /\ UNCHANGED <<phase, package, status, locked, job>>
  <2>1. NoLateResume'
    <3>1. CASE Ask("page", "resume")
      BY <3>1, AskNoLate DEF Threads
    <3>2. CASE UNCHANGED commands
      BY <1>0, <3>2 DEF NoLateResume
    <3>. QED BY <1>3, <3>1, <3>2 DEF ResumeWorker
  <2>. QED BY <1>0, <1>1, <1>3, <2>1, ReadySession DEF Goto, Threads
<1>4. CASE /\ answer["page"] = "done" /\ session' = snapshot /\ lost' = FALSE
           /\ StartOperation("lock", "enter") /\ phase' = "preparing" /\ UNCHANGED commands
  <2>1. /\ pc'["page"] = "idle" /\ pc'["op"] = "lock" /\ pc'["main"] = pc["main"]
    BY <1>0, <1>4 DEF StartOperation, Threads
  <2>2. pc["main"] # "admitting" /\ ~Resuming'
    BY <1>1, <2>1, ReadyFacts DEF Resuming, Movers
  <2>3. /\ Latest(snapshot)
        /\ \A w \in Workers : Serving(w) => worker[w].paused /\ worker[w].session = snapshot
    BY <1>1, <1>4 DEF SessionInv
  <2>4. /\ Latest(session)'
        /\ \A w \in Workers : Serving(w)' => worker'[w].paused /\ worker'[w].session = session'
    BY <1>1, <1>4, <2>3 DEF Latest, Serving
  <2>. QED BY <1>0, <1>1, <1>4, <2>1, <2>2, <2>4 DEF SessionInv, NoLateResume
<1>. QED BY <1>2, <1>3, <1>4 DEF Paused

LEMMA SessionInvStarts ==
  ASSUME SupervisorInit
  PROVE  SessionInv
  BY DEF SupervisorInit, SessionInv, Latest, Serving, Gone

LEMMA SessionInvStays ==
  ASSUME SupervisorAssumption, SupervisorInv, SessionInv,
         [SupervisorNext]_supervisorVars, [AdmissionInTime]_supervisorVars
  PROVE  SessionInv'
<1>0. CASE UNCHANGED supervisorVars
  <2>1. UNCHANGED <<worker, snapshot, commands, saved, phase, pc, job, answer, count>>
    BY <1>0 DEF supervisorVars, processes, manager, control
  <2>2. NoLateResume'
    BY <2>1 DEF NoLateResume, SessionInv
  <2>. QED BY <2>1, <2>2, SessionStays, NoServing
<1>1. ASSUME NEW t \in Movers, Lifecycle(t) PROVE SessionInv'
  BY <1>1, StopWorkerSession, AskedSession, JoinSession, SpawnSession, BootedSession, NotBootedSession,
     AdmittedSession DEF Lifecycle
<1>2. CASE MainStep
  BY <1>1, <1>2, MovingSession, EnsureWorkerSession DEF MainStep, Movers
<1>3. CASE OpStep
  <2>1. ~Kept
    BY DEF Kept, SupervisorInv, PlacesOK, Swapping
  <2>. QED BY <1>1, <1>3, <2>1, MovingSession, LockSession, EndOperationSession DEF OpStep, Movers
<1>4. CASE PageStep \/ Signal \/ Execute \/ Recover
  BY <1>4, MovingSession, ExecuteSession, PausedSession, ResumedSession DEF PageStep
<1>5. ASSUME NEW w \in Workers, WorkerStep(w) \/ BootFails(w) \/ Crash(w) \/ Work(w) PROVE SessionInv'
  BY <1>5, WorkingSession, EndsSession, WorkSession DEF WorkerStep
<1>6. ASSUME NEW c \in commands, Handle(c) \/ TimeOut(c) PROVE SessionInv'
  <2>1. CASE AdmissionInTime
    BY <1>6, <2>1, HandleSession, TimeOutSession
  <2>. QED BY <1>0, <2>1
<1>7. ASSUME NEW r \in reports, HandleReport(r) PROVE SessionInv'
  BY <1>7, HandleReportSession
<1>. QED BY <1>0, <1>2, <1>3, <1>4, <1>5, <1>6, <1>7 DEF SupervisorNext

\* Unless the wait for the answer that admits a worker times out, the worker that serves pages has
\* every change they made to their session, or the page has been told that the session is lost
\* (prepare_maintenance, restore_business, ensure_worker).
THEOREM SessionsAreKept ==
  ASSUME SupervisorAssumption
  PROVE  SupervisorSpec /\ [][AdmissionInTime]_supervisorVars => []SessionKept
<1>1. SupervisorInit => SupervisorInv /\ SessionInv
  BY SupervisorInvStarts, SessionInvStarts
<1>2. (SupervisorInv /\ SessionInv) /\ [SupervisorNext]_supervisorVars /\ [AdmissionInTime]_supervisorVars
        => (SupervisorInv /\ SessionInv)'
  BY SupervisorInvStays, SessionInvStays
<1>3. SessionInv => SessionKept
  BY DEF SessionInv, SessionKept, Serving, Latest
<1>. QED BY <1>1, <1>2, <1>3, PTL DEF SupervisorSpec
==============================================================================
