------------------------- MODULE DataChannelCoreProofs -------------------------
(***************************************************************************)
(* Type correctness of DataChannelCore and safety of its calls and chunk   *)
(* assemblies, for any numbers of keys, calls, heartbeat threads and       *)
(* epochs, and for any capacities.                                         *)
(***************************************************************************)
EXTENDS DataChannelCore, TLAPS

USE DEF Actors, transportVars, sessionVars, linkVars, requestVars, eventVars, threadVars

-----------------------------------------------------------------------------
(* Types. *)

\* The parts of TypeOK that one family of actions can disturb together.
LinkType ==
    /\ session \in Nat /\ lock \in Actors \cup {"free"} /\ owner \in BOOLEAN
    /\ opened \in BOOLEAN /\ hbRunning \in BOOLEAN /\ probe \in BOOLEAN
    /\ lastResponse \in {"none", "recent", "old"}
    /\ stopTx \in Heartbeats \cup {None}
    /\ validationKey \in Nat /\ validEpoch \in Nat

RequestType ==
    /\ pending \in [Keys -> Reqs \cup {None}]
    /\ req \in [Reqs -> Calls]
    /\ chunks \in [Keys -> Nat]

EventType == subs \in SUBSET Topics /\ events \in Seq([topic : Topics, gen : Nat])

HeartbeatType ==
    hb \in [Heartbeats -> [pc : {"off", "check", "iterate", "wait"}, epoch : Nat]]

PcType ==
    /\ resume \in {"top", "expire"}
    /\ pc \in [Actors -> StopSteps \cup RouterSteps \cup TaskSteps]

\* TypeOK is the conjunction of its parts, and each part is proved on its own.
LEMMA TypeParts ==
    TypeOK <=> /\ TransportTypeOK /\ LinkType /\ RequestType /\ EventType /\ HeartbeatType
               /\ routerMsg \in Messages /\ PcType
BY Zenon DEF TypeOK, LinkType, RequestType, EventType, HeartbeatType, PcType

\* Answering a call leaves it a call.
LEMMA AnswerType ==
    ASSUME NEW c \in Calls, NEW slot \in {"empty", "ok", "err"}, NEW gen \in Nat
    PROVE  [c EXCEPT !.slot = slot, !.by = gen] \in Calls
BY Zenon DEF Calls

\* Settling calls keeps the tables of calls and registered calls well typed.
LEMMA SettleType ==
    ASSUME RequestType, NEW keys, NEW slot \in {"empty", "ok", "err"}, NEW gen \in Nat,
           Settle(keys, slot, gen)
    PROVE  /\ pending' \in [Keys -> Reqs \cup {None}]
           /\ req' \in [Reqs -> Calls]
<1>1. pending \in [Keys -> Reqs \cup {None}] /\ req \in [Reqs -> Calls]
  BY Zenon DEF RequestType
<1>2. pending' \in [Keys -> Reqs \cup {None}]
  BY <1>1, Zenon DEF Settle
<1>3. \A r \in Reqs : [req[r] EXCEPT !.slot = slot, !.by = gen] \in Calls
  BY <1>1, AnswerType, Zenon
<1>4. req' \in [Reqs -> Calls]
  BY <1>1, <1>3, Zenon DEF Settle
<1> QED
  BY <1>2, <1>4, Zenon

\* The router only ever holds a message that was queued or a fault.
LEMMA WireBodies ==
    ASSUME routerMsg \in Messages, routerMsg.body.kind # "fault"
    PROVE  routerMsg.body \in Wire /\ routerMsg.gen \in Nat
BY DEF Messages, FaultBody

\* Registering a call, or removing one, keeps pending_callbacks well typed.
LEMMA RegisterType ==
    ASSUME NEW table \in [Keys -> Reqs \cup {None}], NEW key, NEW r \in Reqs \cup {None}
    PROVE  [table EXCEPT ![key] = r] \in [Keys -> Reqs \cup {None}]
BY Zenon

\* Dropping the chunks of a key keeps chunk_data_storage well typed.
LEMMA DropChunksType ==
    ASSUME NEW table \in [Keys -> Nat], NEW key
    PROVE  [table EXCEPT ![key] = 0] \in [Keys -> Nat]
BY Zenon

\* try_new_with_spawner and RtcEngine::new establish the types.
LEMMA InitType == Init => TypeOK
<1> SUFFICES ASSUME Init PROVE TypeOK
  BY Zenon
<1>1. TransportTypeOK
  BY DEF Init, TransportInit, TransportTypeOK, ReadyStates, Messages
<1>2. routerMsg \in Messages
  BY Zenon DEF Init, NoMessage, Messages
<1>3. RequestType
  BY Zenon DEF Init, RequestType, NoCall, Calls
<1>4. LinkType
  BY Zenon DEF Init, LinkType
<1>5. EventType
  BY DEF Init, EventType
<1>6. HeartbeatType
  BY Zenon DEF Init, HeartbeatType
<1>7. PcType
  BY Zenon DEF Init, PcType, StopSteps, RouterSteps, TaskSteps
<1> QED
  BY <1>1, <1>2, <1>3, <1>4, <1>5, <1>6, <1>7, TypeParts, Zenon

\* Accepting or refusing a command keeps the command queue well typed.
LEMMA SendType ==
    ASSUME commands \in Seq(Nat), NEW origin \in Nat, NEW accepted \in BOOLEAN,
           SendText(origin, accepted)
    PROVE  commands' \in Seq(Nat)
BY DEF SendText

\* dispatch_subscription queues at most an event of a subscribed topic.
LEMMA DispatchType ==
    ASSUME EventType, session \in Nat, NEW topic, DispatchSubscription(topic)
    PROVE  events' \in Seq([topic : Topics, gen : Nat])
<1> DEFINE Event == [topic : Topics, gen : Nat]
<1>1. CASE UNCHANGED events
  BY <1>1, Zenon DEF EventType
<1>2. CASE topic \in subs /\ events' = Append(events, [topic |-> topic, gen |-> session])
  <2>1. [topic |-> topic, gen |-> session] \in Event
    BY <1>2, Zenon DEF EventType
  <2>2. events \in Seq(Event)
    BY Zenon DEF EventType
  <2> HIDE DEF Event
  <2>3. Append(events, [topic |-> topic, gen |-> session]) \in Seq(Event)
    BY <2>1, <2>2
  <2> QED
    BY <2>3, <1>2, Zenon DEF Event
<1> QED
  BY <1>1, <1>2, Zenon DEF DispatchSubscription

\* The steps of stop_background_tasks and start_new_session.
LEMMA StopType ==
    ASSUME TypeOK, NEW a \in Actors, StopStep(a)
    PROVE  TypeOK'
<1> USE DEF TypeOK, Goto, StopSteps, RouterSteps, TaskSteps
<1>1. CASE StopRunning(a)
  <2>1. PcType'
    BY <1>1, Zenon DEF StopRunning, PcType
  <2>2. LinkType'
    BY <1>1, Zenon DEF StopRunning, LinkType
  <2> QED
    BY <1>1, <2>1, <2>2, Zenon DEF StopRunning, LinkType, PcType, TransportTypeOK
<1>2. CASE StopSender(a)
  BY <1>2 DEF StopSender, TransportTypeOK
<1>3. CASE StopProbe(a)
  <2>1. PcType'
    BY <1>3, Zenon DEF StopProbe, PcType
  <2>2. LinkType'
    BY <1>3, Zenon DEF StopProbe, LinkType
  <2> QED
    BY <1>3, <2>1, <2>2, Zenon DEF StopProbe, LinkType, PcType, TransportTypeOK
<1>4. CASE StopOpened(a)
  <2>1. PcType'
    BY <1>4, Zenon DEF StopOpened, PcType
  <2>2. LinkType'
    BY <1>4, Zenon DEF StopOpened, LinkType
  <2> QED
    BY <1>4, <2>1, <2>2, Zenon DEF StopOpened, LinkType, PcType, TransportTypeOK
<1>5. CASE NewSession(a)
  BY <1>5 DEF NewSession, TransportTypeOK
<1>6. CASE PublishGeneration(a) \/ CloseOldPeer(a)
  <2>1. PICK step \in StopSteps : Goto(a, step)
    BY <1>6, Zenon DEF PublishGeneration, CloseOldPeer
  <2>2. PcType'
    BY <1>6, <2>1, Zenon DEF PublishGeneration, CloseOldPeer, PcType
  <2>3. TransportTypeOK'
    <3>1. CASE SwapGeneration(session)
      BY <3>1, Zenon DEF SwapGeneration, TransportTypeOK
    <3>2. CASE CloseReady
      BY <3>2, Zenon DEF CloseReady, TransportTypeOK, ReadyStates
    <3> QED
      BY <1>6, <3>1, <3>2, Zenon DEF PublishGeneration, CloseOldPeer
  <2>4. UNCHANGED <<sessionVars, linkVars, requestVars, eventVars, hb, routerMsg, resume>>
    BY <1>6, Zenon DEF PublishGeneration, CloseOldPeer
  <2> QED
    BY <2>2, <2>3, <2>4, Zenon DEF PcType
<1>7. CASE ResetSession(a)
  <2>1. RequestType'
    BY <1>7, SettleType, Zenon DEF RequestType, ResetSession, ClearSession, FailAllPending
  <2> QED
    BY <1>7, <2>1, Zenon DEF ResetSession, ClearSession, StopHeartbeat, TransportTypeOK, RequestType
<1> QED
  BY <1>1, <1>2, <1>3, <1>4, <1>5, <1>6, <1>7, Zenon DEF StopStep

\* The steps of the session task.
LEMMA TaskType ==
    ASSUME TypeOK, TaskStep \/ OwnerDrop
    PROVE  TypeOK'
<1> USE DEF TypeOK, Goto, StopSteps, RouterSteps, TaskSteps
<1>1. CASE StartReset
  BY <1>1 DEF StartReset, TransportTypeOK
<1>2. CASE PrepareIngress
  BY <1>2 DEF PrepareIngress, SetIngressGeneration, TransportTypeOK, ReadyStates
<1>3. CASE ConnectPeer
  BY <1>3 DEF ConnectPeer, PrepareOffer, TransportTypeOK, ReadyStates
<1>4. CASE Rollback
  BY <1>4 DEF Rollback, Close, TransportTypeOK, ReadyStates
<1>5. CASE OwnerDrop
  <2>1. LinkType'
    BY <1>5, Zenon DEF OwnerDrop, LinkType
  <2>2. UNCHANGED <<transportVars, requestVars, eventVars, threadVars>>
    BY <1>5, Zenon DEF OwnerDrop
  <2> QED
    BY <2>1, <2>2, Zenon DEF LinkType, TransportTypeOK
<1> QED
  BY <1>1, <1>2, <1>3, <1>4, <1>5, Zenon DEF TaskStep

\* The calls and the subscriptions of applications.
LEMMA ClientType ==
    ASSUME TypeOK,
           \/ \E r \in Reqs : \/ \E key \in Keys : Publish(r, key)
                              \/ PublishReturns(r)
                              \/ GuardDrop(r)
           \/ \E topic \in Topics : Subscribe(topic) \/ Unsubscribe(topic)
           \/ PublishWithoutCallback \/ SwitchChannel
           \/ TakeEvent
    PROVE  TypeOK'
<1> USE DEF TypeOK, Goto, StopSteps, RouterSteps, TaskSteps
<1>0. ASSUME NEW c \in Calls, NEW step \in {"idle", "waiting", "dropping", "done"}
      PROVE  [c EXCEPT !.pc = step] \in Calls
  BY <1>0, Zenon DEF Calls
<1>1. ASSUME NEW r \in Reqs, NEW key \in Keys, Publish(r, key)
      PROVE  TypeOK'
  <2>1. [pc |-> "waiting", key |-> key, session |-> session, slot |-> "empty", by |-> 0] \in Calls
    BY Zenon DEF Calls
  <2>2. [req[r] EXCEPT !.pc = "done"] \in Calls
    BY <1>0, Zenon
  <2>3. req' \in [Reqs -> Calls]
    BY <1>1, <2>1, <2>2, Zenon DEF Publish
  <2>a. pending' = pending \/ pending' = [pending EXCEPT ![key] = r]
    BY <1>1, Zenon DEF Publish
  <2>b. chunks' = chunks \/ chunks' = [chunks EXCEPT ![key] = 0]
    BY <1>1, Zenon DEF Publish
  <2>c. pending' \in [Keys -> Reqs \cup {None}]
    <3>1. pending \in [Keys -> Reqs \cup {None}] /\ r \in Reqs \cup {None}
      BY Zenon
    <3>2. [pending EXCEPT ![key] = r] \in [Keys -> Reqs \cup {None}]
      BY <3>1, RegisterType, Zenon
    <3> QED
      BY <2>a, <3>1, <3>2, Zenon
  <2>4. chunks' \in [Keys -> Nat]
    <3>1. chunks \in [Keys -> Nat]
      BY Zenon
    <3>2. [chunks EXCEPT ![key] = 0] \in [Keys -> Nat]
      BY <3>1, DropChunksType, Zenon
    <3> QED
      BY <2>b, <3>1, <3>2, Zenon
  <2>5. commands' \in Seq(Nat)
    BY <1>1, SendType, Zenon DEF SendMessage, Publish, TransportTypeOK
  <2>6. UNCHANGED <<ingressGen, ready, peerGen, fault, ingress, inflight, worker,
                    sessionVars, linkVars, eventVars, threadVars>>
    BY <1>1, Zenon DEF Publish
  <2> QED
    BY <2>3, <2>c, <2>4, <2>5, <2>6 DEF TransportTypeOK
<1>2. ASSUME NEW r \in Reqs, PublishReturns(r)
      PROVE  TypeOK'
  <2>1. req' \in [Reqs -> Calls]
    BY <1>0, <1>2, Zenon DEF PublishReturns
  <2>2. UNCHANGED <<transportVars, sessionVars, linkVars, pending, chunks, eventVars, threadVars>>
    BY <1>2, Zenon DEF PublishReturns
  <2> QED
    BY <2>1, <2>2 DEF TransportTypeOK
<1>3. ASSUME NEW r \in Reqs, GuardDrop(r)
      PROVE  TypeOK'
  <2>1. [NoCall EXCEPT !.pc = "done"] \in Calls
    BY Zenon DEF NoCall, Calls
  <2>2. req' \in [Reqs -> Calls]
    BY <1>3, <2>1, Zenon DEF GuardDrop
  <2>3. pending' \in [Keys -> Reqs \cup {None}]
    <3>1. pending \in [Keys -> Reqs \cup {None}] /\ None \in Reqs \cup {None}
      BY Zenon
    <3>2. pending' = pending \/ pending' = [pending EXCEPT ![req[r].key] = None]
      BY <1>3, Zenon DEF GuardDrop
    <3>3. [pending EXCEPT ![req[r].key] = None] \in [Keys -> Reqs \cup {None}]
      BY <3>1, RegisterType, Zenon
    <3> QED
      BY <3>1, <3>2, <3>3, Zenon
  <2>a. chunks' \in [Keys -> Nat]
    <3>1. chunks \in [Keys -> Nat]
      BY Zenon
    <3>2. chunks' = chunks \/ chunks' = [chunks EXCEPT ![req[r].key] = 0]
      BY <1>3, Zenon DEF GuardDrop
    <3>3. [chunks EXCEPT ![req[r].key] = 0] \in [Keys -> Nat]
      BY <3>1, DropChunksType, Zenon
    <3> QED
      BY <3>1, <3>2, <3>3, Zenon
  <2>4. UNCHANGED <<transportVars, sessionVars, linkVars, eventVars, threadVars>>
    BY <1>3, Zenon DEF GuardDrop
  <2> QED
    BY <2>2, <2>3, <2>a, <2>4 DEF TransportTypeOK
<1>4. ASSUME NEW topic \in Topics, Subscribe(topic) \/ Unsubscribe(topic)
      PROVE  TypeOK'
  <2>1. commands' \in Seq(Nat)
    BY <1>4, SendType, Zenon DEF SendMessage, Subscribe, Unsubscribe, TransportTypeOK
  <2>2. EventType'
    BY <1>4, Zenon DEF Subscribe, Unsubscribe, EventType
  <2>3. UNCHANGED <<ingressGen, ready, peerGen, fault, ingress, inflight, worker,
                    sessionVars, linkVars, requestVars, threadVars>>
    BY <1>4, Zenon DEF Subscribe, Unsubscribe
  <2> QED
    BY <2>1, <2>2, <2>3 DEF EventType, TransportTypeOK
<1>5. CASE TakeEvent
  <2>1. EventType'
    BY <1>5 DEF TakeEvent, EventType
  <2> QED
    BY <1>5, <2>1 DEF TakeEvent, EventType, TransportTypeOK
<1>6. CASE PublishWithoutCallback
  <2>1. commands' \in Seq(Nat)
    BY <1>6, SendType, Zenon DEF SendMessage, PublishWithoutCallback, TransportTypeOK
  <2>2. UNCHANGED <<ingressGen, ready, peerGen, fault, ingress, inflight, worker,
                    sessionVars, linkVars, requestVars, eventVars, threadVars>>
    BY <1>6, Zenon DEF PublishWithoutCallback
  <2> QED
    BY <2>1, <2>2 DEF TransportTypeOK
<1> QED
  BY <1>1, <1>2, <1>3, <1>4, <1>5, <1>6, Zenon DEF SwitchChannel

\* The steps of a heartbeat thread.
LEMMA HeartbeatStepType ==
    ASSUME TypeOK, NEW h \in Heartbeats, HeartbeatStep(h)
    PROVE  TypeOK'
<1> USE DEF TypeOK
<1>1. CASE HeartbeatCheck(h)
  <2>1. HeartbeatType'
    BY <1>1 DEF HeartbeatCheck, HeartbeatType
  <2>2. UNCHANGED <<transportVars, sessionVars, linkVars, requestVars, eventVars,
                    routerMsg, resume, pc>>
    BY <1>1, Zenon DEF HeartbeatCheck
  <2> QED
    BY <2>1, <2>2 DEF HeartbeatType, TransportTypeOK
<1>2. CASE HeartbeatLeave(h)
  <2>1. HeartbeatType'
    BY <1>2, Zenon DEF HeartbeatLeave, HeartbeatType
  <2>2. UNCHANGED <<transportVars, sessionVars, linkVars, requestVars, eventVars,
                    routerMsg, resume, pc>>
    BY <1>2, Zenon DEF HeartbeatLeave
  <2> QED
    BY <2>1, <2>2 DEF HeartbeatType, TransportTypeOK
<1>3. CASE HeartbeatTimeout(h)
  <2>1. RequestType'
    BY <1>3, SettleType, Zenon DEF RequestType, HeartbeatTimeout, FailAllPending
  <2>2. LinkType'
    BY <1>3, Zenon DEF HeartbeatTimeout, StopHeartbeat, LinkType
  <2>3. HeartbeatType'
    BY <1>3, Zenon DEF HeartbeatTimeout, HeartbeatType
  <2>4. UNCHANGED <<transportVars, eventVars, routerMsg, resume, pc>>
    BY <1>3, Zenon DEF HeartbeatTimeout
  <2> QED
    BY <2>1, <2>2, <2>3, <2>4, Zenon DEF LinkType, RequestType, HeartbeatType, TransportTypeOK
<1>4. CASE HeartbeatSend(h)
  <2>1. commands' \in Seq(Nat)
    BY <1>4, SendType, Zenon DEF HeartbeatSend, TransportTypeOK
  <2>2. HeartbeatType'
    BY <1>4, Zenon DEF HeartbeatSend, HeartbeatType
  <2>3. UNCHANGED <<ingressGen, ready, peerGen, fault, ingress, inflight, worker, sessionVars,
                    linkVars, requestVars, eventVars, routerMsg, resume, pc>>
    BY <1>4, Zenon DEF HeartbeatSend
  <2> QED
    BY <2>1, <2>2, <2>3 DEF HeartbeatType, TransportTypeOK
<1>5. CASE HeartbeatWait(h)
  <2>1. HeartbeatType'
    BY <1>5, ZenonT(60) DEF HeartbeatWait, HeartbeatType
  <2>2. UNCHANGED <<transportVars, sessionVars, linkVars, requestVars, eventVars,
                    routerMsg, resume, pc>>
    BY <1>5, Zenon DEF HeartbeatWait
  <2> QED
    BY <2>1, <2>2 DEF HeartbeatType, TransportTypeOK
<1> QED
  BY <1>1, <1>2, <1>3, <1>4, <1>5, Zenon DEF HeartbeatStep

\* The webrtc callbacks, the message handlers and the command task.
LEMMA TransportType ==
    ASSUME TypeOK, TransportStep
    PROVE  TypeOK'
<1> USE DEF TypeOK, TransportTypeOK
<1> SUFFICES TransportTypeOK'
  <2>1. UNCHANGED <<sessionVars, linkVars, requestVars, eventVars, threadVars>>
    BY Zenon DEF TransportStep, RecordFault
  <2> QED
    BY <2>1, Zenon
<1>1. ASSUME NEW e \in PeerEvents, PeerEvent(e)
      PROVE  TransportTypeOK'
  <2>1. ApplyEvent(ready, e) \in ReadyStates
    BY Zenon DEF ApplyEvent, ReadyStates, Terminal
  <2> QED
    BY <1>1, <2>1, Zenon DEF PeerEvent
<1>2. ASSUME NEW m \in Messages, TryEnqueue(m)
      PROVE  ingress' \in Seq(Messages)
  <2> HIDE DEF Messages
  <2> QED
    BY <1>2 DEF TryEnqueue
<1>3. ASSUME NEW b \in Wire, HandlerAdmit(b)
      PROVE  TransportTypeOK'
  <2>1. [gen |-> peerGen, body |-> b] \in Messages
    BY Zenon DEF Messages
  <2> QED
    BY <1>3, <2>1, Zenon DEF HandlerAdmit
<1>4. ASSUME NEW m \in inflight, HandlerEnqueue(m)
      PROVE  TransportTypeOK'
  BY <1>2, <1>4, Zenon DEF HandlerEnqueue
<1>5. CASE WorkerStep
  <2>1. commands' \in {<<>>, Tail(commands)}
    BY <1>5, Zenon DEF WorkerStep
  <2>2. commands' \in Seq(Nat)
    BY <1>5, <2>1 DEF WorkerStep
  <2>3. worker' \in {"none", "running", "failed", "done"}
    BY <1>5, Zenon DEF WorkerStep
  <2> QED
    BY <1>5, <2>2, <2>3, Zenon DEF WorkerStep
<1>6. CASE RecordTransportFault
  <2>1. [gen |-> peerGen, body |-> FaultBody] \in Messages
    BY Zenon DEF Messages
  <2>2. ingress' \in Seq(Messages)
    BY <1>2, <1>6, <2>1, Zenon DEF RecordTransportFault
  <2> QED
    BY <1>6, <2>2, Zenon DEF RecordTransportFault, RetainFault, ReadyStates
<1> QED
  BY <1>1, <1>3, <1>4, <1>5, <1>6, Zenon DEF TransportStep, RecordFault

\* process_ingress returns to the loop with no message in hand.
LEMMA ReturnType ==
    ASSUME PcType, Return
    PROVE  PcType' /\ routerMsg' \in Messages
BY Zenon DEF PcType, Return, Goto, NoMessage, Messages, StopSteps, RouterSteps, TaskSteps

\* Answering the call registered under a key.
LEMMA ResolveType ==
    ASSUME RequestType, session \in Nat, routerMsg.gen \in Nat, NEW key, NEW ok,
           ResolvePendingResponse(key, ok) \/ FailPending(key)
    PROVE  pending' \in [Keys -> Reqs \cup {None}] /\ req' \in [Reqs -> Calls]
<1>1. CASE Settle({key}, "ok", routerMsg.gen)
  BY <1>1, SettleType, Zenon
<1>2. CASE FailPending(key)
  BY <1>2, SettleType, Zenon DEF FailPending
<1> QED
  BY <1>1, <1>2, Zenon DEF ResolvePendingResponse

\* The router's steps that handle one message with the epoch unchanged.
LEMMA ProcessType ==
    ASSUME TypeOK, ProcessStale \/ ProcessText \/ ProcessChunk \/ ProcessBinary
    PROVE  TypeOK'
<1> DEFINE b == routerMsg.body
<1>1. /\ TransportTypeOK /\ LinkType /\ RequestType /\ EventType /\ HeartbeatType
      /\ routerMsg \in Messages /\ PcType
  BY TypeParts, Zenon
<1> USE <1>1
<1>2. PcType' /\ routerMsg' \in Messages
  BY ReturnType, Zenon DEF ProcessStale, ProcessText, ProcessChunk, ProcessBinary
<1>3. session \in Nat /\ routerMsg.gen \in Nat
  BY Zenon DEF LinkType, Messages
<1>4. CASE ProcessStale
  <2>1. UNCHANGED <<transportVars, sessionVars, linkVars, requestVars, eventVars, hb>>
    BY <1>4, Zenon DEF ProcessStale
  <2> QED
    BY <1>2, <2>1 DEF TypeOK, TransportTypeOK, PcType
<1>5. CASE ProcessText
  <2>1. pending' \in [Keys -> Reqs \cup {None}] /\ req' \in [Reqs -> Calls] /\ chunks' = chunks
    BY <1>3, <1>5, ResolveType, Zenon DEF ProcessText
  <2>2. RequestType'
    BY <2>1, Zenon DEF RequestType
  <2>3. commands' \in Seq(Nat)
    BY <1>3, <1>5, SendType, Zenon DEF SendMessage, ProcessText, TransportTypeOK
  <2>4. EventType'
    BY <1>3, <1>5, DispatchType, Zenon DEF ProcessText, EventType
  <2>5. /\ UNCHANGED <<ingressGen, ready, peerGen, fault, ingress, inflight, worker>>
        /\ UNCHANGED hb
    BY <1>5, Zenon DEF ProcessText
  <2>6. LinkType'
    <3>1. UNCHANGED <<sessionVars, opened, hbRunning, stopTx, validEpoch>>
      BY <1>5, Zenon DEF ProcessText
    <3>2. probe' = FALSE \/ probe' = probe
      BY <1>5, Zenon DEF ProcessText
    <3>3. validationKey' = session \/ validationKey' = validationKey
      BY <1>5, Zenon DEF ProcessText
    <3>4. lastResponse' = "recent" \/ lastResponse' = lastResponse
      BY <1>5, Zenon DEF ProcessText
    <3> QED
      BY <3>1, <3>2, <3>3, <3>4, Zenon DEF LinkType
  <2> QED
    BY <1>2, <2>2, <2>3, <2>4, <2>5, <2>6, Zenon
       DEF TypeOK, LinkType, RequestType, EventType, TransportTypeOK, HeartbeatType, PcType
<1>6. CASE ProcessChunk
  <2>1. b \in Wire /\ b.key \in Keys
    BY <1>6, WireBodies, WireAssumption, Zenon DEF ProcessChunk, Processing
  <2>2. pending' \in [Keys -> Reqs \cup {None}] /\ req' \in [Reqs -> Calls]
    <3>1. CASE UNCHANGED <<pending, req>>
      BY <3>1, Zenon DEF RequestType
    <3>2. CASE ResolvePendingResponse(b.key, b.ok) \/ FailPending(b.key)
      BY <1>3, <3>2, ResolveType, Zenon
    <3> QED
      BY <1>6, <3>1, <3>2, Zenon DEF ProcessChunk
  <2>3. chunks' \in [Keys -> Nat]
    BY <1>3, <1>6, <2>1, Zenon DEF ProcessChunk, RequestType
  <2>4. EventType'
    BY <1>3, <1>6, DispatchType, ZenonT(60) DEF ProcessChunk, EventType
  <2>5. UNCHANGED <<transportVars, sessionVars, linkVars, hb>>
    BY <1>6, Zenon DEF ProcessChunk
  <2> QED
    BY <1>2, <2>2, <2>3, <2>4, <2>5
       DEF TypeOK, LinkType, EventType, TransportTypeOK, HeartbeatType, PcType
<1>7. CASE ProcessBinary
  <2>1. b \in Wire /\ b.key \in Keys
    BY <1>7, WireBodies, WireAssumption, Zenon DEF ProcessBinary, Processing
  <2>2. pending' \in [Keys -> Reqs \cup {None}] /\ req' \in [Reqs -> Calls]
    <3>1. CASE UNCHANGED <<pending, req>>
      BY <3>1, Zenon DEF RequestType
    <3>2. CASE FailPending(b.key)
      BY <1>3, <3>2, ResolveType, Zenon
    <3> QED
      BY <1>7, <3>1, <3>2, Zenon DEF ProcessBinary
  <2>3. chunks' \in [Keys -> Nat]
    BY <1>7, <2>1, Zenon DEF ProcessBinary, RequestType
  <2>4. UNCHANGED <<transportVars, sessionVars, linkVars, eventVars, hb>>
    BY <1>7, Zenon DEF ProcessBinary
  <2> QED
    BY <1>2, <2>2, <2>3, <2>4
       DEF TypeOK, LinkType, EventType, TransportTypeOK, HeartbeatType, PcType
<1> QED
  BY <1>4, <1>5, <1>6, <1>7, Zenon

\* The router's loop, the end of an epoch by a fault, and "Validation Ok.".
LEMMA RouterType ==
    ASSUME TypeOK, RouterStep
    PROVE  TypeOK'
<1>1. /\ TransportTypeOK /\ LinkType /\ RequestType /\ EventType /\ HeartbeatType
      /\ routerMsg \in Messages /\ PcType
  BY TypeParts, Zenon
<1> USE <1>1
<1>2. session \in Nat /\ routerMsg.gen \in Nat
  BY Zenon DEF LinkType, Messages
<1> USE DEF Goto, StopSteps, RouterSteps, TaskSteps
<1>3. CASE TakeFault
  <2>1. [gen |-> fault, body |-> FaultBody] \in Messages
    BY Zenon DEF TransportTypeOK, Messages
  <2>2. PcType' /\ routerMsg' \in Messages
    BY <1>3, <2>1, Zenon DEF TakeFault, PcType
  <2>3. TransportTypeOK'
    BY <1>3 DEF TakeFault, TakeTransportError, TransportTypeOK
  <2>4. UNCHANGED <<sessionVars, linkVars, requestVars, eventVars, hb>>
    BY <1>3, Zenon DEF TakeFault
  <2> QED
    BY <2>2, <2>3, <2>4 DEF TypeOK, TransportTypeOK, PcType
<1>4. CASE ExpireChunks
  <2>1. PICK expired \in SUBSET Keys :
          /\ chunks' = [k \in Keys |-> IF k \in expired THEN 0 ELSE chunks[k]]
          /\ Settle(expired, "err", 0)
    BY <1>4, Zenon DEF ExpireChunks
  <2>2. RequestType'
    BY <2>1, SettleType, Zenon DEF RequestType
  <2>3. PcType'
    BY <1>4, Zenon DEF ExpireChunks, PcType
  <2>4. UNCHANGED <<transportVars, sessionVars, linkVars, eventVars, hb, routerMsg>>
    BY <1>4, Zenon DEF ExpireChunks
  <2> QED
    BY <2>2, <2>3, <2>4
       DEF TypeOK, TransportTypeOK, RequestType, LinkType, EventType, HeartbeatType, PcType
<1>5. CASE Receive
  <2>1. ingress' \in Seq(Messages) /\ routerMsg' \in Messages
    <3>1. ingress \in Seq(Messages)
      BY Zenon DEF TransportTypeOK
    <3>2. CASE ingress = <<>>
      BY <1>5, <3>1, <3>2, Zenon DEF Receive
    <3>3. CASE ingress # <<>>
      <4>1. Head(ingress) \in Messages /\ Tail(ingress) \in Seq(Messages)
        BY <3>1, <3>3
      <4> QED
        BY <1>5, <3>3, <4>1, Zenon DEF Receive
    <3> QED
      BY <3>2, <3>3, Zenon
  <2>2. PcType'
    BY <1>5, Zenon DEF Receive, PcType
  <2>3. UNCHANGED <<ingressGen, ready, peerGen, fault, inflight, commands, worker,
                    sessionVars, linkVars, requestVars, eventVars, hb>>
    BY <1>5, Zenon DEF Receive
  <2>4. TransportTypeOK'
    BY <2>1, <2>3, Zenon DEF TransportTypeOK
  <2> QED
    BY <2>1, <2>2, <2>3, <2>4
       DEF TypeOK, RequestType, LinkType, EventType, HeartbeatType, PcType
<1>6. CASE ProcessFault
  <2>1. PcType'
    BY <1>6, Zenon DEF ProcessFault, PcType
  <2>2. LinkType'
    BY <1>6 DEF ProcessFault, LinkType
  <2>3. UNCHANGED <<transportVars, requestVars, eventVars, hb, routerMsg>>
    BY <1>6, Zenon DEF ProcessFault
  <2> QED
    BY <2>1, <2>2, <2>3, Zenon DEF TypeOK, TransportTypeOK, LinkType, PcType
<1>7. CASE FaultGeneration \/ FaultCloseOldPeer
  <2>1. TransportTypeOK'
    <3>1. CASE SwapGeneration(session)
      BY <1>2, <3>1, Zenon DEF SwapGeneration, TransportTypeOK
    <3>2. CASE CloseReady
      BY <3>2, Zenon DEF CloseReady, TransportTypeOK, ReadyStates
    <3> QED
      BY <1>7, <3>1, <3>2, Zenon DEF FaultGeneration, FaultCloseOldPeer
  <2>2. PcType'
    BY <1>7, Zenon DEF FaultGeneration, FaultCloseOldPeer, PcType
  <2>3. UNCHANGED <<sessionVars, linkVars, requestVars, eventVars, hb, routerMsg, resume>>
    BY <1>7, Zenon DEF FaultGeneration, FaultCloseOldPeer
  <2> QED
    BY <2>1, <2>2, <2>3, Zenon DEF TypeOK, PcType
<1>8. CASE FaultClear
  <2>1. RequestType'
    BY <1>8, SettleType, Zenon DEF RequestType, FaultClear, ClearSession, FailAllPending
  <2>2. PcType' /\ routerMsg' \in Messages
    BY <1>8, ReturnType, Zenon DEF FaultClear
  <2>3. LinkType'
    <3>1. /\ UNCHANGED <<session, owner, lastResponse, validationKey, validEpoch>>
          /\ hbRunning' = FALSE /\ stopTx' = None /\ probe' = FALSE /\ opened' = FALSE
          /\ lock' = "free"
      BY <1>8, Zenon DEF FaultClear, ClearSession, StopHeartbeat
    <3> QED
      BY <3>1, Zenon DEF LinkType
  <2>4. UNCHANGED <<transportVars, eventVars, hb>>
    BY <1>8, Zenon DEF FaultClear
  <2> QED
    BY <2>1, <2>2, <2>3, <2>4, Zenon
       DEF TypeOK, TransportTypeOK, RequestType, LinkType, EventType, HeartbeatType, PcType
<1>9. CASE ValidationOk
  <2>1. RequestType'
    BY <1>2, <1>9, ResolveType, Zenon DEF RequestType, ValidationOk
  <2>2. PcType'
    BY <1>9, Zenon DEF ValidationOk, PcType
  <2>3. LinkType'
    <3>1. /\ UNCHANGED <<session, owner, hbRunning, stopTx, probe, validationKey>>
          /\ opened' = TRUE /\ lastResponse' = "recent" /\ validEpoch' = session
          /\ lock' = "router"
      BY <1>9, Zenon DEF ValidationOk
    <3> QED
      BY <3>1, Zenon DEF LinkType
  <2>4. UNCHANGED <<transportVars, eventVars, hb, routerMsg>>
    BY <1>9, Zenon DEF ValidationOk
  <2> QED
    BY <2>1, <2>2, <2>3, <2>4, Zenon
       DEF TypeOK, TransportTypeOK, RequestType, LinkType, EventType, HeartbeatType, PcType
<1>10. CASE StartHeartbeat
  <2>1. PcType'
    BY <1>10, Zenon DEF StartHeartbeat, PcType
  <2>2. LinkType'
    BY <1>10, Zenon DEF StartHeartbeat, LinkType
  <2>3. UNCHANGED <<transportVars, requestVars, eventVars, hb, routerMsg>>
    BY <1>10, Zenon DEF StartHeartbeat
  <2> QED
    BY <2>1, <2>2, <2>3, Zenon
       DEF TypeOK, TransportTypeOK, RequestType, LinkType, EventType, HeartbeatType, PcType
<1>11. ASSUME NEW h \in Heartbeats, SpawnHeartbeat(h)
       PROVE  TypeOK'
  <2>1. PcType' /\ HeartbeatType'
    BY <1>2, <1>11, Zenon DEF SpawnHeartbeat, PcType, HeartbeatType
  <2>2. LinkType'
    BY <1>11, Zenon DEF SpawnHeartbeat, LinkType
  <2>3. UNCHANGED <<transportVars, requestVars, eventVars, routerMsg>>
    BY <1>11, Zenon DEF SpawnHeartbeat
  <2> QED
    BY <2>1, <2>2, <2>3, Zenon
       DEF TypeOK, TransportTypeOK, RequestType, LinkType, EventType, HeartbeatType, PcType
<1>12. CASE RequestNetworkStatus
  <2>1. commands' \in Seq(Nat)
    BY <1>2, <1>12, SendType, Zenon DEF SendMessage, RequestNetworkStatus, TransportTypeOK
  <2>2. EventType'
    BY <1>2, <1>12, DispatchType, Zenon DEF RequestNetworkStatus, EventType
  <2>3. PcType' /\ routerMsg' \in Messages
    BY <1>12, ReturnType, Zenon DEF RequestNetworkStatus
  <2>4. LinkType'
    BY <1>12, Zenon DEF RequestNetworkStatus, LinkType
  <2>5. UNCHANGED <<ingressGen, ready, peerGen, fault, ingress, inflight, worker,
                    requestVars, hb>>
    BY <1>12, Zenon DEF RequestNetworkStatus
  <2> QED
    BY <2>1, <2>2, <2>3, <2>4, <2>5, Zenon
       DEF TypeOK, TransportTypeOK, RequestType, LinkType, EventType, HeartbeatType, PcType
<1> QED
  BY <1>3, <1>4, <1>5, <1>6, <1>7, <1>8, <1>9, <1>10, <1>11, <1>12, ProcessType, StopType,
     Zenon DEF RouterStep

\* No step of the system breaks a type.
LEMMA NextType == TypeOK /\ [Next]_vars => TypeOK'
<1> SUFFICES ASSUME TypeOK, [Next]_vars PROVE TypeOK'
  BY Zenon
<1>1. CASE SixSecondsPass
  <2>1. TransportTypeOK'
    BY <1>1, Zenon DEF SixSecondsPass, TypeOK, TransportTypeOK
  <2> QED
    BY <1>1, <2>1, Zenon DEF SixSecondsPass, TypeOK
<1>2. CASE UNCHANGED vars
  <2>1. TransportTypeOK'
    BY <1>2, Zenon DEF vars, TypeOK, TransportTypeOK
  <2> QED
    BY <1>2, <2>1 DEF vars, TypeOK
<1>3. CASE Terminated
  BY <1>2, <1>3, Zenon DEF Terminated
<1> QED
  BY <1>1, <1>2, <1>3, ClientType, StopType, TaskType, RouterType, HeartbeatStepType,
     TransportType, Zenon DEF Next

\* Every variable of the core and of its transport keeps its type: in
\* particular the slots of calls, the queues and the epochs, whatever messages
\* of Wire arrive and however the threads interleave.
THEOREM TypeCorrect == Spec => []TypeOK
BY InitType, NextType, PTL DEF Spec

-----------------------------------------------------------------------------
(* Requests.  The three properties support each other: a response is matched *)
(* with a call through the registered token, and the token tells the epoch   *)
(* of the call only while entries of older epochs cannot survive a reset.    *)

CallInv == WaitersAreRegistered /\ ResponseOfOwnEpoch

RequestInv == CallInv /\ RetainedStateIsCurrent

\* What a reset in progress hides from RetainedStateIsCurrent.
Retained ==
    \A k \in Keys : /\ pending[k] # None => req[pending[k]].session = session
                    /\ chunks[k] # 0 => chunks[k] = session

\* What Settle does to a call.
Settled(r, keys, slot, gen) ==
    /\ req'[r].pc = req[r].pc /\ req'[r].key = req[r].key
    /\ req'[r].session = req[r].session
    /\ IF req[r].key \in keys /\ pending[req[r].key] = r
       THEN req'[r].slot = slot /\ req'[r].by = gen
       ELSE req'[r].slot = req[r].slot /\ req'[r].by = req[r].by

\* Settle changes no call but those registered under the keys it settles.
LEMMA SettleEffect ==
    ASSUME TypeOK, NEW keys \in SUBSET Keys, NEW slot \in {"ok", "err"}, NEW gen \in Nat,
           Settle(keys, slot, gen), NEW r \in Reqs
    PROVE  Settled(r, keys, slot, gen)
<1>1. req[r] \in Calls
  BY Zenon DEF TypeOK
<1>2. req'[r] = IF req[r].key \in keys /\ pending[req[r].key] = r
               THEN [req[r] EXCEPT !.slot = slot, !.by = gen] ELSE req[r]
  BY Zenon DEF Settle
<1> QED
  BY <1>1, <1>2, Zenon DEF Calls, Settled

\* Settling calls loses none of them, and answers with "ok" only calls of the
\* epoch of the answer.
LEMMA SettleCalls ==
    ASSUME TypeOK, CallInv, NEW keys \in SUBSET Keys, NEW slot \in {"ok", "err"},
           NEW gen \in Nat, Settle(keys, slot, gen),
           slot = "ok" => \A k \in keys : pending[k] # None => req[pending[k]].session = gen
    PROVE  CallInv'
<1>1. \A k \in Keys : pending'[k] = IF k \in keys THEN None ELSE pending[k]
  BY Zenon DEF Settle
<1>2. \A r \in Reqs : Settled(r, keys, slot, gen)
  BY SettleEffect, Zenon
<1>3. \A k \in Keys : pending[k] \in Reqs \cup {None}
  BY Zenon DEF TypeOK
<1>4. WaitersAreRegistered'
  <2>1. ASSUME NEW k \in Keys, pending'[k] # None
        PROVE  /\ req'[pending'[k]].pc \in {"waiting", "dropping"}
               /\ req'[pending'[k]].key = k
               /\ req'[pending'[k]].slot = "empty"
    <3>1. k \notin keys /\ pending'[k] = pending[k] /\ pending[k] \in Reqs
      BY <1>1, <1>3, <2>1, Zenon
    <3>2. /\ req[pending[k]].key = k /\ req[pending[k]].slot = "empty"
          /\ req[pending[k]].pc \in {"waiting", "dropping"}
      BY <3>1, <2>1, Zenon DEF CallInv, WaitersAreRegistered
    <3> QED
      BY <1>2, <3>1, <3>2 DEF Settled
  <2>2. ASSUME NEW r \in Reqs, req'[r].pc = "waiting", req'[r].slot = "empty"
        PROVE  req'[r].key \in Keys /\ pending'[req'[r].key] = r
    <3>1. ~(req[r].key \in keys /\ pending[req[r].key] = r)
      BY <1>2, <2>2, Zenon DEF Settled
    <3>2. req[r].key \in Keys /\ pending[req[r].key] = r
      BY <1>2, <2>2, <3>1 DEF Settled, CallInv, WaitersAreRegistered
    <3> QED
      BY <1>1, <1>2, <3>1, <3>2 DEF Settled
  <2> QED
    BY <2>1, <2>2, Zenon DEF WaitersAreRegistered
<1>5. ResponseOfOwnEpoch'
  <2> SUFFICES ASSUME NEW r \in Reqs, req'[r].slot = "ok"
               PROVE  req'[r].by = req'[r].session
    BY Zenon DEF ResponseOfOwnEpoch
  <2>1. CASE req[r].key \in keys /\ pending[req[r].key] = r
    BY <1>2, <2>1, NoneAssumption DEF Settled
  <2>2. CASE ~(req[r].key \in keys /\ pending[req[r].key] = r)
    BY <1>2, <2>2 DEF Settled, CallInv, ResponseOfOwnEpoch
  <2> QED
    BY <2>1, <2>2, Zenon
<1> QED
  BY <1>4, <1>5, Zenon DEF CallInv

\* What is retained of the current epoch stays so when calls are settled and
\* chunks are dropped, or kept with the current epoch.
LEMMA SettleRetained ==
    ASSUME TypeOK, Retained, NEW keys \in SUBSET Keys, NEW slot \in {"ok", "err"},
           NEW gen \in Nat, Settle(keys, slot, gen), session' = session,
           \A k \in Keys : chunks'[k] \in {0, session, chunks[k]}
    PROVE  Retained'
<1>1. \A k \in Keys : pending'[k] = None \/ (pending'[k] = pending[k] /\ pending[k] \in Reqs)
  BY Zenon DEF Settle, TypeOK
<1>2. \A r \in Reqs : req'[r].session = req[r].session
  BY SettleEffect DEF Settled
<1> QED
  BY <1>1, <1>2 DEF Retained

\* A reset that settles everything and drops all chunks leaves nothing behind.
LEMMA ClearRetained ==
    ASSUME FailAllPending, chunks' = [k \in Keys |-> 0]
    PROVE  Retained'
BY Zenon DEF FailAllPending, Settle, Retained

\* Steps that touch neither calls nor chunks nor the epoch, and end no reset.
LEMMA FrameRequests ==
    ASSUME RequestInv, UNCHANGED <<session, pending, req, chunks>>, InReset => InReset'
    PROVE  RequestInv'
BY Zenon DEF RequestInv, CallInv, WaitersAreRegistered, ResponseOfOwnEpoch, RetainedStateIsCurrent

\* A step that only settles calls and drops chunks preserves the invariant.
LEMMA SettleRequests ==
    ASSUME TypeOK, RequestInv, NEW keys \in SUBSET Keys, NEW slot \in {"ok", "err"},
           NEW gen \in Nat, Settle(keys, slot, gen),
           slot = "ok" => \A k \in keys : pending[k] # None => req[pending[k]].session = gen,
           session' = session, \A k \in Keys : chunks'[k] \in {0, session, chunks[k]},
           InReset => InReset'
    PROVE  RequestInv'
<1>1. CallInv'
  BY SettleCalls, Zenon DEF RequestInv
<1>2. ~InReset => Retained
  BY Zenon DEF RequestInv, RetainedStateIsCurrent, Retained
<1>3. ~InReset => Retained'
  BY <1>2, SettleRetained, Zenon
<1> QED
  BY <1>1, <1>3, Zenon DEF RequestInv, RetainedStateIsCurrent, Retained

\* Only the steps that clear the session leave a reset.
LEMMA GotoInReset ==
    ASSUME TypeOK, NEW a \in Actors, NEW step, Goto(a, step),
           pc[a] \notin {"bumped", "swapped", "clearing", "faultBumped", "faultSwapped", "faultClearing"}
    PROVE  InReset => InReset'
BY Zenon DEF TypeOK, Goto, InReset

\* The end of a reset, by the session task, the router or a fault.
LEMMA ClearRequests ==
    ASSUME TypeOK, RequestInv, ClearSession
    PROVE  RequestInv'
<1>1. Settle(Keys, "err", 0) /\ chunks' = [k \in Keys |-> 0]
  BY Zenon DEF ClearSession, FailAllPending
<1>2. CallInv'
  BY <1>1, SettleCalls, Zenon DEF RequestInv
<1>3. Retained'
  BY <1>1, ClearRetained, Zenon DEF FailAllPending
<1> QED
  BY <1>2, <1>3, Zenon DEF RequestInv, RetainedStateIsCurrent, Retained

\* stop_background_tasks and start_new_session preserve the invariant.
LEMMA StopRequests ==
    ASSUME TypeOK, RequestInv, NEW a \in Actors, StopStep(a)
    PROVE  RequestInv'
<1>1. CASE StopRunning(a) \/ StopSender(a) \/ StopProbe(a) \/ StopOpened(a)
  <2>1. PICK step : Goto(a, step)
    BY <1>1, Zenon DEF StopRunning, StopSender, StopProbe, StopOpened
  <2>2. pc[a] \in {"stop0", "stop1", "stop2", "stop3"}
    BY <1>1, Zenon DEF StopRunning, StopSender, StopProbe, StopOpened
  <2>3. UNCHANGED <<session, pending, req, chunks>>
    BY <1>1, Zenon DEF StopRunning, StopSender, StopProbe, StopOpened
  <2> QED
    BY <2>1, <2>2, <2>3, GotoInReset, FrameRequests, Zenon
<1>2. CASE NewSession(a)
  <2>1. InReset'
    BY <1>2, Zenon DEF NewSession, Goto, InReset, TypeOK
  <2> QED
    BY <1>2, <2>1, Zenon DEF NewSession, RequestInv, CallInv, WaitersAreRegistered,
                      ResponseOfOwnEpoch, RetainedStateIsCurrent
<1>3. CASE PublishGeneration(a) \/ CloseOldPeer(a)
  <2>1. InReset'
    BY <1>3, Zenon DEF PublishGeneration, CloseOldPeer, Goto, InReset, TypeOK
  <2> QED
    BY <1>3, <2>1, FrameRequests, Zenon DEF PublishGeneration, CloseOldPeer
<1>4. CASE ResetSession(a)
  BY <1>4, ClearRequests, Zenon DEF ResetSession
<1> QED
  BY <1>1, <1>2, <1>3, <1>4, Zenon DEF StopStep

\* connect_validated_session and disconnect_session preserve the invariant.
LEMMA TaskRequests ==
    ASSUME TypeOK, RequestInv, TaskStep \/ OwnerDrop
    PROVE  RequestInv'
<1>1. UNCHANGED <<session, pending, req, chunks>>
  BY Zenon DEF TaskStep, OwnerDrop, StartReset, PrepareIngress, ConnectPeer, Rollback
<1>2. CASE TaskStep
  <2>1. PICK step : Goto("task", step)
    BY <1>2, Zenon DEF TaskStep, StartReset, PrepareIngress, ConnectPeer, Rollback
  <2>2. pc["task"] \in {"idle", "reset", "prepared"}
    BY <1>2, Zenon DEF TaskStep, StartReset, PrepareIngress, ConnectPeer, Rollback
  <2> QED
    BY <1>1, <2>1, <2>2, GotoInReset, FrameRequests, Zenon
<1>3. CASE OwnerDrop
  <2>1. pc' = pc
    BY <1>3, Zenon DEF OwnerDrop
  <2> QED
    BY <1>1, <2>1, FrameRequests, Zenon DEF InReset
<1> QED
  BY <1>2, <1>3, Zenon

\* What a step of one call needs to keep: other calls and their entries stay, and the
\* call's own entry matches what it waits for.
OneCall(r) ==
    /\ \A q \in Reqs : q # r => req'[q] = req[q]
    /\ \A k \in Keys : \/ pending'[k] = pending[k]
                       \/ pending[k] \in {None, r} /\ pending'[k] \in {None, r}
    /\ \A k \in Keys : chunks'[k] \in {0, chunks[k]}
    /\ \A k \in Keys : pending'[k] = r =>
         /\ req'[r].pc \in {"waiting", "dropping"} /\ req'[r].key = k /\ req'[r].slot = "empty"
         /\ ~InReset => req'[r].session = session
    /\ req'[r].pc = "waiting" /\ req'[r].slot = "empty" =>
         req'[r].key \in Keys /\ pending'[req'[r].key] = r
    /\ req'[r].slot = "ok" => req'[r].by = req'[r].session

\* A step of one call preserves the invariant.
LEMMA OneCallRequests ==
    ASSUME TypeOK, RequestInv, NEW r \in Reqs, OneCall(r), session' = session, InReset => InReset'
    PROVE  RequestInv'
<1>1. ASSUME NEW k \in Keys, pending'[k] # None, pending'[k] # r
      PROVE  pending'[k] = pending[k] /\ req'[pending[k]] = req[pending[k]]
  BY <1>1 DEF OneCall, TypeOK
<1>2. WaitersAreRegistered'
  <2>1. ASSUME NEW k \in Keys, pending'[k] # None
        PROVE  /\ req'[pending'[k]].pc \in {"waiting", "dropping"}
               /\ req'[pending'[k]].key = k
               /\ req'[pending'[k]].slot = "empty"
    BY <1>1, <2>1 DEF OneCall, RequestInv, CallInv, WaitersAreRegistered
  <2>2. ASSUME NEW q \in Reqs, req'[q].pc = "waiting", req'[q].slot = "empty"
        PROVE  req'[q].key \in Keys /\ pending'[req'[q].key] = q
    <3>1. CASE q # r
      <4>1. req'[q] = req[q] /\ req[q].key \in Keys /\ pending[req[q].key] = q
        BY <2>2, <3>1 DEF OneCall, RequestInv, CallInv, WaitersAreRegistered
      <4> QED
        BY <3>1, <4>1, NoneAssumption DEF OneCall
    <3> QED
      BY <2>2, <3>1, Zenon DEF OneCall
  <2> QED
    BY <2>1, <2>2, Zenon DEF WaitersAreRegistered
<1>3. ResponseOfOwnEpoch'
  BY DEF OneCall, RequestInv, CallInv, ResponseOfOwnEpoch
<1>4. RetainedStateIsCurrent'
  BY <1>1 DEF OneCall, RequestInv, RetainedStateIsCurrent
<1> QED
  BY <1>2, <1>3, <1>4, Zenon DEF RequestInv, CallInv

\* A call that is registered, returns, or drops its guard.
LEMMA CallRequests ==
    ASSUME TypeOK, RequestInv, NEW r \in Reqs,
           (\E key \in Keys : Publish(r, key)) \/ PublishReturns(r) \/ GuardDrop(r)
    PROVE  RequestInv'
<1>1. req \in [Reqs -> Calls] /\ pending \in [Keys -> Reqs \cup {None}] /\ chunks \in [Keys -> Nat]
  BY Zenon DEF TypeOK
<1>2. session' = session /\ (InReset => InReset')
  BY Zenon DEF Publish, PublishReturns, GuardDrop, InReset
<1>3. \A k \in Keys : pending[k] = r => /\ req[r].pc \in {"waiting", "dropping"} /\ req[r].key = k
                                        /\ req[r].slot = "empty"
                                        /\ ~InReset => req[r].session = session
  BY NoneAssumption DEF RequestInv, CallInv, WaitersAreRegistered, RetainedStateIsCurrent
<1>4. /\ req[r].pc = "waiting" /\ req[r].slot = "empty" =>
           req[r].key \in Keys /\ pending[req[r].key] = r
      /\ req[r].slot = "ok" => req[r].by = req[r].session
  BY Zenon DEF RequestInv, CallInv, WaitersAreRegistered, ResponseOfOwnEpoch
<1>5. ASSUME NEW key \in Keys, Publish(r, key)
      PROVE  OneCall(r)
  <2>1. req[r].pc = "idle"
    BY <1>5, Zenon DEF Publish
  <2>2. CASE /\ req' = [req EXCEPT ![r].pc = "done"]
             /\ pending' = pending
             /\ chunks' = chunks \/ chunks' = [chunks EXCEPT ![key] = 0]
    BY <1>1, <1>3, <1>4, <2>1, <2>2 DEF OneCall, Calls
  <2>3. CASE /\ req' = [req EXCEPT ![r] = [pc |-> "waiting", key |-> key,
                          session |-> session, slot |-> "empty", by |-> 0]]
             /\ pending' = [pending EXCEPT ![key] = r]
             /\ pending[key] = None
             /\ chunks' = chunks
    BY <1>1, <1>3, <2>1, <2>3, Zenon DEF OneCall
  <2> QED
    BY <1>5, <2>2, <2>3, Zenon DEF Publish
<1>6. ASSUME PublishReturns(r)
      PROVE  OneCall(r)
  <2>1. pending' = pending /\ chunks' = chunks /\ req' = [req EXCEPT ![r].pc = "dropping"]
    BY <1>6, Zenon DEF PublishReturns
  <2>2. \A q \in Reqs : q # r => req'[q] = req[q]
    BY <1>1, <2>1, Zenon
  <2>3. /\ req'[r].pc = "dropping" /\ req'[r].slot = req[r].slot /\ req'[r].key = req[r].key
        /\ req'[r].by = req[r].by /\ req'[r].session = req[r].session
    BY <1>1, <2>1 DEF Calls
  <2> QED
    BY <1>3, <1>4, <2>1, <2>2, <2>3, Zenon DEF OneCall
<1>7. ASSUME GuardDrop(r)
      PROVE  OneCall(r)
  <2>1. \A q \in Reqs : q # r => req'[q] = req[q]
    BY <1>1, <1>7, Zenon DEF GuardDrop
  <2>2. req'[r].pc # "waiting" /\ req'[r].slot # "ok"
    BY <1>1, <1>7, Zenon DEF GuardDrop, NoCall
  <2>3. \A k \in Keys : /\ pending'[k] = IF pending[k] = r THEN None ELSE pending[k]
                        /\ chunks'[k] \in {0, chunks[k]}
    BY <1>1, <1>3, <1>7, Zenon DEF GuardDrop, OwnsEntry
  <2> QED
    BY <2>1, <2>2, <2>3, NoneAssumption DEF OneCall
<1> QED
  BY <1>2, <1>5, <1>6, <1>7, OneCallRequests, Zenon

\* Answering one key on behalf of a message of the current epoch.
LEMMA ResolveRequests ==
    ASSUME TypeOK, RequestInv, NEW key \in Keys, NEW ok, routerMsg.gen = session,
           ResolvePendingResponse(key, ok) \/ FailPending(key),
           session' = session, \A k \in Keys : chunks'[k] \in {0, session, chunks[k]},
           InReset => InReset'
    PROVE  RequestInv'
<1>1. CASE /\ pending[key] # None /\ req[pending[key]].session = session
           /\ Settle({key}, "ok", routerMsg.gen)
  <2>1. session \in Nat
    BY Zenon DEF TypeOK
  <2> QED
    BY <1>1, <2>1, SettleRequests, Zenon
<1>2. CASE FailPending(key)
  BY <1>2, SettleRequests, Zenon DEF FailPending
<1> QED
  BY <1>1, <1>2, Zenon DEF ResolvePendingResponse

\* Every step of run_message_loop preserves the invariant.
LEMMA RouterRequests ==
    ASSUME TypeOK, RequestInv, RouterStep
    PROVE  RequestInv'
<1> DEFINE b == routerMsg.body
<1>1. ASSUME NEW kinds, Processing(kinds), "fault" \notin kinds
      PROVE  b.key \in Keys /\ routerMsg.gen = session /\ pc["router"] = "process"
  BY <1>1, WireBodies, WireAssumption, Zenon DEF Processing, Stale, TypeOK
<1>2. CASE TakeFault \/ Receive \/ ProcessStale \/ StartHeartbeat
           \/ (\E h \in Heartbeats : SpawnHeartbeat(h)) \/ RequestNetworkStatus
  <2>1. PICK step : Goto("router", step)
    BY <1>2, ZenonT(60) DEF TakeFault, Receive, ProcessStale, StartHeartbeat, SpawnHeartbeat,
                RequestNetworkStatus, Return
  <2>2. pc["router"] \in {"top", "recv", "process", "validCas", "validSpawn", "validProbe"}
    BY <1>2, ZenonT(60) DEF TakeFault, Receive, ProcessStale, StartHeartbeat, SpawnHeartbeat,
                RequestNetworkStatus
  <2>3. UNCHANGED <<session, pending, req, chunks>>
    BY <1>2, Zenon DEF TakeFault, Receive, ProcessStale, StartHeartbeat, SpawnHeartbeat,
                RequestNetworkStatus
  <2> QED
    BY <2>1, <2>2, <2>3, GotoInReset, FrameRequests, Zenon
<1>3. CASE ExpireChunks
  <2>1. PICK expired \in SUBSET Keys :
          /\ chunks' = [k \in Keys |-> IF k \in expired THEN 0 ELSE chunks[k]]
          /\ Settle(expired, "err", 0)
    BY <1>3, Zenon DEF ExpireChunks
  <2>2. session' = session /\ pc["router"] = "expire" /\ Goto("router", "recv")
    BY <1>3, Zenon DEF ExpireChunks
  <2>3. \A k \in Keys : chunks'[k] \in {0, session, chunks[k]}
    BY <2>1, Zenon
  <2> QED
    BY <2>1, <2>2, <2>3, GotoInReset, SettleRequests, Zenon
<1>4. CASE ProcessFault
  <2>1. InReset'
    BY <1>4, Zenon DEF ProcessFault, Goto, InReset, TypeOK
  <2> QED
    BY <1>4, <2>1, Zenon DEF ProcessFault, RequestInv, CallInv, WaitersAreRegistered,
                      ResponseOfOwnEpoch, RetainedStateIsCurrent
<1>5. CASE FaultGeneration \/ FaultCloseOldPeer
  <2>1. InReset'
    BY <1>5, Zenon DEF FaultGeneration, FaultCloseOldPeer, Goto, InReset, TypeOK
  <2> QED
    BY <1>5, <2>1, FrameRequests, Zenon DEF FaultGeneration, FaultCloseOldPeer
<1>6. CASE FaultClear
  BY <1>6, ClearRequests, Zenon DEF FaultClear
<1>7. CASE ProcessText
  <2>1. /\ ResolvePendingResponse(b.key, b.ok) /\ session' = session /\ chunks' = chunks
        /\ Goto("router", resume)
    BY <1>7, ZenonT(60) DEF ProcessText, Return
  <2>2. b.key \in Keys /\ routerMsg.gen = session /\ pc["router"] = "process"
    BY <1>1, <1>7, Zenon DEF ProcessText
  <2> QED
    BY <2>1, <2>2, GotoInReset, ResolveRequests, ZenonT(60)
<1>8. CASE ProcessChunk
  <2>1. session' = session /\ Goto("router", resume)
    BY <1>8, Zenon DEF ProcessChunk, Return
  <2>2. b.key \in Keys /\ routerMsg.gen = session /\ pc["router"] = "process"
    BY <1>1, <1>8, Zenon DEF ProcessChunk
  <2>3. \A k \in Keys : chunks'[k] \in {0, session, chunks[k]}
    BY <1>8, <2>2, Zenon DEF ProcessChunk, TypeOK
  <2>4. InReset => InReset'
    BY <2>1, <2>2, GotoInReset, Zenon
  <2>5. CASE ResolvePendingResponse(b.key, b.ok) \/ FailPending(b.key)
    BY <2>1, <2>2, <2>3, <2>4, <2>5, ResolveRequests, ZenonT(60)
  <2>6. CASE UNCHANGED <<pending, req>>
    BY <2>1, <2>3, <2>4, <2>6, Zenon DEF RequestInv, CallInv, WaitersAreRegistered,
                                  ResponseOfOwnEpoch, RetainedStateIsCurrent
  <2> QED
    BY <1>8, <2>5, <2>6, Zenon DEF ProcessChunk
<1>9. CASE ProcessBinary
  <2>1. session' = session /\ Goto("router", resume)
    BY <1>9, Zenon DEF ProcessBinary, Return
  <2>2. b.key \in Keys /\ routerMsg.gen = session /\ pc["router"] = "process"
    BY <1>1, <1>9, Zenon DEF ProcessBinary
  <2>3. \A k \in Keys : chunks'[k] \in {0, session, chunks[k]}
    BY <1>9, <2>2, Zenon DEF ProcessBinary, TypeOK
  <2>4. InReset => InReset'
    BY <2>1, <2>2, GotoInReset, Zenon
  <2>5. CASE FailPending(b.key)
    BY <2>1, <2>2, <2>3, <2>4, <2>5, ResolveRequests, ZenonT(60)
  <2>6. CASE UNCHANGED <<pending, req>>
    BY <2>1, <2>3, <2>4, <2>6, Zenon DEF RequestInv, CallInv, WaitersAreRegistered,
                                  ResponseOfOwnEpoch, RetainedStateIsCurrent
  <2> QED
    BY <1>9, <2>5, <2>6, Zenon DEF ProcessBinary
<1>10. CASE ValidationOk
  <2>1. /\ ResolvePendingResponse(b.key, b.ok) /\ session' = session /\ chunks' = chunks
        /\ Goto("router", "validCas")
    BY <1>10, Zenon DEF ValidationOk
  <2>2. b.key \in Keys /\ routerMsg.gen = session /\ pc["router"] = "process"
    BY <1>1, <1>10, Zenon DEF ValidationOk
  <2> QED
    BY <2>1, <2>2, GotoInReset, ResolveRequests, Zenon
<1> QED
  BY <1>2, <1>3, <1>4, <1>5, <1>6, <1>7, <1>8, <1>9, <1>10, StopRequests, Zenon DEF RouterStep

\* Every step of a heartbeat thread, its timeout included, preserves the invariant.
LEMMA HeartbeatRequests ==
    ASSUME TypeOK, RequestInv, NEW h \in Heartbeats, HeartbeatStep(h)
    PROVE  RequestInv'
<1>1. session' = session /\ pc' = pc
  BY Zenon DEF HeartbeatStep, HeartbeatCheck, HeartbeatLeave, HeartbeatTimeout, HeartbeatSend,
         HeartbeatWait
<1>2. InReset => InReset'
  BY <1>1, Zenon DEF InReset
<1>3. CASE HeartbeatTimeout(h)
  <2>1. Settle(Keys, "err", 0) /\ chunks' = [k \in Keys |-> 0]
    BY <1>3, Zenon DEF HeartbeatTimeout, FailAllPending
  <2> QED
    BY <1>1, <1>2, <2>1, SettleRequests, Zenon
<1>4. CASE HeartbeatCheck(h) \/ HeartbeatLeave(h) \/ HeartbeatSend(h) \/ HeartbeatWait(h)
  <2>1. UNCHANGED <<session, pending, req, chunks>>
    BY <1>4, Zenon DEF HeartbeatCheck, HeartbeatLeave, HeartbeatSend, HeartbeatWait
  <2> QED
    BY <1>2, <2>1, FrameRequests, Zenon
<1> QED
  BY <1>3, <1>4, Zenon DEF HeartbeatStep

\* A new service has no calls and no chunks.
LEMMA InitRequests == Init => RequestInv
BY NoneAssumption DEF Init, NoCall, RequestInv, CallInv, WaitersAreRegistered,
   ResponseOfOwnEpoch, RetainedStateIsCurrent

\* The invariant of calls and chunks is inductive relative to the types.
LEMMA NextRequests == TypeOK /\ RequestInv /\ [Next]_vars => RequestInv'
<1> SUFFICES ASSUME TypeOK, RequestInv, [Next]_vars PROVE RequestInv'
  BY Zenon
<1>1. CASE \/ \E topic \in Topics : Subscribe(topic) \/ Unsubscribe(topic)
           \/ PublishWithoutCallback \/ SwitchChannel
           \/ TakeEvent \/ SixSecondsPass \/ TransportStep \/ Terminated
           \/ UNCHANGED vars
  <2>1. UNCHANGED <<session, pending, req, chunks, pc>>
    BY <1>1, Zenon DEF Subscribe, Unsubscribe, PublishWithoutCallback, SwitchChannel, TakeEvent,
                SixSecondsPass, TransportStep, RecordFault, Terminated, vars
  <2> QED
    BY <2>1, FrameRequests, Zenon DEF InReset
<1> QED
  BY <1>1, CallRequests, StopRequests, TaskRequests, RouterRequests, HeartbeatRequests, Zenon DEF Next

\* For any number of keys, calls and epochs, a call waits with an empty slot
\* exactly while its own token is registered: publish_with_expectation and its
\* PendingRequestGuard never lose a call or remove another call's entry.
THEOREM CallsStayRegistered == Spec => []WaitersAreRegistered
BY InitType, InitRequests, NextType, NextRequests, PTL DEF Spec, RequestInv, CallInv

\* resolve_pending_response succeeds a call only with a response of its epoch.
THEOREM ResponsesMatchEpochs == Spec => []ResponseOfOwnEpoch
BY InitType, InitRequests, NextType, NextRequests, PTL DEF Spec, RequestInv, CallInv

\* start_new_session, a transport fault and the heartbeat timeout leave no
\* request and no chunk assembly of an older epoch behind.
THEOREM NothingOutlivesItsEpoch == Spec => []RetainedStateIsCurrent
BY InitType, InitRequests, NextType, NextRequests, PTL DEF Spec, RequestInv
===============================================================================
