------------------------ MODULE DataChannelLinkProofs ------------------------
(***************************************************************************)
(* Proofs about the link of the core to its peer.                          *)
(*                                                                         *)
(* LinkInv, the inductive invariant, ties together the epochs that no lock *)
(* keeps equal: session_id of the core, the ingress generation of the      *)
(* engine, the generation the current peer captured, and those of the      *)
(* messages, commands and heartbeat threads left over from earlier peers.  *)
(* Its four parts are proved one after the other, each with a lemma per    *)
(* actor; all but the first use the first.                                 *)
(***************************************************************************)
EXTENDS DataChannelCoreProofs

USE DEF Actors, transportVars, sessionVars, linkVars, requestVars, eventVars, threadVars

-----------------------------------------------------------------------------
(* The inductive invariant. *)

\* Who has lifecycle_lock between two steps.
LockIsHeld ==
    /\ lock = "task" <=> pc["task"] \in {"bumped", "swapped", "clearing"}
    /\ lock = "router" <=> pc["router"] \in {"bumped", "swapped", "clearing", "faultBumped", "faultSwapped",
                                             "faultClearing", "validCas", "validSpawn", "validProbe"}

\* A reset has changed session_id and not yet the ingress generation.
Unpublished == pc["task"] = "bumped" \/ pc["router"] \in {"bumped", "faultBumped"}

\* The epoch of the core, of the engine and of the peer.
EpochsAgree ==
    /\ ingressGen = IF Unpublished THEN session - 1 ELSE session
    /\ peerGen <= ingressGen
    /\ pc["task"] \in {"swapped", "clearing", "reset", "prepared"} => peerGen < session

\* Nothing arrives of an epoch that has had no peer.
MessagesHavePeer ==
    /\ fault <= peerGen /\ routerMsg.gen <= peerGen
    /\ \A m \in inflight : m.gen <= peerGen
    /\ \A i \in 1..Len(ingress) : ingress[i].gen <= peerGen

EpochInv == LockIsHeld /\ EpochsAgree /\ MessagesHavePeer

\* A peer that is not closed is of the current generation, or of the one just ended while a reset
\* has yet to close it, and of the one that was validated if the channel is opened.
PeerInv ==
    /\ ready # "closed" => peerGen = ingressGen \/ (Swapping /\ peerGen + 1 = ingressGen)
    /\ opened /\ ready # "closed" => validEpoch = peerGen
    /\ pc["task"] \in {"reset", "prepared"} => ~opened
    /\ CommandsOfPeerEpoch

\* The thread that owns the stop channel is alive and of this epoch.
Watched == stopTx # None /\ hb[stopTx].pc # "off" /\ hb[stopTx].epoch = session

Undisturbed == owner /\ ~InReset /\ \A a \in Actors : ~Resetting(a)

\* heartbeat_running is set before the thread exists, and the thread before the channel
\* counts as opened again.
WatchInv ==
    Undisturbed => /\ hbRunning /\ pc["router"] # "validSpawn" => Watched
                   /\ opened /\ pc["router"] # "validCas" => hbRunning
                   /\ pc["router"] = "validSpawn" => hbRunning


LinkInv == EpochInv /\ PeerInv /\ WatchInv /\ FaultIsRetained

-----------------------------------------------------------------------------
(* The epochs. *)

\* Goto moves one actor.
LEMMA GotoEffect ==
    ASSUME TypeOK, NEW a \in Actors, NEW step, Goto(a, step)
    PROVE  pc'[a] = step /\ \A b \in Actors : b # a => pc'[b] = pc[b]
BY Zenon DEF TypeOK, Goto

\* Steps that leave the lock, the epochs, the messages and the actors alone.
LEMMA FrameEpochs ==
    ASSUME EpochInv,
           UNCHANGED <<lock, session, ingressGen, peerGen, fault, ingress, inflight, routerMsg, pc>>
    PROVE  EpochInv'
BY Zenon DEF EpochInv, LockIsHeld, EpochsAgree, Unpublished, MessagesHavePeer

\* The steps of the transport.
LEMMA TransportEpochs ==
    ASSUME TypeOK, EpochInv, TransportStep
    PROVE  EpochInv'
<1>1. UNCHANGED <<lock, session, routerMsg, pc, ingressGen, peerGen>>
  BY Zenon DEF TransportStep, RecordFault, PeerEvent, HandlerAdmit, HandlerEnqueue, WorkerStep, RecordTransportFault
<1>2. LockIsHeld' /\ EpochsAgree'
  BY <1>1, Zenon DEF EpochInv, LockIsHeld, EpochsAgree, Unpublished
<1>t. /\ peerGen \in Nat /\ ingress \in Seq(Messages) /\ Len(ingress) \in Nat
      /\ inflight \in SUBSET Messages /\ fault \in Nat
  BY DEF TypeOK, TransportTypeOK
<1>3. CASE (\E e \in PeerEvents : PeerEvent(e)) \/ WorkerStep
  BY <1>1, <1>3, FrameEpochs, Zenon DEF PeerEvent, WorkerStep
<1>4. ASSUME NEW m, m.gen <= peerGen, TryEnqueue(m)
      PROVE  \A i \in 1..Len(ingress') : ingress'[i].gen <= peerGen
  BY <1>t, <1>4 DEF TryEnqueue, EpochInv, MessagesHavePeer
<1>5. CASE \E b \in Wire : HandlerAdmit(b)
  BY <1>1, <1>2, <1>t, <1>5 DEF HandlerAdmit, EpochInv, MessagesHavePeer
<1>6. CASE \E m \in inflight : HandlerEnqueue(m)
  <2>1. PICK m \in inflight : HandlerEnqueue(m)
    BY <1>6, Zenon
  <2>2. m.gen <= peerGen /\ TryEnqueue(m)
    BY <2>1, Zenon DEF HandlerEnqueue, EpochInv, MessagesHavePeer
  <2>3. UNCHANGED fault /\ inflight' \subseteq inflight
    BY <2>1, Zenon DEF HandlerEnqueue
  <2> QED
    BY <1>1, <1>2, <1>4, <2>2, <2>3, Zenon DEF EpochInv, MessagesHavePeer
<1>7. CASE RecordTransportFault
  <2>1. UNCHANGED inflight
    BY <1>7, Zenon DEF RecordTransportFault
  <2>2. fault' <= peerGen
    BY <1>7, <1>t DEF RecordTransportFault, RetainFault, EpochInv, MessagesHavePeer
  <2>3. \A i \in 1..Len(ingress') : ingress'[i].gen <= peerGen
    <3>1. [gen |-> peerGen, body |-> FaultBody].gen <= peerGen
      BY <1>t
    <3> QED
      BY <1>4, <1>7, <3>1, Zenon DEF RecordTransportFault, EpochInv, MessagesHavePeer
  <2> QED
    BY <1>1, <1>2, <2>1, <2>2, <2>3, Zenon DEF EpochInv, MessagesHavePeer
<1> QED
  BY <1>3, <1>5, <1>6, <1>7, Zenon DEF TransportStep, RecordFault

\* The steps of the actors that publish, subscribe or send heartbeats.
LEMMA ClientEpochs ==
    ASSUME EpochInv,
           \/ \E r \in Reqs : \/ \E key \in Keys : Publish(r, key)
                              \/ PublishReturns(r)
                              \/ GuardDrop(r)
           \/ \E topic \in Topics : Subscribe(topic) \/ Unsubscribe(topic)
           \/ PublishWithoutCallback \/ SwitchChannel \/ TakeEvent \/ SixSecondsPass
           \/ \E h \in Heartbeats : HeartbeatStep(h)
           \/ OwnerDrop \/ Terminated \/ UNCHANGED vars
    PROVE  EpochInv'
<1>1. UNCHANGED <<lock, session, ingressGen, peerGen, fault, ingress, inflight, routerMsg, pc>>
  BY Zenon DEF Publish, PublishReturns, GuardDrop, Subscribe, Unsubscribe, PublishWithoutCallback,
         SwitchChannel, TakeEvent, SixSecondsPass, HeartbeatStep, HeartbeatCheck, HeartbeatLeave,
         HeartbeatTimeout, HeartbeatSend, HeartbeatWait, OwnerDrop, Terminated, vars
<1> QED
  BY <1>1, FrameEpochs, Zenon

\* stop_background_tasks, start_new_session.
LEMMA StopEpochs ==
    ASSUME TypeOK, EpochInv, NEW a \in Actors, StopStep(a)
    PROVE  EpochInv'
<1> USE DEF EpochInv, LockIsHeld, EpochsAgree, Unpublished, MessagesHavePeer
<1>t. /\ session \in Nat /\ ingressGen \in Nat /\ peerGen \in Nat /\ fault \in Nat
  BY Zenon DEF TypeOK, TransportTypeOK
<1>1. CASE StopRunning(a) \/ StopSender(a) \/ StopProbe(a) \/ StopOpened(a)
  <2>1. PICK step \in {"stop1", "stop2", "stop3", "stop4"} : Goto(a, step)
    BY <1>1, Zenon DEF StopRunning, StopSender, StopProbe, StopOpened
  <2>2. pc[a] \in {"stop0", "stop1", "stop2", "stop3"}
    BY <1>1, Zenon DEF StopRunning, StopSender, StopProbe, StopOpened
  <2>3. UNCHANGED <<lock, session, ingressGen, peerGen, fault, ingress, inflight, routerMsg>>
    BY <1>1, Zenon DEF StopRunning, StopSender, StopProbe, StopOpened
  <2> QED
    BY <2>1, <2>2, <2>3, GotoEffect
<1>2. CASE NewSession(a)
  <2>1. /\ pc[a] = "stop4" /\ pc'[a] = "bumped" /\ \A b \in Actors : b # a => pc'[b] = pc[b]
        /\ lock = "free" /\ lock' = a /\ session' = session + 1
        /\ UNCHANGED <<ingressGen, peerGen, fault, ingress, inflight, routerMsg>>
    BY <1>2, GotoEffect, Zenon DEF NewSession
  <2> QED
    BY <1>t, <2>1
<1>3. CASE PublishGeneration(a)
  <2>1. /\ pc[a] = "bumped" /\ pc'[a] \in {"swapped", "clearing"}
        /\ \A b \in Actors : b # a => pc'[b] = pc[b]
        /\ fault' = 0 /\ ingressGen' = session
        /\ UNCHANGED <<lock, session, peerGen, ingress, inflight, routerMsg>>
    BY <1>3, GotoEffect, Zenon DEF PublishGeneration, SwapGeneration
  <2> QED
    BY <1>t, <2>1
<1>5. CASE CloseOldPeer(a)
  <2>1. /\ pc[a] = "swapped" /\ pc'[a] = "clearing" /\ \A b \in Actors : b # a => pc'[b] = pc[b]
        /\ UNCHANGED <<lock, session, ingressGen, peerGen, fault, ingress, inflight, routerMsg>>
    BY <1>5, GotoEffect, Zenon DEF CloseOldPeer, CloseReady
  <2> QED
    BY <1>t, <2>1, Zenon
<1>4. CASE ResetSession(a)
  <2>1. /\ pc[a] = "clearing" /\ pc'[a] = (IF a = "router" THEN "done" ELSE "reset")
        /\ \A b \in Actors : b # a => pc'[b] = pc[b]
        /\ lock' = "free"
        /\ UNCHANGED <<session, ingressGen, peerGen, fault, ingress, inflight, routerMsg>>
    BY <1>4, GotoEffect, Zenon DEF ResetSession, ClearSession
  <2> QED
    BY <1>t, <2>1, Zenon
<1> QED
  BY <1>1, <1>2, <1>3, <1>4, <1>5, Zenon DEF StopStep

\* connect_validated_session and disconnect_session.
LEMMA TaskEpochs ==
    ASSUME TypeOK, EpochInv, TaskStep
    PROVE  EpochInv'
<1> USE DEF EpochInv, LockIsHeld, EpochsAgree, Unpublished, MessagesHavePeer
<1>t. /\ session \in Nat /\ ingressGen \in Nat /\ peerGen \in Nat /\ fault \in Nat
      /\ routerMsg.gen \in Nat /\ inflight \in SUBSET Messages /\ ingress \in Seq(Messages)
  BY Zenon DEF TypeOK, TransportTypeOK, Messages
<1>m. /\ \A m \in inflight : m.gen \in Nat
      /\ \A i \in 1..Len(ingress) : ingress[i].gen \in Nat
  <2>1. \A m \in Messages : m.gen \in Nat
    BY Zenon DEF Messages
  <2>2. \A i \in 1..Len(ingress) : ingress[i] \in Messages
    BY <1>t
  <2> QED
    BY <1>t, <2>1, <2>2, Zenon
<1>1. CASE StartReset
  <2>1. /\ pc["task"] \in {"idle", "reset", "prepared"} /\ pc'["task"] = "stop0"
        /\ pc'["router"] = pc["router"]
        /\ UNCHANGED <<lock, session, ingressGen, peerGen, fault, ingress, inflight, routerMsg>>
    BY <1>1, GotoEffect, Zenon DEF StartReset
  <2> QED
    BY <1>t, <2>1, Zenon
<1>2. CASE PrepareIngress
  <2>1. /\ pc["task"] = "reset" /\ pc'["task"] = "prepared" /\ pc'["router"] = pc["router"]
        /\ lock = "free" /\ fault' = 0 /\ ingressGen' = session
        /\ UNCHANGED <<lock, session, peerGen, ingress, inflight, routerMsg>>
    BY <1>2, GotoEffect, Zenon DEF PrepareIngress, SetIngressGeneration
  <2> QED
    BY <1>t, <2>1
<1>3. CASE ConnectPeer
  <2>1. /\ pc["task"] = "prepared" /\ pc'["task"] = "idle" /\ pc'["router"] = pc["router"]
        /\ peerGen' = ingressGen
        /\ UNCHANGED <<lock, session, ingressGen, fault, ingress, inflight, routerMsg>>
    BY <1>3, GotoEffect, Zenon DEF ConnectPeer, PrepareOffer
  <2>2. LockIsHeld' /\ EpochsAgree'
    BY <1>t, <2>1
  <2>3. MessagesHavePeer'
    BY <1>t, <1>m, <2>1
  <2> QED
    BY <2>2, <2>3, Zenon
<1>4. CASE Rollback
  <2>1. /\ pc["task"] = "reset" /\ pc'["task"] = "idle" /\ pc'["router"] = pc["router"]
        /\ UNCHANGED <<lock, session, ingressGen, peerGen, fault, ingress, inflight, routerMsg>>
    BY <1>4, GotoEffect, Zenon DEF Rollback, Close
  <2> QED
    BY <1>t, <2>1, Zenon
<1> QED
  BY <1>1, <1>2, <1>3, <1>4, Zenon DEF TaskStep

\* Steps in which the router has no lock before and after, or the same one.
LEMMA RouterMoves ==
    ASSUME TypeOK, EpochInv, NEW step, Goto("router", step),
           UNCHANGED <<lock, session, ingressGen, peerGen, fault, ingress, inflight>>,
           routerMsg'.gen <= peerGen,
           \/ {pc["router"], step} \subseteq {"top", "expire", "recv", "process", "stop0", "done"}
           \/ {pc["router"], step} \subseteq {"validCas", "validSpawn", "validProbe"}
    PROVE  EpochInv'
<1>1. pc'["router"] = step /\ pc'["task"] = pc["task"]
  BY GotoEffect, Zenon
<1> QED
  BY <1>1, Zenon DEF EpochInv, LockIsHeld, EpochsAgree, Unpublished, MessagesHavePeer

\* process_ingress returns a message of no epoch to the loop.
LEMMA ReturnEffect ==
    ASSUME TypeOK, Return
    PROVE  /\ pc'["router"] \in {"top", "expire"} /\ pc'["task"] = pc["task"]
           /\ Goto("router", resume) /\ resume \in {"top", "expire"}
           /\ routerMsg' = NoMessage /\ routerMsg'.gen = 0 /\ 0 <= peerGen
BY GotoEffect DEF Return, TypeOK, TransportTypeOK, NoMessage

\* run_message_loop and process_ingress.
LEMMA RouterEpochs ==
    ASSUME TypeOK, EpochInv, RouterStep
    PROVE  EpochInv'
<1>t. /\ session \in Nat /\ ingressGen \in Nat /\ peerGen \in Nat /\ fault \in Nat
      /\ routerMsg.gen \in Nat /\ ingress \in Seq(Messages) /\ Len(ingress) \in Nat
  BY DEF TypeOK, TransportTypeOK, Messages
<1>1. CASE TakeFault
  <2>1. CASE Goto("router", "stop0") /\ UNCHANGED <<transportVars, routerMsg, resume>>
    BY <1>1, <2>1, RouterMoves, Zenon DEF TakeFault, EpochInv, MessagesHavePeer
  <2>2. CASE Goto("router", "expire") /\ UNCHANGED <<transportVars, routerMsg, resume>>
    BY <1>1, <2>2, RouterMoves, Zenon DEF TakeFault, EpochInv, MessagesHavePeer
  <2>3. CASE /\ Goto("router", "process") /\ TakeTransportError
             /\ routerMsg' = [gen |-> fault, body |-> FaultBody]
    <3>1. /\ pc["router"] = "top" /\ pc'["router"] = "process" /\ pc'["task"] = pc["task"]
          /\ fault' = 0 /\ routerMsg'.gen = fault
          /\ UNCHANGED <<lock, session, ingressGen, peerGen, ingress, inflight>>
      BY <1>1, <2>3, GotoEffect, Zenon DEF TakeFault, TakeTransportError
    <3> QED
      BY <1>t, <3>1 DEF EpochInv, LockIsHeld, EpochsAgree, Unpublished, MessagesHavePeer
  <2> QED
    BY <1>1, <2>1, <2>2, <2>3, Zenon DEF TakeFault
<1>2. CASE Receive
  <2>1. CASE ingress = <<>>
    BY <1>2, <2>1, RouterMoves, Zenon DEF Receive, EpochInv, MessagesHavePeer
  <2>2. CASE ingress # <<>>
    <3>1. /\ pc["router"] = "recv" /\ pc'["router"] = "process" /\ pc'["task"] = pc["task"]
          /\ routerMsg' = ingress[1] /\ ingress' = Tail(ingress)
          /\ UNCHANGED <<lock, session, ingressGen, peerGen, fault, inflight>>
      BY <1>2, <2>2, GotoEffect DEF Receive
    <3>2. /\ \A i \in 1..Len(ingress') : i + 1 \in 1..Len(ingress) /\ ingress'[i] = ingress[i + 1]
          /\ 1 \in 1..Len(ingress)
      BY <1>t, <2>2, <3>1
    <3>3. MessagesHavePeer'
      BY <3>1, <3>2, Zenon DEF EpochInv, MessagesHavePeer
    <3> QED
      BY <3>1, <3>3, Zenon DEF EpochInv, LockIsHeld, EpochsAgree, Unpublished
  <2> QED
    BY <2>1, <2>2, Zenon
<1>3. CASE ExpireChunks
  BY <1>3, RouterMoves, Zenon DEF ExpireChunks, EpochInv, MessagesHavePeer
<1>4. CASE ProcessStale \/ ProcessText \/ ProcessChunk \/ ProcessBinary
  <2>1. /\ Return /\ pc["router"] = "process"
        /\ UNCHANGED <<lock, session, ingressGen, peerGen, fault, ingress, inflight>>
    BY <1>4, Zenon DEF ProcessStale, ProcessText, ProcessChunk, ProcessBinary, Processing
  <2> QED
    BY <2>1, ReturnEffect, RouterMoves, Zenon
<1>5. CASE ProcessFault
  <2>1. /\ pc["router"] = "process" /\ pc'["router"] = "faultBumped" /\ pc'["task"] = pc["task"]
        /\ lock = "free" /\ lock' = "router" /\ session' = session + 1
        /\ UNCHANGED <<ingressGen, peerGen, fault, ingress, inflight, routerMsg>>
    BY <1>5, GotoEffect, Zenon DEF ProcessFault, Processing
  <2> QED
    BY <1>t, <2>1 DEF EpochInv, LockIsHeld, EpochsAgree, Unpublished, MessagesHavePeer
<1>6. CASE FaultGeneration
  <2>1. /\ pc["router"] = "faultBumped" /\ pc'["router"] \in {"faultSwapped", "faultClearing"}
        /\ pc'["task"] = pc["task"]
        /\ fault' = 0 /\ ingressGen' = session
        /\ UNCHANGED <<lock, session, peerGen, ingress, inflight, routerMsg>>
    BY <1>6, GotoEffect, Zenon DEF FaultGeneration, SwapGeneration
  <2> QED
    BY <1>t, <2>1 DEF EpochInv, LockIsHeld, EpochsAgree, Unpublished, MessagesHavePeer
<1>11. CASE FaultCloseOldPeer
  <2>1. /\ pc["router"] = "faultSwapped" /\ pc'["router"] = "faultClearing"
        /\ pc'["task"] = pc["task"]
        /\ UNCHANGED <<lock, session, ingressGen, peerGen, fault, ingress, inflight, routerMsg>>
    BY <1>11, GotoEffect, Zenon DEF FaultCloseOldPeer, CloseReady
  <2> QED
    BY <2>1, Zenon DEF EpochInv, LockIsHeld, EpochsAgree, Unpublished, MessagesHavePeer
<1>7. CASE FaultClear
  <2>1. /\ pc["router"] = "faultClearing" /\ Return /\ lock' = "free"
        /\ UNCHANGED <<session, ingressGen, peerGen, fault, ingress, inflight>>
    BY <1>7, Zenon DEF FaultClear, ClearSession
  <2> QED
    BY <2>1, ReturnEffect, Zenon DEF EpochInv, LockIsHeld, EpochsAgree, Unpublished, MessagesHavePeer
<1>8. CASE ValidationOk
  <2>1. /\ pc["router"] = "process" /\ pc'["router"] = "validCas" /\ pc'["task"] = pc["task"]
        /\ lock = "free" /\ lock' = "router"
        /\ UNCHANGED <<session, ingressGen, peerGen, fault, ingress, inflight, routerMsg>>
    BY <1>8, GotoEffect, Zenon DEF ValidationOk, Processing
  <2> QED
    BY <2>1, Zenon DEF EpochInv, LockIsHeld, EpochsAgree, Unpublished, MessagesHavePeer
<1>9. CASE StartHeartbeat \/ \E h \in Heartbeats : SpawnHeartbeat(h)
  <2>1. PICK step \in {"validProbe", "validSpawn"} : Goto("router", step)
    BY <1>9, Zenon DEF StartHeartbeat, SpawnHeartbeat
  <2>2. /\ pc["router"] \in {"validCas", "validSpawn"}
        /\ UNCHANGED <<lock, session, ingressGen, peerGen, fault, ingress, inflight, routerMsg>>
    BY <1>9, Zenon DEF StartHeartbeat, SpawnHeartbeat
  <2> QED
    BY <2>1, <2>2, RouterMoves, Zenon DEF EpochInv, MessagesHavePeer
<1>10. CASE RequestNetworkStatus
  <2>1. /\ pc["router"] = "validProbe" /\ Return /\ lock' = "free"
        /\ UNCHANGED <<session, ingressGen, peerGen, fault, ingress, inflight>>
    BY <1>10, Zenon DEF RequestNetworkStatus
  <2> QED
    BY <2>1, ReturnEffect, Zenon DEF EpochInv, LockIsHeld, EpochsAgree, Unpublished, MessagesHavePeer
<1> QED
  BY <1>1, <1>2, <1>3, <1>4, <1>5, <1>6, <1>7, <1>8, <1>9, <1>10, <1>11, StopEpochs, Zenon DEF RouterStep

\* The epochs of core, engine, peer and messages agree in every state.
LEMMA StepEpochs ==
    ASSUME TypeOK, EpochInv, [Next]_vars
    PROVE  EpochInv'
BY TransportEpochs, ClientEpochs, StopEpochs, TaskEpochs, RouterEpochs, Zenon DEF Next

-----------------------------------------------------------------------------
(* The peer and its commands. *)

\* Steps that leave the peer, its commands and the reset alone.
LEMMA FramePeer ==
    ASSUME PeerInv, UNCHANGED <<ready, peerGen, ingressGen, validEpoch, commands>>,
           Swapping => Swapping',
           opened' = TRUE => opened = TRUE, opened \in BOOLEAN, opened' \in BOOLEAN,
           pc'["task"] \in {"reset", "prepared"} => pc["task"] \in {"reset", "prepared"} \/ ~opened'
    PROVE  PeerInv'
BY Zenon DEF PeerInv, CommandsOfPeerEpoch

\* Under the lock, outside a reset, an accepted command is of the epoch of the open peer.
LEMMA SendPeer ==
    ASSUME TypeOK, EpochInv, PeerInv, lock = "free" \/ pc["router"] = "validProbe",
           NEW accepted \in BOOLEAN, SendMessage(accepted), UNCHANGED peerGen
    PROVE  CommandsOfPeerEpoch'
<1>1. session \in Nat /\ commands \in Seq(Nat)
  BY Zenon DEF TypeOK, TransportTypeOK
<1>2. ingressGen = session
  BY Zenon DEF EpochInv, LockIsHeld, EpochsAgree, Unpublished
<1>3. CASE accepted
  <2>0. ~Swapping
    BY Zenon DEF Swapping, EpochInv, LockIsHeld
  <2>1. peerGen = session
    BY <1>2, <1>3, <2>0, Zenon DEF SendMessage, SendText, CanSend, PeerInv
  <2>2. commands' = Append(commands, session)
    BY <1>3, Zenon DEF SendMessage, SendText
  <2> QED
    BY <1>1, <2>1, <2>2 DEF PeerInv, CommandsOfPeerEpoch
<1>4. CASE ~accepted
  BY <1>4, Zenon DEF SendMessage, SendText, PeerInv, CommandsOfPeerEpoch
<1> QED
  BY <1>3, <1>4, Zenon

\* A sender under the lock keeps the rest of the link.
LEMMA SendFrame ==
    ASSUME TypeOK, EpochInv, PeerInv, lock = "free" \/ pc["router"] = "validProbe",
           \E accepted \in BOOLEAN : SendMessage(accepted),
           UNCHANGED <<ready, peerGen, ingressGen, validEpoch, opened>>,
           pc'["task"] = pc["task"]
    PROVE  PeerInv'
<1>1. CommandsOfPeerEpoch'
  BY SendPeer, Zenon
<1>2. ~Swapping
  BY Zenon DEF Swapping, EpochInv, LockIsHeld
<1> QED
  BY <1>1, <1>2, Zenon DEF PeerInv

\* A new generation leaves the peer of the old one to the store that follows.
LEMMA GenerationSwaps ==
    ASSUME TypeOK, EpochInv, PeerInv, Unpublished, SwapGeneration(session),
           UNCHANGED <<opened, validEpoch>>, ingressGen # session => Swapping',
           pc'["task"] \in {"reset", "prepared"} => pc["task"] \in {"reset", "prepared"}
    PROVE  PeerInv'
<1>1. ~Swapping
  BY Zenon DEF Swapping, Unpublished, EpochInv, LockIsHeld
<1>2. session \in Nat /\ ingressGen \in Nat /\ ingressGen = session - 1
  BY Zenon DEF TypeOK, TransportTypeOK, EpochInv, EpochsAgree
<1>3. ingressGen + 1 = session /\ ingressGen # session
  BY <1>2
<1>4. ready' # "closed" => peerGen + 1 = session
  BY <1>1, <1>3, Zenon DEF PeerInv, SwapGeneration
<1> QED
  BY <1>3, <1>4, Zenon DEF SwapGeneration, PeerInv, CommandsOfPeerEpoch

\* The store that follows closes the peer.
LEMMA ReadyCloses ==
    ASSUME TypeOK, PeerInv, CloseReady, UNCHANGED <<opened, validEpoch>>,
           pc'["task"] \in {"reset", "prepared"} => pc["task"] \in {"reset", "prepared"}
    PROVE  PeerInv'
BY Zenon DEF CloseReady, PeerInv, CommandsOfPeerEpoch

\* The steps of the transport.
LEMMA TransportPeer ==
    ASSUME TypeOK, EpochInv, PeerInv, TransportStep
    PROVE  PeerInv'
<1>1. UNCHANGED <<ingressGen, peerGen, validEpoch, opened, pc>>
  BY Zenon DEF TransportStep, RecordFault, PeerEvent, HandlerAdmit, HandlerEnqueue, WorkerStep, RecordTransportFault
<1>2. ready' # "closed" => ready # "closed"
  BY Zenon DEF TransportStep, RecordFault, PeerEvent, HandlerAdmit, HandlerEnqueue, WorkerStep, RecordTransportFault,
         ApplyEvent, Terminal
<1>3. CommandsOfPeerEpoch'
  <2>1. CASE UNCHANGED commands
    BY <1>1, <2>1, Zenon DEF PeerInv, CommandsOfPeerEpoch
  <2>2. CASE commands' = <<>>
    BY <2>2 DEF CommandsOfPeerEpoch
  <2>3. CASE commands # <<>> /\ commands' = Tail(commands)
    <3>1. \A i \in 1..Len(commands') : i + 1 \in 1..Len(commands) /\ commands'[i] = commands[i + 1]
      BY <2>3 DEF TypeOK, TransportTypeOK
    <3> QED
      BY <1>1, <3>1, Zenon DEF PeerInv, CommandsOfPeerEpoch
  <2> QED
    BY <2>1, <2>2, <2>3, Zenon DEF TransportStep, RecordFault, PeerEvent, HandlerAdmit, HandlerEnqueue, WorkerStep,
                            RecordTransportFault
<1>4. Swapping' = Swapping
  BY <1>1, Zenon DEF Swapping
<1> QED
  BY <1>1, <1>2, <1>3, <1>4, Zenon DEF PeerInv

\* The steps of the callers and of the heartbeat threads.
LEMMA ClientPeer ==
    ASSUME TypeOK, TypeOK', EpochInv, PeerInv,
           \/ \E r \in Reqs : \/ \E key \in Keys : Publish(r, key)
                              \/ PublishReturns(r)
                              \/ GuardDrop(r)
           \/ \E topic \in Topics : Subscribe(topic) \/ Unsubscribe(topic)
           \/ PublishWithoutCallback \/ SwitchChannel \/ TakeEvent \/ SixSecondsPass
           \/ \E h \in Heartbeats : HeartbeatStep(h)
           \/ OwnerDrop \/ Terminated \/ UNCHANGED vars
    PROVE  PeerInv'
<1>b. opened \in BOOLEAN /\ opened' \in BOOLEAN
  BY Zenon DEF TypeOK
<1>1. /\ UNCHANGED <<ready, peerGen, ingressGen, validEpoch, pc>>
      /\ opened' = opened \/ opened' = FALSE
  BY ZenonT(30) DEF Publish, PublishReturns, GuardDrop, Subscribe, Unsubscribe, PublishWithoutCallback,
         SwitchChannel, TakeEvent, SixSecondsPass, HeartbeatStep, HeartbeatCheck, HeartbeatLeave,
         HeartbeatTimeout, HeartbeatSend, HeartbeatWait, OwnerDrop, Terminated, vars
<1>2. \/ UNCHANGED commands
      \/ lock = "free" /\ UNCHANGED opened /\ \E accepted \in BOOLEAN : SendMessage(accepted)
  <2>1. CASE \E h \in Heartbeats : HeartbeatSend(h)
    BY <2>1, Zenon DEF HeartbeatSend, EpochMoved, SendMessage
  <2> QED
    BY <2>1, Zenon
       DEF Publish, PublishReturns, GuardDrop, Subscribe, Unsubscribe, PublishWithoutCallback,
           SwitchChannel, TakeEvent, SixSecondsPass, HeartbeatStep, HeartbeatCheck, HeartbeatLeave,
           HeartbeatTimeout, HeartbeatWait, OwnerDrop, Terminated, vars
<1>5. Swapping' = Swapping
  BY <1>1, Zenon DEF Swapping
<1>3. CASE UNCHANGED commands
  BY <1>1, <1>3, <1>5, <1>b, FramePeer, ZenonT(60)
<1>4. CASE lock = "free" /\ UNCHANGED opened /\ \E accepted \in BOOLEAN : SendMessage(accepted)
  BY <1>1, <1>4, SendFrame, Zenon
<1> QED
  BY <1>2, <1>3, <1>4, Zenon

\* stop_background_tasks, start_new_session.
LEMMA StopPeer ==
    ASSUME TypeOK, TypeOK', EpochInv, PeerInv, NEW a \in Actors, StopStep(a)
    PROVE  PeerInv'
<1>b. opened \in BOOLEAN /\ opened' \in BOOLEAN
  BY Zenon DEF TypeOK
<1>1. CASE PublishGeneration(a)
  <2>1. /\ SwapGeneration(session) /\ UNCHANGED <<opened, validEpoch>>
        /\ pc[a] = "bumped" /\ pc'[a] = IF ingressGen # session THEN "swapped" ELSE "clearing"
        /\ \A b \in Actors : b # a => pc'[b] = pc[b]
    BY <1>1, GotoEffect, Zenon DEF PublishGeneration
  <2>2. Unpublished /\ (ingressGen # session => Swapping')
    BY <2>1, Zenon DEF Unpublished, Swapping
  <2>3. pc'["task"] \in {"reset", "prepared"} => pc["task"] \in {"reset", "prepared"}
    BY <2>1, Zenon
  <2> QED
    BY <2>1, <2>2, <2>3, GenerationSwaps, Zenon
<1>3. CASE CloseOldPeer(a)
  <2>1. /\ CloseReady /\ UNCHANGED <<opened, validEpoch>>
        /\ pc'[a] = "clearing" /\ \A b \in Actors : b # a => pc'[b] = pc[b]
    BY <1>3, GotoEffect, Zenon DEF CloseOldPeer
  <2>2. pc'["task"] \in {"reset", "prepared"} => pc["task"] \in {"reset", "prepared"}
    BY <2>1, Zenon
  <2> QED
    BY <2>1, <2>2, ReadyCloses, Zenon
<1>2. CASE ~PublishGeneration(a) /\ ~CloseOldPeer(a)
  <2>0. pc[a] # "swapped"
    BY <1>2, Zenon DEF StopStep, StopRunning, StopSender, StopProbe, StopOpened, NewSession, ResetSession
  <2>4. ASSUME NEW step, Goto(a, step) PROVE Swapping => Swapping'
    <3>1. \/ a = "router" /\ pc["router"] \in StopSteps
          \/ a = "task"
      BY Zenon DEF StopStep, StopRunning, StopSender, StopProbe, StopOpened, NewSession, PublishGeneration,
                   CloseOldPeer, ResetSession, StopSteps
    <3> QED
      BY <2>0, <2>4, <3>1, GotoEffect, Zenon DEF Swapping, StopSteps
  <2>1. /\ UNCHANGED <<ready, peerGen, ingressGen, validEpoch, commands>>
        /\ opened' = opened \/ opened' = FALSE
    BY <1>2, Zenon DEF StopStep, StopRunning, StopSender, StopProbe, StopOpened, NewSession, ResetSession,
                ClearSession
  <2>2. CASE ResetSession(a)
    BY <1>b, <2>1, <2>2, <2>4, FramePeer, Zenon DEF ResetSession, ClearSession
  <2>3. CASE ~ResetSession(a)
    <3>1. PICK step \in {"stop1", "stop2", "stop3", "stop4", "bumped"} : Goto(a, step)
      BY <1>2, <2>3, Zenon DEF StopStep, StopRunning, StopSender, StopProbe, StopOpened, NewSession
    <3>2. pc'["task"] \in {"reset", "prepared"} => pc["task"] \in {"reset", "prepared"}
      BY <3>1, GotoEffect, Zenon
    <3> QED
      BY <1>b, <2>1, <2>4, <3>1, <3>2, FramePeer, ZenonT(60)
  <2> QED
    BY <2>2, <2>3, Zenon
<1> QED
  BY <1>1, <1>2, <1>3, Zenon

\* connect_validated_session and disconnect_session.
LEMMA TaskPeer ==
    ASSUME TypeOK, TypeOK', EpochInv, PeerInv, TaskStep
    PROVE  PeerInv'
<1>b. opened \in BOOLEAN /\ opened' \in BOOLEAN
  BY Zenon DEF TypeOK
<1>1. CASE StartReset
  <2>1. pc'["task"] = "stop0" /\ pc'["router"] = pc["router"] /\ pc["task"] # "swapped"
    BY <1>1, GotoEffect, Zenon DEF StartReset
  <2>2. Swapping => Swapping'
    BY <2>1, Zenon DEF Swapping
  <2> QED
    BY <1>1, <1>b, <2>1, <2>2, FramePeer, Zenon DEF StartReset
<1>2. CASE PrepareIngress
  BY <1>2, Zenon DEF PrepareIngress, SetIngressGeneration, PeerInv, CommandsOfPeerEpoch, Swapping,
              EpochInv, LockIsHeld
<1>3. CASE ConnectPeer
  <2>1. pc["task"] = "prepared" /\ pc'["task"] = "idle"
    BY <1>3, GotoEffect, Zenon DEF ConnectPeer
  <2> QED
    BY <1>3, <2>1 DEF ConnectPeer, PrepareOffer, PeerInv, CommandsOfPeerEpoch
<1>4. CASE Rollback
  <2>1. pc'["task"] = "idle"
    BY <1>4, GotoEffect, Zenon DEF Rollback
  <2> QED
    BY <1>4, <2>1 DEF Rollback, Close, PeerInv, CommandsOfPeerEpoch
<1> QED
  BY <1>1, <1>2, <1>3, <1>4, Zenon DEF TaskStep

\* What the router processes is of the epoch of the current peer.
LEMMA ProcessingHasPeer ==
    ASSUME TypeOK, EpochInv, NEW kinds, Processing(kinds)
    PROVE  /\ peerGen = session /\ ingressGen = session /\ lock = "free"
           /\ pc["task"] \notin {"bumped", "swapped", "clearing", "reset", "prepared"}
BY DEF TypeOK, TransportTypeOK, Processing, Stale, EpochInv, LockIsHeld, EpochsAgree, Unpublished,
       MessagesHavePeer

\* run_message_loop and process_ingress.
LEMMA RouterPeer ==
    ASSUME TypeOK, TypeOK', EpochInv, PeerInv, RouterStep
    PROVE  PeerInv'
<1>b. opened \in BOOLEAN /\ opened' \in BOOLEAN
  BY Zenon DEF TypeOK
<1>1. CASE StopStep("router")
  BY <1>1, StopPeer, Zenon
<1>2. CASE ValidationOk
  <2>1. pc'["task"] = pc["task"]
    BY <1>2, GotoEffect, Zenon DEF ValidationOk
  <2>2. peerGen = session /\ pc["task"] \notin {"reset", "prepared"}
    BY <1>2, ProcessingHasPeer, Zenon DEF ValidationOk
  <2>3. ~Swapping
    BY <1>2, Zenon DEF ValidationOk, Processing, Swapping, EpochInv, LockIsHeld
  <2> QED
    BY <1>2, <2>1, <2>2, <2>3, Zenon DEF ValidationOk, PeerInv, CommandsOfPeerEpoch
<1>3. CASE ProcessText
  <2>1. pc'["task"] = pc["task"]
    BY <1>3, ReturnEffect, Zenon DEF ProcessText
  <2> QED
    BY <1>3, <2>1, SendFrame, Zenon DEF ProcessText, Processing
<1>4. CASE RequestNetworkStatus
  <2>1. pc'["task"] = pc["task"]
    BY <1>4, ReturnEffect, Zenon DEF RequestNetworkStatus
  <2> QED
    BY <1>4, <2>1, SendFrame, Zenon DEF RequestNetworkStatus
<1>5. CASE FaultGeneration
  <2>1. /\ pc'["task"] = pc["task"] /\ pc["router"] = "faultBumped"
        /\ ingressGen # session => pc'["router"] = "faultSwapped"
    BY <1>5, GotoEffect, Zenon DEF FaultGeneration
  <2>2. Unpublished /\ (ingressGen # session => Swapping')
    BY <2>1, Zenon DEF Unpublished, Swapping
  <2> QED
    BY <1>5, <2>1, <2>2, GenerationSwaps, Zenon DEF FaultGeneration
<1>7. CASE FaultCloseOldPeer
  <2>1. pc'["task"] = pc["task"]
    BY <1>7, GotoEffect, Zenon DEF FaultCloseOldPeer
  <2> QED
    BY <1>7, <2>1, ReadyCloses, Zenon DEF FaultCloseOldPeer
<1>6. CASE \/ TakeFault \/ ExpireChunks \/ Receive \/ ProcessStale \/ ProcessFault \/ FaultClear
           \/ ProcessChunk \/ ProcessBinary \/ StartHeartbeat
           \/ \E h \in Heartbeats : SpawnHeartbeat(h)
  <2>1. (\E step : Goto("router", step)) \/ Return
    BY <1>6, Zenon DEF TakeFault, ExpireChunks, Receive, ProcessStale, ProcessFault, FaultClear,
                ProcessChunk, ProcessBinary, StartHeartbeat, SpawnHeartbeat
  <2>2. pc'["task"] = pc["task"]
    BY <2>1, GotoEffect, ReturnEffect, Zenon
  <2>3. /\ UNCHANGED <<ready, peerGen, ingressGen, validEpoch, commands>>
        /\ opened' = opened \/ opened' = FALSE
    BY <1>6, Zenon DEF TakeFault, TakeTransportError, ExpireChunks, Receive, ProcessStale, ProcessFault,
                FaultClear, ClearSession, ProcessChunk, ProcessBinary, StartHeartbeat, SpawnHeartbeat
  <2>4. pc["router"] \notin {"swapped", "faultSwapped"}
    BY <1>6, Zenon DEF TakeFault, ExpireChunks, Receive, ProcessStale, ProcessFault, FaultClear,
                ProcessChunk, ProcessBinary, Processing, StartHeartbeat, SpawnHeartbeat
  <2>5. Swapping => Swapping'
    BY <2>2, <2>4, Zenon DEF Swapping
  <2> QED
    BY <1>b, <2>2, <2>3, <2>5, FramePeer, Zenon
<1> QED
  BY <1>1, <1>2, <1>3, <1>4, <1>5, <1>6, <1>7, Zenon DEF RouterStep

\* The peer, its commands and the readiness of the channel stay of one epoch.
LEMMA StepPeer ==
    ASSUME TypeOK, TypeOK', EpochInv, PeerInv, [Next]_vars
    PROVE  PeerInv'
BY TransportPeer, ClientPeer, StopPeer, TaskPeer, RouterPeer, Zenon DEF Next

-----------------------------------------------------------------------------
(* The watch over a validated session. *)

\* Steps that leave the watch alone.
LEMMA FrameWatch ==
    ASSUME TypeOK, WatchInv, owner' => owner,
           UNCHANGED <<opened, hbRunning, stopTx, hb, session, pc>>
    PROVE  WatchInv'
BY Zenon DEF WatchInv, Undisturbed, InReset, Resetting, Watched

\* A reset disturbs, and when it ends nothing is opened or running.
LEMMA ResetWatch ==
    ASSUME \/ pc'["task"] \in StopSteps
           \/ pc'["router"] \in StopSteps \cup {"faultBumped", "faultSwapped", "faultClearing"}
           \/ hbRunning' = FALSE /\ opened' = FALSE /\ pc'["router"] # "validSpawn"
    PROVE  WatchInv'
BY Zenon DEF WatchInv, Undisturbed, InReset, Resetting, StopSteps

\* The heartbeat threads.
LEMMA HeartbeatWatch ==
    ASSUME TypeOK, EpochInv, WatchInv, NEW h \in Heartbeats, HeartbeatStep(h)
    PROVE  WatchInv'
<1>t. /\ hb \in [Heartbeats -> [pc : {"off", "check", "iterate", "wait"}, epoch : Nat]]
      /\ stopTx \in Heartbeats \cup {None} /\ None \notin Heartbeats
  BY NoneAssumption, Zenon DEF TypeOK
<1>1. CASE HeartbeatTimeout(h)
  <2>1. pc'["router"] # "validSpawn"
    BY <1>1, Zenon DEF HeartbeatTimeout, EpochInv, LockIsHeld
  <2> QED
    BY <1>1, <2>1, ResetWatch, Zenon DEF HeartbeatTimeout, StopHeartbeat
<1>2. CASE HeartbeatCheck(h) \/ HeartbeatLeave(h) \/ HeartbeatSend(h) \/ HeartbeatWait(h)
  <2>1. UNCHANGED <<opened, hbRunning, stopTx, session, pc, owner>>
    BY <1>2, Zenon DEF HeartbeatCheck, HeartbeatLeave, HeartbeatSend, HeartbeatWait
  <2>2. \A g \in Heartbeats : hb'[g].epoch = hb[g].epoch /\ (g # h => hb'[g] = hb[g])
    BY <1>2, <1>t DEF HeartbeatCheck, HeartbeatLeave, HeartbeatSend, HeartbeatWait
  <2>3. hbRunning /\ owner /\ stopTx = h /\ hb[h].epoch = session => hb'[h].pc # "off"
    BY <1>2, <1>t, Zenon DEF HeartbeatCheck, HeartbeatLeave, HeartbeatSend, HeartbeatWait, EpochMoved
  <2>4. hbRunning /\ owner /\ Watched => Watched'
    BY <1>t, <2>1, <2>2, <2>3, Zenon DEF Watched
  <2>5. Undisturbed' = Undisturbed
    BY <2>1, Zenon DEF Undisturbed, InReset, Resetting
  <2>6. Undisturbed => owner
    BY Zenon DEF Undisturbed
  <2> QED
    BY <2>1, <2>4, <2>5, <2>6, Zenon DEF WatchInv
<1> QED
  BY <1>1, <1>2, Zenon DEF HeartbeatStep

\* The steps of the callers and of the transport.
LEMMA ClientWatch ==
    ASSUME TypeOK, WatchInv,
           \/ \E r \in Reqs : \/ \E key \in Keys : Publish(r, key)
                              \/ PublishReturns(r)
                              \/ GuardDrop(r)
           \/ \E topic \in Topics : Subscribe(topic) \/ Unsubscribe(topic)
           \/ PublishWithoutCallback \/ SwitchChannel \/ TakeEvent \/ SixSecondsPass
           \/ TransportStep
           \/ OwnerDrop \/ Terminated \/ UNCHANGED vars
    PROVE  WatchInv'
<1>1. UNCHANGED <<opened, hbRunning, stopTx, hb, session, pc>> /\ (owner' = owner \/ owner' = FALSE)
  BY Zenon DEF Publish, PublishReturns, GuardDrop, Subscribe, Unsubscribe, PublishWithoutCallback,
         SwitchChannel, TakeEvent, SixSecondsPass, TransportStep, RecordFault, OwnerDrop, Terminated, vars
<1>2. owner' => owner
  BY <1>1, Zenon
<1> QED
  BY <1>1, <1>2, FrameWatch, Zenon

\* stop_background_tasks, start_new_session.
LEMMA StopWatch ==
    ASSUME TypeOK, EpochInv, NEW a \in Actors, StopStep(a)
    PROVE  WatchInv'
<1>1. CASE ResetSession(a)
  <2>1. pc'["router"] # "validSpawn"
    BY <1>1, GotoEffect DEF ResetSession, EpochInv, LockIsHeld
  <2> QED
    BY <1>1, <2>1, ResetWatch, Zenon DEF ResetSession, ClearSession, StopHeartbeat
<1>2. CASE ~ResetSession(a)
  <2>1. PICK step \in StopSteps : Goto(a, step)
    BY <1>2, Zenon DEF StopStep, StopRunning, StopSender, StopProbe, StopOpened, NewSession,
                PublishGeneration, CloseOldPeer, StopSteps
  <2>2. pc'[a] \in StopSteps
    BY <2>1, GotoEffect, Zenon
  <2> QED
    BY <2>2, ResetWatch, ZenonT(60)
<1> QED
  BY <1>1, <1>2, Zenon

\* The session task between two resets.
LEMMA TaskWatch ==
    ASSUME TypeOK, WatchInv, TaskStep
    PROVE  WatchInv'
<1>1. CASE StartReset
  <2>1. pc'["task"] \in StopSteps
    BY <1>1, GotoEffect, Zenon DEF StartReset, StopSteps
  <2> QED
    BY <2>1, ResetWatch, Zenon
<1>2. CASE PrepareIngress \/ ConnectPeer \/ Rollback
  <2>1. UNCHANGED <<opened, hbRunning, stopTx, hb, session, owner>>
    BY <1>2, Zenon DEF PrepareIngress, ConnectPeer, Rollback
  <2>2. /\ pc'["router"] = pc["router"] /\ pc["task"] \in {"reset", "prepared"}
        /\ pc'["task"] \in {"prepared", "idle"}
    BY <1>2, GotoEffect, Zenon DEF PrepareIngress, ConnectPeer, Rollback
  <2>3. Undisturbed' => Undisturbed
    BY <2>1, <2>2, Zenon DEF Undisturbed, InReset, Resetting, StopSteps
  <2>4. Watched' = Watched
    BY <2>1, Zenon DEF Watched
  <2> QED
    BY <2>1, <2>2, <2>3, <2>4, Zenon DEF WatchInv
<1> QED
  BY <1>1, <1>2, Zenon DEF TaskStep

\* Steps of the router that neither reset nor validate.
LEMMA LoopWatch ==
    ASSUME TypeOK, WatchInv, UNCHANGED <<opened, hbRunning, stopTx, hb, session, owner>>,
           pc'["task"] = pc["task"],
           pc["router"] \in {"top", "expire", "recv", "process", "validProbe"},
           pc'["router"] \in {"top", "expire", "recv", "process"}
    PROVE  WatchInv'
<1>1. Undisturbed' => Undisturbed
  BY Zenon DEF Undisturbed, InReset, Resetting, StopSteps
<1>2. Watched' = Watched
  BY Zenon DEF Watched
<1> QED
  BY <1>1, <1>2, Zenon DEF WatchInv

\* run_message_loop and process_ingress.
LEMMA RouterWatch ==
    ASSUME TypeOK, EpochInv, WatchInv, RouterStep
    PROVE  WatchInv'
<1>1. CASE StopStep("router")
  BY <1>1, StopWatch, Zenon
<1>2. CASE TakeFault
  <2>1. CASE OwnerGone
    <3>1. pc'["router"] \in StopSteps
      BY <1>2, <2>1, GotoEffect, Zenon DEF TakeFault, StopSteps
    <3> QED
      BY <3>1, ResetWatch, Zenon
  <2>2. CASE ~OwnerGone
    <3>1. PICK step \in {"process", "expire"} : Goto("router", step)
      BY <1>2, <2>2, Zenon DEF TakeFault
    <3>2. pc'["router"] = step /\ pc'["task"] = pc["task"]
      BY <3>1, GotoEffect, Zenon
    <3> QED
      BY <1>2, <3>2, LoopWatch, Zenon DEF TakeFault
  <2> QED
    BY <2>1, <2>2, Zenon
<1>3. CASE ExpireChunks \/ Receive
  <2>1. PICK step \in {"recv", "top", "process"} : Goto("router", step)
    BY <1>3, Zenon DEF ExpireChunks, Receive
  <2>2. pc'["router"] = step /\ pc'["task"] = pc["task"]
    BY <2>1, GotoEffect, Zenon
  <2>3. /\ pc["router"] \in {"expire", "recv"}
        /\ UNCHANGED <<opened, hbRunning, stopTx, hb, session, owner>>
    BY <1>3, Zenon DEF ExpireChunks, Receive
  <2> QED
    BY <2>2, <2>3, LoopWatch, Zenon
<1>4. CASE ProcessStale \/ ProcessText \/ ProcessChunk \/ ProcessBinary \/ RequestNetworkStatus
  <2>1. /\ Return /\ pc["router"] \in {"process", "validProbe"}
        /\ UNCHANGED <<opened, hbRunning, stopTx, hb, session, owner>>
    BY <1>4, Zenon DEF ProcessStale, ProcessText, ProcessChunk, ProcessBinary, RequestNetworkStatus, Processing
  <2> QED
    BY <2>1, ReturnEffect, LoopWatch, Zenon
<1>5. CASE ProcessFault \/ FaultGeneration \/ FaultCloseOldPeer
  <2>1. pc'["router"] \in {"faultBumped", "faultSwapped", "faultClearing"}
    BY <1>5, GotoEffect, Zenon DEF ProcessFault, FaultGeneration, FaultCloseOldPeer
  <2> QED
    BY <2>1, ResetWatch, Zenon
<1>6. CASE FaultClear
  <2>1. pc'["router"] # "validSpawn"
    BY <1>6, ReturnEffect, Zenon DEF FaultClear
  <2> QED
    BY <1>6, <2>1, ResetWatch, Zenon DEF FaultClear, ClearSession, StopHeartbeat
<1>7. CASE ValidationOk \/ StartHeartbeat
  <2>1. UNCHANGED <<stopTx, hb, session, owner>>
    BY <1>7, Zenon DEF ValidationOk, StartHeartbeat
  <2>2. PICK step \in {"validCas", "validProbe", "validSpawn"} : Goto("router", step)
    BY <1>7, Zenon DEF ValidationOk, StartHeartbeat
  <2>3. /\ pc["router"] \in {"process", "validCas"}
        /\ pc'["router"] = step /\ pc'["task"] = pc["task"]
    BY <1>7, <2>2, GotoEffect, Zenon DEF ValidationOk, StartHeartbeat, Processing
  <2>4. Undisturbed' => Undisturbed
    BY <2>1, <2>3, Zenon DEF Undisturbed, InReset, Resetting, StopSteps
  <2>5. Watched' = Watched
    BY <2>1, Zenon DEF Watched
  <2>6. CASE ValidationOk
    <3>1. pc'["router"] = "validCas" /\ UNCHANGED hbRunning /\ pc["router"] # "validSpawn"
      BY <2>3, <2>6, GotoEffect, Zenon DEF ValidationOk
    <3> QED
      BY <2>4, <2>5, <3>1, Zenon DEF WatchInv
  <2>7. CASE StartHeartbeat
    <3>1. /\ hbRunning' = TRUE /\ pc["router"] = "validCas"
          /\ pc'["router"] = IF hbRunning THEN "validProbe" ELSE "validSpawn"
      BY <2>7, GotoEffect, Zenon DEF StartHeartbeat
    <3> QED
      BY <2>4, <2>5, <3>1, Zenon DEF WatchInv
  <2> QED
    BY <1>7, <2>6, <2>7, Zenon
<1>8. ASSUME NEW h \in Heartbeats, SpawnHeartbeat(h) PROVE WatchInv'
  <2>1. /\ pc["router"] = "validSpawn" /\ pc'["router"] = "validProbe" /\ pc'["task"] = pc["task"]
        /\ UNCHANGED <<opened, hbRunning, session, owner>>
    BY <1>8, GotoEffect, Zenon DEF SpawnHeartbeat
  <2>2. Watched'
    BY <1>8, NoneAssumption, Zenon DEF SpawnHeartbeat, Watched, TypeOK
  <2>3. Undisturbed' => Undisturbed
    BY <2>1, Zenon DEF Undisturbed, InReset, Resetting, StopSteps
  <2> QED
    BY <2>1, <2>2, <2>3, Zenon DEF WatchInv
<1> QED
  BY <1>1, <1>2, <1>3, <1>4, <1>5, <1>6, <1>7, <1>8 DEF RouterStep

\* A validated session stays watched.
LEMMA StepWatch ==
    ASSUME TypeOK, EpochInv, WatchInv, [Next]_vars
    PROVE  WatchInv'
BY HeartbeatWatch, ClientWatch, StopWatch, TaskWatch, RouterWatch, Zenon DEF Next

-----------------------------------------------------------------------------
(* The transport fault. *)

\* Steps that leave worker, peer, epoch, fault and the router's message alone.
LEMMA FrameFault ==
    ASSUME FaultIsRetained, UNCHANGED <<worker, peerGen, session, fault, routerMsg>>,
           pc'["router"] = pc["router"]
    PROVE  FaultIsRetained'
BY Zenon DEF FaultIsRetained

\* The command task and the callbacks of the peer.
LEMMA TransportFault ==
    ASSUME TypeOK, EpochInv, FaultIsRetained, TransportStep
    PROVE  FaultIsRetained'
<1>t. session \in Nat /\ ingressGen \in Nat /\ peerGen \in Nat
  BY Zenon DEF TypeOK, TransportTypeOK
<1>1. UNCHANGED <<peerGen, session, routerMsg, pc, ingressGen>>
  BY Zenon DEF TransportStep, RecordFault, PeerEvent, HandlerAdmit, HandlerEnqueue, WorkerStep, RecordTransportFault
<1>2. peerGen = session => ingressGen = session
  BY <1>t DEF EpochInv, EpochsAgree
<1>3. CASE WorkerStep
  <2>1. worker' = "done" => peerGen # ingressGen
    BY <1>3, Zenon DEF WorkerStep
  <2> QED
    BY <1>1, <1>2, <2>1, Zenon DEF FaultIsRetained
<1>4. CASE RecordTransportFault
  BY <1>1, <1>2, <1>4, Zenon DEF RecordTransportFault, RetainFault, FaultIsRetained
<1>5. CASE UNCHANGED <<worker, fault>>
  BY <1>1, <1>5, FrameFault, Zenon
<1> QED
  BY <1>3, <1>4, <1>5, Zenon DEF TransportStep, RecordFault, PeerEvent, HandlerAdmit, HandlerEnqueue

\* The steps of the callers and of the heartbeat threads.
LEMMA ClientFault ==
    ASSUME FaultIsRetained,
           \/ \E r \in Reqs : \/ \E key \in Keys : Publish(r, key)
                              \/ PublishReturns(r)
                              \/ GuardDrop(r)
           \/ \E topic \in Topics : Subscribe(topic) \/ Unsubscribe(topic)
           \/ PublishWithoutCallback \/ SwitchChannel \/ TakeEvent \/ SixSecondsPass
           \/ \E h \in Heartbeats : HeartbeatStep(h)
           \/ OwnerDrop \/ Terminated \/ UNCHANGED vars
    PROVE  FaultIsRetained'
<1>1. UNCHANGED <<worker, peerGen, session, fault, routerMsg, pc>>
  BY Zenon DEF Publish, PublishReturns, GuardDrop, Subscribe, Unsubscribe, PublishWithoutCallback,
         SwitchChannel, TakeEvent, SixSecondsPass, HeartbeatStep, HeartbeatCheck, HeartbeatLeave,
         HeartbeatTimeout, HeartbeatSend, HeartbeatWait, OwnerDrop, Terminated, vars
<1> QED
  BY <1>1, FrameFault, Zenon

\* The session task and the resets: the fault is cleared only once its epoch is over.
LEMMA ResetFault ==
    ASSUME TypeOK, EpochInv, FaultIsRetained,
           TaskStep \/ \E a \in Actors : StopStep(a)
    PROVE  FaultIsRetained'
<1>t. session \in Nat /\ ingressGen \in Nat /\ peerGen \in Nat
  BY Zenon DEF TypeOK, TransportTypeOK
<1>1. CASE StartReset
  <2>1. pc'["router"] = pc["router"]
    BY <1>1, GotoEffect, Zenon DEF StartReset
  <2> QED
    BY <1>1, <2>1, FrameFault, Zenon DEF StartReset
<1>2. CASE PrepareIngress
  <2>1. UNCHANGED <<peerGen, session>> /\ peerGen < session
    BY <1>2, Zenon DEF PrepareIngress, SetIngressGeneration, EpochInv, EpochsAgree
  <2> QED
    BY <1>t, <2>1 DEF FaultIsRetained
<1>3. CASE ConnectPeer \/ Rollback
  BY <1>3, Zenon DEF ConnectPeer, Rollback, PrepareOffer, Close, FaultIsRetained
<1>4. ASSUME NEW a \in Actors, StopStep(a) PROVE FaultIsRetained'
  <2>1. CASE NewSession(a)
    <3>1. session' = session + 1 /\ UNCHANGED peerGen /\ peerGen <= session
      BY <1>t, <2>1 DEF NewSession, EpochInv, EpochsAgree
    <3> QED
      BY <1>t, <3>1 DEF FaultIsRetained
  <2>2. CASE PublishGeneration(a)
    <3>1. UNCHANGED <<session, peerGen>> /\ peerGen <= session - 1
      BY <1>t, <2>2, Zenon DEF PublishGeneration, SwapGeneration, EpochInv, EpochsAgree, Unpublished
    <3> QED
      BY <1>t, <3>1 DEF FaultIsRetained
  <2>3. CASE ~NewSession(a) /\ ~PublishGeneration(a)
    <3>1. UNCHANGED <<worker, peerGen, session, fault, routerMsg>> /\ pc[a] # "process"
      BY <1>4, <2>3, Zenon DEF StopStep, StopRunning, StopSender, StopProbe, StopOpened, CloseOldPeer, CloseReady,
                      ResetSession
    <3>2. PICK step : Goto(a, step)
      BY <1>4, <2>3, Zenon DEF StopStep, StopRunning, StopSender, StopProbe, StopOpened, CloseOldPeer, CloseReady,
                      ResetSession
    <3>3. pc["router"] = "process" => pc'["router"] = "process"
      BY <3>1, <3>2, GotoEffect, Zenon
    <3> QED
      BY <3>1, <3>3, Zenon DEF FaultIsRetained
  <2> QED
    BY <2>1, <2>2, <2>3, Zenon
<1> QED
  BY <1>1, <1>2, <1>3, <1>4, Zenon DEF TaskStep

\* The router: it takes the fault out of the slot into its own hands, and
\* puts it down only when the epoch is over.
LEMMA RouterFault ==
    ASSUME TypeOK, EpochInv, FaultIsRetained, RouterStep
    PROVE  FaultIsRetained'
<1>t. session \in Nat /\ ingressGen \in Nat /\ peerGen \in Nat /\ fault \in Nat
  BY Zenon DEF TypeOK, TransportTypeOK
<1>1. CASE StopStep("router")
  BY <1>1, ResetFault, Zenon
<1>2. CASE TakeFault
  <2>1. UNCHANGED <<worker, peerGen, session>> /\ pc["router"] # "process"
    BY <1>2, Zenon DEF TakeFault, TakeTransportError
  <2>2. CASE OwnerGone \/ ~FaultWaiting
    <3>1. UNCHANGED fault
      BY <1>2, <2>2, Zenon DEF TakeFault
    <3> QED
      BY <2>1, <3>1, Zenon DEF FaultIsRetained
  <2>3. CASE ~OwnerGone /\ FaultWaiting
    <3>1. pc'["router"] = "process" /\ routerMsg' = [gen |-> fault, body |-> FaultBody]
      BY <1>2, <2>3, GotoEffect, Zenon DEF TakeFault
    <3> QED
      BY <2>1, <3>1, Zenon DEF FaultIsRetained
  <2> QED
    BY <2>2, <2>3, Zenon
<1>3. CASE ExpireChunks \/ Receive \/ FaultCloseOldPeer \/ FaultClear \/ StartHeartbeat \/ RequestNetworkStatus
           \/ \E h \in Heartbeats : SpawnHeartbeat(h)
  <2>1. UNCHANGED <<worker, peerGen, session, fault>> /\ pc["router"] # "process"
    BY <1>3, Zenon DEF ExpireChunks, Receive, FaultCloseOldPeer, CloseReady, FaultClear, StartHeartbeat, RequestNetworkStatus, SpawnHeartbeat
  <2> QED
    BY <2>1, Zenon DEF FaultIsRetained
<1>4. CASE ProcessStale \/ ProcessText \/ ProcessChunk \/ ProcessBinary \/ ValidationOk
  <2>1. UNCHANGED <<worker, peerGen, session, fault>>
    BY <1>4, Zenon DEF ProcessStale, ProcessText, ProcessChunk, ProcessBinary, ValidationOk
  <2>2. routerMsg.gen # session \/ routerMsg.body.kind # "fault"
    BY <1>4, Zenon DEF ProcessStale, ProcessText, ProcessChunk, ProcessBinary, ValidationOk, Processing, Stale
  <2>3. routerMsg # [gen |-> session, body |-> FaultBody]
    BY <2>2 DEF FaultBody
  <2> QED
    BY <2>1, <2>3, Zenon DEF FaultIsRetained
<1>5. CASE ProcessFault
  <2>1. session' = session + 1 /\ UNCHANGED peerGen /\ peerGen <= session
    BY <1>t, <1>5 DEF ProcessFault, EpochInv, EpochsAgree
  <2> QED
    BY <1>t, <2>1 DEF FaultIsRetained
<1>6. CASE FaultGeneration
  <2>1. UNCHANGED <<session, peerGen>> /\ peerGen <= session - 1
    BY <1>t, <1>6, Zenon DEF FaultGeneration, SwapGeneration, EpochInv, EpochsAgree, Unpublished
  <2> QED
    BY <1>t, <2>1 DEF FaultIsRetained
<1> QED
  BY <1>1, <1>2, <1>3, <1>4, <1>5, <1>6, Zenon DEF RouterStep

\* A fault of the current epoch is not lost.
LEMMA StepFault ==
    ASSUME TypeOK, EpochInv, FaultIsRetained, [Next]_vars
    PROVE  FaultIsRetained'
BY TransportFault, ClientFault, ResetFault, RouterFault, Zenon DEF Next

-----------------------------------------------------------------------------
(* The link of the core to its peer. *)

\* The inductive invariant of the link holds at the start.
LEMMA InitLink == Init => LinkInv
<1> SUFFICES ASSUME Init PROVE LinkInv
  BY Zenon
<1>1. /\ session = 1 /\ ingressGen = 1 /\ peerGen = 0 /\ fault = 0 /\ routerMsg.gen = 0
      /\ ready = "closed" /\ worker = "none" /\ lock = "free"
      /\ opened = FALSE /\ hbRunning = FALSE
      /\ inflight = {} /\ ingress = <<>> /\ commands = <<>>
  BY Zenon DEF Init, TransportInit, NoMessage
<1>2. pc["router"] = "top" /\ pc["task"] = "idle"
  BY Zenon DEF Init
<1>3. LockIsHeld /\ EpochsAgree
  BY <1>1, <1>2 DEF LockIsHeld, EpochsAgree, Unpublished
<1>4. MessagesHavePeer
  BY <1>1 DEF MessagesHavePeer
<1>5. PeerInv
  BY <1>1, <1>2 DEF PeerInv, CommandsOfPeerEpoch
<1>6. WatchInv
  BY <1>1, <1>2, Zenon DEF WatchInv
<1>7. FaultIsRetained
  BY <1>1, Zenon DEF FaultIsRetained
<1> QED
  BY <1>3, <1>4, <1>5, <1>6, <1>7, Zenon DEF LinkInv, EpochInv

\* Every behaviour of the core keeps the inductive invariant of the link.
LEMMA LinkCorrect == Spec => [](TypeOK /\ LinkInv)
<1>1. Init => TypeOK /\ LinkInv
  BY InitType, InitLink, Zenon
<1>2. TypeOK /\ LinkInv /\ [Next]_vars => (TypeOK /\ LinkInv)'
  BY NextType, StepEpochs, StepPeer, StepWatch, StepFault, Zenon DEF LinkInv
<1> QED
  BY <1>1, <1>2, PTL DEF Spec

\* is_open, read without a lock, implies a peer validated in its own generation, which is
\* the current one except between the two stores of set_ingress_generation.
THEOREM OpenCorrect == Spec => []OpenMeansValidated
<1>1. TypeOK /\ LinkInv => OpenMeansValidated
  BY Zenon DEF LinkInv, PeerInv, OpenMeansValidated
<1> QED
  BY <1>1, LinkCorrect, PTL

\* A queued command is of the epoch of the peer that will send it.
THEOREM CommandsCorrect == Spec => []CommandsOfPeerEpoch
<1>1. TypeOK /\ LinkInv => CommandsOfPeerEpoch
  BY Zenon DEF LinkInv, PeerInv
<1> QED
  BY <1>1, LinkCorrect, PTL

\* A validated session has a live heartbeat thread of its epoch.
THEOREM WatchCorrect == Spec => []ValidatedIsWatched
<1>1. TypeOK /\ LinkInv => ValidatedIsWatched
  BY Zenon DEF LinkInv, WatchInv, Undisturbed, Watched, ValidatedIsWatched, Validating
<1> QED
  BY <1>1, LinkCorrect, PTL

\* The fault of a dead command task waits in the slot or is in the router's hands.
THEOREM FaultCorrect == Spec => []FaultIsRetained
<1>1. TypeOK /\ LinkInv => FaultIsRetained
  BY Zenon DEF LinkInv
<1> QED
  BY <1>1, LinkCorrect, PTL
==============================================================================
