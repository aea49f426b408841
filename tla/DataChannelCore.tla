---------------------------- MODULE DataChannelCore ----------------------------
(***************************************************************************)
(* DataChannelService: the router thread, the publish calls, the heartbeat *)
(* threads and the session task that resets the core before and after each *)
(* connection, over the transport of DataChannelTransport.                 *)
(*                                                                         *)
(* Everything done under lifecycle_lock is one step, except where an actor *)
(* that does not take the lock can observe or disturb the middle of it:    *)
(* the epoch bump of a reset, the two stores of set_ingress_generation and *)
(* the handling of "Validation Ok.".  The four stores that                 *)
(* stop_background_tasks makes before it takes the lock are four steps.    *)
(***************************************************************************)
EXTENDS DataChannelTransport, FiniteSets

CONSTANTS
    Keys,           \* message keys (identifier or "type $ topic")
    Reqs,           \* publish calls; the identity of a call is its token
    Topics,         \* topics an application may subscribe to
    Heartbeats,     \* heartbeat threads that can be alive together
    MaxPending,     \* MAX_PENDING_REQUESTS
    EventCapacity,  \* room in the callback event channel
    MaxEpoch,       \* bound: the session task starts no reset at this epoch
    None            \* the absent key, request, topic or thread

ASSUME NoneAssumption == None \notin Keys \cup Reqs \cup Topics \cup Heartbeats

ASSUME WireAssumption ==
    \A b \in Wire : /\ b.kind \in {"response", "chunk", "reject", "lidar", "heartbeat",
                                   "validOk", "challenge", "needed", "rtt", "network"}
                    /\ b.key \in Keys
                    /\ b.topic \in Topics \cup {None}
                    /\ b.ok \in BOOLEAN
                    /\ b.kind = "chunk" => b.outcome \in {"more", "done", "bad", "big"}

VARIABLES
    session,        \* session_id, shared with the event channel
    lock,           \* who keeps lifecycle_lock between two steps
    owner,          \* external_owner is alive
    opened,         \* data_channel_opened
    lastResponse,   \* age of heartbeat_last_response: "none", "recent", "old" (> 6 s)
    hbRunning,      \* heartbeat_running
    stopTx,         \* thread whose stop sender heartbeat_stop_tx holds
    probe,          \* network_probe_running
    validationKey,  \* epoch that stored validation_key; 0 while it is empty
    pending,        \* pending_callbacks: key -> publish call
    req,            \* the publish calls
    chunks,         \* chunk_data_storage: key -> epoch of its first chunk, 0 if none
    subs,           \* subscriptions
    events,         \* callback events queued by dispatch_subscription
    hb,             \* heartbeat threads
    routerMsg,      \* the message the router processes
    resume,         \* where run_message_loop continues after process_ingress
    pc,             \* program counters of the router and the session task
    validEpoch      \* history: the epoch that last saw "Validation Ok."

sessionVars == <<session, lock, owner>>
linkVars    == <<opened, lastResponse, hbRunning, stopTx, probe, validationKey, validEpoch>>
requestVars == <<pending, req, chunks>>
eventVars   == <<subs, events>>
threadVars  == <<hb, routerMsg, resume, pc>>

vars == <<transportVars, sessionVars, linkVars, requestVars, eventVars, threadVars>>

Actors == {"router", "task"}

StopSteps == {"stop0", "stop1", "stop2", "stop3", "stop4", "bumped", "swapped", "clearing"}

RouterSteps == {"top", "expire", "recv", "process", "validCas", "validSpawn",
                "validProbe", "faultBumped", "faultSwapped", "faultClearing", "done"}

TaskSteps == {"idle", "reset", "prepared"}

NoMessage == [gen |-> 0, body |-> FaultBody]

\* A publish call: where it is, its key and epoch, what its oneshot slot holds
\* and (history) the epoch of the message that filled it.
Calls == [pc : {"idle", "waiting", "dropping", "done"}, key : Keys \cup {None},
          session : Nat, slot : {"empty", "ok", "err"}, by : Nat]

NoCall == [pc |-> "idle", key |-> None, session |-> 0, slot |-> "empty", by |-> 0]

\* What the fields of DataChannelService, its calls and its threads can hold; the
\* ready state stays one of those apply_event of state.rs can reach.
TypeOK ==
    /\ TransportTypeOK
    /\ session \in Nat /\ lock \in Actors \cup {"free"} /\ owner \in BOOLEAN
    /\ opened \in BOOLEAN /\ hbRunning \in BOOLEAN /\ probe \in BOOLEAN
    /\ lastResponse \in {"none", "recent", "old"}
    /\ stopTx \in Heartbeats \cup {None}
    /\ validationKey \in Nat /\ validEpoch \in Nat
    /\ pending \in [Keys -> Reqs \cup {None}]
    /\ req \in [Reqs -> Calls]
    /\ chunks \in [Keys -> Nat]
    /\ subs \in SUBSET Topics
    /\ events \in Seq([topic : Topics, gen : Nat])
    /\ hb \in [Heartbeats -> [pc : {"off", "check", "iterate", "wait"}, epoch : Nat]]
    /\ routerMsg \in Messages /\ resume \in {"top", "expire"}
    /\ pc \in [Actors -> StopSteps \cup RouterSteps \cup TaskSteps]

Init ==
    /\ TransportInit
    /\ session = 1 /\ lock = "free" /\ owner = TRUE
    /\ opened = FALSE /\ lastResponse = "none" /\ hbRunning = FALSE
    /\ stopTx = None /\ probe = FALSE /\ validationKey = 0 /\ validEpoch = 0
    /\ pending = [k \in Keys |-> None]
    /\ req = [r \in Reqs |-> NoCall]
    /\ chunks = [k \in Keys |-> 0]
    /\ subs = {} /\ events = <<>>
    /\ hb = [h \in Heartbeats |-> [pc |-> "off", epoch |-> 0]]
    /\ routerMsg = NoMessage /\ resume = "top"
    /\ pc = [a \in Actors |-> IF a = "router" THEN "top" ELSE "idle"]

Goto(actor, step) == pc' = [pc EXCEPT ![actor] = step]

\* process_ingress returns; its message is gone.
Return ==
    /\ Goto("router", resume)
    /\ routerMsg' = NoMessage
    /\ resume' = "top"

-----------------------------------------------------------------------------
(* Pending requests.  The oneshot slot of a call is filled when its entry is *)
(* removed from pending_callbacks by anyone but the call itself.             *)

\* Remove the entries of the keys and answer each of the calls found there.
Settle(keys, slot, gen) ==
    /\ pending' = [k \in Keys |-> IF k \in keys THEN None ELSE pending[k]]
    /\ req' = [r \in Reqs |->
                 IF req[r].key \in keys /\ pending[req[r].key] = r
                 THEN [req[r] EXCEPT !.slot = slot, !.by = gen]
                 ELSE req[r]]

FailPending(key) == Settle({key}, "err", 0)

FailAllPending == Settle(Keys, "err", 0)

\* resolve_pending_response: an entry of another session fails, and so does a
\* response that does not meet the expectation of the call.
ResolvePendingResponse(key, ok) ==
    IF pending[key] # None /\ req[pending[key]].session = session /\ ok
    THEN Settle({key}, "ok", routerMsg.gen)
    ELSE FailPending(key)

\* send_message_locked: a command on behalf of the present epoch, under the lock.
SendMessage(accepted) == SendText(session, accepted)

InFlight == {k \in Keys : pending[k] # None}

\* publish_with_expectation up to its await, under lifecycle_lock.  When the
\* transport refuses the command the guard removes the entry and its chunks.
Publish(r, key) ==
    /\ owner /\ lock = "free" /\ req[r].pc = "idle"
    /\ \/ /\ \/ ready # "open"
             \/ pending[key] # None
             \/ Cardinality(InFlight) >= MaxPending
          /\ req' = [req EXCEPT ![r].pc = "done"]
          /\ UNCHANGED <<commands, pending, chunks>>
       \/ /\ ready = "open" /\ pending[key] = None /\ Cardinality(InFlight) < MaxPending
          /\ \E accepted \in BOOLEAN :
               /\ SendMessage(accepted)
               /\ IF accepted
                  THEN /\ req' = [req EXCEPT ![r] = [pc |-> "waiting", key |-> key,
                                    session |-> session, slot |-> "empty", by |-> 0]]
                       /\ pending' = [pending EXCEPT ![key] = r]
                       /\ UNCHANGED chunks
                  ELSE /\ req' = [req EXCEPT ![r].pc = "done"]
                       /\ chunks' = [chunks EXCEPT ![key] = 0]
                       /\ UNCHANGED pending
    /\ UNCHANGED <<ingressGen, ready, peerGen, fault, ingress, inflight, worker,
                   sessionVars, linkVars, eventVars, threadVars>>

\* The await of publish ends: with what the slot holds, or by timeout or
\* cancellation.  The guard has not run yet.
PublishReturns(r) ==
    /\ req[r].pc = "waiting"
    /\ req' = [req EXCEPT ![r].pc = "dropping"]
    /\ UNCHANGED <<transportVars, sessionVars, linkVars, pending, chunks, eventVars, threadVars>>

\* Mutant: the guard removes whatever is registered under its key.
AnyEntry(r) == pending[req[r].key] # None

OwnsEntry(r) == pending[req[r].key] = r

\* Drop of PendingRequestGuard, which does not take lifecycle_lock: it removes
\* the entry and its chunks only if the entry still carries this call's token.
GuardDrop(r) ==
    /\ req[r].pc = "dropping"
    /\ req' = [req EXCEPT ![r] = [NoCall EXCEPT !.pc = "done"]]
    /\ IF OwnsEntry(r)
       THEN /\ pending' = [pending EXCEPT ![req[r].key] = None]
            /\ chunks' = [chunks EXCEPT ![req[r].key] = 0]
       ELSE UNCHANGED <<pending, chunks>>
    /\ UNCHANGED <<transportVars, sessionVars, linkVars, eventVars, threadVars>>

\* publish_without_callback: a command nobody waits for.
PublishWithoutCallback ==
    /\ owner /\ lock = "free"
    /\ SendMessage(TRUE)
    /\ UNCHANGED <<ingressGen, ready, peerGen, fault, ingress, inflight, worker,
                   sessionVars, linkVars, requestVars, eventVars, threadVars>>

\* switch_video_channel and switch_audio_channel.
SwitchChannel == PublishWithoutCallback

-----------------------------------------------------------------------------
(* Subscriptions and callback events. *)

\* subscribe and unsubscribe change the set only after the command was accepted.
Subscribe(topic) ==
    /\ owner /\ lock = "free"
    /\ SendMessage(TRUE)
    /\ subs' = subs \cup {topic}
    /\ UNCHANGED <<ingressGen, ready, peerGen, fault, ingress, inflight, worker,
                   sessionVars, linkVars, requestVars, events, threadVars>>

Unsubscribe(topic) ==
    /\ owner /\ lock = "free"
    /\ SendMessage(TRUE)
    /\ subs' = subs \ {topic}
    /\ UNCHANGED <<ingressGen, ready, peerGen, fault, ingress, inflight, worker,
                   sessionVars, linkVars, requestVars, events, threadVars>>

\* dispatch_subscription: throttling and the quota of the event channel may
\* drop the event of a subscribed topic.
DispatchSubscription(topic) ==
    \/ UNCHANGED events
    \/ /\ topic \in subs
       /\ Len(events) < EventCapacity
       /\ events' = Append(events, [topic |-> topic, gen |-> session])

\* The consumer of the event channel takes the next event.
TakeEvent ==
    /\ events # <<>>
    /\ events' = Tail(events)
    /\ UNCHANGED <<transportVars, sessionVars, linkVars, requestVars, subs, threadVars>>

-----------------------------------------------------------------------------
(* stop_background_tasks and start_new_session, run by the session task and, *)
(* once the owner is gone, by the router.                                    *)

StopRunning(a) ==
    /\ pc[a] = "stop0" /\ Goto(a, "stop1")
    /\ hbRunning' = FALSE
    /\ UNCHANGED <<transportVars, sessionVars, opened, lastResponse, stopTx, probe, validationKey,
                   validEpoch, requestVars, eventVars, hb, routerMsg, resume>>

StopSender(a) ==
    /\ pc[a] = "stop1" /\ Goto(a, "stop2")
    /\ stopTx' = None
    /\ UNCHANGED <<transportVars, sessionVars, opened, lastResponse, hbRunning, probe,
                   validationKey, validEpoch, requestVars, eventVars, hb, routerMsg, resume>>

StopProbe(a) ==
    /\ pc[a] = "stop2" /\ Goto(a, "stop3")
    /\ probe' = FALSE
    /\ UNCHANGED <<transportVars, sessionVars, opened, lastResponse, hbRunning, stopTx,
                   validationKey, validEpoch, requestVars, eventVars, hb, routerMsg, resume>>

StopOpened(a) ==
    /\ pc[a] = "stop3" /\ Goto(a, "stop4")
    /\ opened' = FALSE
    /\ UNCHANGED <<transportVars, sessionVars, lastResponse, hbRunning, stopTx, probe,
                   validationKey, validEpoch, requestVars, eventVars, hb, routerMsg, resume>>

NewSession(a) ==
    /\ pc[a] = "stop4" /\ Goto(a, "bumped")
    /\ lock = "free" /\ lock' = a
    /\ session' = session + 1
    /\ UNCHANGED <<transportVars, owner, linkVars, requestVars, eventVars, hb, routerMsg, resume>>

\* set_ingress_generation, in which the mutex of the transport fault is held
\* from the first store to the second.
PublishGeneration(a) ==
    /\ pc[a] = "bumped" /\ Goto(a, IF ingressGen # session THEN "swapped" ELSE "clearing")
    /\ SwapGeneration(session)
    /\ UNCHANGED <<sessionVars, linkVars, requestVars, eventVars, hb, routerMsg, resume>>

CloseOldPeer(a) ==
    /\ pc[a] = "swapped" /\ Goto(a, "clearing")
    /\ CloseReady
    /\ UNCHANGED <<sessionVars, linkVars, requestVars, eventVars, hb, routerMsg, resume>>

Swapping == (\E a \in Actors : pc[a] = "swapped") \/ pc["router"] = "faultSwapped"

\* Mutant: the flag stays set although the stop channel is closed.
CloseStopChannel == stopTx' = None /\ UNCHANGED hbRunning

StopHeartbeat == hbRunning' = FALSE /\ stopTx' = None

\* Mutant: retained chunks survive the session.
ClearAllButChunks ==
    /\ StopHeartbeat /\ probe' = FALSE /\ opened' = FALSE
    /\ UNCHANGED chunks
    /\ FailAllPending
    /\ lock' = "free"

\* What every reset clears: heartbeat, probe, readiness, chunks and requests.
ClearSession ==
    /\ StopHeartbeat /\ probe' = FALSE /\ opened' = FALSE
    /\ chunks' = [k \in Keys |-> 0]
    /\ FailAllPending
    /\ lock' = "free"

ResetSession(a) ==
    /\ pc[a] = "clearing" /\ Goto(a, IF a = "router" THEN "done" ELSE "reset")
    /\ ClearSession
    /\ lastResponse' = "none"
    /\ UNCHANGED <<transportVars, session, owner, validationKey, validEpoch, eventVars,
                   hb, routerMsg, resume>>

StopStep(a) == \/ StopRunning(a) \/ StopSender(a) \/ StopProbe(a) \/ StopOpened(a)
               \/ NewSession(a) \/ PublishGeneration(a) \/ CloseOldPeer(a) \/ ResetSession(a)

-----------------------------------------------------------------------------
(* The session task: the holder of the session gate.  Every connection       *)
(* attempt resets the core before it prepares a peer, and resets it again    *)
(* when it fails, is cancelled or is disconnected.                           *)

StartReset ==
    /\ owner /\ session < MaxEpoch
    /\ pc["task"] \in {"idle", "reset", "prepared"} /\ Goto("task", "stop0")
    /\ UNCHANGED <<transportVars, sessionVars, linkVars, requestVars, eventVars, hb,
                   routerMsg, resume>>

\* Nobody is in a reset, so the generation is the session's already.
PrepareIngress ==
    /\ pc["task"] = "reset" /\ Goto("task", "prepared")
    /\ lock = "free"
    /\ SetIngressGeneration(session)
    /\ UNCHANGED <<sessionVars, linkVars, requestVars, eventVars, hb, routerMsg, resume>>

ConnectPeer ==
    /\ pc["task"] = "prepared" /\ Goto("task", "idle")
    /\ PrepareOffer
    /\ UNCHANGED <<sessionVars, linkVars, requestVars, eventVars, hb, routerMsg, resume>>

Rollback ==
    /\ pc["task"] = "reset" /\ Goto("task", "idle")
    /\ Close
    /\ UNCHANGED <<sessionVars, linkVars, requestVars, eventVars, hb, routerMsg, resume>>

\* The last external handle goes away; no call can be using it.
OwnerDrop ==
    /\ owner /\ owner' = FALSE
    /\ pc["task"] = "idle"
    /\ \A r \in Reqs : req[r].pc \in {"idle", "done"}
    /\ UNCHANGED <<transportVars, session, lock, linkVars, requestVars, eventVars, threadVars>>

TaskStep == StartReset \/ PrepareIngress \/ ConnectPeer \/ Rollback

-----------------------------------------------------------------------------
(* The router thread: run_message_loop and process_ingress. *)

\* Mutants: the router keeps running; the router does not look at the slot.
NotGone == FALSE
NoFault == FALSE

OwnerGone == ~owner
FaultWaiting == fault # 0

\* take_transport_error takes the mutex of the fault.
TakeFault ==
    /\ pc["router"] = "top"
    /\ OwnerGone \/ ~Swapping
    /\ IF OwnerGone
       THEN Goto("router", "stop0") /\ UNCHANGED <<transportVars, routerMsg, resume>>
       ELSE IF FaultWaiting
       THEN /\ Goto("router", "process")
            /\ routerMsg' = [gen |-> fault, body |-> FaultBody]
            /\ resume' = "expire"
            /\ TakeTransportError
       ELSE Goto("router", "expire") /\ UNCHANGED <<transportVars, routerMsg, resume>>
    /\ UNCHANGED <<sessionVars, linkVars, requestVars, eventVars, hb>>

\* Some of the assemblies may have passed their deadline.
ExpireChunks ==
    /\ pc["router"] = "expire" /\ Goto("router", "recv")
    /\ lock = "free"
    /\ \E expired \in SUBSET {k \in Keys : chunks[k] # 0} :
         /\ chunks' = [k \in Keys |-> IF k \in expired THEN 0 ELSE chunks[k]]
         /\ Settle(expired, "err", 0)
    /\ UNCHANGED <<transportVars, sessionVars, linkVars, eventVars, hb, routerMsg, resume>>

Receive ==
    /\ pc["router"] = "recv"
    /\ IF ingress = <<>>
       THEN Goto("router", "top") /\ UNCHANGED <<ingress, routerMsg, resume>>
       ELSE /\ Goto("router", "process")
            /\ routerMsg' = Head(ingress)
            /\ ingress' = Tail(ingress)
            /\ resume' = "top"
    /\ UNCHANGED <<ingressGen, ready, peerGen, fault, inflight, commands, worker,
                   sessionVars, linkVars, requestVars, eventVars, hb>>

\* Mutant: messages of any epoch are processed.
NeverStale == FALSE

Stale == routerMsg.gen # session

\* A message of another epoch is dropped under the lock.
ProcessStale ==
    /\ pc["router"] = "process" /\ Return
    /\ lock = "free"
    /\ Stale
    /\ UNCHANGED <<transportVars, sessionVars, linkVars, requestVars, eventVars, hb>>

Processing(kinds) ==
    /\ pc["router"] = "process"
    /\ lock = "free"
    /\ ~Stale
    /\ routerMsg.body.kind \in kinds

\* A transport fault ends the epoch: bump, publish the generation, clear.
ProcessFault ==
    /\ Processing({"fault"}) /\ Goto("router", "faultBumped")
    /\ session' = session + 1
    /\ lock' = "router"
    /\ UNCHANGED <<transportVars, owner, linkVars, requestVars, eventVars, hb, routerMsg, resume>>

FaultGeneration ==
    /\ pc["router"] = "faultBumped"
    /\ Goto("router", IF ingressGen # session THEN "faultSwapped" ELSE "faultClearing")
    /\ SwapGeneration(session)
    /\ UNCHANGED <<sessionVars, linkVars, requestVars, eventVars, hb, routerMsg, resume>>

FaultCloseOldPeer ==
    /\ pc["router"] = "faultSwapped" /\ Goto("router", "faultClearing")
    /\ CloseReady
    /\ UNCHANGED <<sessionVars, linkVars, requestVars, eventVars, hb, routerMsg, resume>>

FaultClear ==
    /\ pc["router"] = "faultClearing" /\ Return
    /\ ClearSession
    /\ UNCHANGED <<transportVars, session, owner, lastResponse, validationKey, validEpoch,
                   eventVars, hb>>

\* Text messages other than "Validation Ok.": answer the call waiting for the
\* key, act on the type, and offer the message to the subscribers of its topic.
ProcessText ==
    LET b == routerMsg.body
        replies == b.kind \in {"challenge", "rtt"} \/ (b.kind = "needed" /\ validationKey # 0)
    IN
    /\ Processing({"response", "heartbeat", "challenge", "needed", "rtt", "network"})
    /\ Return
    /\ ResolvePendingResponse(b.key, b.ok)
    /\ lastResponse' = IF b.kind = "heartbeat" THEN "recent" ELSE lastResponse
    /\ validationKey' = IF b.kind = "challenge" THEN session ELSE validationKey
    /\ probe' = IF b.kind = "network" THEN FALSE ELSE probe
    /\ \E accepted \in BOOLEAN : (accepted => replies) /\ SendMessage(accepted)
    /\ DispatchSubscription(b.topic)
    /\ UNCHANGED <<ingressGen, ready, peerGen, fault, ingress, inflight, worker, sessionVars,
                   opened, hbRunning, stopTx, validEpoch, chunks, subs, hb>>

\* handle_chunked_response.  The assembler keeps the chunk ("more"), completes
\* the transfer ("done", or "big" when it may not be expanded) or rejects it.
ProcessChunk ==
    LET b == routerMsg.body IN
    /\ Processing({"chunk"}) /\ Return
    /\ chunks' = [chunks EXCEPT ![b.key] =
                    IF b.outcome # "more" THEN 0 ELSE IF @ = 0 THEN session ELSE @]
    /\ CASE b.outcome = "more" -> UNCHANGED <<pending, req>>
         [] b.outcome = "done" -> ResolvePendingResponse(b.key, b.ok)
         [] OTHER              -> FailPending(b.key)
    /\ DispatchSubscription(b.topic)
    /\ UNCHANGED <<transportVars, sessionVars, linkVars, subs, hb>>

\* Binary frames that carry no deliverable value: a rejected one fails the call
\* and forgets its chunks; a LiDAR frame fails the call if the pool is full.
ProcessBinary ==
    LET b == routerMsg.body IN
    /\ Processing({"reject", "lidar"}) /\ Return
    /\ chunks' = IF b.kind = "reject" THEN [chunks EXCEPT ![b.key] = 0] ELSE chunks
    /\ \/ FailPending(b.key)
       \/ b.kind = "lidar" /\ UNCHANGED <<pending, req>>
    /\ UNCHANGED <<transportVars, sessionVars, linkVars, eventVars, hb>>

\* "Validation Ok.": the lock is kept, but the stores of stop_background_tasks
\* can fall between those of handle_validation and start_heartbeat_in_session.
ValidationOk ==
    /\ Processing({"validOk"}) /\ Goto("router", "validCas")
    /\ lock' = "router"
    /\ ResolvePendingResponse(routerMsg.body.key, routerMsg.body.ok)
    /\ opened' = TRUE /\ lastResponse' = "recent" /\ validEpoch' = session
    /\ UNCHANGED <<transportVars, session, owner, hbRunning, stopTx, probe, validationKey,
                   chunks, eventVars, hb, routerMsg, resume>>

StartHeartbeat ==
    /\ pc["router"] = "validCas"
    /\ Goto("router", IF hbRunning THEN "validProbe" ELSE "validSpawn")
    /\ hbRunning' = TRUE
    /\ UNCHANGED <<transportVars, sessionVars, opened, lastResponse, stopTx, probe, validationKey,
                   validEpoch, requestVars, eventVars, hb, routerMsg, resume>>

SpawnHeartbeat(h) ==
    /\ pc["router"] = "validSpawn" /\ Goto("router", "validProbe")
    /\ hb[h].pc = "off"
    /\ stopTx' = h
    /\ hb' = [hb EXCEPT ![h] = [pc |-> "check", epoch |-> session]]
    /\ UNCHANGED <<transportVars, sessionVars, opened, lastResponse, hbRunning, probe,
                   validationKey, validEpoch, requestVars, eventVars, routerMsg, resume>>

RequestNetworkStatus ==
    /\ pc["router"] = "validProbe" /\ Return
    /\ lock' = "free"
    /\ probe' = TRUE
    /\ \E accepted \in BOOLEAN : (accepted => ~probe) /\ SendMessage(accepted)
    /\ DispatchSubscription(routerMsg.body.topic)
    /\ UNCHANGED <<ingressGen, ready, peerGen, fault, ingress, inflight, worker, session, owner,
                   opened, lastResponse, hbRunning, stopTx, validationKey, validEpoch,
                   requestVars, subs, hb>>

RouterStep == \/ TakeFault \/ ExpireChunks \/ Receive
              \/ ProcessStale \/ ProcessFault
              \/ FaultGeneration \/ FaultCloseOldPeer \/ FaultClear
              \/ ProcessText \/ ProcessChunk \/ ProcessBinary
              \/ ValidationOk \/ StartHeartbeat \/ (\E h \in Heartbeats : SpawnHeartbeat(h))
              \/ RequestNetworkStatus \/ StopStep("router")

-----------------------------------------------------------------------------
(* The heartbeat threads. *)

\* More than six seconds pass since the last heartbeat response.
SixSecondsPass ==
    /\ lastResponse = "recent" /\ lastResponse' = "old"
    /\ UNCHANGED <<transportVars, sessionVars, opened, hbRunning, stopTx, probe, validationKey,
                   validEpoch, requestVars, eventVars, threadVars>>

\* The loop condition, read without the lock.
HeartbeatCheck(h) ==
    /\ hb[h].pc = "check"
    /\ hb' = [hb EXCEPT ![h].pc =
                IF hbRunning /\ session = hb[h].epoch /\ owner THEN "iterate" ELSE "off"]
    /\ UNCHANGED <<transportVars, sessionVars, linkVars, requestVars, eventVars,
                   routerMsg, resume, pc>>

\* Mutant: the epoch is not read again under the lock.
NotMoved(h) == FALSE

EpochMoved(h) == session # hb[h].epoch

\* The loop body under the lock: leave if the epoch moved on, declare the peer
\* silent after six seconds, otherwise send a heartbeat.
HeartbeatLeave(h) ==
    /\ hb[h].pc = "iterate" /\ lock = "free"
    /\ EpochMoved(h)
    /\ hb' = [hb EXCEPT ![h].pc = "off"]
    /\ UNCHANGED <<transportVars, sessionVars, linkVars, requestVars, eventVars,
                   routerMsg, resume, pc>>

HeartbeatTimeout(h) ==
    /\ hb[h].pc = "iterate" /\ lock = "free"
    /\ ~EpochMoved(h)
    /\ lastResponse = "old"
    /\ StopHeartbeat /\ opened' = FALSE
    /\ FailAllPending
    /\ chunks' = [k \in Keys |-> 0]
    /\ hb' = [hb EXCEPT ![h].pc = "off"]
    /\ UNCHANGED <<transportVars, sessionVars, lastResponse, probe, validationKey, validEpoch,
                   eventVars, routerMsg, resume, pc>>

HeartbeatSend(h) ==
    /\ hb[h].pc = "iterate" /\ lock = "free"
    /\ ~EpochMoved(h)
    /\ lastResponse # "old"
    /\ \E accepted \in BOOLEAN : SendText(hb[h].epoch, accepted)
    /\ hb' = [hb EXCEPT ![h].pc = "wait"]
    /\ UNCHANGED <<ingressGen, ready, peerGen, fault, ingress, inflight, worker, sessionVars,
                   linkVars, requestVars, eventVars, routerMsg, resume, pc>>

\* Mutant: the thread ends at the timeout of its wait.
WaitOnce(h) ==
    /\ hb[h].pc = "wait"
    /\ hb' = [hb EXCEPT ![h].pc = "off"]
    /\ UNCHANGED <<transportVars, sessionVars, linkVars, requestVars, eventVars,
                   routerMsg, resume, pc>>

\* recv_timeout on the stop channel: disconnected once its sender is dropped.
HeartbeatWait(h) ==
    /\ hb[h].pc = "wait"
    /\ hb' = [hb EXCEPT ![h].pc = IF stopTx = h THEN "check" ELSE "off"]
    /\ UNCHANGED <<transportVars, sessionVars, linkVars, requestVars, eventVars,
                   routerMsg, resume, pc>>

HeartbeatStep(h) == \/ HeartbeatCheck(h) \/ HeartbeatLeave(h) \/ HeartbeatTimeout(h)
                    \/ HeartbeatSend(h) \/ HeartbeatWait(h)

-----------------------------------------------------------------------------
(* The transport, with the core left alone. *)

\* record_transport_fault takes the mutex of the fault.
RecordFault ==
    /\ ~Swapping
    /\ RecordTransportFault
    /\ UNCHANGED <<sessionVars, linkVars, requestVars, eventVars, threadVars>>

TransportStep ==
    \/ RecordFault
    \/ /\ \/ \E e \in PeerEvents : PeerEvent(e)
          \/ \E b \in Wire : HandlerAdmit(b)
          \/ \E m \in inflight : HandlerEnqueue(m)
          \/ WorkerStep
       /\ UNCHANGED <<sessionVars, linkVars, requestVars, eventVars, threadVars>>

\* Nothing is left to run once the owner is gone.
Terminated ==
    /\ pc["router"] = "done"
    /\ \A h \in Heartbeats : hb[h].pc = "off"
    /\ UNCHANGED vars

Next ==
    \/ \E r \in Reqs : \/ \E key \in Keys : Publish(r, key)
                       \/ PublishReturns(r)
                       \/ GuardDrop(r)
    \/ \E topic \in Topics : Subscribe(topic) \/ Unsubscribe(topic)
    \/ PublishWithoutCallback \/ SwitchChannel
    \/ TakeEvent
    \/ StopStep("task") \/ TaskStep \/ OwnerDrop
    \/ RouterStep
    \/ SixSecondsPass
    \/ \E h \in Heartbeats : HeartbeatStep(h)
    \/ TransportStep
    \/ Terminated

Spec == Init /\ [][Next]_vars

-----------------------------------------------------------------------------
(* Safety. *)

\* A reset that has changed session_id and has not cleared the session yet.
InReset == \/ \E a \in Actors : pc[a] \in {"bumped", "swapped", "clearing"}
           \/ pc["router"] \in {"faultBumped", "faultSwapped", "faultClearing"}

Resetting(a) == pc[a] \in StopSteps

Validating == pc["router"] \in {"validCas", "validSpawn", "validProbe"}

\* A registered request and a retained chunk assembly belong to the current
\* epoch: whatever ends an epoch (reset, disconnect, transport fault) fails the
\* requests and clears the chunks of that epoch before anyone can add to the next.
RetainedStateIsCurrent ==
    ~InReset => \A k \in Keys : /\ pending[k] # None => req[pending[k]].session = session
                                /\ chunks[k] # 0 => chunks[k] = session

\* No call is lost or answered for another: a call waits with an empty slot
\* exactly while its own token is registered under its key, so the guard of a
\* finished call never removes the entry of a later call with the same key.
WaitersAreRegistered ==
    /\ \A k \in Keys : pending[k] # None =>
         /\ req[pending[k]].pc \in {"waiting", "dropping"}
         /\ req[pending[k]].key = k
         /\ req[pending[k]].slot = "empty"
    /\ \A r \in Reqs : req[r].pc = "waiting" /\ req[r].slot = "empty" =>
         req[r].key \in Keys /\ pending[req[r].key] = r

\* A call succeeds only with a response that arrived in the epoch in which the
\* call was registered, however late the response or the reset is.
ResponseOfOwnEpoch ==
    \A r \in Reqs : req[r].slot = "ok" => req[r].by = req[r].session

\* is_open reads the ready state and data_channel_opened without a lock.  When
\* both hold, the peer is one that was validated in its own generation, and that
\* generation is the current one unless a reset is between the two stores of
\* set_ingress_generation: "Validation Ok." may be handled after
\* stop_background_tasks has cleared the flag, and then only the second of these
\* stores keeps the old peer from passing for an open one.
OpenMeansValidated ==
    ready = "open" /\ opened =>
        /\ validEpoch = peerGen
        /\ peerGen = ingressGen \/ (Swapping /\ peerGen + 1 = ingressGen)

\* Every queued command was issued on behalf of the epoch of the peer that will
\* send it: a heartbeat thread, router reply or request that outlived its epoch
\* never reaches the wire of the next one.
CommandsOfPeerEpoch == \A i \in 1..Len(commands) : commands[i] = peerGen

\* A validated session is watched: unless a reset or the validation itself is in
\* progress, a live heartbeat thread of this epoch owns the stop channel.
ValidatedIsWatched ==
    opened /\ owner /\ ~InReset /\ ~Validating /\ (\A a \in Actors : ~Resetting(a)) =>
        /\ hbRunning
        /\ stopTx # None
        /\ hb[stopTx].pc # "off" /\ hb[stopTx].epoch = session

\* A transport fault of the current epoch is not lost, although the ingress
\* queue may be full when it is recorded: the dead command worker of a current
\* peer leaves the fault in the slot or in the router's hands.
FaultIsRetained ==
    worker = "done" /\ peerGen = session =>
        \/ fault = session
        \/ routerMsg = [gen |-> session, body |-> FaultBody] /\ pc["router"] = "process"

-----------------------------------------------------------------------------
(* Liveness: threads are scheduled, and a lock holder goes on. *)

Fairness ==
    /\ WF_vars(RouterStep)
    /\ \A h \in Heartbeats : WF_vars(HeartbeatStep(h))
    /\ WF_vars(StopStep("task"))
    /\ WF_vars(RecordFault)

FairSpec == Spec /\ Fairness

\* A recorded transport fault fails every registered call, without waiting for
\* the timeout of the call.
FaultFailsPending ==
    \A k \in Keys, r \in Reqs :
        (fault = session /\ pending[k] = r) ~> (pending[k] # r)

\* A validated peer that stays silent for six seconds loses its readiness.
SilenceIsDetected ==
    (opened /\ lastResponse = "old") ~> (~opened \/ lastResponse # "old")

\* After the last external handle is gone the router and all heartbeat threads end.
ThreadsEnd ==
    ~owner ~> (pc["router"] = "done" /\ \A h \in Heartbeats : hb[h].pc = "off")
==============================================================================
