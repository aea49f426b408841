----------------------------- MODULE ConnectProofs -----------------------------
(***************************************************************************)
(* Safety of the connection attempts, of the engine underneath and of the  *)
(* exchange with the robot, for any number of attempts and media tracks,   *)
(* any robot and any limits.                                               *)
(*                                                                         *)
(* The inductive invariant says who owns what is alive: a peer connection, *)
(* its command task and its media handlers are in a field of the engine or *)
(* in the hands of close_inner, at every await at which an attempt may be  *)
(* dropped.                                                                *)
(***************************************************************************)
EXTENDS ConnectAttempt, TLAPS

USE DEF peerVars, ownerVars, closeVars, engineVars, signalVars, attemptVars

-----------------------------------------------------------------------------
(* The inductive invariant. *)

\* The awaits at which no close is in progress.
Quiet == {"idle", "creating", "configuring", "offering", "exchange", "answering"}

\* Awaits at which the engine has what prepare_offer stored.
Offered == attempt \in {"offering", "exchange", "answering"} \/ (connected /\ owner # "released")

\* One owner of the gate drives prepare_offer or close, never both.
PhasesMatch ==
    /\ attempt \in Quiet <=> closing = "none"
    /\ owner = "released" => attempt = "idle"
    /\ connected => attempt = "idle"

\* What is alive is in a field of the engine, or close_inner has it in its hands.
AliveIsOwned ==
    /\ resources # 0 => peer[resources] = "live"
    /\ \A p \in Peers : media[p] => p = resources
    /\ owner # "released" =>
         /\ \A p \in Peers : peer[p] \in {"live", "closing", "left"} => p \in {resources, taken}
         /\ \A p \in Peers : command[p] \in {"running", "aborted"} => p = commandTask
         /\ \A t \in Tracks : task[t] \in {"running", "aborted"} =>
              \/ resources # 0 /\ t \in listed[resources]
              \/ taken # 0 /\ closing = "media" /\ t \in listed[taken]

\* The fields close_inner has emptied stay empty until the next peer fills them.
CloseEmpties ==
    /\ closing \in {"media", "peer", "finished"} \/ attempt = "creating" => resources = 0
    /\ closing \in {"media", "peer", "finished"} \/ attempt \in {"creating", "configuring"} =>
         commandTask = 0
    /\ resources = 0 => commandTask = 0
    /\ taken # 0 => closing \in {"media", "peer"}

\* What the attempt stored is of the peer it numbered last.
AttemptOwns ==
    /\ attempt = "creating" => current # 0
    /\ attempt = "configuring" => current # 0 /\ resources = current
    /\ Offered => current # 0 /\ resources = current /\ commandTask = current /\ slots = current

\* The answer is to the offer of that peer: the key that seals the offer is fresh.
AnswerMatches ==
    /\ attempt = "exchange" /\ step \in {"ingest", "ingestBody"} => sealKey = current
    /\ attempt = "exchange" /\ step = "ok" => answer.offer = current
    /\ attempt = "answering" \/ (connected /\ owner # "released") =>
         current \in answered /\ answer = [says |-> "answer", offer |-> current]

\* Without a failure of the network only a robot that does not serve /offer
\* is asked for con_notify, and only one that was understood gets the offer.
ExchangeIsFair ==
    /\ step \in {"notify", "notifyBody", "ingest", "ingestBody"} =>
         hindered \/ robot.serves # "legacy"
    /\ step = "err" => hindered \/ ~Honest

ConnectInv ==
    PhasesMatch /\ AliveIsOwned /\ CloseEmpties /\ AttemptOwns /\ AnswerMatches /\ ExchangeIsFair

-----------------------------------------------------------------------------
(* Types. *)

\* A step that rolls back, and what it leaves of the handle.
RollsBack ==
    /\ Rollback /\ (owner # "released" \/ attempt # "idle")
    /\ owner' \in {owner, "session", "leaving"}

\* Every rollback ends in Rollback.
LEMMA RollbackSteps ==
    AttemptFails \/ Timeout \/ Cancel \/ Disconnect \/ DroppedDisconnect => RollsBack
BY Zenon DEF AttemptFails, Timeout, Cancel, Disconnect, DroppedDisconnect, InnerSteps, Handles, Remember,
             RollsBack

\* Resetting the core takes no peer, no task and no field from the engine.
LEMMA ResetEffect ==
    ASSUME ResetCore
    PROVE  UNCHANGED <<current, peer, answered, media, listed, task, command, ownerVars>>
BY Zenon DEF ResetCore, NewGeneration

\* A handle that is dropped changes nothing but the core and the handle.
LEMMA DropEffect ==
    ASSUME Drop \/ DropService
    PROVE  /\ owner # "released" /\ owner' # "released"
           /\ UNCHANGED <<attempt, elapsed, connected, closeVars, signalVars>>
           /\ UNCHANGED <<current, peer, answered, media, listed, task, command, ownerVars>>
<1>1. CASE Drop
  BY <1>1 DEF Drop, NewGeneration
<1>2. CASE DropService
  BY <1>2 DEF DropService
<1> QED
  BY <1>1, <1>2, Zenon

\* The initial state is typed.
LEMMA InitTyped == Init => TypeOK
<1> SUFFICES ASSUME Init PROVE TypeOK
  BY Zenon
<1>1. PeerTypeOK
  BY Zenon DEF Init, PeerInit, PeerTypeOK, ReadyStates, CloseSteps
<1>2. SignalTypeOK
  <2>1. robot \in AllRobots /\ deviceKey \in AllDeviceKeys
    <3>1. PICK m \in Meetings : robot = m[1] /\ deviceKey = m[2]
      BY Zenon DEF Init, SignalInit
    <3>2. m \in AllRobots \X AllDeviceKeys
      BY MeetingsAssumption, Zenon
    <3> QED
      BY <3>1, <3>2, Zenon
  <2>2. 0 \in 0..RequestLimit /\ 0 \in 0..BodyLimit
    BY LimitAssumption
  <2>3. /\ spent = 0 /\ body = 0 /\ sealKey = 0 /\ answer = NoAnswer
        /\ hindered = FALSE /\ step = "idle"
    BY Zenon DEF Init, SignalInit
  <2>4. NoAnswer \in [says : {"answer", "reject", "noise", "none"}, offer : Nat]
    BY Zenon DEF NoAnswer
  <2> QED
    BY <2>1, <2>2, <2>3, <2>4, Zenon DEF SignalTypeOK
<1>3. elapsed \in 0..AttemptLimit
  BY AttemptAssumption DEF Init
<1> QED
  BY <1>1, <1>2, <1>3, Zenon DEF Init, TypeOK, Handles

\* The engine, without the attempt that drives it.
LEMMA EngineTyped ==
    ASSUME PeerTypeOK,
           \/ current # 0 /\ (Register \/ StoreComponents \/ ApplyAnswer)
           \/ (\E inRuntime \in BOOLEAN : DropEngine(inRuntime)) \/ CloseStep \/ PeerEvent
    PROVE  PeerTypeOK'
<1> USE DEF PeerTypeOK, ReadyStates, CloseSteps
<1>1. CASE current # 0 /\ Register
  BY <1>1, Zenon DEF Register, OwnPeer
<1>2. CASE current # 0 /\ StoreComponents
  BY <1>2, Zenon DEF StoreComponents
<1>3. CASE current # 0 /\ ApplyAnswer
  BY <1>3 DEF ApplyAnswer
<1>4. ASSUME NEW inRuntime \in BOOLEAN, DropEngine(inRuntime)
      PROVE  PeerTypeOK'
  <2>1. /\ media' \in [Peers -> BOOLEAN]
        /\ task' \in [Tracks -> {"none", "running", "aborted", "ended"}]
        /\ command' \in [Peers -> {"none", "running", "aborted", "ended"}]
        /\ peer' \in [Peers -> {"none", "live", "closing", "closed", "left"}]
    BY <1>4 DEF DropEngine, Abort, AbortCommand
  <2> QED
    BY <1>4, <2>1, Zenon DEF DropEngine
<1>5. CASE CloseCommand
  BY <1>5, Zenon DEF CloseCommand, SetReady, AbortCommand
<1>6. CASE TakeMedia
  <2>1. /\ media' \in [Peers -> BOOLEAN]
        /\ task' \in [Tracks -> {"none", "running", "aborted", "ended"}]
    BY <1>6 DEF TakeMedia, Abort
  <2> QED
    BY <1>6, <2>1, Zenon DEF TakeMedia
<1>7. CASE ClosePeer
  BY <1>7, Zenon DEF ClosePeer
<1>8. CASE CloseFields
  BY <1>8, Zenon DEF CloseFields, SetReady
<1>9. ASSUME NEW p \in Peers, CommandEnds(p) \/ PeerCloses(p)
      PROVE  PeerTypeOK'
  BY <1>9 DEF CommandEnds, PeerCloses
<1>12. ASSUME NEW p \in Peers, NEW event, StateCallback(p, event)
       PROVE  PeerTypeOK'
  <2>1. ApplyEvent(ready[p], event) \in ReadyStates
    BY Zenon DEF ApplyEvent, Terminal
  <2> QED
    BY <1>12, <2>1, Zenon DEF StateCallback
<1>10. ASSUME NEW p \in Peers, NEW t \in Tracks, OnTrack(p, t)
       PROVE  PeerTypeOK'
  BY <1>10 DEF OnTrack
<1>11. ASSUME NEW t \in Tracks, TaskEnds(t)
       PROVE  PeerTypeOK'
  BY <1>11 DEF TaskEnds
<1> QED
  BY <1>1, <1>2, <1>3, <1>4, <1>5, <1>6, <1>7, <1>8, <1>9, <1>10, <1>11, <1>12, Zenon
     DEF CloseStep, PeerEvent, ChannelChanges, PeerChanges

\* A new generation, or a close that begins, leaves the engine typed.
LEMMA ResetTyped ==
    ASSUME PeerTypeOK, NewGeneration \/ ResetCore \/ UNCHANGED <<current, peerVars, ownerVars>>,
           closing' \in CloseSteps, UNCHANGED taken
    PROVE  PeerTypeOK'
<1>1. CASE NewGeneration
  BY <1>1 DEF PeerTypeOK, NewGeneration, SetReady, ReadyStates
<1>2. CASE UNCHANGED <<current, peerVars, ownerVars>>
  BY <1>2, Zenon DEF PeerTypeOK
<1> QED
  BY <1>1, <1>2, Zenon DEF ResetCore

\* close_inner that begins is at one of its awaits.
LEMMA StartCloseEffect ==
    ASSUME PeerTypeOK, StartClose
    PROVE  closing' \in CloseSteps /\ closing' # "none" /\ UNCHANGED taken
           /\ (closing # "none" => closing' = closing) /\ (closing = "none" => closing' = "start")
BY Zenon DEF PeerTypeOK, StartClose, CloseSteps

\* The exchange, without the attempt that drives it.
LEMMA SignalTyped ==
    ASSUME SignalTypeOK, NEW offer \in Nat,
           StartExchange \/ DropExchange \/ ExchangeStep(offer) \/ UNCHANGED signalVars
    PROVE  SignalTypeOK'
<1> USE DEF SignalTypeOK, Sends, Reads
<1>n. 0 \in 0..RequestLimit /\ 0 \in 0..BodyLimit
  BY LimitAssumption
<1>a. NoAnswer \in [says : {"answer", "reject", "noise", "none"}, offer : Nat]
  BY Zenon DEF NoAnswer
<1>1. CASE StartExchange
  BY <1>1, <1>n, <1>a, Zenon DEF StartExchange, Request
<1>7. CASE DropExchange
  BY <1>7, <1>n, Zenon DEF DropExchange
<1>8. CASE UNCHANGED signalVars
  BY <1>8, Zenon
<1>2. ASSUME NEW lost \in BOOLEAN, RequestFails(lost)
      PROVE  SignalTypeOK'
  BY <1>2, <1>n, Zenon DEF RequestFails, Request
<1>3. CASE RequestAnswered
  BY <1>2, <1>3, Zenon DEF RequestAnswered
<1>4. CASE ReadChunk
  <2>1. PICK n \in 1..BodyLimit + 1 :
          IF Fits(n)
          THEN body' = body + n /\ UNCHANGED <<robot, deviceKey, step, spent, sealKey, answer, hindered>>
          ELSE RequestFails(TRUE)
    BY <1>4, Zenon DEF ReadChunk
  <2>2. CASE Fits(n)
    <3>1. body' \in 0..BodyLimit
      BY <2>1, <2>2, LimitAssumption DEF Fits
    <3> QED
      BY <2>1, <2>2, <3>1, Zenon
  <2> QED
    BY <1>2, <2>1, <2>2, Zenon
<1>5. CASE LegacyDone(offer) \/ NotifyDone(offer) \/ IngestDone
  <2>1. robot.says \in {"answer", "reject", "noise"}
    BY Zenon DEF AllRobots
  <2> QED
    BY <1>5, <1>n, <2>1 DEF LegacyDone, NotifyDone, IngestDone, Request
<1>6. CASE RequestTimesOut \/ RequestBreaks
  BY <1>2, <1>6, Zenon DEF RequestTimesOut, RequestBreaks
<1> QED
  BY <1>1, <1>3, <1>4, <1>5, <1>6, <1>7, <1>8, Zenon DEF ExchangeStep

\* Every step leaves the variables typed.
LEMMA NextTyped ==
    ASSUME TypeOK, ConnectInv, [Next]_vars
    PROVE  TypeOK'
<1>p. /\ PeerTypeOK /\ SignalTypeOK
      /\ elapsed \in 0..AttemptLimit /\ connected \in BOOLEAN
      /\ owner \in Handles \cup {"dropped", "leaving", "released"}
  BY Zenon DEF TypeOK
<1>s. /\ UNCHANGED signalVars => SignalTypeOK'
      /\ UNCHANGED engineVars => PeerTypeOK'
  <2>1. UNCHANGED engineVars => PeerTypeOK'
    BY <1>p, Zenon DEF PeerTypeOK
  <2>2. 0 \in Nat
    BY Zenon
  <2> QED
    BY <1>p, <2>1, <2>2, SignalTyped, Zenon
<1>n. 0 \in 0..AttemptLimit
  BY AttemptAssumption
<1>c. {"none", "start"} \subseteq CloseSteps
  BY Zenon DEF CloseSteps
<1>1. CASE Begin
  BY <1>1, <1>p, <1>s, <1>n, ResetTyped, StartCloseEffect, Zenon
    DEF Begin, TypeOK, InnerSteps, Remember, Handles
<1>2. CASE RolledBack
  BY <1>2, <1>p, <1>s, <1>c, ResetTyped, Zenon DEF RolledBack, TypeOK, InnerSteps
<1>3. CASE Prepare
  <2>1. PeerTypeOK'
    BY <1>3, <1>p, Zenon DEF Prepare, PeerTypeOK, CloseSteps, ReadyStates
  <2> QED
    BY <1>3, <1>p, <1>s, <2>1, Zenon DEF Prepare, TypeOK, InnerSteps
<1>4. CASE CreatePeer
  BY <1>4, <1>p, <1>s, EngineTyped, Zenon DEF CreatePeer, TypeOK, InnerSteps, ConnectInv, AttemptOwns
<1>5. CASE Configured
  BY <1>5, <1>p, <1>s, EngineTyped, Zenon DEF Configured, TypeOK, InnerSteps, ConnectInv, AttemptOwns
<1>6. CASE PrepareFails
  BY <1>6, <1>p, <1>s, StartCloseEffect, ResetTyped, Zenon DEF PrepareFails, TypeOK, InnerSteps
<1>7. CASE PrepareFailed
  BY <1>7, <1>p, <1>s, <1>c, ResetTyped, Zenon DEF PrepareFailed, TypeOK, InnerSteps
<1>8. CASE OfferReady
  BY <1>8, <1>p, <1>s, SignalTyped, Zenon DEF OfferReady, TypeOK, InnerSteps
<1>9. CASE Exchange
  <2>1. current \in Nat
    BY <1>p, PeersAssumption DEF PeerTypeOK
  <2> QED
    BY <1>9, <1>p, <1>s, <2>1, SignalTyped, Zenon DEF Exchange, TypeOK
<1>10. CASE Answered
  <2>1. current # 0
    BY <1>10, Zenon DEF Answered, ConnectInv, AttemptOwns, Offered
  <2> QED
    BY <1>10, <1>p, <1>s, <2>1, EngineTyped, Zenon DEF Answered, TypeOK, InnerSteps
<1>11. CASE Opened
  BY <1>11, <1>p, <1>s, SignalTyped, Zenon DEF Opened, TypeOK
<1>12. CASE RollsBack
  <2>1. 0 \in Nat
    BY Zenon
  <2>2. PeerTypeOK' /\ SignalTypeOK'
    BY <1>12, <1>p, <2>1, SignalTyped, StartCloseEffect, ResetTyped, Zenon DEF RollsBack, Rollback
  <2> QED
    BY <1>12, <1>p, <2>2, Zenon DEF RollsBack, Rollback, TypeOK, Handles
<1>13. CASE RollbackDone
  BY <1>13, <1>p, <1>s, <1>c, ResetTyped, Zenon DEF RollbackDone, CloseFinished, TypeOK
<1>14. CASE Tick
  <2>1. elapsed' \in 0..AttemptLimit
    BY <1>14, <1>p, AttemptAssumption DEF Tick
  <2>2. spent' \in 0..RequestLimit
    BY <1>14, <1>p, LimitAssumption DEF Tick, SignalTypeOK
  <2> QED
    BY <1>14, <1>p, <1>s, <2>1, <2>2, Zenon DEF Tick, TypeOK, SignalTypeOK
<1>15. CASE Drop \/ DropService
  <2>1. PeerTypeOK'
    BY <1>15, <1>p, <1>s, ResetTyped, Zenon DEF Drop, DropService, PeerTypeOK
  <2> QED
    BY <1>15, <1>p, <1>s, <2>1, Zenon DEF Drop, DropService, TypeOK, Handles
<1>18. CASE Release
  BY <1>18, <1>p, <1>s, EngineTyped, Zenon DEF Release, TypeOK
<1>16. CASE Engine
  BY <1>16, <1>p, <1>s, EngineTyped, Zenon DEF Engine, TypeOK
<1>17. CASE UNCHANGED vars
  BY <1>17, <1>p, <1>s, Zenon DEF vars, TypeOK
<1> QED
  BY <1>1, <1>2, <1>3, <1>4, <1>5, <1>6, <1>7, <1>8, <1>9, <1>10, <1>11, <1>12, <1>13, <1>14, <1>15,
     <1>16, <1>17, <1>18, RollbackSteps, Zenon DEF Next, Serve, Advance, Ended

-----------------------------------------------------------------------------
(* The phases of an attempt and the fields of the engine. *)

\* The callbacks and tasks of the peers touch neither the fields nor close_inner.
LEMMA EventEffect ==
    ASSUME PeerEvent
    PROVE  UNCHANGED <<current, fresh, ownerVars, closeVars, media>> /\ answered' = answered
BY Zenon DEF PeerEvent, ChannelChanges, PeerChanges, StateCallback, OnTrack, TaskEnds, CommandEnds, PeerCloses

\* The attempt and close_inner stay in step.
LEMMA StepPhases ==
    ASSUME TypeOK, ConnectInv, [Next]_vars
    PROVE  PhasesMatch'
<1> USE DEF PhasesMatch, Quiet
<1>i. PhasesMatch /\ connected \in BOOLEAN /\ PeerTypeOK
  BY Zenon DEF ConnectInv, TypeOK
<1>1. CASE Begin
  BY <1>i, <1>1, StartCloseEffect, Zenon DEF Begin, Remember, Handles
<1>2. CASE RolledBack \/ Prepare \/ PrepareFailed \/ RollbackDone
  BY <1>i, <1>2 DEF RolledBack, Prepare, PrepareFailed, RollbackDone, CloseFinished
<1>3. CASE CreatePeer \/ Configured \/ OfferReady \/ Answered \/ Opened
  BY <1>i, <1>3 DEF CreatePeer, Register, Configured, StoreComponents, OfferReady, Answered,
                    ApplyAnswer, Opened
<1>4. CASE PrepareFails
  BY <1>i, <1>4, StartCloseEffect, Zenon DEF PrepareFails
<1>5. CASE RollsBack
  BY <1>i, <1>5, StartCloseEffect, Zenon DEF RollsBack, Rollback
<1>6. CASE Exchange \/ Tick \/ UNCHANGED vars
  BY <1>i, <1>6 DEF Exchange, Tick, vars
<1>7. CASE Drop \/ DropService
  BY <1>i, <1>7, DropEffect
<1>9. CASE Release
  BY <1>i, <1>9 DEF Release, DropEngine
<1>8. CASE Engine
  <2>1. UNCHANGED <<attempt, connected, owner>>
    BY <1>8, Zenon DEF Engine
  <2>2. closing' = "none" <=> closing = "none"
    BY <1>8, EventEffect, Zenon DEF Engine, CloseStep, CloseCommand, TakeMedia, ClosePeer, CloseFields
  <2> QED
    BY <1>i, <2>1, <2>2, Zenon
<1> QED
  BY <1>1, <1>2, <1>3, <1>4, <1>5, <1>6, <1>7, <1>8, <1>9, RollbackSteps, Zenon DEF Next, Serve, Advance, Ended

\* What close_inner emptied stays empty.
LEMMA StepEmpties ==
    ASSUME TypeOK, ConnectInv, [Next]_vars
    PROVE  CloseEmpties'
<1> USE DEF CloseEmpties
<1>i. CloseEmpties /\ PhasesMatch /\ PeerTypeOK
  BY Zenon DEF ConnectInv, TypeOK
<1>1. CASE Begin
  BY <1>i, <1>1, StartCloseEffect, ResetEffect, Zenon DEF Begin
<1>2. CASE RolledBack \/ Prepare \/ PrepareFailed \/ RollbackDone
  BY <1>i, <1>2, ResetEffect, Zenon DEF RolledBack, Prepare, PrepareFailed, RollbackDone, CloseFinished
<1>3. CASE CreatePeer \/ Configured
  <2>1. closing' = "none"
    BY <1>i, <1>3, Zenon DEF CreatePeer, Register, Configured, StoreComponents, PhasesMatch, Quiet
  <2> QED
    BY <1>i, <1>3, <2>1, Zenon DEF CreatePeer, Register, OwnPeer, Configured, StoreComponents
<1>4. CASE OfferReady \/ Answered \/ Opened
  BY <1>i, <1>4, Zenon DEF OfferReady, Answered, ApplyAnswer, Opened
<1>5. CASE PrepareFails
  BY <1>i, <1>5, StartCloseEffect, Zenon DEF PrepareFails
<1>6. CASE RollsBack
  BY <1>i, <1>6, StartCloseEffect, ResetEffect, Zenon DEF RollsBack, Rollback
<1>7. CASE Exchange \/ Tick \/ UNCHANGED vars
  BY <1>i, <1>7, Zenon DEF Exchange, Tick, vars
<1>8. CASE Drop \/ DropService \/ Release
  BY <1>i, <1>8, DropEffect, Zenon DEF Release, DropEngine
<1>9. CASE Engine
  <2>1. CASE PeerEvent
    BY <1>i, <1>9, <2>1, EventEffect, Zenon DEF Engine
  <2>2. CASE CloseStep
    <3>1. attempt' \notin {"creating", "configuring"} /\ UNCHANGED attempt
      BY <1>i, <1>9, <2>2, Zenon DEF Engine, CloseStep, CloseCommand, TakeMedia, ClosePeer, CloseFields,
                              PhasesMatch, Quiet
    <3> QED
      BY <1>i, <2>2, <3>1, Zenon DEF CloseStep, CloseCommand, TakeMedia, ClosePeer, CloseFields
  <2> QED
    BY <1>9, <2>1, <2>2, Zenon DEF Engine
<1> QED
  BY <1>1, <1>2, <1>3, <1>4, <1>5, <1>6, <1>7, <1>8, <1>9, RollbackSteps, Zenon
     DEF Next, Serve, Advance, Ended

\* The fields are of the peer numbered last.
LEMMA StepOwns ==
    ASSUME TypeOK, ConnectInv, [Next]_vars
    PROVE  AttemptOwns'
<1> USE DEF AttemptOwns, Offered
<1>i. AttemptOwns /\ PhasesMatch /\ PeerTypeOK /\ connected \in BOOLEAN
  BY Zenon DEF ConnectInv, TypeOK
<1>1. CASE Begin \/ RolledBack \/ PrepareFailed \/ RollbackDone \/ PrepareFails
  BY <1>i, <1>1 DEF Begin, RolledBack, PrepareFailed, RollbackDone, PrepareFails, PhasesMatch
<1>2. CASE Prepare
  BY <1>i, <1>2, PeersAssumption, Zenon DEF Prepare, PhasesMatch
<1>3. CASE CreatePeer
  BY <1>i, <1>3, Zenon DEF CreatePeer, Register, OwnPeer, PhasesMatch
<1>4. CASE Configured
  BY <1>i, <1>4, Zenon DEF Configured, StoreComponents
<1>5. CASE OfferReady \/ Answered \/ Opened
  BY <1>i, <1>5, Zenon DEF OfferReady, Answered, ApplyAnswer, Opened
<1>6. CASE RollsBack
  BY <1>6, Zenon DEF RollsBack, Rollback
<1>7. CASE Exchange \/ Tick \/ UNCHANGED vars
  BY <1>i, <1>7 DEF Exchange, Tick, vars
<1>8. CASE Drop \/ DropService
  BY <1>i, <1>8, DropEffect
<1>10. CASE Release
  BY <1>i, <1>10 DEF Release
<1>9. CASE Engine
  <2>1. CASE PeerEvent
    BY <1>i, <1>9, <2>1, EventEffect, Zenon DEF Engine
  <2>2. CASE CloseStep
    <3>1. UNCHANGED <<attempt, connected, owner>>
      BY <1>9, Zenon DEF Engine
    <3>2. closing # "none"
      BY <2>2, Zenon DEF CloseStep, CloseCommand, TakeMedia, ClosePeer, CloseFields
    <3> QED
      BY <1>i, <3>1, <3>2, Zenon DEF PhasesMatch, Quiet
  <2> QED
    BY <1>9, <2>1, <2>2, Zenon DEF Engine
<1> QED
  BY <1>1, <1>2, <1>3, <1>4, <1>5, <1>6, <1>7, <1>8, <1>9, <1>10, RollbackSteps, Zenon
     DEF Next, Serve, Advance, Ended

-----------------------------------------------------------------------------
(* What is alive. *)

\* Steps that leave peers, tasks and fields alone.
LEMMA FrameAlive ==
    ASSUME AliveIsOwned, CloseEmpties,
           UNCHANGED <<peer, media, command, task, listed, resources, commandTask, taken>>,
           owner # "released",
           closing = "media" => closing' = "media"
    PROVE  AliveIsOwned'
BY Zenon DEF AliveIsOwned

\* Every step keeps what is alive in a field, or in the hands of close_inner.
LEMMA StepAlive ==
    ASSUME TypeOK, ConnectInv, [Next]_vars
    PROVE  AliveIsOwned'
<1>i. /\ AliveIsOwned /\ CloseEmpties /\ PhasesMatch /\ AttemptOwns /\ PeerTypeOK
  BY Zenon DEF ConnectInv, TypeOK
<1>1. CASE Begin \/ PrepareFails \/ RollsBack
  <2>1. owner # "released"
    BY <1>i, <1>1, Zenon DEF Begin, Handles, PrepareFails, RollsBack, PhasesMatch
  <2> QED
    BY <1>i, <1>1, <2>1, StartCloseEffect, ResetEffect, FrameAlive, Zenon
       DEF Begin, PrepareFails, RollsBack, Rollback
<1>2. CASE RolledBack \/ Prepare \/ PrepareFailed \/ RollbackDone
  <2>1. owner # "released"
    BY <1>i, <1>2, Zenon DEF RolledBack, Prepare, PrepareFailed, RollbackDone, PhasesMatch
  <2> QED
    BY <1>i, <1>2, <2>1, ResetEffect, FrameAlive, Zenon
       DEF RolledBack, Prepare, PrepareFailed, RollbackDone, CloseFinished
<1>3. CASE CreatePeer
  <2>1. /\ resources = 0 /\ taken = 0 /\ current \in Peers /\ owner # "released" /\ closing = "none"
    BY <1>i, <1>3, Zenon DEF CreatePeer, CloseEmpties, PhasesMatch, Quiet, AttemptOwns, PeerTypeOK
  <2> QED
    BY <1>i, <1>3, <2>1, PeersAssumption, Zenon DEF CreatePeer, Register, OwnPeer, AliveIsOwned, PeerTypeOK
<1>4. CASE Configured
  <2>1. commandTask = 0 /\ current \in Peers /\ owner # "released"
    BY <1>i, <1>4, Zenon DEF Configured, CloseEmpties, PhasesMatch, AttemptOwns, PeerTypeOK
  <2> QED
    BY <1>i, <1>4, <2>1, PeersAssumption DEF Configured, StoreComponents, AliveIsOwned, PeerTypeOK
<1>5. CASE OfferReady \/ Answered \/ Opened \/ Exchange \/ Tick \/ UNCHANGED vars
  <2>1. UNCHANGED <<peer, media, command, task, listed, resources, commandTask, taken, closing, owner>>
    BY <1>5, Zenon DEF OfferReady, Answered, ApplyAnswer, Opened, Exchange, Tick, vars
  <2> QED
    BY <1>i, <2>1, Zenon DEF AliveIsOwned
<1>12. CASE Drop \/ DropService
  BY <1>i, <1>12, DropEffect, FrameAlive, Zenon
<1>6. CASE Release
  <2>1. owner' = "released" /\ resources' = 0 /\ \A p \in Peers : media'[p] => media[p] /\ p # resources
    BY <1>i, <1>6, Zenon DEF Release, DropEngine
  <2> QED
    BY <1>i, <2>1, Zenon DEF AliveIsOwned
<1>7. CASE Engine /\ PeerEvent
  <2>1. UNCHANGED <<current, ownerVars, closeVars, media, owner>>
    BY <1>7, EventEffect, Zenon DEF Engine
  <2>2. ASSUME NEW p \in Peers, NEW event, StateCallback(p, event)
        PROVE  AliveIsOwned'
    BY <1>i, <2>1, <2>2, Zenon DEF StateCallback, AliveIsOwned
  <2>3. ASSUME NEW p \in Peers, NEW t \in Tracks, OnTrack(p, t)
        PROVE  AliveIsOwned'
    <3>1. p = resources /\ p # 0
      BY <1>i, <2>3, PeersAssumption, Zenon DEF OnTrack, AliveIsOwned
    <3>2. \A u \in Tracks : task'[u] = IF u = t THEN "running" ELSE task[u]
      BY <1>i, <2>3, Zenon DEF OnTrack, PeerTypeOK
    <3>3. \A q \in Peers : listed'[q] = IF q = p THEN {u \in listed[p] : task[u] # "ended"} \cup {t}
                                                 ELSE listed[q]
      BY <1>i, <2>3, Zenon DEF OnTrack, PeerTypeOK
    <3>4. UNCHANGED <<peer, command>>
      BY <2>3, Zenon DEF OnTrack
    <3>5. taken # 0 => taken # p /\ taken \in Peers
      BY <1>i, <3>1, Zenon DEF CloseEmpties, PeerTypeOK
    <3> QED
      BY <1>i, <2>1, <3>1, <3>2, <3>3, <3>4, <3>5, Zenon DEF AliveIsOwned
  <2>4. ASSUME NEW t \in Tracks, TaskEnds(t)
        PROVE  AliveIsOwned'
    BY <1>i, <2>1, <2>4 DEF TaskEnds, AliveIsOwned, PeerTypeOK
  <2>5. ASSUME NEW p \in Peers, CommandEnds(p)
        PROVE  AliveIsOwned'
    BY <1>i, <2>1, <2>5 DEF CommandEnds, AliveIsOwned, PeerTypeOK
  <2>6. ASSUME NEW p \in Peers, PeerCloses(p)
        PROVE  AliveIsOwned'
    BY <1>i, <2>1, <2>6 DEF PeerCloses, AliveIsOwned, PeerTypeOK
  <2> QED
    BY <1>7, <2>2, <2>3, <2>4, <2>5, <2>6, Zenon DEF PeerEvent, ChannelChanges, PeerChanges
<1>8. CASE Engine /\ CloseCommand
  BY <1>i, <1>8, Zenon DEF Engine, CloseCommand, AbortCommand, AliveIsOwned
<1>9. CASE Engine /\ TakeMedia
  <2>1. /\ taken = 0 /\ closing = "command" /\ closing' = "media"
        /\ UNCHANGED <<owner, peer, listed, command>>
    BY <1>i, <1>9, Zenon DEF Engine, TakeMedia, CloseEmpties
  <2>2. commandTask' = 0 /\ resources' = 0 /\ taken' = resources
    BY <1>9, Zenon DEF TakeMedia
  <2>3. \A p \in Peers : ~media'[p]
    BY <1>i, <1>9, Zenon DEF TakeMedia, AliveIsOwned
  <2>4. \A p \in Peers : owner # "released" => command[p] \notin {"running", "aborted"}
    <3>1. 0 \notin Peers
      BY PeersAssumption, Zenon
    <3>2. commandTask # 0 => command[commandTask] = "ended"
      BY <1>9, Zenon DEF TakeMedia, CommandGone
    <3> QED
      BY <1>i, <3>1, <3>2, Zenon DEF AliveIsOwned
  <2>5. \A t \in Tracks : task'[t] \in {"running", "aborted"} => task[t] \in {"running", "aborted"}
    BY <1>i, <1>9, Zenon DEF TakeMedia, Abort, PeerTypeOK
  <2> QED
    BY <1>i, <2>1, <2>2, <2>3, <2>4, <2>5, Zenon DEF AliveIsOwned
<1>10. CASE Engine /\ ClosePeer
  <2>1. resources = 0 /\ UNCHANGED <<owner, media, listed, task, command, ownerVars, taken>>
    BY <1>i, <1>10, Zenon DEF Engine, ClosePeer, CloseEmpties
  <2>2. \A p \in Peers : peer'[p] \in {"live", "closing", "left"} => peer[p] \in {"live", "closing", "left"}
    BY <1>i, <1>10, Zenon DEF ClosePeer
  <2>3. taken # 0 => \A t \in listed[taken] : task[t] = "ended"
    BY <1>10, Zenon DEF ClosePeer
  <2> QED
    BY <1>i, <2>1, <2>2, <2>3, Zenon DEF AliveIsOwned
<1>11. CASE Engine /\ CloseFields
  <2>1. /\ resources = 0 /\ closing = "peer" /\ taken' = 0 /\ (taken # 0 => peer[taken] = "closed")
        /\ UNCHANGED <<owner, peer, media, listed, task, command, resources, commandTask>>
    BY <1>i, <1>11, Zenon DEF Engine, CloseFields, CloseEmpties
  <2>2. 0 \notin Peers
    BY PeersAssumption, Zenon
  <2> QED
    BY <1>i, <2>1, <2>2, Zenon DEF AliveIsOwned
<1> QED
  BY <1>1, <1>2, <1>3, <1>4, <1>5, <1>6, <1>7, <1>8, <1>9, <1>10, <1>11, <1>12, RollbackSteps, Zenon
     DEF Next, Serve, Advance, Ended, Engine, CloseStep

-----------------------------------------------------------------------------
(* The exchange. *)

\* Every step keeps the answer that of the peer numbered last.
LEMMA StepAnswer ==
    ASSUME TypeOK, ConnectInv, [Next]_vars
    PROVE  AnswerMatches'
<1> USE DEF AnswerMatches
<1>i. AnswerMatches /\ PhasesMatch /\ SignalTypeOK /\ connected \in BOOLEAN
  BY Zenon DEF ConnectInv, TypeOK
<1>1. CASE \/ Begin \/ RolledBack \/ Prepare \/ CreatePeer \/ Configured \/ PrepareFails
           \/ PrepareFailed \/ RollsBack \/ RollbackDone
  <2>1. attempt' \notin {"exchange", "answering"}
    BY <1>1, Zenon DEF Begin, RolledBack, Prepare, CreatePeer, Configured, PrepareFails, PrepareFailed,
                RollsBack, Rollback, RollbackDone
  <2>2. connected' = FALSE
    <3>1. CASE Begin \/ RollsBack
      BY <3>1, Zenon DEF Begin, RollsBack, Rollback
    <3>2. CASE ~(Begin \/ RollsBack)
      <4>1. attempt # "idle" /\ UNCHANGED connected
        BY <1>1, <3>2, Zenon DEF RolledBack, Prepare, CreatePeer, Configured, PrepareFails, PrepareFailed,
                          RollbackDone
      <4> QED
        BY <1>i, <4>1, Zenon DEF PhasesMatch
    <3> QED
      BY <3>1, <3>2, Zenon
  <2> QED
    BY <2>1, <2>2, Zenon
<1>2. CASE OfferReady
  BY <1>i, <1>2, Zenon DEF OfferReady, StartExchange, Request, PhasesMatch
<1>3. CASE Exchange
  <2>1. /\ attempt = "exchange" /\ UNCHANGED <<attempt, connected, owner, current, answered>>
        /\ ~connected /\ ExchangeStep(current)
    BY <1>i, <1>3, Zenon DEF Exchange, PhasesMatch
  <2>2. CASE RequestAnswered \/ ReadChunk \/ RequestTimesOut \/ RequestBreaks
    <3>1. \/ UNCHANGED <<answer, sealKey>> /\ step' # "ok" /\ step' \notin {"ingest", "ingestBody"}
          \/ UNCHANGED <<answer, sealKey>> /\ step' # "ok" /\ step \in {"ingest", "ingestBody"}
      BY <1>i, <2>2, Zenon DEF RequestAnswered, ReadChunk, RequestTimesOut, RequestBreaks, RequestFails,
                        Request, Sends, Reads
    <3> QED
      BY <1>i, <2>1, <3>1, Zenon
  <2>3. CASE LegacyDone(current)
    BY <1>i, <2>1, <2>3, Zenon DEF LegacyDone
  <2>4. CASE NotifyDone(current)
    BY <1>i, <2>1, <2>4, Zenon DEF NotifyDone, Request
  <2>5. CASE IngestDone
    BY <1>i, <2>1, <2>5 DEF IngestDone
  <2> QED
    BY <2>1, <2>2, <2>3, <2>4, <2>5, Zenon DEF ExchangeStep
<1>4. CASE Answered
  <2>1. answer.offer = current /\ answer.says = "answer"
    BY <1>i, <1>4, Zenon DEF Answered, ParseAnswer
  <2>2. answer = [says |-> "answer", offer |-> current]
    BY <1>i, <2>1, Zenon DEF SignalTypeOK
  <2> QED
    BY <1>i, <1>4, <2>2, Zenon DEF Answered, ApplyAnswer
<1>5. CASE Opened
  BY <1>i, <1>5, Zenon DEF Opened, DropExchange
<1>6. CASE Tick \/ UNCHANGED vars
  <2>1. UNCHANGED <<attempt, step, sealKey, current, answer, answered, connected, owner>>
    BY <1>6, Zenon DEF Tick, vars
  <2> QED
    BY <1>i, <2>1, Zenon
<1>7. CASE Drop \/ DropService
  BY <1>i, <1>7, DropEffect
<1>9. CASE Release
  BY <1>i, <1>9 DEF Release, DropEngine
<1>8. CASE Engine
  <2>1. UNCHANGED <<current, answered>>
    BY <1>8, EventEffect, Zenon DEF Engine, CloseStep, CloseCommand, TakeMedia, ClosePeer, CloseFields
  <2> QED
    BY <1>i, <1>8, <2>1, Zenon DEF Engine
<1> QED
  BY <1>1, <1>2, <1>3, <1>4, <1>5, <1>6, <1>7, <1>8, <1>9, RollbackSteps, Zenon DEF Next, Serve, Advance, Ended

\* One step of the exchange keeps its failures explained.
LEMMA ExchangeFair ==
    ASSUME SignalTypeOK, ExchangeIsFair, NEW offer, ExchangeStep(offer)
    PROVE  ExchangeIsFair'
<1> USE DEF ExchangeIsFair
<1>0. UNCHANGED <<robot, deviceKey>> /\ hindered \in BOOLEAN
  BY Zenon DEF SignalTypeOK, ExchangeStep, RequestAnswered, ReadChunk, LegacyDone, NotifyDone, IngestDone,
         RequestTimesOut, RequestBreaks, RequestFails, Request
<1>h. Honest' = Honest
  BY <1>0, Zenon DEF Honest
<1>1. ASSUME RequestFails(TRUE), step \in Sends \cup Reads
      PROVE  ExchangeIsFair'
  <2>1. hindered' = (hindered \/ Serves)
    BY <1>1, Zenon DEF RequestFails
  <2>2. CASE step \in {"legacy", "legacyBody"}
    <3>1. step' = "notify" /\ (robot.serves = "legacy" => Serves)
      BY <1>1, <2>2, Zenon DEF RequestFails, Request, Serves
    <3> QED
      BY <1>0, <2>1, <3>1, Zenon
  <2>3. CASE step \notin {"legacy", "legacyBody"}
    <3>1. step' = "err" /\ (robot.serves # "legacy" => Serves)
      BY <1>1, <2>3 DEF RequestFails, Serves
    <3>2. step \in {"notify", "notifyBody", "ingest", "ingestBody"}
      BY <1>1, <2>3, Zenon DEF Sends, Reads
    <3> QED
      BY <2>1, <3>1, <3>2, Zenon
  <2> QED
    BY <2>2, <2>3, Zenon
<1>2. CASE ReadChunk \/ RequestTimesOut \/ RequestBreaks
  BY <1>0, <1>1, <1>2, <1>h, Zenon DEF ReadChunk, RequestTimesOut, RequestBreaks, Reads
<1>3. CASE RequestAnswered
  <2>1. CASE ~Serves /\ RequestFails(FALSE)
    <3>1. hindered' = hindered
      BY <1>0, <2>1, Zenon DEF RequestFails
    <3>2. CASE step = "legacy"
      BY <1>0, <2>1, <3>1, <3>2, Zenon DEF Serves, RequestFails, Request
    <3>3. CASE step # "legacy"
      <4>1. step \in {"notify", "ingest"} /\ step' = "err"
        BY <1>3, <2>1, <3>3 DEF RequestAnswered, RequestFails, Sends
      <4>2. robot.serves = "legacy"
        BY <2>1, <4>1 DEF Serves
      <4> QED
        BY <3>1, <4>1, <4>2, Zenon
    <3> QED
      BY <3>2, <3>3, Zenon
  <2>2. CASE Serves /\ ~(~Serves /\ RequestFails(FALSE))
    BY <1>0, <1>3, <2>2 DEF RequestAnswered, Sends
  <2> QED
    BY <1>3, <2>1, <2>2, Zenon DEF RequestAnswered
<1>4. CASE LegacyDone(offer)
  BY <1>4, Zenon DEF LegacyDone
<1>5. CASE NotifyDone(offer)
  <2>1. CASE Notified(deviceKey)
    BY <1>0, <1>5, <2>1, Zenon DEF NotifyDone, Request
  <2>2. CASE ~Notified(deviceKey)
    <3>1. robot.serves # "legacy" => ~Honest
      BY <2>2 DEF Notified, Honest, DecodeData1, Opens, OpensWithDeviceKey, ValidDeviceKey,
                      LoadsPublicKey
    <3> QED
      BY <1>0, <1>5, <1>h, <2>2, <3>1, Zenon DEF NotifyDone
  <2> QED
    BY <2>1, <2>2, Zenon
<1>6. CASE IngestDone
  BY <1>0, <1>6, <1>h, Zenon DEF IngestDone, Honest
<1> QED
  BY <1>2, <1>3, <1>4, <1>5, <1>6, Zenon DEF ExchangeStep

\* Every step keeps the failures of the exchange explained.
LEMMA StepFair ==
    ASSUME TypeOK, ConnectInv, [Next]_vars
    PROVE  ExchangeIsFair'
<1>i. ExchangeIsFair /\ SignalTypeOK
  BY Zenon DEF ConnectInv, TypeOK
<1>1. CASE Exchange
  BY <1>i, <1>1, ExchangeFair, Zenon DEF Exchange
<1>2. CASE StartExchange \/ DropExchange
  BY <1>2, Zenon DEF StartExchange, DropExchange, Request, ExchangeIsFair
<1>3. CASE UNCHANGED <<robot, deviceKey, step, hindered>>
  BY <1>i, <1>3, Zenon DEF ExchangeIsFair, Honest
<1> QED
  BY <1>1, <1>2, <1>3, RollbackSteps, Zenon
     DEF Next, Serve, Advance, Begin, RollsBack, Drop, DropService, Release, RolledBack, Prepare, CreatePeer, Configured,
         PrepareFails, PrepareFailed, OfferReady, Answered, Opened, Rollback, RollbackDone,
         Tick, Engine, Ended, vars

-----------------------------------------------------------------------------
(* The theorems. *)

\* The inductive invariant holds at the start.
LEMMA InitConnect == Init => ConnectInv
BY PeersAssumption, Zenon
   DEF Init, PeerInit, SignalInit, ConnectInv, PhasesMatch, Quiet, AliveIsOwned, CloseEmpties,
       AttemptOwns, Offered, AnswerMatches, ExchangeIsFair

\* Every behaviour keeps the types and the inductive invariant.
LEMMA ConnectCorrect == Spec => [](TypeOK /\ ConnectInv)
<1>1. Init => TypeOK /\ ConnectInv
  BY InitTyped, InitConnect, Zenon
<1>2. TypeOK /\ ConnectInv /\ [Next]_vars => (TypeOK /\ ConnectInv)'
  BY NextTyped, StepPhases, StepAlive, StepEmpties, StepOwns, StepAnswer, StepFair, Zenon DEF ConnectInv
<1> QED
  BY <1>1, <1>2, PTL DEF Spec

\* From the end of a close to the next peer nothing of an earlier peer runs, whatever
\* callbacks come late.
THEOREM CloseCorrect == Spec => []NothingOutlivesClose
<1>1. TypeOK /\ ConnectInv => NothingOutlivesClose
  <2> SUFFICES ASSUME TypeOK, ConnectInv,
                      closing = "finished" \/ (closing = "none" /\ resources = 0 /\ owner # "released")
               PROVE  NothingOutlivesClose
    BY Zenon DEF NothingOutlivesClose
  <2>1. resources = 0 /\ commandTask = 0 /\ taken = 0 /\ owner # "released" /\ 0 \notin Peers
    BY PeersAssumption, Zenon DEF ConnectInv, CloseEmpties, PhasesMatch, Quiet
  <2>2. PeerTypeOK
    BY Zenon DEF TypeOK
  <2> QED
    BY <2>1, <2>2, Zenon DEF ConnectInv, AliveIsOwned, NothingOutlivesClose, TasksAreOver, PeerTypeOK
<1> QED
  BY <1>1, ConnectCorrect, PTL

\* is_connected is true only of a peer the engine owns, with the robot's answer to its offer.
THEOREM ConnectedCorrect == Spec => []ConnectedPeerIsOwned
<1>1. TypeOK /\ ConnectInv => ConnectedPeerIsOwned
  BY Zenon DEF ConnectInv, AttemptOwns, Offered, AliveIsOwned, AnswerMatches, ConnectedPeerIsOwned
<1> QED
  BY <1>1, ConnectCorrect, PTL

\* An exchange fails only for a reason.
THEOREM ExchangeCorrect == Spec => []HonestRobotIsReached
<1>1. TypeOK /\ ConnectInv => HonestRobotIsReached
  BY Zenon DEF ConnectInv, ExchangeIsFair, HonestRobotIsReached
<1> QED
  BY <1>1, ConnectCorrect, PTL
================================================================================
