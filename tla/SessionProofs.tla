---------------------------- MODULE SessionProofs ----------------------------
(***************************************************************************)
(* Safety in two parts that share nothing but this module.                 *)
(*                                                                         *)
(* The session, for any number of calls, of disconnects and of retries.    *)
(* Everything but the disconnect generation is owned through session_gate, *)
(* so the invariant says what the session may hold at each step of the     *)
(* owner of the gate.                                                      *)
(*                                                                         *)
(* The LiDAR workers, for any number of workers, jobs, handles and epochs. *)
(***************************************************************************)
EXTENDS SessionLifecycle, LidarWorkerPool, TLAPS

All == Calls \cup {Final}

\* Steps without the gate.
Outside == {"idle", "check", "subscribe", "queued", "backoff", "request", "cancelled", "done"}

Held == Steps \ Outside

CallType == call \in [All -> [mode : AllModes, pc : Steps, seen : Nat, began : Nat, try : Nat]]

GateInv ==
    /\ CallType /\ gate \in All \cup {None}
    /\ \A c \in All : call[c].pc \in Held <=> gate = c
    /\ alive => call[Final].pc = "idle"

\* Where the owner of the gate is.
Holder == IF gate = None THEN "free" ELSE call[gate].pc

\* Steps of an owner that may have a close task, or an audio cleanup, in progress.
Closing == {"rollbackWait", "offerWait", "offerFailed", "teardown", "teardownWait", "closeWait",
            "dropAudio", "dropWait", "dropClose"}

Cleaning == {"audioWait", "teardown", "teardownWait", "dropAudio", "dropWait", "playWait",
             "playFailed", "stopWait", "audioDrop", "audioDropWait"}

\* Steps of an owner that has stopped the playback and started none.
Silent == OpSteps \cup AudioSteps \cup DropSteps \cup {"teardownWait", "closeWait"}

\* Steps of an owner that may have a peer which is not a connection.
Unfinished == Closing \cup {"offering", "answering"}

LinkInv ==
    /\ closeTask \in {"none", "running", "finished"}
    /\ closeTask # "none" => Holder \in Closing /\ ~sender
    /\ closeTask = "finished" => peer = "none"
    /\ cleanup # "none" => Holder \in Cleaning
    /\ sender => Holder \notin Silent /\ connected /\ peer # "none" /\ cleanup = "none"
    /\ peer # "none" /\ ~connected => Holder \in Unfinished
    /\ Holder \in {"closeWait", "dropClose"} => ~connected

\* Where a disconnect can be.
DisconnectSteps == {"queued", "teardown", "teardownWait", "closeWait", "dropAudio", "dropWait",
                    "dropClose", "done", "cancelled"}

Disconnected(d) == call[d].mode = "disconnect" /\ call[d].pc = "done"

\* The attempt that runs, and the one the session is connected through, subscribed
\* after every disconnect that has returned.
SeenInv ==
    /\ generation \in Nat /\ established \in Nat
    /\ \A c \in All : call[c].seen <= generation
    /\ \A c \in All : call[c].mode = "disconnect" => call[c].pc \in DisconnectSteps
    /\ \A d \in All : Disconnected(d) /\ connected => established >= call[d].seen
    /\ \A c, d \in All : call[c].pc \in OpSteps /\ Disconnected(d) => call[d].seen <= call[c].seen

Inv == GateInv /\ LinkInv /\ SeenInv

\* A call is at another step; whoever called what for which generation is the same.
Moved(c, step) ==
    /\ CallType' /\ call'[c].pc = step
    /\ call'[c].mode = call[c].mode /\ call'[c].seen = call[c].seen
    /\ \A d \in All : d # c => call'[d] = call[d]

-----------------------------------------------------------------------------
(* What a step does to the calls and to the gate. *)

\* Goto changes the step of one call.
LEMMA GotoEffect ==
    ASSUME CallType, NEW c \in All, NEW step \in Steps, Goto(c, step)
    PROVE  Moved(c, step)
  BY Zenon DEF CallType, Goto, Moved

\* A failed attempt of auto_reconnect may be tried again; every other call returns.
LEMMA ReturnErrEffect ==
    ASSUME CallType, NEW c \in All, ReturnErr(c)
    PROVE  Moved(c, "done") \/ (Moved(c, "backoff") /\ call[c].mode = "retry")
  <1>1. "done" \in Steps /\ "backoff" \in Steps
    BY Zenon DEF Steps
  <1>2. CASE call[c].mode = "retry" /\ call[c].try + 1 < MaxRetries
    <2>1. call' = [call EXCEPT ![c].pc = "backoff", ![c].try = call[c].try + 1]
      BY <1>2, Zenon DEF ReturnErr
    <2> QED BY <1>1, <1>2, <2>1 DEF CallType, Moved
  <1>3. CASE ~(call[c].mode = "retry" /\ call[c].try + 1 < MaxRetries)
    BY <1>1, <1>3, GotoEffect, Zenon DEF ReturnErr
  <1> QED BY <1>2, <1>3, Zenon

\* The owner of the gate is its holder.
LEMMA OwnerIsHolder ==
    ASSUME GateInv, NEW c \in All, call[c].pc \in Held
    PROVE  /\ gate = c /\ Holder = call[c].pc /\ c # None
           /\ \A d \in All : d # c => call[d].pc \notin Held
  BY NameAssumption, Zenon DEF GateInv, Holder, All

\* The owner goes on.
LEMMA HolderMoves ==
    ASSUME GateInv, NEW c \in All, call[c].pc \in Held, NEW step \in Held, Moved(c, step),
           UNCHANGED <<gate, alive>>
    PROVE  GateInv' /\ Holder = call[c].pc /\ Holder' = step
  <1>1. /\ gate = c /\ Holder = call[c].pc /\ c # None
        /\ \A d \in All : d # c => call[d].pc \notin Held
    BY OwnerIsHolder, Zenon
  <1>2. Holder' = step
    BY <1>1, Zenon DEF Holder, Moved
  <1>3. ~alive \/ c # Final
    BY Zenon DEF GateInv, Held, Outside
  <1>4. \A d \in All : call'[d].pc \in Held <=> gate' = d
    BY <1>1, Zenon DEF Moved
  <1>5. alive' => call'[Final].pc = "idle"
    BY <1>3, Zenon DEF GateInv, Moved, All
  <1> QED BY <1>1, <1>2, <1>4, <1>5, Zenon DEF GateInv, Moved

\* The owner leaves the gate.
LEMMA HolderLeaves ==
    ASSUME GateInv, NEW c \in All, call[c].pc \in Held, NEW step \in Outside, Moved(c, step),
           gate' = None, UNCHANGED alive
    PROVE  GateInv' /\ Holder = call[c].pc /\ Holder' = "free"
  <1>1. /\ gate = c /\ Holder = call[c].pc /\ c # None
        /\ \A d \in All : d # c => call[d].pc \notin Held
    BY OwnerIsHolder, Zenon
  <1>2. Holder' = "free"
    BY Zenon DEF Holder
  <1>3. ~alive \/ c # Final
    BY Zenon DEF GateInv, Held, Outside
  <1>4. \A d \in All : call'[d].pc \notin Held /\ gate' # d
    BY <1>1, NameAssumption, Zenon DEF Moved, Held, All
  <1>5. alive' => call'[Final].pc = "idle"
    BY <1>3, Zenon DEF GateInv, Moved, All
  <1> QED BY <1>1, <1>2, <1>4, <1>5, Zenon DEF GateInv, Moved

\* A call that does not have the gate does not get it.
LEMMA OutsiderMoves ==
    ASSUME GateInv, NEW c \in All, call[c].pc \in Outside, CallType', call'[c].pc \in Outside,
           \A d \in All : d # c => call'[d] = call[d],
           UNCHANGED gate, alive' => alive /\ c # Final
    PROVE  GateInv' /\ Holder' = Holder
  <1>1. gate # c
    BY Zenon DEF GateInv, Held
  <1>2. Holder' = Holder
    BY <1>1, Zenon DEF GateInv, Holder
  <1>3. \A d \in All : call'[d].pc \in Held <=> gate' = d
    BY <1>1, Zenon DEF GateInv, Held
  <1>4. alive' => call'[Final].pc = "idle"
    BY Zenon DEF GateInv, All
  <1> QED BY <1>2, <1>3, <1>4, Zenon DEF GateInv

-----------------------------------------------------------------------------
(* What a step does to the order of disconnects and attempts. *)

\* No attempt begins, no connection is made, and a disconnect returns only when there is
\* neither a connection nor an attempt.
LEMMA SeenKept ==
    ASSUME GateInv, SeenInv, NEW c \in All, NEW step, Moved(c, step),
           UNCHANGED <<generation, established>>, connected' => connected,
           step \in OpSteps => call[c].pc \in OpSteps,
           call[c].mode = "disconnect" => step \in DisconnectSteps,
           call[c].mode = "disconnect" /\ step = "done" => call[c].pc \in Held /\ ~connected'
    PROVE  SeenInv'
  <1>1. \A d \in All : call'[d].seen = call[d].seen /\ call'[d].mode = call[d].mode
                       /\ (d # c => call'[d].pc = call[d].pc)
    BY Zenon DEF Moved
  <1>2. \A d \in All : call'[d].seen <= generation'
    BY <1>1, Zenon DEF SeenInv
  <1>3. \A d \in All : call'[d].mode = "disconnect" => call'[d].pc \in DisconnectSteps
    BY <1>1, Zenon DEF SeenInv, Moved
  <1>4. \A d \in All : Disconnected(d)' /\ connected' => established' >= call'[d].seen
    BY <1>1, Zenon DEF SeenInv, Moved, Disconnected
  <1>5. ASSUME NEW b \in All, NEW d \in All, call'[b].pc \in OpSteps, Disconnected(d)'
        PROVE  call'[d].seen <= call'[b].seen
    <2>1. call[b].pc \in OpSteps
      BY <1>1, <1>5, Zenon DEF Moved
    <2>2. CASE d # c
      BY <1>1, <1>5, <2>1, <2>2, Zenon DEF SeenInv, Disconnected
    <2>3. CASE d = c
      <3>1. step = "done" /\ call[c].mode = "disconnect" /\ b # c
        BY <1>1, <1>5, <2>3, Zenon DEF Disconnected, Moved, OpSteps
      <3>2. call[b].pc \notin Held
        BY <3>1, OwnerIsHolder, Zenon
      <3> QED BY <2>1, <3>2, Zenon DEF Held, Outside, Steps, OpSteps
    <2> QED BY <2>2, <2>3, Zenon
  <1> QED BY <1>2, <1>3, <1>4, <1>5, Zenon DEF SeenInv

\* The owner of the gate goes on and begins no attempt.
LEMMA OwnerGoes ==
    ASSUME GateInv, SeenInv, NEW c \in All, call[c].pc \in Held, NEW step \in Held, Goto(c, step),
           UNCHANGED <<gate, alive, generation, established>>, connected' => connected,
           step \in OpSteps => call[c].pc \in OpSteps,
           call[c].pc \in DisconnectSteps => step \in DisconnectSteps
    PROVE  GateInv' /\ SeenInv' /\ Holder = call[c].pc /\ Holder' = step
  <1>1. Moved(c, step)
    BY GotoEffect, Zenon DEF GateInv, Held
  <1>2. step # "done"
    BY Zenon DEF Held, Outside
  <1>3. call[c].mode = "disconnect" => step \in DisconnectSteps
    BY Zenon DEF SeenInv
  <1> QED BY <1>1, <1>2, <1>3, HolderMoves, SeenKept, Zenon

\* The owner of the gate is done with its operation, or with an attempt.
LEMMA OwnerReturns ==
    ASSUME GateInv, SeenInv, NEW c \in All, call[c].pc \in Held,
           Goto(c, "done") \/ ReturnErr(c), Release,
           UNCHANGED <<alive, generation, established>>, connected' => connected,
           call[c].pc \in DisconnectSteps => ~connected'
    PROVE  GateInv' /\ SeenInv' /\ Holder = call[c].pc /\ Holder' = "free"
  <1>1. PICK step \in {"done", "backoff"} :
           Moved(c, step) /\ (call[c].mode = "disconnect" => step = "done")
    BY GotoEffect, ReturnErrEffect, Zenon DEF GateInv, Steps
  <1>2. call[c].mode = "disconnect" => ~connected'
    BY Zenon DEF SeenInv
  <1>3. step \notin OpSteps /\ "done" \in DisconnectSteps /\ step \in Outside
    BY <1>1, Zenon DEF OpSteps, DisconnectSteps, Outside
  <1>4. SeenInv'
    BY <1>1, <1>2, <1>3, SeenKept, Zenon
  <1>5. gate' = None
    BY Zenon DEF Release
  <1> QED BY <1>1, <1>3, <1>4, <1>5, HolderLeaves, Zenon

-----------------------------------------------------------------------------
(* The steps with the gate. *)

\* The playback is stopped, or was not running.
LEMMA PlaybackIsStopped ==
    ASSUME LinkInv, StopAudioSender
    PROVE  ~sender' /\ cleanup' \in {cleanup, "running"}
  BY Zenon DEF LinkInv, StopAudioSender, audioVars

\* The steps of an attempt before its peer is built.
LEMMA AttemptPrepares ==
    ASSUME Inv, NEW c \in All, Begin(c) \/ ResetCore(c) \/ RolledBack(c)
    PROVE  Inv'
  <1> USE DEF Inv, Closing, Cleaning, Silent, Unfinished, OpSteps, AudioSteps, DropSteps,
              Held, Outside, Steps, DisconnectSteps
  <1>1. CASE Begin(c) /\ call[c].seen # generation
    <2>1. call[c].pc = "begin" /\ Goto(c, "teardown")
          /\ UNCHANGED <<linkVars, gate, alive, generation, sender, cleanup>>
      BY <1>1, Zenon DEF Begin, At, audioVars, gateVars
    <2>2. GateInv' /\ SeenInv' /\ Holder = "begin" /\ Holder' = "teardown"
      BY <2>1, OwnerGoes DEF linkVars
    <2>3. LinkInv'
      BY <2>1, <2>2, Zenon DEF LinkInv, linkVars
    <2> QED BY <2>2, <2>3, Zenon
  <1>2. CASE Begin(c) /\ call[c].seen = generation
    <2>1. call[c].pc = "begin" /\ Goto(c, "audioWait") /\ StopAudioSender
          /\ UNCHANGED <<linkVars, gate, alive, generation>>
      BY <1>2, Zenon DEF Begin, At, gateVars
    <2>2. Moved(c, "audioWait")
      BY <2>1, GotoEffect, Zenon DEF GateInv
    <2>3. GateInv' /\ Holder = "begin" /\ Holder' = "audioWait"
      BY <2>1, <2>2, HolderMoves
    <2>4. ~sender' /\ cleanup' \in {cleanup, "running"}
      BY <2>1, PlaybackIsStopped, Zenon
    <2>5. LinkInv'
      BY <2>1, <2>3, <2>4, Zenon DEF LinkInv, linkVars
    <2>6. \A d \in All : call'[d].seen = call[d].seen /\ call'[d].mode = call[d].mode
                         /\ (d # c => call'[d].pc = call[d].pc)
      BY <2>2, Zenon DEF Moved
    <2>7. call[c].mode # "disconnect"
      BY <2>1, Zenon DEF SeenInv
    <2>8. \A d \in All : Disconnected(d)' => Disconnected(d)
      BY <2>2, <2>6, Zenon DEF Disconnected, Moved
    <2>9. ASSUME NEW b \in All, NEW d \in All, call'[b].pc \in OpSteps, Disconnected(d)'
          PROVE  call'[d].seen <= call'[b].seen
      BY <1>2, <2>6, <2>8, <2>9, Zenon DEF SeenInv
    <2>10. SeenInv'
      BY <2>1, <2>6, <2>7, <2>8, <2>9, Zenon DEF SeenInv, linkVars
    <2> QED BY <2>3, <2>5, <2>10, Zenon
  <1>3. CASE ResetCore(c)
    <2>1. PICK step \in {"offerWait", "rollbackWait", "teardown"} : Goto(c, step)
      BY <1>3, Zenon DEF ResetCore
    <2>2. /\ call[c].pc = "audioWait" /\ cleanup' = "none" /\ (connected' => connected)
          /\ UNCHANGED <<gate, alive, generation, established, sender>>
      BY <1>3 DEF ResetCore, At, AudioStopped, gateVars, flagVars
    <2>3. GateInv' /\ SeenInv' /\ Holder = "audioWait" /\ Holder' = step
      BY <2>1, <2>2, OwnerGoes, Zenon
    <2>4. /\ closeTask = "none" /\ closeTask' \in {"none", "running"}
          /\ peer' # "none" => peer # "none"
          /\ ~sender
      BY <1>3, <2>3, Zenon DEF LinkInv, ResetCore, StopBackgroundTasks, StartClose
    <2>5. LinkInv'
      BY <2>1, <2>2, <2>3, <2>4, Zenon DEF LinkInv
    <2> QED BY <2>3, <2>5, Zenon
  <1>4. CASE RolledBack(c)
    <2>1. PICK step \in {"offerWait", "teardown"} : Goto(c, step)
      BY <1>4, Zenon DEF RolledBack
    <2>2. /\ call[c].pc = "rollbackWait"
          /\ closeTask = "finished" /\ closeTask' \in {"running", "none"}
          /\ UNCHANGED <<gate, alive, generation, established, connected, peer, sender, cleanup>>
      BY <1>4, Zenon DEF RolledBack, At, gateVars, flagVars, audioVars
    <2>3. GateInv' /\ SeenInv' /\ Holder = "rollbackWait" /\ Holder' = step
      BY <2>1, <2>2, OwnerGoes, Zenon
    <2>4. LinkInv'
      BY <2>1, <2>2, <2>3, Zenon DEF LinkInv
    <2> QED BY <2>3, <2>4, Zenon
  <1> QED BY <1>1, <1>2, <1>3, <1>4, Zenon

\* The steps of an attempt that has a peer.
LEMMA AttemptGoesOn ==
    ASSUME Inv, NEW c \in All,
           PrepareOffer(c) \/ OfferReady(c) \/ OfferFailed(c) \/ ApplyAnswer(c) \/ Validated(c)
    PROVE  Inv'
  <1> USE DEF Inv, Closing, Cleaning, Silent, Unfinished, OpSteps, AudioSteps, DropSteps,
              Held, Outside, Steps, DisconnectSteps
  <1>1. CASE PrepareOffer(c)
    <2>1. /\ call[c].pc = "offerWait" /\ Goto(c, "offering") /\ closeTask' = "none"
          /\ UNCHANGED <<connected, established, sender, cleanup, gate, generation, alive>>
      BY <1>1, Zenon DEF PrepareOffer, At, CloseFinished, gateVars, flagVars, audioVars
    <2>2. GateInv' /\ SeenInv' /\ Holder = "offerWait" /\ Holder' = "offering"
      BY <2>1, OwnerGoes
    <2>3. LinkInv'
      BY <2>1, <2>2, Zenon DEF LinkInv
    <2> QED BY <2>2, <2>3, Zenon
  <1>2. CASE OfferReady(c)
    <2>1. PICK step \in {"answering", "offerFailed"} :
             /\ Goto(c, step)
             /\ closeTask' # closeTask => step = "offerFailed" /\ closeTask' = "running"
      BY <1>2, Zenon DEF OfferReady, StartClose
    <2>2. /\ call[c].pc = "offering"
          /\ UNCHANGED <<connected, peer, established, sender, cleanup, gate, generation, alive>>
      BY <1>2, Zenon DEF OfferReady, At, gateVars, flagVars, audioVars
    <2>3. GateInv' /\ SeenInv' /\ Holder = "offering" /\ Holder' = step
      BY <2>1, <2>2, OwnerGoes, Zenon
    <2>4. LinkInv'
      BY <2>1, <2>2, <2>3, Zenon DEF LinkInv
    <2> QED BY <2>3, <2>4, Zenon
  <1>3. CASE OfferFailed(c)
    <2>1. /\ call[c].pc = "offerFailed" /\ Goto(c, "teardown") /\ closeTask' = "none"
          /\ UNCHANGED <<connected, peer, established, sender, cleanup, gate, generation, alive>>
      BY <1>3, Zenon DEF OfferFailed, At, CloseFinished, gateVars, flagVars, audioVars
    <2>2. GateInv' /\ SeenInv' /\ Holder = "offerFailed" /\ Holder' = "teardown"
      BY <2>1, OwnerGoes
    <2>3. LinkInv'
      BY <2>1, <2>2, Zenon DEF LinkInv
    <2> QED BY <2>2, <2>3, Zenon
  <1>4. CASE ApplyAnswer(c)
    <2>1. /\ call[c].pc = "answering" /\ Goto(c, "validating") /\ connected' = TRUE
          /\ established' = call[c].seen
          /\ UNCHANGED <<peer, closeTask, sender, cleanup, gate, generation, alive>>
      BY <1>4, Zenon DEF ApplyAnswer, At, gateVars, flagVars, audioVars
    <2>2. Moved(c, "validating")
      BY <2>1, GotoEffect, Zenon DEF GateInv
    <2>3. GateInv' /\ Holder = "answering" /\ Holder' = "validating"
      BY <2>1, <2>2, HolderMoves
    <2>4. LinkInv'
      BY <2>1, <2>3, Zenon DEF LinkInv
    <2>5. \A d \in All : /\ call'[d].seen = call[d].seen /\ call'[d].mode = call[d].mode
                         /\ d # c => call'[d].pc = call[d].pc
      BY <2>2, Zenon DEF Moved
    <2>6. call[c].mode # "disconnect"
      BY <2>1, Zenon DEF SeenInv
    <2>7. \A d \in All : Disconnected(d)' => Disconnected(d)
      BY <2>2, <2>5, Zenon DEF Disconnected, Moved
    <2>8. \A d \in All : Disconnected(d)' => established' >= call'[d].seen
      <3>1. \A d \in All : Disconnected(d) => call[d].seen <= call[c].seen
        BY <2>1, Zenon DEF SeenInv
      <3>2. \A d \in All : call[d].seen \in Nat
        BY Zenon DEF GateInv, CallType
      <3> QED BY <2>1, <2>5, <2>7, <3>1, <3>2, Zenon
    <2>9. established' \in Nat
      BY <2>1, Zenon DEF GateInv, CallType
    <2>10. ASSUME NEW b \in All, NEW d \in All, call'[b].pc \in OpSteps, Disconnected(d)'
           PROVE  call'[d].seen <= call'[b].seen
      <3>1. call[b].pc \in OpSteps
        BY <2>1, <2>5, <2>10, Zenon
      <3> QED BY <2>5, <2>7, <2>10, <3>1, Zenon DEF SeenInv
    <2>11. SeenInv'
      BY <2>1, <2>5, <2>6, <2>8, <2>9, <2>10, Zenon DEF SeenInv
    <2> QED BY <2>3, <2>4, <2>11, Zenon
  <1>5. CASE Validated(c)
    <2>1. /\ call[c].pc = "validating" /\ Goto(c, "done") /\ Release
          /\ UNCHANGED <<connected, peer, closeTask, established, sender, cleanup, generation, alive>>
      BY <1>5, Zenon DEF Validated, At, linkVars, flagVars, audioVars
    <2>2. GateInv' /\ SeenInv' /\ Holder = "validating" /\ Holder' = "free"
      BY <2>1, OwnerReturns
    <2>3. LinkInv'
      BY <2>1, <2>2, Zenon DEF LinkInv
    <2> QED BY <2>2, <2>3, Zenon
  <1> QED BY <1>1, <1>2, <1>3, <1>4, <1>5, Zenon

\* The way out of a failed attempt and of a disconnect.
LEMMA AttemptEnds ==
    ASSUME Inv, NEW c \in All,
           \/ AttemptFails(c) \/ Interrupt(c) \/ StopForTeardown(c) \/ RollbackConnection(c)
           \/ FinishRollback(c) \/ RecheckRetry(c)
    PROVE  Inv'
  <1> USE DEF Inv, Closing, Cleaning, Silent, Unfinished, OpSteps, AudioSteps, DropSteps,
              Held, Outside, Steps, DisconnectSteps
  <1>1. CASE AttemptFails(c) \/ Interrupt(c)
    <2>1. /\ call[c].pc \in OpSteps /\ Goto(c, "teardown")
          /\ UNCHANGED <<connected, peer, closeTask, established, sender, cleanup>>
          /\ UNCHANGED <<gate, generation, alive>>
      BY <1>1, Zenon DEF AttemptFails, Interrupt, At, linkVars, gateVars, flagVars, audioVars
    <2>2. GateInv' /\ SeenInv' /\ Holder \in OpSteps /\ Holder' = "teardown"
      BY <2>1, OwnerGoes
    <2>3. LinkInv'
      BY <2>1, <2>2, Zenon DEF LinkInv
    <2> QED BY <2>2, <2>3, Zenon
  <1>2. CASE StopForTeardown(c)
    <2>1. /\ call[c].pc = "teardown" /\ Goto(c, "teardownWait") /\ StopAudioSender
          /\ UNCHANGED <<connected, peer, closeTask, established, gate, generation, alive>>
      BY <1>2, Zenon DEF StopForTeardown, At, linkVars, gateVars, flagVars
    <2>2. GateInv' /\ SeenInv' /\ Holder = "teardown" /\ Holder' = "teardownWait"
      BY <2>1, OwnerGoes
    <2>3. ~sender' /\ cleanup' \in {cleanup, "running"}
      BY <2>1, PlaybackIsStopped, Zenon
    <2>4. LinkInv'
      BY <2>1, <2>2, <2>3, Zenon DEF LinkInv
    <2> QED BY <2>2, <2>4, Zenon
  <1>3. CASE RollbackConnection(c)
    <2>1. /\ call[c].pc = "teardownWait" /\ Goto(c, "closeWait") /\ ~connected' /\ cleanup' = "none"
          /\ closeTask' = (IF closeTask = "none" THEN "running" ELSE closeTask)
          /\ peer' # "none" <=> peer # "none"
          /\ UNCHANGED <<established, sender, gate, generation, alive>>
      BY <1>3, Zenon DEF RollbackConnection, At, AudioStopped, StopBackgroundTasks, StartClose,
                  gateVars, flagVars
    <2>2. GateInv' /\ SeenInv' /\ Holder = "teardownWait" /\ Holder' = "closeWait"
      BY <2>1, OwnerGoes
    <2>3. LinkInv'
      BY <2>1, <2>2, Zenon DEF LinkInv
    <2> QED BY <2>2, <2>3, Zenon
  <1>4. CASE FinishRollback(c)
    <2>1. /\ call[c].pc = "closeWait" /\ ReturnErr(c) /\ Release
          /\ closeTask = "finished" /\ closeTask' = "none"
          /\ UNCHANGED <<connected, peer, established, sender, cleanup, generation, alive>>
      BY <1>4, Zenon DEF FinishRollback, At, CloseFinished, flagVars, audioVars
    <2>2. Holder = "closeWait"
      BY <2>1, OwnerIsHolder, Zenon
    <2>3. ~connected'
      BY <2>1, <2>2, Zenon DEF LinkInv
    <2>4. GateInv' /\ SeenInv' /\ Holder' = "free"
      BY <2>1, <2>3, OwnerReturns, Zenon
    <2>5. LinkInv'
      BY <2>1, <2>2, <2>4, Zenon DEF LinkInv
    <2> QED BY <2>4, <2>5, Zenon
  <1>5. CASE RecheckRetry(c)
    <2>1. /\ call[c].pc = "recheck"
          /\ UNCHANGED <<connected, peer, closeTask, established, sender, cleanup, generation, alive>>
          /\ (Release /\ ReturnErr(c)) \/ (Goto(c, "begin") /\ UNCHANGED gate)
      BY <1>5, Zenon DEF RecheckRetry, At, linkVars, flagVars, audioVars, gateVars
    <2>2. GateInv' /\ SeenInv' /\ Holder = "recheck" /\ Holder' \in {"begin", "free"}
      <3>1. CASE Release /\ ReturnErr(c)
        BY <2>1, <3>1, OwnerReturns
      <3>2. CASE Goto(c, "begin") /\ UNCHANGED gate
        BY <2>1, <3>2, OwnerGoes
      <3> QED BY <2>1, <3>1, <3>2, Zenon
    <2>3. LinkInv'
      BY <2>1, <2>2, Zenon DEF LinkInv
    <2> QED BY <2>2, <2>3, Zenon
  <1> QED BY <1>1, <1>2, <1>3, <1>4, <1>5, Zenon

\* play_audio and stop_audio.
LEMMA AudioGoesOn ==
    ASSUME Inv, NEW c \in All, StopForAudio(c) \/ PlaybackStopped(c) \/ Play(c)
    PROVE  Inv'
  <1> USE DEF Inv, Closing, Cleaning, Silent, Unfinished, OpSteps, AudioSteps, DropSteps,
              Held, Outside, Steps, DisconnectSteps
  <1>1. CASE StopForAudio(c)
    <2>1. PICK step \in {"playWait", "stopWait"} : Goto(c, step)
      BY <1>1, Zenon DEF StopForAudio
    <2>2. /\ call[c].pc = "stopAudio" /\ StopAudioSender
          /\ UNCHANGED <<connected, peer, closeTask, established, gate, generation, alive>>
      BY <1>1, Zenon DEF StopForAudio, At, linkVars, gateVars, flagVars
    <2>3. GateInv' /\ SeenInv' /\ Holder = "stopAudio" /\ Holder' = step
      BY <2>1, <2>2, OwnerGoes, Zenon
    <2>4. ~sender' /\ cleanup' \in {cleanup, "running"}
      BY <2>2, PlaybackIsStopped, Zenon
    <2>5. LinkInv'
      BY <2>1, <2>2, <2>3, <2>4, Zenon DEF LinkInv
    <2> QED BY <2>3, <2>5, Zenon
  <1>2. CASE PlaybackStopped(c)
    <2>1. /\ call[c].pc \in {"playWait", "playFailed", "stopWait"} /\ cleanup' = "none"
          /\ UNCHANGED <<connected, peer, closeTask, established, sender, generation, alive>>
          /\ (Goto(c, "play") /\ UNCHANGED gate) \/ (Release /\ Goto(c, "done"))
      BY <1>2, Zenon DEF PlaybackStopped, At, AudioStopped, linkVars, gateVars, flagVars
    <2>2. /\ GateInv' /\ SeenInv' /\ Holder \in {"playWait", "playFailed", "stopWait"}
          /\ Holder' \in {"play", "free"}
      BY <2>1, OwnerGoes, OwnerReturns, Zenon
    <2>3. LinkInv'
      BY <2>1, <2>2, Zenon DEF LinkInv
    <2> QED BY <2>2, <2>3, Zenon
  <1>3. CASE Play(c)
    <2>1. /\ call[c].pc = "play"
          /\ UNCHANGED <<connected, peer, closeTask, established, generation, alive>>
      BY <1>3, Zenon DEF Play, At, linkVars, flagVars
    <2>2. Holder = "play"
      BY <2>1, OwnerIsHolder, Zenon
    <2>3. cleanup = "none" /\ ~sender /\ closeTask = "none"
      BY <2>2, Zenon DEF LinkInv
    <2>4. CASE Goto(c, "playFailed") /\ cleanup' = "running" /\ UNCHANGED <<sender, gateVars>>
      <3>1. GateInv' /\ SeenInv' /\ Holder' = "playFailed"
        BY <2>1, <2>4, OwnerGoes, Zenon DEF gateVars
      <3>2. LinkInv'
        BY <2>1, <2>2, <2>3, <2>4, <3>1, Zenon DEF LinkInv
      <3> QED BY <3>1, <3>2, Zenon
    <2>5. CASE /\ Goto(c, "done") /\ Release /\ cleanup' = "none"
               /\ sender' => connected /\ peer # "none"
      <3>1. GateInv' /\ SeenInv' /\ Holder' = "free"
        BY <2>1, <2>5, OwnerReturns, Zenon
      <3>2. LinkInv'
        BY <2>1, <2>2, <2>3, <2>5, <3>1, Zenon DEF LinkInv
      <3> QED BY <3>1, <3>2, Zenon
    <2>6. ~PlayRefused => connected /\ peer # "none"
      BY Zenon DEF PlayRefused, IsConnected
    <2> QED BY <1>3, <2>3, <2>4, <2>5, <2>6 DEF Play, audioVars
  <1> QED BY <1>1, <1>2, <1>3, Zenon

\* A future that has the gate is dropped, and its cleanup.
LEMMA OwnerIsDropped ==
    ASSUME Inv, NEW c \in All,
           \/ CancelAttempt(c) \/ CancelAudio(c) \/ DropStopsAudio(c) \/ AudioDropDone(c)
           \/ DropCloses(c) \/ DropDone(c)
    PROVE  Inv'
  <1> USE DEF Inv, Closing, Cleaning, Silent, Unfinished, OpSteps, AudioSteps, DropSteps,
              Held, Outside, Steps, DisconnectSteps
  <1>1. CASE CancelAttempt(c)
    <2>1. /\ call[c].pc \in OpSteps \cup {"teardownWait", "closeWait"} /\ Goto(c, "dropAudio")
          /\ peer' # "none" <=> peer # "none"
          /\ UNCHANGED <<connected, closeTask, established, sender, cleanup, gate, generation, alive>>
      BY <1>1, Zenon DEF CancelAttempt, At, StopBackgroundTasks, gateVars, flagVars, audioVars
    <2>2. /\ GateInv' /\ SeenInv' /\ Holder \in OpSteps \cup {"teardownWait", "closeWait"}
          /\ Holder' = "dropAudio"
      BY <2>1, OwnerGoes
    <2>3. LinkInv'
      BY <2>1, <2>2, Zenon DEF LinkInv
    <2> QED BY <2>2, <2>3, Zenon
  <1>2. CASE CancelAudio(c)
    <2>1. /\ call[c].pc \in AudioSteps /\ Goto(c, "audioDrop")
          /\ UNCHANGED <<connected, peer, closeTask, established, sender, cleanup>>
          /\ UNCHANGED <<gate, generation, alive>>
      BY <1>2, Zenon DEF CancelAudio, At, linkVars, gateVars, flagVars, audioVars
    <2>2. GateInv' /\ SeenInv' /\ Holder \in AudioSteps /\ Holder' = "audioDrop"
      BY <2>1, OwnerGoes, Zenon
    <2>3. LinkInv'
      BY <2>1, <2>2, Zenon DEF LinkInv
    <2> QED BY <2>2, <2>3, Zenon
  <1>3. CASE DropStopsAudio(c)
    <2>1. /\ StopAudioSender
          /\ UNCHANGED <<connected, peer, closeTask, established, gate, generation, alive>>
          /\ \/ call[c].pc = "dropAudio" /\ Goto(c, "dropWait")
             \/ call[c].pc = "audioDrop" /\ Goto(c, "audioDropWait")
      BY <1>3, Zenon DEF DropStopsAudio, At, linkVars, gateVars, flagVars
    <2>2. /\ GateInv' /\ SeenInv'
          /\ \/ Holder = "dropAudio" /\ Holder' = "dropWait"
             \/ Holder = "audioDrop" /\ Holder' = "audioDropWait"
      BY <2>1, OwnerGoes
    <2>3. ~sender' /\ cleanup' \in {cleanup, "running"}
      BY <2>1, PlaybackIsStopped, Zenon
    <2>4. LinkInv'
      BY <2>1, <2>2, <2>3, Zenon DEF LinkInv
    <2> QED BY <2>2, <2>4, Zenon
  <1>4. CASE AudioDropDone(c)
    <2>1. /\ call[c].pc = "audioDropWait" /\ Goto(c, "done") /\ Release /\ cleanup' = "none"
          /\ UNCHANGED <<connected, peer, closeTask, established, sender, generation, alive>>
      BY <1>4, Zenon DEF AudioDropDone, At, AudioStopped, linkVars, flagVars
    <2>2. GateInv' /\ SeenInv' /\ Holder = "audioDropWait" /\ Holder' = "free"
      BY <2>1, OwnerReturns
    <2>3. LinkInv'
      BY <2>1, <2>2, Zenon DEF LinkInv
    <2> QED BY <2>2, <2>3, Zenon
  <1>5. CASE DropCloses(c)
    <2>1. /\ call[c].pc = "dropWait" /\ Goto(c, "dropClose") /\ ~connected' /\ cleanup' = "none"
          /\ closeTask' = (IF closeTask = "none" THEN "running" ELSE closeTask)
          /\ UNCHANGED <<peer, established, sender, gate, generation, alive>>
      BY <1>5, Zenon DEF DropCloses, At, AudioStopped, StartClose, gateVars, flagVars
    <2>2. GateInv' /\ SeenInv' /\ Holder = "dropWait" /\ Holder' = "dropClose"
      BY <2>1, OwnerGoes
    <2>3. LinkInv'
      BY <2>1, <2>2, Zenon DEF LinkInv
    <2> QED BY <2>2, <2>3, Zenon
  <1>6. CASE DropDone(c)
    <2>1. /\ call[c].pc = "dropClose" /\ Goto(c, "done") /\ Release
          /\ closeTask = "finished" /\ closeTask' = "none"
          /\ UNCHANGED <<connected, peer, established, sender, cleanup, generation, alive>>
      BY <1>6, Zenon DEF DropDone, At, CloseFinished, flagVars, audioVars
    <2>2. Holder = "dropClose"
      BY <2>1, OwnerIsHolder, Zenon
    <2>3. ~connected'
      BY <2>1, <2>2, Zenon DEF LinkInv
    <2>4. GateInv' /\ SeenInv' /\ Holder' = "free"
      BY <2>1, <2>3, OwnerReturns, Zenon
    <2>5. LinkInv'
      BY <2>1, <2>2, <2>4, Zenon DEF LinkInv
    <2> QED BY <2>4, <2>5, Zenon
  <1> QED BY <1>1, <1>2, <1>3, <1>4, <1>5, <1>6, Zenon

-----------------------------------------------------------------------------
(* The steps without the gate. *)

\* Whatever the calls without the gate do, the session stays as it is.
LEMMA LinkKept ==
    ASSUME LinkInv, Holder' = Holder, UNCHANGED <<connected, closeTask, sender, cleanup>>,
           peer' # "none" <=> peer # "none"
    PROVE  LinkInv'
  BY Zenon DEF LinkInv

\* A call enters an operation or queues; a disconnect does so in a new generation.
LEMMA CallEnters ==
    ASSUME Inv, NEW c \in All, c \in Calls \/ call[c].pc # "idle",
           \/ \E mode \in AllModes : Start(c, mode)
           \/ StartRetry(c) \/ SubscribeRetry(c) \/ RequestDisconnect(c)
    PROVE  Inv'
  <1>1. generation \in Nat /\ CallType /\ (alive => c # Final)
    BY NameAssumption, Zenon DEF Inv, GateInv, SeenInv
  <1>2. PICK mode \in AllModes, step \in {"queued", "check", "done"}, seen \in Nat :
           /\ CallType' /\ \A d \in All : d # c => call'[d] = call[d]
           /\ call'[c].pc = step /\ call'[c].mode = mode /\ call'[c].seen = seen
           /\ seen <= generation'
           /\ mode = "disconnect" => step = "queued"
    <2>1. ASSUME NEW mode \in AllModes, Start(c, mode)
          PROVE  /\ CallType' /\ \A d \in All : d # c => call'[d] = call[d]
                 /\ call'[c].pc = "queued" /\ call'[c].mode = mode /\ call'[c].seen = generation
                 /\ generation <= generation'
      <3> DEFINE m == [NewCall EXCEPT !.mode = mode, !.pc = "queued", !.seen = generation]
      <3>1. m \in [mode : AllModes, pc : Steps, seen : Nat, began : Nat, try : Nat]
            /\ m.pc = "queued" /\ m.mode = mode /\ m.seen = generation
        BY <1>1, Zenon DEF NewCall, Steps
      <3>2. call' = [call EXCEPT ![c] = m] /\ generation' = generation
        BY <2>1, Zenon DEF Start, flagVars
      <3> HIDE DEF m
      <3> QED BY <1>1, <3>1, <3>2 DEF CallType
    <2>2. CASE StartRetry(c)
      <3> DEFINE step == IF MaxRetries = 0 THEN "done" ELSE "check"
      <3>1. /\ step \in {"done", "check"}
            /\ call' = [call EXCEPT ![c] = [NewCall EXCEPT !.mode = "retry", !.began = generation,
                                                           !.pc = step]]
        <4>1. step \in {"done", "check"}
          BY Zenon
        <4> QED BY <2>2, <4>1, Zenon DEF StartRetry
      <3> HIDE DEF step
      <3> DEFINE m == [NewCall EXCEPT !.mode = "retry", !.began = generation, !.pc = step]
      <3>2. m \in [mode : AllModes, pc : Steps, seen : Nat, began : Nat, try : Nat]
            /\ m.pc = step /\ m.mode = "retry" /\ m.seen = 0
        BY <1>1, <3>1, Zenon DEF NewCall, Steps, AllModes
      <3>3. call' = [call EXCEPT ![c] = m] /\ 0 <= generation' /\ "retry" \in AllModes
        <4>1. 0 <= generation' /\ "retry" \in AllModes
          BY <1>1, <2>2 DEF StartRetry, flagVars, AllModes
        <4> QED BY <3>1, <4>1, Zenon
      <3> HIDE DEF m
      <3>4. /\ CallType' /\ \A d \in All : d # c => call'[d] = call[d]
            /\ call'[c].pc = step /\ call'[c].mode = "retry" /\ call'[c].seen = 0
        BY <1>1, <3>2, <3>3, Zenon DEF CallType
      <3> QED BY <3>1, <3>3, <3>4
    <2>3. CASE SubscribeRetry(c)
      <3>1. /\ call' = [call EXCEPT ![c].pc = "queued", ![c].seen = generation]
            /\ generation' = generation
        BY <2>3, Zenon DEF SubscribeRetry, flagVars
      <3>2. /\ CallType' /\ \A d \in All : d # c => call'[d] = call[d]
            /\ call'[c].pc = "queued" /\ call'[c].mode = call[c].mode /\ call'[c].seen = generation
        <4> DEFINE m == [call[c] EXCEPT !.pc = "queued", !.seen = generation]
        <4>1. m \in [mode : AllModes, pc : Steps, seen : Nat, began : Nat, try : Nat]
              /\ m.pc = "queued" /\ m.mode = call[c].mode /\ m.seen = generation
          BY <1>1, Zenon DEF CallType, Steps
        <4>2. call' = [call EXCEPT ![c] = m]
          BY <3>1, Zenon
        <4> HIDE DEF m
        <4> QED BY <1>1, <4>1, <4>2, Zenon DEF CallType
      <3>3. generation <= generation' /\ call[c].mode \in AllModes
        BY <1>1, <3>1 DEF CallType
      <3> QED BY <1>1, <3>2, <3>3, Zenon
    <2>4. CASE RequestDisconnect(c)
      <3>1. call' = [call EXCEPT ![c].mode = "disconnect", ![c].pc = "queued",
                                 ![c].seen = generation + 1]
        BY <2>4, Zenon DEF RequestDisconnect
      <3>2. generation + 1 \in Nat /\ generation + 1 <= generation' /\ "disconnect" \in AllModes
        BY <1>1, <2>4 DEF RequestDisconnect, AllModes
      <3>3. /\ CallType' /\ \A d \in All : d # c => call'[d] = call[d]
            /\ call'[c].pc = "queued" /\ call'[c].mode = "disconnect"
            /\ call'[c].seen = generation + 1
        <4> DEFINE m == [call[c] EXCEPT !.mode = "disconnect", !.pc = "queued",
                                        !.seen = generation + 1]
        <4>1. m \in [mode : AllModes, pc : Steps, seen : Nat, began : Nat, try : Nat]
              /\ m.pc = "queued" /\ m.mode = "disconnect" /\ m.seen = generation + 1
          BY <1>1, <3>2 DEF CallType, Steps
        <4>2. call' = [call EXCEPT ![c] = m]
          BY <3>1, Zenon
        <4> HIDE DEF m
        <4> QED BY <1>1, <4>1, <4>2, Zenon DEF CallType
      <3> QED BY <3>2, <3>3, Zenon
    <2> QED BY <1>1, <2>1, <2>2, <2>3, <2>4, Zenon
  <1>3. /\ call[c].pc \in {"idle", "subscribe", "request"} /\ UNCHANGED <<gate, alive>>
        /\ UNCHANGED <<connected, peer, closeTask, established, sender, cleanup>>
        /\ generation' \in {generation, generation + 1}
    BY Zenon DEF Start, StartRetry, SubscribeRetry, RequestDisconnect, At, linkVars, audioVars, gateVars,
           flagVars
  <1>4. GateInv' /\ Holder' = Holder
    BY <1>1, <1>2, <1>3, OutsiderMoves, Zenon DEF Inv, Outside
  <1>5. LinkInv'
    BY <1>3, <1>4, LinkKept, Zenon DEF Inv
  <1>6. \A d \in All : Disconnected(d)' => d # c /\ Disconnected(d)
    BY <1>2, Zenon DEF Disconnected
  <1>7. \A d \in All : call'[d].pc \in OpSteps => d # c
    BY <1>2, Zenon DEF OpSteps
  <1>8. generation' \in Nat /\ \A d \in All : call'[d].seen <= generation'
    <2>1. \A d \in All : call[d].seen \in Nat /\ call[d].seen <= generation
      BY <1>1, Zenon DEF Inv, SeenInv, CallType
    <2> QED BY <1>1, <1>2, <1>3, <2>1
  <1>9. \A d \in All : call'[d].mode = "disconnect" => call'[d].pc \in DisconnectSteps
    BY <1>2, Zenon DEF Inv, SeenInv, DisconnectSteps
  <1>10. SeenInv'
    BY <1>2, <1>3, <1>6, <1>7, <1>8, <1>9, Zenon DEF Inv, SeenInv
  <1> QED BY <1>4, <1>5, <1>10, Zenon DEF Inv

\* A call waits, wakes up or is dropped without the gate.
LEMMA CallWaits ==
    ASSUME Inv, NEW c \in All, CheckRetry(c) \/ Wake(c) \/ CancelWaiting(c)
    PROVE  Inv'
  <1> USE DEF Inv, Closing, Cleaning, Silent, Unfinished, OpSteps, AudioSteps, DropSteps,
              Held, Outside, Steps, DisconnectSteps
  <1>1. PICK step \in {"done", "subscribe", "check", "cancelled"} :
          /\ Goto(c, step)
          /\ call[c].pc = "check" => step \in {"done", "subscribe"}
          /\ call[c].pc = "backoff" => step \in {"check", "cancelled"}
          /\ call[c].pc = "queued" => step = "cancelled"
    BY ZenonT(60) DEF CheckRetry, Wake, CancelWaiting, At
  <1>2. /\ call[c].pc \in {"check", "backoff", "queued"}
        /\ UNCHANGED <<linkVars, sender, cleanup, gate, generation, alive>>
    BY Zenon DEF CheckRetry, Wake, CancelWaiting, At, gateVars, flagVars, audioVars
  <1>3. Moved(c, step)
    BY <1>1, GotoEffect, Zenon DEF GateInv
  <1>4. alive => c # Final
    BY <1>2, Zenon DEF GateInv
  <1>5. GateInv' /\ Holder' = Holder
    BY <1>1, <1>2, <1>3, <1>4, OutsiderMoves, Zenon DEF Moved
  <1>6. LinkInv'
    BY <1>2, <1>5, LinkKept, Zenon DEF linkVars
  <1>7. call[c].mode = "disconnect" => step = "cancelled"
    BY <1>1, <1>2, Zenon DEF SeenInv
  <1>8. SeenInv'
    BY <1>1, <1>2, <1>3, <1>7, SeenKept, Zenon DEF linkVars
  <1> QED BY <1>5, <1>6, <1>8, Zenon

\* The gate goes to the next call.
LEMMA GateIsTaken ==
    ASSUME Inv, NEW c \in All, LockSession(c)
    PROVE  Inv'
  <1> USE DEF Inv, Closing, Cleaning, Silent, Unfinished, OpSteps, AudioSteps, DropSteps,
              Held, Outside, Steps, DisconnectSteps
  <1>1. PICK step \in {"begin", "recheck", "teardown", "stopAudio"} :
          Goto(c, step) /\ (call[c].mode = "disconnect" => step = "teardown")
    BY Zenon DEF LockSession
  <1>2. /\ call[c].pc = "queued" /\ gate = None /\ gate' = c
        /\ UNCHANGED <<linkVars, sender, cleanup, generation, alive>>
    BY Zenon DEF LockSession, At, flagVars, audioVars
  <1>3. Moved(c, step)
    BY <1>1, GotoEffect, Zenon DEF GateInv
  <1>4. c # None /\ Holder = "free" /\ Holder' = step
    BY <1>2, <1>3, NameAssumption, Zenon DEF Holder, Moved, All
  <1>5. \A d \in All : call'[d].pc \in Held <=> gate' = d
    <2>1. \A d \in All : call[d].pc \notin Held
      BY <1>2, NameAssumption, Zenon DEF GateInv, All
    <2>2. call'[c].pc = step /\ step \in Held
      BY <1>1, <1>3, Zenon DEF Moved
    <2>3. \A d \in All : d # c => call'[d].pc \notin Held
      <3> HIDE DEF Held
      <3> QED BY <1>3, <2>1, Zenon DEF Moved
    <2> HIDE DEF Held
    <2> QED BY <1>2, <2>2, <2>3, Zenon
  <1>6. GateInv'
    BY <1>2, <1>3, <1>5, Zenon DEF GateInv, Moved, All
  <1>7. LinkInv'
    BY <1>1, <1>2, <1>4, Zenon DEF LinkInv, linkVars
  <1>8. SeenInv'
    BY <1>1, <1>2, <1>3, SeenKept, Zenon DEF linkVars
  <1> QED BY <1>6, <1>7, <1>8, Zenon

\* The last owner of the session drops it.
LEMMA SessionIsDropped ==
    ASSUME Inv, SessionDrop
    PROVE  Inv'
  <1> USE DEF Inv, Closing, Cleaning, Silent, Unfinished, OpSteps, AudioSteps, DropSteps,
              Held, Outside, Steps, DisconnectSteps
  <1>1. PICK step \in {"done", "request"} : Goto(Final, step)
    BY Zenon DEF SessionDrop
  <1>2. /\ call[Final].pc = "idle" /\ Final \in All /\ ~alive' /\ (peer' # "none" <=> peer # "none")
        /\ UNCHANGED <<connected, closeTask, established, sender, cleanup, gate, generation>>
    BY Zenon DEF SessionDrop, StopBackgroundTasks, GateInv, All, gateVars, flagVars, audioVars
  <1>3. Moved(Final, step)
    BY <1>1, <1>2, GotoEffect, Zenon DEF GateInv
  <1>4. GateInv' /\ Holder' = Holder
    BY <1>1, <1>2, <1>3, OutsiderMoves, Zenon DEF Moved
  <1>5. LinkInv'
    BY <1>2, <1>4, LinkKept, Zenon
  <1>6. call[Final].mode # "disconnect"
    BY <1>2, Zenon DEF SeenInv
  <1>7. SeenInv'
    BY <1>1, <1>2, <1>3, <1>6, SeenKept, Zenon
  <1> QED BY <1>4, <1>5, <1>7, Zenon

\* Spawned tasks, the peer and the robot; nothing happens.
LEMMA OthersStep ==
    ASSUME Inv, CloseInner \/ Shutdown \/ PeerChanges \/ ValidationChanges \/ UNCHANGED vars
    PROVE  Inv'
  <1>1. UNCHANGED <<call, gate, alive, generation, established, connected, sender>>
    BY Zenon DEF CloseInner, Shutdown, PeerChanges, ValidationChanges, vars, linkVars, gateVars, flagVars,
           audioVars
  <1>2. GateInv' /\ Holder' = Holder
    BY <1>1, Zenon DEF Inv, GateInv, CallType, Holder
  <1>3. SeenInv'
    BY <1>1, Zenon DEF Inv, SeenInv, Disconnected
  <1>4. LinkInv'
    BY <1>1, <1>2, Zenon DEF Inv, LinkInv, CloseInner, Shutdown, PeerChanges, ValidationChanges, vars,
                      linkVars, audioVars
  <1> QED BY <1>2, <1>3, <1>4, Zenon DEF Inv

-----------------------------------------------------------------------------

\* A session begins with nothing.
LEMMA InitInv == Init => Inv
  <1> SUFFICES ASSUME Init PROVE Inv
    BY Zenon
  <1>1. \A c \in All : call[c] = NewCall
    BY Zenon DEF Init, All
  <1>2. NewCall \in [mode : AllModes, pc : Steps, seen : Nat, began : Nat, try : Nat]
    BY Zenon DEF NewCall, AllModes, Steps
  <1>3. CallType
    BY <1>2, Zenon DEF Init, CallType, All
  <1>4. GateInv
    BY <1>1, <1>3, NameAssumption, Zenon DEF Init, GateInv, NewCall, Held, Outside, All
  <1>5. LinkInv
    BY Zenon DEF Init, LinkInv, Holder
  <1>6. SeenInv
    BY <1>1 DEF Init, SeenInv, NewCall, Disconnected, OpSteps
  <1> QED BY <1>4, <1>5, <1>6, Zenon DEF Inv

\* Every step of a call, of the application and of the tasks keeps the invariant.
LEMMA StepInv == Inv /\ [Next]_vars => Inv'
  <1> SUFFICES ASSUME Inv, [Next]_vars PROVE Inv'
    BY Zenon
  <1>1. ASSUME NEW c \in All, CallStep(c)
        PROVE  Inv'
    <2>1. SubscribeRetry(c) \/ (At(c, {"request"}) /\ RequestDisconnect(c)) => call[c].pc # "idle"
      BY Zenon DEF SubscribeRetry, At
    <2> QED BY <1>1, <2>1, CallEnters, CallWaits, GateIsTaken, AttemptPrepares, AttemptGoesOn,
               AttemptEnds, AudioGoesOn, OwnerIsDropped, Zenon DEF CallStep
  <1>2. ASSUME NEW c \in Calls,
               \/ \E mode \in AllModes : Start(c, mode)
               \/ StartRetry(c) \/ RequestDisconnect(c) \/ Cancel(c)
        PROVE  Inv'
    BY <1>2, CallEnters, CallWaits, OwnerIsDropped, Zenon DEF Cancel, All
  <1>3. Terminated => UNCHANGED vars
    BY Zenon DEF Terminated
  <1> QED BY <1>1, <1>2, <1>3, SessionIsDropped, OthersStep, Zenon DEF Next, All

\* The invariant holds in every session.
LEMMA Invariant == Spec => []Inv
  BY InitInv, StepInv, PTL DEF Spec

\* Whoever leaves session_gate has closed, joined or handed over what it had: no failure,
\* cancellation or disconnect leaves a task or a peer behind.
THEOREM GateIsLeftClean == Spec => []IdleIsClean
  <1>1. Inv => IdleIsClean
    BY Zenon DEF Inv, LinkInv, IdleIsClean, Holder, Closing, Cleaning, Unfinished
  <1> QED BY <1>1, Invariant, PTL

\* The close task of a cancelled attempt, which runs on after its future, never meets the
\* peer of a later attempt.
THEOREM LaterPeersAreSafe == Spec => []CloseHitsNoLaterPeer
  <1>1. Inv => CloseHitsNoLaterPeer
    BY Zenon DEF Inv, LinkInv, CloseHitsNoLaterPeer, Holder, Closing
  <1> QED BY <1>1, Invariant, PTL

\* AudioPlayback plays on the peer of a connection and one sender at a time.
THEOREM AudioNeedsConnection == Spec => []AudioBelongsToConnection
  <1>1. Inv => AudioBelongsToConnection
    BY Zenon DEF Inv, LinkInv, AudioBelongsToConnection
  <1> QED BY <1>1, Invariant, PTL

\* A disconnect that has returned is not undone by an attempt that was under way or queued.
THEOREM DisconnectsAreFinal == Spec => []DisconnectIsFinal
  <1>1. Inv => DisconnectIsFinal
    BY Zenon DEF Inv, SeenInv, DisconnectIsFinal, Disconnected, All
  <1> QED BY <1>1, Invariant, PTL

-----------------------------------------------------------------------------
(* The LiDAR workers: the inductive invariant. *)

Jobs == [generation : Nat]

WorkerSteps == {"none", "recv", "check", "decode", "send", "lock", "push", "exited"}

\* What the order of epochs needs to know of the types.
PoolType ==
    /\ jobs \in Seq(Jobs) /\ events \in Seq(Nat) /\ current \in Nat
    /\ worker \in [Workers -> WorkerSteps] /\ job \in [Workers -> Jobs]

\* Between AdmitEvent and PushEvent a worker has the mutex of the budget.
PushHasLock == \A w \in Workers : worker[w] = "push" => lock = w

\* A worker was admitted in the epoch of its job; the epoch may have moved on, but
\* nobody else has pushed since.
PushIsNewest ==
    \A w \in Workers : worker[w] = "push" =>
        /\ job[w].generation <= current
        /\ \A i \in 1..Len(events) : events[i] <= job[w].generation

\* No event is of an epoch to come.
EventsHaveBegun == \A i \in 1..Len(events) : events[i] <= current

PoolInv == PoolType /\ PushHasLock /\ PushIsNewest /\ EventsHaveBegun /\ EpochsInOrder

-----------------------------------------------------------------------------

\* The steps that touch neither events, epoch, mutex nor a worker at PushEvent: whatever
\* they do to one worker, it is not about to push.
LEMMA ElsewhereInOrder ==
    ASSUME PoolInv, NEW w \in Workers, NEW step \in WorkerSteps \ {"push"},
           worker[w] # "push", worker' = [worker EXCEPT ![w] = step],
           jobs' \in Seq(Jobs), job' \in [Workers -> Jobs],
           \A v \in Workers : v # w => job'[v] = job[v],
           UNCHANGED <<current, lock, events>>
    PROVE  PoolInv'
  <1>1. \A v \in Workers : worker'[v] = "push" => v # w /\ worker[v] = "push" /\ job'[v] = job[v]
    BY Zenon DEF PoolInv, PoolType
  <1>2. PoolType'
    BY Zenon DEF PoolInv, PoolType
  <1>3. PushHasLock' /\ PushIsNewest'
    BY <1>1, Zenon DEF PoolInv, PushHasLock, PushIsNewest
  <1> QED BY <1>2, <1>3, Zenon DEF PoolInv, EventsHaveBegun, EpochsInOrder

\* NextJob gives up the request of one worker.
LEMMA NextJobInOrder ==
    ASSUME PoolInv, NEW w \in Workers, worker[w] # "push", NextJob(w),
           UNCHANGED <<jobs, current, lock, events>>
    PROVE  PoolInv'
  <1>1. NoJob \in Jobs
    BY Zenon DEF NoJob, Jobs
  <1>2. job' \in [Workers -> Jobs] /\ \A v \in Workers : v # w => job'[v] = job[v]
    BY <1>1, Zenon DEF NextJob, PoolInv, PoolType
  <1>3. worker' = [worker EXCEPT ![w] = "recv"] /\ "recv" \in WorkerSteps \ {"push"}
    BY Zenon DEF NextJob, WorkerGoes, WorkerSteps
  <1> QED BY <1>2, <1>3, ElsewhereInOrder, Zenon DEF PoolInv, PoolType

\* A worker moves on with the request it has, or with none.
LEMMA GotoInOrder ==
    ASSUME PoolInv, NEW w \in Workers, worker[w] # "push", NEW step \in WorkerSteps \ {"push"},
           WorkerGoes(w, step), UNCHANGED <<jobs, job, current, lock, events>>
    PROVE  PoolInv'
  BY ElsewhereInOrder, Zenon DEF WorkerGoes, PoolInv, PoolType

\* recv hands the oldest request to the worker.
LEMMA RecvInOrder ==
    ASSUME PoolInv, NEW w \in Workers, Recv(w)
    PROVE  PoolInv'
  <1>1. CASE jobs # <<>>
    <2>1. Head(jobs) \in Jobs /\ Tail(jobs) \in Seq(Jobs)
      BY <1>1 DEF PoolInv, PoolType
    <2>2. /\ jobs' = Tail(jobs) /\ job' = [job EXCEPT ![w] = Head(jobs)]
          /\ worker' = [worker EXCEPT ![w] = "check"] /\ worker[w] # "push"
          /\ UNCHANGED <<current, lock, events>>
      BY <1>1, Zenon DEF Recv, WorkerGoes
    <2>3. job' \in [Workers -> Jobs] /\ \A v \in Workers : v # w => job'[v] = job[v]
      BY <2>1, <2>2, Zenon DEF PoolInv, PoolType
    <2>4. "check" \in WorkerSteps \ {"push"}
      BY Zenon DEF WorkerSteps
    <2> QED BY <2>1, <2>2, <2>3, <2>4, ElsewhereInOrder, Zenon
  <1>2. CASE jobs = <<>>
    <2>1. WorkerGoes(w, "exited") /\ worker[w] # "push" /\ UNCHANGED <<jobs, job, current, lock, events>>
      BY <1>2, Zenon DEF Recv, ChannelClosed
    <2> QED BY <2>1, GotoInOrder, Zenon DEF WorkerSteps
  <1> QED BY <1>1, <1>2, Zenon

\* The second look at the epoch is made with the mutex: whoever passes it is in the
\* newest epoch of all, and keeps others from pushing.
LEMMA AdmitInOrder ==
    ASSUME PoolInv, NEW w \in Workers, AdmitEvent(w)
    PROVE  PoolInv'
  <1>1. CASE Admits(w)
    <2>1. /\ worker' = [worker EXCEPT ![w] = "push"] /\ lock = Nobody /\ lock' = w
          /\ current = job[w].generation /\ UNCHANGED <<jobs, job, current, events>>
      BY <1>1, Zenon DEF AdmitEvent, Admits, WorkerGoes
    <2>2. \A v \in Workers : worker[v] # "push"
      BY <2>1, PoolAssumption, Zenon DEF PoolInv, PushHasLock
    <2>3. \A v \in Workers : worker'[v] = "push" => v = w
      BY <2>1, <2>2, Zenon DEF PoolInv, PoolType
    <2>4. PoolType'
      BY <2>1, Zenon DEF PoolInv, PoolType, WorkerSteps
    <2>5. PushHasLock' /\ PushIsNewest'
      BY <2>1, <2>3 DEF PoolInv, PoolType, PushHasLock, PushIsNewest, EventsHaveBegun, Jobs
    <2> QED BY <2>1, <2>4, <2>5, Zenon DEF PoolInv, EventsHaveBegun, EpochsInOrder
  <1>2. CASE ~Admits(w)
    BY <1>2, NextJobInOrder, Zenon DEF AdmitEvent
  <1> QED BY <1>1, <1>2, Zenon

\* The event pushed is of an epoch that has begun and of none before the last one's.
LEMMA PushInOrder ==
    ASSUME PoolInv, NEW w \in Workers, PushEvent(w)
    PROVE  PoolInv'
  <1> DEFINE gen == job[w].generation
  <1>1. /\ worker[w] = "push" /\ events' = Append(events, gen) /\ gen \in Nat
        /\ worker' = [worker EXCEPT ![w] = "recv"] /\ job' = [job EXCEPT ![w] = NoJob]
        /\ UNCHANGED <<jobs, current>>
    BY Zenon DEF PushEvent, NextJob, WorkerGoes, PoolInv, PoolType, Jobs
  <1>2. \A v \in Workers : worker'[v] # "push"
    BY <1>1, Zenon DEF PoolInv, PoolType, PushHasLock
  <1>3. gen <= current /\ \A i \in 1..Len(events) : events[i] <= gen
    BY <1>1, Zenon DEF PoolInv, PushIsNewest
  <1> HIDE DEF gen
  <1>4. /\ events \in Seq(Nat) /\ events' \in Seq(Nat) /\ Len(events') = Len(events) + 1
        /\ \A i \in 1..Len(events') : events'[i] = IF i = Len(events) + 1 THEN gen ELSE events[i]
    BY <1>1 DEF PoolInv, PoolType
  <1>5. PoolType'
    BY <1>1, <1>4, Zenon DEF PoolInv, PoolType, WorkerSteps, NoJob, Jobs
  <1>6. EventsHaveBegun'
    BY <1>1, <1>3, <1>4 DEF PoolInv, EventsHaveBegun
  <1>7. EpochsInOrder'
    <2>1. ASSUME NEW i \in 1..Len(events'), NEW j \in 1..Len(events'), i < j
          PROVE  events'[i] <= events'[j]
      <3>1. i \in 1..Len(events) /\ events'[i] = events[i]
        BY <1>4, <2>1
      <3>2. CASE j = Len(events) + 1
        BY <1>3, <1>4, <3>1, <3>2, Zenon
      <3>3. CASE j # Len(events) + 1
        <4>1. j \in 1..Len(events) /\ events'[j] = events[j]
          BY <1>4, <3>3
        <4> QED BY <2>1, <3>1, <4>1, Zenon DEF PoolInv, EpochsInOrder
      <3> QED BY <3>2, <3>3, Zenon
    <2> QED BY <2>1, Zenon DEF EpochsInOrder
  <1> QED BY <1>2, <1>5, <1>6, <1>7, Zenon DEF PoolInv, PushHasLock, PushIsNewest

\* Every step of a worker.
LEMMA WorkerInOrder ==
    ASSUME PoolInv, NEW w \in Workers, WorkerStep(w)
    PROVE  PoolInv'
  <1>1. CASE CheckGeneration(w)
    <2>1. CASE WorkerGoes(w, "decode") /\ UNCHANGED job
      BY <1>1, <2>1, GotoInOrder, Zenon DEF CheckGeneration, WorkerSteps
    <2>2. CASE NextJob(w)
      BY <1>1, <2>2, NextJobInOrder, Zenon DEF CheckGeneration
    <2> QED BY <1>1, <2>1, <2>2, Zenon DEF CheckGeneration
  <1>2. CASE DecodeLidar(w)
    <2>1. CASE WorkerGoes(w, "send") /\ UNCHANGED job
      BY <1>2, <2>1, GotoInOrder, Zenon DEF DecodeLidar, WorkerSteps
    <2>2. CASE NextJob(w)
      BY <1>2, <2>2, NextJobInOrder, Zenon DEF DecodeLidar
    <2> QED BY <1>2, <2>1, <2>2, Zenon DEF DecodeLidar
  <1>3. CASE TrySend(w)
    <2>1. CASE WorkerGoes(w, "lock") /\ UNCHANGED job
      BY <1>3, <2>1, GotoInOrder, Zenon DEF TrySend, WorkerSteps
    <2>2. CASE NextJob(w)
      BY <1>3, <2>2, NextJobInOrder, Zenon DEF TrySend
    <2> QED BY <1>3, <2>1, <2>2, Zenon DEF TrySend
  <1> QED BY <1>1, <1>2, <1>3, RecvInOrder, AdmitInOrder, PushInOrder, Zenon DEF WorkerStep

\* What changes neither the epoch nor a worker nor adds an event.
LEMMA OthersInOrder ==
    ASSUME PoolInv, jobs' \in Seq(Jobs), UNCHANGED <<worker, job, current, lock, events>>
    PROVE  PoolInv'
  BY Zenon DEF PoolInv, PoolType, PushHasLock, PushIsNewest, EventsHaveBegun, EpochsInOrder

\* Every step of the pool, of its owners and of the consumer.
LEMMA StepInOrder == PoolInv /\ [PoolNext]_poolVars => PoolInv'
  <1> SUFFICES ASSUME PoolInv, [PoolNext]_poolVars PROVE PoolInv'
    BY Zenon
  <1>0. jobs \in Seq(Jobs)
    BY Zenon DEF PoolInv, PoolType
  <1>1. ASSUME NEW w \in Workers, SpawnWorker(w) PROVE PoolInv'
    BY <1>0, <1>1, ElsewhereInOrder, Zenon DEF SpawnWorker, WorkerSteps, PoolInv, PoolType
  <1>2. CASE SpawnFails \/ StartFailed \/ SpawnRouter \/ ClonePool \/ DropPool
    BY <1>0, <1>2, OthersInOrder, Zenon
       DEF SpawnFails, StartFailed, SpawnRouter, ClonePool, DropPool
  <1>3. CASE PoolTerminated \/ UNCHANGED poolVars
    BY <1>0, <1>3, OthersInOrder, Zenon DEF PoolTerminated, poolVars
  <1>4. ASSUME NEW g \in 0..current, Submit(g) PROVE PoolInv'
    <2>1. [generation |-> g] \in Jobs
      BY <1>4 DEF Jobs, PoolInv, PoolType
    <2>2. jobs' \in Seq(Jobs)
      BY <1>0, <1>4, <2>1 DEF Submit
    <2> QED BY <1>4, <2>2, OthersInOrder, Zenon DEF Submit
  <1>5. CASE SetGeneration
    <2>1. current' = current + 1 /\ UNCHANGED <<jobs, worker, job, lock, events>>
      BY <1>5, Zenon DEF SetGeneration
    <2>2. PoolType' /\ PushHasLock' /\ EpochsInOrder'
      BY <2>1 DEF PoolInv, PoolType, PushHasLock, EpochsInOrder
    <2>3. PushIsNewest'
      BY <2>1 DEF PoolInv, PoolType, PushIsNewest, Jobs
    <2>4. EventsHaveBegun'
      BY <2>1 DEF PoolInv, PoolType, EventsHaveBegun
    <2> QED BY <2>2, <2>3, <2>4, Zenon DEF PoolInv
  <1>6. CASE TakeEvent
    <2>1. events \in Seq(Nat) /\ events # <<>> /\ events' = Tail(events)
      BY <1>6, Zenon DEF TakeEvent, PoolInv, PoolType
    <2>2. /\ events' \in Seq(Nat) /\ Len(events') = Len(events) - 1 /\ Len(events) \in Nat
          /\ \A i \in 1..Len(events') : events'[i] = events[i + 1] /\ i + 1 \in 1..Len(events)
      BY <2>1
    <2>3. UNCHANGED <<jobs, worker, job, current, lock>>
      BY <1>6, Zenon DEF TakeEvent
    <2>4. PoolType' /\ PushHasLock'
      BY <2>2, <2>3, Zenon DEF PoolInv, PoolType, PushHasLock
    <2>5. PushIsNewest' /\ EventsHaveBegun'
      BY <2>2, <2>3, Zenon DEF PoolInv, PushIsNewest, EventsHaveBegun
    <2>6. EpochsInOrder'
      <3>1. ASSUME NEW i \in 1..Len(events'), NEW j \in 1..Len(events'), i < j
            PROVE  events'[i] <= events'[j]
        <4>1. i + 1 \in 1..Len(events) /\ j + 1 \in 1..Len(events) /\ i + 1 < j + 1
          BY <2>2, <3>1
        <4>2. events[i + 1] <= events[j + 1]
          BY <4>1, Zenon DEF PoolInv, EpochsInOrder
        <4> QED BY <2>2, <4>2, Zenon
      <3> QED BY <3>1, Zenon DEF EpochsInOrder
    <2> QED BY <2>4, <2>5, <2>6, Zenon DEF PoolInv
  <1> QED BY <1>1, <1>2, <1>3, <1>4, <1>5, <1>6, WorkerInOrder, Zenon DEF PoolNext

\* However many workers decode, however long each of them takes and wherever resets
\* move the epoch meanwhile, no result of an older epoch follows one of a later
\* epoch in the media queue.
THEOREM ResultsKeepTheirOrder == PoolSpec => []EpochsInOrder
  <1>1. PoolInit => PoolInv
    BY DEF PoolInit, PoolInv, PoolType, PushHasLock, PushIsNewest, EventsHaveBegun,
           EpochsInOrder, WorkerSteps, Jobs, NoJob
  <1>2. PoolInv => EpochsInOrder
    BY Zenon DEF PoolInv
  <1> QED BY <1>1, <1>2, StepInOrder, PTL DEF PoolSpec
===============================================================================
