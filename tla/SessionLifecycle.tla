--------------------------- MODULE SessionLifecycle ---------------------------
(***************************************************************************)
(* UnitreeSession: connect, reconnect, auto_reconnect, disconnect,         *)
(* play_audio, stop_audio and the final drop, as futures that share the    *)
(* session gate, the disconnect generation, the peer of the RTC engine and *)
(* the audio playback.                                                     *)
(*                                                                         *)
(* A step of a call is what it does between two awaits.  At an await the   *)
(* caller may drop the future; the guards then spawn a cleanup task, which *)
(* is the same call in one of the DropSteps and keeps the gate.  The core  *)
(* is reduced to data_channel_opened and to what stop_background_tasks     *)
(* does to the readiness of the peer (see DataChannelCore).                *)
(***************************************************************************)
EXTENDS Naturals, Sequences

CONSTANTS
    Calls,          \* calls an application makes, one operation each
    Final,          \* the cleanup task that the drop of the session spawns
    Modes,          \* operations the application may ask for
    MaxRetries,     \* max_retries of auto_reconnect
    None            \* nobody

ASSUME NameAssumption == Final \notin Calls /\ None \notin Calls \cup {Final}

ASSUME RetriesAssumption == MaxRetries \in Nat

VARIABLES
    gate,           \* owner of session_gate
    queue,          \* calls waiting for session_gate, in order
    generation,     \* value of the cancellation watch channel
    intentional,    \* intentional_disconnect
    connected,      \* ConnectionService.is_connected
    opened,         \* data_channel_opened of the core
    peer,           \* resources of the engine: "none", "connecting", "open", "dead"
    closeTask,      \* CloseTask.task: "none", "running", "finished"
    sender,         \* AudioPlayback.sender is Some
    cleanup,        \* AudioPlayback.cleanup: "none", "running", "finished"
    alive,          \* the session has not been dropped
    call,           \* the calls
    established     \* history: subscription of the attempt that set connected

linkVars  == <<connected, opened, peer, closeTask, established>>
audioVars == <<sender, cleanup>>
gateVars  == <<gate, queue>>
flagVars  == <<generation, intentional>>

vars == <<linkVars, audioVars, gateVars, flagVars, alive, call>>

AllModes == {"connect", "reconnect", "retry", "disconnect", "play", "stop"}

\* Awaits inside ConnectionAttempt::run, which a disconnect interrupts.
OpSteps == {"audioWait", "rollbackWait", "offerWait", "offering", "offerFailed",
            "answering", "validating"}

AudioSteps == {"playWait", "play", "playFailed", "stopWait"}

DropSteps == {"dropAudio", "dropWait", "dropClose", "audioDrop", "audioDropWait"}

Steps == OpSteps \cup AudioSteps \cup DropSteps \cup
         {"idle", "check", "subscribe", "queued", "recheck", "begin", "stopAudio", "teardown",
          "teardownWait", "closeWait", "backoff", "request", "cancelled", "done"}

\* Values of the attempt counter of auto_reconnect.
Tries == {n \in 0..MaxRetries : n = 0 \/ n < MaxRetries}

NewCall == [mode |-> "connect", pc |-> "idle", seen |-> 0, began |-> 0, try |-> 0]

\* What the fields of the session can hold; auto_reconnect never counts an
\* attempt beyond max_retries.
TypeOK ==
    /\ gate \in Calls \cup {Final, None} /\ queue \in Seq(Calls \cup {Final})
    /\ generation \in Nat /\ established \in Nat
    /\ intentional \in BOOLEAN /\ connected \in BOOLEAN /\ opened \in BOOLEAN
    /\ peer \in {"none", "connecting", "open", "dead"}
    /\ closeTask \in {"none", "running", "finished"}
    /\ sender \in BOOLEAN /\ cleanup \in {"none", "running", "finished"}
    /\ alive \in BOOLEAN
    /\ call \in [Calls \cup {Final} ->
                   [mode : AllModes, pc : Steps, seen : Nat, began : Nat, try : Tries]]

Init ==
    /\ gate = None /\ queue = <<>>
    /\ generation = 0 /\ intentional = FALSE
    /\ connected = FALSE /\ opened = FALSE /\ peer = "none" /\ closeTask = "none"
    /\ established = 0
    /\ sender = FALSE /\ cleanup = "none"
    /\ alive = TRUE
    /\ call = [c \in Calls \cup {Final} |-> NewCall]

At(c, steps) == call[c].pc \in steps

Goto(c, step) == call' = [call EXCEPT ![c].pc = step]

-----------------------------------------------------------------------------
(* What the steps are made of. *)

\* stop_background_tasks: readiness is withdrawn, and the new ingress
\* generation closes the ready state of the peer.
StopBackgroundTasks ==
    /\ opened' = FALSE
    /\ peer' = IF peer = "none" THEN "none" ELSE "dead"

\* stop_audio_sender up to its await: at most one cleanup task, kept in place.
StopAudioSender ==
    IF sender /\ cleanup = "none"
    THEN sender' = FALSE /\ cleanup' = "running"
    ELSE UNCHANGED audioVars

\* The await of stop_audio_sender ends; its handle is taken.
AudioStopped == cleanup # "running" /\ cleanup' = "none" /\ UNCHANGED sender

\* CloseTask::run up to its await: join the stored task or spawn one.
StartClose == closeTask' = IF closeTask = "none" THEN "running" ELSE closeTask

\* The await of CloseTask::run ends; its handle is taken.
CloseFinished == closeTask = "finished" /\ closeTask' = "none"

IsConnected == connected /\ opened /\ peer = "open"

\* Mutant: the attempts are not counted.
ReturnErrForever(c) == Goto(c, IF call[c].mode = "retry" THEN "backoff" ELSE "done")

\* A failed attempt returns; auto_reconnect sleeps outside the gate and retries.
ReturnErr(c) ==
    IF call[c].mode = "retry" /\ call[c].try + 1 < MaxRetries
    THEN call' = [call EXCEPT ![c].pc = "backoff", ![c].try = call[c].try + 1]
    ELSE Goto(c, "done")

Release == gate' = None /\ UNCHANGED queue

-----------------------------------------------------------------------------
(* Entering an operation. *)

\* connect, reconnect, play_audio and stop_audio queue for the gate at once;
\* an attempt subscribes to the disconnect generation before it queues.
Start(c, mode) ==
    /\ alive /\ At(c, {"idle"}) /\ mode \in Modes \ {"retry", "disconnect"}
    /\ call' = [call EXCEPT ![c] = [NewCall EXCEPT !.mode = mode, !.pc = "queued",
                                                   !.seen = generation]]
    /\ queue' = Append(queue, c)
    /\ UNCHANGED <<linkVars, audioVars, gate, flagVars, alive>>

StartRetry(c) ==
    /\ alive /\ At(c, {"idle"}) /\ "retry" \in Modes
    /\ call' = [call EXCEPT ![c] = [NewCall EXCEPT !.mode = "retry", !.began = generation,
                      !.pc = IF MaxRetries = 0 THEN "done" ELSE "check"]]
    /\ UNCHANGED <<linkVars, audioVars, gateVars, flagVars, alive>>

\* The head of the loop of auto_reconnect.
CheckRetry(c) ==
    /\ At(c, {"check"})
    /\ Goto(c, IF intentional THEN "done" ELSE "subscribe")
    /\ UNCHANGED <<linkVars, audioVars, gateVars, flagVars, alive>>

SubscribeRetry(c) ==
    /\ At(c, {"subscribe"})
    /\ call' = [call EXCEPT ![c].pc = "queued", ![c].seen = generation]
    /\ queue' = Append(queue, c)
    /\ UNCHANGED <<linkVars, audioVars, gate, flagVars, alive>>

\* disconnect_session: raise the flag and the generation together, then queue.
RequestDisconnect(c) ==
    /\ \/ alive /\ At(c, {"idle"}) /\ "disconnect" \in Modes
       \/ At(c, {"request"})
    /\ intentional' = TRUE
    /\ generation' = generation + 1
    /\ call' = [call EXCEPT ![c].mode = "disconnect", ![c].pc = "queued",
                            ![c].seen = generation + 1]
    /\ queue' = Append(queue, c)
    /\ UNCHANGED <<linkVars, audioVars, gate, alive>>

\* tokio's Mutex hands the gate to the waiters in order.
LockSession(c) ==
    /\ At(c, {"queued"}) /\ gate = None /\ Head(queue) = c
    /\ gate' = c /\ queue' = Tail(queue)
    /\ Goto(c, CASE call[c].mode \in {"connect", "reconnect"} -> "begin"
                 [] call[c].mode = "retry" -> "recheck"
                 [] call[c].mode = "disconnect" -> "teardown"
                 [] OTHER -> "stopAudio")
    /\ UNCHANGED <<linkVars, audioVars, flagVars, alive>>

-----------------------------------------------------------------------------
(* connect_validated_session, holding the gate. *)

\* A retry looks at the flag again before it runs.
RecheckRetry(c) ==
    /\ At(c, {"recheck"})
    /\ IF intentional
       THEN Release /\ ReturnErr(c)
       ELSE Goto(c, "begin") /\ UNCHANGED gateVars
    /\ UNCHANGED <<linkVars, audioVars, flagVars, alive>>

\* ConnectionAttempt::run: an attempt whose subscription is out of date fails;
\* otherwise the flag is reset, atomically with the comparison.
Begin(c) ==
    /\ At(c, {"begin"})
    /\ IF call[c].seen # generation
       THEN Goto(c, "teardown") /\ UNCHANGED <<audioVars, intentional>>
       ELSE /\ intentional' = FALSE
            /\ StopAudioSender /\ Goto(c, "audioWait")
    /\ UNCHANGED <<linkVars, gateVars, generation, alive>>

\* The audio is stopped (or failed to): reset the core and close the old peer,
\* unless connect_inner finds no address to connect to.
ResetCore(c) ==
    /\ At(c, {"audioWait"}) /\ AudioStopped
    /\ \/ /\ StopBackgroundTasks /\ connected' = FALSE /\ StartClose
          /\ Goto(c, IF call[c].mode = "connect" THEN "offerWait" ELSE "rollbackWait")
       \/ /\ call[c].mode = "connect" /\ Goto(c, "teardown")
          /\ StopBackgroundTasks /\ connected' = FALSE /\ UNCHANGED closeTask
       \/ /\ cleanup = "finished" /\ Goto(c, "teardown")
          /\ UNCHANGED <<opened, peer, connected, closeTask>>
    /\ UNCHANGED <<established, gateVars, flagVars, alive>>

\* A reconnect has rolled back; prepare_offer closes once more, unless there is
\* no address to connect to.
RolledBack(c) ==
    /\ At(c, {"rollbackWait"}) /\ closeTask = "finished"
    /\ \/ closeTask' = "running" /\ Goto(c, "offerWait")
       \/ closeTask' = "none" /\ Goto(c, "teardown")
    /\ UNCHANGED <<connected, opened, peer, established, audioVars, gateVars, flagVars, alive>>

PrepareOffer(c) ==
    /\ At(c, {"offerWait"}) /\ CloseFinished
    /\ peer' = "connecting"
    /\ Goto(c, "offering")
    /\ UNCHANGED <<connected, opened, established, audioVars, gateVars, flagVars, alive>>

\* prepare_offer_inner succeeds, or fails and closes what it created.
OfferReady(c) ==
    /\ At(c, {"offering"})
    /\ \/ Goto(c, "answering") /\ UNCHANGED closeTask
       \/ Goto(c, "offerFailed") /\ StartClose
    /\ UNCHANGED <<connected, opened, peer, established, audioVars, gateVars, flagVars, alive>>

OfferFailed(c) ==
    /\ At(c, {"offerFailed"}) /\ CloseFinished
    /\ Goto(c, "teardown")
    /\ UNCHANGED <<connected, opened, peer, established, audioVars, gateVars, flagVars, alive>>

\* exchange_sdp and apply_answer: the channel opened.
ApplyAnswer(c) ==
    /\ At(c, {"answering"}) /\ peer = "open"
    /\ connected' = TRUE /\ established' = call[c].seen
    /\ Goto(c, "validating")
    /\ UNCHANGED <<opened, peer, closeTask, audioVars, gateVars, flagVars, alive>>

\* The 15 s timeout of connect_inner, an error of signaling or of the answer,
\* or the timeout of wait_datachannel_open.
AttemptFails(c) ==
    /\ At(c, OpSteps \ {"audioWait", "rollbackWait"})
    /\ Goto(c, "teardown")
    /\ UNCHANGED <<linkVars, audioVars, gateVars, flagVars, alive>>

\* The biased select of run sees a newer generation.
Interrupt(c) ==
    /\ At(c, OpSteps) /\ call[c].seen # generation
    /\ Goto(c, "teardown")
    /\ UNCHANGED <<linkVars, audioVars, gateVars, flagVars, alive>>

\* wait_datachannel_open sees an open, validated channel.
Validated(c) ==
    /\ At(c, {"validating"}) /\ opened /\ peer = "open"
    /\ Release /\ Goto(c, "done")
    /\ UNCHANGED <<linkVars, audioVars, flagVars, alive>>

-----------------------------------------------------------------------------
(* The way out of a failed attempt, which is also all of a disconnect. *)

StopForTeardown(c) ==
    /\ At(c, {"teardown"})
    /\ StopAudioSender /\ Goto(c, "teardownWait")
    /\ UNCHANGED <<linkVars, gateVars, flagVars, alive>>

\* Mutant: the transport is closed but still reported as connected.
RollbackStaysConnected(c) ==
    /\ At(c, {"teardownWait"}) /\ AudioStopped
    /\ StopBackgroundTasks /\ StartClose
    /\ Goto(c, "closeWait")
    /\ UNCHANGED <<connected, established, gateVars, flagVars, alive>>

RollbackConnection(c) ==
    /\ At(c, {"teardownWait"}) /\ AudioStopped
    /\ StopBackgroundTasks /\ connected' = FALSE /\ StartClose
    /\ Goto(c, "closeWait")
    /\ UNCHANGED <<established, gateVars, flagVars, alive>>

FinishRollback(c) ==
    /\ At(c, {"closeWait"}) /\ CloseFinished
    /\ Release /\ ReturnErr(c)
    /\ UNCHANGED <<connected, opened, peer, established, audioVars, flagVars, alive>>

\* auto_reconnect wakes up.
Wake(c) ==
    /\ At(c, {"backoff"})
    /\ Goto(c, "check")
    /\ UNCHANGED <<linkVars, audioVars, gateVars, flagVars, alive>>

-----------------------------------------------------------------------------
(* play_audio and stop_audio, holding the gate. *)

StopForAudio(c) ==
    /\ At(c, {"stopAudio"})
    /\ StopAudioSender
    /\ Goto(c, IF call[c].mode = "play" THEN "playWait" ELSE "stopWait")
    /\ UNCHANGED <<linkVars, gateVars, flagVars, alive>>

\* The old playback is gone; play goes on unless its cleanup failed.
PlaybackStopped(c) ==
    /\ At(c, {"playWait", "playFailed", "stopWait"}) /\ AudioStopped
    /\ \/ call[c].pc = "playWait" /\ Goto(c, "play") /\ UNCHANGED gateVars
       \/ (call[c].pc = "playWait" => cleanup = "finished") /\ Release /\ Goto(c, "done")
    /\ UNCHANGED <<linkVars, flagVars, alive>>

\* Mutant: playback starts on a track of a session that is not connected.
NotRefused == FALSE

PlayRefused == ~IsConnected

\* AudioPlayback::play owns the sender before it starts it; a sender that does
\* not start is stopped again.
Play(c) ==
    /\ At(c, {"play"})
    /\ \/ UNCHANGED audioVars /\ Release /\ Goto(c, "done")
       \/ ~PlayRefused /\ sender' = TRUE /\ UNCHANGED cleanup /\ Release /\ Goto(c, "done")
       \/ ~PlayRefused /\ cleanup' = "running" /\ UNCHANGED <<sender, gateVars>>
          /\ Goto(c, "playFailed")
    /\ UNCHANGED <<linkVars, flagVars, alive>>

-----------------------------------------------------------------------------
(* A future is dropped at an await. *)

\* Waiting for the gate or sleeping: nothing is owned.
CancelWaiting(c) ==
    /\ c # Final /\ At(c, {"queued", "backoff"})
    /\ queue' = SelectSeq(queue, LAMBDA d : d # c)
    /\ Goto(c, "cancelled")
    /\ UNCHANGED <<linkVars, audioVars, gate, flagVars, alive>>

\* Mutant: the gate is free while the cleanup runs.
CancelReleasesGate(c) ==
    /\ c # Final /\ At(c, OpSteps \cup {"teardownWait", "closeWait"})
    /\ StopBackgroundTasks
    /\ Goto(c, "dropAudio")
    /\ Release
    /\ UNCHANGED <<connected, closeTask, established, audioVars, flagVars, alive>>

\* Drop of SessionAttempt: the core is reset at once, the rest is spawned.
CancelAttempt(c) ==
    /\ c # Final /\ At(c, OpSteps \cup {"teardownWait", "closeWait"})
    /\ StopBackgroundTasks
    /\ Goto(c, "dropAudio")
    /\ UNCHANGED <<connected, closeTask, established, audioVars, gateVars, flagVars, alive>>

\* Drop of AudioOperation.
CancelAudio(c) ==
    /\ c # Final /\ At(c, AudioSteps)
    /\ Goto(c, "audioDrop")
    /\ UNCHANGED <<linkVars, audioVars, gateVars, flagVars, alive>>

Cancel(c) == CancelWaiting(c) \/ CancelAttempt(c) \/ CancelAudio(c)

DropStopsAudio(c) ==
    /\ At(c, {"dropAudio", "audioDrop"})
    /\ StopAudioSender
    /\ Goto(c, IF call[c].pc = "dropAudio" THEN "dropWait" ELSE "audioDropWait")
    /\ UNCHANGED <<linkVars, gateVars, flagVars, alive>>

AudioDropDone(c) ==
    /\ At(c, {"audioDropWait"}) /\ AudioStopped
    /\ Release /\ Goto(c, "done")
    /\ UNCHANGED <<linkVars, flagVars, alive>>

\* Drop of ConnectionAttempt: close the engine, then let go of the gate.
DropCloses(c) ==
    /\ At(c, {"dropWait"}) /\ AudioStopped
    /\ connected' = FALSE /\ StartClose
    /\ Goto(c, "dropClose")
    /\ UNCHANGED <<opened, peer, established, gateVars, flagVars, alive>>

DropDone(c) ==
    /\ At(c, {"dropClose"}) /\ CloseFinished
    /\ Release /\ Goto(c, "done")
    /\ UNCHANGED <<connected, opened, peer, established, audioVars, flagVars, alive>>

\* Mutant: nothing is spawned.
SessionDropOnly ==
    /\ alive /\ \A c \in Calls : At(c, {"idle", "done", "cancelled"} \cup DropSteps)
    /\ alive' = FALSE
    /\ StopBackgroundTasks
    /\ Goto(Final, "done")
    /\ UNCHANGED <<connected, closeTask, established, audioVars, gateVars, flagVars>>

\* Drop of the session, when no call borrows it: the core is stopped at once and
\* a disconnect is spawned on the runtime that the calls remembered.
SessionDrop ==
    /\ alive /\ \A c \in Calls : At(c, {"idle", "done", "cancelled"} \cup DropSteps)
    /\ alive' = FALSE
    /\ StopBackgroundTasks
    /\ IF \A c \in Calls : At(c, {"idle"})
       THEN Goto(Final, "done")
       ELSE Goto(Final, "request")
    /\ UNCHANGED <<connected, closeTask, established, audioVars, gateVars, flagVars>>

-----------------------------------------------------------------------------
(* The spawned tasks, the peer and its validation. *)

\* Mutant: the task ends without having released the peer.
CloseForgetsPeer ==
    /\ closeTask = "running" /\ closeTask' = "finished"
    /\ peer' = "dead"
    /\ UNCHANGED <<connected, opened, established, audioVars, gateVars, flagVars, alive, call>>

\* close_inner takes and closes whatever the engine holds.
CloseInner ==
    /\ closeTask = "running" /\ closeTask' = "finished"
    /\ peer' = "none"
    /\ UNCHANGED <<connected, opened, established, audioVars, gateVars, flagVars, alive, call>>

\* AudioSender::shutdown.
Shutdown ==
    /\ cleanup = "running" /\ cleanup' = "finished"
    /\ UNCHANGED <<linkVars, sender, gateVars, flagVars, alive, call>>

PeerChanges ==
    /\ \/ peer = "connecting" /\ peer' \in {"open", "dead"}
       \/ peer = "open" /\ peer' = "dead"
    /\ UNCHANGED <<connected, opened, closeTask, established, audioVars, gateVars, flagVars,
                   alive, call>>

\* "Validation Ok." arrives, or the heartbeat times out.
ValidationChanges ==
    /\ peer = "open" /\ opened' = ~opened
    /\ UNCHANGED <<connected, peer, closeTask, established, audioVars, gateVars, flagVars,
                   alive, call>>

-----------------------------------------------------------------------------

CallStep(c) ==
    \/ CheckRetry(c) \/ SubscribeRetry(c) \/ LockSession(c) \/ RecheckRetry(c) \/ Begin(c)
    \/ ResetCore(c) \/ RolledBack(c) \/ PrepareOffer(c) \/ OfferReady(c) \/ OfferFailed(c)
    \/ ApplyAnswer(c) \/ AttemptFails(c) \/ Interrupt(c) \/ Validated(c)
    \/ StopForTeardown(c) \/ RollbackConnection(c) \/ FinishRollback(c) \/ Wake(c)
    \/ StopForAudio(c) \/ PlaybackStopped(c) \/ Play(c)
    \/ DropStopsAudio(c) \/ AudioDropDone(c) \/ DropCloses(c) \/ DropDone(c)
    \/ (At(c, {"request"}) /\ RequestDisconnect(c))

\* Every call has ended; nothing can start any more.
Terminated ==
    /\ ~alive /\ At(Final, {"done"})
    /\ \A c \in Calls : At(c, {"idle", "done", "cancelled"})
    /\ UNCHANGED vars

Next ==
    \/ \E c \in Calls : \/ \E mode \in AllModes : Start(c, mode)
                        \/ StartRetry(c) \/ RequestDisconnect(c) \/ Cancel(c)
    \/ \E c \in Calls \cup {Final} : CallStep(c)
    \/ SessionDrop
    \/ CloseInner \/ Shutdown
    \/ PeerChanges \/ ValidationChanges
    \/ Terminated

Spec == Init /\ [][Next]_vars

-----------------------------------------------------------------------------
(* Safety. *)

\* Whatever failed, was cancelled or was disconnected has been cleaned up when
\* the gate is free again: no stored close task that a later close would join
\* instead of closing, no audio cleanup, and no peer but that of a connection.
IdleIsClean ==
    gate = None => /\ closeTask = "none" /\ cleanup = "none"
                   /\ (peer # "none" => connected)

\* A close task runs only on behalf of the holder of the gate, and never while
\* that holder is building or validating a peer of its own: the cleanup of a
\* cancelled attempt cannot close a subsequent attempt.
CloseHitsNoLaterPeer ==
    closeTask # "none" => /\ gate # None
                          /\ call[gate].pc \notin {"offering", "answering", "validating"}

\* Audio plays only on the peer of an established connection, and a second
\* playback never starts before the cleanup of the first one has completed.
AudioBelongsToConnection == sender => connected /\ peer # "none" /\ cleanup = "none"

\* Once disconnect has returned, the session is not connected through any
\* attempt that was active or queued when it was requested.
DisconnectIsFinal ==
    \A d \in Calls : /\ call[d].mode = "disconnect" /\ call[d].pc = "done"
                     /\ connected
                     => established >= call[d].seen

-----------------------------------------------------------------------------
(* Liveness: the runtime polls what is ready, timeouts fire, tasks complete. *)

Fairness ==
    /\ \A c \in Calls \cup {Final} : WF_vars(CallStep(c))
    /\ WF_vars(CloseInner) /\ WF_vars(Shutdown)

FairSpec == Spec /\ Fairness

\* Every operation returns or was dropped by its caller, although others hold
\* the gate: the sleep of auto_reconnect and every cleanup let go of it.
CallsReturn ==
    \A c \in Calls : ~At(c, {"idle"}) ~> At(c, {"done", "cancelled"})

\* The drop of the session releases the peer and the playback in the end.
DropReleases ==
    ~alive ~> (gate = None /\ peer = "none" /\ ~connected /\ ~sender /\ cleanup = "none")

\* "explicit disconnect suppresses further attempts": an auto_reconnect loop
\* that has failed once begins no further attempt after a disconnect that was
\* requested during the loop has returned.
DisconnectSuppressesRetries ==
    \A c, d \in Calls :
        /\ call[c].mode = "retry" /\ call[c].try > 0 /\ call[c].pc \in OpSteps
        /\ call[d].mode = "disconnect" /\ call[d].pc = "done"
        => call[d].seen <= call[c].began
=============================================================================
