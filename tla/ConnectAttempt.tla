----------------------------- MODULE ConnectAttempt -----------------------------
(***************************************************************************)
(* ConnectionService over HttpSignalingClient and RtcEngine: one attempt   *)
(* at a time (the session gate serialises them, see SessionLifecycle), its *)
(* deadline, its cancellation, the rollback and the engine underneath.     *)
(* The application holds a session, or the service alone (both are         *)
(* public), and drops its last handle when no call of it is running: at    *)
(* rest, or while the cleanup of a cancelled attempt is still at work.     *)
(*                                                                         *)
(* Time passes in units of five seconds, at the awaits of an attempt.  The *)
(* thirty seconds of apply_answer lie beyond the deadline of the attempt   *)
(* and never come to pass.                                                 *)
(***************************************************************************)
EXTENDS PeerSetup, Signaling

CONSTANT AttemptLimit   \* deadline of connect_inner

ASSUME AttemptAssumption == AttemptLimit \in Nat \ {0}

VARIABLES
    attempt,        \* the await the owner of the gate is in, or "idle"
    elapsed,        \* time since connect_inner began
    connected,      \* is_connected
    owner           \* what the application holds, or how far its drop has come

attemptVars == <<attempt, elapsed, connected, owner>>

vars == <<attemptVars, engineVars, signalVars>>

\* Awaits of connect_inner, which the deadline and a disconnect interrupt.
InnerSteps == {"closing", "creating", "configuring", "offering", "failing", "exchange", "answering"}

\* A session that has remembered no runtime yet is new.  A dropped one waits for
\* its disconnect; leaving, all but spawned tasks have let go of the engine.
Handles == {"new", "session", "service"}

TypeOK ==
    /\ PeerTypeOK /\ SignalTypeOK
    /\ attempt \in InnerSteps \cup {"idle", "rolling", "rollback"}
    /\ elapsed \in 0..AttemptLimit /\ connected \in BOOLEAN
    /\ owner \in Handles \cup {"dropped", "leaving", "released"}

Init ==
    /\ PeerInit /\ SignalInit
    /\ attempt = "idle" /\ elapsed = 0 /\ connected = FALSE /\ owner \in {"new", "service"}

\* CloseTask::run up to its await.
StartClose == closing' = (IF closing = "none" THEN "start" ELSE closing) /\ UNCHANGED taken

\* The await of CloseTask::run ends and the handle is taken.
CloseFinished == closing = "finished" /\ closing' = "none" /\ UNCHANGED taken

\* stop_background_tasks: a session has a core to reset, the service has none.
ResetCore ==
    \/ owner # "service" /\ NewGeneration
    \/ owner = "service" /\ UNCHANGED <<current, peerVars, ownerVars>>

\* remember_runtime.
Remember == owner' = IF owner = "new" THEN "session" ELSE owner

-----------------------------------------------------------------------------

\* connect or reconnect: the core is reset; a reconnect rolls back first.
\* An attempt without an address fails before it touches the engine.
Begin ==
    /\ attempt = "idle" /\ owner \in Handles /\ (\E p \in Peers : p > current)
    /\ Remember /\ ResetCore /\ StartClose /\ connected' = FALSE /\ elapsed' = 0
    /\ attempt' \in {"closing", "rolling", "rollback"}
    /\ UNCHANGED signalVars

\* The rollback of a reconnect is done; prepare_offer closes once more.
RolledBack ==
    /\ attempt = "rolling" /\ closing = "finished"
    /\ closing' = "start" /\ attempt' = "closing"
    /\ UNCHANGED <<taken, elapsed, connected, owner, current, peerVars, ownerVars, signalVars>>

Prepare ==
    /\ attempt = "closing" /\ closing = "finished" /\ closing' = "none" /\ attempt' = "creating"
    /\ \E p \in Peers :
          /\ p = current + 1 /\ current' = p
          /\ ready' = [ready EXCEPT ![p] = "connecting"]
    /\ UNCHANGED <<fresh, peer, answered, media, listed, task, command, ownerVars, taken,
                   elapsed, connected, owner, signalVars>>

CreatePeer ==
    /\ attempt = "creating" /\ Register /\ attempt' = "configuring"
    /\ UNCHANGED <<elapsed, connected, owner, signalVars>>

Configured ==
    /\ attempt = "configuring" /\ resources # 0 /\ StoreComponents /\ attempt' = "offering"
    /\ UNCHANGED <<elapsed, connected, owner, signalVars>>

\* A step of prepare_offer_inner fails; prepare_offer closes what there is.
PrepareFails ==
    /\ attempt \in {"creating", "configuring", "offering"}
    /\ StartClose /\ attempt' = "failing"
    /\ UNCHANGED <<elapsed, connected, owner, current, peerVars, ownerVars, signalVars>>

PrepareFailed ==
    /\ attempt = "failing" /\ closing = "finished"
    /\ closing' = "start" /\ ResetCore /\ attempt' = "rollback"
    /\ UNCHANGED <<taken, elapsed, connected, owner, signalVars>>

OfferReady ==
    /\ attempt = "offering" /\ StartExchange /\ attempt' = "exchange"
    /\ UNCHANGED <<elapsed, connected, owner, engineVars>>

Exchange ==
    /\ attempt = "exchange" /\ ExchangeStep(current)
    /\ UNCHANGED <<attemptVars, engineVars>>

\* The exchange returned an answer that parses.
Answered ==
    /\ attempt = "exchange" /\ step = "ok" /\ ParseAnswer
    /\ ApplyAnswer /\ attempt' = "answering"
    /\ UNCHANGED <<elapsed, connected, owner, signalVars>>

\* The poll of apply_answer sees an open channel.
Opened ==
    /\ attempt = "answering" /\ ready[current] = "open"
    /\ connected' = TRUE /\ attempt' = "idle" /\ DropExchange
    /\ UNCHANGED <<elapsed, owner, engineVars>>

\* The attempt failed, or its future was dropped: the guard and the service
\* roll back alike, and the gate is held until close is done.
Rollback ==
    /\ ResetCore /\ StartClose /\ DropExchange
    /\ connected' = FALSE /\ attempt' = "rollback"
    /\ UNCHANGED elapsed

AttemptFails ==
    /\ \/ attempt = "exchange" /\ (step = "err" \/ (step = "ok" /\ ~ParseAnswer))
       \/ attempt = "answering" /\ ready[current] \in Terminal
    /\ Rollback /\ UNCHANGED owner

\* Mutant: connect_inner runs without a deadline.
NeverOverdue == FALSE

Overdue == elapsed = AttemptLimit

Timeout == attempt \in InnerSteps /\ Overdue /\ Rollback /\ UNCHANGED owner

\* The caller drops the future, or a disconnect interrupts it.
Cancel == attempt \in InnerSteps \cup {"rolling"} /\ Rollback /\ UNCHANGED owner

Disconnect == attempt = "idle" /\ owner \in Handles /\ Rollback /\ Remember

RollbackDone ==
    /\ attempt = "rollback" /\ CloseFinished /\ attempt' = "idle"
    /\ UNCHANGED <<elapsed, connected, owner, current, peerVars, ownerVars, signalVars>>

\* Time passes: no request outlives its timeout and no attempt its deadline.
Tick ==
    /\ attempt \in InnerSteps /\ elapsed < AttemptLimit
    /\ step \in Sends \cup Reads => spent < RequestLimit
    /\ elapsed' = elapsed + 1
    /\ spent' = IF step \in Sends \cup Reads THEN spent + 1 ELSE spent
    /\ UNCHANGED <<attempt, connected, owner, engineVars,
                   robot, deviceKey, step, body, sealKey, answer, hindered>>

\* The last handle of the session goes: the core stops, and a session that has
\* a runtime spawns disconnect_session on it.
Drop ==
    /\ owner \in {"new", "session"} /\ attempt \in {"idle", "rollback"}
    /\ owner' = IF owner = "session" THEN "dropped" ELSE "leaving"
    /\ NewGeneration
    /\ UNCHANGED <<attempt, elapsed, connected, closeVars, signalVars>>

\* That task has the gate, after any cleanup that held it.
DroppedDisconnect ==
    /\ owner = "dropped" /\ attempt = "idle"
    /\ Rollback /\ owner' = "leaving"

\* The last handle of a service goes; nothing is spawned for it.
DropService ==
    /\ owner = "service" /\ attempt \in {"idle", "rollback"}
    /\ owner' = "leaving"
    /\ UNCHANGED <<attempt, elapsed, connected, engineVars, signalVars>>

\* The last clone of the engine goes, in the runtime or outside of it.
Release ==
    /\ owner = "leaving" /\ attempt = "idle" /\ owner' = "released"
    /\ \E inRuntime \in BOOLEAN : DropEngine(inRuntime)
    /\ UNCHANGED <<attempt, elapsed, connected, signalVars>>

Engine == (CloseStep \/ PeerEvent) /\ UNCHANGED <<attemptVars, signalVars>>

Serve == Begin \/ Disconnect \/ Drop \/ DropService \/ Cancel

Advance ==
    \/ RolledBack \/ Prepare \/ CreatePeer \/ Configured \/ PrepareFails \/ PrepareFailed
    \/ OfferReady \/ Exchange \/ Answered \/ Opened \/ AttemptFails \/ Timeout \/ RollbackDone
    \/ DroppedDisconnect \/ Release

\* Nothing is left to happen: the engine is gone and all of it has ended.
Ended ==
    /\ owner = "released" /\ UNCHANGED vars
    /\ \A p \in Peers : peer[p] # "closing" /\ command[p] # "aborted"
    /\ \A t \in Tracks : task[t] # "aborted"

Next == Serve \/ Advance \/ Tick \/ Engine \/ Ended

\* Timers fire and close runs to its end: the runtime drives its tasks, aborted
\* tasks stop at their next await, and RTCPeerConnection::close returns.  The
\* robot, the caller and the callbacks owe nothing.
Fairness ==
    /\ WF_vars(Tick) /\ WF_vars(Timeout) /\ WF_vars(RolledBack) /\ WF_vars(PrepareFailed)
    /\ WF_vars(RollbackDone) /\ WF_vars(DroppedDisconnect) /\ WF_vars(Release)
    /\ WF_vars(CloseStep /\ UNCHANGED <<attemptVars, signalVars>>)
    /\ WF_vars(RequestTimesOut /\ UNCHANGED <<attemptVars, engineVars>>)
    /\ \A t \in Tracks : WF_vars(task[t] = "aborted" /\ TaskEnds(t) /\ UNCHANGED <<attemptVars, signalVars>>)
    /\ \A p \in Peers : WF_vars((PeerCloses(p) \/ (command[p] = "aborted" /\ CommandEnds(p)))
                                  /\ UNCHANGED <<attemptVars, signalVars>>)

Spec == Init /\ [][Next]_vars /\ Fairness

-----------------------------------------------------------------------------

\* From the end of a close to the next peer nothing of an earlier peer runs: no
\* handler, no command task, no open connection.  It holds while the caller of
\* CloseTask::run has yet to take the handle, at rest, and in prepare_offer until
\* PeerResources::register.
NothingOutlivesClose ==
    closing = "finished" \/ (closing = "none" /\ resources = 0 /\ owner # "released") =>
        TasksAreOver /\ \A p \in Peers : peer[p] \in {"none", "closed"}

\* While is_connected is reported, the engine owns the peer that the attempt
\* created, with an answer that the robot gave to the offer of that peer.
ConnectedPeerIsOwned ==
    connected /\ owner # "released" /\ attempt = "idle" =>
        /\ resources = current /\ commandTask = current /\ slots = current
        /\ peer[current] = "live" /\ current \in answered
        /\ answer = [says |-> "answer", offer |-> current]

\* Whatever was begun comes to an end.  An attempt gives the gate back, whatever the
\* robot does: neither a silent robot nor a channel that never opens keeps
\* connect_in_attempt from returning.  A session dropped without disconnect, at
\* rest or while the cleanup of a cancelled attempt is closing its peer, leaves
\* nothing behind: the disconnect that UnitreeSession::drop spawns waits for that
\* cleanup, and when it is done there is no task and no open peer.  A service
\* that is dropped leaves no task either, by PeerResources::drop, and an open
\* peer only if its last handle goes outside of the runtime.
EverythingEnds ==
    /\ attempt # "idle" ~> attempt = "idle"
    /\ owner = "new" =>
         (owner \notin Handles ~> TasksAreOver /\ \A p \in Peers : peer[p] \in {"none", "closed"})
    /\ owner \notin Handles ~> TasksAreOver /\ \A p \in Peers : peer[p] \in {"none", "closed", "left"}

=============================================================================
