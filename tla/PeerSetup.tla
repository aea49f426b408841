------------------------------- MODULE PeerSetup -------------------------------
(***************************************************************************)
(* RtcEngine: what prepare_offer builds, what the callbacks of a peer add  *)
(* to it, and what close and drop take down again.                         *)
(*                                                                         *)
(* Peers are numbered in the order prepare_offer resets the ready state    *)
(* for them.  A field of the engine holds the number of the peer its       *)
(* content belongs to, or 0.  The steps of prepare_offer are what it does  *)
(* between two awaits; whoever drives it (see ConnectAttempt) may drop it  *)
(* at any of them.  An await of a mutex that nobody else takes while the   *)
(* gate is held never waits, and splits no step.  A late callback of a     *)
(* closed peer is a callback: webrtc spawns them, and may run on_track     *)
(* after close has begun.                                                  *)
(***************************************************************************)
EXTENDS Integers, FiniteSets, ReadyState

CONSTANTS
    Peers,          \* numbers of the peers, 1..n
    Tracks          \* media tracks the peers announce, one task each

ASSUME PeersAssumption == Peers \subseteq Nat \ {0}

VARIABLES
    current,        \* the peer whose cell ReadyStateHolder holds
    ready,          \* the ready state cell of each peer
    fresh,          \* peers created under the present ingress generation
    peer,           \* the RTCPeerConnection of each peer
    answered,       \* peers whose remote description is set
    media,          \* PeerResources.media of each peer: is the Option still Some
    listed,         \* handles in that list, by peer
    task,           \* media tasks
    command,        \* command task of each peer
    resources,      \* peer_resources
    ownsCommand,    \* PeerResources.command is Some
    commandTask,    \* command_task
    commandTx,      \* command_tx
    slots,          \* peer_connection, data_channel and audio_track
    closing,        \* close_inner: the await it is in, "none" or "finished"
    taken           \* the PeerResources close_inner took

peerVars  == <<ready, fresh, peer, answered, media, listed, task, command>>
ownerVars == <<resources, ownsCommand, commandTask, commandTx, slots>>
closeVars == <<closing, taken>>
engineVars == <<current, peerVars, ownerVars, closeVars>>

CloseSteps == {"none", "start", "command", "media", "peer", "finished"}

PeerTypeOK ==
    /\ current \in Peers \cup {0}
    /\ ready \in [Peers -> ReadyStates] /\ fresh \in SUBSET Peers
    /\ peer \in [Peers -> {"none", "live", "closing", "closed", "left"}]
    /\ answered \in SUBSET Peers
    /\ media \in [Peers -> BOOLEAN] /\ listed \in [Peers -> SUBSET Tracks]
    /\ task \in [Tracks -> {"none", "running", "aborted", "ended"}]
    /\ command \in [Peers -> {"none", "running", "aborted", "ended"}]
    /\ resources \in Peers \cup {0} /\ ownsCommand \in BOOLEAN
    /\ commandTask \in Peers \cup {0} /\ commandTx \in Peers \cup {0}
    /\ slots \in Peers \cup {0}
    /\ closing \in CloseSteps /\ taken \in Peers \cup {0}

PeerInit ==
    /\ current = 0 /\ ready = [p \in Peers |-> "closed"] /\ fresh = {}
    /\ peer = [p \in Peers |-> "none"] /\ answered = {}
    /\ media = [p \in Peers |-> FALSE] /\ listed = [p \in Peers |-> {}]
    /\ task = [t \in Tracks |-> "none"] /\ command = [p \in Peers |-> "none"]
    /\ resources = 0 /\ ownsCommand = FALSE /\ commandTask = 0 /\ commandTx = 0 /\ slots = 0
    /\ closing = "none" /\ taken = 0

\* AbortHandle::abort of tasks that still run.
Abort(handles) ==
    task' = [t \in Tracks |-> IF t \in handles /\ task[t] = "running" THEN "aborted" ELSE task[t]]

AbortCommand(p) ==
    command' = [q \in Peers |-> IF q = p /\ command[q] = "running" THEN "aborted" ELSE command[q]]

\* The cell of the current peer is stored to, if there is one.
SetReady(state) == ready' = [p \in Peers |-> IF p = current THEN state ELSE ready[p]]

-----------------------------------------------------------------------------
(* prepare_offer. *)

\* PeerResources::register: an owner with an empty list and no command task.
OwnPeer ==
    /\ media' = [media EXCEPT ![current] = TRUE]
    /\ resources' = current /\ ownsCommand' = FALSE

\* create_peer_connection: the peer is owned before the next await, and its
\* state callbacks are bound.
Register ==
    /\ peer' = [peer EXCEPT ![current] = "live"] /\ fresh' = fresh \cup {current}
    /\ OwnPeer
    /\ UNCHANGED <<current, ready, answered, listed, task, command,
                   commandTask, commandTx, slots, closeVars>>

\* The rest of prepare_offer_inner up to the gathering: the fields are filled
\* and the command task is spawned and owned.  The three mutexes of slots are
\* contended by nobody: close runs under the same gate.
StoreComponents ==
    /\ slots' = current /\ commandTx' = current /\ commandTask' = current
    /\ ownsCommand' = TRUE
    /\ command' = [command EXCEPT ![current] = "running"]
    /\ UNCHANGED <<current, ready, fresh, peer, answered, media, listed, task, resources, closeVars>>

\* apply_answer: set_remote_description.
ApplyAnswer ==
    /\ answered' = answered \cup {current}
    /\ UNCHANGED <<current, ready, fresh, peer, media, listed, task, command, ownerVars, closeVars>>

\* stop_background_tasks of the core: a new ingress generation.
NewGeneration ==
    /\ fresh' = {} /\ SetReady("closed")
    /\ UNCHANGED <<current, peer, answered, media, listed, task, command, ownerVars>>

-----------------------------------------------------------------------------
(* Callbacks and tasks of the peers. *)

\* A state callback of a peer; one of an earlier generation does nothing.
StateCallback(p, event) ==
    /\ p \in fresh
    /\ ready' = [ready EXCEPT ![p] = ApplyEvent(@, event)]
    /\ UNCHANGED <<current, fresh, peer, answered, media, listed, task, command, ownerVars, closeVars>>

\* on_open, which an answer precedes, and on_close.
ChannelChanges(p) ==
    \/ p \in answered /\ StateCallback(p, "ChannelOpened")
    \/ StateCallback(p, "ChannelClosed")

\* on_peer_connection_state_change.
PeerChanges(p) ==
    \E event \in {"PeerConnected", "PeerDisconnected", "PeerFailed", "PeerClosed"} :
        StateCallback(p, event)

\* on_track with a supported codec: a handler is spawned into the list, unless
\* the list was taken.
OnTrack(p, t) ==
    /\ p \in answered /\ task[t] = "none" /\ media[p]
    /\ task' = [task EXCEPT ![t] = "running"]
    /\ listed' = [listed EXCEPT ![p] = {u \in @ : task[u] # "ended"} \cup {t}]
    /\ UNCHANGED <<current, ready, fresh, peer, answered, media, command, ownerVars, closeVars>>

\* A media handler returns, or its abort takes effect.
TaskEnds(t) ==
    /\ task[t] \in {"running", "aborted"}
    /\ task' = [task EXCEPT ![t] = "ended"]
    /\ UNCHANGED <<current, ready, fresh, peer, answered, media, listed, command, ownerVars, closeVars>>

\* send_commands returns: its abort takes effect, the sender is gone, or a
\* send failed.
CommandEnds(p) ==
    /\ command[p] \in {"running", "aborted"}
    /\ command' = [command EXCEPT ![p] = "ended"]
    /\ UNCHANGED <<current, ready, fresh, peer, answered, media, listed, task, ownerVars, closeVars>>

\* RTCPeerConnection::close returns.
PeerCloses(p) ==
    /\ peer[p] = "closing"
    /\ peer' = [peer EXCEPT ![p] = "closed"]
    /\ UNCHANGED <<current, ready, fresh, answered, media, listed, task, command, ownerVars, closeVars>>

-----------------------------------------------------------------------------
(* close_inner, in the task that CloseTask stores. *)

\* Up to the await of the command task.
CloseCommand ==
    /\ closing = "start" /\ closing' = "command"
    /\ SetReady("closed") /\ commandTx' = 0 /\ AbortCommand(commandTask)
    /\ UNCHANGED <<current, fresh, peer, answered, media, listed, task,
                   resources, ownsCommand, commandTask, slots, taken>>

CommandGone == commandTask # 0 => command[commandTask] = "ended"

\* Mutant: the handles are drained and the list stays, so that on_track finds it.
DrainMedia ==
    /\ closing = "command" /\ CommandGone /\ closing' = "media"
    /\ commandTask' = 0 /\ taken' = resources /\ resources' = 0 /\ ownsCommand' = FALSE
    /\ IF resources = 0 THEN UNCHANGED task ELSE Abort(listed[resources])
    /\ UNCHANGED <<current, media, ready, fresh, peer, answered, listed, command, commandTx, slots>>

\* The resources are taken; PeerResources::close takes the list and aborts
\* what is in it.
TakeMedia ==
    /\ closing = "command" /\ CommandGone /\ closing' = "media"
    /\ commandTask' = 0 /\ taken' = resources /\ resources' = 0 /\ ownsCommand' = FALSE
    /\ media' = [p \in Peers |-> media[p] /\ p # resources]
    /\ IF resources = 0 THEN UNCHANGED task ELSE Abort(listed[resources])
    /\ UNCHANGED <<current, ready, fresh, peer, answered, listed, command, commandTx, slots>>

\* All handlers have returned: close the peer.
ClosePeer ==
    /\ closing = "media"
    /\ taken # 0 => \A t \in listed[taken] : task[t] = "ended"
    /\ closing' = "peer"
    /\ peer' = [p \in Peers |-> IF p = taken /\ peer[p] = "live" THEN "closing" ELSE peer[p]]
    /\ UNCHANGED <<current, ready, fresh, answered, media, listed, task, command, ownerVars, taken>>

\* The peer is closed; the fields are emptied.
CloseFields ==
    /\ closing = "peer" /\ (taken # 0 => peer[taken] = "closed")
    /\ closing' = "finished" /\ taken' = 0 /\ slots' = 0 /\ SetReady("closed")
    /\ UNCHANGED <<current, fresh, peer, answered, media, listed, task, command,
                   resources, ownsCommand, commandTask, commandTx>>

\* The last engine is dropped, with a peer or without: PeerResources::drop
\* aborts its tasks and, if there is a runtime, spawns the close of its peer,
\* and CommandTask::drop aborts the command task.
DropEngine(inRuntime) ==
    /\ resources' = 0 /\ ownsCommand' = FALSE /\ commandTask' = 0 /\ commandTx' = 0 /\ slots' = 0
    /\ media' = [p \in Peers |-> media[p] /\ p # resources]
    /\ IF resources = 0 THEN UNCHANGED task ELSE Abort(listed[resources])
    /\ AbortCommand(IF ownsCommand THEN resources ELSE commandTask)
    /\ peer' = [p \in Peers |-> IF p # resources THEN peer[p] ELSE IF inRuntime THEN "closing" ELSE "left"]
    /\ UNCHANGED <<current, ready, fresh, answered, listed, closeVars>>

CloseStep == CloseCommand \/ TakeMedia \/ ClosePeer \/ CloseFields

PeerEvent ==
    \/ \E p \in Peers : ChannelChanges(p) \/ PeerChanges(p) \/ (\E t \in Tracks : OnTrack(p, t))
    \/ \E t \in Tracks : TaskEnds(t)
    \/ \E p \in Peers : CommandEnds(p) \/ PeerCloses(p)

\* No command task and no handler is left.
TasksAreOver ==
    /\ \A p \in Peers : command[p] \in {"none", "ended"}
    /\ \A t \in Tracks : task[t] \in {"none", "ended"}

=============================================================================
