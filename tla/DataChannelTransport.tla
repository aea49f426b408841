------------------------- MODULE DataChannelTransport -------------------------
(***************************************************************************)
(* The transport port of the datachannel core, as the RTC engine provides  *)
(* it: the ready state of the current peer, the ingress generation (epoch) *)
(* that peer handlers and the command worker are checked against, the      *)
(* sticky transport fault, the bounded ingress queue towards the router    *)
(* and the bounded command queue towards the peer.                         *)
(*                                                                         *)
(* The module has no Next of its own: DataChannelCore extends it and       *)
(* conjoins these actions with what the core leaves alone.                 *)
(***************************************************************************)
EXTENDS Naturals, Sequences, ReadyState

CONSTANTS
    Wire,               \* bodies of the messages a robot may send
    PeerEvents,         \* webrtc state callbacks that may happen
    IngressCapacity,    \* SessionOptions.incoming_capacity
    CommandCapacity     \* COMMAND_QUEUE_CAPACITY

VARIABLES
    ingressGen,     \* RtcEngine.ingress_generation
    ready,          \* the AtomicU8 the ReadyStateHolder currently holds
    peerGen,        \* generation captured by the current peer; 0 before any
    fault,          \* generation of the retained transport_error; 0 is None
    ingress,        \* incoming_tx/incoming_rx
    inflight,       \* on_message callbacks past their checks, before try_send
    commands,       \* origin epochs of the commands in the mpsc channel
    worker          \* the command task: "none", "running", "failed" or "done"

transportVars == <<ingressGen, ready, peerGen, fault, ingress, inflight, commands, worker>>

ASSUME PeerEventsAssumption == PeerEvents \subseteq StateEvents

FaultBody == [kind |-> "fault"]

Messages == [gen : Nat, body : Wire \cup {FaultBody}]

TransportTypeOK ==
    /\ ingressGen \in Nat
    /\ ready \in ReadyStates
    /\ peerGen \in Nat
    /\ fault \in Nat
    /\ ingress \in Seq(Messages)
    /\ inflight \in SUBSET Messages
    /\ commands \in Seq(Nat)
    /\ worker \in {"none", "running", "failed", "done"}

TransportInit ==
    /\ ingressGen = 1
    /\ ready = "closed"
    /\ peerGen = 0
    /\ fault = 0
    /\ ingress = <<>>
    /\ inflight = {}
    /\ commands = <<>>
    /\ worker = "none"

-----------------------------------------------------------------------------

\* A webrtc state callback of the current peer, which applies only to its epoch.
PeerEvent(event) ==
    /\ peerGen = ingressGen
    /\ ready' = ApplyEvent(ready, event)
    /\ UNCHANGED <<ingressGen, peerGen, fault, ingress, inflight, commands, worker>>

-----------------------------------------------------------------------------
(* Ingress: on_message reads the ready state and the generation, and only   *)
(* afterwards tries to enqueue with the generation it captured.             *)

TryEnqueue(message) ==
    ingress' = IF Len(ingress) < IngressCapacity THEN Append(ingress, message) ELSE ingress

HandlerAdmit(body) ==
    /\ ready \notin Terminal
    /\ peerGen = ingressGen
    /\ \A m \in inflight : m.gen # peerGen
    /\ inflight' = inflight \cup {[gen |-> peerGen, body |-> body]}
    /\ UNCHANGED <<ingressGen, ready, peerGen, fault, ingress, commands, worker>>

HandlerEnqueue(message) ==
    /\ message \in inflight
    /\ inflight' = inflight \ {message}
    /\ TryEnqueue(message)
    /\ UNCHANGED <<ingressGen, ready, peerGen, fault, commands, worker>>

-----------------------------------------------------------------------------
(* Commands: a bounded queue drained by one task per peer. *)

\* Whether send_text accepts a command now; it may refuse one at any time,
\* because it also refuses oversized commands and reads the ready state again.
CanSend == ready = "open" /\ worker = "running" /\ Len(commands) < CommandCapacity

SendText(origin, accepted) ==
    /\ accepted => CanSend
    /\ commands' = IF accepted THEN Append(commands, origin) ELSE commands

\* send_commands: one dequeued command. A failure ends the task.
WorkerStep ==
    /\ worker = "running"
    /\ commands # <<>>
    /\ \E sent \in BOOLEAN :
         LET next == CASE peerGen # ingressGen -> "done"
                       [] peerGen = ingressGen /\ (ready # "open" \/ ~sent) -> "failed"
                       [] OTHER -> "running"
         IN  /\ worker' = next
             /\ commands' = IF next = "running" THEN Tail(commands) ELSE <<>>
    /\ UNCHANGED <<ingressGen, ready, peerGen, fault, ingress, inflight>>

\* Mutant: the fault is only reported through the ingress queue.
ForgetFault == UNCHANGED fault

\* The retained fault is authoritative; the queued copy may be dropped.
RetainFault == fault' = peerGen

RecordTransportFault ==
    /\ worker = "failed"
    /\ worker' = "done"
    /\ IF peerGen = ingressGen
       THEN /\ ready' = "closed"
            /\ RetainFault
            /\ TryEnqueue([gen |-> peerGen, body |-> FaultBody])
       ELSE UNCHANGED <<ready, fault, ingress>>
    /\ UNCHANGED <<ingressGen, peerGen, inflight, commands>>

-----------------------------------------------------------------------------
(* Operations of the owner. *)

\* set_ingress_generation makes two stores that readers without its mutex tell
\* apart.  The first swaps the generation; the fault is forgotten before it.
SwapGeneration(generation) ==
    /\ fault' = 0
    /\ ingressGen' = generation
    /\ UNCHANGED <<ready, peerGen, ingress, inflight, commands, worker>>

\* Mutant: a peer of the previous generation stays open.
KeepReady == UNCHANGED transportVars

\* The second closes the ready state, if the generation was another one.
CloseReady ==
    /\ ready' = "closed"
    /\ UNCHANGED <<ingressGen, peerGen, fault, ingress, inflight, commands, worker>>

\* Both as one step, for the caller whose generation is already in place and
\* who therefore makes no second store (see PrepareIngress).
SetIngressGeneration(generation) ==
    /\ fault' = 0
    /\ ingressGen' = generation
    /\ ready' = IF ingressGen # generation THEN "closed" ELSE ready
    /\ UNCHANGED <<peerGen, ingress, inflight, commands, worker>>

\* close: the command task is aborted at an await, never between a failed send
\* and the recording of its fault; then every resource of the peer is released.
Close ==
    /\ worker # "failed"
    /\ ready' = "closed"
    /\ commands' = <<>>
    /\ worker' = "none"
    /\ UNCHANGED <<ingressGen, peerGen, fault, ingress, inflight>>

\* prepare_offer: close the previous peer, install a fresh ready state, capture
\* the generation for the new peer and start its command task.
PrepareOffer ==
    /\ worker # "failed"
    /\ peerGen' = ingressGen
    /\ ready' = "connecting"
    /\ commands' = <<>>
    /\ worker' = "running"
    /\ UNCHANGED <<ingressGen, fault, ingress, inflight>>

\* take_transport_error leaves None behind.
TakeTransportError ==
    /\ fault' = 0
    /\ UNCHANGED <<ingressGen, ready, peerGen, ingress, inflight, commands, worker>>
=============================================================================
