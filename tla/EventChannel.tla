----------------------------- MODULE EventChannel -----------------------------
(***************************************************************************)
(* protocol/events.rs: producers bound to an epoch, two bounded queues     *)
(* (control and media) with one budget of counts and bytes, the receiver   *)
(* with its priorities and its drop, and permits that return what a        *)
(* delivery occupies when its envelope is dropped.                         *)
(*                                                                         *)
(* The budget has a mutex; the epoch is an atomic that set_generation      *)
(* stores without it, so it may change between any two steps.              *)
(***************************************************************************)
EXTENDS Naturals, Sequences, Functions

CONSTANTS
    Producers,      \* threads and tasks that hold an EventSender
    Sizes,          \* what event_size may return
    Capacity,       \* argument of event_channel
    MediaSlots,     \* 4 in the code
    ControlBytes,   \* CONTROL_BYTES
    MediaBytes,     \* MEDIA_BYTES
    MaxGeneration,  \* bound: set_generation stores no epoch beyond this one
    None            \* no producer

ASSUME CapacityAssumption == Capacity \in Nat \ {0} /\ MediaSlots \in Nat \ {0}

ASSUME BytesAssumption == Sizes \subseteq Nat /\ ControlBytes \in Nat /\ MediaBytes \in Nat

ASSUME ProducersAssumption == None \notin Producers

VARIABLES
    current,        \* the epoch shared by senders and deliveries
    closed,         \* Usage.closed
    count,          \* Usage.count
    bytes,          \* Usage.bytes
    lock,           \* producer that keeps the mutex of the budget between steps
    queue,          \* the control and the media channel
    producer,       \* the producers
    receiver,       \* step of the receiver
    held            \* delivery owned by the receiver, at most one

budgetVars == <<closed, count, bytes, lock>>

vars == <<current, budgetVars, queue, producer, receiver, held>>

Classes == {"control", "media"}

CountLimit(class) ==
    IF class = "control" \/ Capacity < MediaSlots THEN Capacity ELSE MediaSlots

ChannelBound(class) ==
    IF class = "control" \/ Capacity < MediaSlots THEN Capacity ELSE MediaSlots

ByteLimit(class) == IF class = "control" THEN ControlBytes ELSE MediaBytes

Deliveries == [class : Classes, gen : Nat, bytes : Nat]

NoEvent == [class |-> "control", gen |-> 0, bytes |-> 0]

\* What the channel can hold; in particular the counters of Usage, which Drop of
\* Permit decrements, never go below zero.
TypeOK ==
    /\ current \in Nat /\ closed \in BOOLEAN
    /\ count \in [Classes -> Nat] /\ bytes \in [Classes -> Nat]
    /\ lock \in Producers \cup {None}
    /\ queue \in [Classes -> Seq(Deliveries)]
    /\ producer \in [Producers -> [pc : {"idle", "ready", "locking", "pushing"},
                                   event : Deliveries]]
    /\ receiver \in {"poll", "media", "popped", "held", "drain", "drainMedia", "dropped"}
    /\ held \in SUBSET Deliveries

Init ==
    /\ current = 0 /\ closed = FALSE
    /\ count = [c \in Classes |-> 0] /\ bytes = [c \in Classes |-> 0]
    /\ lock = None
    /\ queue = [c \in Classes |-> <<>>]
    /\ producer = [p \in Producers |-> [pc |-> "idle", event |-> NoEvent]]
    /\ receiver = "poll" /\ held = {}

At(p, step) == producer[p].pc = step

Goto(p, step) == producer' = [producer EXCEPT ![p].pc = step]

\* try_send returns; the event was moved or given back.
Return(p) == producer' = [producer EXCEPT ![p] = [pc |-> "idle", event |-> NoEvent]]

-----------------------------------------------------------------------------
(* Senders. *)

\* for_generation: work is bound to the epoch in which it was received.
ForGeneration(p, class, size) ==
    /\ At(p, "idle")
    /\ producer' = [producer EXCEPT ![p] =
                      [pc |-> "ready", event |-> [class |-> class, gen |-> current, bytes |-> size]]]
    /\ UNCHANGED <<current, budgetVars, queue, receiver, held>>

SetGeneration ==
    /\ current < MaxGeneration
    /\ current' = current + 1
    /\ UNCHANGED <<budgetVars, queue, producer, receiver, held>>

\* The first look at the epoch, before the mutex.
TrySend(p) ==
    /\ At(p, "ready")
    /\ IF current = producer[p].event.gen THEN Goto(p, "locking") ELSE Return(p)
    /\ UNCHANGED <<current, budgetVars, queue, receiver, held>>

\* What try_send requires under the mutex.
Admits(e) ==
    ~closed /\ current = e.gen /\ e.bytes + bytes[e.class] <= ByteLimit(e.class)
            /\ count[e.class] < CountLimit(e.class)

Admit(p) ==
    LET e == producer[p].event IN
    /\ At(p, "locking") /\ lock = None
    /\ IF Admits(e)
       THEN /\ count' = [count EXCEPT ![e.class] = @ + 1]
            /\ bytes' = [bytes EXCEPT ![e.class] = @ + e.bytes]
            /\ lock' = p /\ Goto(p, "pushing")
       ELSE Return(p) /\ UNCHANGED <<count, bytes, lock>>
    /\ UNCHANGED <<current, closed, queue, receiver, held>>

\* The channel takes the delivery and the mutex is released; a full channel
\* would return the delivery, whose permit refunds the budget.
Push(p) ==
    LET e == producer[p].event IN
    /\ At(p, "pushing") /\ Return(p)
    /\ lock' = None
    /\ IF Len(queue[e.class]) < ChannelBound(e.class)
       THEN queue' = [queue EXCEPT ![e.class] = Append(@, e)] /\ UNCHANGED <<count, bytes>>
       ELSE /\ count' = [count EXCEPT ![e.class] = @ - 1]
            /\ bytes' = [bytes EXCEPT ![e.class] = @ - e.bytes]
            /\ UNCHANGED queue
    /\ UNCHANGED <<current, closed, receiver, held>>

-----------------------------------------------------------------------------
(* The receiver. *)

Pop(class, next) ==
    /\ queue[class] # <<>>
    /\ held' = {Head(queue[class])}
    /\ queue' = [queue EXCEPT ![class] = Tail(@)]
    /\ receiver' = next

\* Mutant: the bytes of a dropped delivery stay accounted.
DropCountOnly ==
    /\ held # {} /\ lock = None
    /\ LET e == CHOOSE e \in held : TRUE
       IN  count' = [count EXCEPT ![e.class] = @ - 1] /\ UNCHANGED bytes
    /\ held' = {}
    /\ UNCHANGED <<closed, lock>>

\* Drop of an EventDelivery: its Permit takes the mutex and refunds the budget.
PermitDrop ==
    /\ held # {} /\ lock = None
    /\ LET e == CHOOSE e \in held : TRUE
       IN  /\ count' = [count EXCEPT ![e.class] = @ - 1]
           /\ bytes' = [bytes EXCEPT ![e.class] = @ - e.bytes]
    /\ held' = {}
    /\ UNCHANGED <<closed, lock>>

\* try_delivery and delivery_timeout: control first, media if that was empty.
PollControl ==
    /\ receiver = "poll"
    /\ \/ Pop("control", "popped")
       \/ queue["control"] = <<>> /\ receiver' = "media" /\ UNCHANGED <<queue, held>>
    /\ UNCHANGED <<current, budgetVars, producer>>

PollMedia ==
    /\ receiver = "media"
    /\ \/ Pop("media", "popped")
       \/ queue["media"] = <<>> /\ receiver' = "poll" /\ UNCHANGED <<queue, held>>
    /\ UNCHANGED <<current, budgetVars, producer>>

\* Mutant: deliveries of any epoch are handed out.
AlwaysCurrent(e) == TRUE

IsCurrent(e) == e.gen = current

\* A current delivery is handed out; a stale one is dropped.
HandOut ==
    /\ receiver = "popped" /\ \A e \in held : IsCurrent(e)
    /\ receiver' = "held"
    /\ UNCHANGED <<current, budgetVars, queue, producer, held>>

DropStale ==
    /\ receiver = "popped" /\ \A e \in held : ~IsCurrent(e)
    /\ PermitDrop
    /\ receiver' = "poll"
    /\ UNCHANGED <<current, queue, producer>>

\* The consumer is done with the envelope.
Consumed ==
    /\ receiver = "held"
    /\ PermitDrop
    /\ receiver' = "poll"
    /\ UNCHANGED <<current, queue, producer>>

-----------------------------------------------------------------------------
(* Drop of EventReceiver: refuse further events, then drain both channels. *)

\* Mutant: further events are not refused.
DrainOpen ==
    /\ receiver = "poll" /\ lock = None
    /\ receiver' = "drain"
    /\ UNCHANGED <<current, budgetVars, queue, producer, held>>

CloseReceiver ==
    /\ receiver = "poll" /\ lock = None
    /\ closed' = TRUE
    /\ receiver' = "drain"
    /\ UNCHANGED <<current, count, bytes, lock, queue, producer, held>>

Drain ==
    /\ receiver \in {"drain", "drainMedia"} /\ held = {}
    /\ LET class == IF receiver = "drain" THEN "control" ELSE "media" IN
       \/ Pop(class, receiver)
       \/ /\ queue[class] = <<>>
          /\ receiver' = IF receiver = "drain" THEN "drainMedia" ELSE "dropped"
          /\ UNCHANGED <<queue, held>>
    /\ UNCHANGED <<current, budgetVars, producer>>

DrainDrop ==
    /\ receiver \in {"drain", "drainMedia"}
    /\ PermitDrop
    /\ UNCHANGED <<current, queue, producer, receiver>>

-----------------------------------------------------------------------------

ProducerStep(p) == TrySend(p) \/ Admit(p) \/ Push(p)

ReceiverStep == PollControl \/ PollMedia \/ HandOut \/ DropStale \/ Consumed \/ Drain \/ DrainDrop

Next ==
    \/ \E p \in Producers : \/ \E class \in Classes, size \in Sizes : ForGeneration(p, class, size)
                            \/ ProducerStep(p)
    \/ SetGeneration
    \/ ReceiverStep
    \/ CloseReceiver

Spec == Init /\ [][Next]_vars

-----------------------------------------------------------------------------

InLock(class) == IF lock # None /\ producer[lock].event.class = class THEN 1 ELSE 0

Holds(class) == IF \E e \in held : e.class = class THEN 1 ELSE 0

\* Every unit of the count quota belongs to exactly one delivery that is queued,
\* on its way into the channel, or held by the receiver: permits are neither
\* lost nor returned twice, whatever epochs and drops intervene.
\* The same holds for bytes, which therefore never underflow in Drop of Permit,
\* and the buffers stay within the budget of their class.
BudgetIsExact ==
    \A c \in Classes :
        /\ count[c] = Len(queue[c]) + InLock(c) + Holds(c)
        /\ bytes[c] = FoldFunction(LAMBDA e, sum : e.bytes + sum, 0, queue[c])
                      + (IF InLock(c) = 1 THEN producer[lock].event.bytes ELSE 0)
                      + (IF Holds(c) = 1 THEN (CHOOSE e \in held : TRUE).bytes ELSE 0)
        /\ bytes[c] <= ByteLimit(c)

\* The delivery of the producer that has the mutex is as good as queued.
Accepted(class) == IF InLock(class) = 1 THEN Append(queue[class], producer[lock].event)
                                        ELSE queue[class]

Feed == INSTANCE EventFeed WITH
    Lanes <- Classes, Sizes <- Sizes, Slots <- CountLimit,
    epoch <- current, open <- ~closed, lane <- [c \in Classes |-> Accepted(c)],
    taken <- held, delivered <- receiver = "held"

\* The channel implements EventFeed: what try_send admits under the mutex is in its
\* lane from then on and the channel never refuses it, events are handed out in
\* order and only in their own epoch, though set_generation moves it between any
\* two steps, and the drop of the receiver lets nothing in behind its back.
ImplementsEventFeed == Feed!Spec

\* The receiver's thread runs, and a producer that has the mutex goes on.
FairSpec == Spec /\ WF_vars(ReceiverStep) /\ \A p \in Producers : WF_vars(Push(p))

\* Dropping the receiver terminates although senders keep trying: the drain is
\* never refilled as fast as it empties the channels.
DropCompletes == receiver = "drain" ~> receiver = "dropped"
=============================================================================
