------------------------------- MODULE EventFeed -------------------------------
(***************************************************************************)
(* What protocol/events.rs promises to the two ends of the event channel,  *)
(* without its mutex, counters and permits: two lanes that lose, repeat    *)
(* and reorder nothing, that hold no more than their slots together with   *)
(* what the receiver has, that take and hand out only what belongs to the  *)
(* current epoch, and that take nothing once the receiver is gone.         *)
(***************************************************************************)
EXTENDS Naturals, Sequences

CONSTANTS
    Lanes,          \* the classes of events
    Sizes,          \* the sizes of events
    Slots(_)        \* the events of a lane that may exist at a time

VARIABLES
    epoch,          \* the current epoch
    open,           \* the receiver has not been dropped
    lane,           \* the events accepted and not yet taken, oldest first
    taken,          \* the event the receiver has, at most one
    delivered       \* the application has it

vars == <<epoch, open, lane, taken, delivered>>

Init ==
    /\ epoch = 0 /\ open = TRUE /\ delivered = FALSE /\ taken = {}
    /\ lane = [c \in Lanes |-> <<>>]

NewEpoch ==
    /\ epoch' = epoch + 1
    /\ UNCHANGED <<open, lane, taken, delivered>>

TakenFrom(c) == IF \E e \in taken : e.class = c THEN 1 ELSE 0

\* Refusing is no step; whoever sends may always be told that there is no room.
Accept(c) ==
    /\ open /\ Len(lane[c]) + TakenFrom(c) < Slots(c)
    /\ \E e \in [class : {c}, gen : {epoch}, bytes : Sizes] :
         lane' = [lane EXCEPT ![c] = Append(@, e)]
    /\ UNCHANGED <<epoch, open, taken, delivered>>

Take(c) ==
    /\ taken = {} /\ lane[c] # <<>>
    /\ taken' = {Head(lane[c])} /\ lane' = [lane EXCEPT ![c] = Tail(@)]
    /\ UNCHANGED <<epoch, open, delivered>>

Deliver ==
    /\ open /\ taken # {} /\ ~delivered
    /\ \A e \in taken : e.gen = epoch
    /\ delivered' = TRUE
    /\ UNCHANGED <<epoch, open, lane, taken>>

\* What is not delivered is thrown away only if it is late or the feed closes.
Release ==
    /\ taken # {}
    /\ delivered \/ ~open \/ \A e \in taken : e.gen # epoch
    /\ taken' = {} /\ delivered' = FALSE
    /\ UNCHANGED <<epoch, open, lane>>

Close ==
    /\ open /\ taken = {}
    /\ open' = FALSE
    /\ UNCHANGED <<epoch, lane, taken, delivered>>

Next ==
    \/ NewEpoch \/ Deliver \/ Release \/ Close
    \/ \E c \in Lanes : Accept(c) \/ Take(c)

Spec == Init /\ [][Next]_vars
=============================================================================
