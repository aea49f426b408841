-------------------------- MODULE EventChannelProofs --------------------------
(***************************************************************************)
(* The event channel implements EventFeed, for any number of producers,    *)
(* any capacity, any sizes and any number of epochs.  The one fact behind  *)
(* it is that the count of a class is what is queued, in the mutex and     *)
(* held: it keeps the channel from refusing what the budget admitted.  The *)
(* bytes of a class are accounted the same way, as a sum over its events.  *)
(***************************************************************************)
EXTENDS EventChannel, Sums, TLAPS

\* TypeOK without the bytes: that no permit takes Usage.bytes below zero follows from
\* their sum, BytesInv below.
ChannelType ==
    /\ current \in Nat /\ closed \in BOOLEAN /\ lock \in Producers \cup {None}
    /\ count \in [Classes -> Nat] /\ queue \in [Classes -> Seq(Deliveries)]
    /\ producer \in [Producers -> [pc : {"idle", "ready", "locking", "pushing"}, event : Deliveries]]
    /\ receiver \in {"poll", "media", "popped", "held", "drain", "drainMedia", "dropped"}
    /\ held \in SUBSET Deliveries

\* The mutex belongs to the producer between Admit and Push.
LockIsPushing == \A p \in Producers : At(p, "pushing") <=> lock = p

\* Usage.count, without the bytes of BudgetIsExact, and its limit.
CountIsExact ==
    \A c \in Classes : /\ count[c] = Len(queue[c]) + InLock(c) + Holds(c)
                       /\ count[c] <= CountLimit(c)

\* The receiver owns a delivery exactly between the pop and the drop of its
\* permit; while it drains, Usage.closed is set.
ReceiverIsConsistent ==
    /\ held = {} \/ \E e \in Deliveries : held = {e}
    /\ receiver \in {"poll", "media", "dropped"} => held = {}
    /\ receiver \in {"popped", "held"} => held # {}
    /\ closed <=> receiver \in {"drain", "drainMedia", "dropped"}

\* An event is of its channel, and of a size event_size returned.
EventsAreSound ==
    /\ \A c \in Classes : \A i \in 1..Len(queue[c]) : queue[c][i].class = c
    /\ \A p \in Producers : ~At(p, "idle") => producer[p].event.bytes \in Sizes

FeedInv == ChannelType /\ LockIsPushing /\ CountIsExact /\ ReceiverIsConsistent /\ EventsAreSound

-----------------------------------------------------------------------------

\* Taking the first of a sequence and adding to its end do not interfere.
LEMMA TailOfAppend ==
    ASSUME NEW S, NEW s \in Seq(S), NEW e \in S, s # <<>>
    PROVE  /\ Head(Append(s, e)) = Head(s)
           /\ Tail(Append(s, e)) = Append(Tail(s), e)
           /\ Append(s, e) # <<>>
  OBVIOUS

\* What Append and Tail do to the length and the elements of a sequence.
LEMMA AppendFacts ==
    ASSUME NEW S, NEW s \in Seq(S), NEW e \in S
    PROVE  /\ Append(s, e) \in Seq(S) /\ Len(Append(s, e)) = Len(s) + 1
           /\ \A i \in 1..Len(s) + 1 : Append(s, e)[i] = IF i = Len(s) + 1 THEN e ELSE s[i]
  OBVIOUS

\* What Tail and Head leave of a sequence, for the pop of a queue.
LEMMA TailFacts ==
    ASSUME NEW S, NEW s \in Seq(S), s # <<>>
    PROVE  /\ Tail(s) \in Seq(S) /\ Len(s) = Len(Tail(s)) + 1 /\ Len(Tail(s)) \in Nat
           /\ Head(s) \in S /\ Head(s) = s[1] /\ 1 \in 1..Len(s)
           /\ \A i \in 1..Len(Tail(s)) : Tail(s)[i] = s[i + 1] /\ i + 1 \in 1..Len(s)
  OBVIOUS

\* A limit of a class is a number of events, and at least one.
LEMMA LimitType == \A c \in Classes : CountLimit(c) \in Nat /\ CountLimit(c) = ChannelBound(c)
  BY CapacityAssumption, Zenon DEF CountLimit, ChannelBound, Classes

\* A new channel is empty and open.
LEMMA InitFeedInv == Init => FeedInv
  <1> SUFFICES ASSUME Init PROVE FeedInv
    BY Zenon
  <1>1. ChannelType
    <2>1. closed \in BOOLEAN /\ held \in SUBSET Deliveries /\ lock \in Producers \cup {None}
      BY Zenon DEF Init
    <2>2. NoEvent \in Deliveries
      BY Zenon DEF NoEvent, Deliveries, Classes
    <2>3. producer \in [Producers -> [pc : {"idle", "ready", "locking", "pushing"}, event : Deliveries]]
      BY <2>2, Zenon DEF Init
    <2>4. queue \in [Classes -> Seq(Deliveries)]
      BY DEF Init
    <2> QED BY <2>1, <2>3, <2>4, Zenon DEF Init, ChannelType
  <1>2. LockIsPushing
    BY ProducersAssumption, Zenon DEF Init, LockIsPushing, At
  <1>3. CountIsExact
    BY LimitType DEF Init, CountIsExact, InLock, Holds, Classes
  <1>4. ReceiverIsConsistent
    BY Zenon DEF Init, ReceiverIsConsistent
  <1>5. EventsAreSound
    BY DEF Init, EventsAreSound, At
  <1> QED BY <1>1, <1>2, <1>3, <1>4, <1>5, Zenon DEF FeedInv

-----------------------------------------------------------------------------
(* Steps of a producer. *)

\* What a producer is, wherever it stands.
ProducerType == [pc : {"idle", "ready", "locking", "pushing"}, event : Deliveries]

\* Return and Goto leave every other producer alone.
LEMMA ReturnEffect ==
    ASSUME ChannelType, NEW p \in Producers, Return(p)
    PROVE  /\ producer' \in [Producers -> ProducerType]
           /\ \A q \in Producers : q # p => producer'[q] = producer[q]
           /\ producer'[p].pc = "idle"
  <1>1. NoEvent \in Deliveries
    BY Zenon DEF NoEvent, Deliveries, Classes
  <1> QED BY <1>1, Zenon DEF Return, ChannelType, ProducerType

\* Goto moves one producer and leaves its event and the others alone.
LEMMA GotoEffect ==
    ASSUME ChannelType, NEW p \in Producers, NEW step \in {"ready", "locking", "pushing"}, Goto(p, step)
    PROVE  /\ producer' \in [Producers -> ProducerType]
           /\ \A q \in Producers : q # p => producer'[q] = producer[q]
           /\ producer'[p].pc = step /\ producer'[p].event = producer[p].event
  BY Zenon DEF Goto, ChannelType, ProducerType

\* for_generation touches nothing but its producer.
LEMMA ForGenerationEffect ==
    ASSUME ChannelType, NEW p \in Producers, NEW class \in Classes, NEW size \in Sizes,
           ForGeneration(p, class, size)
    PROVE  /\ producer' \in [Producers -> ProducerType]
           /\ \A q \in Producers : q # p => producer'[q] = producer[q]
           /\ producer'[p].pc = "ready" /\ producer'[p].event.bytes = size
  <1>1. [class |-> class, gen |-> current, bytes |-> size] \in Deliveries
    BY BytesAssumption, Zenon DEF ChannelType, Deliveries
  <1> QED BY <1>1, Zenon DEF ForGeneration, ChannelType, ProducerType

\* A producer without the mutex that stays without it changes nothing the
\* invariant relates.
LEMMA OutsideMutex ==
    ASSUME FeedInv, NEW p \in Producers, lock # p,
           UNCHANGED <<current, budgetVars, queue, receiver, held>>,
           producer' \in [Producers -> ProducerType],
           \A q \in Producers : q # p => producer'[q] = producer[q],
           producer'[p].pc # "pushing",
           producer'[p].pc # "idle" => producer'[p].event.bytes \in Sizes
    PROVE  FeedInv' /\ UNCHANGED <<current, closed, [c \in Classes |-> Accepted(c)], held, receiver>>
  <1> USE DEF budgetVars
  <1>1. ChannelType'
    BY Zenon DEF FeedInv, ChannelType, ProducerType
  <1>2. LockIsPushing'
    BY Zenon DEF FeedInv, LockIsPushing, At
  <1>3. \A c \in Classes : InLock(c)' = InLock(c) /\ Holds(c)' = Holds(c)
    BY Zenon DEF FeedInv, ChannelType, InLock, Holds
  <1>4. CountIsExact'
    BY <1>3, Zenon DEF FeedInv, CountIsExact
  <1>5. ReceiverIsConsistent'
    BY Zenon DEF FeedInv, ReceiverIsConsistent
  <1>6. EventsAreSound'
    BY Zenon DEF FeedInv, EventsAreSound, At
  <1>7. \A c \in Classes : Accepted(c)' = Accepted(c)
    BY <1>3 DEF FeedInv, ChannelType, Accepted, InLock
  <1> QED BY <1>1, <1>2, <1>4, <1>5, <1>6, <1>7, Zenon DEF FeedInv

\* Admission under the mutex: the delivery is counted and in the mutex at once.
LEMMA AdmitEffect ==
    ASSUME FeedInv, NEW p \in Producers, Admit(p), Admits(producer[p].event)
    PROVE  FeedInv' /\ Feed!Accept(producer[p].event.class)
  <1> DEFINE e == producer[p].event
  <1>1. /\ e \in Deliveries /\ e.class \in Classes /\ e.bytes \in Sizes /\ At(p, "locking")
        /\ lock = None /\ lock' = p /\ Goto(p, "pushing")
        /\ ~closed /\ current = e.gen /\ count[e.class] < CountLimit(e.class)
        /\ count' = [count EXCEPT ![e.class] = @ + 1] /\ bytes' = [bytes EXCEPT ![e.class] = @ + e.bytes]
        /\ UNCHANGED <<current, closed, queue, receiver, held>>
    BY Zenon DEF Admit, Admits, FeedInv, ChannelType, EventsAreSound, At, Deliveries
  <1>2. /\ producer' \in [Producers -> ProducerType]
        /\ \A q \in Producers : q # p => producer'[q] = producer[q]
        /\ producer'[p].pc = "pushing" /\ producer'[p].event = e
    BY <1>1, GotoEffect, Zenon DEF FeedInv
  <1>3. /\ e.bytes \in Nat
        /\ \A c \in Classes : count[c] \in Nat /\ count'[c] = IF c = e.class THEN count[c] + 1 ELSE count[c]
    BY <1>1, BytesAssumption, Zenon DEF FeedInv, ChannelType
  <1>4. ChannelType'
    BY <1>1, <1>2, <1>3 DEF FeedInv, ChannelType, ProducerType
  <1>5. LockIsPushing'
    BY <1>1, <1>2, ProducersAssumption, Zenon DEF FeedInv, LockIsPushing, At
  <1>6. \A c \in Classes : /\ InLock(c) = 0 /\ InLock(c)' = (IF c = e.class THEN 1 ELSE 0)
                            /\ Holds(c)' = Holds(c)
    BY <1>1, <1>2, ProducersAssumption, Zenon DEF InLock, Holds
  <1>7. CountIsExact'
    <2>1. \A c \in Classes : Len(queue[c]) \in Nat /\ Holds(c) \in Nat /\ count[c] = Len(queue[c]) + Holds(c)
      BY <1>6 DEF FeedInv, CountIsExact, ChannelType, Holds
    <2>2. ASSUME NEW c \in Classes
          PROVE  count'[c] = Len(queue'[c]) + InLock(c)' + Holds(c)' /\ count'[c] <= CountLimit(c)
      <3>1. CASE c = e.class
        BY <1>1, <1>3, <1>6, <2>1, <3>1, LimitType
      <3>2. CASE c # e.class
        BY <1>1, <1>3, <1>6, <2>1, <3>2 DEF FeedInv, CountIsExact
      <3> QED BY <3>1, <3>2, Zenon
    <2> QED BY <2>2, Zenon DEF CountIsExact, CountLimit
  <1>8. ReceiverIsConsistent'
    BY <1>1, Zenon DEF FeedInv, ReceiverIsConsistent
  <1>9. EventsAreSound'
    BY <1>1, <1>2, Zenon DEF FeedInv, EventsAreSound, At
  <1>10. FeedInv'
    BY <1>4, <1>5, <1>7, <1>8, <1>9, Zenon DEF FeedInv
  <1>11. Feed!Accept(e.class)
    <2> DEFINE lanes == [c \in Classes |-> Accepted(c)]
    <2>1. /\ \A c \in Classes : Accepted(c) = queue[c]
          /\ \A c \in Classes : Accepted(c)' = IF c = e.class THEN Append(queue[c], e) ELSE queue[c]
      BY <1>1, <1>2, <1>6 DEF Accepted
    <2>2. lanes' = [lanes EXCEPT ![e.class] = Append(@, e)]
      BY <1>1, <2>1, Zenon
    <2>3. e \in [class : {e.class}, gen : {current}, bytes : Sizes]
      BY <1>1, Zenon DEF Deliveries
    <2>4. Len(lanes[e.class]) + Feed!TakenFrom(e.class) < CountLimit(e.class)
      <3>1. Feed!TakenFrom(e.class) = Holds(e.class) /\ lanes[e.class] = queue[e.class]
        BY <1>1, <2>1, Zenon DEF Holds, Feed!TakenFrom
      <3>2. Len(queue[e.class]) \in Nat /\ Holds(e.class) \in Nat
        BY <1>1 DEF FeedInv, ChannelType, Holds
      <3> QED BY <1>1, <1>6, <3>1, <3>2 DEF FeedInv, CountIsExact
    <2> QED BY <1>1, <2>2, <2>3, <2>4, Zenon DEF Feed!Accept
  <1> QED BY <1>10, <1>11, Zenon

\* The channel has room for what the budget admitted: its bound is the limit of
\* the count, and the count includes the delivery in the mutex.
LEMMA PushEffect ==
    ASSUME FeedInv, NEW p \in Producers, Push(p)
    PROVE  FeedInv' /\ UNCHANGED <<current, closed, [c \in Classes |-> Accepted(c)], held, receiver>>
  <1> DEFINE e == producer[p].event
  <1>1. lock = p /\ e \in Deliveries /\ e.class \in Classes /\ lock' = None /\ Return(p)
    BY Zenon DEF Push, FeedInv, LockIsPushing, ChannelType, Deliveries
  <1>2. \A c \in Classes : InLock(c) = (IF c = e.class THEN 1 ELSE 0) /\ InLock(c)' = 0
    BY <1>1, ProducersAssumption, Zenon DEF InLock
  <1>3. \A c \in Classes : queue[c] \in Seq(Deliveries) /\ Len(queue[c]) \in Nat /\ Holds(c) \in Nat
    BY DEF FeedInv, ChannelType, Holds
  <1>4. Len(queue[e.class]) < ChannelBound(e.class)
    BY <1>1, <1>2, <1>3, LimitType DEF FeedInv, CountIsExact
  <1>5. /\ queue' = [queue EXCEPT ![e.class] = Append(@, e)]
        /\ UNCHANGED <<current, closed, count, bytes, receiver, held>>
    BY <1>4, Zenon DEF Push
  <1>6. \A c \in Classes : queue'[c] = IF c = e.class THEN Append(queue[c], e) ELSE queue[c]
    BY <1>1, <1>5, Zenon DEF FeedInv, ChannelType
  <1>7. /\ producer' \in [Producers -> ProducerType] /\ producer'[p].pc = "idle"
        /\ \A q \in Producers : q # p => producer'[q] = producer[q]
    BY <1>1, ReturnEffect, Zenon DEF FeedInv
  <1>8. ChannelType'
    <2>1. queue' \in [Classes -> Seq(Deliveries)]
      BY <1>1, <1>3, <1>5 DEF FeedInv, ChannelType
    <2> QED BY <1>1, <1>5, <1>7, <2>1, Zenon DEF FeedInv, ChannelType, ProducerType
  <1>9. LockIsPushing'
    BY <1>1, <1>7, ProducersAssumption, Zenon DEF FeedInv, LockIsPushing, At
  <1>10. CountIsExact'
    <2>1. ASSUME NEW c \in Classes PROVE Len(queue'[c]) = Len(queue[c]) + InLock(c)
      <3>1. CASE c = e.class
        <4>1. Len(Append(queue[c], e)) = Len(queue[c]) + 1
          BY <1>1, <1>3, AppendFacts
        <4> QED BY <1>2, <1>6, <3>1, <4>1, Zenon
      <3>2. CASE c # e.class
        BY <1>2, <1>3, <1>6, <3>2
      <3> QED BY <3>1, <3>2, Zenon
    <2>2. \A c \in Classes : Holds(c)' = Holds(c)
      BY <1>5, Zenon DEF Holds
    <2> QED BY <1>2, <1>3, <1>5, <2>1, <2>2 DEF FeedInv, CountIsExact
  <1>11. ReceiverIsConsistent'
    BY <1>5, Zenon DEF FeedInv, ReceiverIsConsistent
  <1>12. EventsAreSound'
    <2>1. ASSUME NEW c \in Classes, NEW i \in 1..Len(queue'[c]) PROVE queue'[c][i].class = c
      <3>1. CASE c = e.class
        <4> DEFINE s == queue[e.class]
        <4>1. queue'[c] = Append(s, e) /\ s \in Seq(Deliveries) /\ \A j \in 1..Len(s) : s[j].class = e.class
          BY <1>1, <1>3, <1>6, <3>1, Zenon DEF FeedInv, EventsAreSound
        <4> HIDE DEF s
        <4>2. i \in 1..Len(s) + 1 /\ Append(s, e)[i] = IF i = Len(s) + 1 THEN e ELSE s[i]
          BY <1>1, <2>1, <4>1, AppendFacts
        <4>3. i # Len(s) + 1 => i \in 1..Len(s)
          BY <4>1, <4>2
        <4> QED BY <3>1, <4>1, <4>2, <4>3, Zenon
      <3>2. CASE c # e.class
        BY <1>6, <2>1, <3>2, Zenon DEF FeedInv, EventsAreSound
      <3> QED BY <3>1, <3>2, Zenon
    <2> QED BY <1>7, <2>1, Zenon DEF FeedInv, EventsAreSound, At
  <1>13. \A c \in Classes : Accepted(c)' = Accepted(c)
    BY <1>1, <1>2, <1>6 DEF Accepted
  <1> QED BY <1>5, <1>8, <1>9, <1>10, <1>11, <1>12, <1>13, Zenon DEF FeedInv

-----------------------------------------------------------------------------
(* Steps of the receiver. *)

\* The first delivery of a channel moves to the receiver, which had none.
LEMMA PopEffect ==
    ASSUME FeedInv, NEW class \in Classes, NEW next \in {"popped", "drain", "drainMedia"},
           Pop(class, next), held = {}, closed <=> next # "popped",
           UNCHANGED <<current, budgetVars, producer>>
    PROVE  FeedInv' /\ Feed!Take(class)
  <1> DEFINE e == Head(queue[class])
  <1>1. /\ queue[class] # <<>> /\ queue[class] \in Seq(Deliveries) /\ held' = {e} /\ receiver' = next
        /\ UNCHANGED <<current, closed, count, bytes, lock, producer>>
        /\ \A c \in Classes : queue[c] \in Seq(Deliveries) /\ count[c] \in Nat
    BY Zenon DEF Pop, budgetVars, FeedInv, ChannelType
  <1>2. e \in Deliveries /\ e.class = class
    BY <1>1 DEF FeedInv, EventsAreSound
  <1>3. \A c \in Classes : queue'[c] = IF c = class THEN Tail(queue[c]) ELSE queue[c]
    BY Zenon DEF Pop, FeedInv, ChannelType
  <1>4. ChannelType'
    <2>1. queue' \in [Classes -> Seq(Deliveries)]
      BY <1>1 DEF Pop, FeedInv, ChannelType
    <2>2. held' \in SUBSET Deliveries
      BY <1>1, <1>2, Zenon
    <2> QED BY <1>1, <2>1, <2>2, Zenon DEF FeedInv, ChannelType
  <1>5. LockIsPushing'
    BY <1>1, Zenon DEF FeedInv, LockIsPushing, At
  <1>6. \A c \in Classes : /\ InLock(c)' = InLock(c) /\ InLock(c) \in Nat
                            /\ Holds(c) = 0 /\ Holds(c)' = IF c = class THEN 1 ELSE 0
    BY <1>1, <1>2, Zenon DEF InLock, Holds
  <1>7. CountIsExact'
    <2>1. \A c \in Classes : Len(queue[c]) = Len(queue'[c]) + Holds(c)' /\ Len(queue'[c]) \in Nat
      <3> TAKE c \in Classes
      <3>1. CASE c = class
        BY <1>1, <1>3, <1>6, <3>1, TailFacts, Zenon
      <3>2. CASE c # class
        BY <1>1, <1>3, <1>6, <3>2
      <3> QED BY <3>1, <3>2, Zenon
    <2> QED BY <1>1, <1>6, <2>1 DEF FeedInv, CountIsExact
  <1>8. ReceiverIsConsistent'
    BY <1>1, <1>2, Zenon DEF FeedInv, ReceiverIsConsistent
  <1>9. EventsAreSound'
    <2>1. \A c \in Classes : \A i \in 1..Len(queue'[c]) : queue'[c][i].class = c
      <3> TAKE c \in Classes
      <3>1. CASE c = class
        <4> DEFINE s == queue[class]
        <4>1. /\ queue'[c] = Tail(s) /\ s \in Seq(Deliveries) /\ s # <<>>
              /\ \A i \in 1..Len(s) : s[i].class = class
          BY <1>1, <1>3, <3>1, Zenon DEF FeedInv, EventsAreSound
        <4> HIDE DEF s
        <4> QED BY <3>1, <4>1, TailFacts
      <3>2. CASE c # class
        BY <1>3, <3>2, Zenon DEF FeedInv, EventsAreSound
      <3> QED BY <3>1, <3>2, Zenon
    <2> QED BY <1>1, <2>1, Zenon DEF FeedInv, EventsAreSound, At
  <1>10. Feed!Take(class)
    <2> DEFINE lanes == [c \in Classes |-> Accepted(c)]
    <2>1. \A c \in Classes : InLock(c) = 1 => producer[lock].event \in Deliveries
      BY DEF InLock, FeedInv, ChannelType
    <2>2. /\ Accepted(class) # <<>> /\ Head(Accepted(class)) = e /\ Accepted(class)' = Tail(Accepted(class))
      <3>1. CASE InLock(class) = 1
        <4> DEFINE s == queue[class]
                   d == producer[lock].event
        <4>1. /\ s \in Seq(Deliveries) /\ s # <<>> /\ d \in Deliveries
              /\ Accepted(class) = Append(s, d) /\ Accepted(class)' = Append(Tail(s), d)
          BY <1>1, <1>3, <1>6, <2>1, <3>1, Zenon DEF Accepted
        <4> HIDE DEF s, d
        <4>2. Head(Append(s, d)) = Head(s) /\ Tail(Append(s, d)) = Append(Tail(s), d) /\ Append(s, d) # <<>>
          BY <4>1, TailOfAppend
        <4> QED BY <4>1, <4>2, Zenon DEF s
      <3>2. CASE InLock(class) # 1
        BY <1>1, <1>3, <1>6, <3>2, Zenon DEF Accepted
      <3> QED BY <3>1, <3>2, Zenon
    <2>3. \A c \in Classes : c # class => Accepted(c)' = Accepted(c)
      BY <1>1, <1>3, <1>6, Zenon DEF Accepted
    <2>4. lanes' = [lanes EXCEPT ![class] = Tail(@)] /\ lanes[class] = Accepted(class)
      BY <2>2, <2>3, Zenon
    <2>5. receiver # "held" /\ receiver' # "held"
      BY <1>1, Zenon DEF FeedInv, ReceiverIsConsistent
    <2> QED BY <1>1, <2>2, <2>4, <2>5, Zenon DEF Feed!Take
  <1> QED BY <1>4, <1>5, <1>7, <1>8, <1>9, <1>10, Zenon DEF FeedInv

\* A permit refunds the unit of the delivery that is dropped.
LEMMA PermitDropEffect ==
    ASSUME FeedInv, PermitDrop, receiver' \in {"poll", "drain", "drainMedia"},
           closed <=> receiver' # "poll", UNCHANGED <<current, queue, producer>>,
           \/ receiver = "held" \/ closed \/ \A d \in held : d.gen # current
    PROVE  FeedInv' /\ Feed!Release
  <1> DEFINE e == CHOOSE e \in held : TRUE
  <1>1. e \in Deliveries /\ held = {e} /\ held' = {}
    BY Zenon DEF PermitDrop, FeedInv, ReceiverIsConsistent
  <1>2. /\ count' = [count EXCEPT ![e.class] = @ - 1] /\ bytes' = [bytes EXCEPT ![e.class] = @ - e.bytes]
        /\ UNCHANGED <<closed, lock, current, queue, producer>>
    BY Zenon DEF PermitDrop
  <1> HIDE DEF e
  <1>3. e.class \in Classes /\ e.bytes \in Nat
    BY <1>1, Zenon DEF Deliveries
  <1>4. \A c \in Classes : /\ InLock(c)' = InLock(c) /\ InLock(c) \in Nat
                            /\ Holds(c) = (IF c = e.class THEN 1 ELSE 0) /\ Holds(c)' = 0
    BY <1>1, <1>2, Zenon DEF InLock, Holds
  <1>5. \A c \in Classes : count'[c] = count[c] - Holds(c) /\ Len(queue[c]) \in Nat /\ count[c] \in Nat
    BY <1>2, <1>3, <1>4 DEF FeedInv, ChannelType
  <1>6. CountIsExact'
    BY <1>2, <1>4, <1>5, LimitType DEF FeedInv, CountIsExact
  <1>7. ChannelType'
    <2>1. count' \in [Classes -> Nat]
      <3>1. \A c \in Classes : count'[c] \in Nat
        BY <1>4, <1>5 DEF FeedInv, CountIsExact
      <3> QED BY <1>2, <3>1, Zenon DEF FeedInv, ChannelType
    <2> QED BY <1>1, <1>2, <2>1, Zenon DEF FeedInv, ChannelType
  <1>8. LockIsPushing'
    BY <1>2, Zenon DEF FeedInv, LockIsPushing, At
  <1>9. ReceiverIsConsistent'
    BY <1>1, <1>2, Zenon DEF ReceiverIsConsistent
  <1>10. EventsAreSound'
    BY <1>2, Zenon DEF FeedInv, EventsAreSound, At
  <1>11. Feed!Release
    <2>1. \A c \in Classes : Accepted(c)' = Accepted(c)
      BY <1>2, <1>4, Zenon DEF Accepted
    <2>2. receiver' # "held" /\ held # {}
      BY <1>1, Zenon
    <2> QED BY <1>1, <1>2, <2>1, <2>2, Zenon DEF Feed!Release
  <1> QED BY <1>6, <1>7, <1>8, <1>9, <1>10, <1>11 DEF FeedInv

\* The receiver looks elsewhere and nothing else happens.
LEMMA LookElsewhere ==
    ASSUME FeedInv, UNCHANGED <<current, budgetVars, queue, producer, held>>, held = {},
           receiver' \in {"poll", "media", "drainMedia", "dropped"},
           closed <=> receiver' \in {"drainMedia", "dropped"}
    PROVE  FeedInv' /\ UNCHANGED <<current, closed, [c \in Classes |-> Accepted(c)], held>>
           /\ receiver # "held" /\ receiver' # "held"
  <1> USE DEF budgetVars
  <1>1. ChannelType'
    BY Zenon DEF FeedInv, ChannelType
  <1>2. LockIsPushing' /\ EventsAreSound'
    BY Zenon DEF FeedInv, LockIsPushing, EventsAreSound, At
  <1>3. \A c \in Classes : InLock(c)' = InLock(c) /\ Holds(c)' = Holds(c)
    BY Zenon DEF InLock, Holds
  <1>4. CountIsExact'
    BY <1>3, Zenon DEF FeedInv, CountIsExact
  <1>5. ReceiverIsConsistent' /\ receiver # "held"
    BY Zenon DEF FeedInv, ReceiverIsConsistent
  <1>6. \A c \in Classes : Accepted(c)' = Accepted(c)
    BY <1>3, Zenon DEF Accepted
  <1> QED BY <1>1, <1>2, <1>4, <1>5, <1>6, Zenon DEF FeedInv

-----------------------------------------------------------------------------
(* The refinement. *)

\* Every step of a producer is a step of the feed or none.
LEMMA ProducerImplements ==
    ASSUME FeedInv, NEW p \in Producers,
           \/ \E class \in Classes, size \in Sizes : ForGeneration(p, class, size)
           \/ ProducerStep(p)
    PROVE  FeedInv' /\ [Feed!Next]_(Feed!vars)
  <1>1. ASSUME NEW class \in Classes, NEW size \in Sizes, ForGeneration(p, class, size)
        PROVE  FeedInv' /\ UNCHANGED Feed!vars
    <2>1. lock # p /\ UNCHANGED <<current, budgetVars, queue, receiver, held>>
      BY <1>1, Zenon DEF ForGeneration, FeedInv, LockIsPushing, At
    <2>2. /\ producer' \in [Producers -> ProducerType]
          /\ \A q \in Producers : q # p => producer'[q] = producer[q]
          /\ producer'[p].pc = "ready" /\ producer'[p].event.bytes = size
      BY <1>1, ForGenerationEffect, Zenon DEF FeedInv
    <2> QED BY <2>1, <2>2, OutsideMutex DEF Feed!vars
  <1>2. ASSUME TrySend(p) PROVE FeedInv' /\ UNCHANGED Feed!vars
    <2>1. /\ lock # p /\ UNCHANGED <<current, budgetVars, queue, receiver, held>>
          /\ producer[p].event.bytes \in Sizes /\ (Goto(p, "locking") \/ Return(p))
      BY <1>2, Zenon DEF TrySend, FeedInv, LockIsPushing, EventsAreSound, At
    <2>2. /\ producer' \in [Producers -> ProducerType]
          /\ \A q \in Producers : q # p => producer'[q] = producer[q]
          /\ \/ producer'[p].pc = "locking" /\ producer'[p].event = producer[p].event
             \/ producer'[p].pc = "idle"
      <3>1. ChannelType
        BY Zenon DEF FeedInv
      <3>2. CASE Goto(p, "locking")
        BY <3>1, <3>2, GotoEffect, Zenon
      <3>3. CASE Return(p)
        BY <3>1, <3>3, ReturnEffect, Zenon
      <3> QED BY <2>1, <3>2, <3>3, Zenon
    <2> QED BY <2>1, <2>2, OutsideMutex DEF Feed!vars
  <1>3. ASSUME Admit(p) PROVE FeedInv' /\ [Feed!Next]_(Feed!vars)
    <2>1. CASE Admits(producer[p].event)
      <3>1. producer[p].event.class \in Classes
        BY Zenon DEF FeedInv, ChannelType, Deliveries
      <3> QED BY <1>3, <2>1, <3>1, AdmitEffect, Zenon DEF Feed!Next
    <2>2. CASE ~Admits(producer[p].event)
      <3>1. lock # p /\ UNCHANGED <<current, budgetVars, queue, receiver, held>> /\ Return(p)
        BY <1>3, <2>2, ProducersAssumption, Zenon DEF Admit, budgetVars
      <3>2. /\ producer' \in [Producers -> ProducerType] /\ producer'[p].pc = "idle"
            /\ \A q \in Producers : q # p => producer'[q] = producer[q]
        BY <3>1, ReturnEffect, Zenon DEF FeedInv
      <3> QED BY <3>1, <3>2, OutsideMutex DEF Feed!vars
    <2> QED BY <2>1, <2>2, Zenon
  <1>4. ASSUME Push(p) PROVE FeedInv' /\ UNCHANGED Feed!vars
    BY <1>4, PushEffect DEF Feed!vars
  <1> QED BY <1>1, <1>2, <1>3, <1>4, Zenon DEF ProducerStep

\* Every step of the receiver is a step of the feed or none.
LEMMA ReceiverImplements ==
    ASSUME FeedInv, ReceiverStep
    PROVE  FeedInv' /\ [Feed!Next]_(Feed!vars)
  <1>1. CASE PollControl
    <2>1. held = {} /\ ~closed /\ "control" \in Classes
      BY <1>1, Zenon DEF PollControl, FeedInv, ReceiverIsConsistent, Classes
    <2>2. CASE Pop("control", "popped")
      BY <1>1, <2>1, <2>2, PopEffect, Zenon DEF PollControl, Feed!Next
    <2>3. CASE receiver' = "media" /\ UNCHANGED <<queue, held>>
      BY <1>1, <2>1, <2>3, LookElsewhere DEF PollControl, Feed!vars
    <2> QED BY <1>1, <2>2, <2>3, Zenon DEF PollControl
  <1>2. CASE PollMedia
    <2>1. held = {} /\ ~closed /\ "media" \in Classes
      BY <1>2, Zenon DEF PollMedia, FeedInv, ReceiverIsConsistent, Classes
    <2>2. CASE Pop("media", "popped")
      BY <1>2, <2>1, <2>2, PopEffect, Zenon DEF PollMedia, Feed!Next
    <2>3. CASE receiver' = "poll" /\ UNCHANGED <<queue, held>>
      BY <1>2, <2>1, <2>3, LookElsewhere DEF PollMedia, Feed!vars
    <2> QED BY <1>2, <2>2, <2>3, Zenon DEF PollMedia
  <1>3. CASE HandOut
    <2>1. /\ receiver = "popped" /\ receiver' = "held" /\ held # {} /\ ~closed
          /\ \A e \in held : e.gen = current
          /\ UNCHANGED <<current, closed, count, bytes, lock, queue, producer, held>>
      BY <1>3, Zenon DEF HandOut, IsCurrent, budgetVars, FeedInv, ReceiverIsConsistent
    <2>2. ChannelType' /\ LockIsPushing' /\ EventsAreSound'
      BY <2>1, Zenon DEF FeedInv, ChannelType, LockIsPushing, EventsAreSound, At
    <2>3. \A c \in Classes : InLock(c)' = InLock(c) /\ Holds(c)' = Holds(c) /\ Accepted(c)' = Accepted(c)
      BY <2>1, Zenon DEF InLock, Holds, Accepted
    <2>4. CountIsExact' /\ ReceiverIsConsistent'
      BY <2>1, <2>3, Zenon DEF FeedInv, CountIsExact, ReceiverIsConsistent
    <2>5. Feed!Deliver
      BY <2>1, <2>3, Zenon DEF Feed!Deliver
    <2> QED BY <2>2, <2>4, <2>5, Zenon DEF FeedInv, Feed!Next
  <1>4. CASE DropStale \/ Consumed
    <2>1. /\ PermitDrop /\ receiver' = "poll" /\ ~closed /\ UNCHANGED <<current, queue, producer>>
          /\ receiver = "held" \/ \A d \in held : d.gen # current
      BY <1>4, Zenon DEF DropStale, Consumed, IsCurrent, FeedInv, ReceiverIsConsistent
    <2> QED BY <2>1, PermitDropEffect, Zenon DEF Feed!Next
  <1>5. CASE Drain
    <2> DEFINE class == IF receiver = "drain" THEN "control" ELSE "media"
    <2>1. class \in Classes /\ held = {} /\ closed /\ receiver \in {"drain", "drainMedia"}
          /\ UNCHANGED <<current, budgetVars, producer>>
      BY <1>5, Zenon DEF Drain, FeedInv, ReceiverIsConsistent, Classes
    <2>2. CASE Pop(class, receiver)
      BY <2>1, <2>2, PopEffect, Zenon DEF Feed!Next
    <2>3. CASE receiver' \in {"drainMedia", "dropped"} /\ UNCHANGED <<queue, held>>
      BY <2>1, <2>3, LookElsewhere, Zenon DEF Feed!vars
    <2> QED BY <1>5, <2>2, <2>3, Zenon DEF Drain
  <1>6. CASE DrainDrop
    <2>1. /\ PermitDrop /\ receiver' \in {"drain", "drainMedia"} /\ closed
          /\ UNCHANGED <<current, queue, producer>>
      BY <1>6, Zenon DEF DrainDrop, FeedInv, ReceiverIsConsistent
    <2> QED BY <2>1, PermitDropEffect, Zenon DEF Feed!Next
  <1> QED BY <1>1, <1>2, <1>3, <1>4, <1>5, <1>6, Zenon DEF ReceiverStep

\* Every step of the channel keeps the invariant and is a step of the feed or none.
LEMMA StepImplements == FeedInv /\ [Next]_vars => FeedInv' /\ [Feed!Next]_(Feed!vars)
  <1> SUFFICES ASSUME FeedInv, [Next]_vars PROVE FeedInv' /\ [Feed!Next]_(Feed!vars)
    BY Zenon
  <1>1. CASE \E p \in Producers : \/ \E class \in Classes, size \in Sizes : ForGeneration(p, class, size)
                                  \/ ProducerStep(p)
    BY <1>1, ProducerImplements, Zenon
  <1>2. CASE SetGeneration
    <2>1. current' = current + 1 /\ UNCHANGED <<closed, count, bytes, lock, queue, producer, receiver, held>>
      BY <1>2, Zenon DEF SetGeneration, budgetVars
    <2>2. \A c \in Classes : InLock(c)' = InLock(c) /\ Holds(c)' = Holds(c) /\ Accepted(c)' = Accepted(c)
      BY <2>1, Zenon DEF InLock, Holds, Accepted
    <2>3. ChannelType' /\ LockIsPushing' /\ EventsAreSound'
      BY <2>1 DEF FeedInv, ChannelType, LockIsPushing, EventsAreSound, At
    <2>4. CountIsExact' /\ ReceiverIsConsistent'
      BY <2>1, <2>2, Zenon DEF FeedInv, CountIsExact, ReceiverIsConsistent
    <2>5. Feed!NewEpoch
      BY <2>1, <2>2, Zenon DEF Feed!NewEpoch
    <2> QED BY <2>3, <2>4, <2>5, Zenon DEF FeedInv, Feed!Next
  <1>3. CASE ReceiverStep
    BY <1>3, ReceiverImplements, Zenon
  <1>4. CASE CloseReceiver
    <2>1. /\ receiver = "poll" /\ receiver' = "drain" /\ closed' = TRUE /\ closed = FALSE /\ held = {}
          /\ UNCHANGED <<current, count, bytes, lock, queue, producer, held>>
      <3>1. ~closed /\ closed \in BOOLEAN
        BY <1>4, Zenon DEF CloseReceiver, FeedInv, ReceiverIsConsistent, ChannelType
      <3> QED BY <1>4, <3>1, Zenon DEF CloseReceiver, FeedInv, ReceiverIsConsistent
    <2>2. \A c \in Classes : InLock(c)' = InLock(c) /\ Holds(c)' = Holds(c) /\ Accepted(c)' = Accepted(c)
      BY <2>1, Zenon DEF InLock, Holds, Accepted
    <2>3. ChannelType' /\ LockIsPushing' /\ EventsAreSound'
      BY <2>1, Zenon DEF FeedInv, ChannelType, LockIsPushing, EventsAreSound, At
    <2>4. CountIsExact' /\ ReceiverIsConsistent'
      BY <2>1, <2>2, Zenon DEF FeedInv, CountIsExact, ReceiverIsConsistent
    <2>5. Feed!Close
      BY <2>1, <2>2, Zenon DEF Feed!Close
    <2> QED BY <2>3, <2>4, <2>5, Zenon DEF FeedInv, Feed!Next
  <1>5. CASE UNCHANGED vars
    <2>1. UNCHANGED <<current, closed, count, bytes, lock, queue, producer, receiver, held>>
      BY <1>5, Zenon DEF vars, budgetVars
    <2>2. \A c \in Classes : InLock(c)' = InLock(c) /\ Holds(c)' = Holds(c) /\ Accepted(c)' = Accepted(c)
      BY <2>1, Zenon DEF InLock, Holds, Accepted
    <2>3. ChannelType' /\ LockIsPushing' /\ EventsAreSound'
      BY <2>1, Zenon DEF FeedInv, ChannelType, LockIsPushing, EventsAreSound, At
    <2>4. CountIsExact' /\ ReceiverIsConsistent'
      BY <2>1, <2>2, Zenon DEF FeedInv, CountIsExact, ReceiverIsConsistent
    <2> QED BY <2>1, <2>2, <2>3, <2>4, Zenon DEF FeedInv, Feed!vars
  <1> QED BY <1>1, <1>2, <1>3, <1>4, <1>5, Zenon DEF Next

\* A new channel is a new feed.
LEMMA InitImplements == Init => Feed!Init
  <1> SUFFICES ASSUME Init PROVE Feed!Init
    BY Zenon
  <1>1. \A c \in Classes : Accepted(c) = <<>>
    BY DEF Init, Accepted, InLock
  <1> QED BY <1>1, Zenon DEF Init, Feed!Init

\* Every behaviour of the channel is a behaviour of the feed: what try_send admits
\* is never refused afterwards, deliveries are handed out in order and in their
\* epoch, a delivery is thrown away only when stale or when the receiver is
\* dropped, and the drop admits nothing more.
THEOREM ChannelImplementsFeed == Spec => ImplementsEventFeed
  <1>1. Spec => []FeedInv
    BY InitFeedInv, StepImplements, PTL DEF Spec
  <1> QED BY <1>1, InitImplements, StepImplements, PTL DEF Spec, ImplementsEventFeed, Feed!Spec

\* Usage.count is the deliveries that exist and never passes its limit, so try_send
\* under the mutex never meets a full channel.
THEOREM CountsAreExact == Spec => []CountIsExact
  <1>1. FeedInv => CountIsExact
    BY Zenon DEF FeedInv
  <1> QED BY <1>1, InitFeedInv, StepImplements, PTL DEF Spec

-----------------------------------------------------------------------------
(* The bytes of the budget. *)

SizesOf(q) == [i \in DOMAIN q |-> q[i].bytes]

QueueBytes(q) == FoldFunction(LAMBDA e, sum : e.bytes + sum, 0, q)

LockBytes(c) == IF InLock(c) = 1 THEN producer[lock].event.bytes ELSE 0

HeldBytes(c) == IF Holds(c) = 1 THEN (CHOOSE e \in held : TRUE).bytes ELSE 0

\* Usage.bytes of a class is what its deliveries weigh, wherever they are, and is
\* within the limit of the class.
BytesInv ==
    /\ bytes \in [Classes -> Nat]
    /\ \A c \in Classes : /\ bytes[c] = QueueBytes(queue[c]) + LockBytes(c) + HeldBytes(c)
                          /\ bytes[c] <= ByteLimit(c)

\* The fold over a queue is the sum of its sizes.
LEMMA QueueBytesIsSum ==
    ASSUME NEW q \in Seq(Deliveries)
    PROVE  /\ QueueBytes(q) = Sum(SizesOf(q), 1..Len(q)) /\ QueueBytes(q) \in Nat
           /\ \A i \in 1..Len(q) : SizesOf(q)[i] = q[i].bytes /\ q[i] \in Deliveries
                                   /\ SizesOf(q)[i] \in Nat
<1> DEFINE D == DOMAIN q
           f == SizesOf(q)
<1>1. D = 1..Len(q) /\ Len(q) \in Nat
  OBVIOUS
<1>2. IsFiniteSet(D)
  BY <1>1, FS_Interval
<1>3. \A i \in D : f[i] = q[i].bytes /\ q[i] \in Deliveries /\ f[i] \in Nat
  <2>1. \A i \in D : q[i] \in Deliveries
    BY <1>1
  <2>2. \A i \in D : f[i] = q[i].bytes
    BY Zenon DEF SizesOf
  <2> QED
    BY <2>1, <2>2, Zenon DEF Deliveries
<1>4. QueueBytes(q) = (CHOOSE g : g = [s \in SUBSET D |->
                         IF s = {} THEN 0 ELSE q[Any(s)].bytes + g[s \ {Any(s)}]])[D]
  BY Zenon DEF QueueBytes, FoldFunction, FoldFunctionOnSet, MapThenFoldSet, Any
<1>5. \A g : (g = [s \in SUBSET D |-> IF s = {} THEN 0 ELSE q[Any(s)].bytes + g[s \ {Any(s)}]])
             <=> Recurs(f, D, g)
  <2> HIDE DEF f, D
  <2>1. \A s \in SUBSET D : \A g : Adds(f, s, g) = IF s = {} THEN 0 ELSE q[Any(s)].bytes + g[s \ {Any(s)}]
    BY <1>3 DEF Adds, Any
  <2> QED
    BY <2>1, Zenon DEF Recurs
<1> HIDE DEF D, f
<1>6. QueueBytes(q) = (CHOOSE g : Recurs(f, D, g))[D]
  BY <1>4, <1>5, Zenon
<1>7. (CHOOSE g : Recurs(f, D, g))[D] = Sum(f, D) /\ Sum(f, D) \in Nat
  BY <1>2, <1>3, FoldIsSum, SumIsNatural, Zenon
<1> QED
  BY <1>1, <1>3, <1>6, <1>7, Zenon DEF D, f

\* What a queue weighs when a delivery comes.
LEMMA QueueBytesAppend ==
    ASSUME NEW q \in Seq(Deliveries), NEW e \in Deliveries
    PROVE  QueueBytes(Append(q, e)) = QueueBytes(q) + e.bytes
<1> DEFINE r == Append(q, e)
           n == Len(q)
<1>1. r \in Seq(Deliveries) /\ Len(r) = n + 1 /\ n \in Nat
  BY AppendFacts
<1>2. r[n + 1] = e /\ \A i \in 1..n : r[i] = q[i]
  BY AppendFacts, <1>1
<1> HIDE DEF r
<1>3. /\ QueueBytes(r) = Sum(SizesOf(r), 1..n + 1)
      /\ \A i \in 1..n + 1 : SizesOf(r)[i] = r[i].bytes /\ SizesOf(r)[i] \in Nat
  BY <1>1, QueueBytesIsSum, Zenon
<1>4. /\ QueueBytes(q) = Sum(SizesOf(q), 1..n)
      /\ \A i \in 1..n : SizesOf(q)[i] = q[i].bytes
  BY QueueBytesIsSum, Zenon
<1>5. Sum(SizesOf(r), 1..n + 1) = Sum(SizesOf(r), 1..n) + SizesOf(r)[n + 1]
  BY <1>1, <1>3, SumOfAppend, Zenon
<1>6. \A i \in 1..n : SizesOf(r)[i] = SizesOf(q)[i]
  BY <1>1, <1>2, <1>3, <1>4
<1>7. Sum(SizesOf(r), 1..n) = Sum(SizesOf(q), 1..n)
  BY <1>6, SumOfEqual, Zenon
<1>8. SizesOf(r)[n + 1] = e.bytes
  BY <1>1, <1>2, <1>3
<1> QED
  BY <1>3, <1>4, <1>5, <1>7, <1>8, Zenon DEF r

\* And when the first one goes.
LEMMA QueueBytesTail ==
    ASSUME NEW q \in Seq(Deliveries), q # <<>>
    PROVE  QueueBytes(q) = Head(q).bytes + QueueBytes(Tail(q))
<1> DEFINE r == Tail(q)
           n == Len(r)
<1>1. r \in Seq(Deliveries) /\ Len(q) = n + 1 /\ n \in Nat /\ Head(q) = q[1]
      /\ \A i \in 1..n : r[i] = q[i + 1] /\ i + 1 \in 1..n + 1
  BY TailFacts, Zenon
<1> HIDE DEF r
<1>2. /\ QueueBytes(q) = Sum(SizesOf(q), 1..n + 1)
      /\ \A i \in 1..n + 1 : SizesOf(q)[i] = q[i].bytes /\ SizesOf(q)[i] \in Nat
  BY <1>1, QueueBytesIsSum, Zenon
<1>3. /\ QueueBytes(r) = Sum(SizesOf(r), 1..n)
      /\ \A i \in 1..n : SizesOf(r)[i] = r[i].bytes
  BY <1>1, QueueBytesIsSum, Zenon
<1>4. \A i \in 1..n : SizesOf(r)[i] = SizesOf(q)[i + 1]
  BY <1>1, <1>2, <1>3, Zenon
<1>5. Sum(SizesOf(q), 1..n + 1) = SizesOf(q)[1] + Sum(SizesOf(r), 1..n)
  BY <1>1, <1>2, <1>4, SumOfTail, Zenon
<1>6. SizesOf(q)[1] = Head(q).bytes
  BY <1>1, <1>2
<1> QED
  BY <1>2, <1>3, <1>5, <1>6, Zenon DEF r

\* An empty queue holds no bytes.
LEMMA QueueBytesEmpty == QueueBytes(<<>>) = 0
<1>1. <<>> \in Seq(Deliveries) /\ Len(<<>>) = 0 /\ 1..0 = {}
  OBVIOUS
<1> QED
  BY <1>1, QueueBytesIsSum, SumOfNothing, Zenon

-----------------------------------------------------------------------------

\* Limits and parts of the sum are numbers.
LEMMA PartsAreNumbers ==
    ASSUME FeedInv, NEW c \in Classes
    PROVE  /\ queue[c] \in Seq(Deliveries) /\ QueueBytes(queue[c]) \in Nat
           /\ LockBytes(c) \in Nat /\ HeldBytes(c) \in Nat /\ ByteLimit(c) \in Nat
<1>1. queue[c] \in Seq(Deliveries)
  BY Zenon DEF FeedInv, ChannelType
<1>2. QueueBytes(queue[c]) \in Nat
  BY <1>1, QueueBytesIsSum, Zenon
<1>3. LockBytes(c) \in Nat
  BY DEF FeedInv, ChannelType, LockBytes, InLock, Deliveries
<1>4. HeldBytes(c) \in Nat
  <2>1. Holds(c) = 1 => (CHOOSE e \in held : TRUE) \in Deliveries
    BY DEF FeedInv, ChannelType, Holds
  <2> QED
    BY <2>1, Zenon DEF HeldBytes, Deliveries
<1>5. ByteLimit(c) \in Nat
  BY BytesAssumption, Zenon DEF ByteLimit
<1> QED
  BY <1>1, <1>2, <1>3, <1>4, <1>5, Zenon

\* Steps that leave the budget, the queues and the delivery in the mutex alone.
LEMMA BytesUntouched ==
    ASSUME FeedInv, BytesInv, UNCHANGED <<bytes, lock, queue, held>>,
           lock # None => producer'[lock] = producer[lock]
    PROVE  BytesInv'
<1>1. \A c \in Classes : LockBytes(c)' = LockBytes(c) /\ HeldBytes(c)' = HeldBytes(c)
  BY DEF LockBytes, HeldBytes, InLock, Holds
<1>2. \A c \in Classes : QueueBytes(queue[c])' = QueueBytes(queue[c])
  BY Zenon
<1> QED
  BY <1>1, <1>2, Zenon DEF BytesInv, ByteLimit

\* Usage grows by the event that moves into the lock.
LEMMA AdmitBytes ==
    ASSUME FeedInv, BytesInv, NEW p \in Producers, Admit(p), Admits(producer[p].event)
    PROVE  BytesInv'
<1> DEFINE e == producer[p].event
<1>1. /\ e \in Deliveries /\ e.class \in Classes /\ e.bytes \in Nat
      /\ lock = None /\ lock' = p /\ Goto(p, "pushing")
      /\ e.bytes + bytes[e.class] <= ByteLimit(e.class)
      /\ bytes' = [bytes EXCEPT ![e.class] = @ + e.bytes]
      /\ UNCHANGED <<queue, held>>
  BY Zenon DEF Admit, Admits, FeedInv, ChannelType, Deliveries
<1>2. producer'[p].event = e
  BY <1>1, GotoEffect, Zenon DEF FeedInv
<1> HIDE DEF e
<1>3. \A c \in Classes : bytes[c] \in Nat /\ bytes'[c] = IF c = e.class THEN bytes[c] + e.bytes ELSE bytes[c]
  BY <1>1, Zenon DEF BytesInv
<1>4. \A c \in Classes : LockBytes(c) = 0 /\ LockBytes(c)' = IF c = e.class THEN e.bytes ELSE 0
  BY <1>1, <1>2, ProducersAssumption DEF LockBytes, InLock
<1>5. \A c \in Classes : HeldBytes(c)' = HeldBytes(c) /\ queue'[c] = queue[c]
  BY <1>1 DEF HeldBytes, Holds
<1>6. ASSUME NEW c \in Classes
      PROVE  /\ bytes'[c] = QueueBytes(queue'[c]) + LockBytes(c)' + HeldBytes(c)'
             /\ bytes'[c] <= ByteLimit(c) /\ bytes'[c] \in Nat
  <2>1. QueueBytes(queue[c]) \in Nat /\ HeldBytes(c) \in Nat /\ ByteLimit(c) \in Nat
    BY PartsAreNumbers, Zenon
  <2>2. bytes[c] = QueueBytes(queue[c]) + LockBytes(c) + HeldBytes(c) /\ bytes[c] <= ByteLimit(c)
    BY Zenon DEF BytesInv
  <2>3. CASE c = e.class
    BY <1>1, <1>3, <1>4, <1>5, <2>1, <2>2, <2>3
  <2>4. CASE c # e.class
    BY <1>3, <1>4, <1>5, <2>1, <2>2, <2>4, Zenon
  <2> QED
    BY <2>3, <2>4, Zenon
<1>7. bytes' \in [Classes -> Nat]
  BY <1>1, <1>6, Zenon DEF BytesInv
<1> QED
  BY <1>6, <1>7, Zenon DEF BytesInv, ByteLimit

\* The event moves from the lock to the end of its queue.
LEMMA PushBytes ==
    ASSUME FeedInv, BytesInv, NEW p \in Producers, Push(p)
    PROVE  BytesInv'
<1> DEFINE e == producer[p].event
<1>1. lock = p /\ e \in Deliveries /\ e.class \in Classes /\ lock' = None
  BY Zenon DEF Push, FeedInv, LockIsPushing, ChannelType, Deliveries
<1>2. Len(queue[e.class]) < ChannelBound(e.class)
  <2>1. InLock(e.class) = 1 /\ Holds(e.class) \in Nat /\ Len(queue[e.class]) \in Nat
    BY <1>1, ProducersAssumption DEF InLock, Holds, FeedInv, ChannelType
  <2> QED
    BY <1>1, <2>1, LimitType DEF FeedInv, CountIsExact
<1>3. queue' = [queue EXCEPT ![e.class] = Append(@, e)] /\ UNCHANGED <<bytes, held>>
  BY <1>2, Zenon DEF Push
<1>4. \A c \in Classes : LockBytes(c)' = 0 /\ LockBytes(c) = IF c = e.class THEN e.bytes ELSE 0
  BY <1>1, ProducersAssumption DEF LockBytes, InLock
<1> HIDE DEF e
<1>5. \A c \in Classes : queue'[c] = IF c = e.class THEN Append(queue[c], e) ELSE queue[c]
  BY <1>1, <1>3, Zenon DEF FeedInv, ChannelType
<1>6. \A c \in Classes : HeldBytes(c)' = HeldBytes(c)
  BY <1>3 DEF HeldBytes, Holds
<1>7. ASSUME NEW c \in Classes
      PROVE  bytes'[c] = QueueBytes(queue'[c]) + LockBytes(c)' + HeldBytes(c)'
  <2>1. QueueBytes(queue[c]) \in Nat /\ HeldBytes(c) \in Nat /\ queue[c] \in Seq(Deliveries)
    BY PartsAreNumbers, Zenon
  <2>2. bytes[c] = QueueBytes(queue[c]) + LockBytes(c) + HeldBytes(c)
    BY Zenon DEF BytesInv
  <2>3. CASE c = e.class
    <3>1. QueueBytes(queue'[c]) = QueueBytes(queue[c]) + e.bytes /\ e.bytes \in Nat
      BY <1>1, <1>5, <2>1, <2>3, QueueBytesAppend, Zenon DEF Deliveries
    <3> QED
      BY <1>3, <1>4, <1>6, <2>1, <2>2, <2>3, <3>1
  <2>4. CASE c # e.class
    BY <1>3, <1>4, <1>5, <1>6, <2>1, <2>2, <2>4
  <2> QED
    BY <2>3, <2>4, Zenon
<1> QED
  BY <1>3, <1>7, Zenon DEF BytesInv, ByteLimit

\* The first event of a queue moves into the hands of the receiver.
LEMMA PopBytes ==
    ASSUME FeedInv, BytesInv, NEW class \in Classes, NEW next, Pop(class, next), held = {},
           UNCHANGED <<budgetVars, producer>>
    PROVE  BytesInv'
<1> DEFINE e == Head(queue[class])
<1>1. /\ queue[class] # <<>> /\ queue[class] \in Seq(Deliveries) /\ held' = {e}
      /\ UNCHANGED <<bytes, lock, producer>>
  BY Zenon DEF Pop, budgetVars, FeedInv, ChannelType
<1>2. e \in Deliveries /\ e.class = class
  BY <1>1 DEF FeedInv, EventsAreSound
<1>3. \A c \in Classes : queue'[c] = IF c = class THEN Tail(queue[c]) ELSE queue[c]
  BY Zenon DEF Pop, FeedInv, ChannelType
<1>4. QueueBytes(queue[class]) = e.bytes + QueueBytes(Tail(queue[class]))
      /\ QueueBytes(Tail(queue[class])) \in Nat
  BY <1>1, QueueBytesTail, QueueBytesIsSum, TailFacts, Zenon
<1> HIDE DEF e
<1>5. \A c \in Classes : HeldBytes(c) = 0 /\ HeldBytes(c)' = IF c = class THEN e.bytes ELSE 0
  BY <1>1, <1>2 DEF HeldBytes, Holds
<1>6. \A c \in Classes : LockBytes(c)' = LockBytes(c)
  BY <1>1, Zenon DEF LockBytes, InLock
<1>7. ASSUME NEW c \in Classes
      PROVE  bytes'[c] = QueueBytes(queue'[c]) + LockBytes(c)' + HeldBytes(c)'
  <2>1. QueueBytes(queue[c]) \in Nat /\ LockBytes(c) \in Nat /\ e.bytes \in Nat
    BY <1>2, PartsAreNumbers, Zenon DEF Deliveries
  <2>2. bytes[c] = QueueBytes(queue[c]) + LockBytes(c) + HeldBytes(c)
    BY Zenon DEF BytesInv
  <2>3. CASE c = class
    BY <1>1, <1>3, <1>4, <1>5, <1>6, <2>1, <2>2, <2>3
  <2>4. CASE c # class
    BY <1>1, <1>3, <1>5, <1>6, <2>1, <2>2, <2>4, Zenon
  <2> QED
    BY <2>3, <2>4, Zenon
<1> QED
  BY <1>1, <1>7, Zenon DEF BytesInv, ByteLimit

\* Usage shrinks by the event whose permit is dropped, and not below zero.
LEMMA PermitDropBytes ==
    ASSUME FeedInv, BytesInv, PermitDrop, UNCHANGED <<queue, producer>>
    PROVE  BytesInv'
<1> DEFINE e == CHOOSE e \in held : TRUE
<1>1. e \in Deliveries /\ held = {e} /\ held' = {}
  BY Zenon DEF PermitDrop, FeedInv, ReceiverIsConsistent
<1>2. bytes' = [bytes EXCEPT ![e.class] = @ - e.bytes] /\ lock' = lock
  BY Zenon DEF PermitDrop
<1>3. \A c \in Classes : HeldBytes(c) = (IF c = e.class THEN e.bytes ELSE 0) /\ HeldBytes(c)' = 0
  <2>1. \A c \in Classes : HeldBytes(c) = IF Holds(c) = 1 THEN e.bytes ELSE 0
    BY Zenon DEF HeldBytes
  <2> HIDE DEF e
  <2>2. \A c \in Classes : Holds(c) = (IF c = e.class THEN 1 ELSE 0) /\ Holds(c)' = 0
    BY <1>1, Zenon DEF Holds
  <2>3. \A c \in Classes : HeldBytes(c)' = 0
    BY <2>2 DEF HeldBytes
  <2> QED
    BY <2>1, <2>2, <2>3
<1> HIDE DEF e
<1>4. e.class \in Classes /\ e.bytes \in Nat
  BY <1>1, Zenon DEF Deliveries
<1>5. \A c \in Classes : bytes'[c] = IF c = e.class THEN bytes[c] - e.bytes ELSE bytes[c]
  BY <1>2, <1>4, Zenon DEF BytesInv
<1>6. \A c \in Classes : LockBytes(c)' = LockBytes(c)
  BY <1>2, Zenon DEF LockBytes, InLock
<1>7. ASSUME NEW c \in Classes
      PROVE  /\ bytes'[c] = QueueBytes(queue'[c]) + LockBytes(c)' + HeldBytes(c)'
             /\ bytes'[c] <= ByteLimit(c) /\ bytes'[c] \in Nat
  <2>1. QueueBytes(queue[c]) \in Nat /\ LockBytes(c) \in Nat /\ ByteLimit(c) \in Nat
    BY PartsAreNumbers, Zenon
  <2>2. /\ bytes[c] = QueueBytes(queue[c]) + LockBytes(c) + HeldBytes(c) /\ bytes[c] <= ByteLimit(c)
        /\ queue'[c] = queue[c]
    BY Zenon DEF BytesInv
  <2>3. CASE c = e.class
    BY <1>3, <1>4, <1>5, <1>6, <2>1, <2>2, <2>3
  <2>4. CASE c # e.class
    BY <1>3, <1>5, <1>6, <2>1, <2>2, <2>4
  <2> QED
    BY <2>3, <2>4, Zenon
<1>8. bytes' \in [Classes -> Nat]
  BY <1>2, <1>4, <1>7, Zenon DEF BytesInv
<1> QED
  BY <1>7, <1>8, Zenon DEF BytesInv, ByteLimit

\* Every step keeps the account of the bytes.
LEMMA StepBytes ==
    ASSUME FeedInv, BytesInv, [Next]_vars
    PROVE  BytesInv'
<1>1. ASSUME NEW p \in Producers, NEW class \in Classes, NEW size \in Sizes,
             ForGeneration(p, class, size)
      PROVE  BytesInv'
  <2>1. lock # p /\ lock \in Producers \cup {None} /\ UNCHANGED <<bytes, lock, queue, held>>
    BY <1>1, Zenon DEF ForGeneration, FeedInv, LockIsPushing, ChannelType, At, budgetVars
  <2> QED
    BY <1>1, <2>1, ForGenerationEffect, BytesUntouched, Zenon DEF FeedInv
<1>2. ASSUME NEW p \in Producers, TrySend(p) PROVE BytesInv'
  <2>1. /\ lock # p /\ lock \in Producers \cup {None} /\ UNCHANGED <<bytes, lock, queue, held>>
        /\ Goto(p, "locking") \/ Return(p)
    BY <1>2, Zenon DEF TrySend, FeedInv, LockIsPushing, ChannelType, At, budgetVars
  <2> QED
    BY <2>1, GotoEffect, ReturnEffect, BytesUntouched, Zenon DEF FeedInv
<1>3. ASSUME NEW p \in Producers, Admit(p) PROVE BytesInv'
  <2>1. CASE Admits(producer[p].event)
    BY <1>3, <2>1, AdmitBytes, Zenon
  <2>2. CASE ~Admits(producer[p].event)
    <3>1. lock = None /\ UNCHANGED <<bytes, lock, queue, held>>
      BY <1>3, <2>2, Zenon DEF Admit
    <3> QED
      BY <3>1, BytesUntouched, Zenon
  <2> QED
    BY <2>1, <2>2, Zenon
<1>4. ASSUME NEW p \in Producers, Push(p) PROVE BytesInv'
  BY <1>4, PushBytes, Zenon
<1>5. CASE SetGeneration \/ HandOut \/ CloseReceiver \/ UNCHANGED vars
  <2>1. UNCHANGED <<bytes, lock, queue, held, producer>>
    BY <1>5, Zenon DEF SetGeneration, HandOut, CloseReceiver, vars, budgetVars
  <2> QED
    BY <2>1, BytesUntouched, Zenon
<1>6. ASSUME NEW class \in Classes, NEW next, UNCHANGED <<budgetVars, producer>>, held = {},
             Pop(class, next) \/ UNCHANGED <<queue, held>>
      PROVE  BytesInv'
  BY <1>6, PopBytes, BytesUntouched, Zenon DEF budgetVars
<1>7. CASE PollControl \/ PollMedia \/ Drain
  <2>1. held = {} /\ UNCHANGED <<budgetVars, producer>>
    BY <1>7, Zenon DEF PollControl, PollMedia, Drain, FeedInv, ReceiverIsConsistent
  <2>2. \E class \in Classes, next \in {"popped", receiver} : Pop(class, next) \/ UNCHANGED <<queue, held>>
    BY <1>7, Zenon DEF PollControl, PollMedia, Drain, Classes
  <2> QED
    BY <1>6, <2>1, <2>2, Zenon
<1>8. CASE DropStale \/ Consumed \/ DrainDrop
  BY <1>8, PermitDropBytes, Zenon DEF DropStale, Consumed, DrainDrop
<1> QED
  BY <1>1, <1>2, <1>3, <1>4, <1>5, <1>7, <1>8, Zenon DEF Next, ProducerStep, ReceiverStep

\* A new channel is empty.
LEMMA InitBytes == Init => BytesInv
<1> SUFFICES ASSUME Init PROVE BytesInv
  BY Zenon
<1>1. \A c \in Classes : queue[c] = <<>> /\ LockBytes(c) = 0 /\ HeldBytes(c) = 0 /\ bytes[c] = 0
  BY DEF Init, LockBytes, HeldBytes, InLock, Holds
<1>2. \A c \in Classes : ByteLimit(c) \in Nat
  BY BytesAssumption, Zenon DEF ByteLimit
<1>3. bytes \in [Classes -> Nat]
  BY Zenon DEF Init
<1> QED
  BY <1>1, <1>2, <1>3, QueueBytesEmpty DEF BytesInv

\* Usage.count and Usage.bytes of a class are exactly what its deliveries occupy, wherever
\* they are, and the bytes are within the limit: no permit is lost or returned twice and
\* no subtraction of a permit wraps.
THEOREM BudgetCorrect == Spec => []BudgetIsExact
<1>1. FeedInv /\ BytesInv => BudgetIsExact
  BY Zenon DEF FeedInv, BytesInv, CountIsExact, BudgetIsExact, LockBytes, HeldBytes, QueueBytes
<1>2. FeedInv /\ BytesInv /\ [Next]_vars => BytesInv'
  BY StepBytes, Zenon
<1> QED
  BY <1>1, <1>2, InitBytes, InitFeedInv, StepImplements, PTL DEF Spec

\* What a channel can hold: in particular Drop of Permit, which decrements both counters
\* of Usage, never takes one below zero.
THEOREM ChannelIsTyped == Spec => []TypeOK
<1>1. FeedInv /\ BytesInv => TypeOK
  BY Zenon DEF FeedInv, ChannelType, BytesInv, TypeOK
<1>2. FeedInv /\ BytesInv /\ [Next]_vars => BytesInv'
  BY StepBytes, Zenon
<1> QED
  BY <1>1, <1>2, InitBytes, InitFeedInv, StepImplements, PTL DEF Spec
=============================================================================
