--------------------------- MODULE CallbackDispatch ---------------------------
(***************************************************************************)
(* The Python side: the callback registry, the bridge methods that change  *)
(* it, and the dispatcher thread that calls what it finds there.           *)
(*                                                                         *)
(* Three locks meet here.  A bridge method keeps the GIL while it waits    *)
(* for the registry, and subscribe keeps both while it waits for the       *)
(* lifecycle_lock of the core.  Python code runs in callbacks, conversions *)
(* and the finalizers of released callbacks.  The GIL is free while it     *)
(* runs, since CPython may switch threads anywhere in it, and it may call  *)
(* bridge methods of its own thread again.  That reentrance is modelled to *)
(* a depth of one.                                                         *)
(*                                                                         *)
(* The dispatcher takes deliveries that were current when the event        *)
(* channel handed them out, as EventChannel shows.                         *)
(***************************************************************************)
EXTENDS RepeatLog, Sequences

CONSTANTS
    Threads,            \* Python threads other than the dispatcher
    Topics,             \* topics that can be subscribed to
    Media,              \* the registry keys "video" and "audio"
    MaxRegistrations,   \* bound: callbacks registered
    MaxFailures,        \* bound: callback failures
    MaxSession          \* bound: sessions

\* One table holds the callbacks of topics and of media under their names; no topic is
\* called "video" or "audio".
ASSUME KeysAssumption == Topics \cap Media = {}

ASSUME ThreadsAssumption == Threads \cap {"dispatcher", "core", "free"} = {}

VARIABLES
    session,        \* the current generation
    gil,            \* the thread attached to Python, or "free"
    registryLock,   \* owner of the registry mutex, or "free"
    lifecycleLock,  \* owner of lifecycle_lock: the core, a thread or "free"
    registry,       \* callback_registry: key -> registration id, 0 if none
    nextId,         \* NEXT_ID
    subs,           \* subscriptions of the core
    thread,         \* the bridge method each thread executes
    dispatcher,     \* where the dispatcher is
    delivery,       \* the delivery it holds: key and generation
    copied,         \* the callback it copied, 0 if none
    interpreter,    \* the interpreter can be attached to
    log,            \* one of the nineteen logs of CallbackDiagnostics
    logSession,     \* the generation the diagnostics were reset for
    owed,           \* history: generations of the failures not reported yet
    retired,        \* history: ids of callbacks removed or replaced
    barred,         \* history: those of them that were when the delivery was taken
    converted       \* history: the session when its conversion was over

lockVars == <<gil, registryLock, lifecycleLock>>
tableVars == <<registry, nextId, subs>>
registryVars == <<tableVars, retired>>
logVars == <<log, logSession, owed>>
historyVars == <<barred, converted>>
dispatcherVars == <<dispatcher, delivery, copied, interpreter, historyVars>>

vars == <<session, lockVars, registryVars, thread, dispatcherVars, logVars>>

Keys == Topics \cup Media

Callers == Threads \cup {"dispatcher"}

NoDelivery == [key |-> "", gen |-> 0]

\* refs: the keys whose removed callbacks are to be released; outer: those of the
\* method a finalizer interrupted.
Methods == [pc : {"idle", "registry", "lifecycle", "change", "drop"},
            op : {"none", "subscribe", "unsubscribe", "register", "clear"},
            key : Keys \cup {""}, refs : SUBSET Keys, nested : BOOLEAN, outer : SUBSET Keys]

Idle == [pc |-> "idle", op |-> "none", key |-> "", refs |-> {}, nested |-> FALSE, outer |-> {}]

TypeOK ==
    /\ session \in Nat /\ gil \in Callers \cup {"free"}
    /\ registryLock \in Callers \cup {"free"} /\ lifecycleLock \in Callers \cup {"core", "free"}
    /\ registry \in [Keys -> Nat] /\ nextId \in Nat /\ subs \subseteq Topics
    /\ thread \in [Callers -> Methods]
    /\ dispatcher \in {"recv", "attach", "first", "lookup", "convert", "second", "admitted", "calling", "ended"}
    /\ delivery \in [key : Keys \cup {""}, gen : Nat] /\ copied \in Nat
    /\ interpreter \in BOOLEAN
    /\ log \in Logs /\ logSession \in Nat /\ owed \in Seq(Nat)
    /\ retired \subseteq Nat /\ barred \subseteq Nat /\ converted \in Nat

Init ==
    /\ session = 1
    /\ gil = "free" /\ registryLock = "free" /\ lifecycleLock = "free"
    /\ registry = [k \in Keys |-> 0] /\ nextId = 1 /\ subs = {} /\ retired = {}
    /\ thread = [t \in Callers |-> Idle]
    /\ dispatcher = "recv" /\ delivery = NoDelivery /\ copied = 0 /\ interpreter = TRUE
    /\ log = NewLog /\ logSession = 0 /\ owed = <<>> /\ barred = {} /\ converted = 0

-----------------------------------------------------------------------------
(* Bridge methods: subscribe, unsubscribe, on_audio and on_frame ("register") *)
(* and clear_callbacks.                                                       *)

Operations == [op : {"subscribe", "unsubscribe"}, key : Topics]
              \cup [op : {"register"}, key : Media] \cup {[op |-> "clear", key |-> ""]}

Enter(t, o) == thread' = [thread EXCEPT ![t].pc = "registry", ![t].op = o.op, ![t].key = o.key]

\* Python code calls a method; in the dispatcher a conversion or a callback does.
Call(t, o) ==
    /\ thread[t].pc = "idle" /\ gil = "free" /\ interpreter
    /\ t = "dispatcher" => dispatcher \in {"convert", "calling"}
    /\ nextId <= MaxRegistrations \/ o.op \in {"unsubscribe", "clear"}
    /\ gil' = t
    /\ Enter(t, o)
    /\ UNCHANGED <<session, registryLock, lifecycleLock, registryVars, dispatcherVars, logVars>>

LockRegistry(t) ==
    /\ thread[t].pc = "registry"
    /\ registryLock = "free" /\ registryLock' = t
    /\ thread' = [thread EXCEPT ![t].pc = IF thread[t].op \in {"subscribe", "unsubscribe"}
                                          THEN "lifecycle" ELSE "change"]
    /\ UNCHANGED <<session, gil, lifecycleLock, registryVars, dispatcherVars, logVars>>

Forget(key) == registry' = [registry EXCEPT ![key] = 0] /\ UNCHANGED nextId

Insert(key) ==
    /\ registry' = [registry EXCEPT ![key] = nextId]
    /\ nextId' = nextId + 1

Dropping(t, refs) == [thread[t] EXCEPT !.pc = "drop", !.op = "none", !.key = "", !.refs = refs]

\* The method has done its work under the lock; what it replaced is released next.
LeaveRegistry(t, refs) ==
    /\ registryLock' = "free" /\ gil' = "free"
    /\ thread' = [thread EXCEPT ![t] = Dropping(t, refs)]

\* Mutant: the callback is registered before the core accepted the subscription.
InsertFirst(t) ==
    /\ registryLock' = "free" /\ gil' = "free"
    /\ thread' = [thread EXCEPT ![t] = Dropping(t, {})]
    /\ IF thread[t].op = "subscribe" THEN Insert(thread[t].key) ELSE UNCHANGED <<registry, nextId>>
    /\ UNCHANGED retired

\* service.subscribe or unsubscribe failed: the registry stays as it was.
Refused(t) == LeaveRegistry(t, {}) /\ UNCHANGED <<registry, nextId, retired>>

\* service.subscribe and unsubscribe, with lifecycle_lock for their duration.
CallCore(t) ==
    /\ thread[t].pc = "lifecycle" /\ lifecycleLock = "free"
    /\ \/ /\ subs' = IF thread[t].op = "subscribe" THEN subs \cup {thread[t].key}
                                                   ELSE subs \ {thread[t].key}
          /\ thread' = [thread EXCEPT ![t].pc = "change"]
          /\ UNCHANGED <<gil, registryLock, registry, nextId, retired>>
       \/ Refused(t) /\ UNCHANGED subs
    /\ UNCHANGED <<session, lifecycleLock, dispatcherVars, logVars>>

References(keys) == {k \in keys : registry[k] # 0}

\* Mutant: the replaced callback is released while the registry is locked.
ReleaseUnderLock(t, refs) ==
    /\ registryLock' = (IF refs # {} THEN t ELSE "free") /\ gil' = "free"
    /\ thread' = [thread EXCEPT ![t] = Dropping(t, refs)]

\* The references are released after the lock.
ReleaseAfterLock(t, refs) == LeaveRegistry(t, refs)

\* The keys whose callbacks a method removes or replaces.
Scope(t) == IF thread[t].op = "clear" THEN Keys ELSE {thread[t].key}

ChangeRegistry(t) ==
    LET key == thread[t].key IN
    /\ thread[t].pc = "change"
    /\ retired' = retired \cup {registry[k] : k \in References(Scope(t))}
    /\ CASE thread[t].op \in {"subscribe", "register"} ->
              Insert(key) /\ ReleaseAfterLock(t, References({key}))
         [] thread[t].op = "unsubscribe" ->
              Forget(key) /\ ReleaseAfterLock(t, References({key}))
         [] thread[t].op = "clear" ->
              /\ registry' = [k \in Keys |-> 0] /\ UNCHANGED nextId
              /\ ReleaseAfterLock(t, References(Keys))
    /\ UNCHANGED <<session, lifecycleLock, subs, dispatcherVars, logVars>>

\* One reference is released; its finalizer may call a method in turn.
ReleaseReference(t) ==
    /\ thread[t].pc = "drop" /\ gil = "free"
    /\ \E k \in thread[t].refs :
          \/ thread' = [thread EXCEPT ![t].refs = @ \ {k}] /\ UNCHANGED gil
          \/ /\ ~thread[t].nested
             /\ \E o \in Operations :
                  /\ nextId <= MaxRegistrations \/ o.op \in {"unsubscribe", "clear"}
                  /\ thread' = [thread EXCEPT ![t] = [pc |-> "registry", op |-> o.op, key |-> o.key,
                                  refs |-> {}, nested |-> TRUE, outer |-> thread[t].refs \ {k}]]
             /\ gil' = t
    /\ UNCHANGED <<session, registryLock, lifecycleLock, registryVars, dispatcherVars, logVars>>

Return(t) ==
    /\ thread[t].pc = "drop" /\ thread[t].refs = {} /\ gil = "free"
    /\ thread' = [thread EXCEPT ![t] =
                    IF thread[t].nested THEN [Idle EXCEPT !.pc = "drop", !.refs = thread[t].outer]
                                        ELSE Idle]
    /\ UNCHANGED <<session, lockVars, registryVars, dispatcherVars, logVars>>

MethodStep(t) == \/ LockRegistry(t) \/ CallCore(t) \/ ChangeRegistry(t)
                 \/ ReleaseReference(t) \/ Return(t)

-----------------------------------------------------------------------------
(* The core: the router and the resets work under lifecycle_lock and never    *)
(* wait for Python.                                                           *)

CoreLocks ==
    /\ lifecycleLock = "free" /\ lifecycleLock' = "core"
    /\ UNCHANGED <<session, gil, registryLock, registryVars, thread, dispatcherVars, logVars>>

CoreUnlocks ==
    /\ lifecycleLock = "core" /\ lifecycleLock' = "free"
    /\ session' \in {session, session + 1} /\ session' <= MaxSession
    /\ UNCHANGED <<gil, registryLock, registryVars, thread, dispatcherVars, logVars>>

-----------------------------------------------------------------------------
(* Diagnostics.  The logs of the stages and error classes behave alike and    *)
(* independently, so one of them is followed; a failure may belong to another. *)

\* A log line for outcome.count failures, the oldest ones.
Emit(outcome, failures) ==
    /\ log' = outcome.log
    /\ owed' = SubSeq(failures, outcome.count + 1, Len(failures))

\* report and attachment.record.
Report ==
    \/ UNCHANGED logVars
    \/ /\ Len(owed) < MaxFailures
       /\ Emit(RecordAt(log), Append(owed, delivery.gen))
       /\ UNCHANGED logSession

WindowPasses ==
    /\ log.last = "recent" /\ log' = WindowPassed(log)
    /\ UNCHANGED <<session, lockVars, registryVars, thread, dispatcherVars, logSession, owed>>

\* CallbackDiagnostics::reset: every log, then the generation.
ResetDiagnostics(gen) == Emit(ResetLog(log), owed) /\ logSession' = gen

-----------------------------------------------------------------------------
(* The dispatcher. *)

\* recv_delivery; the diagnostics belong to one generation.
Receive(key) ==
    /\ dispatcher = "recv" /\ dispatcher' = "attach"
    /\ delivery' = [key |-> key, gen |-> session]
    /\ barred' = retired /\ converted' = 0
    /\ IF logSession = session THEN UNCHANGED logVars ELSE ResetDiagnostics(session)
    /\ UNCHANGED <<session, lockVars, registryVars, thread, copied, interpreter>>

Done ==
    /\ dispatcher' = "recv" /\ delivery' = NoDelivery /\ copied' = 0 /\ barred' = {} /\ converted' = 0
    /\ gil' = "free"

Continue(step) == dispatcher' = step /\ UNCHANGED <<delivery, copied, barred>>

Attach ==
    /\ dispatcher = "attach"
    /\ gil = "free"
    /\ \/ interpreter /\ gil' = "dispatcher" /\ Continue("first") /\ UNCHANGED <<converted, logVars>>
       \/ ~interpreter /\ Report /\ Done
    /\ UNCHANGED <<session, registryLock, lifecycleLock, registryVars, thread, interpreter>>

IsCurrent == delivery.gen = session

CheckFirst ==
    /\ dispatcher = "first"
    /\ IF IsCurrent THEN Continue("lookup") /\ UNCHANGED <<gil, converted>> ELSE Done
    /\ UNCHANGED <<session, registryLock, lifecycleLock, registryVars, thread, interpreter, logVars>>

\* The copy is made under the registry lock, which no waiting Python thread holds.
Lookup ==
    /\ dispatcher = "lookup" /\ registryLock = "free"
    /\ IF registry[delivery.key] = 0 THEN Done
       ELSE /\ copied' = registry[delivery.key]
            /\ dispatcher' = "convert" /\ gil' = "free" /\ UNCHANGED <<delivery, historyVars>>
    /\ UNCHANGED <<session, registryLock, lifecycleLock, registryVars, thread, interpreter, logVars>>

ReturnsFrom(step) == dispatcher = step /\ thread["dispatcher"].pc = "idle" /\ gil = "free"

Convert ==
    /\ ReturnsFrom("convert")
    /\ \/ Continue("second") /\ gil' = "dispatcher" /\ converted' = session /\ UNCHANGED logVars
       \/ Report /\ Done
    /\ UNCHANGED <<session, registryLock, lifecycleLock, registryVars, thread, interpreter>>

\* Mutant: the conversion is not followed by a second check.
AlwaysCurrent == TRUE

StillCurrent == IsCurrent

Admit ==
    /\ dispatcher = "second"
    /\ IF StillCurrent THEN Continue("admitted") /\ UNCHANGED <<gil, converted>> ELSE Done
    /\ UNCHANGED <<session, registryLock, lifecycleLock, registryVars, thread, interpreter, logVars>>

\* call1: the core does not need the GIL and may have ended the session meanwhile.
StartCallback ==
    /\ dispatcher = "admitted"
    /\ Continue("calling") /\ gil' = "free" /\ UNCHANGED converted
    /\ UNCHANGED <<session, registryLock, lifecycleLock, registryVars, thread, interpreter, logVars>>

CallbackReturns ==
    /\ ReturnsFrom("calling")
    /\ UNCHANGED logVars \/ Report
    /\ Done
    /\ UNCHANGED <<session, registryLock, lifecycleLock, registryVars, thread, interpreter>>

\* The event channel is closed; dropping the diagnostics flushes them.
End ==
    /\ dispatcher = "recv" /\ dispatcher' = "ended"
    /\ Emit(Flush(log), owed)
    /\ UNCHANGED <<session, lockVars, registryVars, thread, delivery, copied, interpreter,
                   historyVars, logSession>>

DispatchStep == Attach \/ CheckFirst \/ Lookup \/ Convert \/ Admit \/ StartCallback \/ CallbackReturns

\* The interpreter shuts down while no bridge method runs.
Finalize ==
    /\ interpreter /\ interpreter' = FALSE
    /\ gil = "free" /\ \A t \in Callers : thread[t].pc = "idle"
    /\ dispatcher \in {"recv", "attach", "ended"}
    /\ UNCHANGED <<session, lockVars, registryVars, thread, dispatcher, delivery, copied, historyVars,
                   logVars>>

-----------------------------------------------------------------------------

Next ==
    \/ \E t \in Callers : \/ \E o \in Operations : Call(t, o)
                          \/ MethodStep(t)
    \/ CoreLocks \/ CoreUnlocks \/ WindowPasses
    \/ \E key \in Keys : Receive(key)
    \/ DispatchStep \/ End \/ Finalize

\* Threads are scheduled, the GIL and the mutexes are passed on to waiting threads,
\* and the core never keeps lifecycle_lock while it waits.
Fairness ==
    /\ \A t \in Callers : SF_vars(MethodStep(t))
    /\ WF_vars(CoreUnlocks)
    /\ WF_vars(CheckFirst \/ Lookup \/ Admit \/ StartCallback)

Spec == Init /\ [][Next]_vars /\ Fairness

-----------------------------------------------------------------------------

\* A reset that comes while a delivery waits for the GIL, for the registry or for its
\* conversion keeps the callback from being called: when a callback starts, the session
\* of its delivery had still been the current one after the conversion.  Only a reset
\* between the second check of dispatch_callback and call1 comes too late.  And once
\* clear_callbacks, unsubscribe or a replacement is through with the registry, no
\* delivery taken later reaches the old callback.
CallbacksAreCurrent ==
    [][dispatcher' = "calling" /\ dispatcher # "calling"
          => converted = delivery.gen /\ copied \notin barred]_vars

\* A topic with a callback is subscribed in the core, whenever the registry can be
\* looked at, although the core may refuse the subscription half way.
RegisteredIsSubscribed ==
    registryLock = "free" => \A topic \in Topics : registry[topic] # 0 => topic \in subs

\* Every failure is in exactly one report, and a report that names a generation counts
\* only failures of that generation: what is pending is what no line has told yet.
FailuresAreReportedOnce ==
    /\ Len(owed) = log.pending
    /\ \A i \in DOMAIN owed : owed[i] = logSession

\* Every bridge method returns: neither the order of the GIL, the registry and
\* lifecycle_lock nor a finalizer that calls a method again can block it for ever.
MethodsReturn == \A t \in Callers : thread[t].pc # "idle" ~> thread[t].pc = "idle"
=============================================================================
