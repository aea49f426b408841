---------------------------- MODULE LidarWorkerPool ----------------------------
(***************************************************************************)
(* datachannel/lidar/service.rs: the threads that decode LiDAR jobs, from  *)
(* their start during the assembly of a session to their end when the last *)
(* handle of the pool is dropped.                                          *)
(*                                                                         *)
(* A worker looks at the epoch before it decodes, and try_send of the      *)
(* event channel looks at it twice more, the second time under the mutex   *)
(* of the budget.  The epoch is an atomic that a reset stores at any time. *)
(* Of the event channel only the media queue is kept, see EventChannel.    *)
(***************************************************************************)
EXTENDS Naturals, Sequences, FiniteSets

CONSTANTS
    Workers,        \* the threads, options.lidar_workers of them
    JobCapacity,    \* bound of the request channel, 4 in the code
    EventSlots,     \* admissions of the media queue
    MaxEpoch,       \* bound: epochs
    MaxHandles,     \* bound: clones of the pool
    Nobody          \* no worker

ASSUME PoolAssumption == /\ IsFiniteSet(Workers) /\ Workers # {} /\ Nobody \notin Workers
                         /\ JobCapacity \in Nat \ {0} /\ EventSlots \in Nat \ {0}

VARIABLES
    phase,          \* how far with_adapters_and_spawner has come
    handles,        \* number of senders of the request channel
    jobs,           \* the request channel
    worker,         \* step of each worker
    job,            \* the request each worker has
    current,        \* the epoch of the event channel
    lock,           \* worker that has the mutex of the budget
    events          \* the media queue: the epoch each event carries

poolVars == <<phase, handles, jobs, worker, job, current, lock, events>>

NoJob == [generation |-> 0]

PoolInit ==
    /\ phase = "workers" /\ handles = 1 /\ jobs = <<>>
    /\ worker = [w \in Workers |-> "none"] /\ job = [w \in Workers |-> NoJob]
    /\ current = 0 /\ lock = Nobody /\ events = <<>>

-----------------------------------------------------------------------------
(* Start: the workers, then the router that gets the pool. *)

SpawnWorker(w) ==
    /\ phase = "workers" /\ worker[w] = "none"
    /\ worker' = [worker EXCEPT ![w] = "recv"]
    /\ phase' = IF \A v \in Workers \ {w} : worker[v] # "none" THEN "router" ELSE "workers"
    /\ UNCHANGED <<handles, jobs, job, current, lock, events>>

\* A thread does not start: the only sender is dropped, then what did start is joined.
SpawnFails ==
    /\ phase \in {"workers", "router"}
    /\ phase' = "joining" /\ handles' = 0
    /\ UNCHANGED <<jobs, worker, job, current, lock, events>>

\* The error is returned once every worker that did start is joined.
StartFailed ==
    /\ phase = "joining" /\ \A w \in Workers : worker[w] \in {"none", "exited"}
    /\ phase' = "failed"
    /\ UNCHANGED <<handles, jobs, worker, job, current, lock, events>>

SpawnRouter ==
    /\ phase = "router"
    /\ phase' = "running"
    /\ UNCHANGED <<handles, jobs, worker, job, current, lock, events>>

-----------------------------------------------------------------------------
(* Handles, resets and the consumer of events. *)

ClonePool ==
    /\ phase = "running" /\ handles \in 1..(MaxHandles - 1)
    /\ handles' = handles + 1
    /\ UNCHANGED <<phase, jobs, worker, job, current, lock, events>>

DropPool ==
    /\ phase = "running" /\ handles > 0
    /\ handles' = handles - 1
    /\ UNCHANGED <<phase, jobs, worker, job, current, lock, events>>

Full == Len(jobs) >= JobCapacity

\* submit: what has a bad geometry or is too large, and what does not fit, is
\* given back as an error and leaves no trace.
Submit(generation) ==
    /\ phase = "running" /\ handles > 0 /\ ~Full
    /\ jobs' = Append(jobs, [generation |-> generation])
    /\ UNCHANGED <<phase, handles, worker, job, current, lock, events>>

SetGeneration ==
    /\ phase = "running" /\ current < MaxEpoch
    /\ current' = current + 1
    /\ UNCHANGED <<phase, handles, jobs, worker, job, lock, events>>

TakeEvent ==
    /\ events # <<>>
    /\ events' = Tail(events)
    /\ UNCHANGED <<phase, handles, jobs, worker, job, current, lock>>

-----------------------------------------------------------------------------
(* A worker. *)

WorkerGoes(w, step) == worker' = [worker EXCEPT ![w] = step]

\* The worker is done with its request and waits for the next one.
NextJob(w) == WorkerGoes(w, "recv") /\ job' = [job EXCEPT ![w] = NoJob]

\* `while let Ok(..)`: the first failing recv ends the worker.
ChannelClosed(w) == WorkerGoes(w, "exited")

\* recv: a job, or the end when every sender is gone and no job is left.
Recv(w) ==
    /\ worker[w] = "recv"
    /\ \/ /\ jobs # <<>>
          /\ job' = [job EXCEPT ![w] = Head(jobs)]
          /\ jobs' = Tail(jobs) /\ WorkerGoes(w, "check")
       \/ /\ jobs = <<>> /\ handles = 0
          /\ ChannelClosed(w)
          /\ UNCHANGED <<jobs, job>>
    /\ UNCHANGED <<phase, handles, current, lock, events>>

CheckGeneration(w) ==
    /\ worker[w] = "check"
    /\ \/ current = job[w].generation /\ WorkerGoes(w, "decode") /\ UNCHANGED job
       \/ current # job[w].generation /\ NextJob(w)
    /\ UNCHANGED <<phase, handles, jobs, current, lock, events>>

\* decode_lidar succeeds or not.
DecodeLidar(w) ==
    /\ worker[w] = "decode"
    /\ (WorkerGoes(w, "send") /\ UNCHANGED job) \/ NextJob(w)
    /\ UNCHANGED <<phase, handles, jobs, current, lock, events>>

\* try_send before the mutex.
TrySend(w) ==
    /\ worker[w] = "send"
    /\ \/ current = job[w].generation /\ WorkerGoes(w, "lock") /\ UNCHANGED job
       \/ current # job[w].generation /\ NextJob(w)
    /\ UNCHANGED <<phase, handles, jobs, current, lock, events>>

\* Mutant: the epoch is not read again under the mutex.
AdmitsBySlot(w) == Len(events) < EventSlots

Admits(w) == current = job[w].generation /\ Len(events) < EventSlots

\* try_send under the mutex.
AdmitEvent(w) ==
    /\ worker[w] = "lock" /\ lock = Nobody
    /\ \/ Admits(w) /\ WorkerGoes(w, "push") /\ lock' = w /\ UNCHANGED job
       \/ ~Admits(w) /\ NextJob(w) /\ UNCHANGED lock
    /\ UNCHANGED <<phase, handles, jobs, current, events>>

\* The event carries the epoch of its job, for_generation(req.generation).
PushEvent(w) ==
    /\ worker[w] = "push"
    /\ events' = Append(events, job[w].generation)
    /\ lock' = Nobody /\ NextJob(w)
    /\ UNCHANGED <<phase, handles, jobs, current>>

WorkerStep(w) ==
    Recv(w) \/ CheckGeneration(w) \/ DecodeLidar(w) \/ TrySend(w) \/ AdmitEvent(w) \/ PushEvent(w)

-----------------------------------------------------------------------------

\* The workers are gone, or the start failed, and all events are taken.
PoolTerminated ==
    /\ phase \in {"running", "failed"} /\ handles = 0 /\ events = <<>>
    /\ \A w \in Workers : worker[w] \in {"none", "exited"}
    /\ UNCHANGED poolVars

PoolNext ==
    \/ \E w \in Workers : SpawnWorker(w)
    \/ SpawnFails \/ StartFailed \/ SpawnRouter
    \/ ClonePool \/ DropPool \/ SetGeneration \/ TakeEvent
    \/ \E generation \in 0..current : Submit(generation)
    \/ \E w \in Workers : WorkerStep(w)
    \/ PoolTerminated

PoolSpec == PoolInit /\ [][PoolNext]_poolVars

\* Every thread runs, the mutex is not withheld from a worker forever, and the
\* start goes on to its end.  Nobody has to submit, drop or consume anything.
PoolFairness ==
    /\ \A w \in Workers : WF_poolVars(WorkerStep(w)) /\ SF_poolVars(AdmitEvent(w))
    /\ WF_poolVars(StartFailed)

-----------------------------------------------------------------------------
(* Properties. *)

\* No worker slips the result of an older epoch in behind one of a later epoch,
\* though several workers finish out of order and the epoch moves under them.
EpochsInOrder ==
    \A i, j \in 1..Len(events) : i < j => events[i] <= events[j]

=============================================================================
