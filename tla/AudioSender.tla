------------------------------ MODULE AudioSender ------------------------------
(***************************************************************************)
(* audio/transmit/service.rs: one playback.  Five threads share it: the    *)
(* owner, who plays, pauses, stops and drops it; the GStreamer streaming   *)
(* thread, which hands samples to a bounded queue; the tokio task that     *)
(* writes them to the track; the bus thread, which shuts playback down on  *)
(* an error; and whoever completes the shutdown.                           *)
(*                                                                         *)
(* is_playing and bus_running are atomics without a lock around them, so   *)
(* every load and store is a step.  The owner makes one call at a time.    *)
(* The owner's sender rtp_tx closes nothing when it is dropped, because    *)
(* the callback of the appsink keeps a clone, and is left out, as are the *)
(* errors that calls return.                                              *)
(***************************************************************************)
EXTENDS Naturals, Sequences

CONSTANTS
    QueueCapacity,  \* bound of the RTP channel, 8 in the code
    MaxMessages,    \* bound: messages waiting on the GStreamer bus
    MaxPlays,       \* bound: calls of play
    MaxPauses,      \* bound: calls of pause
    Endings         \* the calls that may end playback

AllEndings == {"stop", "shutdown", "drop", "dropOutsideRuntime"}

ASSUME BoundsAssumption == QueueCapacity \in Nat \ {0} /\ MaxMessages \in Nat \ {0}

ASSUME EndingsAssumption == Endings \subseteq AllEndings

VARIABLES
    isPlaying,      \* is_playing
    busRunning,     \* bus_running
    nativeShutdown, \* native_shutdown
    pipeline,       \* state of the pipeline
    messages,       \* messages waiting on its bus
    stream,         \* step of the streaming thread
    queue,          \* number of packets in the RTP channel
    task,           \* step of the RTP task
    aborted,        \* abort was called on the task
    bus,            \* step of the bus thread, "failed" when an error ended it
    owner,          \* step of the owner
    ending,         \* the call that ends playback
    plays, pauses   \* calls made so far

flagVars == <<isPlaying, busRunning, nativeShutdown>>
nativeVars == <<pipeline, messages, stream>>
taskVars == <<queue, task, aborted>>
callVars == <<ending, plays, pauses>>

playbackVars == <<flagVars, nativeVars, taskVars, bus, owner, callVars>>

PlaySteps == {"publish", "setPlaying", "unpublish", "recheck"}

EndSteps == {"lowerBus", "abort", "setNull", "join", "await"}

PlaybackInit ==
    /\ isPlaying = FALSE /\ busRunning = TRUE /\ nativeShutdown = FALSE
    /\ pipeline = "null" /\ messages = <<>> /\ stream = "idle"
    /\ queue = 0 /\ task = "recv" /\ aborted = FALSE
    /\ bus = "loop" /\ owner = "idle" /\ ending = "none"
    /\ plays = 0 /\ pauses = 0

-----------------------------------------------------------------------------
(* The GStreamer pipeline, as the code uses it.  Going to NULL waits for the *)
(* streaming thread and flushes the bus.                                     *)

SetNull ==
    /\ stream # "send"
    /\ pipeline' = "null" /\ messages' = <<>> /\ stream' = "idle"

Post(message) ==
    /\ pipeline # "null" /\ Len(messages) < MaxMessages
    /\ messages' = Append(messages, message)
    /\ UNCHANGED <<flagVars, pipeline, stream, taskVars, bus, owner, callVars>>

-----------------------------------------------------------------------------
(* The streaming thread: the new_sample callback of the appsink. *)

\* A sample that arrives while is_playing is false is not even pulled.
NewSample ==
    /\ pipeline = "playing" /\ stream = "idle" /\ isPlaying
    /\ stream' = "send"
    /\ UNCHANGED <<flagVars, pipeline, messages, taskVars, bus, owner, callVars>>

Enqueue == queue' = IF queue < QueueCapacity THEN queue + 1 ELSE queue

\* try_send: a full channel drops the packet, a closed one (the task is gone)
\* breaks the stream, which GStreamer reports on the bus.
SendSample ==
    /\ stream = "send"
    /\ \/ /\ task # "done"
          /\ stream' = "idle" /\ Enqueue
          /\ UNCHANGED messages
       \/ /\ task = "done"
          /\ stream' = "broken"
          /\ messages' = IF Len(messages) < MaxMessages THEN Append(messages, "error") ELSE messages
          /\ UNCHANGED queue
    /\ UNCHANGED <<flagVars, pipeline, task, aborted, bus, owner, callVars>>

-----------------------------------------------------------------------------
(* The RTP task. *)

\* recv: a packet that does not parse is skipped.
ReceiveSample ==
    /\ task = "recv" /\ queue > 0
    /\ queue' = queue - 1
    /\ task' \in {"recv", "write"}
    /\ UNCHANGED <<flagVars, nativeVars, aborted, bus, owner, callVars>>

\* The packet is due and written; a failure is only counted.
WriteRtp ==
    /\ task = "write"
    /\ task' = "recv"
    /\ UNCHANGED <<flagVars, nativeVars, queue, aborted, bus, owner, callVars>>

\* The abort takes effect at an await; the receiver goes with the task.
TaskCancelled ==
    /\ aborted /\ task # "done"
    /\ task' = "done" /\ queue' = 0
    /\ UNCHANGED <<flagVars, nativeVars, aborted, bus, owner, callVars>>

-----------------------------------------------------------------------------
(* The bus thread. *)

BusCheck ==
    /\ bus = "loop"
    /\ bus' = IF busRunning THEN "pop" ELSE "exited"
    /\ UNCHANGED <<flagVars, nativeVars, taskVars, owner, callVars>>

\* timed_pop: nothing for half a second, or the oldest message.  The end of the
\* stream ends the thread and leaves both flags as they are.
BusPop ==
    /\ bus = "pop"
    /\ \/ /\ messages = <<>>
          /\ bus' = "loop" /\ UNCHANGED <<messages, isPlaying>>
       \/ /\ messages # <<>>
          /\ messages' = Tail(messages)
          /\ \/ Head(messages) = "error" /\ isPlaying' = FALSE /\ bus' = "lowerBus"
             \/ Head(messages) = "warning" /\ bus' = "loop" /\ UNCHANGED isPlaying
             \/ Head(messages) = "eos" /\ bus' = "exited" /\ UNCHANGED isPlaying
    /\ UNCHANGED <<busRunning, nativeShutdown, pipeline, stream, taskVars, owner, callVars>>

BusLowers ==
    /\ bus = "lowerBus"
    /\ busRunning' = FALSE /\ bus' = "abort"
    /\ UNCHANGED <<isPlaying, nativeShutdown, nativeVars, taskVars, owner, callVars>>

BusAborts ==
    /\ bus = "abort"
    /\ aborted' = TRUE /\ bus' = "setNull"
    /\ UNCHANGED <<flagVars, nativeVars, queue, task, owner, callVars>>

\* A state change that fails is only logged.
BusSetsNull ==
    /\ bus = "setNull"
    /\ SetNull \/ (stream # "send" /\ UNCHANGED nativeVars)
    /\ bus' = "failed"
    /\ UNCHANGED <<flagVars, taskVars, owner, callVars>>

BusStep == BusCheck \/ BusPop \/ BusLowers \/ BusAborts \/ BusSetsNull

-----------------------------------------------------------------------------
(* play and pause. *)

Play ==
    /\ owner = "idle" /\ plays < MaxPlays
    /\ plays' = plays + 1
    /\ owner' = IF busRunning THEN "publish" ELSE "idle"
    /\ UNCHANGED <<flagVars, nativeVars, taskVars, bus, ending, pauses>>

PublishPlaying ==
    /\ owner = "publish"
    /\ isPlaying' = TRUE /\ owner' = "setPlaying"
    /\ UNCHANGED <<busRunning, nativeShutdown, nativeVars, taskVars, bus, callVars>>

\* A state change that fails may leave the pipeline half started.
SetPlaying ==
    /\ owner = "setPlaying"
    /\ \/ pipeline' = "playing" /\ owner' = "recheck"
       \/ pipeline' \in {pipeline, "paused"} /\ owner' = "unpublish"
    /\ UNCHANGED <<flagVars, messages, stream, taskVars, bus, callVars>>

Unpublish ==
    /\ owner = "unpublish"
    /\ isPlaying' = FALSE /\ owner' = "idle"
    /\ UNCHANGED <<busRunning, nativeShutdown, nativeVars, taskVars, bus, callVars>>

\* Mutant: playing is published after the state change.
PublishLate ==
    /\ owner = "recheck"
    /\ isPlaying' = TRUE /\ owner' = "idle"
    /\ UNCHANGED <<busRunning, nativeShutdown, nativeVars, taskVars, bus, callVars>>

\* play returns Ok or Err by bus_running, and changes nothing more.
Recheck ==
    /\ owner = "recheck"
    /\ owner' = "idle"
    /\ UNCHANGED <<flagVars, nativeVars, taskVars, bus, callVars>>

\* pause looks at no flag before the state change.
Pause ==
    /\ owner = "idle" /\ pauses < MaxPauses
    /\ pauses' = pauses + 1
    /\ \/ pipeline' = "paused" /\ owner' = "pausing"
       \/ pipeline' = pipeline /\ owner' = "idle"
    /\ UNCHANGED <<flagVars, messages, stream, taskVars, bus, ending, plays>>

Paused ==
    /\ owner = "pausing"
    /\ isPlaying' = FALSE /\ owner' = "idle"
    /\ UNCHANGED <<busRunning, nativeShutdown, nativeVars, taskVars, bus, callVars>>

-----------------------------------------------------------------------------
(* stop, shutdown and drop share take_native_shutdown. *)

EndPlayback(call) ==
    /\ owner = "idle"
    /\ isPlaying' = FALSE /\ owner' = "lowerBus"
    /\ ending' = call
    /\ UNCHANGED <<busRunning, nativeShutdown, nativeVars, taskVars, bus, plays, pauses>>

\* Mutant: the bus thread is not told to leave.
LeaveRunning ==
    /\ owner = "lowerBus"
    /\ owner' = "abort"
    /\ UNCHANGED <<flagVars, nativeVars, taskVars, bus, callVars>>

LowerBus ==
    /\ owner = "lowerBus"
    /\ busRunning' = FALSE /\ owner' = "abort"
    /\ UNCHANGED <<isPlaying, nativeShutdown, nativeVars, taskVars, bus, callVars>>

\* complete_audio_shutdown awaits the task after the native part; stop leaves
\* the task to a later call, and a drop without a runtime to itself.  A drop
\* within the runtime returns at once and leaves the rest to a task it spawns:
\* its steps here are those of that task, and "gone" is when the task is over.
AfterNative ==
    CASE ending = "stop" -> "idle"
      [] ending = "dropOutsideRuntime" -> "gone"
      [] OTHER -> "await"

\* The abort, and the native shutdown if no earlier call has taken it.
AbortTask ==
    /\ owner = "abort"
    /\ aborted' = TRUE /\ nativeShutdown' = TRUE
    /\ owner' = IF nativeShutdown THEN AfterNative ELSE "setNull"
    /\ UNCHANGED <<isPlaying, busRunning, nativeVars, queue, task, bus, callVars>>

\* Mutant: a failed state change skips the join.
StopFails == owner' = AfterNative

\* join_audio_bus joins the bus thread even if the state change failed.
AfterStop == owner' = "join"

\* NativeAudioShutdown::stop.
StopNative ==
    /\ owner = "setNull"
    /\ \/ SetNull /\ owner' = "join"
       \/ stream # "send" /\ AfterStop /\ UNCHANGED nativeVars
    /\ UNCHANGED <<flagVars, taskVars, bus, callVars>>

JoinBus ==
    /\ owner = "join" /\ bus \in {"exited", "failed"}
    /\ owner' = AfterNative
    /\ UNCHANGED <<flagVars, nativeVars, taskVars, bus, callVars>>

AwaitTask ==
    /\ owner = "await" /\ task = "done"
    /\ owner' = "gone"
    /\ UNCHANGED <<flagVars, nativeVars, taskVars, bus, callVars>>

OwnerRuns ==
    \/ PublishPlaying \/ SetPlaying \/ Unpublish \/ Recheck \/ Paused
    \/ LowerBus \/ AbortTask \/ StopNative \/ JoinBus \/ AwaitTask

-----------------------------------------------------------------------------

\* Nothing is left to happen once the owner and both workers are gone.
Terminated ==
    /\ owner = "gone" /\ task = "done" /\ bus \in {"exited", "failed"}
    /\ UNCHANGED playbackVars

PlaybackNext ==
    \/ \E message \in {"error", "warning", "eos"} : Post(message)
    \/ NewSample \/ SendSample
    \/ ReceiveSample \/ WriteRtp \/ TaskCancelled
    \/ BusStep
    \/ Play \/ Pause \/ OwnerRuns
    \/ \E call \in Endings : EndPlayback(call)
    \/ Terminated

PlaybackSpec == PlaybackInit /\ [][PlaybackNext]_playbackVars

-----------------------------------------------------------------------------
(* Properties. *)

\* When stop, shutdown or drop is over, its bus thread has been joined, also if
\* the state change failed or the thread was in the middle of an error, and for
\* shutdown and a drop within the runtime the RTP task is over too, so that
\* nothing is written to the track afterwards.  Such a drop is over when the task
\* it spawned has completed, not when AudioSender::drop returns.
WorkersAreJoined ==
    /\ owner = "gone" => bus \in {"exited", "failed"}
    /\ owner = "idle" /\ nativeShutdown => bus \in {"exited", "failed"}
    /\ owner = "gone" /\ ending \in {"shutdown", "drop"} => task = "done"

\* "Publish playing before state change so an asynchronous bus failure wins the
\* race" (play): once the bus thread has shut playback down for an error, no
\* call that has returned leaves is_playing set.  Stated for a sender that is
\* played once and never paused, as UnitreeSession uses it: the pipeline has not
\* run before, so the only error that can race with play is one of this play.  For
\* a pipeline that runs already it does not hold: the error may be handled between
\* the check of bus_running and the store of is_playing.
FirstFailureWins ==
    plays <= 1 /\ pauses = 0 /\ bus = "failed" /\ owner = "idle" => ~isPlaying

\* stop, shutdown and drop come to an end: the bus thread they join and the task
\* they await are told to leave first.  An error that the bus thread takes from the
\* bus ends the RTP task too, which may be waiting for packets that never come.
EndingsReturn ==
    /\ owner \in EndSteps ~> owner \in {"idle", "gone"}
    /\ bus = "lowerBus" ~> task = "done"
=============================================================================
