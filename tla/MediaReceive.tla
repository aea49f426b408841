----------------------------- MODULE MediaReceive -----------------------------
(***************************************************************************)
(* The two media handlers of a peer: spawn_video_handler with the GStreamer *)
(* H264 decoder it feeds, and spawn_audio_handler.  A handler is a task     *)
(* that reads its remote track, decodes, and offers frames to the callback  *)
(* channel.                                                                 *)
(*                                                                          *)
(* The units that the reassembler of H264Reassembler completes are numbered *)
(* 1, 2, ...  The decoder runs in the streaming thread of GStreamer, which  *)
(* takes encoded buffers out of appsrc, fails at any time, and posts its    *)
(* failures on the bus.  decode() is split wherever that thread can step in *)
(* between.                                                                 *)
(***************************************************************************)
EXTENDS Integers, Sequences, Functions

CONSTANTS
    MaxBuffers,     \* MAX_ENCODED_BUFFERS
    MaxBytes,       \* MAX_ENCODED_BYTES
    StartCode,      \* bytes of the Annex B start code
    UnitSizes,      \* sizes of the units the reassembler may return
    FrameSlots,     \* bound of the channel of decoded frames
    CounterWrap,    \* values of the usize queued_buffers
    MaxUnits        \* bound: units received

ASSUME DecoderAssumption ==
    /\ MaxBuffers \in Nat \ {0} /\ MaxBytes \in Nat /\ StartCode \in Nat
    /\ UnitSizes \subseteq Nat \ {0} /\ FrameSlots \in Nat /\ MaxUnits \in Nat
    /\ CounterWrap \in Nat /\ CounterWrap > MaxBuffers + 1

VARIABLES
    video,          \* where the video handler is
    read,           \* the packet the pinned read has consumed, or NoUnit
    unit,           \* the unit decode() was called with
    received,       \* units received from the track
    counter,        \* queued_buffers
    appsrc,         \* encoded buffers queued in appsrc
    popped,         \* a buffer taken out of appsrc, before the pad probe saw it
    decoded,        \* number of the last unit that reached the decoder
    decoderBus,     \* terminal message waiting on the bus: "none", "error" or "eos"
    terminal,       \* terminal_error
    frames,         \* decoded frames in the bounded channel
    audio,          \* where the audio handler is
    tracks,         \* the remote tracks that still deliver
    receiver        \* the callback event receiver exists

decoderVars == <<counter, appsrc, popped, decoded, decoderBus, terminal, frames>>

mediaVars == <<video, read, unit, received, decoderVars, audio, tracks, receiver>>

NoUnit == [id |-> 0, size |-> 0]

\* A packet that completes no unit: a fragment, or one the reassembler rejects.
Fragment == [id |-> 0, size |-> 1]

Units == [id : Nat, size : UnitSizes]

Decoding == {"check", "count", "level", "admitted", "counted", "pushed", "frame", "offer"}

MediaInit ==
    /\ video = "start" /\ read = NoUnit /\ unit = NoUnit /\ received = 0
    /\ counter = 0 /\ appsrc = <<>> /\ popped = FALSE /\ decoded = 0
    /\ decoderBus = "none" /\ terminal = "none" /\ frames = 0
    /\ audio = "start" /\ tracks = {"video", "audio"} /\ receiver = TRUE

-----------------------------------------------------------------------------
(* Start and end of the video handler. *)

Plugins == {"nvv4l2decoder", "avdec_h264"}

\* detect_h264_decoder: the plugin the environment asks for, or the first of the
\* two that is installed; "" when there is none or the request is unknown.
DetectH264Decoder(requested, installed) ==
    LET choices == IF requested \in {"", "auto"} THEN Plugins ELSE {requested} \cap Plugins
        usable  == choices \cap installed
    IN  IF usable = {} THEN ""
        ELSE IF "nvv4l2decoder" \in usable THEN "nvv4l2decoder" ELSE "avdec_h264"

\* H264Decoder::new: without a plugin, or when a part of the pipeline cannot be
\* made, the handler returns.
StartVideo ==
    /\ video = "start"
    /\ \E requested \in Plugins \cup {"auto", "other"}, installed \in SUBSET Plugins,
          launched \in BOOLEAN :
         video' = IF DetectH264Decoder(requested, installed) # "" /\ launched
                  THEN "read" ELSE "done"
    /\ UNCHANGED <<read, unit, received, decoderVars, audio, tracks, receiver>>

\* PeerResources aborts the task, which takes effect at its await.
AbortVideo ==
    /\ video \in {"start", "read"} /\ video' = "done"
    /\ UNCHANGED <<read, unit, received, decoderVars, audio, tracks, receiver>>

-----------------------------------------------------------------------------
(* The select of the read and the health poll. *)

\* The read consumes the next packet of the track; it completes unit n or none.
ReadConsumes ==
    /\ video = "read" /\ read = NoUnit
    /\ "video" \in tracks
    /\ \/ /\ received < MaxUnits /\ received' = received + 1
          /\ \E size \in UnitSizes : read' = [id |-> received', size |-> size]
       \/ read' = Fragment /\ UNCHANGED received
    /\ UNCHANGED <<video, unit, decoderVars, audio, tracks, receiver>>

ReadReturns ==
    /\ video = "read" /\ read # NoUnit
    /\ read' = NoUnit
    /\ IF read = Fragment THEN UNCHANGED <<video, unit>>
       ELSE video' = "check" /\ unit' = read
    /\ UNCHANGED <<received, decoderVars, audio, tracks, receiver>>

ReadFails ==
    /\ video = "read" /\ read = NoUnit /\ "video" \notin tracks
    /\ video' = "done"
    /\ UNCHANGED <<read, unit, received, decoderVars, audio, tracks, receiver>>

\* check_health: a terminal error stays; otherwise the bus is popped.
CheckHealth(healthy) ==
    /\ terminal' = IF terminal # "none" \/ decoderBus = "none" THEN terminal
                   ELSE IF decoderBus = "eos" THEN "eos" ELSE "pipeline"
    /\ decoderBus' = IF terminal = "none" THEN "none" ELSE decoderBus
    /\ video' = IF terminal' = "none" THEN healthy ELSE "done"

\* Mutant: a failure is noticed only by the next decode().
IgnoreHealth == UNCHANGED <<video, read, terminal, decoderBus>>

\* Mutant: a tick cancels the read, and with it the packet it has consumed.
CancelRead == CheckHealth("read") /\ read' = NoUnit

\* The tick of health_poll; the read stays alive.
PollHealth == CheckHealth("read") /\ UNCHANGED read

HealthTick ==
    /\ video = "read"
    /\ PollHealth
    /\ UNCHANGED <<unit, received, counter, appsrc, popped, decoded, frames, audio, tracks,
                   receiver>>

-----------------------------------------------------------------------------
(* decode. *)

Fail(error) == video' = "done" /\ terminal' = error

EncodedBytes == unit.size + StartCode

TotalBytes(queue) == FoldFunction(LAMBDA buffer, bytes : buffer.size + StartCode + bytes, 0, queue)

DecodeCheck ==
    /\ video = "check"
    /\ CheckHealth("count")
    /\ UNCHANGED <<read, unit, received, counter, appsrc, popped, decoded, frames, audio,
                   tracks, receiver>>

Overflow == Fail("overflow")

TooManyBuffers == counter >= MaxBuffers

\* The load of queued_buffers, after the size of the unit itself was checked.
AdmitCount ==
    /\ video = "count"
    /\ IF EncodedBytes > MaxBytes \/ TooManyBuffers
       THEN Overflow
       ELSE video' = "level" /\ UNCHANGED terminal
    /\ UNCHANGED <<read, unit, received, counter, appsrc, popped, decoded, decoderBus, frames, audio,
                   tracks, receiver>>

\* The load of current_level_bytes; then the buffer is allocated and filled.
AdmitBytes ==
    /\ video = "level"
    /\ IF TotalBytes(appsrc) > MaxBytes - EncodedBytes
       THEN Overflow
       ELSE \/ video' = "admitted" /\ UNCHANGED terminal
            \/ Fail("buffer")
    /\ UNCHANGED <<read, unit, received, counter, appsrc, popped, decoded, decoderBus, frames, audio,
                   tracks, receiver>>

\* Mutant: what is pushed is not counted.
NotCounted == counter' = counter

CountFirst == counter' = (counter + 1) % CounterWrap

Count ==
    /\ video = "admitted" /\ video' = "counted"
    /\ CountFirst
    /\ UNCHANGED <<read, unit, received, appsrc, popped, decoded, decoderBus, terminal, frames, audio,
                   tracks, receiver>>

\* push_buffer: refused once the pipeline is flushing or saw the end of stream.
Push ==
    /\ video = "counted"
    /\ \/ /\ video' = "pushed" /\ appsrc' = Append(appsrc, unit)
          /\ UNCHANGED terminal
       \/ Fail("push") /\ UNCHANGED appsrc
    /\ UNCHANGED <<read, unit, received, counter, popped, decoded, decoderBus, frames, audio, tracks,
                   receiver>>

DecodeRecheck ==
    /\ video = "pushed"
    /\ CheckHealth("frame")
    /\ UNCHANGED <<read, unit, received, counter, appsrc, popped, decoded, frames, audio,
                   tracks, receiver>>

\* At most one decoded frame is taken for each unit.  The pipeline, which the
\* decoder owns, keeps the sender of frame_rx, so that the channel never closes here.
TakeFrame ==
    /\ video = "frame"
    /\ unit' = NoUnit
    /\ IF frames > 0 THEN video' = "offer" /\ frames' = frames - 1
       ELSE video' = "read" /\ UNCHANGED frames
    /\ UNCHANGED <<read, received, counter, appsrc, popped, decoded, decoderBus, terminal, audio,
                   tracks, receiver>>

\* The frame is sent, or dropped because the callback channel is full; a channel
\* without receiver ends the handler.
OfferFrame ==
    /\ video = "offer"
    /\ video' = IF receiver THEN "read" ELSE "done"
    /\ UNCHANGED <<read, unit, received, decoderVars, audio, tracks, receiver>>

-----------------------------------------------------------------------------
(* GStreamer, outside this repository.  Drop of the decoder stops it. *)

Playing == video \notin {"start", "done"}

Streaming == Playing /\ decoderBus = "none" /\ terminal = "none"

PopBuffer ==
    /\ Streaming /\ appsrc # <<>> /\ ~popped
    /\ popped' = TRUE
    /\ decoded' = Head(appsrc).id /\ appsrc' = Tail(appsrc)
    /\ UNCHANGED <<video, read, unit, received, counter, decoderBus, terminal, frames, audio, tracks,
                   receiver>>

\* The pad probe of track_encoded_buffers; the buffer then reaches the decoder,
\* which may make new_sample offer a frame to the bounded channel.
ReleaseBuffer ==
    /\ Streaming /\ popped /\ popped' = FALSE
    /\ counter' = (counter - 1) % CounterWrap
    /\ frames' \in {frames, IF frames < FrameSlots THEN frames + 1 ELSE frames}
    /\ UNCHANGED <<video, read, unit, received, appsrc, decoded, decoderBus, terminal, audio, tracks,
                   receiver>>

PostTerminal ==
    /\ Streaming /\ decoderBus' \in {"error", "eos"}
    /\ UNCHANGED <<video, read, unit, received, counter, appsrc, popped, decoded, terminal,
                   frames, audio, tracks, receiver>>

-----------------------------------------------------------------------------
(* The audio handler: one Opus packet per RTP packet, decoded in place.  A    *)
(* packet that does not decode is counted, a frame that does not fit is       *)
(* dropped.                                                                   *)

StartAudio ==
    /\ audio = "start" /\ audio' \in {"read", "done"}
    /\ UNCHANGED <<video, read, unit, received, decoderVars, tracks, receiver>>

AudioPacket(payload) ==
    /\ audio = "read" /\ "audio" \in tracks
    /\ audio' = IF payload = "samples" /\ ~receiver THEN "done" ELSE "read"
    /\ UNCHANGED <<video, read, unit, received, decoderVars, tracks, receiver>>

\* The read fails, or the task is aborted at its await.
AudioEnds ==
    /\ audio \in {"start", "read"}
    /\ audio' = "done"
    /\ UNCHANGED <<video, read, unit, received, decoderVars, tracks, receiver>>

-----------------------------------------------------------------------------

\* A track ends, or the callback receiver is dropped.
TrackEnds ==
    /\ \E t \in tracks : tracks' = tracks \ {t}
    /\ UNCHANGED <<video, read, unit, received, decoderVars, audio, receiver>>

ReceiverDropped ==
    /\ receiver /\ receiver' = FALSE
    /\ UNCHANGED <<video, read, unit, received, decoderVars, audio, tracks>>

Finished == video = "done" /\ audio = "done" /\ UNCHANGED mediaVars

DecodeStep == \/ DecodeCheck \/ AdmitCount \/ AdmitBytes \/ Count \/ Push \/ DecodeRecheck
              \/ TakeFrame \/ OfferFrame

MediaNext ==
    \/ StartVideo \/ AbortVideo
    \/ ReadConsumes \/ ReadReturns \/ ReadFails \/ HealthTick
    \/ DecodeStep
    \/ PopBuffer \/ ReleaseBuffer \/ PostTerminal
    \/ StartAudio \/ (\E payload \in {"samples", "empty", "invalid"} : AudioPacket(payload))
    \/ AudioEnds
    \/ TrackEnds \/ ReceiverDropped \/ Finished

MediaSpec == MediaInit /\ [][MediaNext]_mediaVars

-----------------------------------------------------------------------------

\* The buffer that is on its way from appsrc to the pad probe.
InProbe == IF popped THEN 1 ELSE 0

\* The buffers from before they are pushed until the pad probe has released them.
BuffersAreCounted ==
    /\ counter = Len(appsrc) + InProbe + (IF video = "counted" THEN 1 ELSE 0)
    /\ Len(appsrc) <= MaxBuffers

\* queued_buffers never falls below zero and counts every buffer from before it is
\* pushed until the pad probe has released it, so the buffers and bytes queued in
\* appsrc never exceed the admission limits, although the streaming thread changes
\* both levels between the checks and the push.
EncodedQueueIsBounded ==
    terminal # "push" => BuffersAreCounted /\ TotalBytes(appsrc) <= MaxBytes

\* The number of the last unit that was handed to appsrc.
LastQueued == IF appsrc = <<>> THEN decoded ELSE appsrc[Len(appsrc)].id

\* The decoder sees the units without a gap: the buffers in appsrc continue what was
\* decoded, and while the stream runs nothing that arrived is missing but what the
\* read and the current decode() hold. A health poll loses no packet, and a full
\* queue ends the stream instead of skipping a unit.
NoUnitIsSkipped ==
    /\ \A i \in 1..Len(appsrc) : appsrc[i].id = decoded + i
    /\ video \in Decoding \cup {"read"} =>
         received = LastQueued
                    + (IF read \notin {NoUnit, Fragment} THEN 1 ELSE 0)
                    + (IF video \in {"check", "count", "level", "admitted", "counted"}
                       THEN 1 ELSE 0)

\* A failure of the pipeline ends the video handler even when the track is idle and
\* no packet ever causes another decode().
FailureStopsStream == decoderBus # "none" ~> video = "done"
=============================================================================
