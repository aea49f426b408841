-------------------------------- MODULE MCMedia --------------------------------
(***************************************************************************)
(* Media on a small instance.  The reassembler, the receiving handlers and *)
(* the sender share no variable, and a unit is whole when it leaves the    *)
(* reassembler (ReassemblyIsExact), so they are explored side by side instead *)
(* of interleaved: a behaviour runs one of them.                           *)
(***************************************************************************)
EXTENDS H264Reassembler, MediaReceive, AudioSender

VARIABLE part   \* "rtp": the reassembler runs; "handlers"; "sender"

allVars == <<reassemblyVars, mediaVars, playbackVars, part>>

AllInit == ReassemblyInit /\ MediaInit /\ PlaybackInit /\ part \in {"rtp", "handlers", "sender"}

AllNext ==
    \/ part = "rtp" /\ ReassemblyNext /\ UNCHANGED <<part, mediaVars, playbackVars>>
    \/ part = "handlers" /\ MediaNext /\ UNCHANGED <<part, reassemblyVars, playbackVars>>
    \/ part = "sender" /\ PlaybackNext /\ UNCHANGED <<part, reassemblyVars, mediaVars>>

\* The runtime runs the handler's own steps and the timer of the health poll.
HandlerFairness ==
    /\ WF_mediaVars(part = "handlers" /\ DecodeStep)
    /\ WF_mediaVars(part = "handlers" /\ HealthTick)
    /\ WF_mediaVars(part = "handlers" /\ ReadFails)
    /\ WF_mediaVars(part = "handlers" /\ ReadReturns)

\* The threads of the sender run and an aborted task is polled.  Nobody has to call
\* anything, and neither samples nor messages have to arrive.
SenderFairness ==
    /\ WF_playbackVars(part = "sender" /\ OwnerRuns)
    /\ WF_playbackVars(part = "sender" /\ BusStep)
    /\ WF_playbackVars(part = "sender" /\ SendSample)
    /\ WF_playbackVars(part = "sender" /\ TaskCancelled)

AllSpec == AllInit /\ [][AllNext]_allVars /\ HandlerFairness /\ SenderFairness
================================================================================
