---------------------------- MODULE H264Reassembler ----------------------------
(***************************************************************************)
(* video/h264_rtp.rs: NAL units arrive in FU-A fragments, one per RTP      *)
(* packet, over a network that loses, duplicates and reorders packets.     *)
(*                                                                         *)
(* The sender numbers its packets, modulo Wrap in what they carry, and     *)
(* gives the packets of a frame one timestamp.  A byte of a NAL unit is a  *)
(* pair of the unit and the fragment that carries it; the rebuilt header   *)
(* is <<0, header>>.                                                       *)
(***************************************************************************)
EXTENDS Integers, Sequences

CONSTANTS
    Wrap,           \* number of RTP sequence numbers, 2^16 in the code
    MaxNalBytes,    \* MAX_NAL_BYTES
    Totals,         \* numbers of fragments a unit may have; 1 is a single packet
    Delay,          \* a packet arrives before Delay later ones were sent, or never
    FrameLimit,     \* packets of one frame
    MaxPackets      \* bound: packets sent

ASSUME WrapAssumption ==
    /\ Wrap \in Nat /\ Delay \in Nat \ {0}
    /\ FrameLimit \in Nat /\ FrameLimit < Wrap

ASSUME SizeAssumption == Totals \subseteq 1..FrameLimit /\ MaxNalBytes \in Nat \ {0}

VARIABLES
    sent,           \* number of packets sent
    frame,          \* packets of the current frame sent
    wire,           \* the packets that can still arrive, newest last
    buffer,         \* H264RtpReassembler.buffer
    inProgress,     \* in_progress
    nextRtp,        \* next_rtp: <<sequence, timestamp>>, or NoRtp
    output,         \* what the last call returned, <<>> for None
    last,           \* history: the last packet that arrived, with its unit
    inOrder         \* history: fragments of last.nal in order since an idle start

senderVars == <<sent, frame, wire>>

reassemblyVars == <<senderVars, buffer, inProgress, nextRtp, output, last, inOrder>>

NoRtp == <<>>

NoPacket == [num |-> 0, time |-> 0, nal |-> 0, header |-> 0, part |-> 0, total |-> 0]

\* The RTP sequence number.
Sequence(p) == p.num % Wrap

HeaderByte(p) == <<0, p.header>>

\* A unit, or its first fragments, as the decoder shall see it.
Whole(p, parts) == <<HeaderByte(p)>> \o [i \in 1..parts |-> <<p.nal, i>>]

ReassemblyInit ==
    /\ sent = 0 /\ frame = 0 /\ wire = <<>>
    /\ buffer = <<>> /\ inProgress = FALSE /\ nextRtp = NoRtp
    /\ output = <<>> /\ last = NoPacket /\ inOrder = 0

-----------------------------------------------------------------------------
(* The sender, outside this repository. *)

Newest == IF wire = <<>> THEN NoPacket ELSE wire[Len(wire)]

Transmit(p) ==
    /\ sent < MaxPackets /\ sent' = sent + 1
    /\ wire' = LET all == Append(wire, p)
               IN  IF Len(all) > Delay THEN Tail(all) ELSE all
    /\ UNCHANGED <<buffer, inProgress, nextRtp, output, last, inOrder>>

SendNext ==
    /\ Newest.part < Newest.total
    /\ Transmit([Newest EXCEPT !.part = @ + 1, !.num = @ + 1])
    /\ frame' = frame + 1

SendFirst(total, newFrame) ==
    /\ Newest.part = Newest.total
    /\ newFrame \/ frame + total <= FrameLimit
    /\ Transmit([num |-> Newest.num + 1, nal |-> Newest.nal + 1,
                 time |-> IF newFrame THEN Newest.time + 1 ELSE Newest.time,
                 header |-> (Newest.nal + 1) % 2, part |-> 1, total |-> total])
    /\ frame' = IF newFrame THEN 1 ELSE frame + 1

-----------------------------------------------------------------------------
(* process_rtp_packet. *)

Reset == buffer' = <<>> /\ inProgress' = FALSE /\ nextRtp' = NoRtp

IsSingle(p) == p.total = 1

IsStart(p) == p.part = 1

Discontinuous(p) == ~IsStart(p) /\ nextRtp # <<Sequence(p), p.time>>

StaleStart(p) ==
    IsStart(p) /\ nextRtp # NoRtp /\ (Sequence(p) - nextRtp[1]) % Wrap >= Wrap \div 2

WrongHeader(p) == ~IsStart(p) /\ ~(inProgress /\ Head(buffer) = HeaderByte(p))

Base(p) == IF IsStart(p) THEN <<HeaderByte(p)>> ELSE buffer

TooLong(p) == 1 > MaxNalBytes - Len(Base(p))

Rejects(p) == Discontinuous(p) \/ StaleStart(p) \/ WrongHeader(p) \/ TooLong(p)

\* Mutant: the sequence number does not wrap around.
FollowingUnwrapped(p) == <<Sequence(p) + 1, p.time>>

Following(p) == <<(Sequence(p) + 1) % Wrap, p.time>>

Observe(p) ==
    /\ last' = p
    /\ inOrder' = IF IsStart(p)
                  THEN IF inProgress \/ IsSingle(p) THEN 0 ELSE 1
                  ELSE IF inOrder > 0 /\ p.nal = last.nal /\ p.part = last.part + 1
                       THEN inOrder + 1 ELSE 0

\* A unit in one packet ends whatever was in progress.
ProcessSingle(p) ==
    /\ IsSingle(p)
    /\ Reset /\ output' = Whole(p, 1)

ProcessRejected(p) ==
    /\ ~IsSingle(p) /\ Rejects(p)
    /\ Reset /\ output' = <<>>

ProcessFragment(p) ==
    LET unit == Append(Base(p), <<p.nal, p.part>>) IN
    /\ ~IsSingle(p) /\ ~Rejects(p)
    /\ IF p.part = p.total
       THEN Reset /\ output' = unit
       ELSE /\ buffer' = unit /\ inProgress' = TRUE /\ nextRtp' = Following(p)
            /\ output' = <<>>

ProcessRtpPacket(p) ==
    /\ ProcessSingle(p) \/ ProcessRejected(p) \/ ProcessFragment(p)
    /\ Observe(p)
    /\ UNCHANGED senderVars

\* Empty, oversized, aggregated or malformed payloads.
ProcessInvalid ==
    /\ Reset /\ output' = <<>>
    /\ last' = NoPacket /\ inOrder' = 0
    /\ UNCHANGED senderVars

-----------------------------------------------------------------------------

ReassemblyNext ==
    \/ SendNext
    \/ \E total \in Totals, newFrame \in BOOLEAN : SendFirst(total, newFrame)
    \/ \E i \in DOMAIN wire : ProcessRtpPacket(wire[i])
    \/ ProcessInvalid

ReassemblySpec == ReassemblyInit /\ [][ReassemblyNext]_reassemblyVars

\* What is handed to the decoder is exactly one unit as it was sent, with all its
\* fragments in order, whatever was lost, duplicated, reordered or wrapped.  Nothing is
\* lost without cause either: when the fragments of a unit that fits arrive in order at
\* an idle reassembler, also across the end of the sequence numbers, it keeps all of
\* them and returns the unit with the last one.  The buffer never exceeds MAX_NAL_BYTES,
\* so that MAX_NAL_BYTES - buffer.len() does not wrap.
ReassemblyIsExact ==
    /\ output # <<>> => output = Whole(last, last.total)
    /\ inOrder > 0 /\ inOrder < MaxNalBytes =>
         IF inOrder = last.total THEN output = Whole(last, last.total)
                                 ELSE buffer = Whole(last, inOrder)
    /\ Len(buffer) <= MaxNalBytes
=============================================================================
