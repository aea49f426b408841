------------------------------- MODULE MCIngress -------------------------------
(***************************************************************************)
(* What arrives from the robot and what is made of it: the assembler of    *)
(* chunks, the pool of LiDAR workers, and the functions of JsonBudgets and *)
(* Conversions.  They share no state, so a behaviour runs one of them; the *)
(* functions are evaluated on every sample of an initial state.            *)
(***************************************************************************)
EXTENDS ChunkAssembler, LidarWorkerPool, JsonBudgets, Conversions, SequencesExt

VARIABLES
    part,       \* what this behaviour is about
    sample      \* the input of a function, nothing in the other parts

ingressVars == <<vars, poolVars, part, sample>>

\* Chunks of one byte and of two bytes.
SomePayloads == {<<1>>, <<2, 3>>}

-----------------------------------------------------------------------------
(* Samples: each set goes beyond every limit by one or more. *)

Scalars == {Scalar(0), Scalar(2)}

ContainersOf(items) ==
    {Array(s) : s \in BoundedSeq(items, 2)}
      \cup {Object([i \in DOMAIN s |-> size], s) : s \in BoundedSeq(items, 2), size \in 0..1}

Flat == ContainersOf({Scalar(0)})
Nested == ContainersOf({Scalar(2), Array(<<>>), Array(<<Scalar(0)>>), Object(<<1>>, <<Scalar(0)>>)})

\* Documents of up to three containers in each other.
Documents == Scalars \cup Flat \cup Nested \cup UNION {ContainersOf({v}) : v \in Nested}

\* Blanks that leave room, and such that just do or do not fit.
JsonTexts == [value : Documents, blanks : {0, MaxText - 4, MaxText - 3}, followed : BOOLEAN]

Events == [kind : {"topic", "future", "lidar", "video", "audio"}, name : {0, 1}, elements : {0, 2, 5},
           payload : Scalars \cup Nested]

\* Two containers that may hold each other, themselves, and scalars.
Heaps ==
    LET items == BoundedSeq({-1, -2, 0, 2, Unsupported}, 2)
        containers == {Array(s) : s \in items} \cup {Object([i \in DOMAIN s |-> 1], s) : s \in items}
    IN  [{-1, -2} -> containers]

Frames ==
    [lidar : BOOLEAN, filler : {<<0, 0>>, <<2, 7>>}, payload : {<<>>, <<9>>, <<125, 0>>},
     header : {<<123>> \o [i \in 1..n |-> byte] \o <<125>> : n \in 0..MaxHeader - 1, byte \in {0, 34}}]

Requests == [n : 0..2 * MaxWireId, apart : 1..MaxWireId, topic : {"a", "b"}, api : 1..2,
             own : {Absent} \cup {<<id>> : id \in {0, 1, MaxWireId, MaxWireId + 1}}]

\* Every bitmap at a usual place, and some at places about the limits of the numbers.
Bitmaps ==
    [buffer : BoundedSeq(0..2^ByteBits - 1, SliceBytes + 1), origin : {<<0, 3, -6>>}, resolution : {3}]
      \cup [buffer : {<<>>, <<1>>, <<0, 0, 0, 0, 2>>, <<0, 0, 0, 0, 0, 0>>},
            origin : [1..3 -> {-3 * MaxF32 - 2, -3 * MaxF32, 0, 3 * MaxF32 - 3, MaxF64 + 1}],
            resolution : {-3, 0, 1, 2, 9, 3 * MaxF32, 3 * MaxF32 + 2, MaxF64 + 1}]

Pictures == [width : 0..2, height : 0..3, stride : 0..8, offset : 0..1, size : 0..25]

Texts == BoundedSeq(0..Block + 1, Block) \cup {<<1>> \o s : s \in BoundedSeq({2, 3}, 2 * Block)}

Endings ==
    [key : {<<>>, <<"A", "x">>}, filler : {"x", "B"},
     digits : [1..5 -> {0, 4, 9}] \cup {<<>>, <<1, 2>>, <<1, 2, 3, 4>>}]

Headers == {[kind |-> "other", others |-> Absent, data |-> Absent],
            [kind |-> "object", others |-> <<1>>, data |-> Absent],
            [kind |-> "object", others |-> <<1>>, data |-> BytesToJsonArray(<<7>>)]}

Injections == [data : Headers, bytes : BoundedSeq({0, 255}, MaxChunkBytes + 1)]

Options == [incoming : {0, 1, 4096, 4097}, events : {0, 1, 256, 257},
            workers : {0, 1, 3, 5, 32, 33}, timeout : {0, 1}, remote : BOOLEAN]

\* Clocks that are set now and then.
Clocks == [start : {0, 4}, ticks : BoundedSeq([elapsed : 0..3, set : {-3, 0, 2}], 3)]

\* The lengths of a packet in half milliseconds.
Packets == [rate : {8000, 12000, 16000, 24000, 48000}, channels : 1..2,
            halfMs : {5, 10, 20, 40, 80, 120, 160, 200, 240}]

-----------------------------------------------------------------------------

\* AdmissionIsExact of every text, SizeIsExact of every event, and
\* ConversionIsExact of every pair of Python containers: no walk of parse_json, json_size or
\* py_any_to_json_value accepts more, or refuses less, than its budget says.
BudgetsAreExact ==
    /\ part = "document" => AdmissionIsExact(sample)
    /\ part = "event" => SizeIsExact(sample)
    /\ part = "heap" => ConversionIsExact(sample, -1)

\* What one side writes the other side reads: binary frames and the bytes put
\* into their headers, the responses to calls, the encryption and the path of
\* the key exchange.  What is decoded is what was meant: a bitmap becomes its
\* voxels, a plane its picture, and a packet of sound fits its buffer.  Valid
\* options suffice, and a throttled topic keeps its rate, as far as the clock does.
ConversionsAgree ==
    /\ part = "frame" => FramesAreReadBack(sample)
    /\ part = "request" => ResponsesFindTheirCall(sample)
    /\ part = "bitmap" => PointsAreTheVoxels(sample)
    /\ part = "picture" => PicturesArePacked(sample)
    /\ part = "text" => EncryptionIsReadBack(sample)
    /\ part = "ending" => PathIsReadBack(sample)
    /\ part = "injection" => InjectedIsRead(sample)
    /\ part = "options" => OptionsSuffice(sample)
    /\ part = "clock" => ThrottleFollowsTime(sample)
    /\ part = "packet" => PacketsFit(sample)

-----------------------------------------------------------------------------

IngressInit ==
    /\ Init /\ PoolInit
    /\ \/ part \in {"chunks", "pool"} /\ sample = 0
       \/ part = "document" /\ sample \in JsonTexts
       \/ part = "event" /\ sample \in Events
       \/ part = "heap" /\ sample \in Heaps
       \/ part = "frame" /\ sample \in Frames
       \/ part = "request" /\ sample \in Requests
       \/ part = "bitmap" /\ sample \in Bitmaps
       \/ part = "picture" /\ sample \in Pictures
       \/ part = "text" /\ sample \in Texts
       \/ part = "ending" /\ sample \in Endings
       \/ part = "injection" /\ sample \in Injections
       \/ part = "options" /\ sample \in Options
       \/ part = "clock" /\ sample \in Clocks
       \/ part = "packet" /\ sample \in Packets

IngressNext ==
    \/ part = "chunks" /\ Next /\ UNCHANGED <<poolVars, part, sample>>
    \/ part = "pool" /\ PoolNext /\ UNCHANGED <<vars, part, sample>>
    \/ part \notin {"chunks", "pool"} /\ UNCHANGED ingressVars

IngressSpec ==
    /\ IngressInit /\ [][IngressNext]_ingressVars
    /\ ExpireFairness /\ PoolFairness

\* Nothing that arrives occupies its place for ever.  A transfer whose last chunks never
\* come leaves the assembler.  A full request channel of the LiDAR pool gets room again,
\* because no stale or broken job takes a worker out of service.  When a start fails or
\* the last handle is dropped, every worker that was started comes to its end.
NothingIsKeptForever ==
    /\ \A key \in Keys : key \in DOMAIN transfers ~> key \notin DOMAIN transfers
    /\ Full ~> ~Full
    /\ phase = "joining" ~> phase = "failed"
    /\ (phase = "running" /\ handles = 0) ~> \A w \in Workers : worker[w] = "exited"
=============================================================================
