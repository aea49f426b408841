------------------------------ MODULE Conversions ------------------------------
(***************************************************************************)
(* The conversions between the wire and the application, as functions, each *)
(* with what it is compared to: binary frames and the bytes in them,        *)
(* request keys, voxel bitmaps, decoded pictures and sound, the encryption  *)
(* of the key exchange, options and throttling.  Sizes of the wire are      *)
(* constants, so that an instance meets their boundaries.                   *)
(***************************************************************************)
EXTENDS Integers, Sequences, SequencesExt, FiniteSets, FiniteSetsExt

CONSTANTS
    MaxHeader,      \* MAX_BINARY_HEADER_BYTES
    MaxWireId,      \* MAX_WIRE_ID of generated_identity_id
    ByteBits,       \* bits of a byte of a bitmap
    RowBytes,       \* BYTES_PER_ROW
    SliceBytes,     \* BYTES_PER_SLICE
    MaxPoints,      \* MAX_POINTS
    MaxBitmap,      \* MAX_BITMAP_BYTES
    MaxF32,         \* the largest finite f32, in its smallest steps
    MaxF64,         \* the largest finite f64, in thirds of such a step
    MaxPicture,     \* MAX_VIDEO_BUFFER_BYTES
    Block,          \* AES_BLOCK_SIZE
    Overhead,       \* padding bytes of an RSA block, 11 in the code
    MaxChunkBytes,  \* MAX_TRANSFER_BYTES of value_to_chunk_bytes
    Interval,       \* seconds between two messages of a throttled topic
    Error           \* what a conversion that fails returns

ASSUME WireAssumption ==
    /\ {MaxHeader, MaxPoints, MaxBitmap, MaxF32, MaxF64, MaxPicture, Overhead, MaxChunkBytes, Interval} \subseteq Nat
    /\ {ByteBits, RowBytes, SliceBytes, Block, MaxWireId} \subseteq Nat \ {0}
    /\ SliceBytes % RowBytes = 0

-----------------------------------------------------------------------------
(* framing.rs. *)

Little(bytes) == FoldRight(LAMBDA byte, value : value * 256 + byte, bytes, 0)

\* The part of parse_json that matters here: the text of an object.
IsObject(text) == Len(text) >= 2 /\ Head(text) = 123 /\ Last(text) = 125

\* parse: the kind of a frame, its JSON header and its payload.
ParseFrame(buffer) ==
    LET lidar == IsPrefix(<<2, 0, 0, 0>>, buffer)
        start == IF lidar THEN 12 ELSE 4
        length == Little(IF lidar THEN SubSeq(buffer, 5, 8) ELSE SubSeq(buffer, 1, 2))
        header == SubSeq(buffer, start + 1, start + length)
    IN  IF \/ Len(buffer) < (IF lidar THEN 8 ELSE 4)
           \/ length > MaxHeader \/ start + length > Len(buffer) \/ ~IsObject(header)
        THEN Error
        ELSE [lidar |-> lidar, header |-> header,
              payload |-> SubSeq(buffer, start + length + 1, Len(buffer))]

\* What a robot sends: two bytes of a normal frame are not interpreted.
NormalFrame(f) == <<Len(f.header), 0>> \o f.filler \o f.header \o f.payload
LidarFrame(f) == <<2, 0, 0, 0, Len(f.header), 0, 0, 0>> \o f.filler \o f.filler \o f.header \o f.payload

\* A frame is taken apart as it was put together, up to the limit of the
\* header.  The one exception is the normal frame of an empty object whose two
\* free bytes are zero: its first four bytes are those of a LiDAR frame.
FramesAreReadBack(f) ==
    LET read == ParseFrame(IF f.lidar THEN LidarFrame(f) ELSE NormalFrame(f))
        ambiguous == ~f.lidar /\ Len(f.header) = 2 /\ f.filler = <<0, 0>>
    IN  IF Len(f.header) > MaxHeader THEN read = Error
        ELSE ambiguous \/ read = [lidar |-> f.lidar, header |-> f.header, payload |-> f.payload]

-----------------------------------------------------------------------------
(* Request keys: RequestIdentity, ResponseExpectation and the identifiers of *)
(* publish_request_new.  A field that is absent, or no scalar, is Absent.    *)

Absent == <<>>

\* generate_message_key without an identifier.
TypeAndTopic(type, topic) == <<type, topic>>

\* RequestIdentity::extract_key.
ExtractKey(data) ==
    LET known == SelectSeq(<<data.uuid, data.id, data.reqUuid>>, LAMBDA field : field # Absent)
    IN  IF known # <<>> THEN Head(known)
        ELSE IF data.type = Absent /\ data.topic = Absent THEN Absent
        ELSE TypeAndTopic(data.type, data.topic)

OutgoingKey(type, topic, data) ==
    IF ExtractKey(data) # Absent THEN ExtractKey(data) ELSE TypeAndTopic(type, topic)

\* incoming_key: the data first, then the info of the message.
IncomingKey(m) ==
    LET known == SelectSeq(<<ExtractKey(m.data), m.infoUuid, m.infoReqUuid>>, LAMBDA key : key # Absent)
    IN  IF known # <<>> THEN Head(known) ELSE TypeAndTopic(m.type, m.topic)

\* generated_identity_id.
GeneratedId(n) == (n % MaxWireId) + 1

\* publish_request_new: the n-th call asks for an API of a topic, under the identifier
\* of the caller's options if they have one.
ApiRequest(n, topic, api, own) ==
    LET id == IF own # Absent THEN own ELSE <<GeneratedId(n)>>
        data == [uuid |-> Absent, id |-> id, reqUuid |-> Absent,
                 type |-> Absent, topic |-> Absent]
    IN  [data |-> data, key |-> OutgoingKey("request", topic, data),
         topics |-> {<<topic, "request">>, <<topic, "response">>}, api |-> api]

\* The response of the robot carries the identity back (external).
ApiResponse(r, topic) ==
    [type |-> "response", topic |-> <<topic, "response">>, data |-> r.data, api |-> r.api,
     infoUuid |-> Absent, infoReqUuid |-> Absent]

\* ResponseExpectation::validate.
Validate(r, m) == m.topic \in r.topics /\ m.api = r.api

\* A response resolves the call it answers, and no other call that fewer than
\* MAX_WIRE_ID generated identifiers lie apart.  A call with an identifier of its own is
\* mistaken only for the one that was generated the same.
ResponsesFindTheirCall(q) ==
    LET mine == ApiRequest(q.n, q.topic, q.api, q.own)
        other == ApiRequest(q.n + q.apart, q.topic, q.api, Absent)
        response == ApiResponse(mine, q.topic)
    IN  /\ IncomingKey(response) = mine.key /\ Validate(mine, response)
        /\ IF q.own = Absent
           THEN q.apart \in 1..MaxWireId - 1 => IncomingKey(response) # other.key
           ELSE q.own # <<GeneratedId(q.n + q.apart)>> => IncomingKey(response) # other.key

-----------------------------------------------------------------------------
(* lidar/codec.rs.  Numbers are integers: an f32 counts its smallest steps, *)
(* an f64 thirds of them, and what is beyond the largest is not finite.     *)

FiniteF32(x) == x \in -MaxF32..MaxF32
FiniteF64(x) == x \in -MaxF64..MaxF64

\* What overflows is infinite, and stays it.
Overflowing(x) == Max({-MaxF32 - 1, Min({MaxF32 + 1, x})})

\* `as f32`: the nearest step, which is zero for the smallest f64.
AsF32(x) == Overflowing((x + 1) \div 3)

\* index * resolution + origin in f32.
Coordinate(index, resolution, origin) ==
    LET product == Overflowing(index * resolution)
    IN  IF FiniteF32(product) THEN Overflowing(product + origin) ELSE product

\* max_indices: the last voxel of each axis.
MaxIndices(size) ==
    <<RowBytes * ByteBits - 1, SliceBytes \div RowBytes - 1, Max({0, size - 1}) \div SliceBytes>>

ValidateGeometry(size, origin, resolution) ==
    /\ size <= MaxBitmap /\ FiniteF64(resolution) /\ resolution > 0
    /\ FiniteF32(AsF32(resolution)) /\ AsF32(resolution) > 0
    /\ \A axis \in 1..3 :
          /\ FiniteF64(origin[axis]) /\ FiniteF32(AsF32(origin[axis]))
          /\ FiniteF32(Coordinate(MaxIndices(size)[axis], AsF32(resolution), AsF32(origin[axis])))

\* The loop over the bits of a byte: the top bit is tested, the byte shifted,
\* until nothing is left of it.
RECURSIVE Bits(_, _, _)
Bits(bits, offset, found) ==
    IF bits = 0 THEN found
    ELSE Bits((bits * 2) % 2^ByteBits, offset + 1,
              IF bits >= 2^(ByteBits - 1) THEN Append(found, offset) ELSE found)

\* Mutant: rows are taken for slices.
SwappedPosition(i) == [x |-> (i % RowBytes) * ByteBits, y |-> i \div SliceBytes,
                       z |-> (i % SliceBytes) \div RowBytes]

\* Where the bits of the byte with index i lie.
Position(i) == [x |-> ((i % SliceBytes) % RowBytes) * ByteBits, y |-> (i % SliceBytes) \div RowBytes,
                z |-> i \div SliceBytes]

\* A voxel in the coordinates of the map.
Placed(p, origin, resolution) ==
    [axis \in 1..3 |-> Coordinate(p[axis], AsF32(resolution), AsF32(origin[axis]))]

BitsToPoints(buffer, origin, resolution) ==
    LET PointsOf(i) ==
            LET at == Position(i - 1)
            IN  [k \in DOMAIN Bits(buffer[i], 0, <<>>) |->
                    Placed(<<at.x + Bits(buffer[i], 0, <<>>)[k], at.y, at.z>>, origin, resolution)]
        points == FlattenSeq([i \in DOMAIN buffer |-> PointsOf(i)])
    IN  IF ~ValidateGeometry(Len(buffer), origin, resolution) \/ Len(points) > MaxPoints
        THEN Error ELSE points

BitIsSet(byte, offset) == (byte \div 2^(ByteBits - 1 - offset)) % 2 = 1

\* The bitmap as the wire means it: slices of rows of bits, x running fastest.
IsSet(buffer, p) ==
    LET i == p[3] * SliceBytes + p[2] * RowBytes + p[1] \div ByteBits
    IN  i < Len(buffer) /\ BitIsSet(buffer[i + 1], p[1] % ByteBits)

\* All positions of a bitmap, up to the slice its last byte lies in.
Grid(buffer) ==
    LET slices == (Len(buffer) + SliceBytes - 1) \div SliceBytes
    IN  (0..RowBytes * ByteBits - 1) \X (0..SliceBytes \div RowBytes - 1) \X (0..Max({0, slices - 1}))

Voxels(buffer) == {p \in Grid(buffer) : IsSet(buffer, p)}

\* What the decoder is to accept: a bitmap within its limits, of whose grid every
\* position has coordinates that are finite numbers.
Acceptable(b) ==
    /\ Len(b.buffer) <= MaxBitmap /\ Cardinality(Voxels(b.buffer)) <= MaxPoints
    /\ FiniteF64(b.resolution) /\ FiniteF32(AsF32(b.resolution)) /\ AsF32(b.resolution) > 0
    /\ \A axis \in 1..3 : FiniteF64(b.origin[axis])
    /\ \A p \in Grid(b.buffer), axis \in 1..3 :
          FiniteF32(Placed(p, b.origin, b.resolution)[axis])

\* The decoder accepts exactly that, although it looks at the last voxel of each axis
\* only, and then yields each voxel of the bitmap once, at its place.
PointsAreTheVoxels(b) ==
    LET points == BitsToPoints(b.buffer, b.origin, b.resolution) IN
    IF ~Acceptable(b) THEN points = Error
    ELSE /\ ToSet(points) = {Placed(p, b.origin, b.resolution) : p \in Voxels(b.buffer)}
         /\ Len(points) = Cardinality(Voxels(b.buffer))

-----------------------------------------------------------------------------
(* video/codec.rs: rows are cut out of a plane with a stride. *)

PlaneBytes(v) == v.stride * v.height

\* packed_bgr_frame and bgr_output_size; byte i of the buffer is i.  The
\* plane is cut into whole strides from the offset on.
PackedBgr(v) ==
    IF \/ v.width = 0 \/ v.height = 0 \/ v.width * 3 * v.height > MaxPicture
       \/ v.stride < v.width * 3 \/ PlaneBytes(v) > MaxPicture
       \/ v.offset + PlaneBytes(v) > v.size
    THEN Error
    ELSE FlattenSeq([row \in 1..Min({v.height, (v.size - v.offset) \div v.stride}) |->
                       [k \in 1..v.width * 3 |-> v.offset + (row - 1) * v.stride + k - 1]])

\* A picture has three bytes per pixel, each the one its row and column name,
\* and none from outside the buffer, whatever stride and offset the decoder
\* negotiated.
PicturesArePacked(v) ==
    LET packed == PackedBgr(v) IN
    packed = Error \/
        /\ Len(packed) = 3 * v.width * v.height
        /\ \A row \in 0..v.height - 1, k \in 0..v.width * 3 - 1 :
              packed[row * v.width * 3 + k + 1] = v.offset + row * v.stride + k
        /\ \A k \in DOMAIN packed : packed[k] < v.size

-----------------------------------------------------------------------------
(* security.rs. *)

Pkcs7Pad(data) ==
    LET padding == Block - (Len(data) % Block) IN data \o [i \in 1..padding |-> padding]

Pkcs7Unpad(data) ==
    LET padding == Last(data) IN
    IF data = <<>> \/ padding = 0 \/ padding > Block \/ padding > Len(data) THEN Error
    ELSE IF \E i \in Len(data) - padding + 1..Len(data) : data[i] # padding THEN Error
    ELSE SubSeq(data, 1, Len(data) - padding)

\* slice::chunks: pieces of the given length, the last may be shorter.
Pieces(s, length) ==
    [i \in 1..(Len(s) + length - 1) \div length |->
        SubSeq(s, (i - 1) * length + 1, Min({i * length, Len(s)}))]

\* The cipher is a bijection on blocks (external).
EncryptBlock(block) == Reverse(block)
DecryptBlock(block) == Reverse(block)

AesEcbEncrypt(text) ==
    LET blocks == Pieces(Pkcs7Pad(text), Block)
    IN  FlattenSeq([i \in DOMAIN blocks |-> EncryptBlock(blocks[i])])

AesEcbDecrypt(data) ==
    LET blocks == Pieces(data, Block)
    IN  IF Len(data) % Block # 0 THEN Error
        ELSE Pkcs7Unpad(FlattenSeq([i \in DOMAIN blocks |-> DecryptBlock(blocks[i])]))

\* rsa_encrypt: the pieces that are encrypted one by one.
RsaPieces(data, keySize) ==
    IF keySize <= Overhead THEN Error ELSE Pieces(data, keySize - Overhead)

\* An encrypted text is read back.  Whatever else decrypts, decrypts to a text
\* whose encryption it is.  The pieces of the RSA encryption make up the text,
\* none is empty and each leaves room for the padding of PKCS #1.
EncryptionIsReadBack(text) ==
    /\ AesEcbDecrypt(AesEcbEncrypt(text)) = text
    /\ AesEcbDecrypt(text) # Error => AesEcbEncrypt(AesEcbDecrypt(text)) = text
    /\ \A keySize \in 0..Overhead + Len(text) + 1 :
          LET pieces == RsaPieces(text, keySize) IN
          IF keySize <= Overhead THEN pieces = Error
          ELSE /\ FlattenSeq(pieces) = text
               /\ \A i \in DOMAIN pieces : Len(pieces[i]) \in 1..keySize - Overhead

-----------------------------------------------------------------------------
(* signaling_http.rs: the path of the key exchange. *)

Symbols == <<"A", "B", "C", "D", "E", "F", "G", "H", "I", "J">>

\* calc_local_path_ending: of the last ten characters every second one.
CalcLocalPathEnding(data1) ==
    LET last == SubSeq(data1, Len(data1) - 9, Len(data1))
        seconds == SelectSeq([i \in 1..5 |-> last[2 * i]], LAMBDA c : c \in ToSet(Symbols))
    IN  IF Len(data1) < 10 THEN <<>>
        ELSE [i \in DOMAIN seconds |-> CHOOSE d \in 0..9 : Symbols[d + 1] = seconds[i]]

\* How the robot writes the digits of its path after the key (external).
EndingOfRobot(e) ==
    e.key \o FlattenSeq([i \in DOMAIN e.digits |-> <<e.filler, Symbols[e.digits[i] + 1]>>])

\* Five digits are found again behind any key, and fewer characters than that
\* yield no digits rather than some of them.
PathIsReadBack(e) ==
    LET text == EndingOfRobot(e) IN
    /\ Len(e.digits) = 5 => CalcLocalPathEnding(text) = e.digits
    /\ Len(text) < 10 => CalcLocalPathEnding(text) = <<>>

-----------------------------------------------------------------------------
(* core/service.rs: bytes in JSON. *)

BytesToJsonArray(bytes) == [kind |-> "array", items |-> bytes]

\* value_to_chunk_bytes.  The items of a text are its bytes; a number that is
\* no byte is refused, and so is everything that is neither text nor array.
ValueToChunkBytes(value) ==
    IF \/ value.kind \notin {"text", "array"} \/ Len(value.items) > MaxChunkBytes
       \/ \E i \in DOMAIN value.items : value.items[i] \notin 0..255
    THEN Error ELSE value.items

\* inject_binary_data: the field `data` of a header, made an object if it is none.
InjectBinaryData(data, bytes) ==
    IF data.kind = "object" THEN [data EXCEPT !.data = BytesToJsonArray(bytes)]
    ELSE [kind |-> "object", others |-> Absent, data |-> BytesToJsonArray(bytes)]

\* The payload of a binary frame is what its handler and the assembler of
\* chunks read from the message, and the other fields of the header are kept.
InjectedIsRead(m) ==
    LET injected == InjectBinaryData(m.data, m.bytes) IN
    /\ ValueToChunkBytes(injected.data) = IF Len(m.bytes) > MaxChunkBytes THEN Error ELSE m.bytes
    /\ m.data.kind = "object" => injected.others = m.data.others

-----------------------------------------------------------------------------
(* Options, clocks and buffers. *)

\* SessionOptions::new and validate.
DefaultOptions(remote, cores) ==
    [incoming |-> IF remote THEN 512 ELSE 256, events |-> IF remote THEN 128 ELSE 64,
     workers |-> IF cores < 2 THEN 2 ELSE Min({cores, 4}), timeout |-> 5]

ValidOptions(o) ==
    o.incoming \in 1..4096 /\ o.events \in 1..256 /\ o.workers \in 1..32 /\ o.timeout > 0

\* What event_channel and try_new_with_spawner check themselves.
EventChannelAccepts(capacity) == capacity \in 1..256
WorkerPoolAccepts(workers) == workers \in 1..32

\* Options that are validated fail at no later stage of the assembly, and the
\* defaults are valid on every machine.
OptionsSuffice(o) ==
    /\ ValidOptions(o) => EventChannelAccepts(o.events) /\ WorkerPoolAccepts(o.workers)
    /\ ValidOptions(DefaultOptions(o.remote, o.workers))

\* now_secs_f64: zero before 1970.
NowSecs(clock) == Max({0, clock})

\* should_process of a topic with a limit: which of the messages that come at these
\* times of the wall clock pass.
ShouldProcess(clock) ==
    FoldLeft(LAMBDA passed, i :
                 LET last == IF passed = <<>> THEN 0 ELSE NowSecs(clock[Last(passed)])
                 IN  IF NowSecs(clock[i]) - last >= Interval THEN Append(passed, i) ELSE passed,
             <<>>, [i \in DOMAIN clock |-> i])

\* Between two messages some time passes and the wall clock may be set, forward or
\* back.  Of a clock that starts at t.start:
Total(values, i, j) == FoldFunctionOnSet(+, 0, values, i + 1..j)
WallClock(t) ==
    [i \in DOMAIN t.ticks |->
        t.start + Total([k \in DOMAIN t.ticks |-> t.ticks[k].elapsed + t.ticks[k].set], 0, i)]

\* Two messages pass an interval apart, less what the clock was set forward between
\* them; and a message is held back for less than an interval, and what the clock was
\* set back, after the last that passed.
ThrottleFollowsTime(t) ==
    LET passed == ToSet(ShouldProcess(WallClock(t)))
        elapsed(i, j) == Total([k \in DOMAIN t.ticks |-> t.ticks[k].elapsed], i, j)
        forward(i, j) == Total([k \in DOMAIN t.ticks |-> Max({0, t.ticks[k].set})], i, j)
        back(i, j) == Total([k \in DOMAIN t.ticks |-> Max({0, -t.ticks[k].set})], i, j)
    IN  /\ \A i, j \in passed : i < j => elapsed(i, j) >= Interval - forward(i, j)
        /\ \A j \in DOMAIN t.ticks \ passed :
              LET before == {i \in passed : i < j}
              IN  IF before = {} THEN WallClock(t)[j] < Interval
                  ELSE elapsed(Max(before), j) < Interval + back(Max(before), j)

\* OpusDecoder: a buffer for the longest packet, and how much of it decode cuts
\* out for a packet of so many samples per channel.
PcmBuffer(rate, channels) == ((rate * 120) \div 1000) * channels
DecodeOpus(samples, channels) == samples * channels

\* No packet Opus allows, 120 ms at most, is cut beyond the end of the buffer,
\* at any of the rates of Opus.
PacketsFit(a) ==
    DecodeOpus((a.rate * a.halfMs) \div 2000, a.channels) <= PcmBuffer(a.rate, a.channels)

=============================================================================
