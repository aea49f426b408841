---------------------------- MODULE DeliveryProofs ----------------------------
(***************************************************************************)
(* Safety of three stages of the media and of the callbacks, in parts that *)
(* share nothing but this module: the H264 reassembler for any number of   *)
(* packets and of sequence numbers and any sizes of units; one audio       *)
(* playback for any capacity of its RTP channel and any number of calls,   *)
(* samples and messages; the callbacks for any number of threads, topics,  *)
(* registrations and failures.                                             *)
(***************************************************************************)
EXTENDS H264Reassembler, AudioSender, CallbackDispatch, TLAPS

-----------------------------------------------------------------------------
(* Remainders. *)

\* Quotient and remainder.
LEMMA DivMod ==
    ASSUME NEW a \in Nat, NEW W \in Nat \ {0}
    PROVE  a = W * (a \div W) + (a % W) /\ a % W \in 0..W-1 /\ a \div W \in Nat
OBVIOUS

\* Only zero is a multiple of W within less than W of zero.
LEMMA NoMultiple ==
    ASSUME NEW k \in Int, NEW W \in Nat \ {0}, W * k < W, W * k > -W
    PROVE  k = 0
OBVIOUS

\* A factor W distributes.
LEMMA Distributes ==
    ASSUME NEW W \in Nat, NEW j \in Int, NEW k \in Int
    PROVE  W * (j - k) = W * j - W * k /\ W * (j + 1) = W * j + W
OBVIOUS

\* Quotient and remainder are unique.
LEMMA ModUnique ==
    ASSUME NEW W \in Nat \ {0}, NEW j \in Int, NEW k \in Int, NEW r \in 0..W-1, NEW s \in 0..W-1,
           W * j + r = W * k + s
    PROVE  j = k /\ r = s
<1>1. W * (j - k) = s - r
  <2>1. W * j \in Int /\ W * k \in Int
    OBVIOUS
  <2> QED
    BY <2>1, Distributes
<1>2. s - r < W /\ s - r > -W
  OBVIOUS
<1>3. j - k = 0
  <2> DEFINE d == j - k
  <2>1. d \in Int /\ W * d < W /\ W * d > -W
    BY <1>1, <1>2
  <2> HIDE DEF d
  <2>2. d = 0
    BY <2>1, NoMultiple, Zenon
  <2> QED
    BY <2>2, Zenon DEF d
<1>4. j = k
  BY <1>3
<1> QED
  BY <1>1, <1>4

\* Two numbers less than W apart with the same remainder are equal.
LEMMA ModEqual ==
    ASSUME NEW a \in Nat, NEW b \in Nat, NEW W \in Nat \ {0}, a % W = b % W, a - b < W, b - a < W
    PROVE  a = b
<1> DEFINE j == a \div W
           k == b \div W
           r == a % W
<1>1. a = W * j + r /\ b = W * k + r /\ j \in Int /\ k \in Int /\ r \in Int
  BY DivMod
<1> HIDE DEF j, k, r
<1>2. W * (j - k) = a - b
  <2>1. W * j \in Int /\ W * k \in Int
    BY <1>1
  <2> QED
    BY <1>1, <2>1, Distributes
<1>3. j - k = 0
  <2> DEFINE d == j - k
  <2>1. d \in Int /\ W * d < W /\ W * d > -W
    BY <1>1, <1>2
  <2> HIDE DEF d
  <2>2. d = 0
    BY <2>1, NoMultiple, Zenon
  <2> QED
    BY <2>2, Zenon DEF d
<1> QED
  BY <1>1, <1>3

\* wrapping_add(1) on a remainder.
LEMMA ModSucc ==
    ASSUME NEW a \in Nat, NEW W \in Nat \ {0}
    PROVE  ((a % W) + 1) % W = (a + 1) % W
<1> DEFINE j == a \div W
           r == a % W
           k == (a + 1) \div W
           s == (a + 1) % W
<1>1. a = W * j + r /\ j \in Int /\ r \in 0..W-1
  BY DivMod
<1>2. a + 1 = W * k + s /\ k \in Int /\ s \in 0..W-1
  BY DivMod
<1>3. CASE r + 1 < W
  <2>1. s = r + 1
    <3> HIDE DEF j, r, k, s
    <3>1. r + 1 \in 0..W-1 /\ W * j + (r + 1) = W * k + s
      BY <1>1, <1>2, <1>3
    <3> QED
      BY <1>1, <1>2, <3>1, ModUnique
  <2>2. (r + 1) % W = r + 1
    <3> HIDE DEF r
    <3> QED
      BY <1>1, <1>3
  <2> QED
    BY <2>1, <2>2, Zenon
<1>4. CASE r + 1 = W
  <2>1. s = 0
    <3> HIDE DEF j, r, k, s
    <3>1. W * (j + 1) + 0 = W * k + s /\ j + 1 \in Int /\ 0 \in 0..W-1
      BY <1>1, <1>2, <1>4, Distributes
    <3> QED
      BY <1>2, <3>1, ModUnique, Zenon
  <2>2. (r + 1) % W = 0
    BY <1>4
  <2> QED
    BY <2>1, <2>2, Zenon
<1> QED
  BY <1>1, <1>3, <1>4

\* Sequences are told apart by their lengths and elements.
LEMMA SameElements ==
    ASSUME NEW E, NEW a \in Seq(E), NEW b \in Seq(E), Len(a) = Len(b),
           \A i \in 1..Len(a) : a[i] = b[i]
    PROVE  a = b
OBVIOUS

-----------------------------------------------------------------------------
(* The reassembler: its inductive invariant. *)

PacketFields ==
    [num : Nat, time : Nat, nal : Nat, header : 0..1, part : Nat, total : Nat]

Bytes == Nat \X Nat

\* A packet as the sender makes it.
Packets == {p \in PacketFields : p.num >= 1 /\ p.part >= 1 /\ p.part <= p.total}

\* The packets that still matter: those that can arrive and the last one that did.
Seen == {wire[i] : i \in DOMAIN wire} \cup {p \in {last} : p.num # 0}

\* The fragments of a unit are numbered without a gap and share what tells them apart
\* from others; the packets of a frame are less than a frame apart.
PacketsAgree(a, b) ==
    /\ a.num = b.num => a = b
    /\ b.num = a.num + 1 /\ a.part < a.total => a.nal = b.nal
    /\ a.nal = b.nal => /\ a.time = b.time /\ a.total = b.total /\ a.header = b.header
                        /\ b.num - a.num = b.part - a.part
    /\ a.time = b.time => b.num - a.num < FrameLimit

\* A packet with respect to the newest one.
Before(p) ==
    /\ p \in Packets /\ p.num <= Newest.num /\ p.nal <= Newest.nal /\ p.time <= Newest.time
    /\ p.time = Newest.time => Newest.num - p.num < frame

SenderInv ==
    /\ sent \in Nat /\ frame \in 0..FrameLimit
    /\ wire \in Seq(PacketFields) /\ last \in PacketFields
    /\ frame + Newest.total - Newest.part <= FrameLimit
    /\ Newest = NoPacket => Seen = {}
    /\ \A p \in Seen : Before(p)
    /\ \A a, b \in Seen : PacketsAgree(a, b)

\* While a unit is in progress the buffer holds it up to the last packet.
ReceiverInv ==
    /\ inProgress \in BOOLEAN /\ inOrder \in Nat
    /\ inProgress => /\ last.num # 0 /\ last.part < last.total /\ nextRtp = Following(last)
                     /\ buffer = Whole(last, last.part) /\ Len(buffer) <= MaxNalBytes
    /\ ~inProgress => buffer = <<>> /\ nextRtp = NoRtp
    /\ output # <<>> => output = Whole(last, last.total)
    /\ inOrder > 0 /\ inOrder < MaxNalBytes =>
         /\ inOrder = last.part /\ last.num # 0
         /\ last.part < last.total => inProgress
         /\ last.part = last.total => output = Whole(last, last.total)

-----------------------------------------------------------------------------
(* Units. *)

\* A unit is its header and then its fragments in order.
LEMMA WholeElements ==
    ASSUME NEW p \in PacketFields, NEW k \in Nat
    PROVE  /\ Whole(p, k) \in Seq(Bytes) /\ Len(Whole(p, k)) = k + 1
           /\ Whole(p, k)[1] = HeaderByte(p)
           /\ \A i \in 2..k + 1 : Whole(p, k)[i] = <<p.nal, i - 1>>
<1> DEFINE parts == [i \in 1..k |-> <<p.nal, i>>]
<1>1. HeaderByte(p) \in Bytes /\ \A i \in 1..k : <<p.nal, i>> \in Bytes
  BY DEF HeaderByte, Bytes, PacketFields
<1>2. <<HeaderByte(p)>> \in Seq(Bytes) /\ Len(<<HeaderByte(p)>>) = 1 /\ <<HeaderByte(p)>>[1] = HeaderByte(p)
  BY <1>1
<1>3. parts \in Seq(Bytes) /\ Len(parts) = k /\ \A i \in 1..k : parts[i] = <<p.nal, i>>
  BY <1>1
<1>4. Whole(p, k) = <<HeaderByte(p)>> \o parts
  BY Zenon DEF Whole
<1> HIDE DEF parts
<1> QED
  BY <1>2, <1>3, <1>4

\* One more fragment.
LEMMA WholeGrows ==
    ASSUME NEW p \in PacketFields, NEW k \in Nat
    PROVE  Append(Whole(p, k), <<p.nal, k + 1>>) = Whole(p, k + 1)
<1> DEFINE w == Whole(p, k)
           t == Whole(p, k + 1)
           byte == <<p.nal, k + 1>>
           s == Append(w, byte)
<1>1. byte \in Bytes /\ k + 1 \in Nat
  BY DEF Bytes, PacketFields
<1>2. w \in Seq(Bytes) /\ Len(w) = k + 1 /\ w[1] = HeaderByte(p)
      /\ \A i \in 2..k + 1 : w[i] = <<p.nal, i - 1>>
  BY WholeElements, Zenon
<1>3. t \in Seq(Bytes) /\ Len(t) = (k + 1) + 1 /\ t[1] = HeaderByte(p)
      /\ \A i \in 2..(k + 1) + 1 : t[i] = <<p.nal, i - 1>>
  BY <1>1, WholeElements, Zenon
<1> HIDE DEF w, t
<1>4. s \in Seq(Bytes) /\ Len(s) = k + 2 /\ s[k + 2] = byte
      /\ \A i \in 1..k + 1 : s[i] = w[i]
  <2> HIDE DEF byte
  <2>1. s \in Seq(Bytes) /\ Len(s) = Len(w) + 1 /\ s[Len(w) + 1] = byte
        /\ \A i \in 1..Len(w) : s[i] = w[i]
    BY <1>1, <1>2
  <2> HIDE DEF s
  <2> QED
    BY <1>2, <2>1
<1> HIDE DEF s
<1>5. \A i \in 1..k + 2 : s[i] = t[i]
  <2> TAKE i \in 1..k + 2
  <2>1. CASE i = 1
    BY <1>2, <1>3, <1>4, <2>1
  <2>2. CASE i \in 2..k + 1
    <3>1. s[i] = w[i]
      BY <1>4, <2>2
    <3>2. w[i] = <<p.nal, i - 1>>
      BY <1>2, <2>2, Zenon
    <3>3. t[i] = <<p.nal, i - 1>>
      BY <1>3, <2>2
    <3> QED
      BY <3>1, <3>2, <3>3, Zenon
  <2>3. CASE i = k + 2
    BY <1>3, <1>4, <2>3
  <2> QED
    BY <2>1, <2>2, <2>3
<1>6. s = t
  BY <1>3, <1>4, <1>5, SameElements
<1> QED
  BY <1>6, Zenon DEF s, t, w

\* Two packets of one unit stand for the same bytes.
LEMMA WholeOfUnit ==
    ASSUME NEW a, NEW b, NEW k, a.nal = b.nal, a.header = b.header
    PROVE  Whole(a, k) = Whole(b, k) /\ HeaderByte(a) = HeaderByte(b)
BY Zenon DEF Whole, HeaderByte

-----------------------------------------------------------------------------
(* The sender. *)

\* The newest packet can still arrive, and one may have ceased to.
LEMMA WireGrows ==
    ASSUME wire \in Seq(PacketFields), NEW n \in PacketFields, n.num # 0, Transmit(n)
    PROVE  /\ wire' \in Seq(PacketFields) /\ Newest' = n /\ n # NoPacket
           /\ Seen' \subseteq Seen \cup {n}
<1> DEFINE all == Append(wire, n)
<1>1. /\ all \in Seq(PacketFields) /\ Len(all) = Len(wire) + 1 /\ Len(wire) \in Nat
      /\ all[Len(wire) + 1] = n /\ \A i \in 1..Len(wire) : all[i] = wire[i]
  OBVIOUS
<1>2. last' = last /\ wire' = IF Len(all) > Delay THEN Tail(all) ELSE all
  BY Zenon DEF Transmit
<1>3. DOMAIN wire = 1..Len(wire) /\ \A i \in 1..Len(wire) : wire[i] \in Seen
  BY DEF Seen
<1> HIDE DEF all
<1>4. \A i \in 1..Len(all) : all[i] \in Seen \cup {n}
  BY <1>1, <1>3
<1>5. /\ wire' \in Seq(PacketFields) /\ wire' # <<>> /\ wire'[Len(wire')] = n
      /\ \A i \in DOMAIN wire' : wire'[i] \in Seen \cup {n}
  <2>1. CASE Len(all) > Delay
    <3>1. Delay >= 1 /\ Len(all) > 1 /\ all # <<>>
      BY <1>1, <2>1, WrapAssumption
    <3>2. /\ Tail(all) \in Seq(PacketFields) /\ Len(Tail(all)) = Len(all) - 1
          /\ \A i \in 1..Len(Tail(all)) : Tail(all)[i] = all[i + 1]
      BY <1>1, <3>1
    <3>3. wire' \in Seq(PacketFields) /\ Len(wire') = Len(wire)
          /\ \A i \in 1..Len(wire') : wire'[i] = all[i + 1]
      BY <1>1, <1>2, <2>1, <3>2
    <3>4. DOMAIN wire' = 1..Len(wire') /\ Len(wire) >= 1
      BY <1>1, <3>1, <3>3
    <3>5. wire'[Len(wire')] = n
      BY <1>1, <3>3, <3>4
    <3>6. \A i \in DOMAIN wire' : wire'[i] \in Seen \cup {n}
      BY <1>1, <1>4, <3>3, <3>4
    <3> QED
      BY <3>3, <3>4, <3>5, <3>6
  <2>2. CASE ~(Len(all) > Delay)
    <3>1. wire' = all
      BY <1>2, <2>2, Zenon
    <3>2. DOMAIN all = 1..Len(all) /\ all # <<>>
      BY <1>1
    <3> QED
      BY <1>1, <1>4, <3>1, <3>2, Zenon
  <2> QED
    BY <2>1, <2>2, Zenon
<1>6. Seen' \subseteq Seen \cup {n}
  <2> SUFFICES ASSUME NEW p \in Seen' PROVE p \in Seen \cup {n}
    BY Zenon
  <2>1. CASE \E i \in DOMAIN wire' : p = wire'[i]
    BY <1>5, <2>1, Zenon
  <2>2. CASE p = last /\ p.num # 0
    BY <2>2, Zenon DEF Seen
  <2> QED
    BY <1>2, <2>1, <2>2, Zenon DEF Seen
<1> QED
  BY <1>5, <1>6 DEF Newest, NoPacket

\* A new packet that agrees with those before it.
LEMMA SenderExtends ==
    ASSUME SenderInv, NEW n \in Packets, Transmit(n), frame' \in 0..FrameLimit,
           frame' + n.total - n.part <= FrameLimit, frame' >= 1,
           \A a \in Seen : /\ a.num < n.num /\ a.nal <= n.nal /\ a.time <= n.time
                           /\ a.time = n.time => n.num - a.num < frame'
                           /\ PacketsAgree(a, n) /\ PacketsAgree(n, a)
    PROVE  SenderInv'
<1>1. n \in PacketFields /\ n.num >= 1
  BY Zenon DEF Packets
<1>2. n.num # 0 /\ n.num \in Nat /\ n.part \in Nat /\ n.total \in Nat
  BY <1>1 DEF PacketFields
<1>3. /\ wire' \in Seq(PacketFields) /\ Newest' = n /\ n # NoPacket
      /\ Seen' \subseteq Seen \cup {n}
  BY <1>1, <1>2, WireGrows, Zenon DEF SenderInv
<1>4. sent' \in Nat /\ last' \in PacketFields
  BY DEF Transmit, SenderInv
<1>5. \A a \in Seen' : Before(a)'
  <2> SUFFICES ASSUME NEW a \in Seen \cup {n} PROVE Before(a)'
    BY <1>3, Zenon
  <2>1. CASE a = n
    BY <1>1, <1>2, <1>3, <2>1 DEF Before, PacketFields
  <2>2. CASE a \in Seen
    <3>1. a \in Packets
      BY <2>2, Zenon DEF SenderInv, Before
    <3> QED
      BY <1>2, <1>3, <2>2, <3>1 DEF Before, Packets, PacketFields
  <2> QED
    BY <2>1, <2>2, Zenon
<1>6. PacketsAgree(n, n)
  BY <1>2, WrapAssumption DEF PacketsAgree
<1>7. \A a, b \in Seen' : PacketsAgree(a, b)
  BY <1>3, <1>6, Zenon DEF SenderInv
<1>8. frame' + Newest'.total - Newest'.part <= FrameLimit
  BY <1>3, Zenon
<1> QED
  BY <1>3, <1>4, <1>5, <1>7, <1>8, Zenon DEF SenderInv, PacketsAgree

\* What is known of the newest packet.
LEMMA NewestTyped ==
    ASSUME SenderInv
    PROVE  /\ Newest \in PacketFields /\ Newest.part <= Newest.total
           /\ Newest # NoPacket => Newest \in Seen
<1>1. CASE wire = <<>>
  BY <1>1 DEF Newest, NoPacket, PacketFields
<1>2. CASE wire # <<>>
  <2>1. wire \in Seq(PacketFields) /\ Len(wire) \in DOMAIN wire /\ Newest = wire[Len(wire)]
    BY <1>2 DEF SenderInv, Newest
  <2>2. Newest \in Seen
    BY <2>1, Zenon DEF Seen
  <2>3. Newest \in Packets
    BY <2>2, Zenon DEF SenderInv, Before
  <2> QED
    BY <2>2, <2>3, Zenon DEF Packets
<1> QED
  BY <1>1, <1>2, Zenon

\* The next fragment of the newest unit agrees with the packets before it.
LEMMA SendNextKeeps ==
    ASSUME SenderInv, SendNext
    PROVE  SenderInv'
<1> DEFINE m == Newest
           n == [m EXCEPT !.part = @ + 1, !.num = @ + 1]
<1>1. m \in PacketFields /\ m.part < m.total /\ m # NoPacket /\ m \in Seen
  BY NewestTyped DEF SendNext, NoPacket
<1>2. /\ n.num = m.num + 1 /\ n.part = m.part + 1 /\ n.time = m.time /\ n.nal = m.nal
      /\ n.header = m.header /\ n.total = m.total /\ n \in PacketFields
  <2> HIDE DEF m
  <2>1. m \in [num : Nat, time : Nat, nal : Nat, header : 0..1, part : Nat, total : Nat]
    BY <1>1, Zenon DEF PacketFields
  <2>2. /\ n.num = m.num + 1 /\ n.part = m.part + 1 /\ n.time = m.time /\ n.nal = m.nal
        /\ n.header = m.header /\ n.total = m.total
    BY <2>1, Zenon
  <2>3. m.num + 1 \in Nat /\ m.part + 1 \in Nat
    BY <2>1
  <2>4. n \in PacketFields
    BY <2>1, <2>3, Zenon DEF PacketFields
  <2> QED
    BY <2>2, <2>4, Zenon
<1>3. /\ m.num \in Nat /\ m.part \in Nat /\ m.total \in Nat /\ m.time \in Nat /\ m.nal \in Nat
      /\ frame \in 0..FrameLimit /\ frame + m.total - m.part <= FrameLimit /\ FrameLimit \in Nat
  BY <1>1, WrapAssumption, Zenon DEF SenderInv, PacketFields
<1>4. Transmit(n) /\ frame' = frame + 1
  BY Zenon DEF SendNext
<1> HIDE DEF m, n
<1>5. n \in Packets
  BY <1>1, <1>2, <1>3 DEF Packets
<1>6. /\ frame' \in 0..FrameLimit /\ frame' >= 1
      /\ frame' + n.total - n.part <= FrameLimit
  BY <1>1, <1>2, <1>3, <1>4
<1>7. ASSUME NEW a \in Seen
      PROVE  /\ a.num < n.num /\ a.nal <= n.nal /\ a.time <= n.time
             /\ a.time = n.time => n.num - a.num < frame'
             /\ PacketsAgree(a, n) /\ PacketsAgree(n, a)
  <2>1. /\ a \in PacketFields /\ a.num <= m.num /\ a.nal <= m.nal /\ a.time <= m.time
        /\ a.time = m.time => m.num - a.num < frame
    BY Zenon DEF SenderInv, Before, Packets, m
  <2>2. /\ a.num \in Nat /\ a.part \in Nat /\ a.total \in Nat /\ a.time \in Nat /\ a.nal \in Nat
    BY <2>1, Zenon DEF PacketFields
  <2>3. PacketsAgree(a, m)
    BY <1>1, Zenon DEF SenderInv
  <2>4. /\ a.num < n.num /\ a.nal <= n.nal /\ a.time <= n.time
        /\ a.time = n.time => n.num - a.num < frame'
    BY <1>2, <1>3, <1>4, <2>1, <2>2
  <2>5. n.num = a.num + 1 => a.nal = n.nal
    <3>0. n.num = m.num + 1 /\ m.num \in Nat /\ a.num \in Nat
      BY <1>2, <1>3, <2>2, Zenon
    <3>1. n.num = a.num + 1 => a.num = m.num
      BY <3>0
    <3> QED
      BY <1>2, <2>3, <3>1, Zenon DEF PacketsAgree
  <2>6. a.nal = n.nal => /\ a.time = n.time /\ a.total = n.total /\ a.header = n.header
                         /\ n.num - a.num = n.part - a.part
    <3> SUFFICES ASSUME a.nal = n.nal
                 PROVE  /\ a.time = n.time /\ a.total = n.total /\ a.header = n.header
                        /\ n.num - a.num = n.part - a.part
      BY Zenon
    <3>1. /\ a.time = m.time /\ a.total = m.total /\ a.header = m.header
          /\ m.num - a.num = m.part - a.part
      BY <1>2, <2>3, Zenon DEF PacketsAgree
    <3> QED
      BY <1>2, <1>3, <2>2, <3>1
  <2>7. PacketsAgree(a, n)
    BY <1>2, <1>3, <1>6, <2>2, <2>4, <2>5, <2>6 DEF PacketsAgree
  <2>8. PacketsAgree(n, a)
    <3>1. ~(n.num = a.num) /\ ~(a.num = n.num + 1) /\ a.num - n.num < FrameLimit
      BY <1>2, <1>3, <2>2, <2>4
    <3>2. a.nal = n.nal => a.num - n.num = a.part - n.part
      <4>1. n.num \in Nat /\ n.part \in Nat
        BY <1>2, <1>3
      <4>2. n.num - a.num = n.part - a.part => a.num - n.num = a.part - n.part
        BY <2>2, <4>1
      <4> QED
        BY <2>6, <4>2, Zenon
    <3> QED
      BY <2>6, <3>1, <3>2, Zenon DEF PacketsAgree
  <2> QED
    BY <2>4, <2>7, <2>8, Zenon
<1> QED
  BY <1>4, <1>5, <1>6, <1>7, SenderExtends, Zenon

\* The first packet of a new unit, in the same frame or the next.
LEMMA SendFirstKeeps ==
    ASSUME SenderInv, NEW total \in Totals, NEW newFrame \in BOOLEAN, SendFirst(total, newFrame)
    PROVE  SenderInv'
<1> DEFINE m == Newest
           n == [num |-> m.num + 1, nal |-> m.nal + 1,
                 time |-> IF newFrame THEN m.time + 1 ELSE m.time,
                 header |-> (m.nal + 1) % 2, part |-> 1, total |-> total]
<1>1. m \in PacketFields /\ m.part = m.total /\ (m # NoPacket => m \in Seen)
  BY NewestTyped, Zenon DEF SendFirst
<1>2. /\ m.num \in Nat /\ m.part \in Nat /\ m.total \in Nat /\ m.time \in Nat /\ m.nal \in Nat
      /\ frame \in 0..FrameLimit /\ FrameLimit \in Nat /\ total \in 1..FrameLimit
  BY <1>1, WrapAssumption, SizeAssumption, Zenon DEF SenderInv, PacketFields
<1>3. (m.nal + 1) % 2 \in 0..1
  BY <1>2
<1>4. /\ n.num = m.num + 1 /\ n.part = 1 /\ n.nal = m.nal + 1 /\ n.total = total
      /\ n.time = IF newFrame THEN m.time + 1 ELSE m.time
  BY Zenon
<1>5. n \in PacketFields
  BY <1>2, <1>3 DEF PacketFields
<1>6. /\ Transmit(n) /\ frame' = IF newFrame THEN 1 ELSE frame + 1
      /\ newFrame \/ frame + total <= FrameLimit
  BY Zenon DEF SendFirst
<1>7. m = NoPacket => Seen = {}
  BY Zenon DEF SenderInv
<1> HIDE DEF n
<1>8. \A a \in Seen : /\ a \in PacketFields /\ a.num <= m.num /\ a.nal <= m.nal /\ a.time <= m.time
                      /\ a.time = m.time => m.num - a.num < frame
  BY Zenon DEF SenderInv, Before, Packets
<1>9. \A a \in Seen : PacketsAgree(a, m) /\ a.part <= a.total
  BY <1>1, <1>7, Zenon DEF SenderInv, Before, Packets
<1> HIDE DEF m
<1>10. n \in Packets
  BY <1>2, <1>4, <1>5 DEF Packets
<1>11. /\ frame' \in 0..FrameLimit /\ frame' >= 1
       /\ frame' + n.total - n.part <= FrameLimit
  BY <1>2, <1>4, <1>6
<1>12. ASSUME NEW a \in Seen
       PROVE  /\ a.num < n.num /\ a.nal <= n.nal /\ a.time <= n.time
              /\ a.time = n.time => n.num - a.num < frame'
              /\ PacketsAgree(a, n) /\ PacketsAgree(n, a)
  <2>1. /\ a.num \in Nat /\ a.part \in Nat /\ a.total \in Nat /\ a.time \in Nat /\ a.nal \in Nat
        /\ a.num <= m.num /\ a.nal <= m.nal /\ a.time <= m.time
        /\ a.time = m.time => m.num - a.num < frame
    BY <1>8, Zenon DEF PacketFields
  <2>2. a.num < n.num /\ a.nal < n.nal /\ a.time <= n.time
    BY <1>2, <1>4, <2>1
  <2>3. a.time = n.time => n.num - a.num < frame'
    BY <1>2, <1>4, <1>6, <2>1
  <2>4. ~(n.num = a.num + 1 /\ a.part < a.total)
    <3>1. n.num = a.num + 1 => a.num = m.num
      BY <1>2, <1>4, <2>1
    <3>2. a.num = m.num => a.part = a.total
      BY <1>1, <1>9, Zenon DEF PacketsAgree
    <3> QED
      BY <2>1, <3>1, <3>2
  <2>5. n.num \in Nat /\ n.nal \in Nat
    BY <1>2, <1>4
  <2>6. a.num # n.num /\ a.nal # n.nal /\ ~(a.num = n.num + 1) /\ a.num - n.num < FrameLimit
    BY <1>2, <2>1, <2>2, <2>5
  <2>7. a.time = n.time => n.num - a.num < FrameLimit
    BY <1>2, <1>11, <2>1, <2>3, <2>5
  <2> QED
    BY <2>2, <2>3, <2>4, <2>6, <2>7, <2>1, <2>5 DEF PacketsAgree
<1> QED
  BY <1>6, <1>10, <1>11, <1>12, SenderExtends, Zenon

-----------------------------------------------------------------------------
(* The receiver. *)

\* A packet that arrives is one of those seen, with the last one before it.
LEMMA ArrivalIsKnown ==
    ASSUME SenderInv, NEW i \in DOMAIN wire
    PROVE  wire[i] \in Seen /\ wire[i] \in Packets
BY Zenon DEF Seen, SenderInv, Before

\* The sender is not concerned by what arrives.
LEMMA ArrivalKeepsSender ==
    ASSUME SenderInv, UNCHANGED senderVars, last' \in PacketFields,
           last'.num # 0 => last' \in Seen
    PROVE  SenderInv'
<1>1. sent' = sent /\ frame' = frame /\ wire' = wire /\ Newest' = Newest
  BY Zenon DEF senderVars, Newest
<1>2. Seen' \subseteq Seen
  <2> SUFFICES ASSUME NEW p \in Seen' PROVE p \in Seen
    BY Zenon
  <2>1. CASE \E i \in DOMAIN wire : p = wire[i]
    BY <2>1, Zenon DEF Seen
  <2>2. CASE p = last' /\ p.num # 0
    BY <2>2, Zenon
  <2> QED
    BY <1>1, <2>1, <2>2, Zenon DEF Seen
<1>3. \A p \in Seen' : Before(p)'
  BY <1>1, <1>2, Zenon DEF SenderInv, Before
<1>4. \A a, b \in Seen' : PacketsAgree(a, b)'
  BY <1>2, Zenon DEF SenderInv, PacketsAgree
<1> QED
  BY <1>1, <1>2, <1>3, <1>4, Zenon DEF SenderInv

\* What follows the last packet, by its sequence number and its timestamp, is the next
\* fragment of the same unit: packets of one frame are fewer than the sequence numbers.
LEMMA FollowerIsNext ==
    ASSUME SenderInv, last.num # 0, last.part < last.total,
           NEW p \in Seen, Following(last) = <<Sequence(p), p.time>>
    PROVE  p.nal = last.nal /\ p.part = last.part + 1
<1>1. last \in Seen
  BY Zenon DEF Seen
<1>2. last \in PacketFields /\ p \in PacketFields
  BY <1>1, Zenon DEF SenderInv, Before, Packets
<1>3. last.num \in Nat /\ p.num \in Nat /\ last.part \in Nat /\ p.part \in Nat
  BY <1>2, Zenon DEF PacketFields
<1>4. PacketsAgree(last, p) /\ PacketsAgree(p, last)
  BY <1>1, Zenon DEF SenderInv
<1>5. (Sequence(last) + 1) % Wrap = Sequence(p) /\ p.time = last.time
  BY Zenon DEF Following
<1>6. Wrap \in Nat \ {0} /\ FrameLimit \in Nat /\ FrameLimit < Wrap
  BY WrapAssumption
<1>7. (last.num + 1) % Wrap = p.num % Wrap
  BY <1>3, <1>5, <1>6, ModSucc, Zenon DEF Sequence
<1>8. p.num - last.num < FrameLimit /\ last.num - p.num < FrameLimit
  BY <1>4, <1>5, Zenon DEF PacketsAgree
<1>9. last.num + 1 \in Nat /\ (last.num + 1) - p.num < Wrap /\ p.num - (last.num + 1) < Wrap
  BY <1>3, <1>6, <1>8
<1>10. p.num = last.num + 1
  BY <1>3, <1>6, <1>7, <1>9, ModEqual, Zenon
<1>11. p.nal = last.nal
  BY <1>4, <1>10, Zenon DEF PacketsAgree
<1>12. p.num - last.num = p.part - last.part
  BY <1>4, <1>11, Zenon DEF PacketsAgree
<1> QED
  BY <1>3, <1>10, <1>11, <1>12

\* And the next fragment of the same unit follows the last packet.
LEMMA NextFollows ==
    ASSUME SenderInv, last.num # 0, NEW p \in Seen, p.nal = last.nal, p.part = last.part + 1
    PROVE  Following(last) = <<Sequence(p), p.time>>
<1>1. last \in Seen
  BY Zenon DEF Seen
<1>2. last \in PacketFields /\ p \in PacketFields
  BY <1>1, Zenon DEF SenderInv, Before, Packets
<1>3. last.num \in Nat /\ p.num \in Nat /\ last.part \in Nat /\ p.part \in Nat
  BY <1>2, Zenon DEF PacketFields
<1>4. p.time = last.time /\ p.num - last.num = p.part - last.part
  BY <1>1, Zenon DEF SenderInv, PacketsAgree
<1>5. p.num = last.num + 1
  BY <1>3, <1>4
<1>6. (Sequence(last) + 1) % Wrap = Sequence(p)
  BY <1>3, <1>5, WrapAssumption, ModSucc DEF Sequence
<1> QED
  BY <1>4, <1>6, Zenon DEF Following

\* What two packets of one unit share.
LEMMA SameUnit ==
    ASSUME SenderInv, last.num # 0, NEW p \in Seen, p.nal = last.nal
    PROVE  p.total = last.total /\ p.header = last.header
BY Zenon DEF SenderInv, Seen, PacketsAgree

\* A fragment that is not rejected completes the unit up to itself.
LEMMA FragmentExtends ==
    ASSUME SenderInv, ReceiverInv, NEW p \in Seen, ~Rejects(p)
    PROVE  /\ Append(Base(p), <<p.nal, p.part>>) = Whole(p, p.part)
           /\ p.part + 1 <= MaxNalBytes
<1>1. p \in PacketFields /\ p.part \in Nat /\ p.part >= 1 /\ MaxNalBytes \in Nat
  BY SizeAssumption, Zenon DEF SenderInv, Before, Packets, PacketFields
<1> DEFINE k == p.part - 1
<1>2. k \in Nat /\ k + 1 = p.part
  BY <1>1
<1>3. Base(p) = Whole(p, k)
  <2>1. CASE IsStart(p)
    <3>1. k = 0 /\ Base(p) = <<HeaderByte(p)>>
      BY <1>1, <2>1 DEF IsStart, Base
    <3>2. Whole(p, 0) \in Seq(Bytes) /\ Len(Whole(p, 0)) = 1 /\ Whole(p, 0)[1] = HeaderByte(p)
      <4>1. 0 \in Nat /\ 0 + 1 = 1
        OBVIOUS
      <4>2. Whole(p, 0) \in Seq(Bytes) /\ Len(Whole(p, 0)) = 0 + 1 /\ Whole(p, 0)[1] = HeaderByte(p)
        BY <1>1, <4>1, WholeElements, Zenon
      <4> QED
        BY <4>1, <4>2, Zenon
    <3>3. <<HeaderByte(p)>> \in Seq(Bytes) /\ Len(<<HeaderByte(p)>>) = 1
          /\ <<HeaderByte(p)>>[1] = HeaderByte(p)
      BY <1>1 DEF HeaderByte, Bytes, PacketFields
    <3>4. Whole(p, 0) = <<HeaderByte(p)>>
      BY <3>2, <3>3, SameElements
    <3> QED
      BY <3>1, <3>4, Zenon
  <2>2. CASE ~IsStart(p)
    <3>1. nextRtp = <<Sequence(p), p.time>> /\ inProgress
      BY <2>2, Zenon DEF Rejects, Discontinuous, WrongHeader
    <3>2. /\ last.num # 0 /\ last.part < last.total /\ nextRtp = Following(last)
          /\ buffer = Whole(last, last.part)
      BY <3>1, Zenon DEF ReceiverInv
    <3>3. p.nal = last.nal /\ p.part = last.part + 1
      BY <3>1, <3>2, FollowerIsNext, Zenon
    <3>4. last.part = k
      BY <1>1, <3>3 DEF SenderInv, PacketFields
    <3>5. Whole(last, k) = Whole(p, k)
      BY <3>2, <3>3, SameUnit, WholeOfUnit, Zenon
    <3> QED
      BY <2>2, <3>2, <3>4, <3>5, Zenon DEF Base
  <2> QED
    BY <2>1, <2>2, Zenon
<1>4. Append(Whole(p, k), <<p.nal, k + 1>>) = Whole(p, k + 1)
  BY <1>1, <1>2, WholeGrows, Zenon
<1>5. Len(Whole(p, k)) = k + 1
  BY <1>1, <1>2, WholeElements, Zenon
<1>6. ~(1 > MaxNalBytes - Len(Base(p)))
  BY Zenon DEF Rejects, TooLong
<1> HIDE DEF k
<1> QED
  BY <1>1, <1>2, <1>3, <1>4, <1>5, <1>6

\* A fragment in order at an idle start is accepted.
LEMMA InOrderIsAccepted ==
    ASSUME SenderInv, ReceiverInv, NEW p \in Seen, ~IsSingle(p), Observe(p),
           inOrder' > 0, inOrder' < MaxNalBytes
    PROVE  ~Rejects(p) /\ inOrder' = p.part
<1>1. p \in Packets /\ p \in PacketFields /\ p.part \in Nat /\ p.part <= p.total /\ MaxNalBytes \in Nat
  BY SizeAssumption, Zenon DEF SenderInv, Before, Packets, PacketFields
<1>2. CASE IsStart(p)
  <2>1. inOrder' = 1 /\ ~inProgress
    BY <1>2 DEF Observe
  <2>2. nextRtp = NoRtp
    BY <2>1, Zenon DEF ReceiverInv
  <2>3. Len(Base(p)) = 1
    BY <1>2, Zenon DEF Base
  <2>4. ~TooLong(p)
    BY <1>1, <2>1, <2>3 DEF TooLong
  <2> QED
    BY <1>2, <2>1, <2>2, <2>4, Zenon DEF Rejects, Discontinuous, StaleStart, WrongHeader, IsStart
<1>3. CASE ~IsStart(p)
  <2>1. inOrder > 0 /\ p.nal = last.nal /\ p.part = last.part + 1 /\ inOrder' = inOrder + 1
    BY <1>3 DEF Observe
  <2>2. inOrder \in Nat /\ inOrder < MaxNalBytes
    BY <1>1, <2>1 DEF ReceiverInv
  <2>3. inOrder = last.part /\ last.num # 0 /\ (last.part < last.total => inProgress)
    BY <2>1, <2>2, Zenon DEF ReceiverInv
  <2>4. p.total = last.total /\ p.header = last.header
    BY <2>1, <2>3, SameUnit, Zenon
  <2>5. last.part \in Nat /\ last.total \in Nat /\ last \in PacketFields
    BY Zenon DEF SenderInv, PacketFields
  <2>6. last.part < last.total
    BY <1>1, <2>1, <2>4, <2>5
  <2>7. inProgress /\ nextRtp = Following(last) /\ buffer = Whole(last, last.part)
    BY <2>3, <2>6, Zenon DEF ReceiverInv
  <2>8. ~Discontinuous(p)
    BY <2>1, <2>3, <2>7, NextFollows, Zenon DEF Discontinuous
  <2>9. buffer \in Seq(Bytes) /\ Len(buffer) = last.part + 1 /\ buffer[1] = HeaderByte(last)
    BY <2>5, <2>7, WholeElements, Zenon
  <2>10. ~WrongHeader(p)
    <3>1. HeaderByte(p) = HeaderByte(last)
      BY <2>4, Zenon DEF HeaderByte
    <3>2. Head(buffer) = buffer[1]
      BY <2>5, <2>9
    <3> QED
      BY <2>7, <2>9, <3>1, <3>2, Zenon DEF WrongHeader
  <2>11. ~TooLong(p)
    <3>1. Base(p) = buffer
      BY <1>3, Zenon DEF Base
    <3> QED
      BY <1>1, <2>1, <2>3, <2>5, <2>9, <3>1 DEF TooLong
  <2> QED
    BY <1>3, <2>1, <2>3, <2>8, <2>10, <2>11, Zenon DEF Rejects, StaleStart
<1> QED
  BY <1>2, <1>3, Zenon

\* process_rtp_packet with any packet that can still arrive.
LEMMA ArrivalKeeps ==
    ASSUME SenderInv, ReceiverInv, NEW i \in DOMAIN wire, ProcessRtpPacket(wire[i])
    PROVE  SenderInv' /\ ReceiverInv'
<1> DEFINE p == wire[i]
<1>1. p \in Seen /\ p \in Packets
  BY ArrivalIsKnown, Zenon
<1>2. Observe(p) /\ UNCHANGED senderVars
  BY Zenon DEF ProcessRtpPacket
<1>3. ProcessSingle(p) \/ ProcessRejected(p) \/ ProcessFragment(p)
  BY Zenon DEF ProcessRtpPacket
<1> HIDE DEF p
<1>4. /\ p \in PacketFields /\ p.num \in Nat /\ p.num # 0 /\ p.part \in Nat /\ p.total \in Nat
      /\ p.part >= 1 /\ p.part <= p.total
  BY <1>1 DEF Packets, PacketFields
<1>5. last' = p /\ inOrder' \in Nat
  BY <1>2 DEF Observe, ReceiverInv
<1>6. SenderInv'
  BY <1>1, <1>2, <1>4, <1>5, ArrivalKeepsSender, Zenon
<1>7. MaxNalBytes \in Nat /\ Len(<<>>) = 0
  BY SizeAssumption, Zenon
<1>8. ReceiverInv'
  <2>1. CASE ProcessSingle(p)
    <3>1. p.part = 1 /\ p.total = 1 /\ IsStart(p) /\ IsSingle(p)
      BY <1>4, <2>1 DEF ProcessSingle, IsSingle, IsStart
    <3>2. inOrder' = 0 /\ ~(inOrder' > 0)
      BY <1>2, <3>1 DEF Observe
    <3>3. /\ buffer' = <<>> /\ inProgress' = FALSE /\ nextRtp' = NoRtp
          /\ output' = Whole(p, p.total)
      BY <2>1, <3>1, Zenon DEF ProcessSingle, Reset
    <3> QED
      BY <1>5, <3>2, <3>3, Zenon DEF ReceiverInv, Whole, HeaderByte
  <2>2. CASE ProcessRejected(p)
    <3>1. ~(inOrder' > 0 /\ inOrder' < MaxNalBytes)
      BY <1>1, <1>2, <2>2, InOrderIsAccepted, Zenon DEF ProcessRejected
    <3>2. buffer' = <<>> /\ inProgress' = FALSE /\ nextRtp' = NoRtp /\ output' = <<>>
      BY <2>2, Zenon DEF ProcessRejected, Reset
    <3> QED
      BY <1>5, <3>1, <3>2, Zenon DEF ReceiverInv
  <2>3. CASE ProcessFragment(p)
    <3> DEFINE unit == Append(Base(p), <<p.nal, p.part>>)
    <3>1. unit = Whole(p, p.part) /\ p.part + 1 <= MaxNalBytes
      BY <1>1, <2>3, FragmentExtends, Zenon DEF ProcessFragment
    <3>2. Len(Whole(p, p.part)) = p.part + 1
      BY <1>4, WholeElements, Zenon
    <3>3. inOrder' > 0 /\ inOrder' < MaxNalBytes => inOrder' = p.part
      BY <1>1, <1>2, <2>3, InOrderIsAccepted, Zenon DEF ProcessFragment
    <3>4. IF p.part = p.total
          THEN Reset /\ output' = unit
          ELSE /\ buffer' = unit /\ inProgress' = TRUE /\ nextRtp' = Following(p)
               /\ output' = <<>>
      BY <2>3, Zenon DEF ProcessFragment
    <3> HIDE DEF unit
    <3>5. CASE p.part = p.total
      <4>1. /\ buffer' = <<>> /\ inProgress' = FALSE /\ nextRtp' = NoRtp
            /\ output' = Whole(p, p.total)
        BY <3>1, <3>4, <3>5, Zenon DEF Reset
      <4>2. ~(p.part < p.total)
        BY <1>4, <3>5
      <4>3. last'.part = p.part /\ last'.total = p.total /\ last'.num # 0
            /\ Whole(last', last'.total) = Whole(p, p.total)
        BY <1>4, <1>5, Zenon
      <4> QED
        BY <1>5, <3>3, <4>1, <4>2, <4>3, Zenon DEF ReceiverInv, Whole, HeaderByte
    <3>6. CASE p.part # p.total
      <4>1. /\ buffer' = Whole(p, p.part) /\ inProgress' = TRUE /\ nextRtp' = Following(p)
            /\ output' = <<>>
        BY <3>1, <3>4, <3>6, Zenon
      <4>2. p.part < p.total
        BY <1>4, <3>6
      <4>3. Len(buffer') <= MaxNalBytes
        BY <3>1, <3>2, <4>1, Zenon
      <4> QED
        BY <1>4, <1>5, <3>3, <3>6, <4>1, <4>2, <4>3, Zenon
        DEF ReceiverInv, Whole, HeaderByte, Following, Sequence
    <3> QED
      BY <3>5, <3>6, Zenon
  <2> QED
    BY <1>3, <2>1, <2>2, <2>3, Zenon
<1> QED
  BY <1>6, <1>8, Zenon

\* process_rtp_packet with a payload it rejects.
LEMMA InvalidKeeps ==
    ASSUME SenderInv, ProcessInvalid
    PROVE  SenderInv' /\ ReceiverInv'
<1>1. /\ buffer' = <<>> /\ inProgress' = FALSE /\ nextRtp' = NoRtp /\ output' = <<>>
      /\ last' = NoPacket /\ inOrder' = 0 /\ UNCHANGED senderVars
  BY Zenon DEF ProcessInvalid, Reset
<1>2. last' \in PacketFields /\ last'.num = 0
  BY <1>1 DEF PacketFields, NoPacket
<1>3. SenderInv'
  BY <1>1, <1>2, ArrivalKeepsSender, Zenon
<1>4. ~(inOrder' > 0) /\ inOrder' \in Nat
  BY <1>1
<1>5. ReceiverInv'
  BY <1>1, <1>4, Zenon DEF ReceiverInv
<1> QED
  BY <1>3, <1>5, Zenon

\* The receiver is not concerned by what is sent.
LEMMA TransmitKeepsReceiver ==
    ASSUME ReceiverInv, UNCHANGED <<buffer, inProgress, nextRtp, output, last, inOrder>>
    PROVE  ReceiverInv'
BY Zenon DEF ReceiverInv, Whole, HeaderByte, Following, Sequence

\* Every step keeps both halves of the invariant.
LEMMA StepReassembles ==
    ASSUME SenderInv, ReceiverInv, [ReassemblyNext]_reassemblyVars
    PROVE  SenderInv' /\ ReceiverInv'
<1>1. CASE SendNext
  <2>1. UNCHANGED <<buffer, inProgress, nextRtp, output, last, inOrder>>
    BY <1>1, Zenon DEF SendNext, Transmit
  <2> QED
    BY <1>1, <2>1, SendNextKeeps, TransmitKeepsReceiver, Zenon
<1>2. ASSUME NEW total \in Totals, NEW newFrame \in BOOLEAN, SendFirst(total, newFrame)
      PROVE  SenderInv' /\ ReceiverInv'
  <2>1. UNCHANGED <<buffer, inProgress, nextRtp, output, last, inOrder>>
    BY <1>2, Zenon DEF SendFirst, Transmit
  <2> QED
    BY <1>2, <2>1, SendFirstKeeps, TransmitKeepsReceiver, Zenon
<1>3. ASSUME NEW i \in DOMAIN wire, ProcessRtpPacket(wire[i])
      PROVE  SenderInv' /\ ReceiverInv'
  BY <1>3, ArrivalKeeps, Zenon
<1>4. CASE ProcessInvalid
  BY <1>4, InvalidKeeps, Zenon
<1>5. CASE UNCHANGED reassemblyVars
  <2>1. /\ UNCHANGED senderVars /\ last' = last
        /\ UNCHANGED <<buffer, inProgress, nextRtp, output, last, inOrder>>
    BY <1>5, Zenon DEF reassemblyVars
  <2>2. last \in PacketFields /\ (last.num # 0 => last \in Seen)
    BY Zenon DEF SenderInv, Seen
  <2>3. SenderInv'
    BY <2>1, <2>2, ArrivalKeepsSender, Zenon
  <2> QED
    BY <2>1, <2>3, TransmitKeepsReceiver, Zenon
<1> QED
  BY <1>1, <1>2, <1>3, <1>4, <1>5, Zenon DEF ReassemblyNext

\* Whatever the network loses, duplicates or reorders, and wherever the sequence numbers
\* wrap around, the reassembler hands on exactly the units that were sent, keeps a unit
\* whose fragments arrive in order, and stays within MAX_NAL_BYTES.
THEOREM UnitsAreWhole == ReassemblySpec => []ReassemblyIsExact
<1>1. ReassemblyInit => SenderInv /\ ReceiverInv
  <2> SUFFICES ASSUME ReassemblyInit PROVE SenderInv /\ ReceiverInv
    BY Zenon
  <2>1. wire = <<>> /\ last = NoPacket /\ Newest = NoPacket /\ sent = 0 /\ frame = 0
    BY Zenon DEF ReassemblyInit, Newest
  <2>2. Seen = {}
    BY <2>1 DEF Seen, NoPacket
  <2>3. NoPacket \in PacketFields /\ NoPacket.total = 0 /\ NoPacket.part = 0
    BY DEF NoPacket, PacketFields
  <2>4. SenderInv
    BY <2>1, <2>2, <2>3, WrapAssumption DEF SenderInv
  <2>5. ReceiverInv
    <3>1. ~(inOrder > 0) /\ inOrder \in Nat
      BY DEF ReassemblyInit
    <3> QED
      BY <3>1, Zenon DEF ReassemblyInit, ReceiverInv
  <2> QED
    BY <2>4, <2>5, Zenon
<1>2. (SenderInv /\ ReceiverInv) /\ [ReassemblyNext]_reassemblyVars => (SenderInv /\ ReceiverInv)'
  BY StepReassembles, Zenon
<1>3. SenderInv /\ ReceiverInv => ReassemblyIsExact
  <2> SUFFICES ASSUME SenderInv, ReceiverInv PROVE ReassemblyIsExact
    BY Zenon
  <2>1. Len(buffer) <= MaxNalBytes
    <3>1. MaxNalBytes \in Nat /\ Len(<<>>) = 0
      BY SizeAssumption, Zenon
    <3> QED
      BY <3>1 DEF ReceiverInv
  <2>2. ASSUME inOrder > 0, inOrder < MaxNalBytes
        PROVE  IF inOrder = last.total THEN output = Whole(last, last.total)
                                       ELSE buffer = Whole(last, inOrder)
    <3>1. /\ inOrder = last.part /\ last.num # 0
          /\ last.part < last.total => inProgress
          /\ last.part = last.total => output = Whole(last, last.total)
      BY <2>2, Zenon DEF ReceiverInv
    <3>2. last \in Packets
      BY <3>1, Zenon DEF SenderInv, Seen, Before
    <3>3. last.part \in Nat /\ last.total \in Nat /\ last.part <= last.total
      BY <3>2, Zenon DEF Packets, PacketFields
    <3> QED
      BY <3>1, <3>3 DEF ReceiverInv
  <2> QED
    BY <2>1, <2>2, Zenon DEF ReassemblyIsExact, ReceiverInv
<1> QED
  BY <1>1, <1>2, <1>3, PTL DEF ReassemblySpec

-----------------------------------------------------------------------------
(* Audio playback. *)

BusOver == bus \in {"exited", "failed"}

\* Once the native shutdown is taken, the bus thread is over everywhere but in the two steps
\* that lead to its join.
JoinInv ==
    /\ nativeShutdown /\ owner \notin {"setNull", "join"} => BusOver
    /\ owner \in {"await", "gone"} => BusOver
    /\ owner = "gone" /\ ending \in {"shutdown", "drop"} => task = "done"

Once == plays <= 1 /\ pauses = 0

\* The steps of the bus thread after it has taken an error.
Failing == {"lowerBus", "abort", "setNull", "failed"}

\* Before the state change of the first play, and without a pause, the pipeline has never
\* run: there is no message that the bus thread could have failed on.
FreshInv ==
    /\ plays \in Nat /\ pauses \in Nat
    /\ Once =>
         /\ owner # "pausing"
         /\ plays = 0 => owner \notin PlaySteps
         /\ plays = 0 \/ owner \in {"publish", "setPlaying"} =>
              /\ pipeline = "null" /\ messages = <<>> /\ stream = "idle"
              /\ bus \notin Failing
         /\ bus \in Failing => ~isPlaying

-----------------------------------------------------------------------------

\* Every step keeps the bus thread and the RTP task over once they are, and nobody leaves
\* before.
LEMMA StepJoins ==
    ASSUME JoinInv, [PlaybackNext]_playbackVars
    PROVE  JoinInv'
  <1>1. BusOver => BusOver'
    BY Zenon DEF BusOver, PlaybackNext, Post, NewSample, SendSample, ReceiveSample, WriteRtp, TaskCancelled,
           BusStep, BusCheck, BusPop, BusLowers, BusAborts, BusSetsNull, Play, Pause, OwnerRuns,
           PublishPlaying, SetPlaying, Unpublish, Recheck, Paused, LowerBus, AbortTask, StopNative,
           JoinBus, AwaitTask, EndPlayback, Terminated, playbackVars
  <1>2. task = "done" => task' = "done"
    BY Zenon DEF PlaybackNext, Post, NewSample, SendSample, ReceiveSample, WriteRtp, TaskCancelled,
           BusStep, BusCheck, BusPop, BusLowers, BusAborts, BusSetsNull, Play, Pause, OwnerRuns,
           PublishPlaying, SetPlaying, Unpublish, Recheck, Paused, LowerBus, AbortTask, StopNative,
           JoinBus, AwaitTask, EndPlayback, Terminated, playbackVars, taskVars
  <1>3. CASE UNCHANGED <<nativeShutdown, owner, ending>>
    BY <1>1, <1>2, <1>3, Zenon DEF JoinInv
  <1>4. CASE Play \/ Pause \/ PublishPlaying \/ SetPlaying \/ Unpublish \/ Recheck \/ Paused
    <2>1. UNCHANGED nativeShutdown /\ owner \notin {"setNull", "join"} /\ owner' \notin {"await", "gone"}
      BY <1>4, Zenon DEF Play, Pause, PublishPlaying, SetPlaying, Unpublish, Recheck, Paused, flagVars
    <2> QED BY <1>1, <2>1, Zenon DEF JoinInv
  <1>5. CASE LowerBus \/ \E call \in Endings : EndPlayback(call)
    <2>1. UNCHANGED nativeShutdown /\ owner \in {"idle", "lowerBus"} /\ owner' \in {"lowerBus", "abort"}
      BY <1>5, Zenon DEF LowerBus, EndPlayback
    <2> QED BY <1>1, <2>1, Zenon DEF JoinInv
  <1>6. AfterNative \in {"idle", "gone", "await"}
        /\ (AfterNative = "gone" => ending = "dropOutsideRuntime")
    BY Zenon DEF AfterNative
  <1>7. CASE AbortTask
    <2>1. owner = "abort" /\ owner' = (IF nativeShutdown THEN AfterNative ELSE "setNull")
          /\ UNCHANGED <<bus, ending>>
      BY <1>7, Zenon DEF AbortTask, callVars
    <2> QED BY <1>6, <2>1, Zenon DEF JoinInv, BusOver
  <1>8. CASE StopNative
    <2>1. owner = "setNull" /\ owner' = "join"
      BY <1>8, Zenon DEF StopNative, AfterStop
    <2> QED BY <2>1, Zenon DEF JoinInv
  <1>9. CASE JoinBus
    <2>1. BusOver /\ owner' = AfterNative /\ UNCHANGED <<bus, ending>>
      BY <1>9, Zenon DEF JoinBus, BusOver, callVars
    <2> QED BY <1>6, <2>1, Zenon DEF JoinInv, BusOver
  <1>10. CASE AwaitTask
    <2>1. owner = "await" /\ owner' = "gone" /\ task' = "done" /\ UNCHANGED bus
      BY <1>10, Zenon DEF AwaitTask, taskVars
    <2> QED BY <2>1, Zenon DEF JoinInv, BusOver
  <1>11. UNCHANGED playbackVars \/ Terminated => UNCHANGED <<nativeShutdown, owner, ending>>
    BY Zenon DEF Terminated, playbackVars, flagVars, callVars
  <1>12. ASSUME \/ \E message \in {"error", "warning", "eos"} : Post(message)
                \/ NewSample \/ SendSample \/ ReceiveSample \/ WriteRtp \/ TaskCancelled \/ BusStep
         PROVE  UNCHANGED <<nativeShutdown, owner, ending>>
    BY <1>12, Zenon DEF Post, NewSample, SendSample, ReceiveSample, WriteRtp, TaskCancelled, BusStep, BusCheck, BusPop,
                 BusLowers, BusAborts, BusSetsNull, flagVars, callVars
  <1> QED BY <1>3, <1>4, <1>5, <1>7, <1>8, <1>9, <1>10, <1>11, <1>12, Zenon DEF PlaybackNext, OwnerRuns

\* A pipeline that has not run has nothing to report.
LEMMA StepStaysFresh ==
    ASSUME FreshInv, [PlaybackNext]_playbackVars
    PROVE  FreshInv'
  <1> USE DEF FreshInv, Once, Failing, PlaySteps
  <1>1. CASE \E message \in {"error", "warning", "eos"} : Post(message)
    BY <1>1 DEF Post, flagVars, callVars
  <1>2. CASE NewSample \/ SendSample
    BY <1>2 DEF NewSample, SendSample, flagVars, callVars
  <1>3. CASE ReceiveSample \/ WriteRtp \/ TaskCancelled \/ Terminated \/ UNCHANGED playbackVars
    BY <1>3 DEF ReceiveSample, WriteRtp, TaskCancelled, Terminated, playbackVars, flagVars, nativeVars, callVars
  <1>4. CASE BusCheck \/ BusPop
    BY <1>4, Zenon DEF BusCheck, BusPop, flagVars, nativeVars, callVars
  <1>5. CASE BusLowers \/ BusAborts \/ BusSetsNull
    BY <1>5 DEF BusLowers, BusAborts, BusSetsNull, SetNull, flagVars, nativeVars, callVars
  <1>6. CASE Play
    BY <1>6 DEF Play, flagVars, nativeVars
  <1>7. CASE Pause
    BY <1>7 DEF Pause, flagVars
  <1>8. CASE PublishPlaying \/ SetPlaying
    BY <1>8, Zenon DEF PublishPlaying, SetPlaying, flagVars, nativeVars, callVars
  <1>9. CASE Unpublish \/ Recheck \/ Paused \/ LowerBus \/ \E call \in Endings : EndPlayback(call)
    BY <1>9 DEF Unpublish, Recheck, Paused, LowerBus, EndPlayback, flagVars, nativeVars, callVars
  <1>10. AfterNative \in {"idle", "gone", "await"}
    BY Zenon DEF AfterNative
  <1>11. CASE AbortTask \/ JoinBus \/ AwaitTask
    BY <1>10, <1>11 DEF AbortTask, JoinBus, AwaitTask, flagVars, nativeVars, callVars
  <1>12. CASE StopNative
    BY <1>12, Zenon DEF StopNative, AfterStop, SetNull, flagVars, nativeVars, callVars
  <1> QED BY <1>1, <1>2, <1>3, <1>4, <1>5, <1>6, <1>7, <1>8, <1>9, <1>11, <1>12, Zenon
          DEF PlaybackNext, BusStep, OwnerRuns

\* take_native_shutdown is taken once, and whoever finds it taken comes after its join: no
\* call ends before the bus thread, nor shutdown and drop before the RTP task.
THEOREM NobodyLeavesEarly == PlaybackSpec => []WorkersAreJoined
  <1>1. PlaybackInit => JoinInv
    BY Zenon DEF PlaybackInit, JoinInv
  <1>2. JoinInv /\ [PlaybackNext]_playbackVars => JoinInv'
    BY StepJoins, Zenon
  <1>3. JoinInv => WorkersAreJoined
    BY Zenon DEF JoinInv, BusOver, WorkersAreJoined
  <1> QED BY <1>1, <1>2, <1>3, PTL DEF PlaybackSpec

\* play publishes is_playing before the state change, so the bus thread takes it back for
\* good when the pipeline fails.
THEOREM FailureIsNotOverwritten == PlaybackSpec => []FirstFailureWins
  <1>1. PlaybackInit => FreshInv
    BY DEF PlaybackInit, FreshInv, Once, Failing, PlaySteps
  <1>2. FreshInv /\ [PlaybackNext]_playbackVars => FreshInv'
    BY StepStaysFresh, Zenon
  <1>3. FreshInv => FirstFailureWins
    BY Zenon DEF FreshInv, Once, Failing, FirstFailureWins
  <1> QED BY <1>1, <1>2, <1>3, PTL DEF PlaybackSpec

-----------------------------------------------------------------------------
(* The callbacks: the inductive invariant. *)

Between == {"recv", "ended"}

Busy == {"attach", "first", "lookup", "convert", "second", "admitted", "calling"}

TableType ==
    /\ thread \in [Callers -> Methods]
    /\ registry \in [Keys -> Nat] /\ nextId \in Nat \ {0} /\ subs \subseteq Topics

DeliveryType ==
    /\ session \in Nat \ {0} /\ dispatcher \in Between \cup Busy
    /\ delivery \in [key : Keys \cup {""}, gen : Nat] /\ converted \in Nat

LogType == log \in Logs /\ logSession \in Nat /\ owed \in Seq(Nat)

\* The operation a method is in is one of Operations.
IsOperation(m) == [op |-> m.op, key |-> m.key] \in Operations

\* The owner of the registry is in its middle.
Inside == {"lifecycle", "change"}

LockIsInside ==
    /\ \A t \in Callers : thread[t].pc \in Inside => registryLock = t
    /\ \A t \in Callers : registryLock = t => thread[t].pc \in Inside

MethodsAreSound ==
    \A t \in Callers : /\ thread[t].pc \in Inside \cup {"registry"} => IsOperation(thread[t])
                       /\ thread[t].pc = "lifecycle" =>
                            thread[t].op \in {"subscribe", "unsubscribe"} /\ thread[t].key \in Topics

\* A topic loses its subscription before its callback and gets it before its callback;
\* in between its method has the registry.
SubscriptionsMatch ==
    /\ \A t \in Callers : thread[t].pc = "change" /\ thread[t].op = "subscribe"
                             => thread[t].key \in subs
    /\ \A topic \in Topics : registry[topic] # 0 =>
         topic \in subs \/ \E t \in Callers : /\ thread[t].pc = "change"
                                              /\ thread[t].op = "unsubscribe"
                                              /\ thread[t].key = topic

RegistryInv == TableType /\ LockIsInside /\ MethodsAreSound /\ SubscriptionsMatch

\* An id is given once: no two keys share it, and a retired one does not come back.
IdsInv ==
    /\ \A k \in Keys : registry[k] < nextId /\ registry[k] \notin retired
    /\ \A i \in retired : i \in Nat \ {0} /\ i < nextId
    /\ \A j, k \in Keys : registry[j] = registry[k] /\ registry[j] # 0 => j = k

\* Sessions only advance, so that a delivery which is current at the second check was
\* current when its conversion ended.
DeliveryInv ==
    /\ DeliveryType
    /\ dispatcher \in Busy => /\ delivery.key \in Keys /\ delivery.gen <= session
                              /\ barred \subseteq retired
    /\ dispatcher \in {"convert", "second", "admitted"} => copied \notin barred
    /\ dispatcher = "second" => delivery.gen <= converted /\ converted <= session
    /\ dispatcher = "admitted" => converted = delivery.gen

\* The log belongs to the generation of the delivery.
LogInv ==
    /\ LogType /\ FailuresAreReportedOnce
    /\ dispatcher \in Busy => delivery.gen = logSession

DispatchInv == RegistryInv /\ IdsInv /\ DeliveryInv /\ LogInv

-----------------------------------------------------------------------------
(* The registry and the subscriptions. *)

\* What the bridge methods are called with.
LEMMA OperationKinds ==
    ASSUME NEW op, NEW key, [op |-> op, key |-> key] \in Operations
    PROVE  \/ op \in {"subscribe", "unsubscribe"} /\ key \in Topics
           \/ op = "register" /\ key \in Media
           \/ op = "clear" /\ key = ""
  BY Zenon DEF Operations

\* A method begins, ends or releases references: outside the registry.
LEMMA OutsideRegistry ==
    ASSUME RegistryInv, NEW t \in Callers, NEW m \in Methods,
           thread' = [thread EXCEPT ![t] = m],
           thread[t].pc \notin Inside, m.pc \notin Inside,
           m.pc = "registry" => IsOperation(m),
           UNCHANGED <<registryLock, registry, nextId, subs>>
    PROVE  RegistryInv'
  <1>1. \A s \in Callers : thread'[s] = IF s = t THEN m ELSE thread[s]
    BY Zenon DEF RegistryInv, TableType
  <1>2. TableType'
    BY Zenon DEF RegistryInv, TableType
  <1>3. LockIsInside'
    BY <1>1, Zenon DEF RegistryInv, LockIsInside
  <1>4. MethodsAreSound'
    BY <1>1 DEF RegistryInv, MethodsAreSound, Inside
  <1>5. SubscriptionsMatch'
    BY <1>1 DEF RegistryInv, SubscriptionsMatch, Inside
  <1> QED BY <1>2, <1>3, <1>4, <1>5, Zenon DEF RegistryInv

\* A method gives the registry back: whatever is registered then is subscribed.
LEMMA LeaveMatches ==
    ASSUME RegistryInv, NEW t \in Callers, NEW refs \in SUBSET Keys,
           thread[t].pc \in Inside, LeaveRegistry(t, refs),
           registry' \in [Keys -> Nat], nextId' \in Nat \ {0}, UNCHANGED subs,
           \A topic \in Topics : registry'[topic] # 0 => topic \in subs
    PROVE  RegistryInv'
  <1> DEFINE m == Dropping(t, refs)
  <1>1. m \in Methods /\ m.pc = "drop"
    BY Zenon DEF Dropping, Methods, RegistryInv, TableType
  <1>2. thread' = [thread EXCEPT ![t] = m] /\ registryLock' = "free"
    BY Zenon DEF LeaveRegistry
  <1> HIDE DEF m
  <1>3. \A s \in Callers : thread'[s] = IF s = t THEN m ELSE thread[s]
    BY <1>2, Zenon DEF RegistryInv, TableType
  <1>4. \A s \in Callers : s # t => thread[s].pc \notin Inside
    BY Zenon DEF RegistryInv, LockIsInside
  <1>5. TableType'
    BY <1>1, <1>2, Zenon DEF RegistryInv, TableType
  <1>6. \A s \in Callers : thread'[s].pc \notin Inside
    BY <1>1, <1>3, <1>4, Zenon DEF Inside
  <1>7. LockIsInside'
    BY <1>2, <1>6, ThreadsAssumption, Zenon DEF LockIsInside, Callers
  <1>8. MethodsAreSound'
    BY <1>1, <1>3, <1>6, ZenonT(60) DEF RegistryInv, MethodsAreSound, Inside
  <1>9. SubscriptionsMatch'
    BY <1>6, Zenon DEF SubscriptionsMatch, Inside
  <1> QED BY <1>5, <1>7, <1>8, <1>9, Zenon DEF RegistryInv

\* The registry is locked for a method.
LEMMA LockMatches ==
    ASSUME RegistryInv, NEW t \in Callers, LockRegistry(t)
    PROVE  RegistryInv'
  <1> DEFINE step == IF thread[t].op \in {"subscribe", "unsubscribe"} THEN "lifecycle" ELSE "change"
             m == [thread[t] EXCEPT !.pc = step]
  <1>1. thread[t] \in Methods /\ thread[t].pc = "registry" /\ IsOperation(thread[t])
    BY Zenon DEF LockRegistry, RegistryInv, TableType, MethodsAreSound
  <1>2. m \in Methods /\ m.pc = step /\ m.op = thread[t].op /\ m.key = thread[t].key
    BY <1>1, Zenon DEF Methods
  <1>3. thread' = [thread EXCEPT ![t] = m] /\ registryLock = "free" /\ registryLock' = t
        /\ UNCHANGED <<registry, nextId, subs>>
    BY Zenon DEF LockRegistry, registryVars, tableVars
  <1>4. \A s \in Callers : thread'[s] = IF s = t THEN m ELSE thread[s]
    BY <1>3, Zenon DEF RegistryInv, TableType
  <1>5. \A s \in Callers : thread[s].pc \notin Inside
    BY <1>3, ThreadsAssumption, Zenon DEF RegistryInv, LockIsInside, Callers
  <1>6. TableType'
    BY <1>2, <1>3, Zenon DEF RegistryInv, TableType
  <1>7. LockIsInside'
    BY <1>2, <1>3, <1>4, <1>5, Zenon DEF LockIsInside, Inside
  <1>8. /\ IsOperation(m)
        /\ m.pc = "lifecycle" => m.op \in {"subscribe", "unsubscribe"} /\ m.key \in Topics
    <2>1. IsOperation(m)
      BY <1>1, <1>2, Zenon DEF IsOperation
    <2>2. m.pc = "lifecycle" => m.op \in {"subscribe", "unsubscribe"}
      BY <1>2
    <2>3. m.op \in {"subscribe", "unsubscribe"} => m.key \in Topics
      <3> HIDE DEF m
      <3> QED BY <2>1, OperationKinds, Zenon DEF IsOperation
    <2> QED BY <2>1, <2>2, <2>3, Zenon
  <1>9. MethodsAreSound'
    BY <1>4, <1>8, Zenon DEF RegistryInv, MethodsAreSound
  <1>10. SubscriptionsMatch'
    BY <1>1, <1>2, <1>3, <1>4, <1>5 DEF RegistryInv, SubscriptionsMatch, Inside
  <1> QED BY <1>6, <1>7, <1>9, <1>10, Zenon DEF RegistryInv

\* Inside the registry every topic with a callback is subscribed, unless this method has
\* just taken the subscription away.
LEMMA InsideMatches ==
    ASSUME RegistryInv, NEW t \in Callers, thread[t].pc \in Inside
    PROVE  \A topic \in Topics : registry[topic] # 0 =>
             \/ topic \in subs
             \/ thread[t].pc = "change" /\ thread[t].op = "unsubscribe" /\ thread[t].key = topic
  <1>1. \A s \in Callers : thread[s].pc \in Inside => s = t
    BY Zenon DEF RegistryInv, LockIsInside
  <1> QED BY <1>1, Zenon DEF RegistryInv, SubscriptionsMatch, Inside

\* CallCore: the core has changed the subscription, or has refused to.
LEMMA CallCoreMatches ==
    ASSUME RegistryInv, NEW t \in Callers, CallCore(t)
    PROVE  RegistryInv'
  <1>1. thread[t] \in Methods /\ thread[t].pc = "lifecycle" /\ thread[t].pc \in Inside
        /\ thread[t].key \in Topics /\ IsOperation(thread[t])
    BY Zenon DEF CallCore, RegistryInv, TableType, MethodsAreSound, Inside
  <1>2. CASE /\ subs' = IF thread[t].op = "subscribe" THEN subs \cup {thread[t].key}
                                                      ELSE subs \ {thread[t].key}
             /\ thread' = [thread EXCEPT ![t].pc = "change"]
             /\ UNCHANGED <<gil, registryLock, registry, nextId, retired>>
    <2> DEFINE m == [thread[t] EXCEPT !.pc = "change"]
    <2>1. m \in Methods /\ m.pc = "change" /\ m.op = thread[t].op /\ m.key = thread[t].key
      BY <1>1, Zenon DEF Methods
    <2>2. \A s \in Callers : thread'[s] = IF s = t THEN m ELSE thread[s]
      BY <1>2, Zenon DEF RegistryInv, TableType
    <2> HIDE DEF m
    <2>3. TableType'
      <3>1. subs' \subseteq Topics
        BY <1>1, <1>2, Zenon DEF RegistryInv, TableType
      <3>2. thread' \in [Callers -> Methods]
        BY <1>2, <2>1, <2>2, Zenon DEF RegistryInv, TableType
      <3> QED BY <1>2, <3>1, <3>2, Zenon DEF RegistryInv, TableType
    <2>4. LockIsInside'
      BY <1>1, <1>2, <2>1, <2>2, Zenon DEF RegistryInv, LockIsInside, Inside
    <2>5. MethodsAreSound'
      BY <1>1, <2>1, <2>2, Zenon DEF RegistryInv, MethodsAreSound, IsOperation
    <2>6. \A s \in Callers : thread'[s].pc = "change" => s = t
      BY <1>1, <2>2, Zenon DEF RegistryInv, LockIsInside, Inside
    <2>7. m.op \in {"subscribe", "unsubscribe"}
      BY <1>1, <2>1, Zenon DEF RegistryInv, MethodsAreSound
    <2>8. SubscriptionsMatch'
      BY <1>1, <1>2, <2>1, <2>2, <2>6, <2>7, InsideMatches DEF SubscriptionsMatch
    <2> QED BY <2>3, <2>4, <2>5, <2>8, Zenon DEF RegistryInv
  <1>3. CASE Refused(t) /\ UNCHANGED subs
    BY <1>1, <1>3, LeaveMatches, InsideMatches, Zenon DEF Refused, RegistryInv, TableType
  <1> QED BY <1>2, <1>3, Zenon DEF CallCore

\* ChangeRegistry: what it leaves registered is subscribed.
LEMMA ChangeMatches ==
    ASSUME RegistryInv, NEW t \in Callers, ChangeRegistry(t)
    PROVE  RegistryInv'
  <1> DEFINE key == thread[t].key
             op == thread[t].op
  <1>1. thread[t].pc = "change" /\ thread[t].pc \in Inside /\ IsOperation(thread[t])
    BY Zenon DEF ChangeRegistry, RegistryInv, MethodsAreSound, Inside
  <1>2. \/ op \in {"subscribe", "unsubscribe"} /\ key \in Topics
        \/ op = "register" /\ key \in Media
        \/ op = "clear"
    BY <1>1, OperationKinds, Zenon DEF IsOperation
  <1>3. op = "subscribe" => key \in subs
    BY <1>1, Zenon DEF RegistryInv, SubscriptionsMatch
  <1>4. \A topic \in Topics : registry[topic] # 0 => topic \in subs \/ (op = "unsubscribe" /\ topic = key)
    BY <1>1, InsideMatches, Zenon
  <1>5. registry \in [Keys -> Nat] /\ nextId \in Nat \ {0} /\ UNCHANGED subs
    BY Zenon DEF ChangeRegistry, RegistryInv, TableType
  <1>6. CASE op \in {"subscribe", "register"}
    <2>1. Insert(key) /\ LeaveRegistry(t, References({key})) /\ key \in Keys
      BY <1>2, <1>6, Zenon DEF ChangeRegistry, ReleaseAfterLock, Keys
    <2>2. registry' = [registry EXCEPT ![key] = nextId] /\ nextId' = nextId + 1
      BY <2>1, Zenon DEF Insert
    <2> HIDE DEF key
    <2>3. registry' \in [Keys -> Nat] /\ nextId' \in Nat \ {0}
      <3>1. nextId' \in Nat \ {0}
        BY <1>5, <2>2
      <3>2. registry' \in [Keys -> Nat]
        BY <1>5, <2>2, Zenon
      <3> QED BY <3>1, <3>2, Zenon
    <2>4. \A topic \in Topics : registry'[topic] # 0 => topic \in subs
      BY <1>2, <1>3, <1>4, <1>5, <1>6, <2>2, KeysAssumption, Zenon DEF Keys
    <2>5. References({key}) \in SUBSET Keys
      BY <2>1, Zenon DEF References
    <2> QED BY <1>1, <1>5, <2>1, <2>3, <2>4, <2>5, LeaveMatches, Zenon
  <1>7. CASE op = "unsubscribe"
    <2>1. Forget(key) /\ LeaveRegistry(t, References({key})) /\ key \in Keys
      BY <1>2, <1>7, Zenon DEF ChangeRegistry, ReleaseAfterLock, Keys
    <2>2. registry' = [registry EXCEPT ![key] = 0] /\ nextId' = nextId
      BY <2>1, Zenon DEF Forget
    <2>3. registry' \in [Keys -> Nat] /\ nextId' \in Nat \ {0}
      BY <1>5, <2>2, Zenon
    <2>4. \A topic \in Topics : registry'[topic] # 0 => topic \in subs
      BY <1>4, <1>5, <2>2, Zenon DEF Keys
    <2>5. References({key}) \in SUBSET Keys
      BY <2>1, Zenon DEF References
    <2> QED BY <1>1, <1>5, <2>1, <2>3, <2>4, <2>5, LeaveMatches, Zenon
  <1>8. CASE op = "clear"
    <2>1. registry' = [k \in Keys |-> 0] /\ nextId' = nextId /\ LeaveRegistry(t, References(Keys))
      BY <1>8, Zenon DEF ChangeRegistry, ReleaseAfterLock
    <2>2. registry' \in [Keys -> Nat] /\ \A topic \in Topics : registry'[topic] = 0
      BY <2>1, Zenon DEF Keys
    <2>3. References(Keys) \in SUBSET Keys
      BY Zenon DEF References
    <2> QED BY <1>1, <1>5, <2>1, <2>2, <2>3, LeaveMatches, Zenon
  <1> QED BY <1>2, <1>6, <1>7, <1>8, Zenon

\* Steps of no bridge method.
LEMMA ElsewhereMatches ==
    ASSUME RegistryInv, UNCHANGED <<thread, registryLock, registry, nextId, subs>>
    PROVE  RegistryInv'
  BY Zenon DEF RegistryInv, TableType, LockIsInside, MethodsAreSound, SubscriptionsMatch, IsOperation

\* A bridge method is called, by Python code or by a finalizer.
LEMMA OperationIsSound ==
    ASSUME NEW o \in Operations
    PROVE  /\ o = [op |-> o.op, key |-> o.key] /\ o.key \in Keys \cup {""}
           /\ o.op \in {"subscribe", "unsubscribe", "register", "clear"}
  <1>1. CASE o \in [op : {"subscribe", "unsubscribe"}, key : Topics]
    BY <1>1, Zenon DEF Keys
  <1>2. CASE o \in [op : {"register"}, key : Media]
    BY <1>2, Zenon DEF Keys
  <1>3. CASE o = [op |-> "clear", key |-> ""]
    BY <1>3, Zenon
  <1> QED BY <1>1, <1>2, <1>3, Zenon DEF Operations

\* Every step keeps the registry and the subscriptions together.
LEMMA RegistryStep ==
    ASSUME RegistryInv, [Next]_vars
    PROVE  RegistryInv'
  <1>1. ASSUME NEW t \in Callers, NEW o \in Operations, Call(t, o)
        PROVE  RegistryInv'
    <2> DEFINE m == [thread[t] EXCEPT !.pc = "registry", !.op = o.op, !.key = o.key]
    <2>1. thread[t] \in Methods /\ thread[t].pc \notin Inside
      BY <1>1, Zenon DEF Call, RegistryInv, TableType, Inside
    <2>2. m \in Methods /\ m.pc = "registry" /\ m.op = o.op /\ m.key = o.key
      BY <2>1, OperationIsSound, Zenon DEF Methods
    <2>3. thread' = [thread EXCEPT ![t] = m] /\ UNCHANGED <<registryLock, registry, nextId, subs>>
      BY <1>1, Zenon DEF Call, Enter, registryVars, tableVars
    <2>4. IsOperation(m) /\ m.pc \notin Inside
      BY <2>2, OperationIsSound, Zenon DEF IsOperation, Inside
    <2> HIDE DEF m
    <2> QED BY <2>1, <2>2, <2>3, <2>4, OutsideRegistry, Zenon
  <1>2. ASSUME NEW t \in Callers, ReleaseReference(t)
        PROVE  RegistryInv'
    <2>1. PICK k \in thread[t].refs :
            \/ thread' = [thread EXCEPT ![t].refs = @ \ {k}]
            \/ \E o \in Operations :
                 thread' = [thread EXCEPT ![t] = [pc |-> "registry", op |-> o.op, key |-> o.key,
                              refs |-> {}, nested |-> TRUE, outer |-> thread[t].refs \ {k}]]
      BY <1>2, Zenon DEF ReleaseReference
    <2> DEFINE rest == thread[t].refs \ {k}
    <2>2. /\ thread[t] \in Methods /\ thread[t].pc = "drop" /\ thread[t].pc \notin Inside
          /\ rest \in SUBSET Keys /\ UNCHANGED <<registryLock, registry, nextId, subs>>
      <3>1. thread[t] \in Methods /\ thread[t].pc = "drop"
        BY <1>2, Zenon DEF ReleaseReference, RegistryInv, TableType
      <3>2. rest \in SUBSET Keys
        BY <3>1, Zenon DEF Methods
      <3>3. UNCHANGED <<registryLock, registry, nextId, subs>>
        BY <1>2, Zenon DEF ReleaseReference, registryVars, tableVars
      <3> QED BY <3>1, <3>2, <3>3, Zenon DEF Inside
    <2> HIDE DEF rest
    <2>3. CASE thread' = [thread EXCEPT ![t].refs = rest]
      <3> DEFINE m == [thread[t] EXCEPT !.refs = rest]
      <3>1. m \in Methods /\ m.pc = "drop"
        BY <2>2, Zenon DEF Methods
      <3>2. thread' = [thread EXCEPT ![t] = m]
        BY <2>3, Zenon
      <3> HIDE DEF m
      <3> QED BY <2>2, <3>1, <3>2, OutsideRegistry, Zenon DEF Inside
    <2>4. ASSUME NEW o \in Operations,
                 thread' = [thread EXCEPT ![t] = [pc |-> "registry", op |-> o.op, key |-> o.key,
                              refs |-> {}, nested |-> TRUE, outer |-> rest]]
          PROVE  RegistryInv'
      <3> DEFINE m == [pc |-> "registry", op |-> o.op, key |-> o.key,
                       refs |-> {}, nested |-> TRUE, outer |-> rest]
      <3>1. m \in Methods
        BY <2>2, OperationIsSound, Zenon DEF Methods
      <3>2. IsOperation(m) /\ m.pc \notin Inside
        BY OperationIsSound, Zenon DEF IsOperation, Inside
      <3>3. thread' = [thread EXCEPT ![t] = m]
        BY <2>4, Zenon
      <3> HIDE DEF m
      <3> QED BY <2>2, <3>1, <3>2, <3>3, OutsideRegistry, Zenon
    <2> QED BY <2>1, <2>3, <2>4, Zenon DEF rest
  <1>3. ASSUME NEW t \in Callers, Return(t)
        PROVE  RegistryInv'
    <2> DEFINE m == IF thread[t].nested THEN [Idle EXCEPT !.pc = "drop", !.refs = thread[t].outer]
                                        ELSE Idle
    <2>1. thread[t] \in Methods /\ thread[t].pc = "drop"
      BY <1>3, Zenon DEF Return, RegistryInv, TableType
    <2>2. m \in Methods /\ m.pc \in {"drop", "idle"}
      BY <2>1, Zenon DEF Methods, Idle
    <2>3. thread' = [thread EXCEPT ![t] = m] /\ UNCHANGED <<registryLock, registry, nextId, subs>>
      BY <1>3, Zenon DEF Return, lockVars, registryVars, tableVars
    <2> HIDE DEF m
    <2> QED BY <2>1, <2>2, <2>3, OutsideRegistry, Zenon DEF Inside
  <1>4. ASSUME \/ CoreLocks \/ CoreUnlocks \/ WindowPasses \/ \E key \in Keys : Receive(key)
               \/ DispatchStep \/ End \/ Finalize \/ UNCHANGED vars
        PROVE  RegistryInv'
    <2>1. UNCHANGED <<thread, registryLock, registry, nextId, subs>>
      BY <1>4, Zenon DEF CoreLocks, CoreUnlocks, WindowPasses, Receive, DispatchStep, Attach, CheckFirst,
                  Lookup, Convert, Admit, StartCallback, CallbackReturns, End, Finalize, vars, lockVars, registryVars,
                  tableVars
    <2> QED BY <2>1, ElsewhereMatches, Zenon
  <1> QED BY <1>1, <1>2, <1>3, <1>4, LockMatches, CallCoreMatches, ChangeMatches, Zenon DEF Next, MethodStep

-----------------------------------------------------------------------------
(* The ids of the callbacks. *)

\* Callbacks are removed, and at most one gets the next id.
LEMMA IdsKept ==
    ASSUME TableType, IdsInv, NEW keys \in SUBSET Keys,
           retired' = retired \cup {registry[k] : k \in References(keys)},
           nextId' = nextId \/ nextId' = nextId + 1,
           \A k \in Keys : \/ registry'[k] = 0
                           \/ registry'[k] = registry[k] /\ k \notin keys
                           \/ registry'[k] = nextId /\ nextId' = nextId + 1 /\ keys = {k}
    PROVE  IdsInv'
  <1>1. \A k \in Keys : registry[k] \in Nat /\ registry[k] < nextId /\ registry[k] \notin retired
    BY Zenon DEF TableType, IdsInv
  <1>2. nextId \in Nat \ {0} /\ nextId \notin retired /\ 0 \notin retired
    BY DEF TableType, IdsInv
  <1>3. \A i : i \in retired' <=> i \in retired \/ \E k \in keys : registry[k] = i /\ i # 0
    BY Zenon DEF References
  <1>4. \A i \in retired' : i \in Nat \ {0} /\ i < nextId'
    BY <1>1, <1>2, <1>3 DEF IdsInv
  <1>5. \A k \in Keys : registry'[k] < nextId'
    BY <1>1, <1>2
  <1>6. \A j, k \in Keys : registry[j] = registry[k] /\ registry[j] # 0 => j = k
    BY Zenon DEF IdsInv
  <1>7. \A k \in Keys : registry'[k] \notin retired'
    BY <1>1, <1>2, <1>3, <1>6
  <1>8. \A j, k \in Keys : registry'[j] = registry'[k] /\ registry'[j] # 0 => j = k
    BY <1>1, <1>2, <1>6
  <1> QED BY <1>4, <1>5, <1>7, <1>8, Zenon DEF IdsInv

\* ChangeRegistry gives no id twice.
LEMMA ChangeKeepsIds ==
    ASSUME RegistryInv, IdsInv, NEW t \in Callers, ChangeRegistry(t)
    PROVE  IdsInv'
  <1> DEFINE key == thread[t].key
  <1>1. IsOperation(thread[t]) /\ TableType /\ registry \in [Keys -> Nat]
    BY Zenon DEF ChangeRegistry, RegistryInv, TableType, MethodsAreSound, Inside
  <1>2. retired' = retired \cup {registry[k] : k \in References(Scope(t))}
    BY Zenon DEF ChangeRegistry
  <1>3. CASE thread[t].op \in {"subscribe", "register"}
    <2>1. Insert(key) /\ key \in Keys /\ Scope(t) = {key}
      BY <1>1, <1>3, OperationKinds, Zenon DEF ChangeRegistry, IsOperation, Keys, Scope
    <2> QED BY <1>1, <1>2, <2>1, IdsKept, Zenon DEF Insert
  <1>4. CASE thread[t].op = "unsubscribe"
    <2>1. Forget(key) /\ key \in Keys /\ Scope(t) = {key}
      BY <1>1, <1>4, OperationKinds, Zenon DEF ChangeRegistry, IsOperation, Keys, Scope
    <2> QED BY <1>1, <1>2, <2>1, IdsKept, Zenon DEF Forget
  <1>5. CASE thread[t].op = "clear"
    <2>1. registry' = [k \in Keys |-> 0] /\ nextId' = nextId /\ Scope(t) = Keys
      BY <1>5, Zenon DEF ChangeRegistry, Scope
    <2> QED BY <1>1, <1>2, <2>1, IdsKept, Zenon
  <1> QED BY <1>1, <1>3, <1>4, <1>5, OperationKinds, Zenon DEF IsOperation

\* Whatever else happens, the registry keeps its callbacks.
LEMMA OtherSteps ==
    ASSUME [Next]_vars
    PROVE  (\E t \in Callers : ChangeRegistry(t)) \/ UNCHANGED <<registry, nextId, retired>>
  <1>1. ASSUME NEW t \in Callers,
               \/ \E o \in Operations : Call(t, o)
               \/ LockRegistry(t) \/ CallCore(t) \/ ReleaseReference(t) \/ Return(t)
        PROVE  UNCHANGED <<registry, nextId, retired>>
    BY <1>1, Zenon DEF Call, LockRegistry, CallCore, Refused, ReleaseReference, Return, registryVars, tableVars
  <1>2. ASSUME \/ CoreLocks \/ CoreUnlocks \/ WindowPasses \/ \E key \in Keys : Receive(key)
               \/ DispatchStep \/ End \/ Finalize \/ UNCHANGED vars
        PROVE  UNCHANGED <<registry, nextId, retired>>
    BY <1>2, Zenon DEF CoreLocks, CoreUnlocks, WindowPasses, Receive, DispatchStep, Attach, CheckFirst, Lookup,
                Convert, Admit, StartCallback, CallbackReturns, End, Finalize, vars, registryVars, tableVars
  <1> QED BY <1>1, <1>2, Zenon DEF Next, MethodStep

\* Every step keeps the ids apart.
LEMMA IdsStep ==
    ASSUME RegistryInv, IdsInv, [Next]_vars
    PROVE  IdsInv' /\ retired \subseteq retired'
  <1>1. CASE UNCHANGED <<registry, nextId, retired>>
    BY <1>1, Zenon DEF IdsInv
  <1>2. ASSUME NEW t \in Callers, ChangeRegistry(t)
        PROVE  IdsInv' /\ retired \subseteq retired'
    BY <1>2, ChangeKeepsIds, Zenon DEF ChangeRegistry
  <1> QED BY <1>1, <1>2, OtherSteps, Zenon

-----------------------------------------------------------------------------
(* The delivery. *)

\* The dispatcher waits: sessions advance and callbacks are retired.
LEMMA DeliveryKept ==
    ASSUME DeliveryInv, session' = session \/ session' = session + 1,
           UNCHANGED <<dispatcher, delivery, copied, barred, converted>>, retired \subseteq retired'
    PROVE  DeliveryInv'
  <1> DEFINE gen == delivery.gen
  <1>1. session \in Nat \ {0} /\ converted \in Nat /\ gen \in Nat
    BY Zenon DEF DeliveryInv, DeliveryType
  <1> HIDE DEF gen
  <1>2. session' \in Nat \ {0} /\ session <= session'
    BY <1>1
  <1>3. /\ gen <= session => gen <= session'
        /\ converted <= session => converted <= session'
    BY <1>1, <1>2
  <1> QED BY <1>1, <1>2, <1>3, Zenon DEF DeliveryInv, DeliveryType, gen

\* The delivery is given up or done with.
LEMMA DeliveryDone ==
    ASSUME DeliveryInv, Done, UNCHANGED session
    PROVE  DeliveryInv'
  <1>0. 0 \in Nat
    OBVIOUS
  <1>1. NoDelivery \in [key : Keys \cup {""}, gen : Nat]
    BY <1>0, Zenon DEF NoDelivery
  <1>2. dispatcher' \notin Busy /\ dispatcher' \notin {"convert", "second", "admitted"}
    BY Zenon DEF Done, Busy
  <1> QED BY <1>0, <1>1, <1>2, Zenon DEF DeliveryInv, DeliveryType, Done, Between

\* The dispatcher goes on with the delivery it has.
LEMMA DeliveryContinued ==
    ASSUME DeliveryInv, NEW step \in Busy, Continue(step), UNCHANGED session, retired \subseteq retired',
           dispatcher \in Busy, converted' \in Nat,
           step \in {"convert", "second", "admitted"} => copied \notin barred,
           step = "second" => delivery.gen <= converted' /\ converted' <= session,
           step = "admitted" => converted' = delivery.gen
    PROVE  DeliveryInv'
  <1>1. DeliveryType'
    BY Zenon DEF DeliveryInv, DeliveryType, Continue
  <1> QED BY <1>1, Zenon DEF DeliveryInv, Continue

\* Every step of the dispatcher keeps its delivery in order.
LEMMA DispatchKeepsDelivery ==
    ASSUME RegistryInv, IdsInv, DeliveryInv, DispatchStep
    PROVE  DeliveryInv'
  <1>0. UNCHANGED <<session, registry, retired>>
    BY Zenon DEF DispatchStep, Attach, CheckFirst, Lookup, Convert, Admit, StartCallback, CallbackReturns,
                registryVars, tableVars
  <1>1. CASE Done
    BY <1>0, <1>1, DeliveryDone, Zenon
  <1>t. session \in Nat /\ converted \in Nat /\ delivery.gen \in Nat
    BY Zenon DEF DeliveryInv, DeliveryType
  <1>2. CASE dispatcher = "attach" /\ Continue("first") /\ UNCHANGED converted
    BY <1>0, <1>2, <1>t, DeliveryContinued, Zenon DEF Busy
  <1>3. CASE dispatcher = "first" /\ Continue("lookup") /\ UNCHANGED converted
    BY <1>0, <1>3, <1>t, DeliveryContinued, Zenon DEF Busy
  <1>4. CASE dispatcher = "convert" /\ Continue("second") /\ converted' = session
    <2>1. delivery.gen <= session /\ copied \notin barred
      BY <1>4, Zenon DEF DeliveryInv, Busy
    <2>2. session <= session
      BY <1>t
    <2> QED BY <1>0, <1>4, <1>t, <2>1, <2>2, DeliveryContinued, Zenon DEF Busy
  <1>5. CASE dispatcher = "second" /\ StillCurrent /\ Continue("admitted") /\ UNCHANGED converted
    <2>1. delivery.gen <= converted /\ converted <= session /\ copied \notin barred
      BY <1>5, Zenon DEF DeliveryInv
    <2>2. delivery.gen = session
      BY <1>5, Zenon DEF StillCurrent, IsCurrent
    <2>3. converted = delivery.gen
      BY <1>t, <2>1, <2>2
    <2> QED BY <1>0, <1>5, <1>t, <2>1, <2>3, DeliveryContinued, Zenon DEF Busy
  <1>6. CASE dispatcher = "admitted" /\ Continue("calling") /\ UNCHANGED converted
    BY <1>0, <1>6, <1>t, DeliveryContinued, Zenon DEF Busy
  <1>7. CASE /\ dispatcher = "lookup" /\ copied' = registry[delivery.key] /\ dispatcher' = "convert"
             /\ UNCHANGED <<delivery, historyVars>>
    <2>1. registry[delivery.key] \notin barred
      BY <1>7, Zenon DEF DeliveryInv, IdsInv, Busy
    <2> QED BY <1>0, <1>7, <2>1, Zenon DEF DeliveryInv, DeliveryType, Between, Busy, historyVars
  <1> QED BY <1>1, <1>2, <1>3, <1>4, <1>5, <1>6, <1>7, Zenon
          DEF DispatchStep, Attach, CheckFirst, Lookup, Convert, Admit, StartCallback, CallbackReturns, ReturnsFrom

\* A new delivery bars the callbacks that are retired by then.
LEMMA ReceiveKeepsDelivery ==
    ASSUME DeliveryInv, NEW key \in Keys, Receive(key)
    PROVE  DeliveryInv'
  <1>1. /\ dispatcher' = "attach" /\ delivery' = [key |-> key, gen |-> session]
        /\ barred' = retired /\ converted' = 0 /\ UNCHANGED <<session, retired>>
    BY Zenon DEF Receive, registryVars
  <1>2. session \in Nat \ {0} /\ session <= session /\ 0 \in Nat
    <2>1. session \in Nat \ {0}
      BY Zenon DEF DeliveryInv, DeliveryType
    <2> QED BY <2>1
  <1>3. /\ delivery' \in [key : Keys \cup {""}, gen : Nat]
        /\ delivery'.key \in Keys /\ delivery'.gen = session
    BY <1>1, <1>2, Zenon
  <1> QED BY <1>1, <1>2, <1>3, Zenon DEF DeliveryInv, DeliveryType, Between, Busy

\* Every step keeps the delivery in order.
LEMMA DeliveryStep ==
    ASSUME RegistryInv, IdsInv, DeliveryInv, [Next]_vars
    PROVE  DeliveryInv'
  <1>1. ASSUME NEW t \in Callers, (\E o \in Operations : Call(t, o)) \/ MethodStep(t)
        PROVE  DeliveryInv'
    <2>1. UNCHANGED <<session, dispatcher, delivery, copied, barred, converted>>
      BY <1>1, Zenon DEF Call, MethodStep, LockRegistry, CallCore, ChangeRegistry, ReleaseReference, Return,
                  dispatcherVars, historyVars
    <2> QED BY <2>1, DeliveryKept, IdsStep, Zenon
  <1>2. CASE CoreLocks \/ CoreUnlocks \/ WindowPasses \/ Finalize \/ UNCHANGED vars
    <2>1. UNCHANGED <<dispatcher, delivery, copied, barred, converted>>
      BY <1>2, Zenon DEF CoreLocks, CoreUnlocks, WindowPasses, Finalize, vars, dispatcherVars, historyVars
    <2>2. session' = session \/ session' = session + 1
      BY <1>2, Zenon DEF CoreLocks, CoreUnlocks, WindowPasses, Finalize, vars
    <2> QED BY <2>1, <2>2, DeliveryKept, IdsStep, Zenon
  <1>3. CASE End
    <2>1. /\ dispatcher' = "ended" /\ dispatcher' \notin Busy
          /\ dispatcher' \notin {"convert", "second", "admitted"}
          /\ UNCHANGED <<session, delivery, converted>>
      BY <1>3, Zenon DEF End, Busy, historyVars
    <2> QED BY <2>1, Zenon DEF DeliveryInv, DeliveryType, Between
  <1> QED BY <1>1, <1>2, <1>3, DispatchKeepsDelivery, ReceiveKeepsDelivery, Zenon DEF Next

-----------------------------------------------------------------------------
(* The failure log. *)

\* What is left of the failures after the oldest n of them.
LEMMA OldestReported ==
    ASSUME NEW failures \in Seq(Nat), NEW n \in 0..Len(failures), NEW rest,
           rest = SubSeq(failures, n + 1, Len(failures))
    PROVE  /\ rest \in Seq(Nat) /\ Len(rest) = Len(failures) - n
           /\ \A i \in DOMAIN rest : rest[i] = failures[i + n] /\ i + n \in DOMAIN failures
  <1>1. \A i \in (n + 1)..Len(failures) : failures[i] \in Nat
    OBVIOUS
  <1>2. /\ rest \in Seq(Nat)
        /\ Len(rest) = IF n + 1 <= Len(failures) THEN Len(failures) - (n + 1) + 1 ELSE 0
        /\ \A i \in 1..(Len(failures) - (n + 1) + 1) : rest[i] = failures[n + 1 + i - 1]
    BY <1>1
  <1>3. Len(rest) = Len(failures) - n
    BY <1>2
  <1>4. ASSUME NEW i \in DOMAIN rest
        PROVE  rest[i] = failures[i + n] /\ i + n \in DOMAIN failures
    <2>1. i \in 1..(Len(failures) - n)
      BY <1>2, <1>3
    <2>2. rest[i] = failures[n + 1 + i - 1] /\ n + 1 + i - 1 = i + n
      BY <1>2, <2>1
    <2> QED BY <2>1, <2>2
  <1> QED BY <1>2, <1>3, <1>4, Zenon

\* A log line keeps the account: what is pending is what is left, of one generation.
LEMMA EmitKeepsAccount ==
    ASSUME NEW outcome, NEW failures \in Seq(Nat), Emit(outcome, failures),
           outcome.log \in Logs, outcome.count \in 0..Len(failures),
           outcome.log.pending = Len(failures) - outcome.count, logSession' \in Nat,
           (\A i \in DOMAIN failures : failures[i] = logSession') \/ outcome.count = Len(failures)
    PROVE  LogType' /\ FailuresAreReportedOnce'
  <1>1. log' = outcome.log /\ owed' = SubSeq(failures, outcome.count + 1, Len(failures))
    BY Zenon DEF Emit
  <1>2. /\ owed' \in Seq(Nat) /\ Len(owed') = Len(failures) - outcome.count
        /\ \A i \in DOMAIN owed' : /\ owed'[i] = failures[i + outcome.count]
                                   /\ i + outcome.count \in DOMAIN failures
    BY <1>1, OldestReported, ZenonT(60)
  <1>3. \A i \in DOMAIN owed' : owed'[i] = logSession'
    <2>1. CASE outcome.count = Len(failures)
      BY <1>2, <2>1
    <2> QED BY <1>2, <2>1, Zenon
  <1> QED BY <1>1, <1>2, <1>3, Zenon DEF LogType, FailuresAreReportedOnce

\* A failure is recorded in the log of its generation.
LEMMA ReportKeepsAccount ==
    ASSUME LogType, FailuresAreReportedOnce, DeliveryType, delivery.gen = logSession, Report
    PROVE  LogType' /\ FailuresAreReportedOnce' /\ UNCHANGED logSession
  <1>1. CASE UNCHANGED logVars
    BY <1>1, Zenon DEF LogType, FailuresAreReportedOnce, logVars
  <1>2. CASE Emit(RecordAt(log), Append(owed, delivery.gen)) /\ UNCHANGED logSession
    <2> DEFINE failures == Append(owed, logSession)
    <2>1. owed \in Seq(Nat) /\ logSession \in Nat /\ log \in Logs /\ Len(owed) = log.pending
      BY Zenon DEF LogType, FailuresAreReportedOnce
    <2>2. failures \in Seq(Nat) /\ Len(failures) = log.pending + 1
      BY <2>1
    <2>3. \A i \in DOMAIN failures : failures[i] = logSession'
      BY <1>2, <2>1 DEF FailuresAreReportedOnce
    <2>4. log.pending \in Nat /\ log.last \in {"none", "recent", "old"}
      BY <2>1, Zenon DEF Logs
    <2>5. Emit(RecordAt(log), failures) /\ logSession' \in Nat
      BY <1>2, <2>1, Zenon
    <2> HIDE DEF failures
    <2>6. ASSUME NEW new \in Logs, NEW count \in 0..Len(failures),
                 RecordAt(log) = [log |-> new, count |-> count],
                 new.pending = Len(failures) - count
          PROVE  LogType' /\ FailuresAreReportedOnce'
      <3> DEFINE outcome == [log |-> new, count |-> count]
      <3>1. outcome.log = new /\ outcome.count = count /\ Emit(outcome, failures)
        BY <2>5, <2>6, Zenon
      <3> HIDE DEF outcome
      <3> QED BY <2>2, <2>3, <2>5, <2>6, <3>1, EmitKeepsAccount, Zenon
    <2>7. CASE log.last = "none"
      <3> DEFINE new == [log EXCEPT !.last = "recent"]
      <3>1. RecordAt(log) = [log |-> new, count |-> 1]
        BY <2>7, Zenon DEF RecordAt, Outcome
      <3>2. new \in Logs /\ new.pending = log.pending
        BY <2>1, Zenon DEF Logs
      <3> HIDE DEF new
      <3>3. new.pending = Len(failures) - 1 /\ 1 \in 0..Len(failures)
        BY <2>2, <2>4, <3>2
      <3> QED BY <1>2, <2>6, <3>1, <3>2, <3>3, Zenon
    <2>8. CASE log.last = "recent"
      <3> DEFINE new == [log EXCEPT !.pending = @ + 1]
      <3>1. RecordAt(log) = [log |-> new, count |-> 0]
        BY <2>8, Zenon DEF RecordAt, Outcome
      <3>2. new \in Logs /\ new.pending = log.pending + 1
        BY <2>1 DEF Logs
      <3> HIDE DEF new
      <3>3. new.pending = Len(failures) - 0 /\ 0 \in 0..Len(failures)
        BY <2>2, <2>4, <3>2
      <3> QED BY <1>2, <2>6, <3>1, <3>2, <3>3, Zenon
    <2>9. CASE log.last = "old"
      <3> DEFINE new == [last |-> "recent", pending |-> 0]
      <3>1. RecordAt(log) = [log |-> new, count |-> log.pending + 1]
        BY <2>9, Zenon DEF RecordAt, Outcome
      <3>2. new \in Logs /\ new.pending = 0
        BY Zenon DEF Logs
      <3> HIDE DEF new
      <3>3. new.pending = Len(failures) - Len(failures) /\ Len(failures) \in 0..Len(failures)
        BY <2>2, <2>4, <3>2
      <3> QED BY <1>2, <2>2, <2>6, <3>1, <3>2, <3>3, Zenon
    <2> QED BY <1>2, <2>4, <2>7, <2>8, <2>9, Zenon
  <1> QED BY <1>1, <1>2, Zenon DEF Report

\* Everything pending is reported: at a reset and when the log is dropped.
LEMMA FlushKeepsAccount ==
    ASSUME LogType, FailuresAreReportedOnce, NEW outcome, Emit(outcome, owed),
           outcome \in {Flush(log), ResetLog(log)}, logSession' \in Nat
    PROVE  LogType' /\ FailuresAreReportedOnce'
  <1>1. owed \in Seq(Nat) /\ log \in Logs /\ Len(owed) = log.pending /\ log.pending \in Nat
    BY Zenon DEF LogType, FailuresAreReportedOnce, Logs
  <1>2. outcome.log \in Logs /\ outcome.log.pending = 0 /\ outcome.count = log.pending
    BY <1>1 DEF Flush, ResetLog, Outcome, NewLog, Logs
  <1> QED BY <1>1, <1>2, EmitKeepsAccount

\* Every step keeps the log in order.
LEMMA LogStep ==
    ASSUME DeliveryInv, LogInv, [Next]_vars
    PROVE  LogInv'
  <1>0. LogType /\ FailuresAreReportedOnce /\ DeliveryType /\ session \in Nat
    BY Zenon DEF LogInv, DeliveryInv, DeliveryType
  <1>1. ASSUME UNCHANGED <<dispatcher, delivery, logVars>>
        PROVE  LogInv'
    BY <1>1, Zenon DEF LogInv, LogType, FailuresAreReportedOnce, logVars
  <1>2. CASE WindowPasses
    <2>1. log' \in Logs /\ log'.pending = log.pending
      BY <1>0, <1>2, Zenon DEF WindowPasses, WindowPassed, LogType, Logs
    <2> QED BY <1>2, <2>1, Zenon DEF WindowPasses, dispatcherVars, LogInv, LogType, FailuresAreReportedOnce
  <1>3. ASSUME NEW key \in Keys, Receive(key)
        PROVE  LogInv'
    <2>1. delivery'.gen = session
      BY <1>3, Zenon DEF Receive
    <2>2. CASE logSession = session /\ UNCHANGED logVars
      BY <2>1, <2>2, Zenon DEF LogInv, LogType, FailuresAreReportedOnce, logVars
    <2>3. CASE ResetDiagnostics(session)
      <3>1. logSession' = session /\ Emit(ResetLog(log), owed)
        BY <2>3, Zenon DEF ResetDiagnostics
      <3> QED BY <1>0, <2>1, <3>1, FlushKeepsAccount, Zenon DEF LogInv
    <2> QED BY <1>3, <2>2, <2>3, Zenon DEF Receive
  <1>4. CASE End
    <2>1. Emit(Flush(log), owed) /\ UNCHANGED logSession /\ dispatcher' \notin Busy
      BY <1>4, Zenon DEF End, Busy
    <2>2. logSession' \in Nat
      BY <1>0, <2>1, Zenon DEF LogType
    <2> QED BY <1>0, <2>1, <2>2, FlushKeepsAccount, Zenon DEF LogInv
  <1>5. CASE DispatchStep
    <2>1. dispatcher \in Busy
      BY <1>5, Zenon DEF DispatchStep, Attach, CheckFirst, Lookup, Convert, Admit, StartCallback, CallbackReturns,
                  ReturnsFrom, Busy
    <2>2. UNCHANGED delivery \/ dispatcher' \notin Busy
      BY <1>5, Zenon DEF DispatchStep, Attach, CheckFirst, Lookup, Convert, Admit, StartCallback, CallbackReturns,
                  Done, Continue, Busy
    <2>3. UNCHANGED logVars \/ Report
      BY <1>5, Zenon DEF DispatchStep, Attach, CheckFirst, Lookup, Convert, Admit, StartCallback, CallbackReturns
    <2>4. delivery.gen = logSession
      BY <2>1, Zenon DEF LogInv
    <2>5. Report
      BY <2>3, Zenon DEF Report
    <2>6. LogType' /\ FailuresAreReportedOnce' /\ UNCHANGED logSession
      BY <1>0, <2>4, <2>5, ReportKeepsAccount, Zenon
    <2> QED BY <2>2, <2>4, <2>6, Zenon DEF LogInv
  <1>6. ASSUME NEW t \in Callers, (\E o \in Operations : Call(t, o)) \/ MethodStep(t)
        PROVE  UNCHANGED <<dispatcher, delivery, logVars>>
    BY <1>6, Zenon DEF Call, MethodStep, LockRegistry, CallCore, ChangeRegistry, ReleaseReference, Return,
                dispatcherVars
  <1>7. CASE CoreLocks \/ CoreUnlocks \/ Finalize \/ UNCHANGED vars
    <2>1. UNCHANGED <<dispatcher, delivery, logVars>>
      BY <1>7, Zenon DEF CoreLocks, CoreUnlocks, Finalize, vars, dispatcherVars
    <2> QED BY <1>1, <2>1, Zenon
  <1> QED BY <1>1, <1>2, <1>3, <1>4, <1>5, <1>6, <1>7, Zenon DEF Next

-----------------------------------------------------------------------------

\* The initial state is in order.
LEMMA InitInv == Init => DispatchInv
  <1> SUFFICES ASSUME Init PROVE DispatchInv
    BY Zenon
  <1>1. Idle \in Methods
    BY Zenon DEF Idle, Methods
  <1>2. TableType
    BY <1>1 DEF Init, TableType
  <1>3. \A t \in Callers : thread[t].pc = "idle" /\ registryLock # t
    BY ThreadsAssumption, Zenon DEF Init, Idle, Callers
  <1>4. \A topic \in Topics : registry[topic] = 0
    BY Zenon DEF Init, Keys
  <1>5. RegistryInv
    BY <1>2, <1>3, <1>4, Zenon DEF RegistryInv, LockIsInside, MethodsAreSound, SubscriptionsMatch, Inside
  <1>6. DeliveryInv
    <2>1. session = 1 /\ dispatcher = "recv" /\ delivery = NoDelivery /\ converted = 0
      BY Zenon DEF Init
    <2>2. NoDelivery \in [key : Keys \cup {""}, gen : Nat]
      BY Zenon DEF NoDelivery
    <2>3. DeliveryType
      <3>1. session \in Nat \ {0}
        BY <2>1
      <3>2. dispatcher \in Between \cup Busy
        BY <2>1, Zenon DEF Between
      <3>3. delivery \in [key : Keys \cup {""}, gen : Nat]
        BY <2>1, <2>2, Zenon
      <3>4. converted \in Nat
        BY <2>1
      <3> QED BY <3>1, <3>2, <3>3, <3>4, Zenon DEF DeliveryType
    <2>4. dispatcher \notin Busy /\ dispatcher \notin {"convert", "second", "admitted"}
      BY <2>1, Zenon DEF Busy
    <2> QED BY <2>1, <2>3, <2>4, Zenon DEF DeliveryInv
  <1>7. LogInv
    BY DEF Init, LogInv, LogType, FailuresAreReportedOnce, NewLog, Logs, Busy
  <1>8. IdsInv
    BY DEF Init, IdsInv
  <1> QED BY <1>5, <1>6, <1>7, <1>8, Zenon DEF DispatchInv

\* The parts of the invariant hold together.
LEMMA Invariant == Spec => []DispatchInv
  <1>1. DispatchInv /\ [Next]_vars => DispatchInv'
    BY RegistryStep, IdsStep, DeliveryStep, LogStep, Zenon DEF DispatchInv
  <1> QED BY InitInv, <1>1, PTL DEF Spec

\* subscribe and unsubscribe change the core before the registry, under one lock, so
\* that whoever gets the registry finds every topic with a callback subscribed.
THEOREM CallbacksHaveSubscriptions == Spec => []RegisteredIsSubscribed
  <1>1. DispatchInv => RegisteredIsSubscribed
    <2> SUFFICES ASSUME DispatchInv, registryLock = "free", NEW topic \in Topics, registry[topic] # 0
                 PROVE  topic \in subs
      BY Zenon DEF RegisteredIsSubscribed
    <2>1. \A t \in Callers : thread[t].pc # "change"
      BY ThreadsAssumption, Zenon DEF DispatchInv, RegistryInv, LockIsInside, Inside, Callers
    <2> QED BY <2>1, Zenon DEF DispatchInv, RegistryInv, SubscriptionsMatch
  <1> QED BY <1>1, Invariant, PTL

\* The log of callback failures tells each failure once, in its own generation:
\* dispatch_loop resets it before it handles a delivery of another one.
THEOREM NoFailureIsLostOrToldTwice == Spec => []FailuresAreReportedOnce
  <1>1. DispatchInv => FailuresAreReportedOnce
    BY Zenon DEF DispatchInv, LogInv
  <1> QED BY <1>1, Invariant, PTL

\* dispatch_callback calls a callback only if the session of its delivery outlasted the
\* attachment, the lookup and the conversion, and none that was removed before the
\* delivery was taken.
THEOREM NoStaleCallback == Spec => CallbacksAreCurrent
  <1>1. DispatchInv /\ [Next]_vars =>
          [dispatcher' = "calling" /\ dispatcher # "calling"
             => converted = delivery.gen /\ copied \notin barred]_vars
    <2> SUFFICES ASSUME DispatchInv, Next, dispatcher' = "calling", dispatcher # "calling"
                 PROVE  converted = delivery.gen /\ copied \notin barred
      BY Zenon
    <2>1. ASSUME NEW t \in Callers, (\E o \in Operations : Call(t, o)) \/ MethodStep(t)
          PROVE  UNCHANGED dispatcher
      BY <2>1, ZenonT(60) DEF Call, MethodStep, LockRegistry, CallCore, ChangeRegistry, ReleaseReference, Return,
                  dispatcherVars
    <2>2. DispatchStep
      BY <2>1, Zenon DEF Next, CoreLocks, CoreUnlocks, WindowPasses, Receive, End, Finalize, dispatcherVars
    <2>3. dispatcher = "admitted"
      BY <2>2, Zenon DEF DispatchStep, Attach, CheckFirst, Lookup, Convert, Admit, StartCallback,
                  CallbackReturns, Done, Continue
    <2> QED BY <2>3, Zenon DEF DispatchInv, DeliveryInv
  <1> QED BY <1>1, Invariant, PTL DEF Spec, CallbacksAreCurrent
===============================================================================
