---------------------------- MODULE IngressProofs ----------------------------
(***************************************************************************)
(* Safety of two bounded stores of what the robot sends, in parts that     *)
(* share nothing but the lemmas on sums: the assembler of chunks for any   *)
(* limits, keys and messages, and the encoded queue of the H264 decoder    *)
(* for any limits and any number of units.                                 *)
(***************************************************************************)
EXTENDS ChunkAssembler, MediaReceive, Sums, TLAPS

-----------------------------------------------------------------------------
(* Chunks: the inductive invariant. *)

ChunkBytes(chunks) == FoldFunction(LAMBDA chunk, sum : Len(chunk) + sum, 0, chunks)

TransferBytes(ts) == FoldFunction(LAMBDA t, sum : t.bytes + sum, 0, ts)

LengthsOf(chunks) == [i \in DOMAIN chunks |-> Len(chunks[i])]

BytesOf(ts) == [key \in DOMAIN ts |-> ts[key].bytes]

Fields == {"schema", "total", "bytes", "late", "chunks"}

\* A transfer that consists of the chunks that arrived.
Sound(t, chunks) ==
    /\ DOMAIN t = Fields /\ TransferType(t)
    /\ chunks = {<<i, t.chunks[i]>> : i \in DOMAIN t.chunks}
    /\ t.bytes = ChunkBytes(t.chunks) /\ t.bytes <= MaxTransferBytes

Unfinished(t) == Cardinality(DOMAIN t.chunks) \in 1..(t.total - 1)

\* KeptCanComplete, and that only finitely many keys are in use.
AssemblerInv ==
    /\ DOMAIN transfers \in SUBSET Keys /\ IsFiniteSet(DOMAIN transfers)
    /\ DOMAIN arrived = Keys
    /\ \A key \in DOMAIN transfers : Sound(transfers[key], arrived[key]) /\ Unfinished(transfers[key])
    /\ \A key \in Keys \ DOMAIN transfers : arrived[key] = {}
    /\ TransferBytes(transfers) <= MaxRetainedBytes
    /\ Cardinality(DOMAIN transfers) <= MaxTransfers

-----------------------------------------------------------------------------
(* The counters are sums. *)

\* The fold over the chunks of a transfer.
LEMMA ChunkBytesIsSum ==
    ASSUME NEW c, IsFiniteSet(DOMAIN c), \A i \in DOMAIN c : c[i] \in Payloads
    PROVE  /\ ChunkBytes(c) = Sum(LengthsOf(c), DOMAIN c) /\ ChunkBytes(c) \in Nat
           /\ \A i \in DOMAIN c : LengthsOf(c)[i] = Len(c[i]) /\ LengthsOf(c)[i] \in Nat
<1> DEFINE D == DOMAIN c
           f == LengthsOf(c)
<1>1. \A i \in D : f[i] = Len(c[i]) /\ f[i] \in Nat
  BY MessagesAssumption, Zenon DEF LengthsOf
<1>2. ChunkBytes(c) = (CHOOSE g : g = [s \in SUBSET D |->
                         IF s = {} THEN 0 ELSE Len(c[Any(s)]) + g[s \ {Any(s)}]])[D]
  BY Zenon DEF ChunkBytes, FoldFunction, FoldFunctionOnSet, MapThenFoldSet, Any
<1>3. \A g : (g = [s \in SUBSET D |-> IF s = {} THEN 0 ELSE Len(c[Any(s)]) + g[s \ {Any(s)}]])
             <=> Recurs(f, D, g)
  <2> HIDE DEF f, D
  <2>1. \A s \in SUBSET D : \A g :
          Adds(f, s, g) = IF s = {} THEN 0 ELSE Len(c[Any(s)]) + g[s \ {Any(s)}]
    BY <1>1 DEF Adds, Any
  <2> QED
    BY <2>1, Zenon DEF Recurs
<1>4. IsFiniteSet(D)
  BY Zenon
<1> HIDE DEF D, f
<1>5. ChunkBytes(c) = (CHOOSE g : Recurs(f, D, g))[D]
  BY <1>2, <1>3, Zenon
<1>6. (CHOOSE g : Recurs(f, D, g))[D] = Sum(f, D) /\ Sum(f, D) \in Nat
  BY <1>1, <1>4, FoldIsSum, SumIsNatural, Zenon
<1> QED
  BY <1>1, <1>5, <1>6, Zenon DEF D, f

\* The fold over all transfers.
LEMMA TransferBytesIsSum ==
    ASSUME NEW ts, IsFiniteSet(DOMAIN ts), \A key \in DOMAIN ts : ts[key].bytes \in Nat
    PROVE  /\ TransferBytes(ts) = Sum(BytesOf(ts), DOMAIN ts) /\ TransferBytes(ts) \in Nat
           /\ \A key \in DOMAIN ts : /\ BytesOf(ts)[key] = ts[key].bytes
                                     /\ BytesOf(ts)[key] \in Nat
<1> DEFINE D == DOMAIN ts
           f == BytesOf(ts)
<1>1. \A key \in D : f[key] = ts[key].bytes /\ f[key] \in Nat
  BY Zenon DEF BytesOf
<1>2. TransferBytes(ts) = (CHOOSE g : g = [s \in SUBSET D |->
                             IF s = {} THEN 0 ELSE ts[Any(s)].bytes + g[s \ {Any(s)}]])[D]
  BY Zenon DEF TransferBytes, FoldFunction, FoldFunctionOnSet, MapThenFoldSet, Any
<1>3. \A g : (g = [s \in SUBSET D |-> IF s = {} THEN 0 ELSE ts[Any(s)].bytes + g[s \ {Any(s)}]])
             <=> Recurs(f, D, g)
  <2> HIDE DEF f, D
  <2>1. \A s \in SUBSET D : \A g :
          Adds(f, s, g) = IF s = {} THEN 0 ELSE ts[Any(s)].bytes + g[s \ {Any(s)}]
    BY <1>1 DEF Adds, Any
  <2> QED
    BY <2>1, Zenon DEF Recurs
<1>4. IsFiniteSet(D)
  BY Zenon
<1> HIDE DEF D, f
<1>5. TransferBytes(ts) = (CHOOSE g : Recurs(f, D, g))[D]
  BY <1>2, <1>3, Zenon
<1>6. (CHOOSE g : Recurs(f, D, g))[D] = Sum(f, D) /\ Sum(f, D) \in Nat
  BY <1>1, <1>4, FoldIsSum, SumIsNatural, Zenon
<1> QED
  BY <1>1, <1>5, <1>6, Zenon DEF D, f

\* The indices of a transfer.
LEMMA IndicesAreFinite ==
    ASSUME NEW t, TransferType(t)
    PROVE  /\ IsFiniteSet(DOMAIN t.chunks) /\ Cardinality(DOMAIN t.chunks) \in 0..t.total
           /\ Cardinality(DOMAIN t.chunks) = t.total => DOMAIN t.chunks = 1..t.total
<1> DEFINE D == DOMAIN t.chunks
           n == t.total
<1>1. n \in Nat /\ 1 <= n /\ D \in SUBSET (1..n)
  BY LimitsAssumption DEF TransferType
<1> HIDE DEF D, n
<1>2. IsFiniteSet(1..n) /\ Cardinality(1..n) = n
  BY <1>1, FS_Interval
<1>3. /\ IsFiniteSet(D) /\ Cardinality(D) <= Cardinality(1..n)
      /\ Cardinality(1..n) = Cardinality(D) => 1..n = D
  BY <1>1, <1>2, FS_Subset, Zenon
<1>4. Cardinality(D) \in Nat
  BY <1>3, FS_CardinalityType, Zenon
<1> QED
  BY <1>1, <1>2, <1>3, <1>4 DEF D, n

\* The counters of the invariant are numbers.
LEMMA CountersAreNumbers ==
    ASSUME AssemblerInv
    PROVE  /\ \A key \in DOMAIN transfers : transfers[key].bytes \in Nat
           /\ Retained = TransferBytes(transfers) /\ Retained \in Nat
           /\ Cardinality(DOMAIN transfers) \in Nat
<1>1. \A key \in DOMAIN transfers : transfers[key].bytes \in Nat
  BY Zenon DEF AssemblerInv, Sound, TransferType
<1>2. IsFiniteSet(DOMAIN transfers)
  BY Zenon DEF AssemblerInv
<1>3. TransferBytes(transfers) \in Nat
  BY <1>1, <1>2, TransferBytesIsSum, Zenon
<1>4. Retained = TransferBytes(transfers)
  BY Zenon DEF Retained, TransferBytes
<1> QED
  BY <1>1, <1>2, <1>3, <1>4, FS_CardinalityType, Zenon

-----------------------------------------------------------------------------
(* insert. *)

Added(t, index, bytes) ==
    [t EXCEPT !.bytes = @ + Len(bytes),
              !.chunks = [i \in DOMAIN @ \cup {index} |-> IF i = index THEN bytes ELSE @[i]]]

\* The chunks with one more.
WithChunk(chunks, index, bytes) ==
    [i \in DOMAIN chunks \cup {index} |-> IF i = index THEN bytes ELSE chunks[i]]

\* Added, field by field.
LEMMA AddedFields ==
    ASSUME NEW t, DOMAIN t = Fields, NEW index, NEW bytes, NEW u, u = Added(t, index, bytes)
    PROVE  /\ DOMAIN u = Fields /\ u.schema = t.schema /\ u.total = t.total /\ u.late = t.late
           /\ u.bytes = t.bytes + Len(bytes)
           /\ u.chunks = WithChunk(t.chunks, index, bytes)
<1> DEFINE more == [i \in DOMAIN t.chunks \cup {index} |-> IF i = index THEN bytes ELSE t.chunks[i]]
           sum == t.bytes + Len(bytes)
           w == [t EXCEPT !.bytes = sum, !.chunks = more]
<1>1. u = w
  BY Zenon DEF Added, Fields
<1> HIDE DEF more, sum
<1>2. /\ DOMAIN w = Fields /\ w.schema = t.schema /\ w.total = t.total /\ w.late = t.late
      /\ w.bytes = sum /\ w.chunks = more
  BY Zenon DEF Fields
<1> QED
  BY <1>1, <1>2, Zenon DEF more, sum, WithChunk

\* A chunk that fits leaves a transfer sound.
LEMMA ChunkIsAdded ==
    ASSUME NEW t, NEW chunks, Sound(t, chunks), NEW index \in (1..t.total) \ DOMAIN t.chunks,
           NEW bytes \in Payloads, t.bytes + Len(bytes) <= MaxTransferBytes
    PROVE  LET u == Added(t, index, bytes) IN
           /\ Sound(u, chunks \cup {<<index, bytes>>})
           /\ u.total = t.total /\ u.bytes = t.bytes + Len(bytes) /\ u.late = t.late
           /\ Cardinality(DOMAIN u.chunks) \in 1..t.total
<1> DEFINE u == Added(t, index, bytes)
           D == DOMAIN t.chunks
           c == [i \in D \cup {index} |-> IF i = index THEN bytes ELSE t.chunks[i]]
<1>1. DOMAIN t = Fields
  BY Zenon DEF Sound
<1>2. /\ u.schema = t.schema /\ u.total = t.total /\ u.bytes = t.bytes + Len(bytes)
      /\ u.late = t.late /\ u.chunks = c /\ DOMAIN u = Fields
  <2>1. u = Added(t, index, bytes)
    BY Zenon
  <2> HIDE DEF u, c, D
  <2>2. /\ DOMAIN u = Fields /\ u.schema = t.schema /\ u.total = t.total /\ u.late = t.late
        /\ u.bytes = t.bytes + Len(bytes)
        /\ u.chunks = WithChunk(t.chunks, index, bytes)
    BY <1>1, <2>1, AddedFields
  <2> QED
    BY <2>2, Zenon DEF c, D, WithChunk
<1>3. /\ t.schema \in Schemas /\ t.total \in 1..MaxChunks /\ t.bytes \in Nat /\ t.late \in BOOLEAN
      /\ D \subseteq 1..t.total /\ \A i \in D : t.chunks[i] \in Payloads
      /\ chunks = {<<i, t.chunks[i]>> : i \in D} /\ t.bytes = ChunkBytes(t.chunks)
  BY Zenon DEF Sound, TransferType
<1>4. /\ DOMAIN c = D \cup {index} /\ c[index] = bytes /\ \A i \in D : c[i] = t.chunks[i]
      /\ \A i \in D \cup {index} : c[i] \in Payloads
  BY <1>3, Zenon
<1>5. Len(bytes) \in Nat /\ t.total \in Nat
  BY <1>3, MessagesAssumption, LimitsAssumption
<1>6. IsFiniteSet(D)
  BY IndicesAreFinite, Zenon DEF Sound
<1>7. index \in 1..t.total /\ index \notin D
  BY Zenon
<1> HIDE DEF u, c
<1>9. ChunkBytes(c) = ChunkBytes(t.chunks) + Len(bytes)
  <2>1. /\ ChunkBytes(t.chunks) = Sum(LengthsOf(t.chunks), D)
        /\ \A i \in D : LengthsOf(t.chunks)[i] = Len(t.chunks[i]) /\ LengthsOf(t.chunks)[i] \in Nat
    BY <1>3, <1>6, ChunkBytesIsSum, Zenon
  <2>2. IsFiniteSet(D \cup {index})
    BY <1>6, FS_AddElement, Zenon
  <2>3. /\ ChunkBytes(c) = Sum(LengthsOf(c), D \cup {index})
        /\ \A i \in D \cup {index} : LengthsOf(c)[i] = Len(c[i])
    BY <1>4, <2>2, ChunkBytesIsSum, Zenon
  <2>4. LengthsOf(c)[index] = Len(bytes) /\ \A i \in D : LengthsOf(c)[i] = LengthsOf(t.chunks)[i]
    BY <1>4, <2>1, <2>3, Zenon
  <2> HIDE DEF D
  <2>5. Sum(LengthsOf(c), D \cup {index}) = Sum(LengthsOf(t.chunks), D) + Len(bytes)
    <3> DEFINE f == LengthsOf(t.chunks)
               g == LengthsOf(c)
    <3>1. /\ \A i \in D : f[i] \in Nat /\ g[i] = f[i]
          /\ g[index] = Len(bytes) /\ g[index] \in Nat
      BY <1>5, <2>1, <2>4, Zenon
    <3> HIDE DEF f, g
    <3>a. (\A i \in D : f[i] \in Nat) /\ (\A i \in D \ {index} : g[i] = f[i]) /\ g[index] \in Nat
      BY <3>1, Zenon
    <3>2. Sum(g, D \cup {index})
            = (IF index \in D THEN Sum(f, D) - f[index] ELSE Sum(f, D)) + g[index]
      BY <1>6, <3>a, SumOfUpdate
    <3>3. Sum(g, D \cup {index}) = Sum(f, D) + Len(bytes)
      BY <1>7, <3>1, <3>2, Zenon
    <3> QED
      BY <3>3, Zenon DEF f, g
  <2> QED
    BY <2>1, <2>3, <2>5, Zenon DEF D
<1>10. TransferType(u)
  BY <1>3, <1>4, <1>5, <1>7, <1>2 DEF TransferType
<1>11. chunks \cup {<<index, bytes>>} = {<<i, c[i]>> : i \in DOMAIN c}
  BY <1>3, <1>4, <1>7
<1>12. Sound(u, chunks \cup {<<index, bytes>>})
  BY <1>3, <1>2, <1>9, <1>10, <1>11, Zenon DEF Sound
<1>13. Cardinality(DOMAIN u.chunks) \in 1..t.total
  <2>1. Cardinality(DOMAIN u.chunks) \in 0..t.total
    BY <1>2, <1>10, IndicesAreFinite, Zenon
  <2>2. Cardinality(DOMAIN c) # 0
    <3>1. IsFiniteSet(DOMAIN c) /\ DOMAIN c # {}
      BY <1>4, <1>6, FS_AddElement
    <3> QED
      BY <3>1, FS_EmptySet, Zenon
  <2> QED
    BY <1>5, <1>2, <2>1, <2>2
<1> QED
  BY <1>2, <1>12, <1>13, Zenon DEF u

\* The bytes of a transfer before a chunk is added.
BytesBefore(key) == IF key \in DOMAIN transfers THEN transfers[key].bytes ELSE 0

\* What insert makes of a chunk that it neither rejects nor has already.
LEMMA ExtendedIsSound ==
    ASSUME AssemblerInv, NEW key \in Keys, NEW schema \in Schemas, NEW index \in Numbers,
           NEW total \in Numbers, NEW bytes \in Payloads,
           ~Rejected(key, schema, index, total, bytes), ~IsDuplicate(key, index)
    PROVE  LET t == Extended(key, schema, index, total, bytes) IN
           /\ Sound(t, arrived[key] \cup {<<index, bytes>>})
           /\ t.total = total /\ t.bytes = BytesBefore(key) + Len(bytes) /\ total \in Nat
           /\ Cardinality(DOMAIN t.chunks) \in 1..total
<1> DEFINE none == [i \in {} |-> <<>>]
           fresh == [schema |-> schema, total |-> total, bytes |-> 0, late |-> FALSE, chunks |-> none]
           t == IF key \in DOMAIN transfers THEN transfers[key] ELSE fresh
<1>1. /\ index \in Nat /\ total \in Nat /\ Len(bytes) \in Nat
      /\ MaxChunks \in Nat /\ MaxTransferBytes \in Nat
  BY MessagesAssumption, LimitsAssumption, Zenon
<1>2. total \in 1..MaxChunks /\ index \in 1..total
  BY <1>1 DEF Rejected, BadNumbers
<1>3. ~OverTransfer(key, bytes)
  BY Zenon DEF Rejected
<1>4. Extended(key, schema, index, total, bytes) = Added(t, index, bytes)
  BY Zenon DEF Extended, Added
<1>5. /\ Sound(t, arrived[key]) /\ t.total = total /\ t.bytes = BytesBefore(key)
      /\ index \notin DOMAIN t.chunks /\ t.bytes + Len(bytes) <= MaxTransferBytes
  <2>1. CASE key \in DOMAIN transfers
    <3>1. t = transfers[key] /\ BytesBefore(key) = transfers[key].bytes
      BY <2>1, Zenon DEF BytesBefore
    <3>2. ~Inconsistent(transfers[key], schema, total)
      BY <2>1, Zenon DEF Rejected
    <3>3. transfers[key].bytes \in Nat
      BY <2>1, CountersAreNumbers, Zenon
    <3>4. transfers[key].bytes + Len(bytes) <= MaxTransferBytes
      BY <1>1, <1>3, <2>1, <3>3 DEF OverTransfer
    <3> HIDE DEF t
    <3> QED
      BY <2>1, <3>1, <3>2, <3>4, Zenon DEF Inconsistent, AssemblerInv, IsDuplicate
  <2>2. CASE key \notin DOMAIN transfers
    <3>1. t = fresh /\ BytesBefore(key) = 0 /\ arrived[key] = {}
      BY <2>2, Zenon DEF BytesBefore, AssemblerInv
    <3>2. Len(bytes) <= MaxTransferBytes
      BY <1>1, <1>3, <2>2 DEF OverTransfer
    <3>3. DOMAIN none = {} /\ \A i \in DOMAIN none : none[i] \in Payloads
      BY Zenon
    <3>4. ChunkBytes(none) = 0
      <4> HIDE DEF none
      <4>1. IsFiniteSet(DOMAIN none)
        BY <3>3, FS_EmptySet, Zenon
      <4> QED
        BY <3>3, <4>1, ChunkBytesIsSum, SumOfNothing, Zenon
    <3>5. {} = {<<i, none[i]>> : i \in DOMAIN none}
      BY <3>3, Zenon
    <3> HIDE DEF t, none
    <3>6. /\ fresh.schema = schema /\ fresh.total = total /\ fresh.bytes = 0
          /\ fresh.late = FALSE /\ fresh.chunks = none /\ DOMAIN fresh = Fields
      BY Zenon DEF Fields
    <3>7. TransferType(fresh)
      BY <1>2, <3>3, <3>6, Zenon DEF TransferType
    <3>8. Sound(fresh, {})
      BY <1>1, <3>4, <3>5, <3>6, <3>7 DEF Sound
    <3> HIDE DEF fresh
    <3> QED
      BY <1>1, <3>1, <3>2, <3>3, <3>6, <3>8
  <2> QED
    BY <2>1, <2>2, Zenon
<1> HIDE DEF t
<1>a. index \in (1..t.total) \ DOMAIN t.chunks
  BY <1>2, <1>5, Zenon
<1>6. LET u == Added(t, index, bytes) IN
      /\ Sound(u, arrived[key] \cup {<<index, bytes>>})
      /\ u.total = t.total /\ u.bytes = t.bytes + Len(bytes)
      /\ Cardinality(DOMAIN u.chunks) \in 1..t.total
  BY <1>a, <1>5, ChunkIsAdded, Zenon
<1> QED
  BY <1>1, <1>4, <1>5, <1>6, Zenon

\* A completed transfer: the chunks that arrived are those that are joined.
LEMMA InsertCompletes ==
    ASSUME AssemblerInv, NEW key \in Keys, NEW schema \in Schemas, NEW index \in Numbers,
           NEW total \in Numbers, NEW bytes \in Payloads,
           ~Rejected(key, schema, index, total, bytes), ~IsDuplicate(key, index),
           InsertNew(key, schema, index, total, bytes)
    PROVE  CompletedIsWhole'
<1> DEFINE t == Extended(key, schema, index, total, bytes)
           from == arrived[key] \cup {<<index, bytes>>}
<1>1. CASE Cardinality(DOMAIN t.chunks) # total
  BY <1>1, Zenon DEF InsertNew, CompletedIsWhole
<1>2. CASE Cardinality(DOMAIN t.chunks) = total
  <2>1. Sound(t, from) /\ t.total = total
    BY ExtendedIsSound
  <2>2. result' = [value |-> Join(t), total |-> total, from |-> from]
    BY <1>2, Zenon DEF InsertNew
  <2> HIDE DEF t, from
  <2>3. DOMAIN t.chunks = 1..total
    BY <1>2, <2>1, IndicesAreFinite, Zenon DEF Sound
  <2>4. from = {<<i, t.chunks[i]>> : i \in 1..total}
    BY <2>1, <2>3, Zenon DEF Sound
  <2>5. {chunk[1] : chunk \in from} = 1..total
    <3>1. \A chunk \in from : \E i \in 1..total : chunk[1] = i
      BY <2>4
    <3>2. ASSUME NEW i \in 1..total PROVE \E chunk \in from : chunk[1] = i
      <4>1. <<i, t.chunks[i]>> \in from /\ <<i, t.chunks[i]>>[1] = i
        BY <2>4, Zenon
      <4> QED
        BY <4>1, Zenon
    <3> QED
      BY <3>1, <3>2, Zenon
  <2>6. \A a, b \in from : a[1] = b[1] => a = b
    BY <2>4
  <2>7. ASSUME NEW i \in 1..total
        PROVE  (CHOOSE chunk \in from : chunk[1] = i)[2] = t.chunks[i]
    <3>1. <<i, t.chunks[i]>> \in from /\ <<i, t.chunks[i]>>[1] = i
      BY <2>4, Zenon
    <3>2. \A chunk \in from : chunk[1] = i => chunk = <<i, t.chunks[i]>>
      BY <2>6, <3>1, Zenon
    <3>3. (CHOOSE chunk \in from : chunk[1] = i) = <<i, t.chunks[i]>>
      BY <3>1, <3>2, Zenon
    <3>4. <<i, t.chunks[i]>>[2] = t.chunks[i]
      BY Zenon
    <3> QED
      BY <3>3, <3>4, Zenon
  <2>8. [i \in 1..total |-> (CHOOSE chunk \in from : chunk[1] = i)[2]]
          = [i \in 1..total |-> t.chunks[i]]
    BY <2>7
  <2>9. Join(t) = Concatenation([i \in 1..total |-> (CHOOSE chunk \in from : chunk[1] = i)[2]], total)
    BY <2>1, <2>8, Zenon DEF Join
  <2>10. result'.value = Join(t) /\ result'.total = total /\ result'.from = from
    BY <2>2, Zenon
  <2> QED
    BY <2>5, <2>6, <2>9, <2>10 DEF CompletedIsWhole
<1> QED
  BY <1>1, <1>2, Zenon

\* A chunk of a transfer that goes on.
LEMMA InsertKeeps ==
    ASSUME AssemblerInv, NEW key \in Keys, NEW schema \in Schemas, NEW index \in Numbers,
           NEW total \in Numbers, NEW bytes \in Payloads,
           ~Rejected(key, schema, index, total, bytes), ~IsDuplicate(key, index),
           InsertNew(key, schema, index, total, bytes),
           Cardinality(DOMAIN Extended(key, schema, index, total, bytes).chunks) # total
    PROVE  AssemblerInv'
<1> DEFINE t == Extended(key, schema, index, total, bytes)
           from == arrived[key] \cup {<<index, bytes>>}
           S == DOMAIN transfers
<1>1. /\ Sound(t, from) /\ t.total = total /\ t.bytes = BytesBefore(key) + Len(bytes)
      /\ total \in Nat /\ Cardinality(DOMAIN t.chunks) \in 1..total
  BY ExtendedIsSound
<1>2. /\ transfers' = [k \in S \cup {key} |-> IF k = key THEN t ELSE transfers[k]]
      /\ arrived' = [arrived EXCEPT ![key] = from]
      /\ Cardinality(DOMAIN t.chunks) # total
  BY Zenon DEF InsertNew
<1>3. ~OverTransfer(key, bytes) /\ ~OverRetained(bytes)
  BY Zenon DEF Rejected
<1> HIDE DEF t, from
<1>4. Unfinished(t)
  BY <1>1, <1>2 DEF Unfinished
<1>5. /\ S \in SUBSET Keys /\ IsFiniteSet(S) /\ DOMAIN arrived = Keys
      /\ \A k \in S : Sound(transfers[k], arrived[k]) /\ Unfinished(transfers[k])
      /\ \A k \in Keys \ S : arrived[k] = {}
      /\ Cardinality(S) <= MaxTransfers
  BY Zenon DEF AssemblerInv
<1>6. /\ \A k \in S : transfers[k].bytes \in Nat
      /\ Retained = TransferBytes(transfers) /\ Retained \in Nat /\ Cardinality(S) \in Nat
  BY CountersAreNumbers, Zenon
<1>7. /\ Len(bytes) \in Nat /\ MaxTransfers \in Nat /\ MaxRetainedBytes \in Nat
      /\ MaxTransferBytes \in Nat
  BY MessagesAssumption, LimitsAssumption, Zenon
<1>8. /\ DOMAIN transfers' = S \cup {key} /\ transfers'[key] = t
      /\ \A k \in S \ {key} : transfers'[k] = transfers[k]
      /\ DOMAIN arrived' = Keys /\ arrived'[key] = from
      /\ \A k \in Keys \ {key} : arrived'[k] = arrived[k]
  BY <1>2, <1>5, Zenon
<1>9. IsFiniteSet(S \cup {key})
  BY <1>5, FS_AddElement, Zenon
<1>10. Cardinality(S \cup {key}) <= MaxTransfers
  <2>1. Cardinality(S \cup {key}) = IF key \in S THEN Cardinality(S) ELSE Cardinality(S) + 1
    BY <1>5, FS_AddElement, Zenon
  <2>2. key \notin S => ~(Cardinality(S) >= MaxTransfers)
    BY <1>3, Zenon DEF OverTransfer
  <2> QED
    BY <1>5, <1>6, <1>7, <2>1, <2>2
<1>11. TransferBytes(transfers') = Retained + Len(bytes)
  <2>1. /\ TransferBytes(transfers) = Sum(BytesOf(transfers), S)
        /\ \A k \in S : BytesOf(transfers)[k] = transfers[k].bytes /\ BytesOf(transfers)[k] \in Nat
    BY <1>5, <1>6, TransferBytesIsSum, Zenon
  <2>2. t.bytes \in Nat
    BY <1>1, Zenon DEF Sound, TransferType
  <2>3. \A k \in S \cup {key} : transfers'[k].bytes \in Nat
    BY <1>6, <1>8, <2>2, Zenon
  <2>4. /\ TransferBytes(transfers') = Sum(BytesOf(transfers'), S \cup {key})
        /\ \A k \in S \cup {key} : BytesOf(transfers')[k] = transfers'[k].bytes
    <3> DEFINE ts == transfers'
    <3>1. IsFiniteSet(DOMAIN ts) /\ \A k \in DOMAIN ts : ts[k].bytes \in Nat
      BY <1>8, <1>9, <2>3, Zenon
    <3> HIDE DEF ts
    <3>2. /\ TransferBytes(ts) = Sum(BytesOf(ts), DOMAIN ts)
          /\ \A k \in DOMAIN ts : BytesOf(ts)[k] = ts[k].bytes
      BY <3>1, TransferBytesIsSum, Zenon
    <3> QED
      BY <1>8, <3>2, Zenon DEF ts
  <2> DEFINE f == BytesOf(transfers)
             g == BytesOf(transfers')
  <2>5. /\ \A k \in S : f[k] \in Nat
        /\ \A k \in S \ {key} : g[k] = f[k]
        /\ g[key] = t.bytes /\ g[key] \in Nat
        /\ key \in S => f[key] = transfers[key].bytes
    BY <1>8, <2>1, <2>2, <2>4, Zenon
  <2>6. TransferBytes(transfers') = Sum(g, S \cup {key}) /\ Retained = Sum(f, S)
    BY <1>6, <2>1, <2>4, Zenon
  <2> HIDE DEF f, g, S
  <2>7. Sum(g, S \cup {key}) = (IF key \in S THEN Sum(f, S) - f[key] ELSE Sum(f, S)) + g[key]
    BY <1>5, <2>5, SumOfUpdate
  <2>8. g[key] = (IF key \in S THEN f[key] ELSE 0) + Len(bytes)
    BY <1>1, <2>5, Zenon DEF BytesBefore, S
  <2>9. CASE key \in S
    <3>1. Sum(g, S \cup {key}) = Sum(f, S) - f[key] + (f[key] + Len(bytes)) /\ f[key] \in Nat
      BY <2>5, <2>7, <2>8, <2>9, Zenon
    <3>2. Sum(f, S) \in Nat
      BY <1>6, <2>6, Zenon
    <3>3. Sum(g, S \cup {key}) = Sum(f, S) + Len(bytes)
      BY <1>7, <3>1, <3>2
    <3> QED
      BY <2>6, <3>3, Zenon
  <2>10. CASE key \notin S
    <3>1. Sum(g, S \cup {key}) = Sum(f, S) + (0 + Len(bytes))
      BY <2>7, <2>8, <2>10, Zenon
    <3>2. Sum(g, S \cup {key}) = Sum(f, S) + Len(bytes)
      BY <1>7, <3>1
    <3> QED
      BY <2>6, <3>2, Zenon
  <2> QED
    BY <2>9, <2>10, Zenon
<1>12. TransferBytes(transfers') <= MaxRetainedBytes
  <2>1. ~(Len(bytes) > MaxRetainedBytes - Retained)
    BY <1>3, Zenon DEF OverRetained
  <2> QED
    BY <1>6, <1>7, <1>11, <2>1
<1>13. \A k \in S \cup {key} : Sound(transfers'[k], arrived'[k]) /\ Unfinished(transfers'[k])
  BY <1>1, <1>4, <1>5, <1>8, Zenon
<1>14. \A k \in Keys \ (S \cup {key}) : arrived'[k] = {}
  BY <1>5, <1>8, Zenon
<1> HIDE DEF S
<1> QED
  BY <1>5, <1>8, <1>9, <1>10, <1>12, <1>13, <1>14, Zenon DEF AssemblerInv

-----------------------------------------------------------------------------
(* Transfers that go. *)

\* What is removed frees its keys, its bytes and what had arrived.
LEMMA RemovalKeeps ==
    ASSUME AssemblerInv, NEW keys, transfers' = Without(keys), DOMAIN arrived' = Keys,
           \A k \in Keys : arrived'[k] = IF k \in keys THEN {} ELSE arrived[k]
    PROVE  AssemblerInv'
<1> DEFINE S == DOMAIN transfers
           T == S \ keys
<1>1. DOMAIN transfers' = T /\ \A k \in T : transfers'[k] = transfers[k]
  BY Zenon DEF Without, Restrict
<1>2. /\ S \in SUBSET Keys /\ IsFiniteSet(S)
      /\ \A k \in S : Sound(transfers[k], arrived[k]) /\ Unfinished(transfers[k])
      /\ \A k \in Keys \ S : arrived[k] = {}
      /\ TransferBytes(transfers) <= MaxRetainedBytes /\ Cardinality(S) <= MaxTransfers
  BY Zenon DEF AssemblerInv
<1>3. /\ \A k \in S : transfers[k].bytes \in Nat
      /\ TransferBytes(transfers) \in Nat /\ Cardinality(S) \in Nat
  BY CountersAreNumbers, Zenon
<1>4. IsFiniteSet(T) /\ Cardinality(T) <= Cardinality(S) /\ Cardinality(T) \in Nat
  <2>1. T \in SUBSET S
    BY Zenon
  <2> HIDE DEF S, T
  <2>2. IsFiniteSet(T) /\ Cardinality(T) <= Cardinality(S)
    BY <1>2, <2>1, FS_Subset, Zenon
  <2> QED
    BY <2>2, FS_CardinalityType, Zenon
<1>5. TransferBytes(transfers') <= TransferBytes(transfers) /\ TransferBytes(transfers') \in Nat
  <2> DEFINE ts == transfers'
  <2>1. /\ TransferBytes(transfers) = Sum(BytesOf(transfers), S)
        /\ \A k \in S : BytesOf(transfers)[k] = transfers[k].bytes /\ BytesOf(transfers)[k] \in Nat
    BY <1>2, <1>3, TransferBytesIsSum, Zenon
  <2>2. IsFiniteSet(DOMAIN ts) /\ \A k \in DOMAIN ts : ts[k].bytes \in Nat
    BY <1>1, <1>3, <1>4, Zenon
  <2>3. DOMAIN ts = T /\ T \in SUBSET S /\ \A k \in T : ts[k] = transfers[k]
    BY <1>1, Zenon
  <2> HIDE DEF ts, T, S
  <2>4. /\ TransferBytes(ts) = Sum(BytesOf(ts), T) /\ TransferBytes(ts) \in Nat
        /\ \A k \in T : BytesOf(ts)[k] = ts[k].bytes
    BY <2>2, <2>3, TransferBytesIsSum, Zenon
  <2>5. \A k \in T : BytesOf(ts)[k] = BytesOf(transfers)[k]
    BY <2>1, <2>3, <2>4
  <2>6. Sum(BytesOf(ts), T) = Sum(BytesOf(transfers), T)
    BY <2>5, SumOfEqual, Zenon
  <2>7. Sum(BytesOf(transfers), T) <= Sum(BytesOf(transfers), S)
    BY <1>2, <2>1, <2>3, SumOfSubset, Zenon
  <2> QED
    BY <2>1, <2>4, <2>6, <2>7, Zenon DEF ts
<1>6. TransferBytes(transfers') <= MaxRetainedBytes /\ Cardinality(T) <= MaxTransfers
  BY <1>2, <1>3, <1>4, <1>5, LimitsAssumption
<1>7. \A k \in T : Sound(transfers'[k], arrived'[k]) /\ Unfinished(transfers'[k])
  BY <1>1, <1>2, Zenon
<1>8. \A k \in Keys \ T : arrived'[k] = {}
  BY <1>2, Zenon
<1>9. T \in SUBSET Keys
  BY <1>2, Zenon
<1> HIDE DEF T, S
<1> QED
  BY <1>1, <1>4, <1>6, <1>7, <1>8, <1>9, Zenon DEF AssemblerInv

\* A deadline that passes changes nothing that is counted.
LEMMA DeadlineKeeps ==
    ASSUME AssemblerInv, NEW key \in Keys, Deadline(key)
    PROVE  AssemblerInv'
<1> DEFINE S == DOMAIN transfers
           t == transfers[key]
           u == [t EXCEPT !.late = TRUE]
<1>1. /\ key \in S /\ arrived' = arrived /\ transfers' = [transfers EXCEPT ![key] = u]
  BY Zenon DEF Deadline
<1>2. /\ S \in SUBSET Keys /\ IsFiniteSet(S) /\ DOMAIN arrived = Keys
      /\ \A k \in S : Sound(transfers[k], arrived[k]) /\ Unfinished(transfers[k])
      /\ \A k \in Keys \ S : arrived[k] = {}
      /\ TransferBytes(transfers) <= MaxRetainedBytes /\ Cardinality(S) <= MaxTransfers
  BY Zenon DEF AssemblerInv
<1>3. DOMAIN t = Fields
  BY <1>1, <1>2, Zenon DEF Sound
<1>4. /\ DOMAIN u = Fields /\ u.schema = t.schema /\ u.total = t.total /\ u.bytes = t.bytes
      /\ u.chunks = t.chunks /\ u.late = TRUE
  BY <1>3, Zenon DEF Fields
<1>5. /\ DOMAIN transfers' = S /\ transfers'[key] = u
      /\ \A k \in S \ {key} : transfers'[k] = transfers[k]
  BY <1>1, Zenon
<1>6. Sound(t, arrived[key]) /\ Unfinished(t)
  BY <1>1, <1>2, Zenon
<1> HIDE DEF u, t
<1>7. Sound(u, arrived[key]) /\ Unfinished(u)
  BY <1>4, <1>6, Zenon DEF Sound, TransferType, Unfinished
<1>8. \A k \in S : Sound(transfers'[k], arrived'[k]) /\ Unfinished(transfers'[k])
  BY <1>1, <1>2, <1>5, <1>7, Zenon
<1>9. TransferBytes(transfers') = TransferBytes(transfers)
  <2> DEFINE ts == transfers'
  <2>1. \A k \in S : transfers[k].bytes \in Nat
    BY CountersAreNumbers, Zenon
  <2>2. \A k \in S : ts[k].bytes = transfers[k].bytes
    BY <1>4, <1>5, Zenon DEF t
  <2>3. /\ TransferBytes(transfers) = Sum(BytesOf(transfers), S)
        /\ \A k \in S : BytesOf(transfers)[k] = transfers[k].bytes
    BY <1>2, <2>1, TransferBytesIsSum, Zenon
  <2>4. DOMAIN ts = S /\ \A k \in DOMAIN ts : ts[k].bytes \in Nat
    BY <1>5, <2>1, <2>2, Zenon
  <2> HIDE DEF ts, S
  <2>5. /\ TransferBytes(ts) = Sum(BytesOf(ts), S)
        /\ \A k \in S : BytesOf(ts)[k] = ts[k].bytes
    BY <1>2, <2>4, TransferBytesIsSum, Zenon
  <2>6. \A k \in S : BytesOf(ts)[k] = BytesOf(transfers)[k]
    BY <2>2, <2>3, <2>5, Zenon
  <2>7. Sum(BytesOf(ts), S) = Sum(BytesOf(transfers), S)
    BY <2>6, SumOfEqual, Zenon
  <2> QED
    BY <2>3, <2>5, <2>7, Zenon DEF ts
<1> HIDE DEF S
<1> QED
  BY <1>1, <1>2, <1>5, <1>8, <1>9, Zenon DEF AssemblerInv

-----------------------------------------------------------------------------

\* Every step of the assembler.
LEMMA StepAssembles ==
    ASSUME AssemblerInv, CompletedIsWhole, [Next]_vars
    PROVE  AssemblerInv' /\ CompletedIsWhole'
<1>1. result' = Nothing => CompletedIsWhole'
  BY Zenon DEF CompletedIsWhole
<1>2. DOMAIN arrived = Keys
  BY Zenon DEF AssemblerInv
<1>3. ASSUME NEW key \in Keys, NEW schema \in Schemas, NEW index \in Numbers,
             NEW total \in Numbers, NEW bytes \in Payloads,
             Insert(key, schema, index, total, bytes)
      PROVE  AssemblerInv' /\ CompletedIsWhole'
  <2>1. CASE Rejected(key, schema, index, total, bytes)
    <3>1. InsertFails(key)
      BY <1>3, <2>1, Zenon DEF Insert
    <3>2. /\ transfers' = Without({key}) /\ result' = Nothing /\ DOMAIN arrived' = Keys
          /\ \A k \in Keys : arrived'[k] = IF k \in {key} THEN {} ELSE arrived[k]
      BY <1>2, <3>1, Zenon DEF InsertFails
    <3> QED
      BY <1>1, <3>2, RemovalKeeps, Zenon
  <2>2. CASE ~Rejected(key, schema, index, total, bytes) /\ IsDuplicate(key, index)
    <3>1. result' = Nothing /\ UNCHANGED <<transfers, arrived>>
      BY <1>3, <2>2, Zenon DEF Insert, InsertDuplicate
    <3> QED
      BY <1>1, <3>1, Zenon DEF AssemblerInv
  <2>3. CASE ~Rejected(key, schema, index, total, bytes) /\ ~IsDuplicate(key, index)
    <3>1. InsertNew(key, schema, index, total, bytes)
      BY <1>3, <2>3, Zenon DEF Insert
    <3>2. CompletedIsWhole'
      BY <1>3, <2>3, <3>1, InsertCompletes, Zenon
    <3>3. CASE Cardinality(DOMAIN Extended(key, schema, index, total, bytes).chunks) # total
      BY <1>3, <2>3, <3>1, <3>2, <3>3, InsertKeeps, Zenon
    <3>4. CASE Cardinality(DOMAIN Extended(key, schema, index, total, bytes).chunks) = total
      <4>1. /\ transfers' = Without({key}) /\ DOMAIN arrived' = Keys
            /\ \A k \in Keys : arrived'[k] = IF k \in {key} THEN {} ELSE arrived[k]
        BY <1>2, <3>1, <3>4, Zenon DEF InsertNew
      <4> QED
        BY <3>2, <4>1, RemovalKeeps, Zenon
    <3> QED
      BY <3>3, <3>4, Zenon
  <2> QED
    BY <2>1, <2>2, <2>3, Zenon
<1>4. ASSUME NEW keys, RemoveKeys(keys) PROVE AssemblerInv' /\ CompletedIsWhole'
  <2>1. /\ transfers' = Without(keys) /\ result' = Nothing /\ DOMAIN arrived' = Keys
        /\ \A k \in Keys : arrived'[k] = IF k \in keys THEN {} ELSE arrived[k]
    BY <1>4, Zenon DEF RemoveKeys
  <2> QED
    BY <1>1, <2>1, RemovalKeeps, Zenon
<1>5. ASSUME NEW key \in Keys, Deadline(key) PROVE AssemblerInv' /\ CompletedIsWhole'
  <2>1. result' = Nothing
    BY <1>5, Zenon DEF Deadline
  <2> QED
    BY <1>1, <1>5, <2>1, DeadlineKeeps, Zenon
<1>6. CASE UNCHANGED vars
  BY <1>6 DEF vars, AssemblerInv, CompletedIsWhole
<1> QED
  BY <1>3, <1>4, <1>5, <1>6, Zenon DEF Next, Expire

\* An assembler without transfers.
LEMMA NothingIsAssembled == Init => AssemblerInv /\ CompletedIsWhole
<1> SUFFICES ASSUME Init PROVE AssemblerInv /\ CompletedIsWhole
  BY Zenon
<1>1. /\ DOMAIN transfers = {} /\ DOMAIN arrived = Keys /\ \A key \in Keys : arrived[key] = {}
      /\ result = Nothing
  BY Zenon DEF Init
<1>2. IsFiniteSet({}) /\ Cardinality({}) = 0
  BY FS_EmptySet, Zenon
<1>3. TransferBytes(transfers) = 0
  <2>1. TransferBytes(transfers) = Sum(BytesOf(transfers), {})
    BY <1>1, <1>2, TransferBytesIsSum, Zenon
  <2> QED
    BY <2>1, SumOfNothing, Zenon
<1> QED
  BY <1>1, <1>2, <1>3, LimitsAssumption DEF AssemblerInv, CompletedIsWhole

\* The assembler in every behaviour.
LEMMA AssemblerInvariance == AssemblerSpec => [](AssemblerInv /\ CompletedIsWhole)
<1>1. AssemblerInv /\ CompletedIsWhole /\ [Next]_vars => (AssemblerInv /\ CompletedIsWhole)'
  BY StepAssembles, Zenon
<1> QED
  BY <1>1, NothingIsAssembled, PTL DEF AssemblerSpec

\* Whatever arrives in whatever order, duplicated, in conflict or late, a value that insert
\* returns is the concatenation of one payload for every index that was announced.
THEOREM AssemblyIsWhole == AssemblerSpec => []CompletedIsWhole
BY AssemblerInvariance, PTL

\* The transfers that insert_checked keeps are unfinished and consist of what arrived; the
\* counters of bytes are exact and within their limits, for any number of keys and chunks.
THEOREM KeptIsBounded == AssemblerSpec => []KeptCanComplete
<1>1. ASSUME AssemblerInv PROVE KeptCanComplete
  <2>1. Retained = TransferBytes(transfers)
    BY <1>1, CountersAreNumbers, Zenon
  <2>2. \A key \in DOMAIN transfers : Sound(transfers[key], arrived[key]) /\ Unfinished(transfers[key])
    BY <1>1, Zenon DEF AssemblerInv
  <2> QED
    BY <1>1, <2>1, <2>2, Zenon DEF AssemblerInv, KeptCanComplete, Sound, Unfinished, ChunkBytes
<1> QED
  BY <1>1, AssemblerInvariance, PTL

-----------------------------------------------------------------------------
(* The encoded queue of the decoder: the inductive invariant. *)

BeforePush == {"check", "count", "level", "admitted", "counted"}

VideoSteps == {"start", "read", "done"} \cup Decoding

Buffers == [id : Nat, size : Nat]

DecoderTypes ==
    /\ video \in VideoSteps
    /\ read \in Buffers /\ unit \in Buffers
    /\ received \in Nat /\ decoded \in Nat
    /\ counter \in Nat
    /\ appsrc \in Seq(Buffers)

HoldsUnit == read \notin {NoUnit, Fragment}

\* Every unit that was received is decoded, queued, held by the read or in decode().
Accounted ==
    received = decoded + Len(appsrc) + (IF HoldsUnit THEN 1 ELSE 0)
                                     + (IF video \in BeforePush THEN 1 ELSE 0)

OrderInv ==
    /\ \A i \in 1..Len(appsrc) : appsrc[i].id = decoded + i
    /\ HoldsUnit => read.id = received
    /\ video \in Decoding => read = NoUnit
    /\ video \in BeforePush => unit.id = received
    /\ video # "done" => Accounted

\* What the admission of decode() has established at each of its steps.
CountInv ==
    terminal # "push" =>
      /\ counter = Len(appsrc) + InProbe + (IF video = "counted" THEN 1 ELSE 0)
      /\ counter <= MaxBuffers
      /\ video \in {"level", "admitted"} => counter < MaxBuffers

\* A push that is refused ends the handler.
PushInv == terminal = "push" => video = "done"

DecoderInv == DecoderTypes /\ OrderInv /\ CountInv /\ PushInv

-----------------------------------------------------------------------------

\* queued_buffers does not wrap within its range.
LEMMA NoWrap ==
    ASSUME NEW n \in Nat, NEW w \in Nat, n < w
    PROVE  n % w = n
  OBVIOUS

\* The steps that leave the read, the unit and the queues alone and move the handler
\* within the stages before the push, after it, or out.
LEMMA Moves ==
    ASSUME DecoderTypes, OrderInv,
           UNCHANGED <<read, unit, received, decoded, appsrc>>,
           \/ video' = video
           \/ video' = "done"
           \/ video \in BeforePush /\ video' \in BeforePush
           \/ video \in {"pushed", "frame", "offer"} /\ video' \in {"frame", "offer", "read"}
           \/ video = "start" /\ video' = "read"
    PROVE  OrderInv'
  BY Zenon DEF DecoderTypes, OrderInv, Accounted, HoldsUnit, BeforePush, Decoding, VideoSteps

\* No step leaves the types.
LEMMA StepTypes ==
    ASSUME DecoderInv, [MediaNext]_mediaVars
    PROVE  DecoderTypes'
  <1> USE DecoderAssumption DEF DecoderInv, DecoderTypes, VideoSteps, Decoding, Buffers, decoderVars
  <1>1. CASE StartVideo \/ AbortVideo \/ ReadFails \/ OfferFrame
    BY <1>1, Zenon DEF StartVideo, AbortVideo, ReadFails, OfferFrame
  <1>2. CASE ReadConsumes
    BY <1>2 DEF ReadConsumes, Fragment
  <1>3. CASE ReadReturns
    BY <1>3, Zenon DEF ReadReturns, NoUnit
  <1>4. CASE HealthTick \/ DecodeCheck \/ DecodeRecheck
    BY <1>4, Zenon DEF HealthTick, PollHealth, DecodeCheck, DecodeRecheck, CheckHealth
  <1>5. CASE AdmitCount \/ AdmitBytes
    BY <1>5, Zenon DEF AdmitCount, AdmitBytes, Overflow, Fail
  <1>6. CASE Count
    BY <1>6 DEF Count, CountFirst
  <1>7. CASE Push
    <2>1. Append(appsrc, unit) \in Seq(Buffers)
      OBVIOUS
    <2> QED BY <1>7, <2>1, Zenon DEF Push, Fail
  <1>8. CASE TakeFrame
    BY <1>8, Zenon DEF TakeFrame, NoUnit
  <1>9. CASE PopBuffer
    <2>1. appsrc \in Seq(Buffers) /\ appsrc # <<>>
      BY <1>9, Zenon DEF PopBuffer
    <2>2. Head(appsrc) \in Buffers /\ Tail(appsrc) \in Seq(Buffers)
      <3> HIDE DEF Buffers
      <3> QED BY <2>1
    <2>3. Head(appsrc).id \in Nat
      BY <2>2, Zenon
    <2> QED BY <1>9, <2>2, <2>3, Zenon DEF PopBuffer
  <1>10. CASE ReleaseBuffer
    BY <1>10 DEF ReleaseBuffer
  <1>11. CASE \/ PostTerminal \/ StartAudio \/ AudioEnds \/ TrackEnds \/ ReceiverDropped \/ Finished
              \/ \E payload \in {"samples", "empty", "invalid"} : AudioPacket(payload)
              \/ UNCHANGED mediaVars
    BY <1>11, Zenon DEF PostTerminal, StartAudio, AudioEnds, TrackEnds, ReceiverDropped, Finished,
                 AudioPacket, mediaVars
  <1> QED BY <1>1, <1>2, <1>3, <1>4, <1>5, <1>6, <1>7, <1>8, <1>9, <1>10, <1>11
          DEF MediaNext, DecodeStep

\* Every step keeps the account of the units and their order in the queue.
LEMMA StepOrders ==
    ASSUME DecoderInv, [MediaNext]_mediaVars
    PROVE  OrderInv'
  <1> USE DEF DecoderInv
  <1>1. CASE StartVideo \/ AbortVideo \/ ReadFails \/ OfferFrame
    BY <1>1, Moves, ZenonT(60) DEF StartVideo, AbortVideo, ReadFails, OfferFrame, decoderVars
  <1>2. CASE ReadConsumes
    <2>1. /\ video = "read" /\ read = NoUnit
          /\ UNCHANGED <<video, unit, decoded, appsrc>>
      BY <1>2, Zenon DEF ReadConsumes, decoderVars
    <2>2. received = decoded + Len(appsrc)
      BY <2>1 DEF OrderInv, DecoderTypes, Accounted, HoldsUnit, BeforePush
    <2>3. \/ HoldsUnit' /\ read'.id = received' /\ received' = received + 1
          \/ ~HoldsUnit' /\ UNCHANGED received
      <3>1. CASE read' = Fragment /\ UNCHANGED received
        BY <3>1, Zenon DEF HoldsUnit
      <3>2. CASE /\ received' = received + 1
                 /\ \E size \in UnitSizes : read' = [id |-> received', size |-> size]
        <4>1. read'.id = received + 1 /\ received + 1 # 0
          BY <3>2 DEF DecoderTypes
        <4>2. HoldsUnit'
          BY <4>1 DEF HoldsUnit, NoUnit, Fragment
        <4> QED BY <3>2, <4>1, <4>2, Zenon
      <3> QED BY <1>2, <3>1, <3>2, Zenon DEF ReadConsumes
    <2>4. Accounted'
      BY <2>1, <2>2, <2>3 DEF Accounted, BeforePush, DecoderTypes
    <2> QED BY <2>1, <2>3, <2>4, Zenon DEF OrderInv, BeforePush, Decoding
  <1>3. CASE ReadReturns
    <2>1. /\ video = "read" /\ read # NoUnit /\ read' = NoUnit
          /\ UNCHANGED <<received, decoded, appsrc>>
      BY <1>3, Zenon DEF ReadReturns, decoderVars
    <2>2. Accounted /\ ~HoldsUnit'
      BY <2>1, Zenon DEF OrderInv, HoldsUnit
    <2>3. CASE read = Fragment
      <3>1. video' = "read" /\ ~HoldsUnit
        BY <1>3, <2>1, <2>3, Zenon DEF ReadReturns, HoldsUnit
      <3>2. Accounted'
        BY <2>1, <2>2, <3>1, Zenon DEF Accounted
      <3> QED BY <2>1, <2>2, <3>1, <3>2, Zenon DEF OrderInv, BeforePush, Decoding
    <2>4. CASE read # Fragment
      <3>1. video' = "check" /\ unit' = read
        BY <1>3, <2>4, Zenon DEF ReadReturns
      <3>2. HoldsUnit
        BY <2>1, <2>4, Zenon DEF HoldsUnit
      <3>3. Accounted' /\ unit'.id = received'
        BY <2>1, <2>2, <3>1, <3>2 DEF Accounted, OrderInv, BeforePush, DecoderTypes
      <3> QED BY <2>1, <2>2, <3>3, Zenon DEF OrderInv
    <2> QED BY <2>3, <2>4, Zenon
  <1>4. CASE HealthTick \/ DecodeCheck \/ DecodeRecheck
    BY <1>4, Moves, Zenon DEF HealthTick, PollHealth, DecodeCheck, DecodeRecheck, CheckHealth, BeforePush
  <1>5. CASE AdmitCount \/ AdmitBytes \/ Count
    BY <1>5, Moves, Zenon DEF AdmitCount, AdmitBytes, Count, Overflow, Fail, BeforePush
  <1>6. CASE Push
    <2>1. CASE Fail("push") /\ UNCHANGED appsrc
      BY <1>6, <2>1, Moves, Zenon DEF Push, Fail
    <2>2. CASE video' = "pushed" /\ appsrc' = Append(appsrc, unit)
      <3>1. /\ Len(appsrc') = Len(appsrc) + 1 /\ Len(appsrc) \in Nat
            /\ \A i \in 1..Len(appsrc) : appsrc'[i] = appsrc[i]
            /\ appsrc'[Len(appsrc) + 1] = unit
        BY <2>2 DEF DecoderTypes
      <3>2. video = "counted" /\ UNCHANGED <<read, unit, received, decoded>>
        BY <1>6, Zenon DEF Push
      <3>3. read = NoUnit /\ ~HoldsUnit
        BY <3>2, Zenon DEF OrderInv, Decoding, HoldsUnit
      <3>4. received = decoded + Len(appsrc) + 1 /\ unit.id = received
        BY <3>1, <3>2, <3>3 DEF OrderInv, Accounted, BeforePush, DecoderTypes
      <3>5. ASSUME NEW i \in 1..Len(appsrc') PROVE appsrc'[i].id = decoded' + i
        <4>1. CASE i \in 1..Len(appsrc)
          <5>1. appsrc[i].id = decoded + i
            BY <4>1, Zenon DEF OrderInv
          <5> QED BY <3>1, <3>2, <4>1, <5>1, Zenon
        <4>2. CASE i = Len(appsrc) + 1
          BY <3>1, <3>2, <3>4, <4>2 DEF DecoderTypes
        <4> QED BY <3>1, <4>1, <4>2
      <3>6. Accounted' /\ ~HoldsUnit' /\ read' = NoUnit /\ video' \notin BeforePush
        BY <2>2, <3>1, <3>2, <3>3, <3>4 DEF Accounted, HoldsUnit, BeforePush, DecoderTypes
      <3> QED BY <3>5, <3>6, Zenon DEF OrderInv
    <2> QED BY <1>6, <2>1, <2>2, Zenon DEF Push
  <1>7. CASE TakeFrame
    BY <1>7, Zenon DEF TakeFrame, DecoderTypes, OrderInv, Accounted, HoldsUnit, BeforePush, Decoding
  <1>8. CASE PopBuffer
    <2>0. appsrc # <<>> /\ appsrc' = Tail(appsrc) /\ appsrc \in Seq(Buffers)
      BY <1>8, Zenon DEF PopBuffer, DecoderTypes
    <2>1. /\ Len(appsrc') = Len(appsrc) - 1
          /\ \A i \in 1..Len(appsrc') : appsrc'[i] = appsrc[i + 1]
          /\ Head(appsrc) = appsrc[1] /\ Len(appsrc) \in Nat \ {0}
      BY <2>0
    <2>2. decoded' = decoded + 1
      BY <1>8, <2>1 DEF PopBuffer, OrderInv
    <2>3. \A i \in 1..Len(appsrc') : appsrc'[i].id = decoded' + i
      <3> SUFFICES ASSUME NEW i \in 1..Len(appsrc') PROVE appsrc'[i].id = decoded' + i
        BY Zenon
      <3>1. i \in Nat /\ i + 1 \in 1..Len(appsrc) /\ appsrc'[i] = appsrc[i + 1]
        BY <2>1
      <3>2. appsrc[i + 1].id = decoded + (i + 1)
        BY <3>1, Zenon DEF OrderInv
      <3> QED BY <2>2, <3>1, <3>2 DEF DecoderTypes
    <2>4. UNCHANGED <<video, read, unit, received>>
      BY <1>8, Zenon DEF PopBuffer
    <2>5. HoldsUnit' <=> HoldsUnit
      BY <2>4, Zenon DEF HoldsUnit
    <2>6. video # "done" => Accounted'
      <3> SUFFICES ASSUME video # "done" PROVE Accounted'
        BY Zenon
      <3>1. decoded' + Len(appsrc') = decoded + Len(appsrc)
        BY <2>1, <2>2 DEF DecoderTypes
      <3>2. Accounted
        BY Zenon DEF OrderInv
      <3> QED BY <2>4, <2>5, <3>1, <3>2, Zenon DEF Accounted
    <2> QED BY <2>3, <2>4, <2>5, <2>6, Zenon DEF OrderInv
  <1>9. CASE \/ ReleaseBuffer \/ PostTerminal \/ StartAudio \/ AudioEnds \/ TrackEnds \/ ReceiverDropped
             \/ Finished \/ (\E payload \in {"samples", "empty", "invalid"} : AudioPacket(payload))
             \/ UNCHANGED mediaVars
    BY <1>9, Moves, Zenon DEF ReleaseBuffer, PostTerminal, StartAudio, AudioEnds, TrackEnds, ReceiverDropped,
                       Finished, AudioPacket, mediaVars, decoderVars
  <1> QED BY <1>1, <1>2, <1>3, <1>4, <1>5, <1>6, <1>7, <1>8, <1>9, Zenon DEF MediaNext, DecodeStep

\* The steps that leave the count and the queue alone and establish no admission.
LEMMA Counts ==
    ASSUME CountInv, PushInv, UNCHANGED <<counter, appsrc, InProbe>>,
           video' # video => video # "counted" /\ video' \notin {"level", "admitted", "counted"},
           \/ UNCHANGED terminal /\ (video = "done" => video' = "done")
           \/ terminal # "push" /\ terminal' # "push"
    PROVE  CountInv' /\ PushInv'
  BY Zenon DEF CountInv, PushInv

\* Every step keeps queued_buffers exact and within the limit.
LEMMA StepCounts ==
    ASSUME DecoderInv, [MediaNext]_mediaVars
    PROVE  CountInv' /\ PushInv'
  <1> USE DEF DecoderInv
  <1>a. popped' = popped => InProbe' = InProbe
    BY SMT DEF InProbe
  <1>b. /\ InProbe \in {0, 1} /\ (popped => InProbe = 1) /\ (~popped => InProbe = 0)
        /\ (popped' = TRUE => InProbe' = 1) /\ (popped' = FALSE => InProbe' = 0)
    BY Zenon DEF InProbe
  <1>c. counter \in Nat /\ Len(appsrc) \in Nat /\ MaxBuffers \in Nat /\ CounterWrap \in Nat
        /\ CounterWrap > MaxBuffers + 1
    BY DecoderAssumption DEF DecoderTypes
  <1>1. CASE StartVideo \/ AbortVideo \/ ReadFails \/ OfferFrame \/ ReadReturns
    BY <1>1, <1>a, Counts, Zenon DEF StartVideo, AbortVideo, ReadFails, OfferFrame, ReadReturns, decoderVars
  <1>2. CASE ReadConsumes \/ TakeFrame
    BY <1>2, <1>a, Counts, Zenon DEF ReadConsumes, TakeFrame, decoderVars
  <1>3. CASE HealthTick \/ DecodeCheck \/ DecodeRecheck
    <2>1. terminal # "push" /\ terminal' # "push"
      BY <1>3, Zenon DEF HealthTick, PollHealth, DecodeCheck, DecodeRecheck, CheckHealth, PushInv
    <2>2. video \in {"read", "check", "pushed"} /\ video' \in {"read", "count", "frame", "done"}
      BY <1>3, Zenon DEF HealthTick, PollHealth, DecodeCheck, DecodeRecheck, CheckHealth
    <2>3. UNCHANGED <<counter, appsrc, popped>>
      BY <1>3, Zenon DEF HealthTick, DecodeCheck, DecodeRecheck
    <2> QED BY <1>a, <2>1, <2>2, <2>3, Counts, Zenon
  <1>4. CASE AdmitCount \/ AdmitBytes
    <2>1. terminal # "push" /\ terminal' # "push"
      BY <1>4, Zenon DEF AdmitCount, AdmitBytes, Overflow, Fail, PushInv
    <2>2. UNCHANGED <<counter, appsrc, InProbe>>
      BY <1>4, <1>a, Zenon DEF AdmitCount, AdmitBytes
    <2>3. /\ video \in {"count", "level"}
          /\ \/ video' = "done"
             \/ video' = "level" /\ ~(counter >= MaxBuffers)
             \/ video = "level" /\ video' = "admitted"
      BY <1>4, Zenon DEF AdmitCount, AdmitBytes, TooManyBuffers, Overflow, Fail
    <2> QED BY <1>c, <2>1, <2>2, <2>3 DEF CountInv, PushInv
  <1>5. CASE Count
    <2>1. /\ video = "admitted" /\ video' = "counted" /\ terminal # "push"
          /\ UNCHANGED <<appsrc, terminal, InProbe>>
      BY <1>5, <1>a, Zenon DEF Count, PushInv
    <2>2. counter < MaxBuffers
      BY <2>1, Zenon DEF CountInv
    <2>3. counter' = counter + 1
      BY <1>5, <1>c, <2>2, NoWrap DEF Count, CountFirst
    <2> QED BY <1>b, <1>c, <2>1, <2>2, <2>3 DEF CountInv, PushInv
  <1>6. CASE Push
    <2>1. video = "counted" /\ terminal # "push" /\ UNCHANGED <<counter, InProbe>>
      BY <1>6, <1>a, Zenon DEF Push, PushInv
    <2>2. CASE Fail("push")
      BY <2>2, Zenon DEF Fail, CountInv, PushInv
    <2>3. CASE video' = "pushed" /\ appsrc' = Append(appsrc, unit) /\ UNCHANGED terminal
      <3>1. Len(appsrc') = Len(appsrc) + 1
        BY <2>3 DEF DecoderTypes
      <3> QED BY <1>b, <1>c, <2>1, <2>3, <3>1 DEF CountInv, PushInv
    <2> QED BY <1>6, <2>2, <2>3, Zenon DEF Push
  <1>7. CASE PopBuffer
    <2>1. Len(appsrc') = Len(appsrc) - 1
      BY <1>7 DEF PopBuffer, DecoderTypes
    <2>2. InProbe = 0 /\ InProbe' = 1 /\ UNCHANGED <<video, counter, terminal>>
      BY <1>7, <1>b, Zenon DEF PopBuffer
    <2> QED BY <1>c, <2>1, <2>2 DEF CountInv, PushInv
  <1>8. CASE ReleaseBuffer
    <2>1. terminal = "none" /\ UNCHANGED <<video, appsrc, terminal>>
      BY <1>8, Zenon DEF ReleaseBuffer, Streaming
    <2>2. InProbe = 1 /\ InProbe' = 0
      BY <1>8, <1>b, Zenon DEF ReleaseBuffer
    <2>3. counter > 0 /\ counter <= MaxBuffers
      BY <1>c, <2>1, <2>2 DEF CountInv
    <2>4. counter' = counter - 1
      BY <1>8, <1>c, <2>3, NoWrap DEF ReleaseBuffer
    <2> QED BY <1>c, <2>1, <2>2, <2>3, <2>4 DEF CountInv, PushInv
  <1>9. CASE \/ PostTerminal \/ StartAudio \/ AudioEnds \/ TrackEnds \/ ReceiverDropped
             \/ Finished \/ (\E payload \in {"samples", "empty", "invalid"} : AudioPacket(payload))
             \/ UNCHANGED mediaVars
    BY <1>9, <1>a, Counts, Zenon DEF PostTerminal, StartAudio, AudioEnds, TrackEnds, ReceiverDropped, Finished,
                              AudioPacket, mediaVars, decoderVars
  <1> QED BY <1>1, <1>2, <1>3, <1>4, <1>5, <1>6, <1>7, <1>8, <1>9 DEF MediaNext, DecodeStep

\* DecoderInv holds in every state of the handlers.
LEMMA DecoderInvariance == MediaSpec => []DecoderInv
  <1>1. MediaInit => DecoderInv
    <2> SUFFICES ASSUME MediaInit PROVE DecoderInv
      BY Zenon
    <2>1. Len(appsrc) = 0 /\ appsrc \in Seq(Buffers)
      BY DEF MediaInit
    <2>2. InProbe = 0
      BY Zenon DEF MediaInit, InProbe
    <2>3. DecoderTypes /\ PushInv
      BY <2>1, Zenon DEF MediaInit, DecoderTypes, PushInv, VideoSteps, Buffers, NoUnit
    <2>4. OrderInv
      BY <2>1 DEF MediaInit, OrderInv, Accounted, HoldsUnit, BeforePush, Decoding, NoUnit
    <2>5. CountInv
      BY <2>1, <2>2, DecoderAssumption DEF MediaInit, CountInv
    <2> QED BY <2>3, <2>4, <2>5, Zenon DEF DecoderInv
  <1>2. DecoderInv /\ [MediaNext]_mediaVars => DecoderInv'
    BY StepTypes, StepOrders, StepCounts, Zenon DEF DecoderInv
  <1> QED BY <1>1, <1>2, PTL DEF MediaSpec

\* The decoder is fed the units in order and without a gap: neither a health poll during a
\* read nor a full queue skips one.
THEOREM UnitsReachDecoder == MediaSpec => []NoUnitIsSkipped
  <1>1. ASSUME DecoderTypes, OrderInv
        PROVE  LastQueued = decoded + Len(appsrc)
    BY <1>1 DEF LastQueued, DecoderTypes, OrderInv
  <1>2. DecoderInv => NoUnitIsSkipped
    BY <1>1, Zenon DEF DecoderInv, NoUnitIsSkipped, DecoderTypes, OrderInv, Accounted, HoldsUnit, BeforePush, Decoding
  <1> QED BY DecoderInvariance, <1>2, PTL

-----------------------------------------------------------------------------
(* The bytes in appsrc. *)

WeightsOf(q) == [i \in DOMAIN q |-> q[i].size + StartCode]

\* The bytes that were admitted have their place until they are pushed.
BytesInv ==
    /\ TotalBytes(appsrc) <= MaxBytes
    /\ video \in {"admitted", "counted"} => TotalBytes(appsrc) + EncodedBytes <= MaxBytes

\* The fold over the queue is the sum of its buffers.
LEMMA TotalBytesIsSum ==
    ASSUME NEW q \in Seq(Buffers)
    PROVE  /\ TotalBytes(q) = Sum(WeightsOf(q), 1..Len(q)) /\ TotalBytes(q) \in Nat
           /\ \A i \in 1..Len(q) : /\ WeightsOf(q)[i] = q[i].size + StartCode
                                   /\ WeightsOf(q)[i] \in Nat
<1> DEFINE D == DOMAIN q
           f == WeightsOf(q)
<1>1. D = 1..Len(q) /\ Len(q) \in Nat
  OBVIOUS
<1>2. IsFiniteSet(D)
  BY <1>1, FS_Interval
<1>3. \A i \in D : f[i] = q[i].size + StartCode /\ f[i] \in Nat
  <2>1. \A i \in D : q[i] \in Buffers
    BY <1>1
  <2>2. \A i \in D : f[i] = q[i].size + StartCode
    BY Zenon DEF WeightsOf
  <2> QED
    BY <2>1, <2>2, DecoderAssumption DEF Buffers
<1>4. TotalBytes(q) = (CHOOSE g : g = [s \in SUBSET D |->
                         IF s = {} THEN 0 ELSE q[Any(s)].size + StartCode + g[s \ {Any(s)}]])[D]
  BY Zenon DEF TotalBytes, FoldFunction, FoldFunctionOnSet, MapThenFoldSet, Any
<1>5. \A g : (g = [s \in SUBSET D |->
                     IF s = {} THEN 0 ELSE q[Any(s)].size + StartCode + g[s \ {Any(s)}]])
             <=> Recurs(f, D, g)
  <2> HIDE DEF f, D
  <2>1. \A s \in SUBSET D : \A g :
          Adds(f, s, g) = IF s = {} THEN 0 ELSE q[Any(s)].size + StartCode + g[s \ {Any(s)}]
    BY <1>3 DEF Adds, Any
  <2> QED
    BY <2>1, Zenon DEF Recurs
<1> HIDE DEF D, f
<1>6. TotalBytes(q) = (CHOOSE g : Recurs(f, D, g))[D]
  BY <1>4, <1>5, Zenon
<1>7. (CHOOSE g : Recurs(f, D, g))[D] = Sum(f, D) /\ Sum(f, D) \in Nat
  BY <1>2, <1>3, FoldIsSum, SumIsNatural, Zenon
<1> QED
  BY <1>1, <1>3, <1>6, <1>7, Zenon DEF D, f

\* What push_buffer adds.
LEMMA TotalBytesAppend ==
    ASSUME NEW q \in Seq(Buffers), NEW b \in Buffers
    PROVE  TotalBytes(Append(q, b)) = TotalBytes(q) + (b.size + StartCode)
<1> DEFINE r == Append(q, b)
           n == Len(q)
<1>1. /\ r \in Seq(Buffers) /\ Len(r) = n + 1 /\ n \in Nat
      /\ r[n + 1] = b /\ \A i \in 1..n : r[i] = q[i]
  OBVIOUS
<1> HIDE DEF r
<1>2. /\ TotalBytes(r) = Sum(WeightsOf(r), 1..n + 1)
      /\ \A i \in 1..n + 1 : WeightsOf(r)[i] = r[i].size + StartCode /\ WeightsOf(r)[i] \in Nat
  BY <1>1, TotalBytesIsSum, Zenon
<1>3. /\ TotalBytes(q) = Sum(WeightsOf(q), 1..n)
      /\ \A i \in 1..n : WeightsOf(q)[i] = q[i].size + StartCode
  BY TotalBytesIsSum, Zenon
<1>4. Sum(WeightsOf(r), 1..n + 1) = Sum(WeightsOf(r), 1..n) + WeightsOf(r)[n + 1]
  BY <1>1, <1>2, SumOfAppend, Zenon
<1>5. \A i \in 1..n : WeightsOf(r)[i] = WeightsOf(q)[i]
  BY <1>1, <1>2, <1>3
<1>6. Sum(WeightsOf(r), 1..n) = Sum(WeightsOf(q), 1..n)
  BY <1>5, SumOfEqual, Zenon
<1>7. WeightsOf(r)[n + 1] = b.size + StartCode
  BY <1>1, <1>2
<1> QED
  BY <1>2, <1>3, <1>4, <1>6, <1>7, Zenon DEF r

\* What the streaming thread takes away.
LEMMA TotalBytesTail ==
    ASSUME NEW q \in Seq(Buffers), q # <<>>
    PROVE  TotalBytes(Tail(q)) <= TotalBytes(q)
<1> DEFINE r == Tail(q)
           n == Len(r)
<1>1. /\ r \in Seq(Buffers) /\ n \in Nat /\ Len(q) = n + 1
      /\ \A i \in 1..n : r[i] = q[i + 1]
  <2>1. r \in Seq(Buffers) /\ n = Len(q) - 1 /\ \A i \in 1..n : r[i] = q[i + 1]
    OBVIOUS
  <2>2. n \in Nat /\ Len(q) \in Nat
    BY <2>1
  <2> HIDE DEF n
  <2>3. Len(q) = n + 1
    BY <2>1, <2>2
  <2> QED
    BY <2>1, <2>2, <2>3, Zenon DEF n
<1> HIDE DEF r
<1>2. /\ TotalBytes(q) = Sum(WeightsOf(q), 1..n + 1)
      /\ \A i \in 1..n + 1 : WeightsOf(q)[i] = q[i].size + StartCode /\ WeightsOf(q)[i] \in Nat
  BY <1>1, TotalBytesIsSum, Zenon
<1>3. /\ TotalBytes(r) = Sum(WeightsOf(r), 1..n) /\ TotalBytes(r) \in Nat
      /\ \A i \in 1..n : WeightsOf(r)[i] = r[i].size + StartCode
  BY <1>1, TotalBytesIsSum, Zenon
<1>4. \A i \in 1..n : WeightsOf(r)[i] = WeightsOf(q)[i + 1]
  BY <1>1, <1>2, <1>3
<1>5. Sum(WeightsOf(q), 1..n + 1) = WeightsOf(q)[1] + Sum(WeightsOf(r), 1..n)
  BY <1>1, <1>2, <1>4, SumOfTail, Zenon
<1>6. WeightsOf(q)[1] \in Nat
  BY <1>1, <1>2
<1>7. TotalBytes(r) <= TotalBytes(q)
  BY <1>2, <1>3, <1>5, <1>6
<1> QED
  BY <1>7, Zenon DEF r

\* An empty appsrc.
LEMMA TotalBytesEmpty == TotalBytes(<<>>) = 0
<1>1. <<>> \in Seq(Buffers) /\ Len(<<>>) = 0 /\ 1..0 = {}
  OBVIOUS
<1> QED
  BY <1>1, TotalBytesIsSum, SumOfNothing, Zenon

\* Every step keeps what was admitted within the limit.
LEMMA StepBytes ==
    ASSUME DecoderInv, BytesInv, [MediaNext]_mediaVars
    PROVE  BytesInv'
<1>1. /\ appsrc \in Seq(Buffers) /\ unit \in Buffers /\ TotalBytes(appsrc) \in Nat
      /\ MaxBytes \in Nat /\ StartCode \in Nat
  BY TotalBytesIsSum, DecoderAssumption, Zenon DEF DecoderInv, DecoderTypes
<1>2. EncodedBytes \in Nat /\ EncodedBytes = unit.size + StartCode
  BY <1>1 DEF EncodedBytes, Buffers
<1>3. CASE /\ UNCHANGED appsrc
           /\ video' \in {"admitted", "counted"} => video \in {"admitted", "counted"} /\ UNCHANGED unit
  BY <1>3, Zenon DEF BytesInv, EncodedBytes
<1>4. CASE AdmitBytes
  <2>1. UNCHANGED <<appsrc, unit>>
    BY <1>4, Zenon DEF AdmitBytes
  <2>2. video' = "admitted" => ~(TotalBytes(appsrc) > MaxBytes - EncodedBytes)
    BY <1>4, Zenon DEF AdmitBytes, Overflow, Fail
  <2>3. video' # "counted"
    BY <1>4, Zenon DEF AdmitBytes, Overflow, Fail
  <2>4. video' = "admitted" => TotalBytes(appsrc) + EncodedBytes <= MaxBytes
    BY <1>1, <1>2, <2>2
  <2>5. TotalBytes(appsrc)' = TotalBytes(appsrc) /\ EncodedBytes' = EncodedBytes
    BY <2>1, Zenon DEF EncodedBytes
  <2> QED
    BY <2>3, <2>4, <2>5, Zenon DEF BytesInv
<1>5. CASE Push
  <2>1. CASE Fail("push") /\ UNCHANGED appsrc
    BY <1>3, <2>1, Zenon DEF Fail
  <2>2. CASE video' = "pushed" /\ appsrc' = Append(appsrc, unit)
    <3>1. video = "counted"
      BY <1>5, Zenon DEF Push
    <3>2. TotalBytes(appsrc') = TotalBytes(appsrc) + EncodedBytes
      BY <1>1, <1>2, <2>2, TotalBytesAppend, Zenon
    <3> QED
      BY <2>2, <3>1, <3>2, Zenon DEF BytesInv
  <2> QED
    BY <1>5, <2>1, <2>2, Zenon DEF Push
<1>6. CASE PopBuffer
  <2>1. appsrc # <<>> /\ appsrc' = Tail(appsrc) /\ UNCHANGED <<video, unit>>
    BY <1>6, Zenon DEF PopBuffer
  <2>2. Tail(appsrc) \in Seq(Buffers) /\ TotalBytes(Tail(appsrc)) <= TotalBytes(appsrc)
    BY <1>1, <2>1, TotalBytesTail
  <2>3. TotalBytes(appsrc') \in Nat /\ TotalBytes(appsrc') <= TotalBytes(appsrc)
    BY <2>1, <2>2, TotalBytesIsSum, Zenon
  <2>4. EncodedBytes' = EncodedBytes
    BY <2>1, Zenon DEF EncodedBytes
  <2>5. TotalBytes(appsrc') <= MaxBytes
    BY <1>1, <2>3 DEF BytesInv
  <2>6. video \in {"admitted", "counted"} => TotalBytes(appsrc') + EncodedBytes <= MaxBytes
    BY <1>1, <1>2, <2>3 DEF BytesInv
  <2> QED
    BY <2>1, <2>4, <2>5, <2>6, Zenon DEF BytesInv
<1>7. CASE StartVideo \/ AbortVideo \/ ReadConsumes \/ ReadReturns \/ ReadFails \/ HealthTick
  BY <1>3, <1>7, Zenon DEF StartVideo, AbortVideo, ReadConsumes, ReadReturns, ReadFails, HealthTick,
                    PollHealth, CheckHealth, decoderVars
<1>8. CASE DecodeCheck \/ AdmitCount \/ Count \/ DecodeRecheck \/ TakeFrame \/ OfferFrame
  BY <1>3, <1>8, Zenon DEF DecodeCheck, AdmitCount, Count, DecodeRecheck, TakeFrame, OfferFrame,
                    CheckHealth, Overflow, Fail, decoderVars
<1>9. CASE \/ ReleaseBuffer \/ PostTerminal \/ StartAudio \/ AudioEnds \/ TrackEnds \/ ReceiverDropped
           \/ Finished \/ (\E payload \in {"samples", "empty", "invalid"} : AudioPacket(payload))
           \/ UNCHANGED mediaVars
  BY <1>3, <1>9, Zenon DEF ReleaseBuffer, PostTerminal, StartAudio, AudioEnds, TrackEnds, ReceiverDropped,
                    Finished, AudioPacket, mediaVars, decoderVars
<1> QED
  BY <1>4, <1>5, <1>6, <1>7, <1>8, <1>9, Zenon DEF MediaNext, DecodeStep

\* decode() counts a buffer before it pushes it, so the pad probe never takes queued_buffers
\* below zero, and what was admitted bounds the buffers and the bytes of the queue although
\* the streaming thread changes both levels between the checks and the push.
THEOREM QueueIsBounded == MediaSpec => []EncodedQueueIsBounded
<1>1. MediaInit => BytesInv
  BY TotalBytesEmpty, DecoderAssumption DEF MediaInit, BytesInv
<1>2. DecoderInv /\ BytesInv /\ [MediaNext]_mediaVars => BytesInv'
  BY StepBytes, Zenon
<1>3. DecoderInv /\ BytesInv => EncodedQueueIsBounded
  <2>1. InProbe \in {0, 1}
    BY Zenon DEF InProbe
  <2>2. DecoderTypes => Len(appsrc) \in Nat
    BY DEF DecoderTypes
  <2>3. DecoderInv /\ terminal # "push" => BuffersAreCounted
    BY <2>1, <2>2, DecoderAssumption DEF DecoderInv, CountInv, BuffersAreCounted
  <2> QED
    BY <2>3, Zenon DEF EncodedQueueIsBounded, BytesInv
<1> QED
  BY <1>1, <1>2, <1>3, DecoderInvariance, PTL DEF MediaSpec
===============================================================================
