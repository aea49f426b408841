---------------------------- MODULE ChunkAssembler ----------------------------
(***************************************************************************)
(* datachannel/core/chunks.rs: chunks of several transfers arrive in any   *)
(* order, duplicated, conflicting or incomplete; each transfer is bounded, *)
(* and all transfers together are bounded.                                 *)
(***************************************************************************)
EXTENDS Integers, Sequences, FiniteSets, Functions

CONSTANTS
    Keys,               \* keys of transfers
    Schemas,            \* JSON paths at which a payload is found
    Payloads,           \* contents of a chunk, sequences of bytes
    Numbers,            \* chunk indices and chunk counts that messages carry
    MaxChunks,          \* MAX_CHUNKS
    MaxTransferBytes,   \* MAX_TRANSFER_BYTES
    MaxTransfers,       \* MAX_TRANSFERS
    MaxRetainedBytes    \* MAX_RETAINED_BYTES

ASSUME MessagesAssumption ==
    /\ \A bytes \in Payloads : Len(bytes) \in Nat
    /\ Numbers \subseteq Nat

ASSUME LimitsAssumption ==
    /\ MaxChunks \in Nat /\ MaxTransferBytes \in Nat
    /\ MaxTransfers \in Nat /\ MaxRetainedBytes \in Nat

VARIABLES
    transfers,  \* ChunkAssembler.transfers, a function on the keys in use
    result,     \* the value of an insert that just completed a transfer, or Nothing
    arrived     \* history: the chunks that arrived for the transfer of a key

vars == <<transfers, result, arrived>>

\* A Transfer; late stands for deadline <= now.
TransferType(t) ==
    /\ t.schema \in Schemas /\ t.total \in 1..MaxChunks /\ t.bytes \in Nat
    /\ DOMAIN t.chunks \subseteq 1..t.total
    /\ \A i \in DOMAIN t.chunks : t.chunks[i] \in Payloads
    /\ t.late \in BOOLEAN

Nothing == [value |-> <<>>, total |-> 0, from |-> {}]

Init ==
    /\ transfers = [key \in {} |-> 0]
    /\ result = Nothing
    /\ arrived = [key \in Keys |-> {}]

-----------------------------------------------------------------------------

Retained == FoldFunction(LAMBDA t, sum : t.bytes + sum, 0, transfers)

BadNumbers(index, total) == total = 0 \/ total > MaxChunks \/ index = 0 \/ index > total

Inconsistent(t, schema, total) == t.late \/ t.schema # schema \/ t.total # total

OverTransfer(key, bytes) ==
    IF key \in DOMAIN transfers
    THEN Len(bytes) > MaxTransferBytes - transfers[key].bytes
    ELSE Cardinality(DOMAIN transfers) >= MaxTransfers \/ Len(bytes) > MaxTransferBytes

\* Mutant: the retained bytes are compared without the chunk itself.
OverRetainedBefore(bytes) == Retained >= MaxRetainedBytes

OverRetained(bytes) == Len(bytes) > MaxRetainedBytes - Retained

IsDuplicate(key, index) == key \in DOMAIN transfers /\ index \in DOMAIN transfers[key].chunks

\* The checks of insert_checked in their order, up to the duplicate.
Rejected(key, schema, index, total, bytes) ==
    \/ BadNumbers(index, total)
    \/ key \in DOMAIN transfers /\ Inconsistent(transfers[key], schema, total)
    \/ IF IsDuplicate(key, index)
       THEN transfers[key].chunks[index] # bytes
       ELSE OverTransfer(key, bytes) \/ OverRetained(bytes)

\* The transfer with the chunk added, started if it is the first one.
Extended(key, schema, index, total, bytes) ==
    LET t == IF key \in DOMAIN transfers
             THEN transfers[key]
             ELSE [schema |-> schema, total |-> total, bytes |-> 0, late |-> FALSE,
                   chunks |-> [i \in {} |-> <<>>]]
    IN  [t EXCEPT !.bytes = @ + Len(bytes),
                  !.chunks = [i \in DOMAIN @ \cup {index} |-> IF i = index THEN bytes ELSE @[i]]]

Without(keys) == Restrict(transfers, DOMAIN transfers \ keys)

\* The first n parts one after the other.
Concatenation(parts, n) ==
    LET joined[i \in 0..n] == IF i = 0 THEN <<>> ELSE joined[i - 1] \o parts[i]
    IN  joined[n]

\* Mutant: the chunks are joined in the wrong order.
JoinBackwards(t) == Concatenation([i \in 1..t.total |-> t.chunks[t.total + 1 - i]], t.total)

Join(t) == Concatenation([i \in 1..t.total |-> t.chunks[i]], t.total)

\* insert of a chunk that is refused: the whole transfer of its key is dropped.
InsertFails(key) ==
    /\ transfers' = Without({key})
    /\ result' = Nothing
    /\ arrived' = [arrived EXCEPT ![key] = {}]

\* insert of a chunk that is there already.
InsertDuplicate ==
    /\ result' = Nothing
    /\ UNCHANGED <<transfers, arrived>>

\* insert of a new chunk; the last one completes the transfer and removes it.
InsertNew(key, schema, index, total, bytes) ==
    LET t == Extended(key, schema, index, total, bytes)
        chunks == arrived[key] \cup {<<index, bytes>>}
    IN
    IF Cardinality(DOMAIN t.chunks) = total
    THEN /\ transfers' = Without({key})
         /\ result' = [value |-> Join(t), total |-> total, from |-> chunks]
         /\ arrived' = [arrived EXCEPT ![key] = {}]
    ELSE /\ transfers' = [k \in DOMAIN transfers \cup {key} |-> IF k = key THEN t ELSE transfers[k]]
         /\ result' = Nothing
         /\ arrived' = [arrived EXCEPT ![key] = chunks]

\* remove (a finished or rejected call) and clear (a reset of the session).
RemoveKeys(keys) ==
    /\ transfers' = Without(keys)
    /\ arrived' = [key \in Keys |-> IF key \in keys THEN {} ELSE arrived[key]]
    /\ result' = Nothing

\* Time passes the deadline of a transfer.
Deadline(key) ==
    /\ key \in DOMAIN transfers /\ ~transfers[key].late
    /\ transfers' = [transfers EXCEPT ![key].late = TRUE]
    /\ result' = Nothing
    /\ UNCHANGED arrived

\* Mutant: expire compares the deadline the wrong way round.
OnTime == {key \in DOMAIN transfers : ~transfers[key].late}

\* What expire removes.
Late == {key \in DOMAIN transfers : transfers[key].late}

Expire == Late # {} /\ RemoveKeys(Late)

Insert(key, schema, index, total, bytes) ==
    IF Rejected(key, schema, index, total, bytes) THEN InsertFails(key)
    ELSE IF IsDuplicate(key, index) THEN InsertDuplicate
    ELSE InsertNew(key, schema, index, total, bytes)

Next ==
    \/ \E key \in Keys, schema \in Schemas, index, total \in Numbers, bytes \in Payloads :
         Insert(key, schema, index, total, bytes)
    \/ \E key \in Keys : RemoveKeys({key}) \/ Deadline(key)
    \/ RemoveKeys(Keys)
    \/ Expire

AssemblerSpec == Init /\ [][Next]_vars

-----------------------------------------------------------------------------

\* A completed transfer is exactly what was sent: every index from 1 to the
\* announced count arrived with one payload only, and the value is their
\* concatenation in index order, whatever the order of arrival.
CompletedIsWhole ==
    result # Nothing =>
        /\ {chunk[1] : chunk \in result.from} = 1..result.total
        /\ \A a, b \in result.from : a[1] = b[1] => a = b
        /\ result.value = Concatenation([i \in 1..result.total |->
                                           (CHOOSE chunk \in result.from : chunk[1] = i)[2]],
                                        result.total)

\* A transfer that is kept can still complete within the limits: it is neither empty
\* nor full, its chunks are those that arrived since it started, its bytes are theirs,
\* and neither a transfer nor all of them exceed a limit, so that the subtractions of
\* insert_checked never wrap.
KeptCanComplete ==
    /\ \A key \in DOMAIN transfers :
         LET t == transfers[key]
         IN  /\ TransferType(t)
             /\ Cardinality(DOMAIN t.chunks) \in 1..(t.total - 1)
             /\ arrived[key] = {<<i, t.chunks[i]>> : i \in DOMAIN t.chunks}
             /\ t.bytes = FoldFunction(LAMBDA chunk, sum : Len(chunk) + sum, 0, t.chunks)
             /\ t.bytes <= MaxTransferBytes
    /\ \A key \in Keys \ DOMAIN transfers : arrived[key] = {}
    /\ Retained <= MaxRetainedBytes /\ Cardinality(DOMAIN transfers) <= MaxTransfers

-----------------------------------------------------------------------------

\* Time goes on, and every turn of the router's loop calls expire.
ExpireFairness == WF_vars(Expire) /\ \A key \in Keys : WF_vars(Deadline(key))
=============================================================================
