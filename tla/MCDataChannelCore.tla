-------------------------- MODULE MCDataChannelCore --------------------------
(* Instances of DataChannelCore for TLC.  Each set of wire bodies below asks *)
(* about one group of handlers.                                              *)
EXTENDS DataChannelCore, TLC

CONSTANTS k1, t1

Body(kind) == [kind |-> kind, key |-> k1, topic |-> None, ok |-> TRUE]

Chunk(outcome) ==
    [kind |-> "chunk", key |-> k1, topic |-> None, ok |-> TRUE, outcome |-> outcome]

\* A plain response, and a response in two chunks.
RequestWire == {Body("response"), Chunk("more"), Chunk("done")}

\* Everything else that can settle a call, control messages and a topic message.
MixedWire ==
    {Body(kind) : kind \in {"challenge", "needed", "rtt", "network", "reject", "lidar"}}
      \cup {Chunk("more"), Chunk("bad"), Chunk("big")}
      \cup {[Body("response") EXCEPT !.ok = FALSE, !.topic = t1]}

\* What validates a peer.
ValidWire == {Body("validOk")}

\* Validation and heartbeat responses.
LinkWire == {Body("validOk"), Body("heartbeat")}

ReqSymmetry == Permutations(Reqs)
HeartbeatSymmetry == Permutations(Heartbeats)
=============================================================================
