------------------------------ MODULE JsonBudgets ------------------------------
(***************************************************************************)
(* The three places that walk a JSON value under a budget: parse_json      *)
(* admits a text from the wire, json_size charges an event to the byte     *)
(* quota of the event channel, and py_any_to_json_value converts a Python  *)
(* object.  Each walks once and stops early; each is compared with what    *)
(* its budget is meant to be, a property of the whole value.               *)
(*                                                                         *)
(* A value is a record: its kind, its own size, its keys (sizes, one per   *)
(* item, of an object only) and its items.                                 *)
(***************************************************************************)
EXTENDS Integers, Sequences, SequencesExt, FiniteSets, FiniteSetsExt, Relation

CONSTANTS
    MaxText,        \* MAX_TEXT_BYTES
    MaxNodes,       \* MAX_JSON_NODES (of ingress.rs, and of utils.rs)
    MaxDepth,       \* MAX_JSON_DEPTH
    MaxBytes,       \* MAX_JSON_BYTES of utils.rs, CONTROL_BYTES of events.rs
    MediaQuota,     \* MEDIA_BYTES of events.rs
    MaxUsize,       \* usize::MAX
    NodeBytes       \* size_of::<Value>() and the 128 bytes json_size charges

ASSUME BudgetAssumption ==
    /\ {MaxText, MaxNodes, MaxDepth, MaxBytes, NodeBytes, MediaQuota, MaxUsize} \subseteq Nat
    /\ MaxBytes < MaxUsize /\ MediaQuota < MaxUsize

Scalar(size) == [kind |-> "scalar", size |-> size, keys |-> <<>>, items |-> <<>>]
Array(items) == [kind |-> "array", size |-> 0, keys |-> <<>>, items |-> items]
Object(keys, items) == [kind |-> "object", size |-> 0, keys |-> keys, items |-> items]

-----------------------------------------------------------------------------
(* parse_json: a budget of nodes that the whole walk shares. *)

Exceeded == -1

\* Mutant: the container that lies at the limit is still entered.
DeeperByOne(depth) == depth > MaxDepth

TooDeep(depth) == depth >= MaxDepth

\* JsonKey, JsonAdmission::deserialize, visit_seq and visit_map: what is left
\* of the node budget after the value, or Exceeded.  A key costs a node too.
RECURSIVE Admission(_, _, _)
Admission(v, depth, remaining) ==
    IF remaining = 0 THEN Exceeded
    ELSE IF v.kind = "scalar" THEN remaining - 1
    ELSE IF TooDeep(depth) THEN Exceeded
    ELSE LET Walk(left, i) ==
                 LET afterKey == IF v.kind = "object" THEN left - 1 ELSE left IN
                 IF left = Exceeded \/ (v.kind = "object" /\ left = 0) THEN Exceeded
                 ELSE Admission(v.items[i], depth + 1, afterKey)
         IN  FoldLeft(Walk, remaining - 1, [i \in 1..Len(v.items) |-> i])

\* The bytes of a value as text without blanks: quotes around scalars and keys, brackets,
\* commas and colons.
RECURSIVE Written(_)
Written(v) ==
    IF v.kind = "scalar" THEN v.size + 2
    ELSE 2 + Max({0, Len(v.items) - 1})
           + SumFunction([i \in DOMAIN v.keys |-> v.keys[i] + 3])
           + SumFunction([i \in DOMAIN v.items |-> Written(v.items[i])])

\* A text is a value with blanks around it; another value may follow, which makes it
\* no JSON.
TextBytes(text) == Written(text.value) + text.blanks

\* parse_json: the bytes, then the walk, then the end of the text.
ParseJson(text) ==
    /\ TextBytes(text) <= MaxText
    /\ Admission(text.value, 0, MaxNodes) # Exceeded
    /\ ~text.followed

\* Values and keys in a value.
RECURSIVE Nodes(_)
Nodes(v) ==
    1 + (IF v.kind = "object" THEN Len(v.items) ELSE 0)
      + SumFunction([i \in DOMAIN v.items |-> Nodes(v.items[i])])

\* Containers on the longest path into a value.
RECURSIVE Depth(_)
Depth(v) ==
    IF v.kind = "scalar" THEN 0
    ELSE 1 + Max({0} \cup {Depth(v.items[i]) : i \in DOMAIN v.items})

\* A text that is one value is admitted exactly if it has at most MAX_TEXT_BYTES bytes,
\* blanks included, and the value at most MAX_JSON_NODES nodes and at most
\* MAX_JSON_DEPTH containers around any of them, wherever in the walk of JsonAdmission
\* the limits are met.
AdmissionIsExact(text) ==
    ParseJson(text) = /\ ~text.followed /\ TextBytes(text) <= MaxText
                      /\ Nodes(text.value) <= MaxNodes /\ Depth(text.value) <= MaxDepth

-----------------------------------------------------------------------------
(* json_size: a stack of values still to be charged. *)

\* usize::saturating_add.
Plus(a, b) == Min({a + b, MaxUsize})

\* The loop; pending is the Vec it pops from.
RECURSIVE SizeLoop(_, _)
SizeLoop(pending, size) ==
    IF pending = <<>> THEN size
    ELSE LET v == Last(pending)
             own == size + NodeBytes + v.size
             charged == own + (IF v.kind = "array" THEN Len(v.items) * NodeBytes ELSE 0)
                            + SumFunction([i \in DOMAIN v.keys |-> v.keys[i] + NodeBytes])
         IN  IF charged > MaxBytes THEN MaxUsize
             ELSE SizeLoop(Front(pending) \o v.items, charged)

JsonSize(v) == SizeLoop(<<v>>, 0)

RECURSIVE TotalSize(_)
TotalSize(v) ==
    NodeBytes + v.size
      + (IF v.kind = "array" THEN Len(v.items) * NodeBytes ELSE 0)
      + SumFunction([i \in DOMAIN v.keys |-> v.keys[i] + NodeBytes])
      + SumFunction([i \in DOMAIN v.items |-> TotalSize(v.items[i])])

\* What an event holds besides its JSON: the capacity of its topic or key and
\* its points, bytes or samples.
ElementBytes(e) == e.elements * (CASE e.kind = "lidar" -> 4 [] e.kind = "audio" -> 2 [] OTHER -> 1)

HasJson(e) == e.kind \in {"topic", "future", "lidar"}

\* event_size: the quota an event counts against and what it costs there.
EventSize(e) ==
    [quota |-> IF e.kind \in {"topic", "future"} THEN MaxBytes ELSE MediaQuota,
     bytes |-> Plus(NodeBytes, IF HasJson(e) THEN Plus(Plus(e.name, JsonSize(e.payload)), ElementBytes(e))
                               ELSE ElementBytes(e))]

\* An event fits an empty quota exactly if it is not larger than the quota and
\* its JSON not larger than CONTROL_BYTES: the early returns of json_size lose
\* nothing, and what it gave up on fits no quota, be it the larger one of media.
SizeIsExact(e) ==
    LET json == IF HasJson(e) THEN e.name + TotalSize(e.payload) ELSE 0
        size == EventSize(e)
    IN  (size.bytes <= size.quota) =
            /\ HasJson(e) => TotalSize(e.payload) <= MaxBytes
            /\ NodeBytes + json + ElementBytes(e) <= size.quota

-----------------------------------------------------------------------------
(* py_any_to_json_value.  Python containers are objects with an identity: a  *)
(* heap maps it to a list or dict whose items are identities or scalars.     *)

\* What convert_json carries: the budgets, and whether it has failed.
Charge(b, nodes, bytes) ==
    IF b.ok /\ nodes <= b.nodes /\ bytes <= b.bytes
    THEN [b EXCEPT !.nodes = @ - nodes, !.bytes = @ - bytes]
    ELSE [b EXCEPT !.ok = FALSE]

\* check_children: enough is left for the items as such.
CheckChildren(b, count) ==
    [b EXCEPT !.ok = @ /\ count <= b.nodes /\ count <= b.bytes \div NodeBytes]

\* An integer of more than 64 bits, a number that is not finite, another type.
Unsupported == 99

\* convert_json; identities are negative, a scalar is the size of its text.
RECURSIVE ConvertJson(_, _, _, _, _)
ConvertJson(heap, x, depth, active, budget) ==
    LET b == Charge(budget, 1, NodeBytes) IN
    IF x = Unsupported THEN [b EXCEPT !.ok = FALSE]
    ELSE IF x \notin DOMAIN heap THEN Charge(b, 0, x)
    ELSE IF ~b.ok \/ TooDeep(depth) \/ x \in active THEN [b EXCEPT !.ok = FALSE]
    ELSE LET c == heap[x]
             Walk(left, i) ==
                 LET keyed == IF c.kind = "object" THEN Charge(left, 0, NodeBytes + c.keys[i]) ELSE left IN
                 IF ~keyed.ok THEN keyed
                 ELSE ConvertJson(heap, c.items[i], depth + 1, active \cup {x}, keyed)
         IN  FoldLeft(Walk, CheckChildren(b, Len(c.items)), [i \in DOMAIN c.items |-> i])

PyAnyToJson(heap, root) ==
    ConvertJson(heap, root, 0, {}, [ok |-> TRUE, nodes |-> MaxNodes, bytes |-> MaxBytes]).ok

\* The containers directly and at last reached from a container.
Holds(heap) == [x, y \in DOMAIN heap |-> y \in ToSet(heap[x].items)]
Reached(heap, x) ==
    LET reach == TransitiveClosure(Holds(heap), DOMAIN heap)
    IN  {x} \cup {y \in DOMAIN heap : reach[x, y]}
Cyclic(heap, x) ==
    LET reach == TransitiveClosure(Holds(heap), DOMAIN heap)
    IN  \E y \in Reached(heap, x) : reach[y, y]

\* The value a container without cycles stands for; shared parts are repeated.
RECURSIVE Unfold(_, _)
Unfold(heap, x) ==
    IF x \notin DOMAIN heap THEN Scalar(x)
    ELSE [heap[x] EXCEPT !.items = [i \in DOMAIN @ |-> Unfold(heap, @[i])]]

\* Values of a value, keys aside, and what copying them takes.
RECURSIVE Values(_)
Values(v) == 1 + SumFunction([i \in DOMAIN v.items |-> Values(v.items[i])])
RECURSIVE CopiedBytes(_)
CopiedBytes(v) ==
    NodeBytes + v.size + SumFunction([i \in DOMAIN v.keys |-> v.keys[i] + NodeBytes])
      + SumFunction([i \in DOMAIN v.items |-> CopiedBytes(v.items[i])])

\* A Python object is converted exactly if it has no cycle, holds nothing that
\* JSON lacks and its expansion fits the budgets: a container that is shared is expanded each time and does
\* not count as a cycle (active_containers holds the path, no more).
ConversionIsExact(heap, x) ==
    PyAnyToJson(heap, x) =
        /\ ~Cyclic(heap, x)
        /\ \A y \in Reached(heap, x) : Unsupported \notin ToSet(heap[y].items)
        /\ LET v == Unfold(heap, x)
           IN  Values(v) <= MaxNodes /\ CopiedBytes(v) <= MaxBytes /\ Depth(v) <= MaxDepth

=============================================================================
