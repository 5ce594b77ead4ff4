------------------------------ MODULE Objstack ------------------------------
(***************************************************************************)
(* The CTF metadata object stack (src/unnamed/part_005): an arena of nodes *)
(* kept on a list, each twice as long as the one before it.  Allocation    *)
(* rounds the length up to OBJSTACK_ALIGN and takes it from the last node, *)
(* appending nodes until one is large enough; a calloc that fails ends the *)
(* call with NULL and leaves the nodes appended before it on the list.     *)
(*                                                                         *)
(* `blocks` records what objstack_alloc has returned: the node, the offset *)
(* of the block in the node's data and the length the caller asked for.    *)
(***************************************************************************)
EXTENDS Integers, Sequences, FiniteSets

CONSTANTS
    SIZE_WIDTH,   \* bits of size_t
    Lengths,      \* lengths callers pass to objstack_alloc
    MaxNodes,     \* calloc fails once the list holds this many nodes
    MaxAllocs     \* allocations per object stack explored

OBJSTACK_ALIGN    == 8
OBJSTACK_INIT_LEN == 128

SIZE_MOD == 2^SIZE_WIDTH

VARIABLES
    objstack,   \* "none" before the first create, "live", "failed" or "destroyed"
    nodes,      \* the node list, in list order: [len, used_len]
    blocks,     \* the blocks objstack_alloc returned since the create
    ret         \* what the last call returned: "ptr" or "NULL"

vars == <<objstack, nodes, blocks, ret>>

(* BT_ALIGN(x, a) on size_t, `a` a power of two: (x + a - 1) & ~(a - 1). *)
BT_ALIGN(x, a) == LET s == (x + a - 1) % SIZE_MOD IN s - (s % a)

(* Seeded fault: the loop stops one alignment unit early. *)
fits_slack(free, len) == free + OBJSTACK_ALIGN >= len

(* The test that ends the loop of objstack_alloc (line 114): the last node *)
(* has `len` bytes left.                                                   *)
fits(free, len) == free >= len

(* The lengths of the nodes the loop appends after a last node of length  *)
(* `last_len` with `free` bytes left: each one `len << 1` of the previous, *)
(* up to the first that fits or until `room` more nodes have been added.  *)
RECURSIVE AppendChain(_, _, _, _)
AppendChain(last_len, free, len, room) ==
    IF fits(free, len) \/ room = 0 THEN <<>>
    ELSE LET n == (last_len * 2) % SIZE_MOD
         IN  <<n>> \o AppendChain(n, n, len, room - 1)

Node(len) == [len |-> len, used_len |-> 0]

(* objstack_create: the object and its first node, either calloc failing. *)
objstack_create ==
    /\ objstack \in {"none", "failed", "destroyed"}
    /\ \/ /\ objstack' = "live"
          /\ nodes' = <<Node(OBJSTACK_INIT_LEN)>>
          /\ ret' = "ptr"
       \/ /\ objstack' = "failed"
          /\ nodes' = <<>>
          /\ ret' = "NULL"
    /\ blocks' = {}

(* objstack_alloc(objstack, len), the whole call: align, then append nodes *)
(* until the last one fits (objstack_append_node), k of them before a     *)
(* calloc fails; on success carve the block from the last node.            *)
objstack_alloc(len) ==
    LET alen  == BT_ALIGN(len, OBJSTACK_ALIGN)
        last  == nodes[Len(nodes)]
        chain == AppendChain(last.len, last.len - last.used_len, alen, MaxNodes - Len(nodes))
    IN  \E k \in 0..Len(chain) :
          LET grown == nodes \o [i \in 1..k |-> Node(chain[i])]
              top   == grown[Len(grown)]
          IN  IF k = Len(chain) /\ fits(top.len - top.used_len, alen)
              THEN /\ nodes' = [grown EXCEPT ![Len(grown)].used_len = @ + alen]
                   /\ blocks' = blocks \cup
                        {[node |-> Len(grown), offset |-> top.used_len, len |-> len]}
                   /\ ret' = "ptr"
              ELSE /\ nodes' = grown
                   /\ UNCHANGED blocks
                   /\ ret' = "NULL"

Alloc ==
    /\ objstack = "live"
    /\ Cardinality(blocks) < MaxAllocs
    /\ \E len \in Lengths : objstack_alloc(len)
    /\ UNCHANGED objstack

(* objstack_destroy: every node is unlinked and freed. *)
objstack_destroy ==
    /\ objstack = "live"
    /\ objstack' = "destroyed"
    /\ nodes' = <<>>
    /\ blocks' = {}
    /\ ret' = "ptr"

Init ==
    /\ objstack = "none"
    /\ nodes = <<>>
    /\ blocks = {}
    /\ ret = "ptr"

Next == objstack_create \/ Alloc \/ objstack_destroy

Spec == Init /\ [][Next]_vars

(***************************************************************************)
(* Properties                                                              *)
(***************************************************************************)

(* Every block objstack_alloc has returned lies inside the data of its    *)
(* node, below the node's used length, starts on an OBJSTACK_ALIGN        *)
(* boundary, and shares no byte with any other block returned since the   *)
(* create, whatever sequence of allocations, node appends (line 115) and  *)
(* failed callocs led there.                                               *)
BlocksDisjointInNodes ==
    /\ \A b \in blocks :
          /\ b.node \in DOMAIN nodes
          /\ b.offset % OBJSTACK_ALIGN = 0
          /\ b.offset + b.len =< nodes[b.node].used_len
          /\ nodes[b.node].used_len =< nodes[b.node].len
    /\ \A b1, b2 \in blocks :
          b1 # b2 /\ b1.node = b2.node =>
             \/ b1.offset + b1.len =< b2.offset
             \/ b2.offset + b2.len =< b1.offset
=============================================================================
