----------------------------- MODULE MCObjstack -----------------------------
(* Object stacks for TLC on a 16-bit size_t.  MCLengths stay far below    *)
(* SIZE_MAX, so no sum wraps: they fit the first node, fill it exactly,   *)
(* cross the alignment boundary and need one or two doublings.            *)
EXTENDS Objstack

MCLengths == {0, 1, 8, 13, 120, 200, 600}

=============================================================================
