------------------------------ MODULE DListSeq ------------------------------
(***************************************************************************)
(* What the intrusive list of common/list.h promises its users (objstack): *)
(* each head holds a sequence of nodes, a node is on at most one list, and *)
(* the operations are the sequence operations.  Splice moves the whole of  *)
(* `add` in front of `list`.                                               *)
(***************************************************************************)
EXTENDS Sequences, SequencesExt

CONSTANTS Heads, Nodes

VARIABLE lists   \* lists[h]: the nodes on head h, head first

Linked == UNION {ToSet(lists[h]) : h \in Heads}

Init == lists = [h \in Heads |-> <<>>]

InitHead(h) == lists[h] = <<>> /\ UNCHANGED lists

AddTail(h, n) == n \notin Linked /\ lists' = [lists EXCEPT ![h] = Append(@, n)]

Add(h, n) == n \notin Linked /\ lists' = [lists EXCEPT ![h] = <<n>> \o @]

Del(n) == n \in Linked /\ lists' = [h \in Heads |-> SelectSeq(lists[h], LAMBDA x : x # n)]

Splice(list, add) ==
    /\ list # add
    /\ lists' = [lists EXCEPT ![list] = lists[add] \o @, ![add] = <<>>]

Next ==
    \/ \E h \in Heads : InitHead(h)
    \/ \E h \in Heads, n \in Nodes : AddTail(h, n) \/ Add(h, n)
    \/ \E n \in Nodes : Del(n)
    \/ \E list, add \in Heads : Splice(list, add)

Spec == Init /\ [][Next]_lists
=============================================================================
