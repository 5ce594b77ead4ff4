-------------------------------- MODULE DList --------------------------------
(***************************************************************************)
(* The intrusive doubly linked list of common/list.h at the level of its  *)
(* pointers.  A head (sys_dlist_t) and a node (sys_dnode_t) are the same  *)
(* two-pointer cell: a head's `head`/`tail` are its `next`/`prev`, which   *)
(* is why a step writing `list->head->prev` on an empty list writes        *)
(* `list->tail`.  Every operation is the code's assignments in the code's  *)
(* order, each reading the pointers the previous one left.                 *)
(*                                                                         *)
(* sys_dlist_splice is list.h:20-28; the other operations come from        *)
(* zephyr/dlist.h, which list.h includes but this repository does not      *)
(* carry.                                                                   *)
(***************************************************************************)
EXTENDS Integers, Sequences, FiniteSets

CONSTANTS Heads, Nodes, NULL

Cells == Heads \cup Nodes

VARIABLES
    next,      \* next[c]: a node's next, a head's `head`
    prev,      \* prev[c]: a node's prev, a head's `tail`
    spliced    \* heads passed as `add` to a splice and not initialised since

vars == <<next, prev, spliced>>

(* The nodes reached from head h by following `next` until h comes back. *)
RECURSIVE WalkFrom(_, _, _)
WalkFrom(x, h, fuel) ==
    IF x = h \/ x = NULL \/ fuel = 0 THEN <<>>
    ELSE <<x>> \o WalkFrom(next[x], h, fuel - 1)
Walk(h) == WalkFrom(next[h], h, Cardinality(Nodes) + 1)

Usable(h) == next[h] # NULL /\ h \notin spliced
LinkedNodes == UNION {{Walk(h)[k] : k \in DOMAIN Walk(h)} : h \in {g \in Heads : Usable(g)}}

(* sys_dlist_init: head = tail = list.  Only on a head never initialised,  *)
(* empty, or left stale by a splice: re-initialising one with nodes would  *)
(* orphan them.                                                            *)
sys_dlist_init(h) ==
    /\ next[h] = NULL \/ next[h] = h \/ h \in spliced
    /\ next' = [next EXCEPT ![h] = h]
    /\ prev' = [prev EXCEPT ![h] = h]
    /\ spliced' = spliced \ {h}

(* bt_list_add_tail -> sys_dlist_append(list, node). *)
sys_dlist_append(list, node) ==
    /\ Usable(list) /\ node \notin LinkedNodes
    /\ LET tail == prev[list]
           n1 == [next EXCEPT ![node] = list]
           p1 == [prev EXCEPT ![node] = tail]
           n2 == [n1 EXCEPT ![tail] = node]
       IN  /\ next' = n2
           /\ prev' = [p1 EXCEPT ![list] = node]
    /\ UNCHANGED spliced

(* bt_list_add -> sys_dlist_prepend(list, node). *)
sys_dlist_prepend(list, node) ==
    /\ Usable(list) /\ node \notin LinkedNodes
    /\ LET head == next[list]
           n1 == [next EXCEPT ![node] = head]
           p1 == [prev EXCEPT ![node] = list]
           p2 == [p1 EXCEPT ![head] = node]
       IN  /\ prev' = p2
           /\ next' = [n1 EXCEPT ![list] = node]
    /\ UNCHANGED spliced

(* bt_list_del -> sys_dlist_dequeue(node): the neighbours are relinked;  *)
(* the node keeps its stale pointers.                                     *)
sys_dlist_dequeue(node) ==
    /\ node \in LinkedNodes
    /\ LET p == prev[node]
           n == next[node]
       IN  /\ next' = [next EXCEPT ![p] = n]
           /\ prev' = [prev EXCEPT ![n] = p]
    /\ UNCHANGED spliced

(* sys_dlist_is_empty: the head points back at itself. *)
sys_dlist_is_empty(list) == next[list] = list

(* The babeltrace list API of list.h:31-36 over the zephyr calls; note   *)
(* that the element comes first and the head second, the reverse of the  *)
(* zephyr order.                                                          *)
BT_INIT_LIST_HEAD(ptr) == sys_dlist_init(ptr)
bt_list_add(newp, head) == sys_dlist_prepend(head, newp)
bt_list_add_tail(newp, head) == sys_dlist_append(head, newp)
bt_list_del(elem) == sys_dlist_dequeue(elem)
bt_list_empty(head) == sys_dlist_is_empty(head)

(* Seeded fault: the first node of `list` keeps its old prev. *)
sys_dlist_splice_no_prev(list, add) ==
    IF sys_dlist_is_empty(add) THEN UNCHANGED <<next, prev>>
    ELSE LET p1 == [prev EXCEPT ![next[add]] = list]
             n1 == [next EXCEPT ![p1[add]] = next[list]]
         IN  /\ prev' = p1
             /\ next' = [n1 EXCEPT ![list] = n1[add]]

(* Seeded fault: `list->head = add->head` done before `add->tail->next`. *)
sys_dlist_splice_reordered(list, add) ==
    IF sys_dlist_is_empty(add) THEN UNCHANGED <<next, prev>>
    ELSE LET p1 == [prev EXCEPT ![next[add]] = list]
             n0 == [next EXCEPT ![list] = next[add]]
             n1 == [n0 EXCEPT ![p1[add]] = n0[list]]
             p2 == [p1 EXCEPT ![n1[list]] = p1[add]]
         IN  /\ prev' = p2
             /\ next' = n1

(* list.h:20-28, the four assignments in order when `add` is not empty. *)
sys_dlist_splice(list, add) ==
    IF sys_dlist_is_empty(add) THEN UNCHANGED <<next, prev>>
    ELSE LET p1 == [prev EXCEPT ![next[add]] = list]        \* add->head->prev = list
             n1 == [next EXCEPT ![p1[add]] = next[list]]    \* add->tail->next = list->head
             p2 == [p1 EXCEPT ![n1[list]] = p1[add]]        \* list->head->prev = add->tail
         IN  /\ prev' = p2
             /\ next' = [n1 EXCEPT ![list] = n1[add]]       \* list->head = add->head

(* bt_list_splice(add, head): `add` itself is left as it was. *)
Splice(list, add) ==
    /\ list # add /\ Usable(list) /\ Usable(add)
    /\ sys_dlist_splice(list, add)
    /\ spliced' = IF bt_list_empty(add) THEN spliced ELSE spliced \cup {add}

Init ==
    /\ next = [c \in Cells |-> NULL]
    /\ prev = [c \in Cells |-> NULL]
    /\ spliced = {}

Next ==
    \/ \E h \in Heads : BT_INIT_LIST_HEAD(h)
    \/ \E h \in Heads, n \in Nodes : bt_list_add_tail(n, h) \/ bt_list_add(n, h)
    \/ \E n \in Nodes : bt_list_del(n)
    \/ \E list, add \in Heads : Splice(list, add)

Spec == Init /\ [][Next]_vars

(***************************************************************************)
(* Properties                                                              *)
(***************************************************************************)

Range(w) == {w[k] : k \in DOMAIN w}

(* Every usable head's `next` chain comes back to the head, and each cell  *)
(* on it is the `prev` of its successor, the head's `tail` included; no    *)
(* node is on two lists.  Breaking it takes an operation whose assignments *)
(* alias (an empty list's `head->prev` is its `tail`) or run out of order. *)
DListWellFormed ==
    /\ \A h \in Heads : Usable(h) =>
          LET s == <<h>> \o Walk(h)
          IN  /\ next[s[Len(s)]] = h
              /\ \A k \in DOMAIN s : prev[next[s[k]]] = s[k]
    /\ \A h1, h2 \in Heads :
          h1 # h2 /\ Usable(h1) /\ Usable(h2) => Range(Walk(h1)) \cap Range(Walk(h2)) = {}

(* The pointer operations implement the sequence operations of DListSeq:  *)
(* a usable head holds the nodes its `next` chain visits, and a splice     *)
(* puts the nodes of `add` in front of those of `list`, in order.          *)
ListOf == [h \in Heads |-> IF Usable(h) THEN Walk(h) ELSE <<>>]
Abstract == INSTANCE DListSeq WITH lists <- ListOf
ImplementsDListSeq == Abstract!Spec
=============================================================================
