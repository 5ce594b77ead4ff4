------------------------ MODULE CtfTextArraySequence ------------------------
(***************************************************************************)
(* ctf_trace_class_update_text_array_sequence() (ctf-meta-update-text-    *)
(* array-sequence.cpp): marks every array and sequence whose element is   *)
(* an 8-bit, 8-aligned, UTF-8 encoded integer or enumeration as text and  *)
(* forces that element unsigned, in the scope roots of the layers that    *)
(* are not translated yet.                                                 *)
(*                                                                         *)
(* The driver is one action per stretch of the code between two calls of *)
(* set_text_array_sequence_field_class(); the walk of one root is a pure  *)
(* recursive operator, since it reads only the element attributes it      *)
(* never writes.  The writes are kept as the sets of locations whose      *)
(* is_text / is_signed the pass has set, over the input tree `tc`.        *)
(***************************************************************************)
EXTENDS CtfMeta

CONSTANT TraceClasses   \* the trace classes the parser can hand over

VARIABLES
    tc,          \* the trace class
    pc,          \* "tc", "sc", "ec" or "done"
    i, j,        \* the driver's stream class and event class loop counters
    is_text,     \* arrays / sequences whose is_text the pass has set
    unsigned     \* element classes whose is_signed the pass has cleared

vars == <<tc, pc, i, j, is_text, unsigned>>

(* An integer or enumeration leaf with the attributes the test reads. *)
TextIntFC(type, signed, alignment, size, encoding) ==
    [alignment |-> alignment, size |-> size, encoding |-> encoding]
        @@ FC(type, signed, <<>>, <<>>, <<>>)

Child(loc, index) == [loc EXCEPT !.path = @ \o <<index>>]

(* The test of lines 64-69. *)
is_text_elem(elem) ==
    /\ elem.type \in {"int", "enum"}
    /\ elem.alignment = 8 /\ elem.size = 8 /\ elem.encoding = "UTF8"

(* Seeded fault: the walk does not descend into an array's element. *)
RECURSIVE set_text_array_sequence_field_class_shallow(_, _)
set_text_array_sequence_field_class_shallow(fc, loc) ==
    IF fc = NULL THEN {}
    ELSE CASE fc.type \in {"struct", "variant"} ->
                UNION {set_text_array_sequence_field_class_shallow(fc.fcs[k], Child(loc, k - 1)) :
                         k \in DOMAIN fc.fcs}
           [] ArrayLike(fc) -> IF is_text_elem(fc.fcs[1]) THEN {loc} ELSE {}
           [] OTHER -> {}

(* set_text_array_sequence_field_class(fc), for `fc` at location `loc`:   *)
(* the arrays and sequences it marks as text.                              *)
RECURSIVE set_text_array_sequence_field_class(_, _)
set_text_array_sequence_field_class(fc, loc) ==
    IF fc = NULL THEN {}
    ELSE CASE fc.type \in {"struct", "variant"} ->
                UNION {set_text_array_sequence_field_class(fc.fcs[k], Child(loc, k - 1)) :
                         k \in DOMAIN fc.fcs}
           [] ArrayLike(fc) ->
                (IF is_text_elem(fc.fcs[1]) THEN {loc} ELSE {})
                  \cup set_text_array_sequence_field_class(fc.fcs[1], Child(loc, -1))
           [] OTHER -> {}

(* The walk of the roots of `scopes` of layer `owner`, with its writes: *)
(* is_text on each array, is_signed = false on each array's element.   *)
SetRoots(owner, scopes) ==
    LET marked == UNION {set_text_array_sequence_field_class(
                            RootFC(tc, owner, s), Loc(owner, s, <<>>)) : s \in scopes}
    IN  /\ is_text' = is_text \cup marked
        /\ unsigned' = unsigned \cup {Child(l, -1) : l \in marked}

Init ==
    /\ tc \in TraceClasses
    /\ pc = "tc"
    /\ i = 1 /\ j = 1
    /\ is_text = {} /\ unsigned = {}

(* Lines 104-109: the packet header, unless the trace class is translated. *)
TraceClassStep ==
    /\ pc = "tc"
    /\ IF tc.is_translated THEN UNCHANGED <<is_text, unsigned>>
       ELSE SetRoots(TraceClassLayer, {CTF_SCOPE_PACKET_HEADER})
    /\ pc' = "sc" /\ i' = 1
    /\ UNCHANGED <<tc, j>>

(* Lines 112-130: the three stream class roots, unless it is translated; *)
(* its event classes come next either way.                               *)
StreamClassStep ==
    /\ pc = "sc" /\ i =< Len(tc.stream_classes)
    /\ IF tc.stream_classes[i].is_translated THEN UNCHANGED <<is_text, unsigned>>
       ELSE SetRoots(<<i>>, StreamScopes)
    /\ pc' = "ec" /\ j' = 1
    /\ UNCHANGED <<tc, i>>

StreamClassesDone ==
    /\ pc = "sc" /\ i > Len(tc.stream_classes)
    /\ pc' = "done"
    /\ UNCHANGED <<tc, i, j, is_text, unsigned>>

(* Seeded fault: the `continue` for a translated event class is lost. *)
event_class_skipped_never(ec) == FALSE

(* Line 135. *)
event_class_skipped(ec) == ec.is_translated

(* Lines 133-147: skip a translated event class, else its two roots. *)
EventClassStep ==
    /\ pc = "ec" /\ j =< Len(tc.stream_classes[i].event_classes)
    /\ IF event_class_skipped(tc.stream_classes[i].event_classes[j])
       THEN UNCHANGED <<is_text, unsigned>>
       ELSE SetRoots(<<i, j>>, EventScopes)
    /\ j' = j + 1
    /\ UNCHANGED <<tc, pc, i>>

(* Line 111: the stream class loop's `i++`. *)
EventClassesDone ==
    /\ pc = "ec" /\ j > Len(tc.stream_classes[i].event_classes)
    /\ pc' = "sc" /\ i' = i + 1
    /\ UNCHANGED <<tc, j, is_text, unsigned>>

(* Line 152: the call has returned. *)
Returned == pc = "done" /\ UNCHANGED vars

Next ==
    \/ TraceClassStep \/ StreamClassStep \/ StreamClassesDone
    \/ EventClassStep \/ EventClassesDone \/ Returned

Spec == Init /\ [][Next]_vars

(***************************************************************************)
(* Properties                                                              *)
(***************************************************************************)

(* The reference: the arrays and sequences of the tree, in a layer that is *)
(* not translated, whose element passes the text test.  An event class    *)
(* is its own layer: it is open even when its stream class is translated.  *)
TextReference ==
    {l \in AllLocs(tc) : /\ ~LayerTranslated(tc, l.owner)
                        /\ ArrayLike(FCAt(tc, l))
                        /\ is_text_elem(FCAt(tc, l).fcs[1])}

(* At every step the pass has written only into layers that are not yet   *)
(* translated, and marked as text only arrays and sequences of text       *)
(* elements: a class already handed to the IR translator keeps its         *)
(* is_text and its element's signedness (driver, lines 104, 115, 135).     *)
TextOnlyInOpenLayers ==
    /\ is_text \subseteq TextReference
    /\ \A u \in unsigned : ~LayerTranslated(tc, u.owner)

(* When the call returns, every text array and sequence of every open      *)
(* layer is marked, nested ones and those of event classes of translated  *)
(* stream classes included: the walk of lines 17-96 and the driver's      *)
(* loops reach every node the reference names.                             *)
TextComplete == pc = "done" => is_text = TextReference
=============================================================================
