------------------------------ MODULE CtfMeta ------------------------------
(***************************************************************************)
(* The CTF metadata tree the resolver of ctf-meta-resolve.cpp walks: field *)
(* classes, scopes, field paths and the trace / stream / event class       *)
(* layers that own the six scope roots.                                    *)
(*                                                                         *)
(* The declarations themselves live in ctf-meta.hpp, which is not part of  *)
(* this excerpt of the repository; they are taken from spec.md section 3.  *)
(* Field-class attributes no check depends on (size, alignment, byte       *)
(* order, base, encoding, enumeration ranges) are left out.                *)
(***************************************************************************)
EXTENDS Integers, Sequences, FiniteSets, TLC

CONSTANT NULL   \* the null pointer / "no such object"

(* enum ctf_scope, in packet order. *)
CTF_SCOPE_PACKET_UNKNOWN         == -1
CTF_SCOPE_PACKET_HEADER          == 0
CTF_SCOPE_PACKET_CONTEXT         == 1
CTF_SCOPE_EVENT_HEADER           == 2
CTF_SCOPE_EVENT_COMMON_CONTEXT   == 3
CTF_SCOPE_EVENT_SPECIFIC_CONTEXT == 4
CTF_SCOPE_EVENT_PAYLOAD          == 5
Scopes == 0..5
StreamScopes == {CTF_SCOPE_PACKET_CONTEXT, CTF_SCOPE_EVENT_HEADER,
                 CTF_SCOPE_EVENT_COMMON_CONTEXT}
EventScopes  == {CTF_SCOPE_EVENT_SPECIFIC_CONTEXT, CTF_SCOPE_EVENT_PAYLOAD}

(* The TSDL dynamic scope prefixes (CTF 7.3.2), each given by its          *)
(* dot-separated tokens, and the number of path tokens each one takes.     *)
absolute_path_prefixes ==   \* indexed by scope + 1
    << <<"trace", "packet", "header">>, <<"stream", "packet", "context">>,
       <<"stream", "event", "header">>, <<"stream", "event", "context">>,
       <<"event", "context">>,          <<"event", "fields">> >>
absolute_path_prefix_ptoken_counts == <<3, 3, 3, 3, 2, 2>>   \* indexed by scope + 1

(***************************************************************************)
(* Field classes.  One record shape for every kind: `names`/`fcs` are the  *)
(* members of a structure or the options of a variant, `fcs` holds the     *)
(* single element class of an array or sequence, `ref` is the length or    *)
(* tag path string of a sequence or variant.                               *)
(***************************************************************************)
FC(type, signed, names, fcs, ref) ==
    [type |-> type, is_signed |-> signed, names |-> names, fcs |-> fcs, ref |-> ref]
IntFC(signed)              == FC("int", signed, <<>>, <<>>, <<>>)
EnumFC(signed)             == FC("enum", signed, <<>>, <<>>, <<>>)
StringFC                   == FC("string", FALSE, <<>>, <<>>, <<>>)
StructFC(names, fcs)       == FC("struct", FALSE, names, fcs, <<>>)
VariantFC(names, fcs, tag) == FC("variant", FALSE, names, fcs, tag)
ArrayFC(elem)              == FC("array", FALSE, <<>>, <<elem>>, <<>>)
SequenceFC(elem, length)   == FC("sequence", FALSE, <<>>, <<elem>>, length)

ArrayLike(fc) == fc.type \in {"array", "sequence"}
IsCompound(fc) == fc.type \in {"struct", "variant", "array", "sequence"}
HasRef(fc) == fc.type \in {"sequence", "variant"}

(* ctf_field_class_compound_get_field_class_count *)
ctf_field_class_compound_get_field_class_count(fc) ==
    IF ArrayLike(fc) THEN 1 ELSE Len(fc.fcs)

(* ctf_field_class_compound_borrow_field_class_by_index: the element class *)
(* of an array or sequence whatever the index, else member/option `index`. *)
ctf_field_class_compound_borrow_field_class_by_index(fc, index) ==
    IF ArrayLike(fc) THEN fc.fcs[1] ELSE fc.fcs[index + 1]

(* ctf_field_class_compound_get_field_class_index_from_orig_name: position *)
(* of the member/option so named, -1 when there is none or `fc` is not a  *)
(* structure or variant.                                                   *)
ctf_field_class_compound_get_field_class_index_from_orig_name(fc, name) ==
    LET hits == {i \in DOMAIN fc.names : fc.names[i] = name}
    IN  IF fc.type \in {"struct", "variant"} /\ hits # {}
        THEN (CHOOSE i \in hits : \A j \in hits : i =< j) - 1
        ELSE -1

(* The class reached from `fc` by following the indices of `path`. *)
RECURSIVE FollowPath(_, _)
FollowPath(fc, path) ==
    IF path = <<>> THEN fc
    ELSE FollowPath(ctf_field_class_compound_borrow_field_class_by_index(fc, Head(path)),
                    Tail(path))

(* Every index path from `fc` to one of its (transitive) children. *)
RECURSIVE NodePaths(_)
NodePaths(fc) ==
    {<<>>} \cup
    IF ~IsCompound(fc) THEN {}
    ELSE UNION { { <<IF ArrayLike(fc) THEN -1 ELSE i>> \o p :
                   p \in NodePaths(fc.fcs[i + 1]) } : i \in 0..(Len(fc.fcs) - 1) }

(***************************************************************************)
(* Layers.  A trace class owns the packet header and stream classes, a     *)
(* stream class the packet context, event header and event common context  *)
(* and event classes, an event class the specific context and payload.     *)
(* A layer is named by its position: <<>> the trace class, <<s>> stream    *)
(* class s, <<s, e>> event class e of stream class s.                      *)
(***************************************************************************)
TraceClassLayer == <<>>

LayerOf(tc, owner) ==
    CASE Len(owner) = 0 -> tc
      [] Len(owner) = 1 -> tc.stream_classes[owner[1]]
      [] Len(owner) = 2 -> tc.stream_classes[owner[1]].event_classes[owner[2]]

Layers(tc) ==
    {<<>>} \cup {<<s>> : s \in DOMAIN tc.stream_classes}
           \cup UNION {{<<s, e>> : e \in DOMAIN tc.stream_classes[s].event_classes} :
                       s \in DOMAIN tc.stream_classes}

(* The layer owning the roots of `scope`, and those roots. *)
ScopesOfLayer(owner) ==
    CASE Len(owner) = 0 -> {CTF_SCOPE_PACKET_HEADER}
      [] Len(owner) = 1 -> StreamScopes
      [] Len(owner) = 2 -> EventScopes

RootFC(tc, owner, scope) ==
    LET l == LayerOf(tc, owner) IN
    CASE scope = CTF_SCOPE_PACKET_HEADER          -> l.packet_header_fc
      [] scope = CTF_SCOPE_PACKET_CONTEXT         -> l.packet_context_fc
      [] scope = CTF_SCOPE_EVENT_HEADER           -> l.event_header_fc
      [] scope = CTF_SCOPE_EVENT_COMMON_CONTEXT   -> l.event_common_context_fc
      [] scope = CTF_SCOPE_EVENT_SPECIFIC_CONTEXT -> l.spec_context_fc
      [] scope = CTF_SCOPE_EVENT_PAYLOAD          -> l.payload_fc

(* A node of the tree: the layer, the root scope and the index path.  The *)
(* location stands for the `struct ctf_field_class *` at that place.       *)
Loc(owner, scope, path) == [owner |-> owner, scope |-> scope, path |-> path]

(* The location of a layer's scope root, NULL when the root is absent. *)
RootLoc(tc, owner, scope) ==
    IF RootFC(tc, owner, scope) = NULL THEN NULL ELSE Loc(owner, scope, <<>>)

FCAt(tc, loc) == FollowPath(RootFC(tc, loc.owner, loc.scope), loc.path)

AllLocs(tc) ==
    UNION { UNION { IF RootFC(tc, o, s) = NULL THEN {}
                    ELSE {Loc(o, s, p) : p \in NodePaths(RootFC(tc, o, s))} :
                    s \in ScopesOfLayer(o) } : o \in Layers(tc) }

(* The sequences and variants of the tree: the nodes carrying a path. *)
RefLocs(tc) == {l \in AllLocs(tc) : HasRef(FCAt(tc, l))}

LayerTranslated(tc, owner) == LayerOf(tc, owner).is_translated

(* A field path: a root scope and the indices leading from it. *)
FieldPath(root, path) == [root |-> root, path |-> path]
=============================================================================
