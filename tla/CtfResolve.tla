----------------------------- MODULE CtfResolve -----------------------------
(***************************************************************************)
(* ctf_trace_class_resolve_field_classes() of                              *)
(* src/plugins/ctf/common/src/metadata/tsdl/ctf-meta-resolve.cpp.          *)
(*                                                                         *)
(* One step per call that changes the resolving context: the driver's      *)
(* steps over the trace class, its stream classes and their event classes, *)
(* and the depth-first walk of resolve_field_class() over one scope root,  *)
(* which enters a node, moves the top frame of the field class stack to    *)
(* the next child, or pops it.  Resolving the path of one sequence or      *)
(* variant (lexing, classifying, locating and validating its target) is a  *)
(* pure computation of the context and is part of the step that enters    *)
(* the node.                                                               *)
(*                                                                         *)
(* A path string is represented by its dot-separated pieces; an empty      *)
(* piece stands for the empty token of "a..b", ".a" or "a.".               *)
(***************************************************************************)
EXTENDS CtfMeta, FiniteSetsExt

CONSTANT TraceClasses   \* the trace classes the TSDL parser may hand over

(* INT64_MAX as the source index of an absolute lookup: no member index    *)
(* of a model reaches it.                                                  *)
INT64_MAX == 1000000

VARIABLES
    tc,        \* the trace class being resolved (read-only to the resolver)
    ctx,       \* struct resolve_context, without the stack
    stack,     \* field_class_stack_t: frames [fc, index]; `i` is the loop
               \* counter of the resolve_field_class() activation that pushed it
    next,      \* the node resolve_field_class() is called on; NULL: returning
    pc,        \* where the driver is
    cont,      \* where the driver resumes once the current scope root is done
    si, ei,    \* the driver's stream and event class loop counters (1-based)
    ret,       \* the return value of the call
    resolved   \* length/tag path and class written on each sequence/variant

vars == <<tc, ctx, stack, next, pc, cont, si, ei, ret, resolved>>

StreamClass == tc.stream_classes[si]
EventClass  == StreamClass.event_classes[ei]
FCOf(loc)   == FCAt(tc, loc)

(***************************************************************************)
(* The field class stack (lines 85-190), a sequence of frames, the top    *)
(* last.  A push that fails cannot happen: g_new0 aborts on exhaustion    *)
(* and the walk never pushes NULL.                                         *)
(***************************************************************************)
field_class_stack_push(stack_, frame) == Append(stack_, frame)
field_class_stack_empty(stack_) == stack_ = <<>>
field_class_stack_peek(stack_) == stack_[Len(stack_)]
field_class_stack_at(stack_, index) == stack_[index]
field_class_stack_pop(stack_) ==
    IF field_class_stack_empty(stack_) THEN stack_ ELSE SubSeq(stack_, 1, Len(stack_) - 1)

(***************************************************************************)
(* Path strings                                                            *)
(***************************************************************************)

(* pathstr_to_ptokens: split at the dots, NULL on an empty token. *)
pathstr_to_ptokens(pathstr) ==
    IF \E i \in DOMAIN pathstr : pathstr[i] = "" THEN NULL ELSE pathstr

(* get_root_scope_from_absolute_pathstr: the first scope whose prefix,     *)
(* trailing dot included, starts the path string.                          *)
get_root_scope_from_absolute_pathstr(pathstr) ==
    LET StartsWith(s) ==
            LET p == absolute_path_prefixes[s + 1]
            IN  Len(pathstr) > Len(p) /\ SubSeq(pathstr, 1, Len(p)) = p
        matching == {s \in Scopes : StartsWith(s)}
    IN  IF matching = {} THEN CTF_SCOPE_PACKET_UNKNOWN ELSE Min(matching)

(***************************************************************************)
(* Locating a target                                                       *)
(***************************************************************************)

(* The causality test of the first named lookup. *)
child_is_after_source(child_index, src_index) == child_index > src_index

(* ptokens_to_field_path: the indices leading from `fc` to the class the   *)
(* tokens name, NULL when a name is missing or the first one names a       *)
(* member after the source.  An array or sequence takes no token.          *)
RECURSIVE ptokens_walk(_, _, _, _)
ptokens_walk(ptokens, fc, src_index, first_level_done) ==
    IF ptokens = <<>> THEN <<>>
    ELSE IF ArrayLike(fc)
    THEN LET rest == ptokens_walk(ptokens,
                        ctf_field_class_compound_borrow_field_class_by_index(fc, -1),
                        src_index, first_level_done)
         IN  IF rest = NULL THEN NULL ELSE <<-1>> \o rest
    ELSE LET child_index ==
                 ctf_field_class_compound_get_field_class_index_from_orig_name(fc, Head(ptokens))
         IN  IF child_index < 0 THEN NULL
             ELSE IF child_is_after_source(child_index, src_index) /\ ~first_level_done THEN NULL
             ELSE LET rest == ptokens_walk(Tail(ptokens),
                          ctf_field_class_compound_borrow_field_class_by_index(fc, child_index),
                          src_index, TRUE)
                  IN  IF rest = NULL THEN NULL ELSE <<child_index>> \o rest

ptokens_to_field_path(ptokens, fcloc, src_index) ==
    ptokens_walk(ptokens, FCOf(fcloc), src_index, FALSE)

(* borrow_class_from_ctx *)
borrow_class_from_ctx(scope) == ctx.scopes[scope]

(* absolute_ptokens_to_field_path: refuse a root in a translated or absent *)
(* layer, skip the prefix tokens, locate from the scope root.              *)
absolute_ptokens_to_field_path(ptokens, root) ==
    LET layer_ok ==
            CASE root = CTF_SCOPE_PACKET_HEADER -> ~tc.is_translated
              [] root \in StreamScopes ->
                    ctx.sc # NULL /\ ~tc.stream_classes[ctx.sc].is_translated
              [] root \in EventScopes ->
                    ctx.ec # NULL /\ ~tc.stream_classes[ctx.sc].event_classes[ctx.ec].is_translated
        rest == SubSeq(ptokens, absolute_path_prefix_ptoken_counts[root + 1] + 1, Len(ptokens))
        fc == borrow_class_from_ctx(root)
    IN  IF ~layer_ok \/ fc = NULL THEN NULL
        ELSE ptokens_to_field_path(rest, fc, INT64_MAX)

(* Seeded fault: the frames are searched from the outermost inwards. *)
relative_ptokens_to_field_path_outermost(ptokens) ==
    LET frame(p) == field_class_stack_at(stack, p)
        found == {p \in DOMAIN stack :
                    ptokens_to_field_path(ptokens, frame(p).fc, frame(p).index) # NULL}
        p == Min(found)
    IN  IF found = {} THEN NULL
        ELSE [k \in 1..(p - 1) |-> frame(k).index]
               \o ptokens_to_field_path(ptokens, frame(p).fc, frame(p).index)

(* relative_ptokens_to_field_path: from the innermost frame outwards, the  *)
(* first frame the tokens locate a target from; the stack indices above    *)
(* that frame are stitched in front of the located indices.                *)
relative_ptokens_to_field_path(ptokens) ==
    LET frame(p) == field_class_stack_at(stack, p)
        found == {p \in DOMAIN stack :
                    ptokens_to_field_path(ptokens, frame(p).fc, frame(p).index) # NULL}
        p == Max(found)
    IN  IF found = {} THEN NULL
        ELSE [k \in 1..(p - 1) |-> frame(k).index]
               \o ptokens_to_field_path(ptokens, frame(p).fc, frame(p).index)

(* pathstr_to_field_path *)
pathstr_to_field_path(pathstr) ==
    LET ptokens == pathstr_to_ptokens(pathstr)
        root_scope == get_root_scope_from_absolute_pathstr(pathstr)
        root == IF root_scope = CTF_SCOPE_PACKET_UNKNOWN THEN ctx.root_scope ELSE root_scope
        path == IF root_scope = CTF_SCOPE_PACKET_UNKNOWN
                THEN relative_ptokens_to_field_path(ptokens)
                ELSE absolute_ptokens_to_field_path(ptokens, root_scope)
    IN  IF ptokens = NULL \/ path = NULL THEN NULL ELSE FieldPath(root, path)

(* field_path_to_field_class *)
field_path_to_field_class(field_path) ==
    LET fc == borrow_class_from_ctx(field_path.root)
    IN  IF fc = NULL THEN NULL ELSE [fc EXCEPT !.path = field_path.path]

(***************************************************************************)
(* Validating a target                                                     *)
(***************************************************************************)

(* get_ctx_stack_field_path *)
get_ctx_stack_field_path ==
    FieldPath(ctx.root_scope, [k \in DOMAIN stack |-> field_class_stack_at(stack, k).index])

(* get_field_paths_lca_index: the first (0-based) position where the two   *)
(* paths differ, -1 when one path ends before they do.                     *)
RECURSIVE lca_from(_, _, _)
lca_from(p1, p2, lca_index) ==
    IF lca_index = Len(p2) \/ lca_index = Len(p1) THEN -1
    ELSE IF p1[lca_index + 1] # p2[lca_index + 1] THEN lca_index
    ELSE lca_from(p1, p2, lca_index + 1)

get_field_paths_lca_index(field_path1, field_path2) ==
    lca_from(field_path1.path, field_path2.path, 0)

(* Seeded fault: the signedness of a length is not checked. *)
target_type_ok_any_int(cur_fc, target_fc) ==
    CASE cur_fc.type = "variant"  -> target_fc.type = "enum"
      [] cur_fc.type = "sequence" -> target_fc.type \in {"int", "enum"}

(* The type a target must have for a referring class `cur_fc`. *)
target_type_ok(cur_fc, target_fc) ==
    CASE cur_fc.type = "variant"  -> target_fc.type = "enum"
      [] cur_fc.type = "sequence" -> target_fc.type \in {"int", "enum"} /\ ~target_fc.is_signed

(* validate_target_field_path; `cur_fc` is ctx->cur_fc. *)
validate_target_field_path(target_field_path, target_fc, cur_fc) ==
    LET ctx_field_path == get_ctx_stack_field_path
        lca_index == get_field_paths_lca_index(target_field_path, ctx_field_path)
    IN  /\ Len(target_field_path.path) # 0
        /\ target_field_path.root =< ctx_field_path.root
        /\ target_field_path.root = ctx_field_path.root =>
              /\ lca_index >= 0
              /\ target_field_path.path[lca_index + 1] < ctx_field_path.path[lca_index + 1]
        /\ target_type_ok(FCOf(cur_fc), FCOf(target_fc))

(* resolve_sequence_or_variant_field_class: the length/tag path and class  *)
(* to store on `fc`, or NULL on failure.                                   *)
resolve_sequence_or_variant_field_class(fc) ==
    LET target_field_path == pathstr_to_field_path(FCOf(fc).ref)
        target_fc == IF target_field_path = NULL THEN NULL
                     ELSE field_path_to_field_class(target_field_path)
    IN  IF target_fc = NULL THEN NULL
        ELSE IF ~validate_target_field_path(target_field_path, target_fc, fc) THEN NULL
        ELSE [path |-> target_field_path, fc |-> target_fc]

(***************************************************************************)
(* The walk of one scope root: resolve_field_class()                       *)
(***************************************************************************)

(* The stack index of child `i` of `parent`: -1 under an array/sequence. *)
child_stack_index(parent, i) == IF ArrayLike(FCOf(parent)) THEN -1 ELSE i

ChildLoc(parent, index) == [parent EXCEPT !.path = Append(parent.path, index)]

(* Seeded fault: the loop bound is off by one. *)
has_next_child_le(frame) ==
    frame.i + 1 =< ctf_field_class_compound_get_field_class_count(FCOf(frame.fc))

(* The loop of resolve_field_class() has another child to visit. *)
has_next_child(frame) ==
    frame.i + 1 < ctf_field_class_compound_get_field_class_count(FCOf(frame.fc))

(* resolve_field_class() on `next` when it is a sequence or variant whose  *)
(* target cannot be resolved: the whole call fails.                        *)
ResolveFails ==
    /\ pc = "walk"
    /\ next # NULL
    /\ HasRef(FCOf(next))
    /\ resolve_sequence_or_variant_field_class(next) = NULL
    /\ ctx' = [ctx EXCEPT !.cur_fc = next]
    /\ ret' = -1
    /\ pc' = "end"
    /\ UNCHANGED <<tc, stack, next, cont, si, ei, resolved>>

(* resolve_field_class() on `next`: store the resolved path of a sequence  *)
(* or variant, then push a compound and descend into its first child (a    *)
(* compound without children is pushed and popped at once).                *)
Enter ==
    /\ pc = "walk"
    /\ next # NULL
    /\ LET fc == FCOf(next)
           res == resolve_sequence_or_variant_field_class(next)
           count == ctf_field_class_compound_get_field_class_count(fc)
       IN  /\ HasRef(fc) => res # NULL
           /\ resolved' = IF HasRef(fc) THEN (next :> res) @@ resolved ELSE resolved
           /\ IF IsCompound(fc) /\ count > 0
              THEN /\ stack' = field_class_stack_push(stack,
                                   [fc |-> next, index |-> child_stack_index(next, 0), i |-> 0])
                   /\ next' = ChildLoc(next, child_stack_index(next, 0))
              ELSE /\ next' = NULL
                   /\ UNCHANGED stack
    /\ ctx' = [ctx EXCEPT !.cur_fc = next]
    /\ UNCHANGED <<tc, pc, cont, si, ei, ret>>

(* Back in the loop of the top frame: set the top index to the next child *)
(* and resolve it.                                                        *)
NextChild ==
    /\ pc = "walk"
    /\ next = NULL
    /\ ~field_class_stack_empty(stack)
    /\ LET top == field_class_stack_peek(stack)
           i == top.i + 1
       IN  /\ has_next_child(top)
           /\ stack' = [stack EXCEPT ![Len(stack)].i = i,
                                     ![Len(stack)].index = child_stack_index(top.fc, i)]
           /\ next' = ChildLoc(top.fc, child_stack_index(top.fc, i))
    /\ UNCHANGED <<tc, ctx, pc, cont, si, ei, ret, resolved>>

(* The loop of the top frame is over: field_class_stack_pop(). *)
Pop ==
    /\ pc = "walk"
    /\ next = NULL
    /\ ~field_class_stack_empty(stack)
    /\ ~has_next_child(field_class_stack_peek(stack))
    /\ stack' = field_class_stack_pop(stack)
    /\ UNCHANGED <<tc, ctx, next, pc, cont, si, ei, ret, resolved>>

(* resolve_root_class() returns: the root scope is reset. *)
RootDone ==
    /\ pc = "walk"
    /\ next = NULL
    /\ field_class_stack_empty(stack)
    /\ ctx' = [ctx EXCEPT !.root_scope = CTF_SCOPE_PACKET_UNKNOWN]
    /\ pc' = cont
    /\ UNCHANGED <<tc, stack, next, cont, si, ei, ret, resolved>>

(***************************************************************************)
(* The driver                                                              *)
(***************************************************************************)

(* resolve_root_class(scope) in context `c`, resuming at `after`: an       *)
(* absent root returns at once, else the walk starts at the root.          *)
resolve_root_class(scope, c, after) ==
    IF c.scopes[scope] = NULL
    THEN /\ ctx' = [c EXCEPT !.root_scope = CTF_SCOPE_PACKET_UNKNOWN]
         /\ pc' = after
         /\ UNCHANGED <<next, cont>>
    ELSE /\ ctx' = [c EXCEPT !.root_scope = scope]
         /\ next' = c.scopes[scope]
         /\ pc' = "walk"
         /\ cont' = after

SetScopes(c, ss, owner) ==
    [c EXCEPT !.scopes = [s \in Scopes |-> IF s \in ss THEN RootLoc(tc, owner, s)
                                                       ELSE c.scopes[s]]]
ClearScopes(c, ss) ==
    [c EXCEPT !.scopes = [s \in Scopes |-> IF s \in ss THEN NULL ELSE c.scopes[s]]]

(* ctf_trace_class_resolve_field_classes(): a fresh context, then the      *)
(* packet header unless the trace class is translated.                     *)
Start ==
    /\ pc = "init"
    /\ LET c == [sc |-> NULL, ec |-> NULL,
                 scopes |-> [s \in Scopes |-> IF s = CTF_SCOPE_PACKET_HEADER
                                               THEN RootLoc(tc, <<>>, s) ELSE NULL],
                 root_scope |-> CTF_SCOPE_PACKET_HEADER, cur_fc |-> NULL]
       IN  IF ~tc.is_translated
           THEN resolve_root_class(CTF_SCOPE_PACKET_HEADER, c, "stream_classes")
           ELSE /\ ctx' = c
                /\ pc' = "stream_classes"
                /\ UNCHANGED <<next, cont>>
    /\ UNCHANGED <<tc, stack, si, ei, ret, resolved>>

StreamClasses ==
    /\ pc = "stream_classes"
    /\ ctx' = SetScopes(ctx, {CTF_SCOPE_PACKET_HEADER}, <<>>)
    /\ si' = 1
    /\ pc' = "sc"
    /\ UNCHANGED <<tc, stack, next, cont, ei, ret, resolved>>

(* resolve_stream_class_field_classes(): enter stream class `si` and      *)
(* resolve its packet context unless it is translated.                     *)
StreamClassBegin ==
    /\ pc = "sc"
    /\ si =< Len(tc.stream_classes)
    /\ LET c == [ctx EXCEPT !.sc = si]
       IN  IF ~StreamClass.is_translated
           THEN resolve_root_class(CTF_SCOPE_PACKET_CONTEXT,
                    SetScopes(c, {CTF_SCOPE_PACKET_CONTEXT}, <<si>>), "sc_event_header")
           ELSE /\ ctx' = c
                /\ pc' = "sc_event_classes"
                /\ UNCHANGED <<next, cont>>
    /\ UNCHANGED <<tc, stack, si, ei, ret, resolved>>

StreamClassEventHeader ==
    /\ pc = "sc_event_header"
    /\ resolve_root_class(CTF_SCOPE_EVENT_HEADER,
           SetScopes(ctx, {CTF_SCOPE_EVENT_HEADER}, <<si>>), "sc_event_common_context")
    /\ UNCHANGED <<tc, stack, si, ei, ret, resolved>>

StreamClassEventCommonContext ==
    /\ pc = "sc_event_common_context"
    /\ resolve_root_class(CTF_SCOPE_EVENT_COMMON_CONTEXT,
           SetScopes(ctx, {CTF_SCOPE_EVENT_COMMON_CONTEXT}, <<si>>), "sc_event_classes")
    /\ UNCHANGED <<tc, stack, si, ei, ret, resolved>>

(* The stream class's scopes stay addressable for its event classes. *)
StreamClassEventClasses ==
    /\ pc = "sc_event_classes"
    /\ ctx' = SetScopes(ctx, StreamScopes, <<si>>)
    /\ ei' = 1
    /\ pc' = "ec"
    /\ UNCHANGED <<tc, stack, next, cont, si, ret, resolved>>

(* Seeded fault: the stream class's scope roots are not reset. *)
reset_stream_scopes_keep(c) == [c EXCEPT !.sc = NULL]

(* The end of resolve_stream_class_field_classes(). *)
reset_stream_scopes(c) == [ClearScopes(c, StreamScopes) EXCEPT !.sc = NULL]

StreamClassEnd ==
    /\ pc = "ec"
    /\ ei > Len(StreamClass.event_classes)
    /\ ctx' = reset_stream_scopes(ctx)
    /\ si' = si + 1
    /\ pc' = "sc"
    /\ UNCHANGED <<tc, stack, next, cont, ei, ret, resolved>>

StreamClassesDone ==
    /\ pc = "sc"
    /\ si > Len(tc.stream_classes)
    /\ pc' = "end"
    /\ UNCHANGED <<tc, ctx, stack, next, cont, si, ei, ret, resolved>>

(* The scope resolve_event_class_field_classes() walks after setting the  *)
(* event specific context (ctf-meta-resolve.cpp:1105).                     *)
event_spec_context_walk_scope == CTF_SCOPE_EVENT_COMMON_CONTEXT

(* resolve_event_class_field_classes(): a translated event class is       *)
(* skipped; else set the specific context and resolve the scope above.     *)
EventClassBegin ==
    /\ pc = "ec"
    /\ ei =< Len(StreamClass.event_classes)
    /\ ~EventClass.is_translated
    /\ resolve_root_class(event_spec_context_walk_scope,
           SetScopes([ctx EXCEPT !.ec = ei], {CTF_SCOPE_EVENT_SPECIFIC_CONTEXT}, <<si, ei>>),
           "ec_payload")
    /\ UNCHANGED <<tc, stack, si, ei, ret, resolved>>

EventClassSkip ==
    /\ pc = "ec"
    /\ ei =< Len(StreamClass.event_classes)
    /\ EventClass.is_translated
    /\ ctx' = [ClearScopes(ctx, EventScopes) EXCEPT !.ec = NULL]
    /\ ei' = ei + 1
    /\ UNCHANGED <<tc, stack, next, pc, cont, si, ret, resolved>>

EventClassPayload ==
    /\ pc = "ec_payload"
    /\ resolve_root_class(CTF_SCOPE_EVENT_PAYLOAD,
           SetScopes(ctx, {CTF_SCOPE_EVENT_PAYLOAD}, <<si, ei>>), "ec_end")
    /\ UNCHANGED <<tc, stack, si, ei, ret, resolved>>

EventClassEnd ==
    /\ pc = "ec_end"
    /\ ctx' = [ClearScopes(ctx, EventScopes) EXCEPT !.ec = NULL]
    /\ ei' = ei + 1
    /\ pc' = "ec"
    /\ UNCHANGED <<tc, stack, next, cont, si, ret, resolved>>

(* The call has returned. *)
Returned ==
    /\ pc = "end"
    /\ UNCHANGED vars

Init ==
    /\ tc \in TraceClasses
    /\ ctx = [sc |-> NULL, ec |-> NULL, scopes |-> [s \in Scopes |-> NULL],
              root_scope |-> CTF_SCOPE_PACKET_UNKNOWN, cur_fc |-> NULL]
    /\ stack = <<>>
    /\ next = NULL
    /\ pc = "init"
    /\ cont = "init"
    /\ si = 1
    /\ ei = 1
    /\ ret = 0
    /\ resolved = [l \in {} |-> NULL]

(* Every step of the call but the final stutter. *)
Step ==
    \/ Start \/ StreamClasses
    \/ StreamClassBegin \/ StreamClassEventHeader \/ StreamClassEventCommonContext
    \/ StreamClassEventClasses \/ StreamClassEnd \/ StreamClassesDone
    \/ EventClassBegin \/ EventClassSkip \/ EventClassPayload \/ EventClassEnd
    \/ Enter \/ ResolveFails \/ NextChild \/ Pop \/ RootDone

Next == Step \/ Returned

Spec == Init /\ [][Next]_vars

(***************************************************************************)
(* Properties                                                              *)
(***************************************************************************)

ResolveSpec == INSTANCE CtfResolveSpec WITH
    outcome <- IF pc = "end" THEN IF ret = 0 THEN "ok" ELSE "failed" ELSE "running",
    targets <- IF pc = "end" /\ ret = 0 THEN resolved ELSE [l \in {} |-> NULL]

Labels == {"init", "walk", "stream_classes", "sc", "sc_event_header",
           "sc_event_common_context", "sc_event_classes", "ec", "ec_payload",
           "ec_end", "end"}

TypeOK ==
    /\ pc \in Labels /\ cont \in Labels
    /\ next \in AllLocs(tc) \cup {NULL}
    /\ \A k \in DOMAIN stack :
          /\ stack[k].fc \in AllLocs(tc)
          /\ IsCompound(FCOf(stack[k].fc))
          /\ stack[k].i \in 0..(ctf_field_class_compound_get_field_class_count(FCOf(stack[k].fc)) - 1)
          /\ stack[k].index = child_stack_index(stack[k].fc, stack[k].i)
    /\ ctx.root_scope \in Scopes \cup {CTF_SCOPE_PACKET_UNKNOWN}
    /\ ctx.scopes \in [Scopes -> AllLocs(tc) \cup {NULL}]
    /\ ret \in {0, -1}
    /\ DOMAIN resolved \subseteq RefLocs(tc)

(* Every length or tag path the resolver stores on a sequence or variant  *)
(* (resolve_sequence_or_variant_field_class) designates, in the layers    *)
(* above the source, exactly the class stored beside it; that class lies  *)
(* before the source in packet order (an earlier root scope, or an        *)
(* earlier sibling at the level where the two paths part) and has the     *)
(* type the source needs: an unsigned integer for a sequence length, an   *)
(* enumeration for a variant tag.  Holds at every step, failed calls and  *)
(* the partial results they leave included.                               *)
ResolvedReferenceSound ==
    \A l \in DOMAIN resolved :
        LET r == resolved[l] IN
        /\ r.fc = Loc(ResolveSpec!VisibleOwner(l.owner, r.path.root), r.path.root, r.path.path)
        /\ ResolveSpec!PathPrecedes(r.path, FieldPath(l.scope, l.path))
        /\ ResolveSpec!TargetTypeOk(FCOf(l), FCOf(r.fc))

(* The scope roots the context exposes always belong to the trace class,  *)
(* the stream class and the event class the driver is in: none is left    *)
(* over from an earlier stream or event class, so an absolute path never  *)
(* reaches into a sibling layer (the resets at the end of                 *)
(* resolve_stream_class_field_classes and                                 *)
(* resolve_event_class_field_classes).                                    *)
ScopesOfCurrentLayers ==
    \A s \in Scopes : ctx.scopes[s] # NULL =>
        /\ ctx.scopes[s].scope = s
        /\ ctx.scopes[s].owner = CASE s = CTF_SCOPE_PACKET_HEADER -> <<>>
                                   [] s \in StreamScopes -> <<ctx.sc>>
                                   [] s \in EventScopes  -> <<ctx.sc, ctx.ec>>

(* On success every sequence and variant of every layer that is not       *)
(* translated has a length or tag path (spec.md section 6).                *)
EveryReferenceResolved ==
    pc = "end" /\ ret = 0 => \A l \in ResolveSpec!ToResolve : l \in DOMAIN resolved

(* The resolver never writes into a layer that is already translated      *)
(* (spec.md section 3: translated layers are frozen and skipped), though  *)
(* the stream scope roots are set for every stream class (line 1174) and  *)
(* the event class step walks one of them (line 1105).                     *)
TranslatedLayersFrozen ==
    \A l \in DOMAIN resolved : ~LayerTranslated(tc, l.owner)

(* The call fails only when some path string of an untranslated layer     *)
(* designates no valid target under the rules of spec.md section 4.        *)
NoSpuriousFailure ==
    pc = "end" /\ ret = -1 => ~ResolveSpec!AllResolvable

(* The resolver implements the abstract resolution of CtfResolveSpec: it   *)
(* stays "running" until the call returns, returns success exactly when   *)
(* every reference of the untranslated layers is resolvable, and then has *)
(* stored exactly the targets the rules of spec.md section 4 designate.   *)
ImplementsResolveSpec == ResolveSpec!SafetySpec
=============================================================================
