--------------------------- MODULE CtfResolveSpec ---------------------------
(***************************************************************************)
(* What resolving a trace class promises (spec.md sections 4 and 6), in   *)
(* one step: either every sequence and variant of every untranslated      *)
(* layer gets the target its path string designates, or, when one of them *)
(* designates no valid target, the call fails.                            *)
(*                                                                         *)
(* The designated target is defined over the static tree, not over the    *)
(* resolver's stack: a path is a chain of member names, tried from the    *)
(* source's innermost enclosing compound outwards (relative) or from the  *)
(* root of the scope its prefix names (absolute).                         *)
(***************************************************************************)
EXTENDS CtfMeta, SequencesExt

VARIABLES tc, outcome, targets

(* The layer whose root of `scope` a source in layer `owner` can address: *)
(* NULL when that layer is not above `owner` (no stream or event class).   *)
VisibleOwner(owner, scope) ==
    CASE scope = CTF_SCOPE_PACKET_HEADER -> <<>>
      [] scope \in StreamScopes -> IF Len(owner) >= 1 THEN <<owner[1]>> ELSE NULL
      [] scope \in EventScopes  -> IF Len(owner) = 2 THEN owner ELSE NULL

(* The name of step k of index path `p` from `fc`, "" for an element step. *)
StepName(fc, p, k) ==
    IF p[k] = -1 THEN "" ELSE FollowPath(fc, SubSeq(p, 1, k - 1)).names[p[k] + 1]
NamedSteps(p) == {k \in DOMAIN p : p[k] # -1}

(* Section 4.4: the path from `fc` that spells `tokens` with its named     *)
(* steps, enters array and sequence elements without a token, ends at the *)
(* last token, and whose first named step, at the level shared with the   *)
(* source, is strictly before the source index.  NULL when there is none. *)
Spells(fc, p, tokens) ==
    LET named == NamedSteps(p)
        order == SetToSortSeq(named, <)
    IN  /\ p # <<>>
        /\ p[Len(p)] # -1
        /\ Len(order) = Len(tokens)
        /\ \A k \in DOMAIN order : StepName(fc, p, order[k]) = tokens[k]

Locate(fc, tokens, src_index) ==
    LET ok == {p \in NodePaths(fc) :
                  /\ Spells(fc, p, tokens)
                  /\ p[Min(NamedSteps(p))] < src_index}
    IN  IF ok = {} THEN NULL ELSE CHOOSE p \in ok : TRUE

(* Section 4.2: the first scope whose prefix the path string starts with. *)
AbsoluteScopes(tokens) ==
    {s \in Scopes : LET p == absolute_path_prefixes[s + 1]
                    IN  Len(tokens) > Len(p) /\ SubSeq(tokens, 1, Len(p)) = p}

(* Section 4.5 *)
AbsoluteTarget(src, s, tokens) ==
    LET o == VisibleOwner(src.owner, s)
        rest == SubSeq(tokens, Len(absolute_path_prefixes[s + 1]) + 1, Len(tokens))
        p == IF o = NULL THEN NULL
             ELSE IF LayerTranslated(tc, o) \/ RootFC(tc, o, s) = NULL THEN NULL
             ELSE Locate(RootFC(tc, o, s), rest, 1000000)
    IN  IF p = NULL THEN NULL ELSE FieldPath(s, p)

(* Section 4.6: the innermost ancestor from which the tokens locate. *)
RelativeTarget(src, tokens) ==
    LET root == RootFC(tc, src.owner, src.scope)
        Anc(d) == FollowPath(root, SubSeq(src.path, 1, d))
        depths == {d \in 0..(Len(src.path) - 1) :
                      Locate(Anc(d), tokens, src.path[d + 1]) # NULL}
        d == Max(depths)
    IN  IF depths = {} THEN NULL
        ELSE FieldPath(src.scope, SubSeq(src.path, 1, d) \o Locate(Anc(d), tokens, src.path[d + 1]))

(* Section 4.7, items 1-3: target path `t` lies before source path `s`.    *)
PathPrecedes(t, s) ==
    /\ Len(t.path) >= 1
    /\ t.root =< s.root
    /\ t.root = s.root =>
         \E k \in 1..Min({Len(t.path), Len(s.path)}) :
            /\ SubSeq(t.path, 1, k - 1) = SubSeq(s.path, 1, k - 1)
            /\ t.path[k] < s.path[k]

(* Section 4.7, item 4, and section 3: an enumeration is an integer. *)
TargetTypeOk(src_fc, target_fc) ==
    IF src_fc.type = "variant" THEN target_fc.type = "enum"
    ELSE target_fc.type \in {"int", "enum"} /\ ~target_fc.is_signed

(* The length/tag path and class a source must receive, NULL when none. *)
SpecTarget(src) ==
    LET tokens == FCAt(tc, src).ref
        abs == AbsoluteScopes(tokens)
        fp == IF \E i \in DOMAIN tokens : tokens[i] = "" THEN NULL
              ELSE IF abs = {} THEN RelativeTarget(src, tokens)
              ELSE AbsoluteTarget(src, Min(abs), tokens)
        tloc == IF fp = NULL THEN NULL
                ELSE Loc(VisibleOwner(src.owner, fp.root), fp.root, fp.path)
    IN  IF fp = NULL THEN NULL
        ELSE IF ~PathPrecedes(fp, FieldPath(src.scope, src.path))
                \/ ~TargetTypeOk(FCAt(tc, src), FCAt(tc, tloc)) THEN NULL
        ELSE [path |-> fp, fc |-> tloc]

(* The sequences and variants of the layers that are not translated. *)
ToResolve == {l \in RefLocs(tc) : ~LayerTranslated(tc, l.owner)}

AllResolvable == \A l \in ToResolve : SpecTarget(l) # NULL

(* `tc` is the input: any trace class the parser hands over. *)
Init ==
    /\ outcome = "running"
    /\ targets = [l \in {} |-> NULL]

Resolve ==
    /\ outcome = "running"
    /\ outcome' = IF AllResolvable THEN "ok" ELSE "failed"
    /\ targets' = IF AllResolvable THEN [l \in ToResolve |-> SpecTarget(l)] ELSE targets
    /\ UNCHANGED tc

SafetySpec == Init /\ [][Resolve]_<<tc, outcome, targets>>
=============================================================================
