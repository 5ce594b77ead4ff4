---------------------------- MODULE MCCtfResolve ----------------------------
(***************************************************************************)
(* Trace classes for checking CtfResolve: small metadata trees the TSDL    *)
(* parser can produce, with every kind of field class, relative,           *)
(* absolute and malformed path strings, and names that shadow each other   *)
(* across nesting levels.  Members are named by position ("a", "b").       *)
(***************************************************************************)
EXTENDS CtfResolve

U   == IntFC(FALSE)     \* unsigned integer
S   == IntFC(TRUE)      \* signed integer
E   == EnumFC(FALSE)    \* enumeration
Txt == StringFC
Leaves == {U, S, E}

Struct1(x)    == StructFC(<<"a">>, <<x>>)
Struct2(x, y) == StructFC(<<"a", "b">>, <<x, y>>)
SeqOfU(r) == SequenceFC(U, r)
VarUT(r) == VariantFC(<<"a", "b">>, <<U, Txt>>, r)

EC(translated, spec, payload) ==
    [is_translated |-> translated, spec_context_fc |-> spec, payload_fc |-> payload]
SC(translated, pctx, eh, ecc, ecs) ==
    [is_translated |-> translated, packet_context_fc |-> pctx, event_header_fc |-> eh,
     event_common_context_fc |-> ecc, event_classes |-> ecs]
TC(translated, ph, scs) ==
    [is_translated |-> translated, packet_header_fc |-> ph, stream_classes |-> scs]

(***************************************************************************)
(* Relative resolution inside one event payload                            *)
(***************************************************************************)
RelRefs == {<<"a">>, <<"b">>, <<"a", "a">>, <<"a", "b">>, <<"b", "a">>,
            <<"event", "fields", "a">>, <<"a", "">>}
RelSeqs == {SeqOfU(r) : r \in RelRefs}
RelVars == {VarUT(r) : r \in RelRefs}
Inner   == {Struct2(x, y) : x \in Leaves, y \in RelSeqs \cup RelVars}
           \cup {Struct1(y) : y \in RelSeqs \cup RelVars}
Arrays  == {ArrayFC(Struct2(U, y)) : y \in RelSeqs}
Payloads == {Struct2(x, y) : x \in Leaves \cup Inner,
                             y \in RelSeqs \cup RelVars \cup Inner \cup Arrays}

PayloadTraceClasses ==
    {TC(FALSE, NULL, <<SC(FALSE, NULL, NULL, Struct1(E), <<EC(FALSE, NULL, p)>>)>>) :
        p \in Payloads}

(***************************************************************************)
(* Event class scopes (ctf-meta-resolve.cpp:1105): an event specific      *)
(* context holding a sequence, in an untranslated event class.             *)
(***************************************************************************)
SpecContextTraceClasses ==
    {TC(FALSE, NULL, <<SC(FALSE, NULL, NULL, ecc,
                          <<EC(FALSE, Struct2(U, SeqOfU(<<"a">>)), Struct1(U))>>)>>) :
        ecc \in {NULL, Struct1(E)}}

(* A translated stream class whose event common context holds a          *)
(* sequence, above one untranslated event class: the case on which the   *)
(* event class step of line 1105 walks a frozen layer.                    *)
TranslatedStreamTraceClasses ==
    {TC(FALSE, NULL, <<SC(TRUE, NULL, NULL, Struct2(U, SeqOfU(<<"a">>)),
                          <<EC(te, NULL, Struct1(U))>>)>>) : te \in BOOLEAN}

(* A sequence or variant whose relative path string starts with the name  *)
(* of the member that holds it at some level of its own ancestor chain:    *)
(* the shape on which ctf-meta-resolve.cpp:388 (child_index == src_index   *)
(* passes) and spec.md section 4.4 (strictly less) part.                   *)
SelfNamed(t) ==
    \E l \in RefLocs(t) :
        \E k \in DOMAIN l.path :
            LET parent == FCAt(t, [l EXCEPT !.path = SubSeq(l.path, 1, k - 1)])
            IN  /\ l.path[k] # -1
                /\ parent.names[l.path[k] + 1] = FCAt(t, l).ref[1]

PayloadTraceClassesNotSelfNamed == {t \in PayloadTraceClasses : ~SelfNamed(t)}
(***************************************************************************)
(* Absolute paths across layers: a trace class with two stream classes,  *)
(* translated or not, whose event payloads address the scope roots of the *)
(* layers above them.  The first stream class's second event class and    *)
(* the second stream class look up roots their own layers do not have, so *)
(* a root left over from the previous event or stream class would answer. *)
(***************************************************************************)
AbsRefs == {<<"trace", "packet", "header", "a">>, <<"stream", "packet", "context", "a">>,
            <<"stream", "event", "context", "a">>, <<"event", "context", "a">>,
            <<"event", "fields", "a">>, <<"stream", "packet", "a">>}
AbsPayloads == {Struct2(U, SeqOfU(r)) : r \in AbsRefs}
                   \cup {Struct2(U, VarUT(<<"stream", "event", "context", "a">>))}
LateLookups == {Struct1(U), Struct2(U, SeqOfU(<<"event", "context", "a">>)),
                Struct2(U, SeqOfU(<<"stream", "event", "header", "a">>))}

LayerTraceClasses ==
    {TC(t, ph, <<SC(t1, pctx, NULL, Struct1(E),
                    <<EC(te, Struct1(U), p1), EC(FALSE, NULL, p2)>>),
                 SC(FALSE, pc2, NULL, NULL, <<EC(FALSE, NULL, p2)>>)>>) :
        t \in BOOLEAN, ph \in {NULL, Struct1(U)}, t1 \in BOOLEAN, pctx \in {NULL, Struct1(U)},
        te \in BOOLEAN, p1 \in AbsPayloads, p2 \in LateLookups,
        pc2 \in {NULL, Struct2(U, SeqOfU(<<"stream", "event", "context", "a">>))}}

(* Both input families of one resolver run: nested relative references   *)
(* in event payloads, and absolute and late references across layers.    *)
PayloadAndLayerTraceClasses == PayloadTraceClassesNotSelfNamed \cup LayerTraceClasses

=============================================================================
