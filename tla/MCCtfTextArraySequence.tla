------------------------ MODULE MCCtfTextArraySequence ------------------------
(***************************************************************************)
(* Trace classes for checking CtfTextArraySequence: arrays and sequences   *)
(* of every element kind the text test (lines 64-69) tells apart, alone,   *)
(* nested in arrays, structures and variants, in layers each translated or *)
(* not.                                                                     *)
(***************************************************************************)
EXTENDS CtfTextArraySequence

Char   == TextIntFC("int", TRUE, 8, 8, "UTF8")     \* TSDL `char`-like
UChar  == TextIntFC("int", FALSE, 8, 8, "UTF8")
EChar  == TextIntFC("enum", TRUE, 8, 8, "UTF8")
Byte   == TextIntFC("int", FALSE, 8, 8, "NONE")     \* no encoding
Wide   == TextIntFC("int", FALSE, 8, 16, "UTF8")    \* 16-bit
Packed == TextIntFC("int", TRUE, 1, 8, "UTF8")      \* bit-packed
Elems == {Char, UChar, EChar, Byte, Wide, Packed}

Struct1(x) == StructFC(<<"a">>, <<x>>)
Shapes(e) ==
    {ArrayFC(e), SequenceFC(e, <<"n">>), ArrayFC(ArrayFC(e)),
     ArrayFC(Struct1(SequenceFC(e, <<"n">>))),
     VariantFC(<<"a", "b">>, <<Byte, ArrayFC(e)>>, <<"t">>)}
Payloads == {NULL} \cup {Struct1(x) : x \in UNION {Shapes(e) : e \in Elems}}

EC(translated, spec, payload) ==
    [is_translated |-> translated, spec_context_fc |-> spec, payload_fc |-> payload]
SC(translated, pctx, eh, ecc, ecs) ==
    [is_translated |-> translated, packet_context_fc |-> pctx, event_header_fc |-> eh,
     event_common_context_fc |-> ecc, event_classes |-> ecs]
TC(translated, ph, scs) ==
    [is_translated |-> translated, packet_header_fc |-> ph, stream_classes |-> scs]

(* Every layer holds a text array so that a skipped or wrongly walked layer *)
(* shows; the first event class's payload ranges over all the shapes.      *)
MCTraceClasses ==
    {TC(t, Struct1(ArrayFC(Char)),
        <<SC(ts, Struct1(SequenceFC(UChar, <<"n">>)), NULL, NULL,
             <<EC(te, Struct1(ArrayFC(EChar)), p), EC(FALSE, NULL, Struct1(ArrayFC(Char)))>>)>>) :
        t \in BOOLEAN, ts \in BOOLEAN, te \in BOOLEAN, p \in Payloads}
=============================================================================
