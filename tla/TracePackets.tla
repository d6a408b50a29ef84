---------------------------- MODULE TracePackets ----------------------------
(* Packets of every kind the trace parser tells apart, by their bytes; bad  *)
(* are those that a message of the parser describes, whatever its test does.*)
EXTENDS Integers, Sequences

Good(bytes, counts) == [bytes |-> bytes, counts |-> counts, bad |-> FALSE]
Bad(bytes) == [bytes |-> bytes, counts |-> <<>>, bad |-> TRUE]
\* A bad packet that is counted nevertheless.
BadLast(bytes, counts) == [bytes |-> bytes, counts |-> counts, bad |-> TRUE]

EtmKinds ==
    {Good(<<0, 0, 0, 0, 0, 128>>, <<>>),
     Good(<<5>>, <<"branches">>),
     Good(<<133, 4>>, <<"branches">>),
     Good(<<133, 129, 131, 7>>, <<"branches">>),
     Good(<<133, 64, 3>>, <<"branches", "exceptions">>),
     Good(<<133, 69, 129, 1>>, <<"branches", "exceptions">>),
     Good(<<8, 33, 0, 129, 8, 32>>, <<"i_sync">>),
     Good(<<12>>, <<"etm_triggers">>),
     Good(<<102>>, <<"ignore">>),
     Good(<<118>>, <<"rfe">>),
     Good(<<132>>, <<"p_headers">>),
     Good(<<134>>, <<"p_headers", "p_headers">>),
     Good(<<66, 1>>, <<"timestamps">>),
     Good(<<70, 129, 128, 129, 130, 129, 128, 62>>, <<"timestamps">>),
     Good(<<66, 129, 128, 129, 130, 129, 128, 61>>, <<"timestamps">>),
     BadLast(<<66, 129, 128, 129, 130, 129, 128, 66>>, <<"timestamps">>),
     Bad(<<133, 129, 129, 129, 1>>),
     Bad(<<8, 0, 0, 0, 0, 0>>),
     Bad(<<146>>),
     Bad(<<4>>)}

ItmKinds ==
    {Good(<<0, 0, 0, 0, 0, 128>>, <<"sync">>),
     Good(<<112>>, <<"overflow">>),
     Good(<<32>>, <<"ts">>),
     Good(<<192, 129, 0>>, <<"ts">>),
     Good(<<148, 129, 0>>, <<"glb1">>),
     Good(<<180, 129, 128, 128, 0>>, <<"glb2">>),
     Good(<<180, 129, 128, 128, 1>>, <<"glb2">>),
     BadLast(<<180, 129, 128, 128, 2>>, <<"glb2">>),
     Good(<<9, 7>>, <<"sw">>),
     Good(<<11, 0, 128, 112, 8>>, <<"sw">>),
     Good(<<5, 33>>, <<"event", "event">>),
     Good(<<14, 15, 16>>, <<"itm_exception">>),
     Good(<<23, 1, 2, 3, 4>>, <<"periodic">>),
     Good(<<71, 1, 0, 0, 0>>, <<"comp">>),
     Bad(<<0, 1>>),
     Bad(<<192, 128, 128, 128, 128, 128>>),
     Bad(<<148, 128, 128, 128, 128>>),
     Bad(<<101, 0>>),
     Bad(<<4>>)}
=============================================================================
