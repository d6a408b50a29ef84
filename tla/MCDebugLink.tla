----------------------------- MODULE MCDebugLink -----------------------------
(* The two connections of the debug tester to the chip: the wires of the     *)
(* debug port and the trace port.  The program uses one or the other, and a  *)
(* behaviour runs one of them.                                               *)
EXTENDS DapWire, TracePackets

CONSTANTS ETM_ID, ITM_ID, Pairs, MaxPackets, MaxFrames
VARIABLES parse, emit, i, cut, done, link

T == INSTANCE TraceParser WITH EtmPackets <- EtmKinds, ItmPackets <- ItmKinds
ASSUME T!FrameAssumption

traceVars == <<parse, emit, i, cut, done>>

LinkInit ==
    /\ Init /\ T!Init /\ link \in {"wires", "trace"}
    /\ link = "trace" => port.kind = "sw" /\ port.shift = <<>>

WiresRun == link = "wires" /\ Next /\ UNCHANGED <<traceVars, link>>
TraceRuns == link = "trace" /\ T!Next /\ UNCHANGED <<vars, link>>
\* The tester's routine goes on with what it has begun.
GoesOn == link = "wires" /\ Continue

LinkSpec == /\ LinkInit /\ [][WiresRun \/ TraceRuns]_<<vars, traceVars, link>>
            /\ WF_vars(GoesOn)

\* Between two packets of a stream the parser is idle, and at a point where both
\* streams are it has counted what the sources have sent.
InStep == T!InStep

\* CheckTrace fails a capture exactly when the compiled tests reject a packet of
\* it or its end is missing.
VerdictAsCompiled == T!VerdictAsCompiled

\* On the wires, an access that was begun comes to its end.
WireAccessEnds == link = "wires" => AccessEnds
=============================================================================
