---------------------------- MODULE MCTraceParser ----------------------------
(* The trace decompressor on captures of the packets of TracePackets.        *)
EXTENDS TraceParser, TracePackets
=============================================================================
