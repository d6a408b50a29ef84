---------------------------- MODULE MCSensingDriver ----------------------------
(* SensingDriver with a short wrap of the time, and a CLK1HZ far faster than  *)
(* any build's, so that its edges meet every state of the re-arm.             *)
EXTENDS SensingDriver

PollOffsets == {1, 2}
===============================================================================
