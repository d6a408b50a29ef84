--------------------------- MODULE MCDebugTester ---------------------------
(* The table's spare entries put to the library calls it does not use yet. *)
EXTENDS DebugTester

SpareCalls == LibraryCalls
=============================================================================
