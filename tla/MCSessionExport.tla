-------------------------- MODULE MCSessionExport ---------------------------
(* Small instances of SessionExport for TLC: who uses the thread pool.     *)
EXTENDS SessionExport

MCOneExport == {"first"}
MCTwoExports == {"first", "second"}
MCPages == {"page"}
MCNoPages == {}
=============================================================================
