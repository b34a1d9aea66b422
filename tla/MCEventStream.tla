--------------------------- MODULE MCEventStream ---------------------------
(* Small instances of EventStream for TLC: a client of a run whose graph has *)
(* one node that publishes beside the stream loop.                          *)
EXTENDS EventStream
=============================================================================
