--------------------------- MODULE MCEventStream ---------------------------
(* Model checking of EventStream. *)
EXTENDS EventStream
=============================================================================
