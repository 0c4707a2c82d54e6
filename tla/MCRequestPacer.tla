--------------------------- MODULE MCRequestPacer ---------------------------
(* A small instance of RequestPacer. *)
EXTENDS RequestPacer
=============================================================================
