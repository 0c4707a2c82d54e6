--------------------------- MODULE MCFetchSample ---------------------------
(* A small instance of both readers of the pages. *)
EXTENDS SearchPages
=============================================================================
