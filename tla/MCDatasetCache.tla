--------------------------- MODULE MCDatasetCache ---------------------------
(* A small instance of DatasetCache. *)
EXTENDS DatasetCache

\* A truncated payload, one that fits with it only, and one that is too large.
MCPayload == {[size |-> 1, truncated |-> TRUE],
              [size |-> 2, truncated |-> FALSE],
              [size |-> 4, truncated |-> FALSE]}
=============================================================================
