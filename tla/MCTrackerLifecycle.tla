------------------------- MODULE MCTrackerLifecycle -------------------------
(* Small instances of TrackerLifecycle.                                      *)
EXTENDS TrackerLifecycle, TLC

Symmetry == Permutations(Request) \cup Permutations(Identity) \cup Permutations(User)
=============================================================================
