---------------------------- MODULE MCCollector ----------------------------
(* A small instance of Collector: two trackers with different filters. *)
EXTENDS Collector, TLC

CONSTANTS t1, t2, a1, a2

MCTracker == {t1, t2}
MCAd == {a1, a2}
MCWanted == (t1 :> {a1, a2}) @@ (t2 :> {a1})
=============================================================================
