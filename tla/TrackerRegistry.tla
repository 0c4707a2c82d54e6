-------------------------- MODULE TrackerRegistry ---------------------------
(***************************************************************************)
(* What the API, the bot and the collector together promise about active   *)
(* trackers, with no locks, sessions or rows: a set of claims.  A claim    *)
(* says that a tracker follows an identity (query and filters) for a user. *)
(* TrackerLifecycle implements it.                                         *)
(***************************************************************************)
EXTENDS Integers, FiniteSets

CONSTANTS User, Identity, Tracker, Quota

VARIABLE claims

Claim == [user: User, identity: Identity, tracker: Tracker]

ClaimsOf(u, set) == {c \in set : c.user = u}

\* At most Quota claims per user, and no two for the same identity.
Admissible(set) ==
    \A u \in User :
        /\ Cardinality(ClaimsOf(u, set)) <= Quota
        /\ \A c, d \in ClaimsOf(u, set) : c.identity = d.identity => c = d

Init == claims = {}

\* A user takes claims, a new one or those given up by a pause, all or nothing.
Take(u) ==
    /\ claims' \in SUBSET Claim
    /\ claims \subseteq claims'
    /\ claims' \ claims = ClaimsOf(u, claims' \ claims)
    /\ Admissible(claims')

\* A deletion or a pause gives claims of one user up.
Drop(u) ==
    /\ claims' \in SUBSET claims
    /\ claims \ claims' = ClaimsOf(u, claims \ claims')

Next == \E u \in User : Take(u) \/ Drop(u)

Spec == Init /\ [][Next]_claims

=============================================================================
