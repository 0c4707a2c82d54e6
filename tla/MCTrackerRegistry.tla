-------------------------- MODULE MCTrackerRegistry --------------------------
(* The handlers of one user, beside a user who owns an active tracker that   *)
(* no step about the first user may touch.                                   *)
EXTENDS TrackerLifecycle

CONSTANT Bystander

\* The bystander creates the first tracker and then does nothing.
BystanderFirst ==
    /\ \A r \in Request :
          At(r, "idle") /\ request'[r] # request[r] =>
              (request'[r].user = Bystander) = (Inserted = {})
    /\ Bystander \notin blocked'

BesideSpec == Init /\ [][Next /\ BystanderFirst]_vars /\ RequestFairness
==============================================================================
