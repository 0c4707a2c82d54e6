--------------------------------- MODULE MCJob ---------------------------------
(* The tracker-check job: when it checks a key (Schedule), and how it sends  *)
(* the alerts (AlertSender).  The two share no state, so each is explored    *)
(* while the other rests.                                                    *)
EXTENDS Schedule, AlertSender

CONSTANT AnyInterval    \* of each tracker, while alerts are sent

ScheduleRests ==
    /\ turn = 0 /\ active = {}
    /\ interval = [t \in Tracker |-> AnyInterval]
SenderRests == alerts = <<>> /\ drafted = 0 /\ tracked = {}

JobInit == Init /\ SenderInit
JobNext ==
    \/ SenderRests /\ Next /\ UNCHANGED senderVars
    \/ ScheduleRests /\ SenderNext /\ UNCHANGED vars

FairJobSpec == JobInit /\ [][JobNext]_<<vars, senderVars>> /\ WF_senderVars(SendNext)
=============================================================================
