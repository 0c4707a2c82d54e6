------------------------------ MODULE Schedule ------------------------------
(***************************************************************************)
(* When the trackers of one query key are checked, and when their check is *)
(* a deep scan: the interval arithmetic of tracker_is_due,                 *)
(* rounded_interval_min and deep_scan_is_due over the runs of the          *)
(* tracker-check job, which start every Check minutes, some of them late.  *)
(***************************************************************************)
EXTENDS Integers, FiniteSets

CONSTANTS
    Tracker,
    Interval,   \* interval_min values
    Check,      \* ALERT_CHECK_INTERVAL, in minutes
    MaxLate,    \* how many minutes late a run starts at most
    Window,     \* DEEP_SCAN_INTERVAL_HOURS, in minutes
    Shift,      \* deep_scan_is_due: the key's hash modulo Window
    MaxRun      \* bound: runs of the job

ASSUME IntervalAssumption == Interval \subseteq Nat \ {0}
ASSUME CheckAssumption == Check \in Nat \ {0}
ASSUME WindowAssumption == Window \in Nat \ {0} /\ Shift \in 0 .. Window - 1
ASSUME MaxRunAssumption == MaxRun \in Nat

\* The scheduler catches up within half an interval ("half a check interval of
\* slack absorbs job jitter").
ASSUME MaxLateAssumption == MaxLate \in Nat /\ 2 * MaxLate < Check

VARIABLES
    turn,       \* how often the job was due to start
    now,        \* when its last run started, in minutes
    interval,   \* interval_min of each tracker
    last,       \* last_checked_at of each active tracker
    active,     \* the active trackers of the key
    known,      \* whether the key has remembered listings, or its marker
    deep,       \* whether the last run was a deep scan of the key
    visited     \* history: the windows in which the key was checked

vars == <<turn, now, interval, last, active, known, deep, visited>>

-----------------------------------------------------------------------------

Never == -1

\* Mutant: halves round down.
RoundedIntervalDown(i) ==
    LET multiple == (2 * i + Check - 1) \div (2 * Check)
    IN  (IF multiple < 1 THEN 1 ELSE multiple) * Check

\* rounded_interval_min.
RoundedInterval(i) ==
    LET multiple == (2 * i + Check) \div (2 * Check)
    IN  (IF multiple < 1 THEN 1 ELSE multiple) * Check

\* real_check_interval_min: what the Mini App shows.
RealCheckInterval(i) == IF i <= Check THEN Check ELSE RoundedInterval(i)

\* Mutant: no slack for late runs.
TrackerIsDueStrictly(t, moment) ==
    \/ interval[t] <= Check
    \/ last[t] = Never
    \/ moment - last[t] >= RoundedInterval(interval[t])

\* tracker_is_due, with half a check interval of slack (both sides doubled).
TrackerIsDue(t, moment) ==
    \/ interval[t] <= Check
    \/ last[t] = Never
    \/ 2 * (moment - last[t]) >= 2 * RoundedInterval(interval[t]) - Check

GroupIsDue(moment) == \E t \in active : TrackerIsDue(t, moment)

\* TrackerGroup.last_checked_at.
CheckedBefore == {t \in active : last[t] # Never}
GroupLastChecked ==
    last[CHOOSE t \in CheckedBefore : \A s \in CheckedBefore : last[s] <= last[t]]

WindowOf(moment) == (moment + Shift) \div Window

\* Mutant: the shift of the key is left out on one side.
DeepScanIsDueUnshifted(moment) ==
    /\ CheckedBefore # {}
    /\ WindowOf(moment) # GroupLastChecked \div Window

DeepScanIsDue(moment) ==
    /\ CheckedBefore # {}
    /\ WindowOf(moment) # WindowOf(GroupLastChecked)

Init ==
    /\ turn = 0
    /\ now = 0
    /\ interval \in [Tracker -> Interval]
    /\ last = [t \in Tracker |-> Never]
    /\ active = {}
    /\ known = FALSE
    /\ deep = FALSE
    /\ visited = {}

-----------------------------------------------------------------------------

Starts(late) ==
    /\ turn < MaxRun
    /\ active # {}
    /\ turn' = turn + 1
    /\ now' = turn' * Check + late

\* A due group is checked with all of its trackers; last_checked_at becomes the
\* start of the run.  A key without remembered listings records its baseline, with the
\* regular paging, and is remembered from then on.
Checks(late) ==
    /\ Starts(late)
    /\ GroupIsDue(now')
    /\ last' = [t \in Tracker |-> IF t \in active THEN now' ELSE last[t]]
    /\ deep' = (known /\ DeepScanIsDue(now'))
    /\ known' = TRUE
    /\ visited' = visited \cup {WindowOf(now')}
    /\ UNCHANGED <<interval, active>>

\* The check of a due group fails: nothing is committed.
Fails(late) ==
    /\ Starts(late)
    /\ GroupIsDue(now')
    /\ deep' = FALSE
    /\ UNCHANGED <<interval, last, active, known, visited>>

\* No tracker of the group is due.
Skips(late) ==
    /\ Starts(late)
    /\ ~GroupIsDue(now')
    /\ deep' = FALSE
    /\ UNCHANGED <<interval, last, active, known, visited>>

\* The last run is still going (max_instances=1), the scheduler is down, or the
\* key has no active tracker.
NoRun ==
    /\ turn < MaxRun
    /\ turn' = turn + 1
    /\ UNCHANGED <<now, interval, last, active, known, deep, visited>>

\* A tracker is created or resumed, with last_checked_at NULL.
Track(t) ==
    /\ t \notin active
    /\ active' = active \cup {t}
    /\ last' = [last EXCEPT ![t] = Never]
    /\ UNCHANGED <<turn, now, interval, known, deep, visited>>

Untrack(t) ==
    /\ t \in active
    /\ active' = active \ {t}
    /\ UNCHANGED <<turn, now, interval, last, known, deep, visited>>

\* The cleanup removes the last row of the key.
Forget ==
    /\ known
    /\ known' = FALSE
    /\ UNCHANGED <<turn, now, interval, last, active, deep, visited>>

Next ==
    \/ \E late \in 0 .. MaxLate : Checks(late) \/ Fails(late) \/ Skips(late)
    \/ NoRun
    \/ \E t \in Tracker : Track(t) \/ Untrack(t)
    \/ Forget

Spec == Init /\ [][Next]_vars

-----------------------------------------------------------------------------
(* Properties. *)

\* The clock, the columns and the histories stay in their domains.
TypeOK ==
    /\ turn \in 0 .. MaxRun
    /\ now \in 0 .. MaxRun * Check + MaxLate
    /\ interval \in [Tracker -> Interval]
    /\ last \in [Tracker -> {Never} \cup 0 .. now]
    /\ active \subseteq Tracker
    /\ known \in BOOLEAN
    /\ deep \in BOOLEAN
    /\ visited \subseteq 0 .. (now + Shift) \div Window

\* How many turns of the job a tracker wants to wait: the multiple of Check that
\* is nearest to its interval, the larger one of two (the words of
\* rounded_interval_min).
Distance(m, i) == IF m * Check > i THEN m * Check - i ELSE i - m * Check
WantedTurns(i) ==
    CHOOSE m \in 1 .. i + 1 : \A k \in 1 .. i + 1 :
        \/ Distance(m, i) < Distance(k, i)
        \/ Distance(m, i) = Distance(k, i) /\ m >= k

TurnsSince(t) == turn' - last[t] \div Check

\* "A late run never shifts the cadence by a whole cycle" (tracker_is_due): the
\* key is skipped in a run exactly when each of its trackers was checked fewer
\* turns ago than its own interval wants, whatever runs started late, failed or
\* were left out.
CadenceKept ==
    [][now' # now =>
          (GroupIsDue(now') <=>
              \E t \in active : last[t] = Never \/ TurnsSince(t) >= WantedTurns(interval[t]))]_vars

\* "What the Mini App shows is what the scheduler does" (rounded_interval_min).
ShownIntervalIsWanted ==
    /\ TypeOK
    /\ \A t \in active : RealCheckInterval(interval[t]) = WantedTurns(interval[t]) * Check

\* One deep scan in each window in which the key is checked, on the first check: never
\* two, and none left out for a key whose trackers were checked before, unless it has
\* forgotten its listings since and begins again with a baseline.
DeepOncePerWindow ==
    [][now' # now /\ last' # last =>
          /\ deep' => WindowOf(now') \notin visited
          /\ WindowOf(now') \notin visited /\ CheckedBefore # {} /\ known => deep']_vars

=============================================================================
