----------------------------- MODULE Collector -----------------------------
(***************************************************************************)
(* The tracker-check job of the scheduler for the trackers of one query    *)
(* key (_process_group and what check_trackers does around it), and the    *)
(* daily-cleanup job that runs beside it.                                  *)
(*                                                                         *)
(* A run loads the group, asks in a first session whether the key has any  *)
(* remembered listing, fetches a sample with no session open, selects the  *)
(* trackers again in a second session, and sends after that session has    *)
(* committed.  Trackers come and go in between (TrackerLifecycle), and so  *)
(* do listings on Kufar.  Price drops take the same way as new listings;   *)
(* ListingSync tells which listings those are.                             *)
(***************************************************************************)
EXTENDS Integers

CONSTANTS
    Tracker,    \* the trackers of the key
    Ad,         \* the listings that answer the query
    Marker,     \* BASELINE_MARKER_AD_ID
    Wanted      \* the listings that pass each tracker's filters

ASSUME MarkerAssumption == Marker \notin Ad
ASSUME WantedAssumption == Wanted \in [Tracker -> SUBSET Ad]

VARIABLES
    known,      \* the ad_ids in query_listing_states
    age,        \* when each was last seen
    tracker,    \* active and last_checked_at of each tracker
    run,        \* the tracker-check job
    outbox,     \* new listings in the alert to each tracker that is not sent yet
    cleanup,    \* the daily-cleanup job
    seen        \* history: what the checks of a tracker met since it became active

vars == <<known, age, tracker, run, outbox, cleanup, seen>>

-----------------------------------------------------------------------------

Remembered == Ad \cup {Marker}

\* last_seen_at: 0, or 1 before the cutoff of untracked keys (90 days), or 2 before
\* that of tracked keys (365 days); 3 for a listing that never had a row.
UntrackedAge == 1
TrackedAge == 2
Never == 3
Age == {0, UntrackedAge, TrackedAge, Never}

\* "fresh": active, last_checked_at NULL; "checked": active and set.
TrackerState == {"inactive", "fresh", "checked"}

Active == {t \in Tracker : tracker[t] # "inactive"}
Checked == {t \in Tracker : tracker[t] = "checked"}

RunState == [step: {"idle", "loaded", "opened", "fetched", "selected", "sending"},
             group: SUBSET Tracker,     \* tracker_ids
             since: BOOLEAN,            \* last_checked_at of the group is not None
             baseline: BOOLEAN,         \* the key had no remembered listing
             sample: SUBSET Ad,         \* the listings fetched
             silent: SUBSET Ad,         \* those first met beyond the regular window
             batch: SUBSET Tracker,     \* the trackers selected after the fetch
             alert: SUBSET Tracker,     \* those loaded with last_checked_at set
             loaded: SUBSET Ad]         \* the rows of the sample that were loaded

IdleRun == [step |-> "idle", group |-> {}, since |-> FALSE, baseline |-> FALSE,
            sample |-> {}, silent |-> {}, batch |-> {}, alert |-> {}, loaded |-> {}]

CleanupState == [step: {"idle", "deleting"}, tracked: BOOLEAN]
IdleCleanup == [step |-> "idle", tracked |-> FALSE]

EmptyOutbox == [t \in Tracker |-> {}]

Init ==
    /\ known = {}
    /\ age = [a \in Remembered |-> Never]
    /\ tracker = [t \in Tracker |-> "inactive"]
    /\ run = IdleRun
    /\ outbox = EmptyOutbox
    /\ cleanup = IdleCleanup
    /\ seen = [t \in Tracker |-> {}]

-----------------------------------------------------------------------------
(* The tracker-check job. *)

\* Mutant: only the trackers that are due make up the group.
LoadGroupsDueOnly ==
    /\ run.step = "idle"
    /\ Active # {}
    /\ \E due \in SUBSET Active :
          run' = [IdleRun EXCEPT !.step = "loaded", !.group = due,
                                 !.since = Checked \cap due # {}]
    /\ UNCHANGED <<known, age, tracker, outbox, cleanup, seen>>

\* _load_tracker_groups: a group runs with all of its trackers.  A run in which
\* none of them is due leaves the group alone and is no step.
LoadGroups ==
    /\ run.step = "idle"
    /\ Active # {}
    /\ run' = [IdleRun EXCEPT !.step = "loaded", !.group = Active,
                              !.since = Checked # {}]
    /\ UNCHANGED <<known, age, tracker, outbox, cleanup, seen>>

\* The first session: has_listing_states.
ReadBaseline ==
    /\ run.step = "loaded"
    /\ run' = [run EXCEPT !.step = "opened", !.baseline = known = {}]
    /\ UNCHANGED <<known, age, tracker, outbox, cleanup, seen>>

\* _fetch_group_sample: whichever listings Kufar has by then; a deep scan, which
\* only a key and a group with an earlier check get, also brings silent ones.
Fetch(sample, silent) ==
    /\ run.step = "opened"
    /\ silent \subseteq sample
    /\ silent # {} => ~run.baseline /\ run.since
    /\ run' = [run EXCEPT !.step = "fetched", !.sample = sample, !.silent = silent]
    /\ UNCHANGED <<known, age, tracker, outbox, cleanup, seen>>

\* The second session: the trackers still active, and load_listing_states.
SelectTrackers ==
    LET batch == run.group \cap Active IN
    /\ run.step = "fetched"
    /\ run' = IF batch = {} THEN IdleRun
              ELSE [run EXCEPT !.step = "selected", !.batch = batch,
                               !.alert = batch \cap Checked,
                               !.loaded = run.sample \cap known]
    /\ UNCHANGED <<known, age, tracker, outbox, cleanup, seen>>

\* Mutant: a baseline that found no listing leaves no mark.
RecordedUnmarked == run.sample

\* Mutant: the silent listings are left out of the sync.
RecordedLoud == run.sample \ run.silent

\* The listing states written: the sample, and for a baseline that found nothing
\* the marker (mark_query_baseline).
Recorded ==
    IF run.baseline /\ run.sample = {} THEN {Marker} ELSE run.sample

NewListings == run.sample \ run.loaded

\* The alert drafted for t; none on the first check of the key or the tracker.
Drafted(t) ==
    IF t \in run.alert /\ ~run.baseline
    THEN (NewListings \ run.silent) \cap Wanted[t]
    ELSE {}

\* sync_query_listing_states, last_checked_at of the batch, the drafts, COMMIT.
\* An UPDATE of a row that the cleanup has deleted fails (GroupFails).
Commit ==
    /\ run.step = "selected"
    /\ run.loaded \subseteq known
    /\ known' = known \cup Recorded
    /\ age' = [a \in Remembered |-> IF a \in Recorded THEN 0 ELSE age[a]]
    /\ tracker' = [t \in Tracker |->
           IF t \in run.batch /\ t \in Active THEN "checked" ELSE tracker[t]]
    /\ outbox' = [t \in Tracker |-> Drafted(t)]
    /\ seen' = [t \in Tracker |->
           IF t \in run.batch THEN seen[t] \cup run.sample ELSE seen[t]]
    /\ run' = [IdleRun EXCEPT !.step = "sending"]
    /\ UNCHANGED cleanup

\* The fetch or the transaction fails: rolled back, logged, the group is skipped.
GroupFails ==
    /\ run.step \in {"loaded", "opened", "fetched", "selected"}
    /\ run' = IdleRun
    /\ UNCHANGED <<known, age, tracker, outbox, cleanup, seen>>

\* AlertSender.send: the alert is delivered or dropped, and not kept.
Send(t) ==
    /\ run.step = "sending"
    /\ outbox[t] # {}
    /\ outbox' = [outbox EXCEPT ![t] = {}]
    /\ UNCHANGED <<known, age, tracker, run, cleanup, seen>>

\* The user has blocked the bot: their trackers are paused.
SendForbidden(t) ==
    /\ run.step = "sending"
    /\ outbox[t] # {}
    /\ outbox' = [outbox EXCEPT ![t] = {}]
    /\ tracker' = [tracker EXCEPT ![t] = "inactive"]
    /\ UNCHANGED <<known, age, run, cleanup, seen>>

RunEnds ==
    /\ run.step = "sending"
    /\ outbox = EmptyOutbox
    /\ run' = IdleRun
    /\ UNCHANGED <<known, age, tracker, outbox, cleanup, seen>>

\* The scheduler process dies: what is not committed and not sent is lost.
Crash ==
    /\ run # IdleRun \/ cleanup # IdleCleanup
    /\ run' = IdleRun
    /\ outbox' = EmptyOutbox
    /\ cleanup' = IdleCleanup
    /\ UNCHANGED <<known, age, tracker, seen>>

-----------------------------------------------------------------------------
(* The daily-cleanup job: the keys with active trackers are read first. *)

CleanupReads ==
    /\ cleanup.step = "idle"
    /\ cleanup' = [step |-> "deleting", tracked |-> Active # {}]
    /\ UNCHANGED <<known, age, tracker, run, outbox, seen>>

CleanupDeletes ==
    LET cutoff == IF cleanup.tracked THEN TrackedAge ELSE UntrackedAge IN
    /\ cleanup.step = "deleting"
    /\ known' = {a \in known : age[a] < cutoff}
    /\ cleanup' = IdleCleanup
    /\ UNCHANGED <<age, tracker, run, outbox, seen>>

\* run_cleanup rolls back.
CleanupFails ==
    /\ cleanup.step = "deleting"
    /\ cleanup' = IdleCleanup
    /\ UNCHANGED <<known, age, tracker, run, outbox, seen>>

-----------------------------------------------------------------------------
(* The API and the bot, and time. *)

\* Created or resumed: TrackerLifecycle's ActivatedIsUnchecked.
Activate(t) ==
    /\ tracker[t] = "inactive"
    /\ tracker' = [tracker EXCEPT ![t] = "fresh"]
    /\ seen' = [seen EXCEPT ![t] = {}]
    /\ UNCHANGED <<known, age, run, outbox, cleanup>>

\* Deleted.
Deactivate(t) ==
    /\ t \in Active
    /\ tracker' = [tracker EXCEPT ![t] = "inactive"]
    /\ UNCHANGED <<known, age, run, outbox, cleanup, seen>>

\* Months pass between two runs, never during a run or a cleanup.
MonthsPass ==
    /\ run = IdleRun /\ cleanup = IdleCleanup
    /\ age' = [a \in Remembered |-> IF age[a] < TrackedAge THEN age[a] + 1 ELSE age[a]]
    /\ UNCHANGED <<known, tracker, run, outbox, cleanup, seen>>

-----------------------------------------------------------------------------

RunNext ==
    \/ LoadGroups
    \/ ReadBaseline
    \/ \E sample, silent \in SUBSET Ad : Fetch(sample, silent)
    \/ SelectTrackers
    \/ Commit
    \/ GroupFails
    \/ \E t \in Tracker : Send(t) \/ SendForbidden(t)
    \/ RunEnds
    \/ Crash

CleanupNext == CleanupReads \/ CleanupDeletes \/ CleanupFails

Environment ==
    \/ \E t \in Tracker : Activate(t) \/ Deactivate(t)
    \/ MonthsPass

Next == RunNext \/ CleanupNext \/ Environment

Spec == Init /\ [][Next]_vars

-----------------------------------------------------------------------------
(* Properties. *)

\* The jobs' local state, the tables and the history stay in their domains.
TypeOK ==
    /\ known \subseteq Remembered
    /\ age \in [Remembered -> Age]
    /\ tracker \in [Tracker -> TrackerState]
    /\ run \in RunState
    /\ outbox \in [Tracker -> SUBSET Ad]
    /\ cleanup \in CleanupState
    /\ seen \in [Tracker -> SUBSET Ad]

\* A tracker is alerted about a listing as new only if none of its checks since
\* it became active has met that listing, silently or not, or if the listing was
\* out of sight for a year: whatever fails, crashes or is cleaned up in between
\* (sync_query_listing_states, cleanup_stale_listing_states).
ToldOnce ==
    [][\A t \in Tracker : outbox'[t] # {} /\ outbox'[t] # outbox[t] =>
          \A a \in outbox'[t] \cap seen[t] : age[a] = TrackedAge]_vars

\* Rows of the key were written once, none of them within the retention of
\* untracked keys: the cleanup may have deleted them all.
Forgotten ==
    /\ \A a \in Remembered : age[a] >= UntrackedAge
    /\ \E a \in Remembered : age[a] # Never

\* When a listing is recorded for the first time, every active tracker that was
\* checked before is alerted about it, although trackers change between the load
\* of the group, the fetch and the commit (TrackerGroup.is_due: "a tracker skipped
\* now would never see the listings synced in this run").
CheckedTrackersHear ==
    [][\A t \in Checked, a \in Ad \cap (known' \ known) :
          a \in Wanted[t] \ run.silent /\ ~Forgotten => a \in outbox'[t]]_vars

\* Once a tracker was checked its key counts as initialised, also when the query
\* had no results, so that the first listing alerts (collector.py:557-558), until
\* nothing of the key was seen for months.
CheckedKeyIsInitialised == Checked # {} => known # {} \/ Forgotten

=============================================================================
