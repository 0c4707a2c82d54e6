-------------------------- MODULE CollectorProofs --------------------------
(***************************************************************************)
(* Collector keeps its properties for any trackers, listings and filters,  *)
(* however checks, failures, crashes and cleanups follow one another; and  *)
(* AlertSender, which sends the alerts of a run, keeps its bounds for any  *)
(* users, any limits and any answers of Telegram.                          *)
(***************************************************************************)
EXTENDS Collector, AlertSender, FiniteSetTheorems, TLAPS

Looking == {"opened", "fetched", "selected"}

\* The rows: what was seen of late is known, and what is known was seen.
RowsKept ==
    /\ \A a \in Remembered : age[a] = 0 => a \in known
    /\ \A a \in known : age[a] # Never

Met == \E a \in Remembered : age[a] # Never

\* A key with a checked tracker had rows, and so had one that is no baseline.
KeyWasMet ==
    /\ Checked # {} => Met
    /\ run.step \in Looking /\ ~run.baseline => Met

\* What the run read is still good: no tracker of the key has become checked
\* since, and a key with checked trackers is a baseline only when forgotten.
RunCovers ==
    /\ run.step \in Looking \cup {"loaded"} => Checked \subseteq run.group
    /\ run.step \in Looking /\ run.baseline /\ Checked # {} => Forgotten
    /\ run.step = "selected" => Checked \subseteq run.alert

\* What the checks of a tracker have met is known or was forgotten after a year;
\* a cleanup that takes the key for untracked deletes none of it.
SeenIsKnown ==
    /\ \A t \in Active : \A a \in seen[t] : a \in known \/ age[a] = TrackedAge
    /\ cleanup.step = "deleting" /\ ~cleanup.tracked =>
          \A t \in Active : \A a \in seen[t] : age[a] = 0
    /\ run.step = "selected" =>
          \A t \in run.alert : \A a \in (seen[t] \cap run.sample) \ run.loaded :
              age[a] = TrackedAge

IInv == TypeOK /\ RowsKept /\ KeyWasMet /\ RunCovers /\ SeenIsKnown

-----------------------------------------------------------------------------

\* An empty table with no tracker satisfies the invariant.
LEMMA InvInit == Init => IInv
  <1> SUFFICES ASSUME Init PROVE IInv
    OBVIOUS
  <1> USE DEF Init, Age, Never, UntrackedAge, TrackedAge, Remembered
  <1>1. TypeOK
    BY DEF TypeOK, TrackerState, IdleRun, RunState, EmptyOutbox, IdleCleanup,
       CleanupState
  <1>2. Active = {} /\ Checked = {}
    BY DEF Active, Checked
  <1>3. RowsKept /\ KeyWasMet /\ RunCovers /\ SeenIsKnown
    BY <1>2
       DEF RowsKept, KeyWasMet, RunCovers, SeenIsKnown, IdleRun, IdleCleanup, Looking
  <1> QED  BY <1>1, <1>3 DEF IInv

-----------------------------------------------------------------------------
(* Type correctness. *)

\* An alert names listings of the sample.
LEMMA DraftedType ==
  ASSUME TypeOK, NEW t \in Tracker
  PROVE  Drafted(t) \subseteq Ad
  BY DEF TypeOK, RunState, Drafted, NewListings

\* Every step keeps the tables and the jobs' variables in their domains.
LEMMA TypeStep == TypeOK /\ [Next]_vars => TypeOK'
  <1> SUFFICES ASSUME TypeOK, [Next]_vars PROVE TypeOK'
    OBVIOUS
  <1> USE DEF TypeOK
  <1>1. CASE LoadGroups
    BY <1>1 DEF LoadGroups, IdleRun, RunState, Active
  <1>2. CASE ReadBaseline
    BY <1>2 DEF ReadBaseline, RunState
  <1>3. ASSUME NEW sample \in SUBSET Ad, NEW silent \in SUBSET Ad, Fetch(sample, silent)
        PROVE  TypeOK'
    BY <1>3 DEF Fetch, RunState
  <1>4. CASE SelectTrackers
    BY <1>4 DEF SelectTrackers, IdleRun, RunState, Active, Checked
  <1>5. CASE Commit
    <2>1. run' \in RunState
      BY <1>5 DEF Commit, IdleRun, RunState
    <2>2. Recorded \subseteq Remembered
      BY DEF Recorded, RunState, Remembered
    <2>3. known' \subseteq Remembered /\ age' \in [Remembered -> Age]
      BY <1>5, <2>2 DEF Commit, Age
    <2>4. tracker' \in [Tracker -> TrackerState]
      BY <1>5 DEF Commit, TrackerState
    <2>5. outbox' \in [Tracker -> SUBSET Ad]
      BY <1>5, DraftedType DEF Commit
    <2>6. seen' \in [Tracker -> SUBSET Ad]
      BY <1>5 DEF Commit, RunState
    <2> QED  BY <1>5, <2>1, <2>3, <2>4, <2>5, <2>6 DEF Commit
  <1>6. CASE GroupFails
    BY <1>6 DEF GroupFails, IdleRun, RunState
  <1>7. ASSUME NEW t \in Tracker, Send(t) \/ SendForbidden(t)  PROVE TypeOK'
    BY <1>7 DEF Send, SendForbidden, TrackerState
  <1>8. CASE RunEnds
    BY <1>8 DEF RunEnds, IdleRun, RunState
  <1>9. CASE Crash
    BY <1>9 DEF Crash, IdleRun, RunState, EmptyOutbox, IdleCleanup, CleanupState
  <1>10. CASE CleanupNext
    <2>1. CASE CleanupReads
      <3>1. (Active # {}) \in BOOLEAN
        OBVIOUS
      <3>2. cleanup' \in CleanupState
        BY <2>1, <3>1, Zenon DEF CleanupReads, CleanupState
      <3> QED  BY <2>1, <3>2 DEF CleanupReads
    <2>2. CASE CleanupDeletes
      <3>1. known' \subseteq known
        BY <2>2 DEF CleanupDeletes
      <3> QED  BY <2>2, <3>1 DEF CleanupDeletes, IdleCleanup, CleanupState
    <2>3. CASE CleanupFails
      BY <2>3 DEF CleanupFails, IdleCleanup, CleanupState
    <2> QED  BY <1>10, <2>1, <2>2, <2>3 DEF CleanupNext
  <1>11. ASSUME NEW t \in Tracker, Activate(t) \/ Deactivate(t)  PROVE TypeOK'
    BY <1>11 DEF Activate, Deactivate, TrackerState
  <1>12. CASE MonthsPass
    BY <1>12 DEF MonthsPass, Age, TrackedAge, UntrackedAge, Never
  <1>13. CASE UNCHANGED vars
    BY <1>13 DEF vars
  <1> QED
    BY <1>1, <1>2, <1>3, <1>4, <1>5, <1>6, <1>7, <1>8, <1>9, <1>10, <1>11, <1>12, <1>13
    DEF Next, RunNext, CleanupNext, Environment

\* The jobs' local variables, the tables and the histories stay in their
\* domains, for any trackers and listings.
THEOREM TypeCorrect == Spec => []TypeOK
  <1>1. Init => TypeOK
    BY InvInit DEF IInv
  <1> QED  BY <1>1, TypeStep, PTL DEF Spec

-----------------------------------------------------------------------------
(* Preservation. *)

\* A run that begins, goes on or ends, and touches no row and no tracker.
RowsStay == UNCHANGED <<known, age, tracker, seen>>

\* Where no row and no tracker changes, what depends on them alone stays.
LEMMA RowsStayKeep ==
  ASSUME IInv, RowsStay
  PROVE  /\ RowsKept'
         /\ Checked' = Checked /\ Active' = Active
         /\ Met' = Met /\ Forgotten' = Forgotten
  BY DEF IInv, RowsStay, RowsKept, Checked, Active, Met, Forgotten

\* The first two conjuncts of SeenIsKnown do not look at the run.
LEMMA SeenStays ==
  ASSUME IInv, RowsStay, UNCHANGED cleanup,
         run'.step = "selected" =>
            \A t \in run'.alert : \A a \in (seen[t] \cap run'.sample) \ run'.loaded :
                age[a] = TrackedAge
  PROVE  SeenIsKnown'
  BY RowsStayKeep DEF IInv, RowsStay, SeenIsKnown

\* The run's own steps before its commit.
LEMMA RunReads ==
  ASSUME IInv,
         \/ LoadGroups
         \/ ReadBaseline
         \/ \E sample, silent \in SUBSET Ad : Fetch(sample, silent)
         \/ SelectTrackers
         \/ GroupFails
         \/ RunEnds
  PROVE  RowsKept' /\ KeyWasMet' /\ RunCovers' /\ SeenIsKnown'
  <1> USE DEF IInv
  <1>1. RowsStay /\ UNCHANGED cleanup
    BY DEF RowsStay, LoadGroups, ReadBaseline, Fetch, SelectTrackers, GroupFails,
       RunEnds
  <1>2. RowsKept' /\ Checked' = Checked /\ Active' = Active /\ Met' = Met
        /\ Forgotten' = Forgotten
    BY <1>1, RowsStayKeep
  <1>3. run \in RunState
    BY DEF TypeOK
  <1>4. CASE LoadGroups
    <2>1. run'.step = "loaded" /\ run'.group = Active
      BY <1>4 DEF LoadGroups, IdleRun
    <2>2. Checked \subseteq Active
      BY DEF Checked, Active
    <2> QED  BY <1>1, <1>2, <2>1, <2>2, SeenStays DEF KeyWasMet, RunCovers, Looking
  <1>5. CASE ReadBaseline
    <2>1. /\ run.step = "loaded" /\ run'.step = "opened" /\ run'.group = run.group
          /\ run'.baseline <=> known = {}
      BY <1>3, <1>5 DEF ReadBaseline, RunState
    <2>2. known # {} => Met
      BY DEF RowsKept, Met, TypeOK
    <2>3. Checked # {} /\ known = {} => Forgotten
      <3>1. ASSUME known = {}, NEW a \in Remembered  PROVE age[a] >= UntrackedAge
        BY <3>1 DEF RowsKept, TypeOK, Age, UntrackedAge, TrackedAge, Never
      <3> QED  BY <3>1 DEF KeyWasMet, Met, Forgotten
    <2>4. KeyWasMet'
      BY <1>2, <2>1, <2>2 DEF KeyWasMet
    <2>5. RunCovers'
      BY <1>2, <2>1, <2>3 DEF RunCovers, Looking
    <2> QED  BY <1>1, <1>2, <2>1, <2>4, <2>5, SeenStays
  <1>6. ASSUME NEW sample \in SUBSET Ad, NEW silent \in SUBSET Ad, Fetch(sample, silent)
        PROVE  KeyWasMet' /\ RunCovers' /\ SeenIsKnown'
    <2>1. /\ run.step = "opened" /\ run'.step = "fetched" /\ run'.group = run.group
          /\ run'.baseline = run.baseline
      BY <1>3, <1>6 DEF Fetch, RunState
    <2> QED  BY <1>1, <1>2, <2>1, SeenStays DEF KeyWasMet, RunCovers, Looking
  <1>7. CASE SelectTrackers
    <2>1. CASE run'.step = "selected"
      <3>1. /\ run.step = "fetched" /\ run'.group = run.group
            /\ run'.baseline = run.baseline /\ run'.alert = run.group \cap Active \cap Checked
            /\ run'.sample = run.sample /\ run'.loaded = run.sample \cap known
        BY <1>3, <1>7, <2>1 DEF SelectTrackers, IdleRun, RunState
      <3>2. Checked \subseteq run'.alert
        BY <3>1 DEF RunCovers, Looking, Checked, Active
      <3>3. ASSUME NEW t \in run'.alert, NEW a \in (seen[t] \cap run'.sample) \ run'.loaded
            PROVE  age[a] = TrackedAge
        BY <3>1 DEF SeenIsKnown
      <3> QED
        BY <1>1, <1>2, <2>1, <3>1, <3>2, <3>3, SeenStays
           DEF KeyWasMet, RunCovers, Looking
    <2>2. CASE run' = IdleRun
      <3>1. run'.step = "idle"
        BY <2>2 DEF IdleRun
      <3> QED  BY <1>1, <1>2, <3>1, SeenStays DEF KeyWasMet, RunCovers, Looking
    <2> QED  BY <1>3, <1>7, <2>1, <2>2 DEF SelectTrackers, RunState
  <1>8. CASE GroupFails \/ RunEnds
    <2>1. run'.step = "idle"
      BY <1>8 DEF GroupFails, RunEnds, IdleRun
    <2> QED  BY <1>1, <1>2, <2>1, SeenStays DEF KeyWasMet, RunCovers, Looking
  <1> QED  BY <1>2, <1>4, <1>5, <1>6, <1>7, <1>8

\* What is recorded is never nothing for a key that had no row.
LEMMA RecordedFacts ==
  ASSUME TypeOK
  PROVE  /\ Recorded \subseteq Remembered
         /\ run.sample \subseteq Recorded
         /\ run.baseline => Recorded # {}
         /\ Recorded \cap Ad \subseteq run.sample
  BY MarkerAssumption DEF TypeOK, RunState, Remembered, Recorded

\* The commit of a run keeps the invariant: it records all it has fetched.
LEMMA CommitKeeps ==
  ASSUME IInv, Commit
  PROVE  RowsKept' /\ KeyWasMet' /\ RunCovers' /\ SeenIsKnown'
  <1> USE DEF IInv
  <1>1. run \in RunState /\ known \subseteq Remembered /\ age \in [Remembered -> Age]
        /\ seen \in [Tracker -> SUBSET Ad] /\ tracker \in [Tracker -> TrackerState]
    BY DEF TypeOK
  <1>2. run'.step = "sending" /\ run.step = "selected"
    BY DEF Commit, IdleRun
  <1>3. \A a \in Remembered : age'[a] = IF a \in Recorded THEN 0 ELSE age[a]
    BY DEF Commit
  <1>4. known' = known \cup Recorded /\ Recorded \subseteq Remembered
    BY RecordedFacts DEF Commit
  <1>5. RowsKept'
    BY <1>1, <1>3, <1>4 DEF RowsKept, Never
  <1>6. KeyWasMet'
    <2>1. Met'
      <3>1. CASE run.baseline
        BY <1>3, <3>1, RecordedFacts DEF Met, Never
      <3>2. CASE ~run.baseline
        BY <1>2, <1>3, <3>2 DEF KeyWasMet, Looking, Met, Never
      <3> QED  BY <3>1, <3>2
    <2> QED  BY <2>1 DEF KeyWasMet
  <1>7. RunCovers'
    BY <1>2 DEF RunCovers, Looking
  <1>8. Active' = Active
    BY <1>1 DEF Commit, Active
  <1>9. \A t \in Tracker : seen'[t] \subseteq seen[t] \cup run.sample
    BY <1>1 DEF Commit
  <1>10. ASSUME NEW t \in Active, NEW a \in seen'[t]
         PROVE  a \in known' \/ age'[a] = TrackedAge
    <2>1. CASE a \in Recorded
      BY <1>4, <2>1
    <2>2. CASE a \notin Recorded
      <3>1. a \in seen[t] /\ a \in Remembered
        BY <1>1, <1>9, <2>2, RecordedFacts DEF Active, Remembered
      <3> QED  BY <1>3, <1>4, <2>2, <3>1 DEF SeenIsKnown
    <2> QED  BY <2>1, <2>2
  <1>11. ASSUME cleanup.step = "deleting", ~cleanup.tracked, NEW t \in Active, NEW a \in seen'[t]
         PROVE  age'[a] = 0
    <2>1. CASE a \in Recorded
      BY <1>3, <1>4, <2>1
    <2>2. CASE a \notin Recorded
      <3>1. a \in seen[t] /\ a \in Remembered
        BY <1>1, <1>9, <2>2, RecordedFacts DEF Active, Remembered
      <3> QED  BY <1>3, <1>11, <2>2, <3>1 DEF SeenIsKnown
    <2> QED  BY <2>1, <2>2
  <1>12. SeenIsKnown'
    BY <1>2, <1>8, <1>10, <1>11 DEF SeenIsKnown, Commit
  <1> QED  BY <1>5, <1>6, <1>7, <1>12

\* Fewer trackers are checked, and none is added whose checks met anything.
LEMMA TrackersLeave ==
  ASSUME IInv, UNCHANGED <<known, age, cleanup>>,
         Checked' \subseteq Checked,
         \/ run' = run
         \/ run'.step \in {"idle", "sending"},
         \A t \in Active' : (t \in Active /\ seen'[t] = seen[t]) \/ seen'[t] = {},
         \A t \in Tracker : seen'[t] \subseteq seen[t]
  PROVE  RowsKept' /\ KeyWasMet' /\ RunCovers' /\ SeenIsKnown'
  <1> USE DEF IInv
  <1>1. RowsKept' /\ Met' = Met /\ Forgotten' = Forgotten
    BY DEF RowsKept, Met, Forgotten
  <1>2. KeyWasMet'
    BY <1>1 DEF KeyWasMet, Looking
  <1>3. RunCovers'
    BY <1>1 DEF RunCovers, Looking
  <1>4. run.alert \subseteq Tracker
    BY DEF TypeOK, RunState
  <1>5. SeenIsKnown'
    BY <1>4 DEF SeenIsKnown
  <1> QED  BY <1>1, <1>2, <1>3, <1>5

\* The cleanup keeps the invariant: it deletes only what nobody met lately.
LEMMA CleanupKeeps ==
  ASSUME IInv, CleanupNext
  PROVE  RowsKept' /\ KeyWasMet' /\ RunCovers' /\ SeenIsKnown'
  <1> USE DEF IInv
  <1>1. UNCHANGED <<age, tracker, run, seen>>
    BY DEF CleanupNext, CleanupReads, CleanupDeletes, CleanupFails
  <1>2. Checked' = Checked /\ Active' = Active /\ Met' = Met /\ Forgotten' = Forgotten
    BY <1>1 DEF Checked, Active, Met, Forgotten
  <1>3. KeyWasMet' /\ RunCovers'
    BY <1>1, <1>2 DEF KeyWasMet, RunCovers
  <1>4. CASE CleanupReads
    <2>1. UNCHANGED known
      BY <1>4 DEF CleanupReads
    <2>2. cleanup'.tracked = (Active # {})
      BY <1>4, Zenon DEF CleanupReads
    <2>3. ~cleanup'.tracked => Active = {}
      BY <2>2, Zenon
    <2>4. RowsKept'
      BY <1>1, <2>1 DEF RowsKept
    <2>5. SeenIsKnown'
      BY <1>1, <1>2, <2>1, <2>3 DEF SeenIsKnown
    <2> QED  BY <1>3, <2>4, <2>5
  <1>5. CASE CleanupDeletes
    <2> DEFINE cutoff == IF cleanup.tracked THEN TrackedAge ELSE UntrackedAge
    <2>1. /\ cleanup.step = "deleting" /\ cleanup'.step = "idle"
          /\ \A a : a \in known' <=> a \in known /\ age[a] < cutoff
      BY <1>5 DEF CleanupDeletes, IdleCleanup
    <2>2. RowsKept'
      BY <1>1, <2>1 DEF RowsKept, UntrackedAge, TrackedAge
    <2>3. ASSUME NEW t \in Active, NEW a \in seen[t]
          PROVE  a \in known' \/ age[a] = TrackedAge
      <3>1. a \in known \/ age[a] = TrackedAge
        BY DEF SeenIsKnown
      <3>2. a \in known => age[a] \in {0, UntrackedAge, TrackedAge}
        BY DEF RowsKept, TypeOK, Age
      <3>3. ~cleanup.tracked => age[a] = 0
        BY <2>1 DEF SeenIsKnown
      <3> QED  BY <2>1, <3>1, <3>2, <3>3 DEF UntrackedAge, TrackedAge
    <2>4. SeenIsKnown'
      BY <1>1, <1>2, <2>1, <2>3 DEF SeenIsKnown
    <2> QED  BY <1>3, <2>2, <2>4
  <1>6. CASE CleanupFails
    <2>1. UNCHANGED known /\ cleanup'.step = "idle"
      BY <1>6 DEF CleanupFails, IdleCleanup
    <2> QED  BY <1>1, <1>2, <1>3, <2>1 DEF RowsKept, SeenIsKnown
  <1> QED  BY <1>4, <1>5, <1>6 DEF CleanupNext

\* Time keeps the invariant: rows only grow older.
LEMMA MonthsKeep ==
  ASSUME IInv, MonthsPass
  PROVE  RowsKept' /\ KeyWasMet' /\ RunCovers' /\ SeenIsKnown'
  <1> USE DEF IInv, UntrackedAge, TrackedAge, Never
  <1>1. /\ UNCHANGED <<known, tracker, run, seen, cleanup>>
        /\ run.step = "idle" /\ cleanup.step = "idle"
    BY DEF MonthsPass, IdleRun, IdleCleanup
  <1>2. ASSUME NEW a \in Remembered
        PROVE  /\ age[a] \in Age
               /\ age'[a] = IF age[a] < TrackedAge THEN age[a] + 1 ELSE age[a]
    BY DEF MonthsPass, TypeOK
  <1>3. RowsKept'
    BY <1>1, <1>2 DEF RowsKept, TypeOK, Age
  <1>4. Checked' = Checked /\ Active' = Active
    BY <1>1 DEF Checked, Active
  <1>5. Met => Met'
    BY <1>2 DEF Met, Age
  <1>6. KeyWasMet' /\ RunCovers'
    BY <1>1, <1>4, <1>5 DEF KeyWasMet, RunCovers, Looking
  <1>7. ASSUME NEW t \in Active, NEW a \in seen[t]
        PROVE  a \in known \/ age'[a] = TrackedAge
    <2>1. a \in Remembered
      BY DEF TypeOK, Active, Remembered
    <2> QED  BY <1>2, <2>1 DEF SeenIsKnown
  <1>8. SeenIsKnown'
    BY <1>1, <1>4, <1>7 DEF SeenIsKnown
  <1> QED  BY <1>3, <1>6, <1>8

\* Every step of the two jobs and of their environment keeps the invariant.
LEMMA InvStep == IInv /\ [Next]_vars => IInv'
  <1> SUFFICES ASSUME IInv, [Next]_vars PROVE IInv'
    OBVIOUS
  <1>1. TypeOK' /\ TypeOK
    BY TypeStep DEF IInv
  <1> DEFINE Goal == RowsKept' /\ KeyWasMet' /\ RunCovers' /\ SeenIsKnown'
  <1>2. ASSUME NEW t \in Tracker, Send(t) \/ SendForbidden(t) \/ Activate(t) \/ Deactivate(t)
        PROVE  Goal
    <2>1. UNCHANGED <<known, age, cleanup, run>>
      BY <1>2 DEF Send, SendForbidden, Activate, Deactivate
    <2>2. CASE Send(t)
      <3>1. UNCHANGED <<tracker, seen>>
        BY <2>2 DEF Send
      <3>2. Checked' = Checked /\ Active' = Active
        BY <3>1 DEF Checked, Active
      <3> QED  BY <2>1, <3>1, <3>2, TrackersLeave
    <2>3. CASE SendForbidden(t) \/ Deactivate(t)
      <3>1. tracker' = [tracker EXCEPT ![t] = "inactive"] /\ seen' = seen
        BY <2>3 DEF SendForbidden, Deactivate
      <3>2. Checked' \subseteq Checked /\ Active' \subseteq Active
        BY <1>1, <3>1 DEF Checked, Active, TypeOK
      <3>3. \A s \in Tracker : seen'[s] \subseteq seen[s]
        BY <3>1
      <3>4. \A s \in Active' : s \in Active /\ seen'[s] = seen[s]
        BY <3>1, <3>2
      <3> QED  BY <2>1, <3>2, <3>3, <3>4, TrackersLeave
    <2>4. CASE Activate(t)
      <3>1. /\ tracker' = [tracker EXCEPT ![t] = "fresh"]
            /\ seen' = [seen EXCEPT ![t] = {}]
        BY <2>4 DEF Activate
      <3>2. Checked' \subseteq Checked /\ Active' \subseteq Active \cup {t}
        BY <1>1, <3>1 DEF Checked, Active, TypeOK
      <3>3. \A s \in Tracker : seen'[s] = IF s = t THEN {} ELSE seen[s]
        BY <1>1, <3>1 DEF TypeOK
      <3>4. \A s \in Active' : (s \in Active /\ seen'[s] = seen[s]) \/ seen'[s] = {}
        BY <3>2, <3>3 DEF Active
      <3> QED  BY <2>1, <3>2, <3>3, <3>4, TrackersLeave
    <2> QED  BY <1>2, <2>2, <2>3, <2>4
  <1>3. ASSUME Crash  PROVE Goal
    <2>1. UNCHANGED <<known, age, tracker, seen>> /\ run'.step = "idle" /\ cleanup'.step = "idle"
      BY <1>3 DEF Crash, IdleRun, IdleCleanup
    <2>2. RowsStay
      BY <2>1 DEF RowsStay
    <2>3. RowsKept' /\ Checked' = Checked /\ Active' = Active /\ Met' = Met
      BY <2>2, RowsStayKeep
    <2> QED  BY <2>1, <2>3 DEF IInv, KeyWasMet, RunCovers, SeenIsKnown, Looking
  <1>4. ASSUME UNCHANGED vars  PROVE Goal
    <2>1. UNCHANGED <<known, age, cleanup, run, tracker, seen>>
      BY <1>4 DEF vars
    <2>2. Checked' = Checked /\ Active' = Active
      BY <2>1 DEF Checked, Active
    <2> QED  BY <2>1, <2>2, TrackersLeave
  <1>5. Goal
    BY <1>2, <1>3, <1>4, RunReads, CommitKeeps, CleanupKeeps, MonthsKeep
    DEF Next, RunNext, Environment
  <1> QED  BY <1>1, <1>5 DEF IInv

\* The inductive invariant of the collector holds in every reachable state.
THEOREM Invariance == Spec => []IInv
  BY InvInit, InvStep, PTL DEF Spec

-----------------------------------------------------------------------------
(* The properties. *)

\* A key that a tracker was checked for counts as initialised until everything
\* it remembered was out of sight for months.
THEOREM KeyInitialised == Spec => []CheckedKeyIsInitialised
  <1>1. ASSUME IInv, Checked # {}, known = {}  PROVE Forgotten
    <2>1. ASSUME NEW a \in Remembered  PROVE age[a] >= UntrackedAge
      BY <1>1 DEF IInv, RowsKept, TypeOK, Age, UntrackedAge, TrackedAge, Never
    <2> QED  BY <1>1, <2>1 DEF IInv, KeyWasMet, Met, Forgotten
  <1>2. IInv => CheckedKeyIsInitialised
    BY <1>1 DEF CheckedKeyIsInitialised
  <1> QED  BY <1>2, Invariance, PTL

\* Alerts are drafted by a commit and by nothing else.
LEMMA OnlyCommitDrafts ==
  ASSUME TypeOK, [Next]_vars, NEW t \in Tracker, outbox'[t] # {}, outbox'[t] # outbox[t]
  PROVE  Commit
  <1>1. CASE Crash
    BY <1>1 DEF Crash, EmptyOutbox
  <1>2. ASSUME NEW s \in Tracker, Send(s) \/ SendForbidden(s)  PROVE FALSE
    BY <1>2 DEF Send, SendForbidden, TypeOK
  <1>3. CASE UNCHANGED outbox
    BY <1>3
  <1> QED
    BY <1>1, <1>2, <1>3
    DEF vars, Next, RunNext, CleanupNext, Environment, LoadGroups, ReadBaseline, Fetch,
        SelectTrackers, GroupFails, RunEnds, CleanupReads, CleanupDeletes, CleanupFails,
        Activate, Deactivate, MonthsPass

\* No check alerts a tracker about a listing as new that an earlier check since
\* its activation has met, unless the listing was out of sight for a year.
THEOREM NeverToldTwice == Spec => ToldOnce
  <1> DEFINE Told == \A t \in Tracker : outbox'[t] # {} /\ outbox'[t] # outbox[t] =>
                         \A a \in outbox'[t] \cap seen[t] : age[a] = TrackedAge
  <1>1. ASSUME IInv, [Next]_vars  PROVE Told
    <2> SUFFICES ASSUME NEW t \in Tracker, outbox'[t] # {}, outbox'[t] # outbox[t],
                        NEW a \in outbox'[t] \cap seen[t]
                 PROVE  age[a] = TrackedAge
      OBVIOUS
    <2>1. Commit
      BY <1>1, OnlyCommitDrafts DEF IInv
    <2>2. a \in Drafted(t) /\ run.step = "selected"
      BY <2>1 DEF Commit
    <2>3. t \in run.alert /\ a \in run.sample /\ a \notin run.loaded
      BY <2>2 DEF Drafted, NewListings
    <2> QED  BY <1>1, <2>2, <2>3 DEF IInv, SeenIsKnown
  <1>2. IInv /\ [Next]_vars => [Told]_vars
    BY <1>1
  <1> QED  BY <1>2, Invariance, PTL DEF Spec, ToldOnce

\* Rows of listings are inserted by a commit and by nothing else.
LEMMA OnlyCommitRecords ==
  ASSUME [Next]_vars, NEW a \in known' \ known
  PROVE  Commit
  <1>1. CASE CleanupDeletes
    BY <1>1 DEF CleanupDeletes
  <1>2. CASE UNCHANGED known
    BY <1>2
  <1> QED
    BY <1>1, <1>2
    DEF vars, Next, RunNext, CleanupNext, Environment, LoadGroups, ReadBaseline, Fetch,
        SelectTrackers, GroupFails, Send, SendForbidden, RunEnds, Crash, CleanupReads,
        CleanupFails, Activate, Deactivate, MonthsPass

\* The check that records a listing alerts every active tracker of the key that
\* was checked before, so none is left with a listing recorded behind its back.
THEOREM NobodyMisses == Spec => CheckedTrackersHear
  <1> DEFINE Hear == \A t \in Checked, a \in Ad \cap (known' \ known) :
                         a \in Wanted[t] \ run.silent /\ ~Forgotten => a \in outbox'[t]
  <1>1. ASSUME IInv, [Next]_vars  PROVE Hear
    <2> SUFFICES ASSUME NEW t \in Checked, NEW a \in Ad \cap (known' \ known),
                        a \in Wanted[t] \ run.silent, ~Forgotten
                 PROVE  a \in outbox'[t]
      OBVIOUS
    <2>1. Commit
      BY <1>1, OnlyCommitRecords
    <2>2. /\ run.step = "selected" /\ run.loaded \subseteq known
          /\ known' = known \cup Recorded
          /\ outbox' = [s \in Tracker |-> Drafted(s)]
      BY <2>1 DEF Commit
    <2>3. a \in NewListings
      BY <1>1, <2>2, RecordedFacts DEF IInv, NewListings
    <2>4. t \in run.alert /\ ~run.baseline
      BY <1>1, <2>2 DEF IInv, RunCovers, Looking
    <2>5. t \in Tracker
      BY DEF Checked
    <2> QED  BY <2>2, <2>3, <2>4, <2>5 DEF Drafted
  <1>2. IInv /\ [Next]_vars => [Hear]_vars
    BY <1>1
  <1> QED  BY <1>2, Invariance, PTL DEF Spec, CheckedTrackersHear

-----------------------------------------------------------------------------
(* The sender of the alerts. *)

\* The alert under way: its user was not refused in this run, and the number of
\* its attempts was fixed by the failures before it.
AttemptInv ==
    /\ attempt <= limit
    /\ limit = 0 <=> attempt = 0
    /\ attempt > 0 => /\ alerts # <<>>
                      /\ Head(alerts) \notin blocked
                      /\ limit = AttemptsAllowed

\* Each alert lost and each alert waiting is one the run has drafted.
LostInv == failures + Len(alerts) <= drafted

Lost == IF failures < MaxFailures THEN failures ELSE MaxFailures
Slept == IF attempt = 0 THEN 0 ELSE attempt - 1

\* A lost alert has slept through all of its retries at most, and alerts that get
\* one attempt do not sleep.
WaitInv == waits <= Lost * (MaxSendAttempts - 1) + Slept

\* Who was refused is remembered, once.
RefusedInv == \A u \in User : refusals[u] = (IF u \in blocked THEN 1 ELSE 0)

\* The sender counts the losses in a row before the alert that is next.
FatesInv == failures = Cardinality(LossesBefore(Len(fates) + 1)) /\ CircuitOpensLate

SenderInv == SenderTypeOK /\ AttemptInv /\ LostInv /\ WaitInv /\ RefusedInv /\ FatesInv

USE MaxSendAttemptsAssumption, MaxFailuresAssumption, MaxAlertAssumption

-----------------------------------------------------------------------------

\* A run without alerts has lost none.
LEMMA NothingLost ==
  ASSUME fates = <<>>, failures = 0
  PROVE  FatesInv
  <1>1. LossesBefore(Len(fates) + 1) = {}
    BY DEF LossesBefore
  <1>2. CircuitOpensLate
    BY DEF CircuitOpensLate
  <1> QED  BY <1>1, <1>2, FS_EmptySet DEF FatesInv

\* A scheduler that has sent nothing satisfies the invariant.
LEMMA SenderInvInit == SenderInit => SenderInv
  <1> SUFFICES ASSUME SenderInit PROVE SenderInv
    OBVIOUS
  <1>1. FatesInv
    BY NothingLost DEF SenderInit
  <1>2. SenderTypeOK /\ AttemptInv /\ LostInv /\ WaitInv /\ RefusedInv
    BY DEF SenderInit, SenderTypeOK, AttemptInv, LostInv, WaitInv, RefusedInv,
       NoRefusals, Lost, Slept
  <1> QED  BY <1>1, <1>2 DEF SenderInv

\* What is left of a queue once its head is taken off.
LEMMA TailFacts ==
  ASSUME NEW s \in Seq(User), s # <<>>
  PROVE  /\ Head(s) \in User
         /\ Tail(s) \in Seq(User)
         /\ Len(Tail(s)) = Len(s) - 1
         /\ Len(s) \in Nat \ {0}
  OBVIOUS

\* Every answer of Telegram keeps the counters in their domains.
LEMMA SenderTypeStep == SenderInv /\ [SenderNext]_senderVars => SenderTypeOK'
  <1> SUFFICES ASSUME SenderInv, [SenderNext]_senderVars PROVE SenderTypeOK'
    OBVIOUS
  <1> USE DEF SenderTypeOK, SenderInv
  <1>1. ASSUME NEW fate \in Fate, alerts # <<>>, Done(fate)
        PROVE  /\ alerts' \in Seq(User) /\ attempt' \in 0 .. MaxSendAttempts
               /\ limit' \in {0, 1, MaxSendAttempts} /\ drafted' = drafted
               /\ failures + 1 \in 0 .. drafted
               /\ fates' \in Seq([fate: Fate, tries: 0 .. MaxSendAttempts])
    BY <1>1, TailFacts DEF Done, LostInv
  <1>2. CASE SkipBlocked
    BY <1>1, <1>2 DEF SkipBlocked, Fate
  <1>3. CASE StartSending
    BY <1>3 DEF StartSending, AttemptsAllowed
  <1>4. CASE Delivered \/ DropRejected
    BY <1>1, <1>4 DEF Delivered, DropRejected, AttemptInv, Fate
  <1>5. CASE Retry
    BY <1>5 DEF Retry, AttemptInv
  <1>6. ASSUME NEW long \in BOOLEAN, DropTransient(long)  PROVE SenderTypeOK'
    BY <1>1, <1>6 DEF DropTransient, AttemptInv, Fate
  <1>7. ASSUME NEW paused \in BOOLEAN, Forbidden(paused)  PROVE SenderTypeOK'
    <2>1. alerts # <<>> /\ Head(alerts) \in User /\ Done("refused")
      BY <1>7, TailFacts DEF Forbidden, AttemptInv
    <2>2. blocked' \subseteq User /\ tracked' \subseteq User
      BY <1>7, <2>1 DEF Forbidden
    <2>3. refusals' \in [User -> Nat]
      BY <1>7, <2>1 DEF Forbidden
    <2> QED  BY <1>1, <1>7, <2>1, <2>2, <2>3 DEF Forbidden, Fate
  <1>8. ASSUME NEW n \in 0 .. MaxAlert, NEW users \in [1 .. n -> User], ProcessGroup(users)
        PROVE  SenderTypeOK'
    BY <1>8 DEF ProcessGroup
  <1>9. CASE NextRun
    BY <1>9 DEF NextRun, NoRefusals
  <1>10. ASSUME NEW u \in User, Subscribe(u)  PROVE SenderTypeOK'
    BY <1>10 DEF Subscribe
  <1>11. CASE UNCHANGED senderVars
    BY <1>11 DEF senderVars
  <1> QED
    BY <1>2, <1>3, <1>4, <1>5, <1>6, <1>7, <1>8, <1>9, <1>10, <1>11
       DEF SenderNext, SendNext

\* MaxFailures * (MaxSendAttempts - 1) is a product of naturals; these are the
\* only facts about it that the bound on the sleeps needs.
LEMMA Products ==
  ASSUME NEW k \in Nat, NEW m \in Nat, NEW n \in Nat
  PROVE  /\ k * m \in Nat
         /\ (k + 1) * m = k * m + m
         /\ k <= n => k * m <= n * m
         /\ 0 * m = 0
  <1>1. k * m \in Nat /\ (k + 1) * m = k * m + m /\ 0 * m = 0
    OBVIOUS
  <1>2. ASSUME k <= n  PROVE k * m <= n * m
    <2>1. n - k \in Nat /\ (n - k) * m \in Nat /\ n * m = k * m + (n - k) * m
      BY <1>2
    <2> QED  BY <2>1, <1>1
  <1> QED  BY <1>1, <1>2

\* A further alert leaves the losses before the earlier ones as they are.
LEMMA FatesGrow ==
  ASSUME SenderTypeOK, NEW fate \in Fate, Done(fate)
  PROVE  /\ fates \in Seq([fate: Fate, tries: 0 .. MaxSendAttempts])
         /\ Len(fates') = Len(fates) + 1 /\ Len(fates) \in Nat
         /\ fates'[Len(fates) + 1] = [fate |-> fate, tries |-> attempt]
         /\ \A i \in 1 .. Len(fates) : fates'[i] = fates[i]
         /\ \A i \in 1 .. Len(fates) + 1 : LossesBefore(i)' = LossesBefore(i)
  <1>1. /\ fates \in Seq([fate: Fate, tries: 0 .. MaxSendAttempts])
        /\ Len(fates') = Len(fates) + 1 /\ Len(fates) \in Nat
        /\ fates'[Len(fates) + 1] = [fate |-> fate, tries |-> attempt]
        /\ \A i \in 1 .. Len(fates) : fates'[i] = fates[i]
    BY DEF SenderTypeOK, Done
  <1>2. ASSUME NEW i \in 1 .. Len(fates) + 1  PROVE LossesBefore(i)' = LossesBefore(i)
    <2>1. \A j \in 1 .. i - 1 : fates'[j] = fates[j]
      BY <1>1
    <2>2. \A j \in 1 .. i - 1 : \A k \in j .. i - 1 : fates'[k] = fates[k]
      BY <2>1
    <2> QED  BY <2>1, <2>2 DEF LossesBefore
  <1> QED  BY <1>1, <1>2

\* How many losses in a row there are once a further alert is over.
LEMMA LossesAfter ==
  ASSUME SenderTypeOK, NEW fate \in Fate, Done(fate), NEW n, n = Len(fates) + 1
  PROVE  LossesBefore(n + 1)' =
             IF fate = "delivered" THEN {}
             ELSE LossesBefore(n) \cup (IF fate \in {"lost", "flooded"} THEN {n} ELSE {})
  <1>1. /\ n \in Nat \ {0} /\ fates'[n] = [fate |-> fate, tries |-> attempt]
        /\ \A i \in 1 .. n - 1 : fates'[i] = fates[i]
    BY FatesGrow
  <1>2. LossesBefore(n + 1)' =
            {j \in 1 .. n : /\ fates'[j].fate \in {"lost", "flooded"}
                            /\ \A k \in j .. n : fates'[k].fate # "delivered"}
    BY <1>1 DEF LossesBefore
  <1>3. LossesBefore(n) =
            {j \in 1 .. n - 1 : /\ fates[j].fate \in {"lost", "flooded"}
                                /\ \A k \in j .. n - 1 : fates[k].fate # "delivered"}
    BY DEF LossesBefore
  <1>4. fates'[n].fate = fate
    BY <1>1
  <1>5. CASE fate = "delivered"
    BY <1>1, <1>2, <1>4, <1>5
  <1>6. CASE fate # "delivered"
    <2>1. ASSUME NEW j \in 1 .. n - 1
          PROVE  (\A k \in j .. n : fates'[k].fate # "delivered")
                     <=> (\A k \in j .. n - 1 : fates[k].fate # "delivered")
      BY <1>1, <1>4, <1>6
    <2>2. \A j \in 1 .. n : j \in 1 .. n - 1 \/ j = n
      BY <1>1
    <2>3. \A k \in n .. n : fates'[k].fate # "delivered"
      BY <1>1, <1>4, <1>6
    <2>4. ASSUME NEW j \in 1 .. n - 1
          PROVE  j \in LossesBefore(n + 1)' <=> j \in LossesBefore(n)
      <3>1. j \in 1 .. n /\ fates'[j] = fates[j]
        BY <1>1
      <3> QED  BY <1>2, <1>3, <2>1, <3>1
    <2>5. n \in LossesBefore(n + 1)' <=> fate \in {"lost", "flooded"}
      <3>1. n \in 1 .. n
        BY <1>1
      <3> QED  BY <1>2, <1>4, <2>3, <3>1
    <2>6. LossesBefore(n + 1)' \subseteq 1 .. n /\ LossesBefore(n) \subseteq 1 .. n - 1
      BY <1>2, <1>3
    <2>7. n \notin 1 .. n - 1
      BY <1>1
    <2> QED  BY <1>6, <2>2, <2>4, <2>5, <2>6, <2>7
  <1> QED  BY <1>5, <1>6

\* What an alert that is over must have been for the histories to agree.
Fits(fate) ==
    /\ failures' = IF fate = "delivered" THEN 0
                   ELSE IF fate \in {"lost", "flooded"} THEN failures + 1 ELSE failures
    /\ attempt <= AttemptsAllowed
    /\ fate = "lost" => attempt = AttemptsAllowed

\* An alert that is over joins the histories with the attempts it was allowed.
LEMMA FatesKept ==
  ASSUME SenderInv, NEW fate \in Fate, Done(fate), Fits(fate)
  PROVE  FatesInv'
  <1>1. /\ SenderTypeOK /\ failures = Cardinality(LossesBefore(Len(fates) + 1))
        /\ CircuitOpensLate /\ failures \in Nat /\ attempt \in Nat
    BY DEF SenderInv, SenderTypeOK, FatesInv
  <1>2. PICK n \in Nat \ {0} : n = Len(fates) + 1
    BY <1>1, FatesGrow
  <1>3. /\ Len(fates') = n /\ DOMAIN fates' = 1 .. n /\ DOMAIN fates = 1 .. n - 1
        /\ fates'[n] = [fate |-> fate, tries |-> attempt]
        /\ \A i \in 1 .. n - 1 : fates'[i] = fates[i]
        /\ \A i \in 1 .. n : LossesBefore(i)' = LossesBefore(i)
    <2>1. fates' \in Seq([fate: Fate, tries: 0 .. MaxSendAttempts])
      BY <1>1 DEF Done, SenderTypeOK
    <2>2. fates \in Seq([fate: Fate, tries: 0 .. MaxSendAttempts])
      BY <1>1 DEF SenderTypeOK
    <2>3. Len(fates') = Len(fates) + 1 /\ Len(fates) \in Nat
      BY <1>1, FatesGrow
    <2>4. /\ fates'[Len(fates) + 1] = [fate |-> fate, tries |-> attempt]
          /\ \A i \in 1 .. Len(fates) : fates'[i] = fates[i]
      BY <1>1, FatesGrow
    <2>5. \A i \in 1 .. Len(fates) + 1 : LossesBefore(i)' = LossesBefore(i)
      BY <1>1, FatesGrow
    <2>6. Len(fates') = n /\ Len(fates) = n - 1
      BY <1>2, <2>3
    <2>7. DOMAIN fates' = 1 .. n /\ DOMAIN fates = 1 .. n - 1
      BY <2>1, <2>2, <2>6
    <2>8. /\ fates'[n] = [fate |-> fate, tries |-> attempt]
          /\ \A i \in 1 .. n - 1 : fates'[i] = fates[i]
      BY <1>2, <2>4, <2>6
    <2>9. \A i \in 1 .. n : LossesBefore(i)' = LossesBefore(i)
      BY <1>2, <2>5
    <2> QED  BY <2>6, <2>7, <2>8, <2>9
  <1>4. IsFiniteSet(LossesBefore(n)) /\ n \notin LossesBefore(n)
    <2>1. LossesBefore(n) \subseteq 1 .. n - 1
      BY DEF LossesBefore
    <2>2. IsFiniteSet(1 .. n - 1)
      BY <1>2, FS_Interval
    <2> QED  BY <1>2, <2>1, <2>2, FS_Subset
  <1>5. failures' = Cardinality(LossesBefore(n + 1)')
    <2>1. CASE fate = "delivered"
      <3>1. LossesBefore(n + 1)' = {}
        BY <1>1, <1>2, <2>1, LossesAfter
      <3> QED  BY <2>1, <3>1, FS_EmptySet DEF Fits
    <2>2. CASE fate \in {"lost", "flooded"}
      <3>1. LossesBefore(n + 1)' = LossesBefore(n) \cup {n}
        BY <1>1, <1>2, <2>2, LossesAfter
      <3>2. Cardinality(LossesBefore(n) \cup {n}) = Cardinality(LossesBefore(n)) + 1
        BY <1>4, FS_AddElement
      <3> QED  BY <1>1, <1>2, <2>2, <3>1, <3>2 DEF Fits
    <2>3. CASE fate \notin {"delivered", "lost", "flooded"}
      <3>1. LossesBefore(n + 1)' = LossesBefore(n) \cup {}
        BY <1>1, <1>2, <2>3, LossesAfter
      <3>2. LossesBefore(n + 1)' = LossesBefore(n)
        BY <3>1
      <3> QED  BY <1>1, <1>2, <2>3, <3>2 DEF Fits
    <2> QED  BY <2>1, <2>2, <2>3
  <1>6. failures' = Cardinality(LossesBefore(Len(fates) + 1))'
    BY <1>3, <1>5
  <1>7. \A i \in 1 .. n : Open(i)' <=> Open(i)
    BY <1>3 DEF Open
  <1>8. Open(n) => AttemptsAllowed = 1
    BY <1>1, <1>2 DEF Open, AttemptsAllowed
  <1>9. ~Open(n) => AttemptsAllowed = MaxSendAttempts
    BY <1>1, <1>2 DEF Open, AttemptsAllowed
  <1>10. ASSUME NEW i \in 1 .. n
         PROVE  /\ fates'[i].fate = "lost" =>
                       fates'[i].tries = IF Open(i)' THEN 1 ELSE MaxSendAttempts
                /\ Open(i)' => fates'[i].tries <= 1
    <2>1. CASE i = n
      BY <1>1, <1>3, <1>7, <1>8, <1>9, <2>1 DEF Fits
    <2>2. CASE i \in 1 .. n - 1
      <3>1. /\ fates[i].fate = "lost" => fates[i].tries = IF Open(i) THEN 1 ELSE MaxSendAttempts
            /\ Open(i) => fates[i].tries <= 1
        BY <1>1, <1>3, <2>2 DEF CircuitOpensLate
      <3> QED  BY <1>3, <1>7, <2>2, <3>1
    <2> QED  BY <1>2, <2>1, <2>2
  <1>11. CircuitOpensLate'
    BY <1>3, <1>10 DEF CircuitOpensLate
  <1> QED  BY <1>6, <1>11 DEF FatesInv

Ends == \E fate \in Fate : Done(fate)

\* An alert is over: it was delivered, refused or dropped, or lost for the moment.
LEMMA DoneKeeps ==
  ASSUME SenderInv, alerts # <<>>, Ends
  PROVE  /\ AttemptInv'
         /\ failures' \in Nat /\ failures' <= failures + 1 => LostInv'
         /\ Slept' = 0
  BY TailFacts DEF SenderInv, SenderTypeOK, Ends, Done, AttemptInv,
     LostInv, Slept

\* A step that forgets no refused user and counts no refusal.
LEMMA RefusalsStay ==
  ASSUME RefusedInv, UNCHANGED <<blocked, refusals>>
  PROVE  RefusedInv'
  BY DEF RefusedInv

\* Every step of the sender and of its environment keeps the count of the losses.
LEMMA FatesStep == SenderInv /\ [SenderNext]_senderVars => FatesInv'
  <1> SUFFICES ASSUME SenderInv, [SenderNext]_senderVars PROVE FatesInv'
    OBVIOUS
  <1>1. /\ attempt \in Nat /\ AttemptsAllowed \in Nat
        /\ attempt <= AttemptsAllowed \/ attempt = 0
        /\ attempt > 0 => limit = AttemptsAllowed /\ attempt <= limit
    BY DEF SenderInv, SenderTypeOK, AttemptInv, AttemptsAllowed
  <1>2. ASSUME UNCHANGED <<fates, failures>>  PROVE FatesInv'
    BY <1>2 DEF SenderInv, FatesInv, LossesBefore, CircuitOpensLate, Open
  <1>3. CASE SkipBlocked
    BY <1>1, <1>3, FatesKept DEF SkipBlocked, Fate, Fits
  <1>4. CASE Delivered
    BY <1>1, <1>4, FatesKept DEF Delivered, Fate, Fits
  <1>5. CASE DropRejected
    BY <1>1, <1>5, FatesKept DEF DropRejected, Fate, Fits
  <1>6. ASSUME NEW long \in BOOLEAN, DropTransient(long)  PROVE FatesInv'
    <2>1. CASE attempt = limit
      BY <1>1, <1>6, <2>1, FatesKept DEF DropTransient, Fate, Fits
    <2>2. CASE attempt # limit
      BY <1>1, <1>6, <2>2, FatesKept DEF DropTransient, Fate, Fits
    <2> QED  BY <2>1, <2>2
  <1>7. ASSUME NEW paused \in BOOLEAN, Forbidden(paused)  PROVE FatesInv'
    BY <1>1, <1>7, FatesKept DEF Forbidden, Fate, Fits
  <1>8. CASE NextRun
    <2>1. fates' = <<>> /\ failures' = 0
      BY <1>8 DEF NextRun
    <2>2. LossesBefore(Len(fates) + 1)' = {}
      BY <2>1 DEF LossesBefore
    <2>3. CircuitOpensLate'
      BY <2>1 DEF CircuitOpensLate
    <2> QED  BY <2>1, <2>2, <2>3, FS_EmptySet DEF FatesInv
  <1>9. CASE \/ StartSending \/ Retry \/ UNCHANGED senderVars
             \/ \E u \in User : Subscribe(u)
             \/ \E n \in 0 .. MaxAlert : \E users \in [1 .. n -> User] : ProcessGroup(users)
    BY <1>2, <1>9 DEF StartSending, Retry, senderVars, Subscribe, ProcessGroup
  <1> QED
    BY <1>3, <1>4, <1>5, <1>6, <1>7, <1>8, <1>9 DEF SenderNext, SendNext

\* Every step of the sender and of its environment keeps the invariant.
LEMMA SenderInvStep == SenderInv /\ [SenderNext]_senderVars => SenderInv'
  <1> SUFFICES ASSUME SenderInv, [SenderNext]_senderVars PROVE SenderInv'
    OBVIOUS
  <1> DEFINE retries == MaxSendAttempts - 1
             Goal == AttemptInv' /\ LostInv' /\ WaitInv' /\ RefusedInv'
  <1>1. SenderTypeOK' /\ SenderTypeOK /\ FatesInv'
    BY SenderTypeStep, FatesStep DEF SenderInv
  <1>2. retries \in Nat /\ failures \in Nat /\ waits \in Nat /\ attempt \in Nat
        /\ Lost \in Nat /\ Slept \in Nat
    BY <1>1 DEF SenderTypeOK, Lost, Slept
  <1>3. Lost * retries \in Nat /\ 0 * retries = 0
    BY <1>2, Products
  <1> HIDE DEF retries
  <1>4. waits <= Lost * retries + Slept
    BY DEF SenderInv, WaitInv, retries
  <1>5. WaitInv' <=> waits' <= Lost' * retries + Slept'
    BY DEF WaitInv, retries
  <1>6. ASSUME SkipBlocked  PROVE Goal
    <2>1. Lost' = Lost /\ Slept = 0 /\ waits' = waits /\ failures' = failures /\ Ends
      BY <1>6 DEF SkipBlocked, Lost, Slept, Ends, Fate
    <2>2. WaitInv'
      BY <1>2, <1>3, <1>4, <1>5, <1>6, <2>1, DoneKeeps DEF SkipBlocked
    <2> QED  BY <1>2, <1>6, <2>1, <2>2, DoneKeeps, RefusalsStay
                DEF SkipBlocked, SenderInv
  <1>7. ASSUME StartSending  PROVE Goal
    <2>1. Lost' = Lost /\ Slept = 0 /\ Slept' = 0 /\ waits' = waits
      BY <1>7 DEF StartSending, Lost, Slept
    <2>2. AttemptInv' /\ LostInv'
      BY <1>7 DEF StartSending, SenderInv, AttemptInv, LostInv,
         AttemptsAllowed
    <2> QED  BY <1>2, <1>3, <1>4, <1>5, <1>7, <2>1, <2>2, RefusalsStay
                DEF StartSending, SenderInv
  <1>8. ASSUME Delivered  PROVE Goal
    <2>1. alerts # <<>> /\ Ends /\ failures' = 0 /\ waits' = 0
      BY <1>8 DEF Delivered, SenderInv, AttemptInv, Ends, Fate
    <2>2. Lost' = 0 /\ Slept' = 0
      BY <2>1, DoneKeeps DEF Lost
    <2> QED
      BY <1>2, <1>3, <1>5, <1>8, <2>1, <2>2, DoneKeeps, RefusalsStay
         DEF Delivered, SenderInv
  <1>9. ASSUME Retry  PROVE Goal
    <2>1. Lost' = Lost /\ Slept' = Slept + 1 /\ waits' = waits + 1
      BY <1>2, <1>9 DEF Retry, Lost, Slept
    <2>2. AttemptInv' /\ LostInv'
      BY <1>1, <1>9 DEF Retry, SenderInv, AttemptInv, LostInv,
         AttemptsAllowed, SenderTypeOK
    <2> QED  BY <1>2, <1>3, <1>4, <1>5, <1>9, <2>1, <2>2, RefusalsStay
                DEF Retry, SenderInv
  <1>10. ASSUME NEW long \in BOOLEAN, DropTransient(long)  PROVE Goal
    <2>1. /\ alerts # <<>> /\ Ends /\ failures' = failures + 1 /\ waits' = waits
          /\ attempt > 0 /\ attempt <= limit /\ limit = AttemptsAllowed
      BY <1>10 DEF DropTransient, SenderInv, AttemptInv, Ends, Fate
    <2>2. Slept' = 0 /\ AttemptInv' /\ LostInv'
      BY <1>2, <2>1, DoneKeeps
    <2>3. WaitInv'
      <3>1. CASE failures < MaxFailures
        <4>1. Lost = failures /\ Lost' = failures + 1 /\ Slept <= retries
          BY <1>2, <2>1, <3>1 DEF Lost, Slept, AttemptsAllowed, retries
        <4>2. Lost' * retries = Lost * retries + retries
          BY <1>2, <4>1, Products
        <4> QED  BY <1>2, <1>3, <1>4, <1>5, <2>1, <2>2, <4>1, <4>2
      <3>2. CASE failures >= MaxFailures
        <4>1. Lost' = Lost /\ Slept = 0
          BY <1>2, <2>1, <3>2 DEF Lost, Slept, AttemptsAllowed
        <4> QED  BY <1>2, <1>3, <1>4, <1>5, <2>1, <2>2, <4>1
      <3> QED  BY <1>2, <3>1, <3>2
    <2> QED  BY <1>10, <2>2, <2>3, RefusalsStay DEF DropTransient, SenderInv
  <1>11. ASSUME DropRejected  PROVE Goal
    <2>1. alerts # <<>> /\ Ends /\ failures' = failures /\ waits' = 0
      BY <1>11 DEF DropRejected, SenderInv, AttemptInv, Ends, Fate
    <2>2. Lost' = Lost /\ Slept' = 0
      BY <2>1, DoneKeeps DEF Lost
    <2> QED
      BY <1>2, <1>3, <1>5, <1>11, <2>1, <2>2, DoneKeeps, RefusalsStay
         DEF DropRejected, SenderInv
  <1>12. ASSUME NEW paused \in BOOLEAN, Forbidden(paused)  PROVE Goal
    <2>1. /\ alerts # <<>> /\ Ends /\ failures' = failures /\ waits' = 0
          /\ Head(alerts) \notin blocked
      BY <1>12 DEF Forbidden, SenderInv, AttemptInv, Ends, Fate
    <2>2. Lost' = Lost /\ Slept' = 0
      BY <2>1, DoneKeeps DEF Lost
    <2>3. RefusedInv'
      <3>1. Head(alerts) \in User /\ refusals \in [User -> Nat]
        BY <1>1, <2>1, TailFacts DEF SenderTypeOK
      <3> QED  BY <1>12, <2>1, <3>1 DEF Forbidden, SenderInv, RefusedInv
    <2> QED  BY <1>2, <1>3, <1>5, <2>1, <2>2, <2>3, DoneKeeps
  <1>13. ASSUME NEW n \in 0 .. MaxAlert, NEW users \in [1 .. n -> User], ProcessGroup(users)
         PROVE  Goal
    <2>1. Lost' = Lost /\ Slept' = Slept /\ waits' = waits /\ attempt = 0
      BY <1>2, <1>13 DEF ProcessGroup, Lost, Slept, SenderInv, AttemptInv
    <2>2. users \in Seq(User) /\ Len(users) = n
      OBVIOUS
    <2>3. AttemptInv' /\ LostInv'
      BY <1>1, <1>13, <2>1, <2>2
         DEF ProcessGroup, SenderInv, AttemptInv, LostInv, SenderTypeOK
    <2> QED  BY <1>4, <1>5, <1>13, <2>1, <2>3, RefusalsStay
                DEF ProcessGroup, SenderInv
  <1>14. ASSUME NextRun  PROVE Goal
    <2>1. Lost' = 0 /\ waits' = 0 /\ Slept' = Slept
      BY <1>14 DEF NextRun, Lost, Slept
    <2>2. RefusedInv'
      BY <1>14 DEF NextRun, RefusedInv, NoRefusals
    <2>3. AttemptInv' /\ LostInv'
      BY <1>1, <1>14 DEF NextRun, SenderInv, AttemptInv, LostInv, SenderTypeOK
    <2> QED  BY <1>2, <1>3, <1>5, <2>1, <2>2, <2>3
  <1>15. ASSUME UNCHANGED <<alerts, drafted, attempt, limit, failures, blocked, waits, refusals>>
         PROVE  Goal
    <2>1. Lost' = Lost /\ Slept' = Slept
      BY <1>15 DEF Lost, Slept
    <2>2. AttemptInv' /\ LostInv'
      BY <1>15 DEF SenderInv, AttemptInv, LostInv, AttemptsAllowed
    <2> QED  BY <1>4, <1>5, <1>15, <2>1, <2>2, RefusalsStay DEF SenderInv
  <1>16. ASSUME (\E u \in User : Subscribe(u)) \/ UNCHANGED senderVars  PROVE Goal
    BY <1>15, <1>16 DEF Subscribe, senderVars
  <1>17. Goal
    BY <1>6, <1>7, <1>8, <1>9, <1>10, <1>11, <1>12, <1>13, <1>14, <1>16
       DEF SenderNext, SendNext
  <1> QED  BY <1>1, <1>17 DEF SenderInv

\* The inductive invariant of the sender holds in every reachable state.
THEOREM SenderInvariance == SenderSpec => []SenderInv
  BY SenderInvInit, SenderInvStep, PTL DEF SenderSpec

-----------------------------------------------------------------------------
(* The properties of the sender. *)

\* The queue, the counters and the histories stay in their domains, for any
\* limits.
THEOREM SenderTypeCorrect == SenderSpec => []SenderTypeOK
  <1>1. SenderInv => SenderTypeOK
    BY DEF SenderInv
  <1> QED  BY <1>1, SenderInvariance, PTL

\* Between two definite answers of Telegram a run sleeps at most MaxFailures
\* times as often as one alert may be retried.
THEOREM Backoff == SenderSpec => []BackoffBounded
  <1>1. ASSUME SenderInv  PROVE BackoffBounded
    <2> DEFINE retries == MaxSendAttempts - 1
    <2>1. /\ retries \in Nat /\ failures \in Nat /\ Lost \in Nat /\ waits \in Nat
          /\ attempt \in Nat /\ waits <= Lost * retries + Slept
      BY <1>1 DEF SenderInv, SenderTypeOK, WaitInv, Lost
    <2> HIDE DEF retries
    <2>2. MaxFailures * retries \in Nat /\ Lost * retries \in Nat
      BY <2>1, Products
    <2>3. CASE failures < MaxFailures
      <3>1. Lost = failures /\ Slept <= retries
        BY <1>1, <2>1, <2>3
           DEF Lost, Slept, SenderInv, AttemptInv, AttemptsAllowed, retries
      <3>2. (failures + 1) * retries = failures * retries + retries
            /\ (failures + 1) * retries <= MaxFailures * retries
        BY <2>1, <2>3, Products
      <3> QED  BY <2>1, <2>2, <3>1, <3>2 DEF BackoffBounded, retries, Slept
    <2>4. CASE failures >= MaxFailures
      <3>1. Lost = MaxFailures /\ Slept = 0
        BY <1>1, <2>1, <2>4
           DEF Lost, Slept, SenderInv, AttemptInv, AttemptsAllowed
      <3> QED  BY <2>1, <2>2, <3>1 DEF BackoffBounded, retries
    <2> QED  BY <2>1, <2>3, <2>4
  <1> QED  BY <1>1, SenderInvariance, PTL

\* A user who blocked the bot is refused one alert per run, whether or not their
\* trackers could be paused.
THEOREM RefusedOnce == SenderSpec => []RefusedOncePerRun
  <1>1. ASSUME SenderInv, NEW u \in User  PROVE refusals[u] <= 1
    <2>1. refusals[u] = 0 \/ refusals[u] = 1
      BY <1>1 DEF SenderInv, RefusedInv
    <2> QED  BY <2>1
  <1>2. SenderInv => RefusedOncePerRun
    BY <1>1 DEF RefusedOncePerRun
  <1> QED  BY <1>2, SenderInvariance, PTL

\* The single attempts of an outage begin with the run's own losses: an alert is lost
\* after fewer attempts than all only behind MaxFailures losses in a row.
THEOREM CircuitOpens == SenderSpec => []CircuitOpensLate
  <1>1. SenderInv => CircuitOpensLate
    BY DEF SenderInv, FatesInv
  <1> QED  BY <1>1, SenderInvariance, PTL

=============================================================================
