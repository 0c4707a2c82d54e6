-------------------------- MODULE TrackerLifecycle --------------------------
(***************************************************************************)
(* The life of a row of the `trackers` table: created and deleted by the   *)
(* user (Mini App API, /track, /untrack), paused by the collector when     *)
(* Telegram says that the user blocked the bot, resumed by /start.         *)
(*                                                                         *)
(* The API, the bot and the collector are three processes that share one   *)
(* Postgres database at READ COMMITTED.  Every SELECT and every COMMIT of  *)
(* a handler is a step of its own, so that the steps of other handlers     *)
(* come between them; a statement followed at once by its commit is one    *)
(* step.  `create` and `/start` write the `users` row first and keep its   *)
(* lock until they commit; a deletion and the collector take no user lock. *)
(***************************************************************************)
EXTENDS Integers, FiniteSets

CONSTANTS
    User,         \* Telegram users
    Identity,     \* what tracker_identity tells apart: the query and filters
    Request,      \* handlers that run at the same time in the API and the bot
    Quota,        \* MAX_ACTIVE_TRACKERS_PER_USER
    MaxTracker,   \* bound: rows ever inserted
    NoRow, NoRequest, NoUser

ASSUME QuotaAssumption == Quota \in Nat
ASSUME MaxTrackerAssumption == MaxTracker \in Nat
ASSUME NoRowAssumption ==
    NoRow \notin [owner: User, identity: Identity, active: BOOLEAN,
                  deleted: BOOLEAN, checked: BOOLEAN]
ASSUME NoRequestAssumption == NoRequest \notin Request
ASSUME NoUserAssumption == NoUser \notin User

VARIABLES
    tracker,      \* the table: id -> row
    lock,         \* who holds the lock of each `users` row
    request,      \* what each handler is doing and has read
    collector,    \* what the collector is doing and has read
    blocked       \* users who have the bot blocked in Telegram

vars == <<tracker, lock, request, collector, blocked>>

-----------------------------------------------------------------------------
(* The table. *)

TrackerId == 1 .. MaxTracker      \* `order_by(Tracker.id)` is the order of Nat

\* active = FALSE with deleted = TRUE (deleted_at set) is a deletion, with
\* deleted = FALSE a pause.  checked: last_checked_at is not NULL.
Row == [owner: User, identity: Identity, active: BOOLEAN, deleted: BOOLEAN,
        checked: BOOLEAN]

Inserted == {t \in TrackerId : tracker[t] # NoRow}
OwnedBy(u) == {t \in Inserted : tracker[t].owner = u}
Active(u) == {t \in OwnedBy(u) : tracker[t].active}
Paused(u) == {t \in OwnedBy(u) : ~tracker[t].active /\ ~tracker[t].deleted}

IdentitiesOf(ids) == {tracker[t].identity : t \in ids}

\* UPDATE trackers SET ... WHERE id IN ids, one column at a time.
SetActive(table, ids, value) ==
    [t \in TrackerId |->
        IF t \in ids THEN [table[t] EXCEPT !.active = value] ELSE table[t]]
SetDeleted(table, ids) ==
    [t \in TrackerId |->
        IF t \in ids THEN [table[t] EXCEPT !.deleted = TRUE] ELSE table[t]]
SetChecked(table, ids, value) ==
    [t \in TrackerId |->
        IF t \in ids THEN [table[t] EXCEPT !.checked = value] ELSE table[t]]

-----------------------------------------------------------------------------
(* The handlers' local state. *)

Step == {"idle", "create-user", "create-read", "create-insert",
         "delete-commit",
         "start-user", "start-paused", "start-active", "start-resume"}

RequestState == [step: Step, user: User \cup {NoUser}, identity: SUBSET Identity,
                 paused: SUBSET TrackerId,   \* rows loaded as paused
                 stale: SUBSET TrackerId,    \* those loaded with last_checked_at set
                 seen: SUBSET TrackerId,     \* rows loaded as active
                 target: SUBSET TrackerId]   \* the row to delete

IdleRequest == [step |-> "idle", user |-> NoUser, identity |-> {}, paused |-> {},
                stale |-> {}, seen |-> {}, target |-> {}]

CollectorState == [step: {"idle", "syncing", "sending", "pausing"},
                   batch: SUBSET TrackerId,   \* the group's trackers it selected
                   outbox: SUBSET TrackerId,  \* those with an alert to send
                   user: User \cup {NoUser}]

IdleCollector == [step |-> "idle", batch |-> {}, outbox |-> {}, user |-> NoUser]

Init ==
    /\ tracker = [t \in TrackerId |-> NoRow]
    /\ lock = [u \in User |-> NoRequest]
    /\ request = [r \in Request |-> IdleRequest]
    /\ collector = IdleCollector
    /\ blocked = {}

At(r, step) == request[r].step = step

\* The transaction of r ends: its lock goes and the handler returns.
Finish(r) ==
    /\ request' = [request EXCEPT ![r] = IdleRequest]
    /\ lock' = [u \in User |-> IF lock[u] = r THEN NoRequest ELSE lock[u]]

\* ensure_user: the upsert waits for, then holds, the `users` row lock.
LockUser(r, from, to) ==
    /\ At(r, from)
    /\ lock[request[r].user] = NoRequest
    /\ lock' = [lock EXCEPT ![request[r].user] = r]
    /\ request' = [request EXCEPT ![r].step = to]
    /\ UNCHANGED <<tracker, collector, blocked>>

-----------------------------------------------------------------------------
(* create_tracker: POST /trackers and /track. *)

\* Bound: a create starts only while a row is left for every create under way.
RowsLeft ==
    Cardinality(Inserted) + Cardinality({r \in Request : request[r].identity # {}})
        < MaxTracker

StartCreate(r, u, i) ==
    /\ At(r, "idle")
    /\ RowsLeft
    /\ request' = [request EXCEPT ![r] =
           [IdleRequest EXCEPT !.step = "create-user", !.user = u, !.identity = {i}]]
    /\ UNCHANGED <<tracker, lock, collector, blocked>>

CreateLocksUser(r) == LockUser(r, "create-user", "create-read")

\* Mutant: the quota is compared with <=.
CreateAcceptedOneMore(r) ==
    LET active == Active(request[r].user) IN
    /\ At(r, "create-read")
    /\ request[r].identity \cap IdentitiesOf(active) = {}
    /\ Cardinality(active) <= Quota
    /\ request' = [request EXCEPT ![r].step = "create-insert"]
    /\ UNCHANGED <<tracker, lock, collector, blocked>>

\* list_active_trackers, then the duplicate check and the quota check.
CreateAccepted(r) ==
    LET active == Active(request[r].user) IN
    /\ At(r, "create-read")
    /\ request[r].identity \cap IdentitiesOf(active) = {}
    /\ Cardinality(active) < Quota
    /\ request' = [request EXCEPT ![r].step = "create-insert"]
    /\ UNCHANGED <<tracker, lock, collector, blocked>>

\* Mutant: the rejected request returns without ending its transaction.
CreateRejectedKeepsLock(r) ==
    LET active == Active(request[r].user) IN
    /\ At(r, "create-read")
    /\ \/ request[r].identity \cap IdentitiesOf(active) # {}
       \/ Cardinality(active) >= Quota
    /\ request' = [request EXCEPT ![r] = IdleRequest]
    /\ UNCHANGED <<tracker, lock, collector, blocked>>

\* DuplicateTrackerError or TrackerQuotaExceededError: the session rolls back.
CreateRejected(r) ==
    LET active == Active(request[r].user) IN
    /\ At(r, "create-read")
    /\ \/ request[r].identity \cap IdentitiesOf(active) # {}
       \/ Cardinality(active) >= Quota
    /\ Finish(r)
    /\ UNCHANGED <<tracker, collector, blocked>>

NextId(t) == /\ tracker[t] = NoRow
             /\ \A s \in TrackerId : s < t => tracker[s] # NoRow

CreateCommits(r) ==
    /\ At(r, "create-insert")
    /\ \E t \in TrackerId, i \in request[r].identity :
          /\ NextId(t)
          /\ tracker' = [tracker EXCEPT ![t] =
                [owner |-> request[r].user, identity |-> i, active |-> TRUE,
                 deleted |-> FALSE, checked |-> FALSE]]
    /\ Finish(r)
    /\ UNCHANGED <<collector, blocked>>

-----------------------------------------------------------------------------
(* deactivate_tracker: DELETE /trackers/{id} and /untrack.  It takes no user *)
(* lock.                                                                     *)

DeleteFindsRow(r, u, t) ==
    /\ At(r, "idle")
    /\ t \in Active(u)
    /\ request' = [request EXCEPT ![r] =
           [IdleRequest EXCEPT !.step = "delete-commit", !.user = u, !.target = {t}]]
    /\ UNCHANGED <<tracker, lock, collector, blocked>>

\* The row was loaded as active, so the UPDATE by id sets both columns,
\* whatever happened to the row since.
DeleteCommits(r) ==
    /\ At(r, "delete-commit")
    /\ tracker' = SetDeleted(SetActive(tracker, request[r].target, FALSE),
                             request[r].target)
    /\ Finish(r)
    /\ UNCHANGED <<collector, blocked>>

-----------------------------------------------------------------------------
(* register_and_resume: /start.  Its message only leaves Telegram when the   *)
(* user does not have the bot blocked.                                       *)

StartCommand(r, u) ==
    /\ At(r, "idle")
    /\ u \notin blocked
    /\ request' = [request EXCEPT ![r] =
           [IdleRequest EXCEPT !.step = "start-user", !.user = u]]
    /\ UNCHANGED <<tracker, lock, collector, blocked>>

StartLocksUser(r) == LockUser(r, "start-user", "start-paused")

ReadPaused(r) ==
    LET paused == Paused(request[r].user) IN
    /\ At(r, "start-paused")
    /\ request' = [request EXCEPT
           ![r].step = IF paused = {} THEN "start-resume" ELSE "start-active",
           ![r].paused = paused,
           ![r].stale = {t \in paused : tracker[t].checked}]
    /\ UNCHANGED <<tracker, lock, collector, blocked>>

ReadActive(r) ==
    /\ At(r, "start-active")
    /\ request' = [request EXCEPT ![r].step = "start-resume",
                                  ![r].seen = Active(request[r].user)]
    /\ UNCHANGED <<tracker, lock, collector, blocked>>

\* Mutant: the identities of the rows resumed before are not remembered.
DistinctFromActive(paused, active) ==
    {t \in paused : tracker[t].identity \notin IdentitiesOf(active)}

\* The paused rows that repeat neither an active row nor an older paused one.
Distinct(paused, active) ==
    {t \in paused :
        /\ tracker[t].identity \notin IdentitiesOf(active)
        /\ \A s \in paused : s < t => tracker[s].identity # tracker[t].identity}

\* Mutant: the loop stops one row too late.
ResumedOneMore(paused, active) ==
    LET distinct == Distinct(paused, active) IN
    {t \in distinct :
        Cardinality({s \in distinct : s < t}) <= Quota - Cardinality(active)}

\* The loop over the paused rows in the order of their ids, until the quota.
Resumed(paused, active) ==
    LET distinct == Distinct(paused, active) IN
    {t \in distinct :
        Cardinality({s \in distinct : s < t}) < Quota - Cardinality(active)}

\* One turn of `for tracker in paused`: row t after the rows taken so far.
TakeTurn(taken, t, paused, active) ==
    IF \/ t \notin paused
       \/ Cardinality(taken) >= Quota - Cardinality(active)
       \/ tracker[t].identity \in IdentitiesOf(active \cup taken)
    THEN taken ELSE taken \cup {t}

\* The same loop turn by turn, for Resumed to be compared with.
ResumeLoop(paused, active) ==
    LET after[t \in Nat] == IF t = 0 THEN {} ELSE TakeTurn(after[t - 1], t, paused, active)
    IN  after[MaxTracker]

\* Mutant: last_checked_at is left alone.
StartCommitsKeepsCheck(r) ==
    LET resumed == Resumed(request[r].paused, request[r].seen) IN
    /\ At(r, "start-resume")
    /\ tracker' = SetActive(tracker, resumed, TRUE)
    /\ Finish(r)
    /\ UNCHANGED <<collector, blocked>>

\* One UPDATE by id per resumed row.  The ORM writes the columns whose value
\* differs from the loaded one: active always, last_checked_at only when it was
\* loaded as set, deleted_at never.
StartCommits(r) ==
    LET resumed == Resumed(request[r].paused, request[r].seen) IN
    /\ At(r, "start-resume")
    /\ tracker' = SetChecked(SetActive(tracker, resumed, TRUE),
                             resumed \cap request[r].stale, FALSE)
    /\ Finish(r)
    /\ UNCHANGED <<collector, blocked>>

\* A database error, a cancelled request or a killed process: rollback.
Abort(r) ==
    /\ ~At(r, "idle")
    /\ Finish(r)
    /\ UNCHANGED <<tracker, collector, blocked>>

-----------------------------------------------------------------------------
(* The collector: one job, one query group at a time.                        *)

\* The second session of _process_group selects the group's active trackers.
SelectBatch(batch) ==
    /\ collector.step = "idle"
    /\ batch # {}
    /\ batch \subseteq UNION {Active(u) : u \in User}
    /\ collector' = [step |-> "syncing", batch |-> batch,
                     outbox |-> {t \in batch : tracker[t].checked}, user |-> NoUser]
    /\ UNCHANGED <<tracker, lock, request, blocked>>

\* Mutant: the commit writes the selected rows back as they were loaded.
CommitBatchWritesActive ==
    /\ collector.step = "syncing"
    /\ tracker' = SetActive(SetChecked(tracker, collector.batch, TRUE), collector.batch, TRUE)
    /\ collector' = [collector EXCEPT !.step = "sending", !.batch = {}]
    /\ UNCHANGED <<lock, request, blocked>>

\* last_checked_at of every selected row, then COMMIT; alerts are sent after.
CommitBatch ==
    /\ collector.step = "syncing"
    /\ tracker' = SetChecked(tracker, collector.batch, TRUE)
    /\ collector' = [collector EXCEPT !.step = "sending", !.batch = {}]
    /\ UNCHANGED <<lock, request, blocked>>

\* AlertSender.send: Telegram refuses a message to a user who blocked the bot.
SendForbidden(t) ==
    /\ collector.step = "sending"
    /\ t \in collector.outbox
    /\ tracker[t].owner \in blocked
    /\ collector' = [collector EXCEPT !.step = "pausing", !.user = tracker[t].owner]
    /\ UNCHANGED <<tracker, lock, request, blocked>>

\* Mutant: the bulk UPDATE has lost its user_id condition.
PauseCommitsEveryone ==
    LET u == collector.user IN
    /\ collector.step = "pausing"
    /\ tracker' = SetActive(tracker, UNION {Active(v) : v \in User}, FALSE)
    /\ collector' = [collector EXCEPT !.step = "sending", !.user = NoUser,
                                      !.outbox = @ \ OwnedBy(u)]
    /\ UNCHANGED <<lock, request, blocked>>

\* deactivate_user_trackers: one bulk UPDATE and its commit.
PauseCommits ==
    LET u == collector.user IN
    /\ collector.step = "pausing"
    /\ tracker' = SetActive(tracker, Active(u), FALSE)
    /\ collector' = [collector EXCEPT !.step = "sending", !.user = NoUser,
                                      !.outbox = @ \ OwnedBy(u)]
    /\ UNCHANGED <<lock, request, blocked>>

\* The error is logged and swallowed; the user stays in blocked_users.
PauseFails ==
    /\ collector.step = "pausing"
    /\ collector' = [collector EXCEPT !.step = "sending", !.user = NoUser,
                                      !.outbox = @ \ OwnedBy(collector.user)]
    /\ UNCHANGED <<tracker, lock, request, blocked>>

\* The group is done (its alerts were delivered or dropped), its transaction
\* failed, or the process died and was started again.
CollectorStops ==
    /\ collector.step # "idle"
    /\ collector' = IdleCollector
    /\ UNCHANGED <<tracker, lock, request, blocked>>

-----------------------------------------------------------------------------
(* The user, in Telegram. *)

Block(u) ==
    /\ u \notin blocked
    /\ blocked' = blocked \cup {u}
    /\ UNCHANGED <<tracker, lock, request, collector>>

Unblock(u) ==
    /\ u \in blocked
    /\ blocked' = blocked \ {u}
    /\ UNCHANGED <<tracker, lock, request, collector>>

-----------------------------------------------------------------------------

CreateStep(r) ==
    \/ CreateLocksUser(r)
    \/ CreateAccepted(r)
    \/ CreateRejected(r)
    \/ CreateCommits(r)

StartStep(r) ==
    \/ StartLocksUser(r)
    \/ ReadPaused(r)
    \/ ReadActive(r)
    \/ StartCommits(r)

RequestNext(r) ==
    \/ \E u \in User, i \in Identity : StartCreate(r, u, i)
    \/ CreateStep(r)
    \/ \E u \in User, t \in TrackerId : DeleteFindsRow(r, u, t)
    \/ DeleteCommits(r)
    \/ \E u \in User : StartCommand(r, u)
    \/ StartStep(r)
    \/ Abort(r)

CollectorNext ==
    \/ \E batch \in SUBSET TrackerId : SelectBatch(batch)
    \/ CommitBatch
    \/ \E t \in TrackerId : SendForbidden(t)
    \/ PauseCommits
    \/ PauseFails
    \/ CollectorStops

Next ==
    \/ \E r \in Request : RequestNext(r)
    \/ CollectorNext
    \/ \E u \in User : Block(u) \/ Unblock(u)

Spec == Init /\ [][Next]_vars

\* A handler that has its lock runs on; a row lock is granted in the order of
\* its queue, so a waiting upsert is not passed over for ever.
RequestFairness ==
    \A r \in Request :
        /\ SF_vars(CreateLocksUser(r)) /\ SF_vars(StartLocksUser(r))
        /\ WF_vars(CreateAccepted(r) \/ CreateRejected(r) \/ CreateCommits(r))
        /\ WF_vars(ReadPaused(r) \/ ReadActive(r) \/ StartCommits(r))
        /\ WF_vars(DeleteCommits(r))

FairSpec == Spec /\ RequestFairness

-----------------------------------------------------------------------------
(* Properties. *)

\* Every column, lock and local variable of the handlers stays in its domain.
TypeOK ==
    /\ tracker \in [TrackerId -> Row \cup {NoRow}]
    /\ lock \in [User -> Request \cup {NoRequest}]
    /\ request \in [Request -> RequestState]
    /\ collector \in CollectorState
    /\ blocked \in SUBSET User

\* No interleaving of creates, resumes, pauses and deletions leaves a user with
\* more active trackers than MAX_ACTIVE_TRACKERS_PER_USER (create_tracker and
\* resume_paused_trackers count first and insert later).
ActiveWithinQuota == \A u \in User : Cardinality(Active(u)) <= Quota

\* Two active trackers of a user never follow the same query with the same
\* filters, although the duplicate check and the write are separate statements.
ActiveIdentitiesDistinct ==
    \A u \in User : \A s, t \in Active(u) :
        tracker[s].identity = tracker[t].identity => s = t

\* Whoever has passed the checks and not yet written holds the `users` lock.
CriticalSteps == {"create-read", "create-insert", "start-paused", "start-active",
                  "start-resume"}
LockHeldWhileChecking ==
    \A r \in Request :
        /\ request[r].step \in CriticalSteps => lock[request[r].user] = r
        /\ \A u \in User : lock[u] = r =>
              request[r].user = u /\ request[r].step \in CriticalSteps

\* What a handler read under the lock is still a safe basis for its write: rows
\* may have become inactive since, but none has become active or changed hands.
SnapshotCovers(r) ==
    LET u == request[r].user IN
    /\ request[r].paused \cup request[r].seen \cup request[r].target \subseteq OwnedBy(u)
    /\ At(r, "create-insert") =>
          /\ request[r].identity \cap IdentitiesOf(Active(u)) = {}
          /\ Cardinality(Active(u)) < Quota
    /\ At(r, "start-resume") /\ request[r].paused # {} =>
          Active(u) \subseteq request[r].seen

SnapshotCoversActive == \A r \in Request : SnapshotCovers(r)

\* The rows /start is about to resume are exactly those the loop of
\* resume_paused_trackers takes, whatever was read and whatever has happened to
\* the rows since (tracker_service.py:290-303).
ResumeMatchesLoop ==
    \A r \in Request : At(r, "start-resume") =>
        Resumed(request[r].paused, request[r].seen) =
            ResumeLoop(request[r].paused, request[r].seen)

\* A tracker that becomes active has no last_checked_at, so that its next check
\* is a baseline and does not alert on what was missed (resume_paused_trackers
\* clears the column only if it loaded a value, and the collector writes it).
ActivatedIsUnchecked ==
    [][\A t \in TrackerId :
          (\E u \in User : t \in Active(u)' \ Active(u)) => ~tracker'[t].checked]_vars

\* Every handler ends: it is not kept waiting for a `users` row lock for ever.
RequestsEnd == \A r \in Request : ~At(r, "idle") ~> At(r, "idle")

\* The claims of the abstract registry are the active rows.
ClaimsOfRows ==
    {[user |-> tracker[t].owner, identity |-> tracker[t].identity, tracker |-> t] :
        t \in UNION {Active(u) : u \in User}}

Registry == INSTANCE TrackerRegistry
    WITH Tracker <- TrackerId, claims <- ClaimsOfRows

\* Every step of the handlers and of the collector takes or drops claims of one
\* user as the lock-free registry allows, or changes none.
ImplementsRegistry == Registry!Spec

\* "explicit deletions also set deleted_at, so those are never resumed"
\* (resume_paused_trackers, tracker_service.py:271-272).
DeletedNeverResumed ==
    [][\A u \in User : \A t \in Active(u)' \ Active(u) :
          tracker[t] # NoRow => ~tracker[t].deleted]_vars

=============================================================================
