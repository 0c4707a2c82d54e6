---------------------------- MODULE AlertSender ----------------------------
(***************************************************************************)
(* AlertSender: the alerts of one scheduler run, sent one after another    *)
(* with retries.  What Telegram answers is up to Telegram; a network or    *)
(* server error leaves open whether the message has arrived.  Init and the *)
(* like are named SenderInit, ..., for a module that also has Collector's. *)
(***************************************************************************)
EXTENDS Integers, Sequences, FiniteSets

CONSTANTS
    User,
    MaxSendAttempts,    \* MAX_SEND_ATTEMPTS
    MaxFailures,        \* MAX_CONSECUTIVE_TRANSIENT_FAILURES
    MaxAlert            \* bound: alerts of one run

ASSUME MaxSendAttemptsAssumption == MaxSendAttempts \in Nat \ {0}
ASSUME MaxFailuresAssumption == MaxFailures \in Nat \ {0}
ASSUME MaxAlertAssumption == MaxAlert \in Nat

VARIABLES
    alerts,     \* the users whose alerts are still to be sent, in order
    drafted,    \* how many alerts the run has had
    attempt,    \* the send_message under way for the first alert; 0: none yet
    limit,      \* max_attempts of that alert
    failures,   \* _transient_failures
    blocked,    \* _blocked_users
    tracked,    \* users with active trackers
    waits,      \* history: sleeps since Telegram last gave a definite answer
    refusals,   \* history: how often each user's alerts were refused in this run
    fates       \* history: what became of each alert of this run, after how many attempts

senderVars == <<alerts, drafted, attempt, limit, failures, blocked, tracked, waits, refusals, fates>>

NoRefusals == [u \in User |-> 0]

Fate == {"delivered", "lost", "flooded", "rejected", "refused", "skipped"}

SenderInit ==
    /\ alerts = <<>>
    /\ drafted = 0
    /\ attempt = 0
    /\ limit = 0
    /\ failures = 0
    /\ blocked = {}
    /\ tracked = {}
    /\ waits = 0
    /\ refusals = NoRefusals
    /\ fates = <<>>

-----------------------------------------------------------------------------

\* The next group is processed: alerts to users who have active trackers.
ProcessGroup(users) ==
    /\ alerts = <<>>
    /\ drafted + Len(users) <= MaxAlert
    /\ \A i \in 1 .. Len(users) : users[i] \in tracked
    /\ alerts' = users
    /\ drafted' = drafted + Len(users)
    /\ UNCHANGED <<attempt, limit, failures, blocked, tracked, waits, refusals, fates>>

\* send returns: the alert is delivered or dropped, never queued again.
Done(fate) ==
    /\ alerts' = Tail(alerts)
    /\ fates' = Append(fates, [fate |-> fate, tries |-> attempt])
    /\ attempt' = 0
    /\ limit' = 0
    /\ UNCHANGED drafted

\* The user has refused an alert of this run already.
SkipBlocked ==
    /\ alerts # <<>>
    /\ attempt = 0
    /\ Head(alerts) \in blocked
    /\ Done("skipped")
    /\ UNCHANGED <<failures, blocked, tracked, waits, refusals>>

\* Mutant: every alert gets all its attempts.
AttemptsAlways == MaxSendAttempts

\* One attempt while Telegram looks down.
AttemptsAllowed == IF failures >= MaxFailures THEN 1 ELSE MaxSendAttempts

StartSending ==
    /\ alerts # <<>>
    /\ attempt = 0
    /\ Head(alerts) \notin blocked
    /\ attempt' = 1
    /\ limit' = AttemptsAllowed
    /\ UNCHANGED <<alerts, drafted, failures, blocked, tracked, waits, refusals, fates>>

Delivered ==
    /\ attempt > 0
    /\ Done("delivered")
    /\ failures' = 0
    /\ waits' = 0
    /\ UNCHANGED <<blocked, tracked, refusals>>

\* Mutant: a retry never uses the last attempt up.
RetryForEver ==
    /\ attempt > 0
    /\ attempt < limit
    /\ attempt' = (attempt % (limit - 1)) + 1
    /\ UNCHANGED <<alerts, drafted, limit, failures, blocked, tracked, waits, refusals, fates>>

\* A short flood-control wait, or the backoff after a network or server error.
Retry ==
    /\ attempt > 0
    /\ attempt < limit
    /\ attempt' = attempt + 1
    /\ waits' = waits + 1
    /\ UNCHANGED <<alerts, drafted, limit, failures, blocked, tracked, refusals, fates>>

\* The last attempt failed for the moment, or flood control asks for a wait
\* longer than MAX_RETRY_AFTER_SECONDS, at any attempt.
DropTransient(long) ==
    /\ attempt > 0
    /\ long \/ attempt = limit
    /\ Done(IF attempt = limit THEN "lost" ELSE "flooded")
    /\ failures' = failures + 1
    /\ UNCHANGED <<blocked, tracked, waits, refusals>>

\* Too large, another API error, or an unexpected exception: not sent again.
DropRejected ==
    /\ attempt > 0
    /\ Done("rejected")
    /\ waits' = 0
    /\ UNCHANGED <<failures, blocked, tracked, refusals>>

\* Mutant: the user is remembered only when the pause has succeeded.
ForbiddenUnremembered(paused) ==
    LET u == Head(alerts) IN
    /\ attempt > 0
    /\ Done("refused")
    /\ blocked' = IF paused THEN blocked \cup {u} ELSE blocked
    /\ tracked' = IF paused THEN tracked \ {u} ELSE tracked
    /\ refusals' = [refusals EXCEPT ![u] = @ + 1]
    /\ waits' = 0
    /\ UNCHANGED failures

\* TelegramForbiddenError: the user's trackers are paused; a database error
\* while doing so is logged and swallowed.
Forbidden(paused) ==
    LET u == Head(alerts) IN
    /\ attempt > 0
    /\ Done("refused")
    /\ blocked' = blocked \cup {u}
    /\ tracked' = IF paused THEN tracked \ {u} ELSE tracked
    /\ refusals' = [refusals EXCEPT ![u] = @ + 1]
    /\ waits' = 0
    /\ UNCHANGED failures

\* Mutant: one sender for all runs.
NextRunSameSender ==
    /\ alerts = <<>>
    /\ drafted > 0
    /\ drafted' = 0
    /\ UNCHANGED <<alerts, attempt, limit, failures, blocked, tracked, waits>>
    /\ refusals' = NoRefusals
    /\ fates' = <<>>

\* check_trackers starts every run with a new AlertSender.
NextRun ==
    /\ alerts = <<>>
    /\ drafted > 0
    /\ drafted' = 0
    /\ failures' = 0
    /\ blocked' = {}
    /\ waits' = 0
    /\ refusals' = NoRefusals
    /\ fates' = <<>>
    /\ UNCHANGED <<alerts, attempt, limit, tracked>>

\* The user creates or resumes a tracker.
Subscribe(u) ==
    /\ u \notin tracked
    /\ tracked' = tracked \cup {u}
    /\ UNCHANGED <<alerts, drafted, attempt, limit, failures, blocked, waits, refusals, fates>>

-----------------------------------------------------------------------------

SendNext ==
    \/ SkipBlocked
    \/ StartSending
    \/ Delivered
    \/ Retry
    \/ \E long \in BOOLEAN : DropTransient(long)
    \/ DropRejected
    \/ \E paused \in BOOLEAN : Forbidden(paused)

SenderNext ==
    \/ SendNext
    \/ \E n \in 0 .. MaxAlert : \E users \in [1 .. n -> User] : ProcessGroup(users)
    \/ NextRun
    \/ \E u \in User : Subscribe(u)

SenderSpec == SenderInit /\ [][SenderNext]_senderVars

\* The event loop resumes the run after every answer and every sleep, and
\* send_message ends by itself (the session's request timeout).
FairSenderSpec == SenderSpec /\ WF_senderVars(SendNext)

-----------------------------------------------------------------------------
(* Properties. *)

\* The queue, the counters and the histories stay in their domains.
SenderTypeOK ==
    /\ alerts \in Seq(User)
    /\ drafted \in 0 .. MaxAlert
    /\ attempt \in 0 .. MaxSendAttempts
    /\ limit \in {0, 1, MaxSendAttempts}
    /\ failures \in 0 .. drafted
    /\ blocked \subseteq User
    /\ tracked \subseteq User
    /\ waits \in Nat
    /\ refusals \in [User -> Nat]
    /\ fates \in Seq([fate: Fate, tries: 0 .. MaxSendAttempts])

\* "Telegram looks down": whatever mix of flood control and network errors, the
\* run sleeps at most this often before Telegram answers something definite.
BackoffBounded == waits <= MaxFailures * (MaxSendAttempts - 1)

\* A user who blocked the bot is bothered once per run, even when pausing the
\* trackers fails and later groups have more alerts for them.
RefusedOncePerRun == \A u \in User : refusals[u] <= 1

\* A group's alerts are all delivered or dropped, whatever Telegram answers: no
\* run is stuck in a retry.
GroupIsSent == alerts # <<>> ~> alerts = <<>>

\* The losses in a row before the i-th alert of the run: alerts whose attempts were
\* used up or whose flood wait was too long, with no alert delivered since.
LossesBefore(i) ==
    {j \in 1 .. i - 1 :
        /\ fates[j].fate \in {"lost", "flooded"}
        /\ \A k \in j .. i - 1 : fates[k].fate # "delivered"}

Open(i) == Cardinality(LossesBefore(i)) >= MaxFailures

\* "While Telegram looks down, alerts get a single attempt each" (AlertSender.send), and
\* only then: an alert whose attempts are used up had MAX_SEND_ATTEMPTS of them, unless
\* MaxFailures alerts of the same run were lost in a row before it, and then it had one.
\* An outage of Telegram during one run costs no retries in the next.
CircuitOpensLate ==
    \A i \in DOMAIN fates :
        /\ fates[i].fate = "lost" => fates[i].tries = IF Open(i) THEN 1 ELSE MaxSendAttempts
        /\ Open(i) => fates[i].tries <= 1

=============================================================================
