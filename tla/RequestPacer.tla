---------------------------- MODULE RequestPacer ----------------------------
(***************************************************************************)
(* KufarClient.search and the _RequestPacer that every request of a        *)
(* process to Kufar goes through: a bounded queue, a semaphore, reserved   *)
(* start times, and a pause that all requests honour after Kufar has asked *)
(* to slow down.                                                           *)
(*                                                                         *)
(* Times are remaining seconds, 0 for a moment that is past.  The event    *)
(* loop may be late: a timer that has run out is served some time later.   *)
(* A coroutine runs without interruption from one await that suspends it   *)
(* to the next, which is one step here; the pacer's lock is never awaited, *)
(* since its holder does not suspend.                                      *)
(***************************************************************************)
EXTENDS Integers, Sequences, FiniteSets, SequencesExt

CONSTANTS
    Request,        \* calls of search in the process
    MaxInFlight,    \* KUFAR_PARALLEL_SEMAPHORE
    MaxWaiting,     \* waiting_limit(delay)
    Delay,          \* KUFAR_REQUEST_DELAY
    MaxRetries,     \* MAX_RETRIES
    MaxPause,       \* MAX_RETRY_AFTER_SECONDS
    MaxCancel       \* bound: requests cancelled or over their deadline

ASSUME SlotsAssumption == MaxInFlight \in Nat \ {0} /\ MaxWaiting \in Nat
ASSUME TimesAssumption ==
    Delay \in Nat /\ MaxRetries \in Nat \ {0} /\ MaxPause \in Nat /\ MaxCancel \in Nat

VARIABLES
    request,    \* what each call is doing
    queue,      \* those that wait for the semaphore, first come first served
    free,       \* the semaphore's value
    waiting,    \* _waiting
    next,       \* _next_start
    pause,      \* _paused_until
    limiting,   \* whether Kufar answers some requests with 429 at present
    debt,       \* history: Delay per request started, less the time since
    cancels     \* history: requests cancelled

vars == <<request, queue, free, waiting, next, pause, limiting, debt, cancels>>

-----------------------------------------------------------------------------

Larger(a, b) == IF a > b THEN a ELSE b
Less(a) == IF a > 0 THEN a - 1 ELSE 0

\* BACKOFF_BASE_SECONDS * 2 ** attempt, attempts counted from 1.
Backoff(attempt) == 2 ^ (attempt - 1)

RequestState == [step: {"idle", "queued", "sleeping", "running", "backoff"},
                 attempt: 0 .. MaxRetries,
                 timer: Nat,        \* of the sleep it is in
                 held: BOOLEAN]     \* _paused_until > start_at

IdleRequest == [step |-> "idle", attempt |-> 0, timer |-> 0, held |-> FALSE]

At(step) == {r \in Request : request[r].step = step}

Init ==
    /\ request = [r \in Request |-> IdleRequest]
    /\ queue = <<>>
    /\ free = MaxInFlight
    /\ waiting = 0
    /\ next = 0
    /\ pause = 0
    /\ limiting \in BOOLEAN
    /\ debt = 0
    /\ cancels = 0

-----------------------------------------------------------------------------
(* _RequestPacer.slot *)

\* Mutant: only a request that has to wait moves the next start.
ReserveWhenWaiting(r, attempt, counted) ==
    LET start == Larger(next, pause) IN
    /\ next' = IF start = 0 THEN next ELSE start + Delay
    /\ waiting' = IF start = 0 THEN counted - 1 ELSE counted
    /\ debt' = IF start = 0 THEN debt + Delay ELSE debt
    /\ request' = [request EXCEPT ![r] =
           [step |-> IF start = 0 THEN "running" ELSE "sleeping",
            attempt |-> attempt, timer |-> start, held |-> FALSE]]

\* One turn of _wait_for_start: r reserves a start time.  If that is now, it goes
\* on and no longer waits; counted is the value of _waiting with r in it.
Reserve(r, attempt, counted) ==
    LET start == Larger(next, pause) IN
    /\ next' = start + Delay
    /\ waiting' = IF start = 0 THEN counted - 1 ELSE counted
    /\ debt' = IF start = 0 THEN debt + Delay ELSE debt
    /\ request' = [request EXCEPT ![r] =
           [step |-> IF start = 0 THEN "running" ELSE "sleeping",
            attempt |-> attempt, timer |-> start, held |-> FALSE]]

\* The semaphore lets a caller in at once only when nobody waits for it.
Enter(r, attempt) ==
    /\ waiting < MaxWaiting
    /\ IF free > 0 /\ queue = <<>>
       THEN /\ free' = free - 1
            /\ Reserve(r, attempt, waiting + 1)
            /\ UNCHANGED queue
       ELSE /\ queue' = Append(queue, r)
            /\ waiting' = waiting + 1
            /\ request' = [request EXCEPT ![r] =
                   [IdleRequest EXCEPT !.step = "queued", !.attempt = attempt]]
            /\ UNCHANGED <<free, next, debt>>
    /\ UNCHANGED <<pause, limiting, cancels>>

Admit ==
    /\ queue # <<>>
    /\ free > 0
    /\ free' = free - 1
    /\ queue' = Tail(queue)
    /\ Reserve(Head(queue), request[Head(queue)].attempt, waiting)
    /\ UNCHANGED <<pause, limiting, cancels>>

\* Mutant: the pause is not looked at again after the sleep.
WakeBlindly(r) ==
    /\ request[r].step = "sleeping"
    /\ request[r].timer = 0
    /\ waiting' = waiting - 1
    /\ debt' = debt + Delay
    /\ request' = [request EXCEPT ![r].step = "running", ![r].held = FALSE]
    /\ UNCHANGED <<queue, free, next, pause, limiting, cancels>>

\* Mutant: start_at is reserved anew but the pause is compared with the first one.
WakeStaleStart(r) ==
    /\ request[r].step = "sleeping"
    /\ request[r].timer = 0
    /\ IF request[r].held
       THEN /\ request' = [request EXCEPT ![r].timer = Larger(next, pause)]
            /\ next' = Larger(next, pause) + Delay
            /\ UNCHANGED <<waiting, debt>>
       ELSE /\ waiting' = waiting - 1
            /\ debt' = debt + Delay
            /\ request' = [request EXCEPT ![r].step = "running"]
            /\ UNCHANGED next
    /\ UNCHANGED <<queue, free, pause, limiting, cancels>>

\* The sleep is over: a pause that began meanwhile means another reservation.
Wake(r) ==
    /\ request[r].step = "sleeping"
    /\ request[r].timer = 0
    /\ IF request[r].held
       THEN Reserve(r, request[r].attempt, waiting)
       ELSE /\ waiting' = waiting - 1
            /\ debt' = debt + Delay
            /\ request' = [request EXCEPT ![r].step = "running"]
            /\ UNCHANGED next
    /\ UNCHANGED <<queue, free, pause, limiting, cancels>>

-----------------------------------------------------------------------------
(* KufarClient.search *)

Search(r) ==
    /\ request[r].step = "idle"
    /\ Enter(r, 1)

\* Kufar's answer, or the lack of one: the slot is left.
LeaveSlot(r) ==
    /\ request[r].step = "running"
    /\ free' = free + 1
    /\ UNCHANGED <<queue, waiting, next, limiting, debt, cancels>>

\* The retry after a failure, if one is left; table has the other requests.
Again(r, table, seconds) ==
    LET attempt == request[r].attempt IN
    request' = [table EXCEPT ![r] =
        IF attempt < MaxRetries
        THEN [step |-> "backoff", attempt |-> attempt,
              timer |-> Larger(Backoff(attempt), seconds), held |-> FALSE]
        ELSE IdleRequest]

\* A payload, or an error that is not retried.
Answered(r) ==
    /\ LeaveSlot(r)
    /\ request' = [request EXCEPT ![r] = IdleRequest]
    /\ UNCHANGED pause

\* A timeout, a network error or a server error.
Failed(r) ==
    /\ LeaveSlot(r)
    /\ Again(r, request, 0)
    /\ UNCHANGED pause

\* _RequestPacer.pause: sleepers whose start time it covers are held.
Paused(seconds) ==
    [s \in Request |->
        IF request[s].step = "sleeping"
        THEN [request[s] EXCEPT !.held = @ \/ Larger(pause, seconds) > request[s].timer]
        ELSE request[s]]

\* 429, or a server error with Retry-After: all requests of the process pause.
RateLimited(r, seconds) ==
    /\ limiting
    /\ LeaveSlot(r)
    /\ pause' = Larger(pause, seconds)
    /\ Again(r, Paused(seconds), seconds)

\* After the backoff the request enters the pacer again; a full queue ends it.
Retry(r) ==
    /\ request[r].step = "backoff"
    /\ request[r].timer = 0
    /\ IF waiting < MaxWaiting
       THEN Enter(r, request[r].attempt + 1)
       ELSE /\ request' = [request EXCEPT ![r] = IdleRequest]
            /\ UNCHANGED <<queue, free, waiting, next, pause, limiting, debt, cancels>>

\* A cancelled waiter is taken out of the semaphore's queue.
LeaveQueue(r) ==
    IF request[r].step = "queued"
    THEN \E i \in DOMAIN queue : queue[i] = r /\ queue' = RemoveAt(queue, i)
    ELSE UNCHANGED queue

\* Mutant: _waiting is only taken back when the request starts.
CancelKeepsWaiting(r) ==
    LET step == request[r].step IN
    /\ step # "idle"
    /\ cancels < MaxCancel
    /\ cancels' = cancels + 1
    /\ request' = [request EXCEPT ![r] = IdleRequest]
    /\ LeaveQueue(r)
    /\ free' = IF step \in {"sleeping", "running"} THEN free + 1 ELSE free
    /\ UNCHANGED <<waiting, next, pause, limiting, debt>>

\* The deadline of search_all_ads, or a handler that is cancelled: the request
\* leaves from wherever it is.  Its reservation stays.
Cancel(r) ==
    LET step == request[r].step IN
    /\ step # "idle"
    /\ cancels < MaxCancel
    /\ cancels' = cancels + 1
    /\ request' = [request EXCEPT ![r] = IdleRequest]
    /\ LeaveQueue(r)
    /\ free' = IF step \in {"sleeping", "running"} THEN free + 1 ELSE free
    /\ waiting' = IF step \in {"queued", "sleeping"} THEN waiting - 1 ELSE waiting
    /\ UNCHANGED <<next, pause, limiting, debt>>

-----------------------------------------------------------------------------

Tick ==
    /\ request' = [r \in Request |-> [request[r] EXCEPT !.timer = Less(@)]]
    /\ next' = Less(next)
    /\ pause' = Less(pause)
    /\ debt' = Less(debt)
    /\ UNCHANGED <<queue, free, waiting, limiting, cancels>>

KufarChanges ==
    /\ limiting' = ~limiting
    /\ UNCHANGED <<request, queue, free, waiting, next, pause, debt, cancels>>

Next ==
    \/ \E r \in Request :
          \/ Search(r) \/ Wake(r) \/ Answered(r) \/ Failed(r)
          \/ \E seconds \in 1 .. MaxPause : RateLimited(r, seconds)
          \/ Retry(r) \/ Cancel(r)
    \/ Admit
    \/ Tick
    \/ KufarChanges

Spec == Init /\ [][Next]_vars

\* Time goes on, the event loop serves what is ready, and a request to Kufar ends
\* by the client's timeout at the latest.
Fairness ==
    /\ WF_vars(Tick)
    /\ WF_vars(Admit)
    /\ \A r \in Request :
          /\ WF_vars(Wake(r))
          /\ WF_vars(Answered(r) \/ Failed(r) \/ \E s \in 1 .. MaxPause : RateLimited(r, s))
          /\ WF_vars(Retry(r))

FairSpec == Spec /\ Fairness

-----------------------------------------------------------------------------
(* Properties. *)

\* Timers, counters and the queue stay in their domains.
TypeOK ==
    /\ request \in [Request -> RequestState]
    /\ queue \in Seq(Request)
    /\ free \in 0 .. MaxInFlight
    /\ waiting \in 0 .. MaxWaiting
    /\ {next, pause, debt} \subseteq Nat
    /\ limiting \in BOOLEAN /\ cancels \in 0 .. MaxCancel

\* Wherever requests are cancelled, refused or held, _waiting counts exactly those
\* that have not started and every taken slot has its request: neither leaks
\* (the finally clauses of slot).
CountersExact ==
    /\ TypeOK
    /\ waiting = Cardinality(At("queued") \cup At("sleeping"))
    /\ free = MaxInFlight - Cardinality(At("sleeping") \cup At("running"))
    /\ {queue[i] : i \in 1 .. Len(queue)} = At("queued")

\* "A shared pause that every request honours": none is sent while it lasts,
\* although requests sleep, queue and wake up across its beginning.
NoStartInPause ==
    [][At("running")' \subseteq At("running") \/ pause = 0]_vars

\* "A minimum gap between request starts": even if the event loop is late, and
\* requests are held and cancelled, the process exceeds one start per Delay by
\* the requests in flight at most.
BurstBounded == debt <= (MaxInFlight + 1) * Delay

\* Once Kufar stops asking to slow down, every search ends: no request is passed
\* over, or held back by pauses, for ever.
SearchesEnd ==
    <>[]~limiting => \A r \in Request : request[r].step # "idle" ~> request[r].step = "idle"

=============================================================================
