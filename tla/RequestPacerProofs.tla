------------------------- MODULE RequestPacerProofs -------------------------
(***************************************************************************)
(* The pacer neither leaks a counter nor bunches requests nor sends one in *)
(* a pause, for any requests, any limits and any times.                    *)
(***************************************************************************)
EXTENDS RequestPacer, FiniteSetTheorems, TLAPS

Waiters == At("queued") \cup At("sleeping")
Holders == At("sleeping") \cup At("running")
Sleepers == At("sleeping")

\* The counters count finite sets, and nobody queues twice.
CountInv ==
    /\ IsFiniteSet(Waiters) /\ IsFiniteSet(Holders)
    /\ waiting = Cardinality(Waiters)
    /\ free = MaxInFlight - Cardinality(Holders)

QueueInv ==
    /\ {queue[i] : i \in 1 .. Len(queue)} = At("queued")
    /\ \A i, j \in 1 .. Len(queue) : queue[i] = queue[j] => i = j

\* A sleeper that is not held starts after the pause, and there is a gap between
\* its start and the next one that will be reserved.
SleepInv ==
    \A r \in Sleepers :
        /\ request[r].held \/ pause <= request[r].timer
        /\ request[r].timer = 0 \/ request[r].timer + Delay <= next

\* The sleepers that may start no later than r.
Upto(r) == {s \in Sleepers : request[s].timer <= request[r].timer}

\* What the starts of some requests add to the debt.
Load(S) == Delay * Cardinality(S)
Full == Delay * MaxInFlight

\* All sleepers that start as early as they may leave a debt that is paid back, but
\* for one start per slot, by the time of the next start; and so do those that start
\* before a sleeper by the time of its start, but for one more.
DebtInv ==
    /\ debt + Load(Sleepers) <= next + Full
    /\ debt <= Full + Delay
    /\ \A r \in Sleepers : debt + Load(Upto(r)) <= request[r].timer + Full + Delay

\* Who backs off has a retry left.
RetryInv == \A r \in At("backoff") : request[r].attempt < MaxRetries

Core == TypeOK /\ RetryInv /\ CountInv /\ QueueInv

IInv == Core /\ SleepInv /\ DebtInv

USE SlotsAssumption, TimesAssumption

-----------------------------------------------------------------------------
(* Types and counters. *)

Waits(r) == request[r].step \in {"queued", "sleeping"}
Holds(r) == request[r].step \in {"sleeping", "running"}

\* A step of r: what the others do does not change.
Moves(r) ==
    /\ request' \in [Request -> RequestState]
    /\ \A s \in Request \ {r} : /\ request'[s].step = request[s].step
                               /\ request'[s].attempt = request[s].attempt

\* A backoff is a number; what it is does not matter here.
LEMMA RetryTimer ==
  ASSUME NEW attempt \in 0 .. MaxRetries, NEW seconds \in Nat
  PROVE  Larger(Backoff(attempt), seconds) \in Nat
  <1>1. \A n \in Int : 2 ^ n \in Int
    OBVIOUS
  <1> QED  BY <1>1 DEF Larger, Backoff

\* One member joins or leaves a finite set.
LEMMA OneMember ==
  ASSUME NEW S, NEW T, NEW x, IsFiniteSet(S), T = S \cup {x} \/ T = S \ {x}
  PROVE  /\ IsFiniteSet(T)
         /\ Cardinality(S) \in Nat /\ Cardinality(T) \in Nat
         /\ Cardinality(T) = Cardinality(S) + (IF x \in T THEN 1 ELSE 0)
                                            - (IF x \in S THEN 1 ELSE 0)
  <1>1. CASE T = S \cup {x}
    BY <1>1, FS_AddElement, FS_CardinalityType
  <1>2. CASE T = S \ {x}
    <2>1. x \notin T
      BY <1>2
    <2>2. IsFiniteSet(T) /\ Cardinality(T) = IF x \in S THEN Cardinality(S) - 1 ELSE Cardinality(S)
      BY <1>2, FS_RemoveElement
    <2> QED  BY <2>1, <2>2, FS_CardinalityType
  <1> QED  BY <1>1, <1>2

\* The sets that the counters count change with the step of r alone.
LEMMA Counting ==
  ASSUME CountInv, TypeOK, NEW r \in Request, Moves(r)
  PROVE  /\ IsFiniteSet(Waiters)' /\ IsFiniteSet(Holders)'
         /\ Cardinality(Waiters)' = Cardinality(Waiters)
                + (IF Waits(r)' THEN 1 ELSE 0) - (IF Waits(r) THEN 1 ELSE 0)
         /\ Cardinality(Holders)' = Cardinality(Holders)
                + (IF Holds(r)' THEN 1 ELSE 0) - (IF Holds(r) THEN 1 ELSE 0)
         /\ Cardinality(Waiters) \in Nat /\ Cardinality(Holders) \in Nat
         /\ Cardinality(Waiters)' \in Nat /\ Cardinality(Holders)' \in Nat
  <1>1. Waiters' = IF Waits(r)' THEN Waiters \cup {r} ELSE Waiters \ {r}
    BY DEF Moves, TypeOK, Waiters, At, Waits
  <1>2. Holders' = IF Holds(r)' THEN Holders \cup {r} ELSE Holders \ {r}
    BY DEF Moves, TypeOK, Holders, At, Holds
  <1>3. (r \in Waiters <=> Waits(r)) /\ (r \in Holders <=> Holds(r))
    BY DEF Waiters, Holders, At, Waits, Holds
  <1>4. (r \in Waiters' <=> Waits(r)') /\ (r \in Holders' <=> Holds(r)')
    BY <1>1, <1>2
  <1>5. (Waiters' = Waiters \cup {r} \/ Waiters' = Waiters \ {r}) /\ IsFiniteSet(Waiters)
    BY <1>1 DEF CountInv
  <1>6. (Holders' = Holders \cup {r} \/ Holders' = Holders \ {r}) /\ IsFiniteSet(Holders)
    BY <1>2 DEF CountInv
  <1> HIDE DEF Waiters, Holders, Waits, Holds, Moves
  <1>7. /\ IsFiniteSet(Waiters') /\ Cardinality(Waiters) \in Nat /\ Cardinality(Waiters') \in Nat
        /\ Cardinality(Waiters') = Cardinality(Waiters)
                + (IF Waits(r)' THEN 1 ELSE 0) - (IF Waits(r) THEN 1 ELSE 0)
    BY <1>3, <1>4, <1>5, OneMember
  <1>8. /\ IsFiniteSet(Holders') /\ Cardinality(Holders) \in Nat /\ Cardinality(Holders') \in Nat
        /\ Cardinality(Holders') = Cardinality(Holders)
                + (IF Holds(r)' THEN 1 ELSE 0) - (IF Holds(r) THEN 1 ELSE 0)
    BY <1>3, <1>4, <1>6, OneMember
  <1> QED  BY <1>7, <1>8

\* Counters that follow the step of r go on counting.
LEMMA CountersFollow ==
  ASSUME Core, NEW r \in Request, Moves(r),
         waiting' = waiting + (IF Waits(r)' THEN 1 ELSE 0) - (IF Waits(r) THEN 1 ELSE 0),
         free' = free - (IF Holds(r)' THEN 1 ELSE 0) + (IF Holds(r) THEN 1 ELSE 0)
  PROVE  CountInv' /\ waiting' \in Nat /\ free' \in Int /\ free' <= MaxInFlight
  <1>1. waiting = Cardinality(Waiters) /\ free = MaxInFlight - Cardinality(Holders)
    BY DEF Core, CountInv
  <1>2. waiting' = Cardinality(Waiters)' /\ free' = MaxInFlight - Cardinality(Holders)'
    BY <1>1, Counting DEF Core
  <1> QED  BY <1>2, Counting DEF Core, CountInv

\* The queue stays when r neither joins nor leaves it.
LEMMA QueueStays ==
  ASSUME Core, NEW r \in Request, Moves(r), UNCHANGED queue,
         request[r].step # "queued", request'[r].step # "queued"
  PROVE  QueueInv'
  <1>1. At("queued")' = At("queued")
    BY DEF Moves, At
  <1> QED  BY <1>1 DEF Core, QueueInv

LEMMA QueueJoined ==
  ASSUME Core, NEW r \in Request, Moves(r), queue' = Append(queue, r),
         request[r].step # "queued", request'[r].step = "queued"
  PROVE  QueueInv' /\ queue' \in Seq(Request)
  <1>1. At("queued")' = At("queued") \cup {r} /\ r \notin At("queued")
    BY DEF Moves, At
  <1>2. /\ queue \in Seq(Request) /\ queue' \in Seq(Request) /\ Len(queue') = Len(queue) + 1
        /\ \A i \in 1 .. Len(queue) : queue'[i] = queue[i]
        /\ queue'[Len(queue) + 1] = r
    BY DEF Core, TypeOK
  <1>3. {queue'[i] : i \in 1 .. Len(queue')} = {queue[i] : i \in 1 .. Len(queue)} \cup {r}
    BY <1>2
  <1>4. \A i \in 1 .. Len(queue) : queue[i] # r
    BY <1>1 DEF Core, QueueInv
  <1> QED  BY <1>1, <1>2, <1>3, <1>4 DEF Core, QueueInv

\* The queue without its i-th member.
LEMMA QueueLeft ==
  ASSUME Core, NEW r \in Request, Moves(r), NEW i \in 1 .. Len(queue), queue[i] = r,
         queue' \in Seq(Request), Len(queue') = Len(queue) - 1,
         \A j \in 1 .. Len(queue) - 1 : queue'[j] = queue[IF j < i THEN j ELSE j + 1],
         request'[r].step # "queued"
  PROVE  QueueInv'
  <1>1. At("queued")' = At("queued") \ {r}
    BY DEF Moves, At
  <1>2. /\ Len(queue) \in Nat /\ Len(queue') = Len(queue) - 1
        /\ \A j, k \in 1 .. Len(queue) : queue[j] = queue[k] => j = k
    BY DEF Core, TypeOK, QueueInv
  <1>3. \A j, k \in 1 .. Len(queue') : queue'[j] = queue'[k] => j = k
    BY <1>2
  <1>4. \A j \in 1 .. Len(queue') : queue'[j] \in At("queued") \ {r}
    <2>1. \A j \in 1 .. Len(queue) : queue[j] \in At("queued")
      BY DEF Core, QueueInv
    <2> QED  BY <1>2, <2>1
  <1>5. ASSUME NEW s \in At("queued") \ {r}  PROVE \E j \in 1 .. Len(queue') : queue'[j] = s
    <2>1. PICK k \in 1 .. Len(queue) : queue[k] = s
      BY DEF Core, QueueInv
    <2>2. k # i
      BY <2>1
    <2>3. CASE k < i
      BY <1>2, <2>1, <2>3
    <2>4. CASE k > i
      <3>1. k - 1 \in 1 .. Len(queue') /\ ~(k - 1 < i) /\ k - 1 + 1 = k
        BY <1>2, <2>4
      <3> QED  BY <1>2, <2>1, <3>1
    <2> QED  BY <2>2, <2>3, <2>4
  <1> QED  BY <1>1, <1>3, <1>4, <1>5 DEF QueueInv

\* Taking a member out of a sequence.
LEMMA Removal ==
  ASSUME NEW s \in Seq(Request), NEW i \in 1 .. Len(s)
  PROVE  /\ RemoveAt(s, i) \in Seq(Request)
         /\ Len(RemoveAt(s, i)) = Len(s) - 1
         /\ \A j \in 1 .. Len(s) - 1 : RemoveAt(s, i)[j] = s[IF j < i THEN j ELSE j + 1]
  <1> DEFINE front == SubSeq(s, 1, i - 1)
             back == SubSeq(s, i + 1, Len(s))
  <1>1. /\ front \in Seq(Request) /\ Len(front) = i - 1
        /\ \A j \in 1 .. i - 1 : front[j] = s[j]
    OBVIOUS
  <1>2. /\ back \in Seq(Request) /\ Len(back) = Len(s) - i
        /\ \A j \in 1 .. Len(s) - i : back[j] = s[i + j]
    OBVIOUS
  <1>3. RemoveAt(s, i) = front \o back
    BY DEF RemoveAt
  <1> HIDE DEF front, back
  <1>4. /\ front \o back \in Seq(Request) /\ Len(front \o back) = Len(s) - 1
        /\ \A j \in 1 .. Len(s) - 1 : (front \o back)[j] =
               IF j <= i - 1 THEN front[j] ELSE back[j - (i - 1)]
    <2>1. front \in Seq(Request) /\ Len(front) = i - 1
      BY <1>1
    <2>2. back \in Seq(Request) /\ Len(back) = Len(s) - i
      BY <1>2
    <2>3. PICK l \in Nat, m \in Nat : l = i - 1 /\ m = Len(s) - i /\ l + m = Len(s) - 1
      <3>1. i - 1 \in Nat /\ Len(s) - i \in Nat /\ (i - 1) + (Len(s) - i) = Len(s) - 1
        OBVIOUS
      <3> QED  BY <3>1
    <2>4. /\ front \o back \in Seq(Request) /\ Len(front \o back) = l + m
          /\ \A j \in 1 .. l + m : (front \o back)[j] = IF j <= l THEN front[j] ELSE back[j - l]
      BY <2>1, <2>2, <2>3
    <2> QED  BY <2>3, <2>4
  <1>5. ASSUME NEW j \in 1 .. Len(s) - 1
        PROVE  (front \o back)[j] = s[IF j < i THEN j ELSE j + 1]
    <2>1. CASE j < i
      BY <1>1, <1>4, <2>1
    <2>2. CASE ~(j < i)
      <3>1. j - (i - 1) \in 1 .. Len(s) - i /\ i + (j - (i - 1)) = j + 1
        BY <2>2
      <3> QED  BY <1>2, <1>4, <2>2, <3>1
    <2> QED  BY <2>1, <2>2
  <1> QED  BY <1>3, <1>4, <1>5

-----------------------------------------------------------------------------
(* The steps and the counters. *)

\* A turn of _wait_for_start, for a request that has its slot.
LEMMA Reserving ==
  ASSUME TypeOK, NEW r \in Request, NEW attempt \in 0 .. MaxRetries, NEW counted \in Int,
         Reserve(r, attempt, counted)
  PROVE  /\ Moves(r) /\ Holds(r)' /\ request'[r].step \in {"sleeping", "running"}
         /\ waiting' = counted - (IF Waits(r)' THEN 0 ELSE 1)
         /\ next' \in Nat /\ debt' \in Nat
  <1>1. Larger(next, pause) \in Nat
    BY DEF TypeOK, Larger
  <1>2. PICK step \in {"sleeping", "running"} :
            request' = [request EXCEPT ![r] = [step |-> step, attempt |-> attempt,
                            timer |-> Larger(next, pause), held |-> FALSE]]
    BY DEF Reserve
  <1>3. Moves(r) /\ request'[r].step = step
    BY <1>1, <1>2 DEF TypeOK, Moves, RequestState
  <1>4. request'[r].step = IF Larger(next, pause) = 0 THEN "running" ELSE "sleeping"
    BY DEF Reserve, TypeOK
  <1> QED  BY <1>1, <1>3, <1>4 DEF Reserve, Waits, Holds, TypeOK

\* The core after a step of r that follows its counters.
LEMMA CoreFollows ==
  ASSUME Core, NEW r \in Request, Moves(r),
         waiting' = waiting + (IF Waits(r)' THEN 1 ELSE 0) - (IF Waits(r) THEN 1 ELSE 0),
         free' = free - (IF Holds(r)' THEN 1 ELSE 0) + (IF Holds(r) THEN 1 ELSE 0),
         waiting' <= MaxWaiting, free' >= 0,
         queue' \in Seq(Request), QueueInv', {next', pause', debt'} \subseteq Nat,
         limiting' \in BOOLEAN, cancels' \in 0 .. MaxCancel, RetryInv'
  PROVE  Core'
  BY CountersFollow DEF Core, TypeOK, Moves

LEMMA EnterKeeps ==
  ASSUME Core, NEW r \in Request, NEW attempt \in 0 .. MaxRetries, Enter(r, attempt),
         request[r].step \in {"idle", "backoff"}
  PROVE  Core'
  <1>1. ~Waits(r) /\ ~Holds(r)
    BY DEF Waits, Holds
  <1>2. /\ TypeOK /\ waiting \in Nat /\ waiting + 1 <= MaxWaiting
        /\ queue \in Seq(Request) /\ free \in Nat
        /\ {next, pause', debt} \subseteq Nat
        /\ limiting' \in BOOLEAN /\ cancels' \in 0 .. MaxCancel
    BY DEF Core, TypeOK, Enter
  <1>3. CASE free > 0 /\ queue = <<>>
    <2> DEFINE counted == waiting + 1
    <2>1. counted \in Int /\ counted = waiting + 1
      BY <1>2
    <2>2. free' = free - 1 /\ Reserve(r, attempt, counted) /\ UNCHANGED queue
      BY <1>3 DEF Enter
    <2> HIDE DEF counted
    <2>3. /\ Moves(r) /\ Holds(r)' /\ request'[r].step \in {"sleeping", "running"}
          /\ waiting' = counted - (IF Waits(r)' THEN 0 ELSE 1)
          /\ next' \in Nat /\ debt' \in Nat
      BY <1>2, <2>1, <2>2, Reserving
    <2>4. QueueInv' /\ RetryInv'
      BY <2>2, <2>3, QueueStays DEF Core, RetryInv, Moves, At, Reserve
    <2>5. /\ waiting' = waiting + (IF Waits(r)' THEN 1 ELSE 0) - (IF Waits(r) THEN 1 ELSE 0)
          /\ waiting' <= MaxWaiting /\ free' >= 0
          /\ free' = free - (IF Holds(r)' THEN 1 ELSE 0) + (IF Holds(r) THEN 1 ELSE 0)
      BY <1>1, <1>2, <1>3, <2>1, <2>2, <2>3
    <2> QED  BY <1>2, <2>2, <2>3, <2>4, <2>5, CoreFollows
  <1>4. CASE ~(free > 0 /\ queue = <<>>)
    <2>1. /\ queue' = Append(queue, r) /\ waiting' = waiting + 1
          /\ request' = [request EXCEPT ![r] =
                   [IdleRequest EXCEPT !.step = "queued", !.attempt = attempt]]
          /\ UNCHANGED <<free, next, debt>>
      BY <1>4 DEF Enter
    <2>2. Moves(r) /\ request'[r].step = "queued"
      BY <2>1 DEF Core, TypeOK, Moves, RequestState, IdleRequest
    <2>3. Waits(r)' /\ ~Holds(r)'
      BY <2>2 DEF Waits, Holds
    <2>4. QueueInv' /\ queue' \in Seq(Request)
      BY <2>1, <2>2, QueueJoined
    <2>5. RetryInv'
      BY <2>1, <2>2 DEF Core, RetryInv, At, TypeOK
    <2>6. /\ waiting' = waiting + (IF Waits(r)' THEN 1 ELSE 0) - (IF Waits(r) THEN 1 ELSE 0)
          /\ waiting' <= MaxWaiting /\ free' >= 0
          /\ free' = free - (IF Holds(r)' THEN 1 ELSE 0) + (IF Holds(r) THEN 1 ELSE 0)
      BY <1>1, <1>2, <2>1, <2>3
    <2> QED  BY <1>2, <2>1, <2>2, <2>4, <2>5, <2>6, CoreFollows
  <1> QED  BY <1>3, <1>4

LEMMA AdmitKeeps ==
  ASSUME Core, Admit
  PROVE  Core'
  <1>1. /\ TypeOK /\ waiting \in Int /\ waiting <= MaxWaiting /\ free \in Nat /\ free > 0
        /\ queue \in Seq(Request) /\ queue # <<>> /\ Len(queue) \in Nat \ {0}
        /\ free' = free - 1 /\ queue' = Tail(queue)
        /\ {next, pause', debt} \subseteq Nat
        /\ limiting' \in BOOLEAN /\ cancels' \in 0 .. MaxCancel
    BY DEF Core, TypeOK, Admit
  <1>2. PICK r \in Request : r = Head(queue) /\ r = queue[1]
    BY <1>1
  <1>3. request[r].step = "queued" /\ request[r].attempt \in 0 .. MaxRetries
    BY <1>1, <1>2 DEF Core, QueueInv, At, TypeOK, RequestState
  <1>4. PICK attempt \in 0 .. MaxRetries : Reserve(r, attempt, waiting)
    BY <1>2, <1>3 DEF Admit
  <1>5. /\ Moves(r) /\ Holds(r)' /\ request'[r].step \in {"sleeping", "running"}
        /\ waiting' = waiting - (IF Waits(r)' THEN 0 ELSE 1)
        /\ next' \in Nat /\ debt' \in Nat
    BY <1>1, <1>2, <1>4, Reserving
  <1>6. Waits(r) /\ ~Holds(r)
    BY <1>3 DEF Waits, Holds
  <1>7. /\ 1 \in 1 .. Len(queue) /\ queue[1] = r /\ queue' \in Seq(Request)
        /\ Len(queue') = Len(queue) - 1
        /\ \A j \in 1 .. Len(queue) - 1 : queue'[j] = queue[IF j < 1 THEN j ELSE j + 1]
    BY <1>1, <1>2
  <1>8. QueueInv'
    BY <1>2, <1>5, <1>7, QueueLeft
  <1>9. RetryInv'
    BY <1>2, <1>5 DEF Core, RetryInv, Moves, At
  <1>10. /\ waiting' = waiting + (IF Waits(r)' THEN 1 ELSE 0) - (IF Waits(r) THEN 1 ELSE 0)
         /\ waiting' <= MaxWaiting /\ free' >= 0
         /\ free' = free - (IF Holds(r)' THEN 1 ELSE 0) + (IF Holds(r) THEN 1 ELSE 0)
    BY <1>1, <1>5, <1>6
  <1> QED  BY <1>1, <1>2, <1>5, <1>7, <1>8, <1>9, <1>10, CoreFollows

LEMMA WakeKeeps ==
  ASSUME Core, NEW r \in Request, Wake(r)
  PROVE  Core'
  <1>1. /\ TypeOK /\ waiting \in Int /\ waiting <= MaxWaiting /\ free \in Nat
        /\ queue' \in Seq(Request) /\ queue' = queue /\ free' = free
        /\ {next, pause', debt} \subseteq Nat
        /\ limiting' \in BOOLEAN /\ cancels' \in 0 .. MaxCancel
        /\ request[r].step = "sleeping" /\ request[r] \in RequestState
        /\ request \in [Request -> RequestState]
    BY DEF Core, TypeOK, Wake
  <1>2. Waits(r) /\ Holds(r)
    BY <1>1 DEF Waits, Holds
  <1>3. /\ Moves(r) /\ Holds(r)' /\ request'[r].step \in {"sleeping", "running"}
        /\ waiting' = waiting - (IF Waits(r)' THEN 0 ELSE 1)
        /\ next' \in Nat /\ debt' \in Nat
    <2>1. CASE request[r].held
      <3>1. Reserve(r, request[r].attempt, waiting)
        BY <2>1 DEF Wake
      <3>2. request[r].attempt \in 0 .. MaxRetries
        BY <1>1 DEF RequestState
      <3> QED  BY <1>1, <3>1, <3>2, Reserving
    <2>2. CASE ~request[r].held
      <3>1. /\ request' = [request EXCEPT ![r].step = "running"]
            /\ waiting' = waiting - 1 /\ debt' = debt + Delay /\ next' = next
        BY <2>2 DEF Wake
      <3>2. Moves(r) /\ request'[r].step = "running"
        BY <1>1, <3>1 DEF Moves, RequestState
      <3> QED  BY <1>1, <3>1, <3>2 DEF Waits, Holds
    <2> QED  BY <2>1, <2>2
  <1>4. QueueInv'
    BY <1>1, <1>3, QueueStays
  <1>5. RetryInv'
    BY <1>3 DEF Core, RetryInv, Moves, At, Wake, Reserve, TypeOK
  <1>6. /\ waiting' = waiting + (IF Waits(r)' THEN 1 ELSE 0) - (IF Waits(r) THEN 1 ELSE 0)
        /\ waiting' <= MaxWaiting /\ free' >= 0
        /\ free' = free - (IF Holds(r)' THEN 1 ELSE 0) + (IF Holds(r) THEN 1 ELSE 0)
    BY <1>1, <1>2, <1>3
  <1> QED  BY <1>1, <1>3, <1>4, <1>5, <1>6, CoreFollows

\* An answer: the request retries after a while, or is over.
LEMMA LeaveKeeps ==
  ASSUME Core, NEW r \in Request, LeaveSlot(r), Moves(r), pause' \in Nat, RetryInv',
         request'[r].step \in {"idle", "backoff"}
  PROVE  Core'
  <1>1. /\ TypeOK /\ waiting \in Int /\ waiting <= MaxWaiting /\ waiting' = waiting
        /\ free \in Nat /\ free' = free + 1
        /\ queue' \in Seq(Request) /\ UNCHANGED queue
        /\ {next', pause', debt'} \subseteq Nat
        /\ limiting' \in BOOLEAN /\ cancels' \in 0 .. MaxCancel
        /\ request[r].step = "running"
    BY DEF Core, TypeOK, LeaveSlot
  <1>2. ~Waits(r) /\ Holds(r) /\ ~Waits(r)' /\ ~Holds(r)'
    BY <1>1 DEF Waits, Holds
  <1>3. QueueInv'
    BY <1>1, QueueStays
  <1> QED  BY <1>1, <1>2, <1>3, CoreFollows

LEMMA AgainMoves ==
  ASSUME Core, NEW r \in Request, NEW seconds \in Nat,
         NEW table \in [Request -> RequestState], Again(r, table, seconds),
         \A s \in Request : table[s].step = request[s].step /\ table[s].attempt = request[s].attempt
  PROVE  Moves(r) /\ RetryInv' /\ request'[r].step \in {"idle", "backoff"}
  <1> DEFINE attempt == request[r].attempt
             timer == Larger(Backoff(attempt), seconds)
  <1>1. attempt \in 0 .. MaxRetries /\ timer \in Nat
    BY RetryTimer DEF Core, TypeOK, RequestState
  <1>2. request' = [table EXCEPT ![r] =
            IF attempt < MaxRetries
            THEN [step |-> "backoff", attempt |-> attempt, timer |-> timer, held |-> FALSE]
            ELSE IdleRequest]
    BY DEF Again
  <1> HIDE DEF attempt, timer
  <1> QED  BY <1>1, <1>2 DEF Moves, Core, RetryInv, At, RequestState, IdleRequest

\* Whatever comes after a failure, it is neither sleep nor a request.
LEMMA AgainTable ==
  ASSUME NEW r \in Request, NEW table, NEW seconds, DOMAIN table = Request,
         Again(r, table, seconds)
  PROVE  /\ request'[r].step \in {"idle", "backoff"}
         /\ \A s \in Request \ {r} : request'[s] = table[s]
  BY DEF Again, IdleRequest

LEMMA RetryKeeps ==
  ASSUME Core, NEW r \in Request, Retry(r)
  PROVE  Core'
  <1>1. /\ TypeOK /\ request[r].step = "backoff" /\ request[r].attempt \in 0 .. MaxRetries
        /\ request[r].attempt < MaxRetries
    BY DEF Core, TypeOK, Retry, RetryInv, At, RequestState
  <1>2. CASE waiting < MaxWaiting
    <2> DEFINE attempt == request[r].attempt + 1
    <2>1. Enter(r, attempt)
      BY <1>2 DEF Retry
    <2>2. attempt \in 0 .. MaxRetries
      BY <1>1
    <2> HIDE DEF attempt
    <2> QED  BY <1>1, <2>1, <2>2, EnterKeeps
  <1>3. CASE ~(waiting < MaxWaiting)
    <2>1. /\ request' = [request EXCEPT ![r] = IdleRequest]
          /\ UNCHANGED <<queue, free, waiting, next, pause, limiting, debt, cancels>>
      BY <1>3 DEF Retry
    <2>2. Moves(r) /\ request'[r].step = "idle" /\ RetryInv'
      BY <1>1, <2>1 DEF Moves, TypeOK, RequestState, IdleRequest, Core, RetryInv, At
    <2>3. ~Waits(r) /\ ~Holds(r) /\ ~Waits(r)' /\ ~Holds(r)'
      BY <1>1, <2>2 DEF Waits, Holds
    <2>4. /\ waiting' \in Nat /\ waiting' <= MaxWaiting /\ free' \in Nat
          /\ queue' \in Seq(Request) /\ {next', pause', debt'} \subseteq Nat
          /\ limiting' \in BOOLEAN /\ cancels' \in 0 .. MaxCancel
      BY <1>1, <2>1 DEF TypeOK
    <2>5. QueueInv'
      BY <1>1, <2>1, <2>2, QueueStays
    <2> QED  BY <2>1, <2>2, <2>3, <2>4, <2>5, CoreFollows
  <1> QED  BY <1>2, <1>3

LEMMA CancelKeeps ==
  ASSUME Core, NEW r \in Request, Cancel(r)
  PROVE  Core'
  <1>1. /\ TypeOK /\ request' = [request EXCEPT ![r] = IdleRequest]
        /\ waiting \in Nat /\ waiting <= MaxWaiting /\ free \in Nat /\ queue \in Seq(Request)
        /\ {next', pause', debt'} \subseteq Nat /\ limiting' \in BOOLEAN
        /\ cancels' \in 0 .. MaxCancel
        /\ free' = IF Holds(r) THEN free + 1 ELSE free
        /\ waiting' = IF Waits(r) THEN waiting - 1 ELSE waiting
        /\ LeaveQueue(r)
    BY DEF Core, TypeOK, Cancel, Waits, Holds
  <1>2. Moves(r) /\ request'[r].step = "idle" /\ RetryInv'
    BY <1>1 DEF Moves, TypeOK, RequestState, IdleRequest, Core, RetryInv, At
  <1>3. ~Waits(r)' /\ ~Holds(r)'
    BY <1>2 DEF Waits, Holds
  <1>4. QueueInv' /\ queue' \in Seq(Request)
    <2>1. CASE request[r].step = "queued"
      <3>1. PICK i \in 1 .. Len(queue) : queue[i] = r /\ queue' = RemoveAt(queue, i)
        BY <1>1, <2>1 DEF LeaveQueue
      <3> QED  BY <1>1, <1>2, <3>1, Removal, QueueLeft
    <2>2. CASE request[r].step # "queued"
      <3>1. UNCHANGED queue
        BY <1>1, <2>2 DEF LeaveQueue
      <3> QED  BY <1>1, <1>2, <2>2, <3>1, QueueStays
    <2> QED  BY <2>1, <2>2
  <1>5. /\ waiting' = waiting + (IF Waits(r)' THEN 1 ELSE 0) - (IF Waits(r) THEN 1 ELSE 0)
        /\ waiting' <= MaxWaiting /\ free' >= 0
        /\ free' = free - (IF Holds(r)' THEN 1 ELSE 0) + (IF Holds(r) THEN 1 ELSE 0)
    BY <1>1, <1>3
  <1> QED  BY <1>1, <1>2, <1>4, <1>5, CoreFollows

LEMMA TickKeeps ==
  ASSUME Core, Tick
  PROVE  Core'
  <1>1. /\ \A r \in Request : /\ request'[r] = [request[r] EXCEPT !.timer = Less(@)]
                              /\ request'[r].step = request[r].step
                              /\ request'[r].attempt = request[r].attempt
        /\ UNCHANGED <<queue, free, waiting, limiting, cancels>>
    BY DEF Tick, Core, TypeOK, RequestState
  <1>2. \A n \in Nat : Less(n) \in Nat
    BY DEF Less
  <1>3. TypeOK'
    BY <1>1, <1>2 DEF Core, TypeOK, RequestState, Tick
  <1>4. \A step : At(step)' = At(step)
    BY <1>1 DEF At
  <1>5. RetryInv'
    BY <1>1, <1>4 DEF Core, RetryInv, At
  <1>6. Waiters' = Waiters /\ Holders' = Holders /\ At("queued")' = At("queued")
    BY <1>4 DEF Waiters, Holders
  <1> QED  BY <1>1, <1>3, <1>5, <1>6 DEF Core, CountInv, QueueInv

\* Every step keeps the types and the counters.
LEMMA CoreStep == Core /\ [Next]_vars => Core'
  <1> SUFFICES ASSUME Core, [Next]_vars PROVE Core'
    OBVIOUS
  <1>1. TypeOK
    BY DEF Core
  <1>2. ASSUME NEW r \in Request, Search(r)  PROVE Core'
    BY <1>2, EnterKeeps DEF Search
  <1>3. ASSUME NEW r \in Request, Answered(r)  PROVE Core'
    <2>1. Moves(r) /\ request'[r].step = "idle" /\ RetryInv'
      BY <1>1, <1>3 DEF Answered, Moves, TypeOK, RequestState, IdleRequest, Core, RetryInv, At
    <2> QED  BY <1>1, <1>3, <2>1, LeaveKeeps DEF Answered, TypeOK
  <1>4. ASSUME NEW r \in Request, Failed(r)  PROVE Core'
    <2>1. Moves(r) /\ RetryInv' /\ request'[r].step \in {"idle", "backoff"}
      BY <1>1, <1>4, AgainMoves DEF Failed, TypeOK
    <2> QED  BY <1>1, <1>4, <2>1, LeaveKeeps DEF Failed, TypeOK
  <1>5. ASSUME NEW r \in Request, NEW seconds \in 1 .. MaxPause, RateLimited(r, seconds)
        PROVE  Core'
    <2>1. Paused(seconds) \in [Request -> RequestState]
      BY <1>1 DEF Paused, TypeOK, RequestState
    <2>2. \A s \in Request : /\ Paused(seconds)[s].step = request[s].step
                            /\ Paused(seconds)[s].attempt = request[s].attempt
      BY <1>1 DEF Paused, TypeOK, RequestState
    <2>3. Moves(r) /\ RetryInv' /\ request'[r].step \in {"idle", "backoff"}
      BY <1>5, <2>1, <2>2, AgainMoves DEF RateLimited
    <2>4. pause' \in Nat
      BY <1>1, <1>5 DEF RateLimited, TypeOK, Larger
    <2> QED  BY <1>5, <2>3, <2>4, LeaveKeeps DEF RateLimited
  <1>6. CASE KufarChanges \/ UNCHANGED vars
    <2>1. /\ UNCHANGED <<request, queue, free, waiting, next, pause, debt, cancels>>
          /\ limiting' \in BOOLEAN
      BY <1>1, <1>6 DEF KufarChanges, vars, TypeOK
    <2>2. \A step : At(step)' = At(step)
      BY <2>1 DEF At
    <2>3. TypeOK'
      BY <1>1, <2>1 DEF TypeOK
    <2> QED  BY <2>1, <2>2, <2>3 DEF Core, RetryInv, CountInv, QueueInv, Waiters, Holders
  <1> QED
    BY <1>2, <1>3, <1>4, <1>5, <1>6, WakeKeeps, RetryKeeps, CancelKeeps, AdmitKeeps, TickKeeps
    DEF Next

LEMMA CoreInit == Init => Core
  <1> SUFFICES ASSUME Init PROVE Core
    OBVIOUS
  <1>1. \A step : At(step) = IF step = "idle" THEN Request ELSE {}
    BY DEF Init, At, IdleRequest
  <1>2. Waiters = {} /\ Holders = {} /\ At("queued") = {} /\ At("backoff") = {}
    BY <1>1 DEF Waiters, Holders
  <1>3. TypeOK
    BY DEF Init, TypeOK, RequestState, IdleRequest
  <1> QED  BY <1>2, <1>3, FS_EmptySet DEF Init, Core, RetryInv, CountInv, QueueInv

LEMMA CoreInvariance == Spec => []Core
  BY CoreInit, CoreStep, PTL DEF Spec

\* _waiting counts exactly the requests that have not started, and every slot that is
\* taken belongs to a request, wherever requests are cancelled, refused or held.
THEOREM CountersNeverLeak == Spec => []CountersExact
  <1>1. Core => CountersExact
    BY DEF Core, CountInv, QueueInv, CountersExact, Waiters, Holders
  <1> QED  BY <1>1, CoreInvariance, PTL

-----------------------------------------------------------------------------
(* Pauses. *)

LEMMA SleepReserved ==
  ASSUME Core, SleepInv, NEW r \in Request, NEW attempt, NEW counted, Reserve(r, attempt, counted),
         UNCHANGED pause
  PROVE  SleepInv'
  <1> DEFINE start == Larger(next, pause)
  <1>1. /\ request \in [Request -> RequestState] /\ next \in Nat /\ pause \in Nat
        /\ start \in Nat /\ next <= start /\ pause <= start
    BY DEF Core, TypeOK, Larger
  <1>2. /\ next' = start + Delay
        /\ request' = [request EXCEPT ![r] =
               [step |-> IF start = 0 THEN "running" ELSE "sleeping",
                attempt |-> attempt, timer |-> start, held |-> FALSE]]
    BY DEF Reserve
  <1> HIDE DEF start
  <1>3. ASSUME NEW s \in Sleepers', s # r
        PROVE  s \in Sleepers /\ request'[s] = request[s] /\ request[s].timer \in Nat
    BY <1>1, <1>2, <1>3 DEF Sleepers, At, RequestState
  <1>4. r \in Sleepers' => request'[r].timer = start
    BY <1>1, <1>2 DEF Sleepers, At
  <1> QED  BY <1>1, <1>2, <1>3, <1>4 DEF SleepInv

\* A step that only lets sleepers go or holds more of them.
LEMMA SleepLeft ==
  ASSUME Core, SleepInv, Sleepers' \subseteq Sleepers, UNCHANGED next,
         \A s \in Sleepers' : request'[s].timer = request[s].timer,
         \A s \in Sleepers' : request'[s].held \/ pause' <= request'[s].timer
  PROVE  SleepInv'
  <1>1. ASSUME NEW s \in Sleepers'
        PROVE  request'[s].timer = 0 \/ request'[s].timer + Delay <= next'
    <2>1. request[s].timer = 0 \/ request[s].timer + Delay <= next
      BY <1>1 DEF SleepInv
    <2>2. request'[s].timer = request[s].timer
      OBVIOUS
    <2> QED  BY <2>1, <2>2
  <1> QED  BY <1>1 DEF SleepInv

LEMMA SleepTicked ==
  ASSUME Core, SleepInv, Tick
  PROVE  SleepInv'
  <1>1. /\ request \in [Request -> RequestState] /\ next \in Nat /\ pause \in Nat
        /\ pause' = Less(pause) /\ next' = Less(next)
    BY DEF Core, TypeOK, Tick
  <1>2. ASSUME NEW s \in Sleepers'
        PROVE  /\ s \in Sleepers /\ request[s].timer \in Nat
               /\ request'[s].timer = Less(request[s].timer)
               /\ request'[s].held = request[s].held
    BY <1>1 DEF Sleepers, At, RequestState, Tick
  <1> QED  BY <1>1, <1>2 DEF SleepInv, Less

\* Every step keeps the sleepers out of the pause.
LEMMA SleepStep == Core /\ SleepInv /\ [Next]_vars => SleepInv'
  <1> SUFFICES ASSUME Core, SleepInv, [Next]_vars PROVE SleepInv'
    OBVIOUS
  <1>1. /\ TypeOK /\ request \in [Request -> RequestState]
        /\ \A s \in Sleepers :
              /\ s \in Request
              /\ request[s].step = "sleeping"
              /\ request[s].held \/ pause <= request[s].timer
    BY DEF Core, TypeOK, SleepInv, Sleepers, At
  <1>2. ASSUME NEW r \in Request, UNCHANGED <<next, pause>>, request'[r].step # "sleeping",
               \A s \in Request \ {r} : request'[s] = request[s]
        PROVE  SleepInv'
    <2>1. \A s \in Sleepers' : s \in Sleepers /\ request'[s] = request[s]
      BY <1>2 DEF Sleepers, At
    <2> QED  BY <1>1, <1>2, <2>1, SleepLeft
  <1>3. ASSUME NEW r \in Request, NEW attempt, Enter(r, attempt)  PROVE SleepInv'
    <2>1. CASE free > 0 /\ queue = <<>>
      BY <1>3, <2>1, SleepReserved DEF Enter
    <2>2. CASE ~(free > 0 /\ queue = <<>>)
      <3>1. /\ request' = [request EXCEPT ![r] =
                   [IdleRequest EXCEPT !.step = "queued", !.attempt = attempt]]
            /\ UNCHANGED <<next, pause>>
        BY <1>3, <2>2 DEF Enter
      <3> QED  BY <1>1, <1>2, <3>1 DEF IdleRequest
    <2> QED  BY <2>1, <2>2
  <1>4. ASSUME NEW r \in Request, Wake(r)  PROVE SleepInv'
    <2>1. CASE request[r].held
      BY <1>4, <2>1, SleepReserved DEF Wake
    <2>2. CASE ~request[r].held
      <3>1. request' = [request EXCEPT ![r].step = "running"] /\ UNCHANGED <<next, pause>>
        BY <1>4, <2>2 DEF Wake
      <3>2. request'[r].step = "running"
        BY <1>1, <3>1 DEF RequestState
      <3> QED  BY <1>1, <1>2, <3>1, <3>2
    <2> QED  BY <2>1, <2>2
  <1>5. ASSUME NEW r \in Request, Answered(r) \/ Failed(r) \/ Cancel(r)  PROVE SleepInv'
    <2>1. /\ UNCHANGED <<next, pause>>
          /\ \E new : new.step # "sleeping" /\ request' = [request EXCEPT ![r] = new]
      BY <1>5 DEF Answered, Failed, Cancel, LeaveSlot, Again, IdleRequest
    <2> QED  BY <1>1, <1>2, <2>1
  <1>6. ASSUME NEW r \in Request, Retry(r)  PROVE SleepInv'
    <2>1. CASE waiting < MaxWaiting
      BY <1>3, <1>6, <2>1 DEF Retry
    <2>2. CASE ~(waiting < MaxWaiting)
      <3>1. request' = [request EXCEPT ![r] = IdleRequest] /\ UNCHANGED <<next, pause>>
        BY <1>6, <2>2 DEF Retry
      <3> QED  BY <1>1, <1>2, <3>1 DEF IdleRequest
    <2> QED  BY <2>1, <2>2
  <1>7. ASSUME NEW r \in Request, NEW seconds \in 1 .. MaxPause, RateLimited(r, seconds)
        PROVE  SleepInv'
    <2>1. /\ UNCHANGED next /\ pause' = Larger(pause, seconds)
          /\ \E new : /\ new.step # "sleeping"
                     /\ request' = [Paused(seconds) EXCEPT ![r] = new]
      BY <1>7 DEF RateLimited, LeaveSlot, Again, IdleRequest
    <2>2. ASSUME NEW s \in Sleepers'
          PROVE  /\ s \in Sleepers /\ request'[s].timer = request[s].timer
                 /\ request'[s].held \/ pause' <= request[s].timer
      <3>1. s \in Request /\ request'[s].step = "sleeping" /\ s # r
        BY <2>1, <2>2 DEF Sleepers, At, Paused
      <3>2. request'[s] = Paused(seconds)[s] /\ request[s] \in RequestState
        BY <1>1, <2>1, <3>1 DEF Paused
      <3>3. request[s].step = "sleeping"
        BY <3>1, <3>2 DEF Paused
      <3>4. request'[s] = [request[s] EXCEPT !.held = @ \/ pause' > request[s].timer]
        BY <2>1, <3>1, <3>2, <3>3 DEF Paused
      <3>5. /\ request'[s].timer = request[s].timer
            /\ request'[s].held <=> request[s].held \/ pause' > request[s].timer
        BY <3>2, <3>4 DEF RequestState
      <3>6. pause' \in Int /\ request[s].timer \in Int
        BY <1>1, <2>1, <3>2 DEF TypeOK, Larger, RequestState
      <3> QED  BY <3>1, <3>3, <3>5, <3>6 DEF Sleepers, At
    <2> QED  BY <2>1, <2>2, SleepLeft
  <1>8. CASE Admit
    <2>1. PICK r \in Request : r = Head(queue)
      BY <1>1, <1>8 DEF Admit, TypeOK
    <2> QED  BY <1>8, <2>1, SleepReserved DEF Admit
  <1>9. CASE KufarChanges \/ UNCHANGED vars
    BY <1>9 DEF KufarChanges, vars, SleepInv, Sleepers, At
  <1> QED
    BY <1>3, <1>4, <1>5, <1>6, <1>7, <1>8, <1>9, SleepTicked DEF Next, Search

\* A request starts in its turn, at once or after its sleep, and no turn comes in a pause.
LEMMA StartStep ==
  Core /\ SleepInv /\ [Next]_vars => At("running")' \subseteq At("running") \/ pause = 0
  <1> SUFFICES ASSUME Core, SleepInv, [Next]_vars, ~(At("running")' \subseteq At("running"))
               PROVE  pause = 0
    OBVIOUS
  <1>1. /\ request \in [Request -> RequestState] /\ pause \in Nat /\ next \in Nat
        /\ \A s \in Request : request[s].step = "sleeping" =>
               request[s].held \/ pause <= request[s].timer
    BY DEF Core, TypeOK, SleepInv, Sleepers, At
  <1>2. PICK s \in Request : request'[s].step = "running" /\ request[s].step # "running"
    BY DEF At
  <1>3. ASSUME NEW r \in Request, NEW attempt, NEW counted, Reserve(r, attempt, counted)
        PROVE  pause = 0
    <2>1. Larger(next, pause) # 0 => request'[s].step # "running"
      BY <1>1, <1>2, <1>3 DEF Reserve
    <2> QED  BY <1>1, <1>2, <2>1 DEF Larger
  <1>4. ASSUME NEW r \in Request, NEW new, new.step # "running",
               request' = [request EXCEPT ![r] = new]
        PROVE  FALSE
    BY <1>1, <1>2, <1>4
  <1>5. ASSUME NEW r \in Request, NEW attempt, Enter(r, attempt)  PROVE pause = 0
    <2>1. CASE free > 0 /\ queue = <<>>
      BY <1>3, <1>5, <2>1 DEF Enter
    <2>2. CASE ~(free > 0 /\ queue = <<>>)
      <3>1. request' = [request EXCEPT ![r] =
                   [IdleRequest EXCEPT !.step = "queued", !.attempt = attempt]]
        BY <1>5, <2>2 DEF Enter
      <3> QED  BY <1>4, <3>1 DEF IdleRequest
    <2> QED  BY <2>1, <2>2
  <1>6. ASSUME NEW r \in Request, Wake(r)  PROVE pause = 0
    <2>1. CASE request[r].held
      BY <1>3, <1>6, <2>1 DEF Wake
    <2>2. CASE ~request[r].held
      <3>1. /\ request[r].step = "sleeping" /\ request[r].timer = 0
            /\ request' = [request EXCEPT ![r].step = "running"]
        BY <1>6, <2>2 DEF Wake
      <3> QED  BY <1>1, <2>2, <3>1
    <2> QED  BY <2>1, <2>2
  <1>7. ASSUME NEW r \in Request, Answered(r) \/ Failed(r) \/ Cancel(r)  PROVE FALSE
    <2>1. \E new : new.step # "running" /\ request' = [request EXCEPT ![r] = new]
      BY <1>7 DEF Answered, Failed, Cancel, LeaveSlot, Again, IdleRequest
    <2> QED  BY <1>4, <2>1
  <1>8. ASSUME NEW r \in Request, Retry(r)  PROVE pause = 0
    <2>1. CASE waiting < MaxWaiting
      BY <1>5, <1>8, <2>1 DEF Retry
    <2>2. CASE ~(waiting < MaxWaiting)
      BY <1>4, <1>8, <2>2 DEF Retry, IdleRequest
    <2> QED  BY <2>1, <2>2
  <1>9. ASSUME NEW r \in Request, NEW seconds \in 1 .. MaxPause, RateLimited(r, seconds)
        PROVE  FALSE
    <2>1. Again(r, Paused(seconds), seconds) /\ DOMAIN Paused(seconds) = Request
      BY <1>9 DEF RateLimited, Paused
    <2>2. request'[s] = Paused(seconds)[s]
      BY <1>2, <2>1, AgainTable
    <2>3. Paused(seconds)[s].step = request[s].step
      BY <1>1 DEF Paused, RequestState
    <2> QED  BY <1>2, <2>2, <2>3
  <1>10. CASE Admit
    <2>1. PICK r \in Request : r = Head(queue)
      BY <1>10 DEF Admit, Core, TypeOK
    <2> QED  BY <1>3, <1>10, <2>1 DEF Admit
  <1>11. CASE Tick \/ KufarChanges \/ UNCHANGED vars
    BY <1>1, <1>2, <1>11 DEF Tick, KufarChanges, vars, RequestState
  <1> QED
    BY <1>5, <1>6, <1>7, <1>8, <1>9, <1>10, <1>11 DEF Next, Search

LEMMA SleepInvariance == Spec => [](Core /\ SleepInv)
  <1>1. Init => SleepInv
    BY DEF Init, SleepInv, Sleepers, At, IdleRequest
  <1> QED  BY <1>1, CoreInit, CoreStep, SleepStep, PTL DEF Spec

\* No request is sent while the shared pause lasts, whoever sleeps, queues or wakes up
\* across its beginning.
THEOREM NoneSentInPause == Spec => NoStartInPause
  <1>1. Core /\ SleepInv /\ [Next]_vars
          => [At("running")' \subseteq At("running") \/ pause = 0]_vars
    BY StartStep
  <1> QED  BY <1>1, SleepInvariance, PTL DEF Spec, NoStartInPause

-----------------------------------------------------------------------------
(* Bursts. *)

LEMMA Loads ==
  ASSUME NEW S, IsFiniteSet(S)
  PROVE  /\ Load(S) \in Nat /\ Full \in Nat
         /\ Cardinality(S) <= MaxInFlight => Load(S) <= Full
         /\ Delay = 0 => Load(S) = 0
  <1>1. Cardinality(S) \in Nat
    BY FS_CardinalityType
  <1>2. \A a, b \in Nat : a <= b => Delay * a <= Delay * b
    OBVIOUS
  <1> QED  BY <1>1, <1>2 DEF Load, Full

LEMMA LoadOfPart ==
  ASSUME NEW S, IsFiniteSet(S), NEW T \in SUBSET S
  PROVE  IsFiniteSet(T) /\ Load(T) \in Nat /\ Load(T) <= Load(S)
  <1>1. IsFiniteSet(T) /\ Cardinality(T) <= Cardinality(S)
    BY FS_Subset
  <1>2. Cardinality(T) \in Nat /\ Cardinality(S) \in Nat
    BY <1>1, FS_CardinalityType
  <1>3. \A a, b \in Nat : a <= b => Delay * a <= Delay * b
    OBVIOUS
  <1> QED  BY <1>1, <1>2, <1>3 DEF Load

\* One more request loads Delay more.
LEMMA LoadOfOne ==
  ASSUME NEW S, IsFiniteSet(S), NEW x
  PROVE  /\ IsFiniteSet(S \cup {x}) /\ Load(S \cup {x}) <= Load(S) + Delay
         /\ x \in S => Load(S \ {x}) = Load(S) - Delay
  <1>1. \A a \in Nat : Delay * (a + 1) = Delay * a + Delay
    OBVIOUS
  <1>2. CASE x \in S
    <2>1. S \cup {x} = S
      BY <1>2
    <2>2. IsFiniteSet(S \ {x}) /\ Cardinality(S \ {x}) = Cardinality(S) - 1
      BY <1>2, FS_RemoveElement
    <2>3. Cardinality(S) \in Nat /\ Cardinality(S \ {x}) \in Nat
      BY <2>2, FS_CardinalityType
    <2>4. Load(S) \in Nat /\ Load(S \ {x}) \in Nat
      BY <2>2, Loads
    <2>5. Cardinality(S) = Cardinality(S \ {x}) + 1
      BY <2>2, <2>3
    <2>6. Load(S) = Load(S \ {x}) + Delay
      BY <1>1, <2>3, <2>5 DEF Load
    <2>7. Load(S \ {x}) = Load(S) - Delay /\ Load(S) <= Load(S) + Delay
      BY <2>4, <2>6
    <2> QED  BY <2>1, <2>7
  <1>3. CASE x \notin S
    <2>1. IsFiniteSet(S \cup {x}) /\ Cardinality(S \cup {x}) = Cardinality(S) + 1
      BY <1>3, FS_AddElement
    <2>2. Cardinality(S) \in Nat
      BY FS_CardinalityType
    <2> QED  BY <1>1, <1>3, <2>1, <2>2 DEF Load
  <1> QED  BY <1>2, <1>3

\* What the core says of the sleepers: each holds a slot.
LEMMA SleepersLoad ==
  ASSUME Core
  PROVE  /\ IsFiniteSet(Sleepers)
         /\ Load(Sleepers) \in Nat /\ Load(Sleepers) <= Full /\ Full \in Nat
         /\ \A S \in SUBSET Sleepers : Load(S) \in Nat /\ Load(S) <= Load(Sleepers)
         /\ \A s \in Sleepers : request[s].timer \in Nat
         /\ next \in Nat /\ pause \in Nat /\ debt \in Nat
  <1>1. IsFiniteSet(Holders) /\ Cardinality(Holders) = MaxInFlight - free /\ free \in Nat
    BY FS_CardinalityType DEF Core, CountInv, TypeOK
  <1>2. Sleepers \subseteq Holders
    BY DEF Holders, Sleepers
  <1> HIDE DEF Holders, Sleepers
  <1>3. IsFiniteSet(Sleepers) /\ Load(Sleepers) <= Load(Holders) /\ Load(Sleepers) \in Nat
    BY <1>1, <1>2, LoadOfPart
  <1>4. Load(Holders) <= Full /\ Full \in Nat /\ Load(Holders) \in Nat
    BY <1>1, Loads
  <1>5. \A S \in SUBSET Sleepers : Load(S) \in Nat /\ Load(S) <= Load(Sleepers)
    BY <1>3, LoadOfPart
  <1>6. /\ \A s \in Sleepers : request[s].timer \in Nat
        /\ next \in Nat /\ pause \in Nat /\ debt \in Nat
    BY DEF Core, TypeOK, RequestState, Sleepers, At
  <1> QED  BY <1>3, <1>4, <1>5, <1>6

LEMMA DebtReserved ==
  ASSUME Core, SleepInv, DebtInv, NEW r \in Request, NEW attempt, NEW counted,
         Reserve(r, attempt, counted)
  PROVE  DebtInv'
  <1> DEFINE start == Larger(next, pause)
  <1>1. /\ request \in [Request -> RequestState]
        /\ start \in Nat /\ next <= start
        /\ next' = start + Delay
        /\ debt' = IF start = 0 THEN debt + Delay ELSE debt
        /\ request' = [request EXCEPT ![r] =
               [step |-> IF start = 0 THEN "running" ELSE "sleeping",
                attempt |-> attempt, timer |-> start, held |-> FALSE]]
    BY DEF Core, TypeOK, Larger, Reserve
  <1> HIDE DEF start
  <1>2. \A s \in Request \ {r} : request'[s] = request[s]
    BY <1>1
  <1>3. \A s \in Sleepers : request[s].timer = 0 \/ request[s].timer + Delay <= next
    BY DEF SleepInv
  <1>4. /\ debt + Load(Sleepers) <= next + Full /\ debt <= Full + Delay
        /\ \A s \in Sleepers : debt + Load(Upto(s)) <= request[s].timer + Full + Delay
    BY DEF DebtInv
  <1>5. /\ IsFiniteSet(Sleepers) /\ Load(Sleepers) \in Nat /\ Full \in Nat
        /\ \A S \in SUBSET Sleepers : Load(S) \in Nat /\ Load(S) <= Load(Sleepers)
        /\ \A s \in Sleepers : request[s].timer \in Nat
        /\ next \in Nat /\ debt \in Nat
    BY SleepersLoad
  <1>6. CASE start = 0
    <2>1. request'[r].step = "running"
      BY <1>1, <1>6
    <2>2. Sleepers' \subseteq Sleepers
      BY <1>2, <2>1 DEF Sleepers, At
    <2>3. Load(Sleepers)' \in Nat /\ Load(Sleepers)' <= Load(Sleepers)
      BY <1>5, <2>2 DEF Load
    <2>4. ASSUME NEW s \in Sleepers'
          PROVE  /\ request'[s].timer \in Nat
                 /\ Load(Upto(s))' \in Nat /\ Load(Upto(s))' <= Load(Sleepers)
      <3>1. s \in Request /\ s # r /\ s \in Sleepers
        BY <2>1, <2>2, <2>4 DEF Sleepers, At
      <3>2. Upto(s)' \subseteq Sleepers
        BY <2>2 DEF Upto
      <3> QED  BY <1>2, <1>5, <3>1, <3>2 DEF Load
    <2>5. next = 0 /\ next' = Delay /\ debt' = debt + Delay
      BY <1>1, <1>5, <1>6
    <2>6. debt' + Load(Sleepers)' <= next' + Full
      BY <1>4, <1>5, <2>3, <2>5
    <2>7. debt' <= Full + Delay
      BY <1>4, <1>5, <2>5
    <2>8. \A s \in Sleepers' : debt' + Load(Upto(s))' <= request'[s].timer + Full + Delay
      BY <1>4, <1>5, <2>4, <2>5
    <2> QED  BY <2>6, <2>7, <2>8 DEF DebtInv, Full
  <1>7. CASE start # 0
    <2>1. request'[r].step = "sleeping" /\ request'[r].timer = start
      BY <1>1, <1>7
    <2>2. Sleepers' = Sleepers \cup {r}
      BY <1>2, <2>1 DEF Sleepers, At
    <2>3. IsFiniteSet(Sleepers') /\ Load(Sleepers') <= Load(Sleepers) + Delay /\ Load(Sleepers') \in Nat
      BY <1>5, <2>2, LoadOfOne, Loads
    <2>4. debt' = debt /\ next' = start + Delay
      BY <1>1, <1>7
    <2>5. debt' + Load(Sleepers') <= next' + Full
      BY <1>1, <1>4, <1>5, <2>3, <2>4
    <2>6. ASSUME NEW s \in Sleepers'
          PROVE  debt' + Load(Upto(s)') <= request'[s].timer + Full + Delay
      <3>1. IsFiniteSet(Upto(s)') /\ Load(Upto(s)') \in Nat /\ Load(Upto(s)') <= Load(Sleepers')
        BY <2>3, LoadOfPart DEF Upto
      <3>2. CASE s = r
        BY <1>1, <1>4, <1>5, <2>1, <2>3, <2>4, <3>1, <3>2
      <3>3. CASE s # r
        <4>1. s \in Sleepers /\ request'[s] = request[s] /\ request[s].timer \in Nat
          BY <1>2, <1>5, <2>2, <3>3 DEF Sleepers, At
        <4>2. CASE start <= request[s].timer
          <5>1. Delay = 0
            BY <1>1, <1>3, <1>5, <1>7, <4>1, <4>2
          <5>2. Load(Upto(s)') = 0
            BY <3>1, <5>1, Loads
          <5> QED  BY <1>4, <1>5, <2>4, <4>1, <5>2
        <4>3. CASE ~(start <= request[s].timer)
          <5>1. Upto(s)' \subseteq Upto(s)
            <6>1. ASSUME NEW t \in Upto(s)'  PROVE t \in Upto(s)
              <7>1. t \in Sleepers' /\ request'[t].timer <= request[s].timer
                BY <4>1, <6>1 DEF Upto
              <7>2. t # r
                BY <2>1, <4>3, <7>1
              <7>3. t \in Sleepers /\ request'[t] = request[t]
                BY <1>2, <2>2, <7>1, <7>2 DEF Sleepers, At
              <7> QED  BY <7>1, <7>3 DEF Upto
            <6> QED  BY <6>1
          <5>2. IsFiniteSet(Upto(s)) /\ Load(Upto(s)) \in Nat
            BY <1>5, LoadOfPart DEF Upto
          <5>3. Load(Upto(s)') <= Load(Upto(s))
            BY <5>1, <5>2, LoadOfPart
          <5> QED  BY <1>4, <1>5, <2>4, <3>1, <4>1, <5>2, <5>3
        <4> QED  BY <4>2, <4>3
      <3> QED  BY <3>2, <3>3
    <2>7. Load(Sleepers)' = Load(Sleepers') /\ \A s : Load(Upto(s))' = Load(Upto(s)')
      BY DEF Load
    <2> QED  BY <1>4, <2>4, <2>5, <2>6, <2>7 DEF DebtInv, Full
  <1> QED  BY <1>6, <1>7

\* A sleeper that starts pays for its start in advance.
LEMMA DebtStarted ==
  ASSUME Core, DebtInv, NEW r \in Sleepers, request[r].timer = 0,
         request' = [request EXCEPT ![r].step = "running"],
         debt' = debt + Delay, UNCHANGED next
  PROVE  DebtInv'
  <1>1. /\ debt + Load(Sleepers) <= next + Full /\ debt <= Full + Delay
        /\ \A s \in Sleepers : debt + Load(Upto(s)) <= request[s].timer + Full + Delay
    BY DEF DebtInv
  <1>2. /\ IsFiniteSet(Sleepers) /\ Load(Sleepers) \in Nat /\ Full \in Nat
        /\ \A s \in Sleepers : request[s].timer \in Nat
        /\ next \in Nat /\ debt \in Nat
    BY SleepersLoad
  <1>3. request \in [Request -> RequestState] /\ r \in Request
    BY DEF Core, TypeOK, Sleepers, At
  <1>4. request'[r].step = "running" /\ \A s \in Request \ {r} : request'[s] = request[s]
    BY <1>3 DEF RequestState
  <1>5. Sleepers' = Sleepers \ {r}
    BY <1>4 DEF Sleepers, At
  <1>6. Load(Sleepers') = Load(Sleepers) - Delay
    BY <1>2, LoadOfOne, <1>5
  <1>7. ASSUME NEW s \in Sleepers
        PROVE  /\ r \in Upto(s) /\ IsFiniteSet(Upto(s))
               /\ Load(Upto(s)) \in Nat /\ Load(Upto(s) \ {r}) = Load(Upto(s)) - Delay
               /\ Load(Upto(s) \ {r}) \in Nat
    <2>1. r \in Upto(s) /\ Upto(s) \subseteq Sleepers
      BY <1>2 DEF Upto
    <2>2. IsFiniteSet(Upto(s)) /\ Load(Upto(s)) \in Nat
      BY <1>2, <2>1, LoadOfPart
    <2>3. Load(Upto(s) \ {r}) \in Nat
      BY <2>2, LoadOfPart
    <2> QED  BY <2>1, <2>2, <2>3, LoadOfOne
  <1>8. debt' <= Full + Delay
    <2>1. /\ debt + Load(Upto(r)) <= request[r].timer + Full + Delay /\ request[r].timer = 0
          /\ Load(Upto(r)) \in Nat /\ Load(Upto(r)) - Delay \in Nat
      BY <1>1, <1>7
    <2> QED  BY <1>2, <2>1
  <1>9. ASSUME NEW s \in Sleepers'
        PROVE  debt' + Load(Upto(s)') <= request'[s].timer + Full + Delay
    <2>1. s \in Sleepers /\ request'[s] = request[s] /\ s # r
      BY <1>4, <1>5 DEF Sleepers, At
    <2>2. Upto(s)' = Upto(s) \ {r}
      BY <1>4, <1>5, <2>1 DEF Upto, Sleepers, At
    <2>3. /\ Load(Upto(s)') = Load(Upto(s)) - Delay /\ Load(Upto(s)) \in Nat
          /\ debt + Load(Upto(s)) <= request[s].timer + Full + Delay
      BY <1>1, <1>7, <2>1, <2>2
    <2> QED  BY <1>2, <2>1, <2>3
  <1>10. debt' + Load(Sleepers') <= next' + Full
    BY <1>1, <1>2, <1>6
  <1>11. Load(Sleepers)' = Load(Sleepers') /\ \A s : Load(Upto(s))' = Load(Upto(s)')
    BY DEF Load
  <1> QED  BY <1>8, <1>9, <1>10, <1>11 DEF DebtInv, Full

\* A step that only lets sleepers go.
LEMMA DebtLeft ==
  ASSUME Core, DebtInv, Sleepers' \subseteq Sleepers, UNCHANGED <<next, debt>>,
         \A s \in Sleepers' : request'[s].timer = request[s].timer
  PROVE  DebtInv'
  <1>1. /\ debt + Load(Sleepers) <= next + Full /\ debt <= Full + Delay
        /\ \A s \in Sleepers : debt + Load(Upto(s)) <= request[s].timer + Full + Delay
    BY DEF DebtInv
  <1>2. /\ IsFiniteSet(Sleepers) /\ Load(Sleepers) \in Nat /\ Full \in Nat
        /\ \A s \in Sleepers : request[s].timer \in Nat
        /\ next \in Nat /\ debt \in Nat
    BY SleepersLoad
  <1>3. Load(Sleepers') \in Nat /\ Load(Sleepers') <= Load(Sleepers)
    BY <1>2, LoadOfPart
  <1>4. ASSUME NEW s \in Sleepers'
        PROVE  debt' + Load(Upto(s)') <= request'[s].timer + Full + Delay
    <2>1. s \in Sleepers /\ request'[s].timer = request[s].timer
      OBVIOUS
    <2>2. Upto(s)' \subseteq Upto(s) /\ Upto(s) \subseteq Sleepers
      BY <2>1 DEF Upto
    <2>3. IsFiniteSet(Upto(s)) /\ Load(Upto(s)) \in Nat
      BY <1>2, <2>2, LoadOfPart
    <2>4. Load(Upto(s)') \in Nat /\ Load(Upto(s)') <= Load(Upto(s))
      BY <2>2, <2>3, LoadOfPart
    <2> QED  BY <1>1, <1>2, <2>1, <2>3, <2>4
  <1>5. Load(Sleepers)' = Load(Sleepers') /\ \A s : Load(Upto(s))' = Load(Upto(s)')
    BY DEF Load
  <1> QED  BY <1>1, <1>2, <1>3, <1>4, <1>5 DEF DebtInv, Full

LEMMA DebtTicked ==
  ASSUME Core, DebtInv, Tick
  PROVE  DebtInv'
  <1>1. /\ debt + Load(Sleepers) <= next + Full /\ debt <= Full + Delay
        /\ \A s \in Sleepers : debt + Load(Upto(s)) <= request[s].timer + Full + Delay
    BY DEF DebtInv
  <1>2. /\ IsFiniteSet(Sleepers) /\ Load(Sleepers) \in Nat /\ Full \in Nat
        /\ Load(Sleepers) <= Full
        /\ \A S \in SUBSET Sleepers : Load(S) \in Nat /\ Load(S) <= Load(Sleepers)
        /\ \A s \in Sleepers : request[s].timer \in Nat
        /\ next \in Nat /\ debt \in Nat
    BY SleepersLoad
  <1>3. /\ next' = Less(next) /\ debt' = Less(debt)
        /\ \A s \in Request : /\ request'[s].step = request[s].step
                              /\ request'[s].timer = Less(request[s].timer)
    BY DEF Tick, Core, TypeOK, RequestState
  <1>4. Sleepers' = Sleepers /\ Sleepers \subseteq Request
    BY <1>3 DEF Sleepers, At
  <1>5. \A n \in Nat : IF n = 0 THEN Less(n) = 0 ELSE Less(n) = n - 1
    BY DEF Less
  <1>6. ASSUME NEW s \in Sleepers
        PROVE  debt' + Load(Upto(s)') <= request'[s].timer + Full + Delay
    <2>1. Upto(s)' = {t \in Sleepers : Less(request[t].timer) <= Less(request[s].timer)}
      BY <1>3, <1>4 DEF Upto
    <2>2. Upto(s)' \in SUBSET Sleepers /\ Upto(s) \in SUBSET Sleepers
      BY <2>1 DEF Upto
    <2>3. /\ Load(Upto(s)') \in Nat /\ Load(Upto(s)') <= Full /\ request[s].timer \in Nat
          /\ request'[s].timer = Less(request[s].timer)
      BY <1>2, <1>3, <1>4, <2>2
    <2>4. CASE debt = 0
      BY <1>2, <1>3, <1>5, <2>3, <2>4
    <2>5. CASE debt # 0 /\ request[s].timer # 0
      <3>1. Upto(s)' = Upto(s)
        BY <1>2, <1>5, <2>1, <2>5 DEF Upto
      <3> QED  BY <1>1, <1>2, <1>3, <1>5, <2>3, <2>5, <3>1
    <2>6. CASE debt # 0 /\ request[s].timer = 0 /\ \E u \in Sleepers : request[u].timer = 1
      <3>1. PICK u \in Sleepers : request[u].timer = 1
        BY <2>6
      <3>2. Upto(s)' = Upto(u)
        BY <1>2, <1>5, <2>1, <2>6, <3>1 DEF Upto
      <3>3. debt + Load(Upto(u)) <= 1 + Full + Delay
        BY <1>1, <3>1
      <3> QED  BY <1>2, <1>3, <1>5, <2>3, <2>6, <3>2, <3>3
    <2>7. CASE debt # 0 /\ request[s].timer = 0 /\ \A u \in Sleepers : request[u].timer # 1
      <3>1. Upto(s)' = Upto(s)
        BY <1>2, <1>5, <2>1, <2>7 DEF Upto
      <3> QED  BY <1>1, <1>2, <1>3, <1>5, <2>3, <2>7, <3>1
    <2> QED  BY <2>4, <2>5, <2>6, <2>7
  <1>7. debt' + Load(Sleepers') <= next' + Full /\ debt' <= Full + Delay
    BY <1>1, <1>2, <1>3, <1>4, <1>5
  <1>8. Load(Sleepers)' = Load(Sleepers') /\ \A s : Load(Upto(s))' = Load(Upto(s)')
    BY DEF Load
  <1> QED  BY <1>4, <1>6, <1>7, <1>8 DEF DebtInv, Full

\* Every step keeps the debt within what time pays back.
LEMMA DebtStep == Core /\ SleepInv /\ DebtInv /\ [Next]_vars => DebtInv'
  <1> SUFFICES ASSUME Core, SleepInv, DebtInv, [Next]_vars PROVE DebtInv'
    OBVIOUS
  <1>1. TypeOK /\ request \in [Request -> RequestState]
    BY DEF Core, TypeOK
  <1>2. ASSUME NEW r \in Request, UNCHANGED <<next, debt>>, request'[r].step # "sleeping",
               \A s \in Request \ {r} : request'[s] = request[s]
        PROVE  DebtInv'
    <2>1. \A s \in Sleepers' : s \in Sleepers /\ request'[s] = request[s]
      BY <1>2 DEF Sleepers, At
    <2> QED  BY <1>2, <2>1, DebtLeft
  <1>3. ASSUME NEW r \in Request, NEW attempt, Enter(r, attempt)  PROVE DebtInv'
    <2>1. CASE free > 0 /\ queue = <<>>
      BY <1>3, <2>1, DebtReserved DEF Enter
    <2>2. CASE ~(free > 0 /\ queue = <<>>)
      <3>1. /\ request' = [request EXCEPT ![r] =
                   [IdleRequest EXCEPT !.step = "queued", !.attempt = attempt]]
            /\ UNCHANGED <<next, debt>>
        BY <1>3, <2>2 DEF Enter
      <3> QED  BY <1>1, <1>2, <3>1 DEF IdleRequest
    <2> QED  BY <2>1, <2>2
  <1>4. ASSUME NEW r \in Request, Wake(r)  PROVE DebtInv'
    <2>1. CASE request[r].held
      BY <1>4, <2>1, DebtReserved DEF Wake
    <2>2. CASE ~request[r].held
      <3>1. /\ r \in Sleepers /\ request[r].timer = 0
            /\ request' = [request EXCEPT ![r].step = "running"]
            /\ debt' = debt + Delay /\ UNCHANGED next
        BY <1>4, <2>2 DEF Wake, Sleepers, At
      <3> QED  BY <3>1, DebtStarted
    <2> QED  BY <2>1, <2>2
  <1>5. ASSUME NEW r \in Request, Answered(r) \/ Failed(r) \/ Cancel(r)  PROVE DebtInv'
    <2>1. /\ UNCHANGED <<next, debt>>
          /\ \E new : new.step # "sleeping" /\ request' = [request EXCEPT ![r] = new]
      BY <1>5 DEF Answered, Failed, Cancel, LeaveSlot, Again, IdleRequest
    <2> QED  BY <1>1, <1>2, <2>1
  <1>6. ASSUME NEW r \in Request, Retry(r)  PROVE DebtInv'
    <2>1. CASE waiting < MaxWaiting
      BY <1>3, <1>6, <2>1 DEF Retry
    <2>2. CASE ~(waiting < MaxWaiting)
      <3>1. request' = [request EXCEPT ![r] = IdleRequest] /\ UNCHANGED <<next, debt>>
        BY <1>6, <2>2 DEF Retry
      <3> QED  BY <1>1, <1>2, <3>1 DEF IdleRequest
    <2> QED  BY <2>1, <2>2
  <1>7. ASSUME NEW r \in Request, NEW seconds \in 1 .. MaxPause, RateLimited(r, seconds)
        PROVE  DebtInv'
    <2>1. /\ Again(r, Paused(seconds), seconds) /\ DOMAIN Paused(seconds) = Request
          /\ UNCHANGED <<next, debt>>
      BY <1>7 DEF RateLimited, LeaveSlot, Paused
    <2>2. /\ request'[r].step # "sleeping"
          /\ \A s \in Request \ {r} : request'[s] = Paused(seconds)[s]
      BY <2>1, AgainTable
    <2>3. \A s \in Request : /\ Paused(seconds)[s].step = request[s].step
                            /\ Paused(seconds)[s].timer = request[s].timer
      BY <1>1 DEF Paused, RequestState
    <2>4. \A s \in Sleepers' : s \in Sleepers /\ request'[s].timer = request[s].timer
      BY <2>2, <2>3 DEF Sleepers, At
    <2> QED  BY <2>1, <2>4, DebtLeft
  <1>8. CASE Admit
    <2>1. PICK r \in Request : r = Head(queue)
      BY <1>1, <1>8 DEF Admit, TypeOK
    <2> QED  BY <1>8, <2>1, DebtReserved DEF Admit
  <1>9. CASE KufarChanges \/ UNCHANGED vars
    <2>1. UNCHANGED <<request, next, debt>>
      BY <1>9 DEF KufarChanges, vars
    <2> QED  BY <2>1, DebtLeft DEF Sleepers, At
  <1> QED
    BY <1>3, <1>4, <1>5, <1>6, <1>7, <1>8, <1>9, DebtTicked DEF Next, Search

\* Late timers, holds and cancellations bunch the starts of requests, but never by more
\* than the requests in flight and one.
THEOREM BurstsAreBounded == Spec => []BurstBounded
  <1>1. Init => DebtInv
    <2> SUFFICES ASSUME Init PROVE DebtInv
      OBVIOUS
    <2>1. Sleepers = {} /\ debt = 0 /\ next = 0
      BY DEF Init, Sleepers, At, IdleRequest
    <2>2. Load(Sleepers) = 0
      BY <2>1, FS_EmptySet DEF Load
    <2>3. Full \in Nat
      BY DEF Full
    <2> QED  BY <2>1, <2>2, <2>3 DEF DebtInv
  <1>2. DebtInv => BurstBounded
    <2>1. (MaxInFlight + 1) * Delay = Delay * MaxInFlight + Delay
      OBVIOUS
    <2> QED  BY <2>1 DEF DebtInv, BurstBounded, Full
  <1> QED  BY <1>1, <1>2, SleepInvariance, DebtStep, PTL DEF Spec

=============================================================================
