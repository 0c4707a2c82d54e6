---------------------------- MODULE DatasetCache ----------------------------
(***************************************************************************)
(* DatasetCache.get_or_load of the query pipeline: requests of one process *)
(* for datasets of Kufar listings share an LRU cache with two lifetimes    *)
(* and two bounds, and share the load of a dataset that is not cached.     *)
(*                                                                         *)
(* The event loop runs a coroutine without interruption up to the await    *)
(* that suspends it: a request suspends while it waits for a load, a load  *)
(* while it fetches the pages.  The load is a task of its own, shielded    *)
(* from the cancellation of the requests that wait for it.                 *)
(***************************************************************************)
EXTENDS Integers, Sequences, FiniteSets, SequencesExt

CONSTANTS
    Key,            \* dataset_cache_key
    Request,        \* requests of the process
    Task,           \* names for the loads under way
    Ttl,            \* ttl_seconds
    TruncatedTtl,   \* truncated_ttl_seconds
    MaxEntries,     \* max_entries
    MaxAds,         \* max_ads
    Payload,        \* what a load may return: size, and whether pagination stopped early
    NoTask

ASSUME TtlAssumption == Ttl \in Nat /\ TruncatedTtl \in 0 .. Ttl
ASSUME BoundsAssumption == MaxEntries \in Nat \ {0} /\ MaxAds \in Nat
ASSUME PayloadAssumption == Payload \subseteq [size: Nat, truncated: BOOLEAN]
ASSUME NoTaskAssumption == NoTask \notin Task

VARIABLES
    entries,    \* _entries, the least recently used first
    totalAds,   \* _total_ads
    inflight,   \* _inflight
    load,       \* the key of each load under way, and how it ended
    request,    \* the key a request asks for, and the load it waits for
    answer      \* history: what the last request to go on was given, and its age

vars == <<entries, totalAds, inflight, load, request, answer>>

-----------------------------------------------------------------------------

\* A payload, and the key it was loaded for.
Dataset == [key: Key, payload: Payload]

\* How long a dataset has been in the cache; all ages from Ttl on are one.
Age == 0 .. Ttl
Entry == [value: Dataset, age: Age]

LoadState == [step: {"none", "loading", "loaded", "failed"},
              key: SUBSET Key, value: SUBSET Dataset]
NoLoad == [step |-> "none", key |-> {}, value |-> {}]

RequestState == [key: SUBSET Key, task: Task \cup {NoTask}]
IdleRequest == [key |-> {}, task |-> NoTask]

\* Nothing, if the load failed.
AnswerState == SUBSET [payload: Payload, age: Age]

Init ==
    /\ entries = <<>>
    /\ totalAds = 0
    /\ inflight = [k \in Key |-> NoTask]
    /\ load = [t \in Task |-> NoLoad]
    /\ request = [r \in Request |-> IdleRequest]
    /\ answer = {}

WaitersOf(t) == {r \in Request : request[r].task = t}
Loading(k) == {t \in Task : load[t].step = "loading" /\ load[t].key = {k}}

-----------------------------------------------------------------------------
(* The cache. *)

TtlFor(payload) == IF payload.truncated THEN TruncatedTtl ELSE Ttl

\* The listings of a sequence of entries, each by the key of its entry (the entries
\* are a dict: no two have one key) and its number there.
Listings(sequence) ==
    UNION {{sequence[i].value.key} \X (1 .. sequence[i].value.payload.size) :
              i \in DOMAIN sequence}

AdsIn(sequence) == Cardinality(Listings(sequence))

\* The entries at these places, in their order.
At(sequence, places) ==
    [n \in 1 .. Cardinality(places) |->
        sequence[CHOOSE i \in places : Cardinality({j \in places : j <= i}) = n]]

\* Mutant: truncated datasets live as long as complete ones.
ValidByTtl(sequence) == At(sequence, {i \in DOMAIN sequence : sequence[i].age < Ttl})

\* Where the expired entries are.
Expired(sequence) ==
    {i \in DOMAIN sequence : sequence[i].age >= TtlFor(sequence[i].value.payload)}

\* purge_expired leaves what has not expired.
Valid(sequence) == At(sequence, DOMAIN sequence \ Expired(sequence))

\* Where the key's entry is.
PlacesOf(sequence, k) == {i \in DOMAIN sequence : sequence[i].value.key = k}

\* The entries of the other keys.
Without(sequence, k) == At(sequence, DOMAIN sequence \ PlacesOf(sequence, k))

\* _total_ads runs along: the removal of an entry takes its size off.
Removed(total, sequence, places) == total - AdsIn(At(sequence, places))

\* Mutant: entries that expire are dropped from the dict only.
PurgedFromDict(total, sequence) == total

\* What purge_expired makes of the total.
Purged(total, sequence) == Removed(total, sequence, Expired(sequence))

\* get: expired entries go, an entry that is found becomes the last to be evicted.
Touched(k) ==
    LET valid == Valid(entries) IN
    Without(valid, k) \o At(valid, PlacesOf(valid, k))

\* The places of the oldest entries, as many as go before both bounds hold.
Evicted(total, sequence) ==
    LET fits(n) == /\ Len(sequence) - n <= MaxEntries
                   /\ Removed(total, sequence, 1 .. n) <= MaxAds
    IN  1 .. CHOOSE n \in 0 .. Len(sequence) :
                 fits(n) /\ \A m \in 0 .. n - 1 : ~fits(m)

\* put: a dataset with no lifetime, or too large on its own, is not cached.
Put(value) ==
    LET others == Without(entries, value.key)
        total == Purged(Removed(totalAds, entries, PlacesOf(entries, value.key)), others)
        longer == Append(Valid(others), [value |-> value, age |-> 0])
        oldest == Evicted(total + value.payload.size, longer)
    IN  IF TtlFor(value.payload) > 0 /\ value.payload.size <= MaxAds
        THEN /\ entries' = At(longer, DOMAIN longer \ oldest)
             /\ totalAds' = Removed(total + value.payload.size, longer, oldest)
        ELSE /\ entries' = Valid(others)
             /\ totalAds' = total

-----------------------------------------------------------------------------
(* get_or_load *)

Idle(r) == request[r] = IdleRequest

Cached(k) == {e \in ToSet(Valid(entries)) : e.value.key = k}

Hit(r, k) ==
    /\ Idle(r)
    /\ Cached(k) # {}
    /\ entries' = Touched(k)
    /\ totalAds' = Purged(totalAds, entries)
    /\ answer' = {[payload |-> e.value.payload, age |-> e.age] : e \in Cached(k)}
    /\ UNCHANGED <<inflight, load, request>>

WaitFor(r, k, t) ==
    request' = [request EXCEPT ![r] = [key |-> {k}, task |-> t]]

\* The load of another request is under way.
Join(r, k) ==
    /\ Idle(r)
    /\ Cached(k) = {}
    /\ inflight[k] # NoTask
    /\ entries' = Touched(k)
    /\ totalAds' = Purged(totalAds, entries)
    /\ WaitFor(r, k, inflight[k])
    /\ UNCHANGED <<inflight, load, answer>>

\* Mutant: the load is registered when it has ended.
StartLoadUnregistered(r, k, t) ==
    /\ Idle(r)
    /\ Cached(k) = {}
    /\ inflight[k] = NoTask
    /\ load[t] = NoLoad
    /\ entries' = Touched(k)
    /\ totalAds' = Purged(totalAds, entries)
    /\ load' = [load EXCEPT ![t] = [step |-> "loading", key |-> {k}, value |-> {}]]
    /\ WaitFor(r, k, t)
    /\ UNCHANGED <<inflight, answer>>

StartLoad(r, k, t) ==
    /\ Idle(r)
    /\ Cached(k) = {}
    /\ inflight[k] = NoTask
    /\ load[t] = NoLoad
    /\ entries' = Touched(k)
    /\ totalAds' = Purged(totalAds, entries)
    /\ inflight' = [inflight EXCEPT ![k] = t]
    /\ load' = [load EXCEPT ![t] = [step |-> "loading", key |-> {k}, value |-> {}]]
    /\ WaitFor(r, k, t)
    /\ UNCHANGED answer

\* A load ends; a task that nobody waits for is forgotten.
Ends(t, k, how) ==
    /\ load[t].step = "loading"
    /\ load[t].key = {k}
    /\ inflight' = IF inflight[k] = t THEN [inflight EXCEPT ![k] = NoTask] ELSE inflight
    /\ load' = [load EXCEPT ![t] = IF WaitersOf(t) = {} THEN NoLoad ELSE how]
    /\ UNCHANGED <<request, answer>>

LoadSucceeds(t, k, payload) ==
    LET value == [key |-> k, payload |-> payload] IN
    /\ Ends(t, k, [step |-> "loaded", key |-> {k}, value |-> {value}])
    /\ Put(value)

LoadFails(t, k) ==
    /\ Ends(t, k, [step |-> "failed", key |-> {k}, value |-> {}])
    /\ UNCHANGED <<entries, totalAds>>

\* The last waiter of a task that has ended leaves.
Leave(r) ==
    LET t == request[r].task IN
    load' = IF load[t].step \in {"loaded", "failed"} /\ WaitersOf(t) = {r}
            THEN [load EXCEPT ![t] = NoLoad] ELSE load

\* A waiting request goes on, with the dataset or with the load's error.
Resume(r, k) ==
    LET t == request[r].task IN
    /\ ~Idle(r)
    /\ request[r].key = {k}
    /\ load[t].step \in {"loaded", "failed"}
    /\ answer' = {[payload |-> v.payload, age |-> 0] : v \in load[t].value}
    /\ request' = [request EXCEPT ![r] = IdleRequest]
    /\ Leave(r)
    /\ UNCHANGED <<entries, totalAds, inflight>>

\* Mutant: the load is not shielded, and ends with the request.
CancelLoadToo(r) ==
    LET t == request[r].task IN
    /\ ~Idle(r)
    /\ request' = [request EXCEPT ![r] = IdleRequest]
    /\ load' = [load EXCEPT ![t] = NoLoad]
    /\ inflight' = [k \in Key |-> IF inflight[k] = t THEN NoTask ELSE inflight[k]]
    /\ UNCHANGED <<entries, totalAds, answer>>

\* The request is cancelled; the load goes on.
Cancel(r) ==
    /\ ~Idle(r)
    /\ request' = [request EXCEPT ![r] = IdleRequest]
    /\ Leave(r)
    /\ UNCHANGED <<entries, totalAds, inflight, answer>>

Tick ==
    /\ entries' = [i \in 1 .. Len(entries) |->
           [entries[i] EXCEPT !.age = IF @ < Ttl THEN @ + 1 ELSE @]]
    /\ UNCHANGED <<totalAds, inflight, load, request, answer>>

Next ==
    \/ \E r \in Request, k \in Key :
          \/ Hit(r, k) \/ Join(r, k) \/ Resume(r, k)
          \/ \E t \in Task : StartLoad(r, k, t)
    \/ \E t \in Task, k \in Key :
          \/ \E payload \in Payload : LoadSucceeds(t, k, payload)
          \/ LoadFails(t, k)
    \/ \E r \in Request : Cancel(r)
    \/ Tick

Spec == Init /\ [][Next]_vars

\* A load ends, by the deadline of its pagination at the latest, and the event
\* loop resumes those that waited for it.
Fairness ==
    /\ \A t \in Task : WF_vars(\E k \in Key :
           \/ LoadFails(t, k)
           \/ \E payload \in Payload : LoadSucceeds(t, k, payload))
    /\ \A r \in Request : WF_vars(\E k \in Key : Resume(r, k))

FairSpec == Spec /\ Fairness

-----------------------------------------------------------------------------
(* Properties. *)

\* The cache, the tasks and the requests stay in their domains.
TypeOK ==
    /\ entries \in Seq(Entry)
    /\ totalAds \in Nat
    /\ inflight \in [Key -> Task \cup {NoTask}]
    /\ load \in [Task -> LoadState]
    /\ request \in [Request -> RequestState]
    /\ answer \in AnswerState

\* "Concurrent loads of the same key share one Kufar pagination": whoever joins,
\* gives up or fails, a key has one load under way at most, _inflight names it and
\* nothing else (the finally clause of _load), and a request waits for a load of
\* its own key.
OneLoadPerKey ==
    /\ \A k \in Key : Loading(k) = {inflight[k]} \ {NoTask}
    /\ \A r \in Request : ~Idle(r) => load[request[r].task].key = request[r].key

\* The cache never holds more than max_entries datasets or max_ads listings, nor
\* two datasets of one key, and _total_ads, which is only ever added to and taken
\* from, counts what it holds.
CacheBounded ==
    /\ TypeOK
    /\ Len(entries) <= MaxEntries
    /\ totalAds = AdsIn(entries) /\ totalAds <= MaxAds
    /\ \A i, j \in 1 .. Len(entries) :
          entries[i].value.key = entries[j].value.key => i = j

\* A request is answered with what was loaded while it waited, or less than the
\* dataset's lifetime before: a truncated one, which depends on the load of the
\* moment, only briefly.
AnswersFresh ==
    \A a \in answer : a.age = 0 \/ a.age < TtlFor(a.payload)

\* A request that waits is answered, although the request that started its load is
\* cancelled or the load fails.
WaitersAnswered ==
    \A r \in Request : ~Idle(r) ~> Idle(r)

=============================================================================
