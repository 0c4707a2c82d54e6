-------------------------------- MODULE Market --------------------------------
(***************************************************************************)
(* What the program remembers of the listings of one query key.            *)
(*                                                                         *)
(* Listings arrive page by page into a sample.  The collector compares its *)
(* sample with the remembered rows (sync_query_listing_states) and writes  *)
(* the rows, the events and the alerts of the trackers in one transaction. *)
(* GET /price-stats takes the statistics of its own sample and writes them *)
(* to the snapshot of the hour, in a transaction of its own and in any     *)
(* order with other requests.                                              *)
(***************************************************************************)
EXTENDS Pricing

CONSTANTS
    Id,             \* ids of listings, numbers from 1
    Arrival(_, _),  \* the listings that may follow in a first sample or a later one
    Tracker,        \* the trackers of the key
    Filter,         \* the filter of each of them
    MinDrop,        \* PRICE_DROP_MIN_BYN
    MinPercent,     \* PRICE_DROP_MIN_PERCENT
    MaxEvents,      \* events of each kind stored for a tracker and a check
    MaxNamed,       \* listings of each kind named in an alert
    SyncSample,     \* bound: listings in a sample that is synced or recorded
    MaxSample,      \* bound: listings in a first sample, which may only be looked at
    MaxQuiet,       \* bound: syncs counted by the history variable quiet
    Query,          \* the words, storage and RAM of the query
    Asked,          \* discounts users ask for, in hundredths of a percent
    MaxPending      \* bound: requests between their statistics and their snapshot

ASSUME MarketAssumption ==
    /\ Id \subseteq Nat \ {0}
    /\ MinDrop \in Nat \ {0} /\ MinPercent \in Nat
    /\ MaxNamed \in Nat /\ MaxEvents \in Nat /\ MaxNamed <= MaxEvents
    /\ MaxSample \in Nat /\ SyncSample \in 0 .. MaxSample /\ MaxQuiet \in Nat
    /\ Asked \subseteq Nat

\* What a sample may hold; listing_candidates keeps listings with an id only.
Listing == UNION {Arrival(n, TRUE) \cup Arrival(n, FALSE) : n \in 1 .. MaxSample}

ASSUME ListingAssumption == \A ad \in Listing : ad.id \in Id

VARIABLES
    fetch,      \* who fetches the pages, and how
    sample,     \* the listings fetched so far, newest first
    row,        \* query_listing_states of the key, by listing
    alerts,     \* what the last sync tells each tracker, until the next fetch
    inbox,      \* tracker_events the last sync stored, until the next fetch
    pending,    \* statistics of requests that have not stored them yet
    snapshot,   \* query_snapshots of this hour, if there is one
    latest,     \* history: the listings of the last sync
    before,     \* history: the price a silent fall started from; 0 if there is none to fall from
    quiet,      \* history: syncs since then
    recorded    \* history: how many prices the statistics of this hour were taken from

rows == <<row, alerts, inbox>>
history == <<latest, before, quiet>>
hourly == <<pending, snapshot, recorded>>
vars == <<fetch, sample, rows, history, hourly>>

-----------------------------------------------------------------------------

Marker == 0         \* BASELINE_MARKER_AD_ID

\* A listing state; price 0 stands for NULL.
Row == [known: BOOLEAN, price: 0 .. MaxPrice, active: BOOLEAN]
NoRow == [known |-> FALSE, price |-> 0, active |-> FALSE]

Nothing == [t \in Tracker |-> {}]
NoAlerts == [t \in Tracker |-> [new |-> {}, drops |-> {}]]

Init ==
    /\ fetch = "none"
    /\ sample = <<>>
    /\ row = [i \in Id \cup {Marker} |-> NoRow]
    /\ alerts = NoAlerts
    /\ inbox = Nothing
    /\ pending = {}
    /\ snapshot = {}
    /\ latest = {}
    /\ before = [i \in Id |-> 0]
    /\ quiet = [i \in Id |-> 0]
    /\ recorded = {}

IdsOf(ads) == {ad.id : ad \in ToSet(ads)}

\* has_listing_states
Remembered == \E i \in DOMAIN row : row[i].known

\* load_known_ad_ids
KnownIds == {i \in Id : row[i].known}

-----------------------------------------------------------------------------
(* Samples. *)

\* Bound: the key is not checked while its statistics are asked for.  The two share no
\* table, so that their interleavings add nothing.
NoStatistics == pending = {} /\ recorded = {}

\* _process_group asks whether the key was ever checked, and fetches.
StartCheck ==
    /\ fetch = "none" /\ NoStatistics
    /\ fetch' \in IF Remembered THEN {"regular", "deep"} ELSE {"baseline"}
    /\ alerts' = NoAlerts
    /\ inbox' = Nothing
    /\ UNCHANGED <<sample, row, history, hourly>>

\* get_price_stats misses both caches.
StartScan ==
    /\ fetch = "none" /\ ~Remembered
    /\ Cardinality(pending) < MaxPending
    /\ fetch' = "scan"
    /\ alerts' = NoAlerts
    /\ inbox' = Nothing
    /\ UNCHANGED <<sample, row, history, hourly>>

\* A page brings one more listing; the pages of one sample repeat none.
Arrive ==
    /\ fetch # "none"
    /\ Len(sample) < IF fetch = "baseline" THEN MaxSample ELSE SyncSample
    /\ \E ad \in Arrival(Len(sample) + 1, fetch = "baseline") :
        /\ ad.id \notin IdsOf(sample)
        /\ sample' = Append(sample, ad)
    /\ UNCHANGED <<fetch, rows, history, hourly>>

\* A page or the transaction failed: the next run tries again.
Abandon ==
    /\ fetch # "none"
    /\ fetch' = "none"
    /\ sample' = <<>>
    /\ UNCHANGED <<rows, history, hourly>>

-----------------------------------------------------------------------------
(* The collector's sync. *)

\* is_significant_price_drop
Significant(old, new) ==
    old > new /\ old - new >= MinDrop /\ 100 * (old - new) >= MinPercent * old

PriceOf(ad) == IF HasPrice(ad) THEN ad.price ELSE 0
Fresh(ad) == ~row[ad.id].known

\* Mutant: a listing that comes back has no price to compare with.
DroppedWhileActive(ad) ==
    /\ row[ad.id].active
    /\ row[ad.id].price # 0 /\ HasPrice(ad)
    /\ Significant(row[ad.id].price, ad.price)

Dropped(ad) ==
    /\ row[ad.id].known
    /\ row[ad.id].price # 0 /\ HasPrice(ad)
    /\ Significant(row[ad.id].price, ad.price)

\* Mutant: the listings that dropped out of the sample stay active.
SyncedKeepsActive(i) ==
    IF \E ad \in ToSet(sample) : ad.id = i
    THEN [known |-> TRUE, active |-> TRUE,
          price |-> PriceOf(CHOOSE ad \in ToSet(sample) : ad.id = i)]
    ELSE row[i]

\* The rows of the sample are written, the other active rows are not active any more.
\* The code knows the others by last_seen_at < observed_at, the scheduler's time after
\* the fetch.  They are the same if that time grows from sync to sync: one job at a time
\* checks a key (max_instances=1), and the clock is taken not to be set back.
Synced(i) ==
    IF \E ad \in ToSet(sample) : ad.id = i
    THEN [known |-> TRUE, active |-> TRUE,
          price |-> PriceOf(CHOOSE ad \in ToSet(sample) : ad.id = i)]
    ELSE [row[i] EXCEPT !.active = FALSE]

\* mark_query_baseline
Marked == fetch = "baseline" /\ sample = <<>>

\* _filter_sync_result_for_tracker: listings are told in the order of the sample.
Told(t, places) ==
    LET stats == Stats(Prices(sample))
        kept == {i \in places : Matches(sample[i], sample, stats, Filter[t])}
    IN  {[place |-> i, id |-> sample[i].id] : i \in kept}

FreshPlaces(silent) == {i \in DOMAIN sample : Fresh(sample[i]) /\ sample[i].id \notin silent}
DropPlaces == {i \in DOMAIN sample : Dropped(sample[i])}
ToldNew(t, silent) == Told(t, FreshPlaces(silent))
ToldDrops(t) == Told(t, DropPlaces)

\* The ids of the first n.
First(told, n) ==
    {x.id : x \in {x \in told : Cardinality({y \in told : y.place < x.place}) < n}}

\* Mutant: the events are those of the sync, before the tracker's filter.
EventsUnfiltered(t, silent) ==
    LET all(places) == {[place |-> i, id |-> sample[i].id] : i \in places} IN
    First(all(FreshPlaces(silent)), MaxEvents) \cup First(all(DropPlaces), MaxEvents)

\* persist_tracker_events
Events(t, silent) ==
    First(ToldNew(t, silent), MaxEvents) \cup First(ToldDrops(t), MaxEvents)

\* The first listings of each kind that _build_tracker_message names.
Named(t) == First(alerts[t].new, MaxNamed) \cup First(alerts[t].drops, MaxNamed)

\* What a deep scan first meets beyond the regular window is silent.
Silent(window) == IdsOf(SubSeq(sample, window + 1, Len(sample))) \ KnownIds

SyncedIds == IdsOf(sample)

\* A sync that sees no price overwrites the remembered one with NULL: the next price is
\* compared with nothing, however far below the last it is.
Unpriced(i) == row'[i].price = 0

\* A fall is counted anew where its last price is lost, told or exceeded.
Restarted(i) ==
    \/ Unpriced(i)
    \/ \E ad \in ToSet(sample) : ad.id = i /\ Dropped(ad)
    \/ row'[i].price > before[i]

\* _process_group, from the sample on: one commit.  The first check of the key only
\* records.
Sync ==
    /\ fetch \in {"baseline", "regular", "deep"}
    /\ Len(sample) <= SyncSample
    /\ IF fetch = "baseline" THEN alerts' = NoAlerts /\ inbox' = Nothing
       ELSE \E window \in IF fetch = "deep" THEN 0 .. Len(sample) ELSE {Len(sample)} :
           /\ alerts' = [t \in Tracker |-> [new |-> ToldNew(t, Silent(window)),
                                            drops |-> ToldDrops(t)]]
           /\ inbox' = [t \in Tracker |-> Events(t, Silent(window))]
    /\ row' = [i \in DOMAIN row |-> IF i = Marker /\ Marked THEN [NoRow EXCEPT !.known = TRUE]
                                    ELSE Synced(i)]
    /\ latest' = SyncedIds
    /\ before' = [i \in Id |-> IF i \in SyncedIds /\ Restarted(i) THEN row'[i].price
                               ELSE before[i]]
    /\ quiet' = [i \in Id |-> IF i \notin SyncedIds THEN quiet[i]
                              ELSE IF Restarted(i) THEN 0
                              ELSE AtMost(quiet[i] + 1, MaxQuiet)]
    /\ fetch' = "none"
    /\ sample' = <<>>
    /\ UNCHANGED hourly

\* cleanup_stale_listing_states deletes rows nobody saw for long.
Cleanup(i) ==
    /\ row[i].known
    /\ row' = [row EXCEPT ![i] = NoRow]
    /\ latest' = latest \ {i}
    /\ before' = [j \in Id |-> IF j = i THEN 0 ELSE before[j]]
    /\ quiet' = [j \in Id |-> IF j = i THEN 0 ELSE quiet[j]]
    /\ UNCHANGED <<fetch, sample, alerts, inbox, hourly>>

-----------------------------------------------------------------------------
(* The snapshots of /price-stats. *)

\* The statistics are taken, the transaction that stores them comes later.
Answer(truncated, kufarTotal) ==
    LET dataset == Dataset(sample, Query.words, FALSE, truncated, kufarTotal)
        stats == Stats(Prices(dataset.ads))
    IN
    /\ fetch = "scan"
    /\ pending' = pending \cup {[count |-> stats.count, median |-> stats.median,
                                 total |-> Max({dataset.total, stats.count})]}
    /\ fetch' = "none"
    /\ sample' = <<>>
    /\ UNCHANGED <<rows, history, snapshot, recorded>>

\* Mutant: the last request wins.
UpsertedBlindly(new) == IF new.count = 0 THEN snapshot ELSE {new}

\* upsert_query_snapshot: statistics of fewer prices do not replace fuller ones.
Upserted(new) ==
    IF new.count = 0 \/ \E old \in snapshot : old.count > new.count THEN snapshot ELSE {new}

\* _record_snapshot; an error of the database loses the statistics, not the answer.
Record(new, fails) ==
    /\ pending' = pending \ {new}
    /\ snapshot' = IF fails THEN snapshot ELSE Upserted(new)
    /\ recorded' = IF fails \/ new.count = 0 THEN recorded ELSE recorded \cup {new.count}
    /\ UNCHANGED <<fetch, sample, rows, history>>

\* snapshot_bucket: the next hour has a row of its own.
NextHour ==
    /\ recorded # {}
    /\ snapshot' = {}
    /\ recorded' = {}
    /\ UNCHANGED <<fetch, sample, rows, history, pending>>

Next ==
    \/ StartCheck
    \/ StartScan
    \/ Arrive
    \/ Abandon
    \/ Sync
    \/ \E i \in DOMAIN row : Cleanup(i)
    \/ \E truncated \in BOOLEAN : Answer(truncated, MaxSample)
    \/ \E new \in pending, fails \in BOOLEAN : Record(new, fails)
    \/ NextHour

Spec == Init /\ [][Next]_vars

-----------------------------------------------------------------------------
(* Properties of what is remembered. *)

Snapshots == [count: 0 .. MaxSample, median: 0 .. 4 * MaxPrice, total: 0 .. MaxSample]

\* The sample, the rows, the events and the history of the prices.
TypeOK ==
    /\ fetch \in {"none", "baseline", "regular", "deep", "scan"}
    /\ sample \in Seq(Listing)
    /\ row \in [Id \cup {Marker} -> Row]
    /\ inbox \in [Tracker -> SUBSET Id]
    /\ latest \subseteq Id
    /\ before \in [Id -> 0 .. MaxPrice] /\ quiet \in [Id -> 0 .. MaxQuiet]

\* The active rows are the listings of the latest sync, whatever vanished, came back
\* or was cleaned up before it (the bulk UPDATE of sync_query_listing_states).
ActiveIsLatest ==
    /\ TypeOK
    /\ {i \in DOMAIN row : row[i].active} = latest

\* The largest fall from a price that is not significant.
SilentStep(price) ==
    Max({d \in 0 .. price : \E p \in d .. price : ~Significant(p, p - d)})

\* As long as every check that meets a listing sees a price, a price that falls in steps
\* too small to be told, each of which is the reference of the next, gets away with one
\* such step per check, also if the listing vanishes from the sample and comes back in
\* between (history_service.py:274, 346-359).  A check that sees no price loses the
\* reference (before is 0): across it a price falls untold by any amount.
SilentFallBounded ==
    \A i \in Id : before[i] # 0 /\ quiet[i] < MaxQuiet =>
        before[i] - row[i].price <= quiet[i] * SilentStep(before[i])

\* Every listing an alert names can be acted on, because its event is stored with it,
\* and nothing a tracker's filter drops reaches the user's inbox (the first ten of
\* each kind are stored, the first three named: collector.py:208, 318).
AlertMatchesInbox ==
    \A t \in Tracker :
        /\ Named(t) \subseteq inbox[t]
        /\ inbox[t] \subseteq {x.id : x \in alerts[t].new \cup alerts[t].drops}

\* The snapshot of an hour is one that was recorded in it and none was taken from more
\* prices, in whatever order overlapping requests commit ("a partial sample cannot
\* overwrite a fuller one", history_service.py:82).
SnapshotIsFullest ==
    /\ snapshot \cup pending \subseteq Snapshots /\ Cardinality(snapshot) <= 1
    /\ snapshot = {} => recorded = {}
    /\ \A s \in snapshot : s.count \in recorded /\ \A count \in recorded : count <= s.count
    /\ \A s \in snapshot : s.count \in 1 .. s.total

-----------------------------------------------------------------------------
(* Properties of what is computed from a sample. *)

\* Every sample is a first sample too, so that these are looked at alone.
Looked == fetch = "baseline"
NoFilter == [discount |-> NoBound, price |-> NoBound, seller |-> None, condition |-> None,
             region |-> {}, keyword |-> {}, unique |-> FALSE]
ByDiscount(d) == [NoFilter EXCEPT !.discount = d]
Whole(strict) == Dataset(sample, Query.words, strict, FALSE, 0)
Part == Dataset(sample, Query.words, FALSE, TRUE, MaxSample)

\* "Every dropped price is then below the final cutoff and every kept one is at or
\* above it, so checks against the resulting stats agree with what the stats excluded"
\* (split_low_outliers): what the statistics of a search or of one of its segments leave
\* out, and nothing else, is a placeholder to the scores and the flips of its items, and
\* the quartiles are in order.
PlaceholdersAgree == Looked =>
    \A dataset \in {Whole(FALSE)} \cup Segments(sample, Query.words, TRUE, FALSE) :
        LET st == dataset.stats
            prices == Prices(dataset.ads)
            real == {i \in DOMAIN prices : ~Placeholder(dataset.ads[i], st)}
        IN
        /\ Kept(prices) = [i \in real |-> prices[i]]
        /\ st.count > 0 => /\ 4 * st.min <= st.q1 /\ st.q1 <= st.median
                           /\ st.median <= st.q3 /\ st.q3 <= 4 * st.max
        /\ \A ad \in ToSet(dataset.ads) : Placeholder(ad, st) =>
               LET item == Item(ad, dataset, Query) IN
               item.flips = <<>> /\ item.verdict = "pass" /\ item.band = "below_market"

\* The deals of the listings page, the board and a tracker that asks for the same
\* discount are the same listings, although filter_deal_ads and
\* matches_tracker_filters decide it apart (only a discount of nothing keeps what is
\* no cheaper than the median on one side); each deal sells with a profit that
\* grows with the patience of the seller (compute_flip_estimates); what an item calls
\* below the market is a deal of 15% or a placeholder; and a board promises a margin
\* only where it shows a deal that its item says to take.
DealsAgree == Looked =>
    LET st == Part.stats
        deals(d) == ToSet(FilterDeals(sample, st, d))
        items == [ad \in ToSet(sample) |-> Item(ad, Part, Query)]
    IN
    /\ \A d \in Asked :
        /\ d > 0 => deals(d) = {ad \in ToSet(sample) : Matches(ad, sample, st, ByDiscount(d))}
        /\ Opportunities(Part, Query, ByDiscount(d)) \subseteq deals(d)
        /\ MarketSignal(Part, Query, ByDiscount(d)) = "margin" =>
               \E ad \in deals(d) : items[ad].verdict = "take"
        /\ d >= 800 => \A ad \in deals(d) :
               LET target == items[ad].flips IN
               /\ Len(target) = 3
               /\ 400 * ad.price < target[1]
               /\ target[1] <= target[2] /\ target[2] <= target[3]
    /\ \A ad \in ToSet(sample) : items[ad].band = "below_market" <=>
           HasPrice(ad) /\ (ad \in deals(1500) \/ (Placeholder(ad, st) /\ Discount(ad, st.median) >= 1500))

\* Of two listings that look like one lot the dearer is never kept where the cheaper
\* is hidden on its account, although the 8% are taken of each one's own price; and a
\* lot without a look-alike is not hidden (duplicate_counts).
RepostsHidden == Looked =>
    LET ads == ToSet(sample) IN
    \A a \in ads :
        /\ DuplicateCount(sample, a) > 0 => \E b \in ads : b # a /\ SameLot(a, b)
        /\ \A b \in ads : b.id # a.id /\ SameLot(a, b)
                /\ (HasPrice(a) /\ HasPrice(b) =>
                        a.price <= b.price /\ 100 * b.price <= 108 * a.price) =>
               DuplicateCount(sample, b) > 0

\* "Score every candidate before truncating, so older bargains are not cut off"
\* (_rank_by_deal_score), and "listings without a price always go last for
\* price-based sorts" (sort_listings), in a strict search and in a loose one.
PageKeepsBest == Looked => \A strict \in BOOLEAN :
    LET whole == Whole(strict)
        score(ad) == Score(ad, whole.ads, whole.stats, Query)
        best == Page(whole, Query, "deal_score", {1})
        cheap == Page(whole, Query, "cheap", {800, 9900})
    IN
    /\ Cardinality(best) = AtMost(Len(whole.ads), MaxListings)
    /\ \A ad \in best, other \in ToSet(whole.ads) \ best : score(ad) >= score(other)
    /\ \A ad \in cheap, other \in ToSet(FilterDeals(whole.ads, whole.stats, 800)) \ cheap :
           score(ad) >= score(other) \/ Discount(other, whole.stats.median) > 9900
    /\ \A sort \in {"price_asc", "price_desc", "near_median"} :
           LET page == Page(whole, Query, sort, {1}) IN
           (\E ad \in page : ~HasPrice(ad)) => Priced(whole.ads) \subseteq page
=============================================================================
