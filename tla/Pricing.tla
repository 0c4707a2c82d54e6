------------------------------- MODULE Pricing -------------------------------
(***************************************************************************)
(* What the program computes from one answer of Kufar: the dataset of a    *)
(* query, its price statistics, deals, reposts, scores, and the filters of *)
(* trackers and saved searches.  Nothing here has a state.                 *)
(*                                                                         *)
(* An answer is a sequence of listings, newest first.  Prices are whole    *)
(* roubles.  A percentile of whole prices is a multiple of a quarter of a  *)
(* rouble, so statistics are counted in quarters and no rounding is lost;  *)
(* discounts are in hundredths of a percent, as the code rounds them, and  *)
(* scores in thousandths until they are rounded to tenths.                 *)
(***************************************************************************)
EXTENDS Integers, FiniteSets, Sequences, SequencesExt, FiniteSetsExt, TLC

CONSTANTS
    Variant,        \* STRICT_VARIANT_TOKENS
    Number,         \* words that are digits only
    Filler,         \* _SKIP_TOKENS
    MaxPrice,       \* MAX_PRICE_BYN
    MinPrices,      \* MIN_PRICES_FOR_LOW_CUTOFF
    MaxListings,    \* MAX_LISTINGS
    BoardSample     \* the candidates of a saved search that are scored

ASSUME PricingAssumption ==
    /\ MaxPrice \in Nat /\ MinPrices \in Nat \ {0}
    /\ MaxListings \in Nat /\ BoardSample \in Nat

\* A text nobody gave.
None == "none"
UnknownAge == 1000

\* The elements at these places, in their order; what a loop keeps of a sequence.
At(sequence, places) ==
    [n \in 1 .. Cardinality(places) |->
        sequence[CHOOSE i \in places : Cardinality({j \in places : j <= i}) = n]]
Keep(sequence, Test(_)) == At(sequence, {i \in DOMAIN sequence : Test(sequence[i])})

RoundDiv(a, b) == (2 * a + b) \div (2 * b)
AtMost(x, bound) == IF x > bound THEN bound ELSE x
Clamp(x, low, high) == IF x < low THEN low ELSE AtMost(x, high)

-----------------------------------------------------------------------------
(* A listing: [id, price, title, age, condition, seller, region, account,   *)
(* storage, ram].  A title is its set of words, storage and ram what        *)
(* analyze_query_text finds in it (0: nothing).                             *)

HasId(ad) == ad.id > 0
HasPrice(ad) == ad.price \in 1 .. MaxPrice
Priced(ads) == {ad \in ToSet(ads) : HasPrice(ad)}

\* The prices by the places of their listings; statistics do not depend on the order.
Prices(ads) == [i \in {i \in DOMAIN ads : HasPrice(ads[i])} |-> ads[i].price]

\* listing_age_hours: a time in the future, or none, says nothing.
Age(ad) == IF ad.age \in 0 .. UnknownAge THEN ad.age ELSE UnknownAge

\* is_strict_match: every word, and no variant that was not asked for.
StrictMatch(title, query) ==
    /\ query # {} /\ title # {}
    /\ query \subseteq title
    /\ (title \cap Variant) \subseteq query

ApplySearchMode(ads, query, strict) ==
    IF strict THEN Keep(ads, LAMBDA ad : StrictMatch(ad.title, query)) ELSE ads

\* Region labels are sets of words too.  A code, which is one of the numbers, makes two:
\* itself, and itself after the word for a region.
Region == "region"
RegionCandidates(region) ==
    region.names \cup {{c} : c \in region.code} \cup {{Region, c} : c \in region.code}

-----------------------------------------------------------------------------
(* Statistics (aggregator.py). *)

Count(prices) == Cardinality(DOMAIN prices)

\* sorted(prices): the price that has less than n prices below it, and n up to it.
Sorted(prices) ==
    [n \in 1 .. Count(prices) |->
        CHOOSE p \in {prices[i] : i \in DOMAIN prices} :
            n \in Cardinality({i \in DOMAIN prices : prices[i] < p}) + 1
                  .. Cardinality({i \in DOMAIN prices : prices[i] <= p})]

\* statistics.median, in quarters.
Median(prices) ==
    LET n == Count(prices)
        s == Sorted(prices)
    IN IF n = 0 THEN 0 ELSE 2 * (s[(n + 1) \div 2] + s[(n + 2) \div 2])

\* _percentile of 25 * quarter percent, in quarters: between two neighbours.
Percentile(prices, quarter) ==
    LET n == Count(prices)
        s == Sorted(prices)
        k == (n - 1) * quarter
        low == (k \div 4) + 1
        high == AtMost(low + 1, n)
    IN IF n = 0 THEN 0 ELSE 4 * s[low] + (k % 4) * (s[high] - s[low])

\* A quarter of the median of the prices kept: the cutoff, in sixteenths.
AboveCutoff(kept) ==
    [i \in {i \in DOMAIN kept : 16 * kept[i] >= Median(kept)} |-> kept[i]]

\* Mutant: the cutoff is not computed again without the placeholders.
KeptOnce(prices) == IF Count(prices) < MinPrices THEN prices ELSE AboveCutoff(prices)

\* split_low_outliers: the cutoff is recomputed until nothing else falls below it, for
\* which as many rounds as there are prices are enough.
Kept(prices) ==
    LET remaining[n \in Nat] ==
            IF n = 0 THEN prices ELSE AboveCutoff(remaining[n - 1])
    IN IF Count(prices) < MinPrices THEN prices ELSE remaining[Count(prices)]

Stats(prices) ==
    LET kept == Kept(prices)
        n == Count(kept)
    IN
    [count |-> n,
     median |-> Median(kept),
     q1 |-> Percentile(kept, 1),
     q3 |-> Percentile(kept, 3),
     min |-> IF n = 0 THEN 0 ELSE Sorted(kept)[1],
     max |-> IF n = 0 THEN 0 ELSE Sorted(kept)[n],
     cutoff |-> IF Count(prices) < MinPrices THEN 0 ELSE Median(kept)]

\* is_low_price_outlier
Placeholder(ad, stats) == HasPrice(ad) /\ 16 * ad.price < stats.cutoff

\* compute_price_vs_median
VsMedian(ad, median) ==
    IF median = 0 \/ ~HasPrice(ad) THEN 0
    ELSE RoundDiv(10000 * (4 * ad.price - median), median)

Discount(ad, median) == -VsMedian(ad, median)

\* filter_deal_ads without an upper bound.
FilterDeals(ads, stats, from) ==
    Keep(ads, LAMBDA ad :
        /\ stats.median # 0
        /\ HasPrice(ad) /\ ~Placeholder(ad, stats)
        /\ Discount(ad, stats.median) > 0
        /\ Discount(ad, stats.median) >= from)

\* ... and with one: the bounds are put in order.
FilterDealsWithin(ads, stats, bounds) ==
    Keep(FilterDeals(ads, stats, Min(bounds)),
              LAMBDA ad : Discount(ad, stats.median) <= Max(bounds))

-----------------------------------------------------------------------------
(* A dataset (query_pipeline.py). *)

\* Kufar's total counts listings that strict mode drops.
Dataset(ads, query, strict, truncated, kufarTotal) ==
    LET matching == ApplySearchMode(ads, query, strict) IN
    [ads |-> Keep(matching, HasId),
     stats |-> Stats(Prices(matching)),
     total |-> IF truncated /\ ~strict THEN Max({kufarTotal, Len(matching)})
               ELSE Len(matching),
     truncated |-> truncated]

\* load_segment_datasets: one search for each condition and seller, filtered by Kufar.
Segment(ads, condition, seller) ==
    Keep(ads, LAMBDA ad : ad.condition = condition /\ ad.seller = seller)
Segments(ads, query, strict, truncated) ==
    {Dataset(Segment(ads, condition, seller), query, strict, truncated, 0) :
        condition \in {"new", "used"}, seller \in {"private", "shop"}}

-----------------------------------------------------------------------------
(* Signals of a listing (market_signals.py). *)

\* fair_price_band
Band(ad, median) ==
    LET delta == VsMedian(ad, median) IN
    CASE ~HasPrice(ad) -> None
      [] HasPrice(ad) /\ delta <= -1500 -> "below_market"
      [] HasPrice(ad) /\ delta > -1500 /\ delta <= 1200 -> "fair"
      [] HasPrice(ad) /\ delta > 1200 /\ delta <= 3000 -> "above_market"
      [] HasPrice(ad) /\ delta > 3000 -> "high"

\* detect_anomaly_flags
Anomalies(ad, stats) ==
    {flag \in {"too_cheap", "too_expensive"} :
        /\ HasPrice(ad) /\ stats.count >= 4
        /\ flag = "too_cheap" => 400 * ad.price < Min({72 * stats.q1, 68 * stats.median})
        /\ flag = "too_expensive" => 400 * ad.price > Max({135 * stats.q3, 145 * stats.median})}

\* The key duplicate_counts groups by; a listing without words has no group.
SameLot(a, b) ==
    /\ a.title # {} /\ a.title = b.title
    /\ a.seller = b.seller /\ a.region.code = b.region.code /\ a.account = b.account

\* Mutant: bisect_left starts at the price itself: only dearer listings count.
DuplicateCountDearer(ads, ad) ==
    Cardinality({other \in ToSet(ads) :
        /\ HasId(other) /\ other.id # ad.id /\ SameLot(other, ad)
        /\ HasPrice(ad) /\ HasPrice(other) =>
               100 * other.price \in 100 * ad.price .. 108 * ad.price})

\* duplicate_counts: the others of the group within 8% of the price; without a price
\* on either side they cannot be told apart.
DuplicateCount(ads, ad) ==
    Cardinality({other \in ToSet(ads) :
        /\ HasId(other) /\ other.id # ad.id /\ SameLot(other, ad)
        /\ HasPrice(ad) /\ HasPrice(other) =>
               100 * other.price \in 92 * ad.price .. 108 * ad.price})

-----------------------------------------------------------------------------
(* Filters of trackers and saved searches (reseller_tools.py): a record     *)
(* [discount, price, seller, condition, region, keyword, unique]; None, the *)
(* empty set and NoBound ask for nothing.                                   *)

NoBound == -1

\* condition_matches, seller_type_matches: what a listing does not say is kept.
ValueKept(actual, wanted) == wanted = None \/ actual = None \/ actual = wanted

\* region_matches: a listing that only carries a code is kept by a name.
RegionKept(region, wanted) ==
    \/ wanted = {}
    \/ RegionCandidates(region) = {}
    \/ region.names = {} /\ wanted \cap Number = {}
    \/ \E candidate \in RegionCandidates(region) : wanted \subseteq candidate

\* Mutant: a listing without a price has no discount to compare.
DiscountKeptUnpriced(ad, stats, discount) ==
    \/ discount = NoBound
    \/ ~HasPrice(ad)
    \/ ~Placeholder(ad, stats) /\ Max({Discount(ad, stats.median), 0}) >= discount

DiscountKept(ad, stats, discount) ==
    \/ discount = NoBound
    \/ ~Placeholder(ad, stats) /\ Max({Discount(ad, stats.median), 0}) >= discount

\* matches_tracker_filters, config_keyword_matches
Matches(ad, ads, stats, filter) ==
    /\ filter.price = NoBound \/ ~HasPrice(ad) \/ ad.price <= filter.price
    /\ ValueKept(ad.seller, filter.seller)
    /\ ValueKept(ad.condition, filter.condition)
    /\ RegionKept(ad.region, filter.region)
    /\ filter.keyword \subseteq ad.title
    /\ filter.unique => DuplicateCount(ads, ad) = 0
    /\ DiscountKept(ad, stats, filter.discount)

-----------------------------------------------------------------------------
(* Scores (reseller_tools.py, deal_workflow.py). *)

ModelWords(words) == words \ (Filler \cup Number)

\* profile_match_bonus
ProfileBonus(query, ad) ==
    LET agree(a, b, plus, minus) ==
            IF a = 0 \/ b = 0 THEN 0 ELSE IF a = b THEN plus ELSE -minus
        model == ModelWords(query.words)
    IN IF query.words = {} THEN 0
       ELSE agree(query.storage, ad.storage, 8, 8) + agree(query.ram, ad.ram, 4, 6)
            + IF model # {} /\ model \subseteq ModelWords(ad.title) THEN 6 ELSE 0

\* _freshness_bonus
FreshnessBonus(ad) ==
    CASE Age(ad) <= 6 -> 12 [] Age(ad) \in 7 .. 24 -> 8
      [] Age(ad) \in 25 .. 72 -> 4 [] Age(ad) > 72 -> 0

\* The part of the score the price decides; a placeholder has no discount.
PriceScore(ad, stats) ==
    LET delta == VsMedian(ad, stats.median) IN
    IF Placeholder(ad, stats) THEN 0
    ELSE IF delta < 0 THEN AtMost(-15 * delta, 30000)
    ELSE -AtMost(12 * delta, 24000)

SellerScore(ad) ==
    CASE ad.seller = "private" -> 8000 [] ad.seller = "shop" -> -2000
      [] ad.seller \notin {"private", "shop"} -> 0

\* compute_deal_score, in tenths.
Score(ad, ads, stats, query) ==
    LET sum == 55000 + PriceScore(ad, stats) + SellerScore(ad)
               + 1000 * (FreshnessBonus(ad) + ProfileBonus(query, ad)
                         - AtMost(10 * DuplicateCount(ads, ad), 20)
                         - 12 * Cardinality(Anomalies(ad, stats)))
        capped == IF Placeholder(ad, stats) THEN AtMost(sum, 40000) ELSE sum
    IN IF HasPrice(ad) THEN RoundDiv(Clamp(capped, 0, 100000), 100) ELSE 0

Verdict(ad, ads, stats, query) ==
    LET score == Score(ad, ads, stats, query) IN
    CASE ~HasPrice(ad) -> "no price"
      [] HasPrice(ad) /\ score >= 780 -> "take"
      [] HasPrice(ad) /\ score >= 620 /\ score < 780 -> "look"
      [] HasPrice(ad) /\ score >= 450 /\ score < 620 -> "normal"
      [] HasPrice(ad) /\ score < 450 -> "pass"

\* compute_liquidity_insight, in points.
Liquidity(ads, stats) ==
    LET total == Len(ads)
        fresh == Len(Keep(ads, LAMBDA ad : Age(ad) <= 72))
        deals == Len(FilterDeals(ads, stats, 800))
        score == 35 + (IF total >= 25 THEN 22 ELSE IF total >= 10 THEN 12
                       ELSE IF total <= 4 THEN -10 ELSE 0)
                    + (IF fresh >= 8 THEN 18 ELSE IF fresh >= 3 THEN 8 ELSE -8)
                    + (IF deals >= 4 THEN 12 ELSE IF deals = 0 /\ total > 0 THEN -6 ELSE 0)
                    - (IF stats.count <= 3 THEN 8 ELSE 0)
    IN Clamp(score, 0, 100)

\* The targets of compute_flip_estimates, in hundredths of a quarter; none for a
\* placeholder, which would promise an absurd profit.
Flips(ad, stats) ==
    IF ~HasPrice(ad) \/ stats.count = 0 \/ Placeholder(ad, stats) THEN <<>>
    ELSE <<Max({100 * stats.q1, 94 * stats.median}), 100 * stats.median,
           Max({100 * stats.q3, 106 * stats.median})>>

\* build_listing_item, of a listing of the dataset.
Item(ad, dataset, query) ==
    [band |-> Band(ad, dataset.stats.median),
     anomalies |-> Anomalies(ad, dataset.stats),
     duplicates |-> DuplicateCount(dataset.ads, ad),
     score |-> Score(ad, dataset.ads, dataset.stats, query),
     verdict |-> Verdict(ad, dataset.ads, dataset.stats, query),
     flips |-> Flips(ad, dataset.stats),
     liquidity |-> Liquidity(dataset.ads, dataset.stats)]

-----------------------------------------------------------------------------
(* Pages of listings (routers/listings.py) and boards (saved_searches.py).  *)

\* The order of _rank_by_deal_score, in which titles only break the last ties.
Precedes(ads, dataset, query, i, j) ==
    LET score(n) == Score(ads[n], dataset.ads, dataset.stats, query)
        delta(n) == VsMedian(ads[n], dataset.stats.median)
    IN \/ score(i) > score(j)
       \/ score(i) = score(j) /\ delta(i) < delta(j)
       \/ score(i) = score(j) /\ delta(i) = delta(j) /\ i < j

\* The first n of a sequence in that order, as a set.
Top(ads, dataset, query, n) ==
    {ads[i] : i \in {i \in DOMAIN ads :
        Cardinality({j \in DOMAIN ads : Precedes(ads, dataset, query, j, i)}) < n}}

\* What sort_listings orders by: what has no price or no time goes last, a time in the
\* future first.
SortKey(ad, sort, median) ==
    CASE sort = "newest" -> ad.age
      [] sort = "price_asc" -> IF HasPrice(ad) THEN ad.price ELSE MaxPrice + 1
      [] sort = "price_desc" -> IF HasPrice(ad) THEN -ad.price ELSE 1
      [] sort = "near_median" ->
             IF HasPrice(ad) THEN Max({4 * ad.price - median, median - 4 * ad.price})
             ELSE 4 * MaxPrice + 1

\* Mutant: only the newest listings are scored.
PageOfNewest(dataset, query, sort, bounds) ==
    Top(SubSeq(dataset.ads, 1, AtMost(MaxListings, Len(dataset.ads))), dataset, query, MaxListings)

\* get_listings: every candidate is scored before the page is cut.
Page(dataset, query, sort, bounds) ==
    LET ads == dataset.ads
        key(i) == SortKey(ads[i], sort, dataset.stats.median)
    IN CASE sort = "cheap" ->
                Top(FilterDealsWithin(ads, dataset.stats, bounds), dataset, query, MaxListings)
         [] sort = "deal_score" -> Top(ads, dataset, query, MaxListings)
         [] sort \in {"newest", "price_asc", "price_desc", "near_median"} ->
                {ads[i] : i \in {i \in DOMAIN ads :
                    Cardinality({j \in DOMAIN ads :
                        key(j) < key(i) \/ (key(j) = key(i) /\ j < i)}) < MaxListings}}

\* The deals _load_saved_search_opportunities considers: the newest ones.
Candidates(dataset, filter) ==
    LET deals == Keep(FilterDeals(dataset.ads, dataset.stats, filter.discount),
                           LAMBDA ad : Matches(ad, dataset.ads, dataset.stats, filter))
    IN SubSeq(deals, 1, AtMost(BoardSample, Len(deals)))

Opportunities(dataset, query, filter) == Top(Candidates(dataset, filter), dataset, query, 3)

\* _market_signal: a market of which only a part was fetched is not called thin.
MarketSignal(dataset, query, filter) ==
    IF ~dataset.truncated /\ dataset.total \in 1 .. 10 THEN "thin"
    ELSE IF \E ad \in Opportunities(dataset, query, filter) :
                Score(ad, dataset.ads, dataset.stats, query) >= 800 THEN "margin"
    ELSE None
=============================================================================
