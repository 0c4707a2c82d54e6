---------------------------- MODULE MarketProofs ----------------------------
(***************************************************************************)
(* What is remembered, told and recorded of the listings of a query key    *)
(* agrees, and so does what is computed of a sample, for any listings,     *)
(* filters, thresholds and sizes of samples.                               *)
(*                                                                         *)
(* The first part is about any prices and any sequence of listings: how    *)
(* sorting, the cutoff of the placeholders and its loop, the parts of a    *)
(* sequence, discounts, scores and pages behave.  The second part is about *)
(* the steps of the market and the invariant they keep.                    *)
(***************************************************************************)
EXTENDS Market, FunctionTheorems, FiniteSetTheorems, SequenceTheorems, TLAPS

-----------------------------------------------------------------------------
(* Sets of numbers. *)

\* Numbers are well founded: a set of them has a least one.
LEMMA Least ==
    ASSUME NEW S \in SUBSET Nat, S # {}
    PROVE  \E x \in S : \A y \in S : x <= y
  <1> DEFINE R == OpToRel(<, Nat)
  <1>1. IsWellFoundedOn(R, Nat)
    BY NatLessThanWellFounded
  <1>2. \A x, y \in Nat : y < x => <<y, x>> \in R
    BY DEF OpToRel
  <1> HIDE DEF R
  <1>3. PICK x \in S : \A y \in S : ~(<<y, x>> \in R)
    BY <1>1, WFMin
  <1>4. ASSUME NEW y \in S PROVE x <= y
    <2>1. x \in Nat /\ y \in Nat
      OBVIOUS
    <2>2. ~(<<y, x>> \in R)
      BY <1>3
    <2>3. ~(y < x)
      BY <1>2, <2>1, <2>2
    <2> QED  BY <2>1, <2>3
  <1> QED  BY <1>4

\* A set of numbers with a bound has a largest one.
LEMMA Largest ==
    ASSUME NEW n \in Nat, NEW S \in SUBSET (0 .. n), S # {}
    PROVE  Max(S) \in S /\ \A y \in S : y <= Max(S)
  <1> DEFINE T == {m \in 0 .. n : n - m \in S}
  <1>1. T \in SUBSET Nat /\ T # {}
    <2>1. PICK y \in S : TRUE
      OBVIOUS
    <2>2. n - y \in 0 .. n /\ n - (n - y) = y
      OBVIOUS
    <2>3. n - y \in T
      BY <2>1, <2>2
    <2>4. \A m \in 0 .. n : m \in Nat
      OBVIOUS
    <2>5. T \subseteq 0 .. n
      OBVIOUS
    <2> HIDE DEF T
    <2> QED  BY <2>3, <2>4, <2>5
  <1>2. PICK x \in T : \A y \in T : x <= y
    <2> HIDE DEF T
    <2> QED  BY <1>1, Least
  <1>3. ASSUME NEW y \in S PROVE n - x >= y
    <2>1. n - y \in 0 .. n /\ n - (n - y) = y
      OBVIOUS
    <2>2. n - y \in T
      BY <2>1
    <2> QED  BY <1>2, <2>2
  <1>4. n - x \in S
    OBVIOUS
  <1>5. \E m \in S : \A y \in S : m >= y
    BY <1>3, <1>4
  <1>6. Max(S) \in S /\ \A y \in S : Max(S) >= y
    BY <1>5 DEF Max
  <1> QED  BY <1>6

-----------------------------------------------------------------------------
(* The prices that statistics are taken of. *)

\* Finitely many prices, by their places.
PriceList(prices) ==
    /\ prices \in [DOMAIN prices -> 1 .. MaxPrice]
    /\ IsFiniteSet(DOMAIN prices)

Cheaper(prices, p) == {i \in DOMAIN prices : prices[i] < p}
NoDearer(prices, p) == {i \in DOMAIN prices : prices[i] <= p}

\* p is the n-th price in order.
Ranked(prices, p, n) ==
    /\ p \in {prices[i] : i \in DOMAIN prices}
    /\ Cardinality(Cheaper(prices, p)) < n /\ n <= Cardinality(NoDearer(prices, p))

LEMMA Counts ==
    ASSUME NEW prices, PriceList(prices), NEW p
    PROVE  /\ Count(prices) \in Nat
           /\ Cardinality(Cheaper(prices, p)) \in Nat
           /\ Cardinality(NoDearer(prices, p)) \in Nat
           /\ Cardinality(Cheaper(prices, p)) <= Count(prices)
           /\ Cardinality(NoDearer(prices, p)) <= Count(prices)
           /\ IsFiniteSet(Cheaper(prices, p)) /\ IsFiniteSet(NoDearer(prices, p))
  <1>1. IsFiniteSet(DOMAIN prices)
    BY DEF PriceList
  <1>2. Cheaper(prices, p) \subseteq DOMAIN prices /\ NoDearer(prices, p) \subseteq DOMAIN prices
    BY DEF Cheaper, NoDearer
  <1> QED  BY <1>1, <1>2, FS_Subset, FS_CardinalityType DEF Count

\* A price is cheaper than another or not.
LEMMA Dearer ==
    ASSUME NEW prices, PriceList(prices), NEW p \in 1 .. MaxPrice, NEW q \in 1 .. MaxPrice
    PROVE  /\ p < q => /\ NoDearer(prices, p) \subseteq Cheaper(prices, q)
                       /\ Cardinality(NoDearer(prices, p)) <= Cardinality(Cheaper(prices, q))
           /\ \A i \in DOMAIN prices : prices[i] \in 1 .. MaxPrice
  <1>1. \A i \in DOMAIN prices : prices[i] \in 1 .. MaxPrice
    BY DEF PriceList
  <1>2. ASSUME p < q
        PROVE  NoDearer(prices, p) \subseteq Cheaper(prices, q)
    BY <1>1, <1>2, PricingAssumption DEF NoDearer, Cheaper
  <1>3. IsFiniteSet(Cheaper(prices, q))
    BY Counts
  <1> QED  BY <1>1, <1>2, <1>3, FS_Subset

\* There is one n-th price, for every n up to their number.
LEMMA RankedExists ==
    ASSUME NEW prices, PriceList(prices), NEW n \in 1 .. Count(prices)
    PROVE  \E p : Ranked(prices, p, n)
  <1> USE PricingAssumption
  <1> DEFINE R == {prices[i] : i \in DOMAIN prices}
             S == {p \in R : n <= Cardinality(NoDearer(prices, p))}
  <1>1. \A i \in DOMAIN prices : prices[i] \in 1 .. MaxPrice
    BY DEF PriceList
  <1>2. Count(prices) \in Nat /\ \A p : Cardinality(NoDearer(prices, p)) \in Nat /\ Cardinality(Cheaper(prices, p)) \in Nat
    BY Counts
  <1>3. R \subseteq 1 .. MaxPrice
    BY <1>1
  <1>4. S # {}
    <2>1. DOMAIN prices # {}
      <3>1. CASE DOMAIN prices = {}
        BY <1>2, <3>1, FS_EmptySet DEF Count
      <3> QED  BY <3>1
    <2> DEFINE T == {MaxPrice - p : p \in R}
    <2>2. R # {}
      BY <2>1
    <2>3. T \in SUBSET Nat /\ T # {}
      <3>1. \A p \in R : MaxPrice - p \in Nat
        BY <1>3
      <3> HIDE DEF R
      <3> QED  BY <2>2, <3>1
    <2>4. PICK x \in T : \A y \in T : x <= y
      <3> HIDE DEF T
      <3> QED  BY <2>3, Least
    <2>5. PICK q \in R : x = MaxPrice - q
      <3> HIDE DEF R
      <3> QED  OBVIOUS
    <2>6. ASSUME NEW i \in DOMAIN prices PROVE prices[i] <= q
      <3>1. prices[i] \in R /\ MaxPrice - prices[i] \in T
        OBVIOUS
      <3>2. MaxPrice - q <= MaxPrice - prices[i]
        BY <2>4, <2>5, <3>1
      <3>3. prices[i] \in 1 .. MaxPrice /\ q \in 1 .. MaxPrice
        BY <1>1, <1>3
      <3> HIDE DEF R, T
      <3> QED  BY <3>2, <3>3
    <2>7. NoDearer(prices, q) = DOMAIN prices
      BY <2>6 DEF NoDearer
    <2>8. n <= Cardinality(NoDearer(prices, q))
      BY <1>2, <2>7 DEF Count
    <2>9. q \in S
      BY <2>8
    <2> QED  BY <2>9
  <1>5. S \in SUBSET Nat
    BY <1>3
  <1>6. PICK p \in S : \A y \in S : p <= y
    <2> HIDE DEF S
    <2> QED  BY <1>4, <1>5, Least
  <1>7. p \in R /\ p \in 1 .. MaxPrice /\ n <= Cardinality(NoDearer(prices, p))
    BY <1>3
  <1>8. Cardinality(Cheaper(prices, p)) < n
    <2> DEFINE B == {q \in R : q < p}
    <2>1. CASE B = {}
      <3>1. \A i \in DOMAIN prices : prices[i] \in R /\ ~(prices[i] < p)
        BY <2>1
      <3>2. Cheaper(prices, p) = {}
        BY <3>1 DEF Cheaper
      <3> QED  BY <1>2, <3>2, FS_EmptySet
    <2>2. CASE B # {}
      <3> DEFINE T == {MaxPrice - q : q \in B}
      <3>1. T \in SUBSET Nat /\ T # {}
        <4>1. ASSUME NEW q \in B PROVE MaxPrice - q \in Nat
          <5>1. q \in R
            OBVIOUS
          <5> HIDE DEF R, B
          <5>2. q \in 1 .. MaxPrice
            BY <1>3, <5>1
          <5> QED  BY <5>2
        <4> HIDE DEF B
        <4> QED  BY <2>2, <4>1
      <3>2. PICK x \in T : \A y \in T : x <= y
        <4> HIDE DEF T
        <4> QED  BY <3>1, Least
      <3>3. PICK b \in B : x = MaxPrice - b
        <4> HIDE DEF B
        <4> QED  OBVIOUS
      <3>4. b \in R /\ b < p /\ b \in 1 .. MaxPrice
        BY <1>3
      <3>5. ASSUME NEW i \in DOMAIN prices, prices[i] < p PROVE prices[i] <= b
        <4>1. prices[i] \in B /\ MaxPrice - prices[i] \in T
          BY <3>5
        <4>2. MaxPrice - b <= MaxPrice - prices[i] /\ prices[i] \in 1 .. MaxPrice
          BY <1>1, <3>2, <3>3, <4>1
        <4> HIDE DEF R, T, B
        <4> QED  BY <3>4, <4>2
      <3>6. Cheaper(prices, p) = NoDearer(prices, b)
        <4>1. \A i \in DOMAIN prices : prices[i] < p <=> prices[i] <= b
          BY <1>1, <1>7, <3>4, <3>5
        <4> QED  BY <4>1 DEF Cheaper, NoDearer
      <3>7. b \notin S
        <4> HIDE DEF S
        <4> QED  BY <1>6, <1>7, <3>4
      <3>8. ~(n <= Cardinality(NoDearer(prices, b)))
        BY <3>4, <3>7
      <3> HIDE DEF R, S, B, T
      <3> QED  BY <1>2, <3>6, <3>8
    <2> QED  BY <2>1, <2>2
  <1> QED  BY <1>7, <1>8 DEF Ranked

LEMMA RankedOrder ==
    ASSUME NEW prices, PriceList(prices), NEW n \in Nat, NEW m \in Nat, n <= m,
           NEW p, Ranked(prices, p, n), NEW q, Ranked(prices, q, m)
    PROVE  /\ p \in 1 .. MaxPrice /\ q \in 1 .. MaxPrice /\ p <= q
           /\ n = m => p = q
  <1> USE PricingAssumption
  <1>1. p \in 1 .. MaxPrice /\ q \in 1 .. MaxPrice
    BY DEF Ranked, PriceList
  <1>2. /\ Cardinality(Cheaper(prices, p)) \in Nat /\ Cardinality(NoDearer(prices, p)) \in Nat
        /\ Cardinality(Cheaper(prices, q)) \in Nat /\ Cardinality(NoDearer(prices, q)) \in Nat
    BY Counts
  <1>3. /\ Cardinality(Cheaper(prices, p)) < n /\ n <= Cardinality(NoDearer(prices, p))
        /\ Cardinality(Cheaper(prices, q)) < m /\ m <= Cardinality(NoDearer(prices, q))
    BY DEF Ranked
  <1>4. /\ p < q => Cardinality(NoDearer(prices, p)) <= Cardinality(Cheaper(prices, q))
        /\ q < p => Cardinality(NoDearer(prices, q)) <= Cardinality(Cheaper(prices, p))
    BY <1>1, Dearer
  <1> QED  BY <1>1, <1>2, <1>3, <1>4

\* Sorting is what it should be.
LEMMA SortedIsRanked ==
    ASSUME NEW prices, PriceList(prices), NEW n \in 1 .. Count(prices)
    PROVE  Ranked(prices, Sorted(prices)[n], n)
  <1>1. PICK p : Ranked(prices, p, n)
    BY RankedExists
  <1> DEFINE R == {prices[i] : i \in DOMAIN prices}
             Test(q) == n \in Cardinality({i \in DOMAIN prices : prices[i] < q}) + 1
                              .. Cardinality({i \in DOMAIN prices : prices[i] <= q})
  <1>2. Count(prices) \in Nat /\ \A q : Cardinality(Cheaper(prices, q)) \in Nat /\ Cardinality(NoDearer(prices, q)) \in Nat
    BY Counts
  <1>3. \A q : Test(q) <=> Cardinality(Cheaper(prices, q)) < n /\ n <= Cardinality(NoDearer(prices, q))
    <2> SUFFICES ASSUME NEW q
                 PROVE  n \in Cardinality(Cheaper(prices, q)) + 1 .. Cardinality(NoDearer(prices, q))
                        <=> Cardinality(Cheaper(prices, q)) < n /\ n <= Cardinality(NoDearer(prices, q))
      BY DEF Cheaper, NoDearer
    <2> QED  BY <1>2
  <1>4. Sorted(prices)[n] = CHOOSE q \in R : Test(q)
    BY DEF Sorted
  <1>5. \E q \in R : Test(q)
    BY <1>1, <1>3 DEF Ranked
  <1> HIDE DEF R, Test
  <1>6. Sorted(prices)[n] \in R /\ Test(Sorted(prices)[n])
    BY <1>4, <1>5
  <1> QED  BY <1>3, <1>6 DEF Ranked, R

\* Sorted prices are prices, in order.
LEMMA SortedOrder ==
    ASSUME NEW prices, PriceList(prices),
           NEW n \in 1 .. Count(prices), NEW m \in 1 .. Count(prices), n <= m
    PROVE  /\ Sorted(prices)[n] \in 1 .. MaxPrice
           /\ Sorted(prices)[m] \in 1 .. MaxPrice
           /\ Sorted(prices)[n] <= Sorted(prices)[m]
  <1>1. Ranked(prices, Sorted(prices)[n], n) /\ Ranked(prices, Sorted(prices)[m], m)
    BY SortedIsRanked
  <1>2. Count(prices) \in Nat
    BY Counts
  <1>3. n \in Nat /\ m \in Nat
    BY <1>2
  <1> QED  BY <1>1, <1>3, RankedOrder

\* The median is between the smallest price and the largest.
LEMMA MedianBounds ==
    ASSUME NEW prices, PriceList(prices)
    PROVE  /\ Median(prices) \in 0 .. 4 * MaxPrice
           /\ Count(prices) > 0 =>
                /\ 4 * Sorted(prices)[1] <= Median(prices)
                /\ Median(prices) <= 4 * Sorted(prices)[Count(prices)]
                /\ Median(prices) > 0
  <1> USE PricingAssumption
  <1>1. PICK n \in Nat : n = Count(prices)
    BY Counts
  <1>2. CASE n = 0
    BY <1>1, <1>2 DEF Median
  <1>3. CASE n > 0
    <2> DEFINE s == Sorted(prices)
    <2>1. /\ (n + 1) \div 2 \in 1 .. n /\ (n + 2) \div 2 \in 1 .. n
          /\ 1 \in 1 .. n /\ n \in 1 .. n
          /\ (n + 1) \div 2 <= n /\ (n + 2) \div 2 <= n /\ 1 <= (n + 1) \div 2 /\ 1 <= (n + 2) \div 2
      BY <1>3
    <2>2. PICK a \in 1 .. n, b \in 1 .. n : a = (n + 1) \div 2 /\ b = (n + 2) \div 2
      BY <2>1
    <2>3. \A i \in 1 .. n : i <= n /\ 1 <= i
      OBVIOUS
    <2>4. /\ s[a] \in 1 .. MaxPrice /\ s[b] \in 1 .. MaxPrice
          /\ s[1] \in 1 .. MaxPrice /\ s[n] \in 1 .. MaxPrice
          /\ s[1] <= s[a] /\ s[1] <= s[b] /\ s[a] <= s[n] /\ s[b] <= s[n]
      BY <1>1, <2>1, <2>3, SortedOrder
    <2>5. Median(prices) = 2 * (s[a] + s[b])
      BY <1>1, <1>3, <2>2 DEF Median
    <2> HIDE DEF s
    <2>6. /\ Median(prices) \in 0 .. 4 * MaxPrice
          /\ 4 * s[1] <= Median(prices) /\ Median(prices) <= 4 * s[n] /\ Median(prices) > 0
      BY <2>4, <2>5
    <2> QED  BY <1>1, <2>6 DEF s
  <1> QED  BY <1>2, <1>3

\* The quartiles and the median are in order.
LEMMA QuartilesInOrder ==
    ASSUME NEW prices, PriceList(prices), Count(prices) > 0
    PROVE  /\ Percentile(prices, 1) \in Nat /\ Percentile(prices, 3) \in Nat
           /\ 4 * Sorted(prices)[1] <= Percentile(prices, 1)
           /\ Percentile(prices, 1) <= Median(prices)
           /\ Median(prices) <= Percentile(prices, 3)
           /\ Percentile(prices, 3) <= 4 * Sorted(prices)[Count(prices)]
  <1> USE PricingAssumption
  <1> DEFINE s == Sorted(prices)
  <1>1. PICK n \in Nat : n = Count(prices) /\ n > 0
    BY Counts
  <1>2. \A i \in 1 .. n, j \in 1 .. n : /\ s[i] \in 1 .. MaxPrice /\ s[j] \in 1 .. MaxPrice
                                        /\ i <= j => s[i] <= s[j]
    <2> SUFFICES ASSUME NEW i \in 1 .. n, NEW j \in 1 .. n
                 PROVE  /\ s[i] \in 1 .. MaxPrice /\ s[j] \in 1 .. MaxPrice
                        /\ i <= j => s[i] <= s[j]
      OBVIOUS
    <2>1. i <= j \/ j <= i
      OBVIOUS
    <2> QED  BY <1>1, <2>1, SortedOrder
  <1> HIDE DEF s
  <1>3. PICK a \in 1 .. n, b \in 1 .. n : a = (n + 1) \div 2 /\ b = (n + 2) \div 2
    <2>1. (n + 1) \div 2 \in 1 .. n /\ (n + 2) \div 2 \in 1 .. n
      BY <1>1
    <2> QED  BY <2>1
  <1>4. Median(prices) = 2 * (s[a] + s[b])
    BY <1>1, <1>3 DEF Median, s
  <1>5. PICK l \in 1 .. n, h \in 1 .. n, r \in 0 .. 3 :
            /\ l = (n - 1) \div 4 + 1 /\ r = (n - 1) % 4
            /\ h = IF l + 1 > n THEN n ELSE l + 1
    <2>1. /\ (n - 1) \div 4 + 1 \in 1 .. n /\ (n - 1) % 4 \in 0 .. 3
      BY <1>1
    <2> DEFINE low == (n - 1) \div 4 + 1
    <2>2. low \in 1 .. n
      BY <2>1
    <2> HIDE DEF low
    <2>3. (IF low + 1 > n THEN n ELSE low + 1) \in 1 .. n
      BY <2>2, <1>1
    <2> QED  BY <2>1, <2>2, <2>3 DEF low
  <1>6. PICK l3 \in 1 .. n, h3 \in 1 .. n, r3 \in 0 .. 3 :
            /\ l3 = (3 * (n - 1)) \div 4 + 1 /\ r3 = (3 * (n - 1)) % 4
            /\ h3 = IF l3 + 1 > n THEN n ELSE l3 + 1
    <2>1. /\ (3 * (n - 1)) \div 4 + 1 \in 1 .. n /\ (3 * (n - 1)) % 4 \in 0 .. 3
      BY <1>1
    <2> DEFINE low == (3 * (n - 1)) \div 4 + 1
    <2>2. low \in 1 .. n
      BY <2>1
    <2> HIDE DEF low
    <2>3. (IF low + 1 > n THEN n ELSE low + 1) \in 1 .. n
      BY <2>2, <1>1
    <2> QED  BY <2>1, <2>2, <2>3 DEF low
  <1>7. Percentile(prices, 1) = 4 * s[l] + r * (s[h] - s[l])
    <2>1. (n - 1) * 1 = n - 1 /\ n # 0
      BY <1>1
    <2> QED  BY <1>1, <1>5, <2>1 DEF Percentile, AtMost, s
  <1>8. Percentile(prices, 3) = 4 * s[l3] + r3 * (s[h3] - s[l3])
    <2>1. (n - 1) * 3 = 3 * (n - 1) /\ n # 0
      BY <1>1
    <2> QED  BY <1>1, <1>6, <2>1 DEF Percentile, AtMost, s
  <1>9. ASSUME NEW x \in Nat, NEW y \in Nat, x <= y, NEW k \in 0 .. 3
        PROVE  /\ 4 * x + k * (y - x) \in Nat
               /\ 4 * x <= 4 * x + k * (y - x) /\ 4 * x + k * (y - x) <= 4 * y
    <2>1. k = 0 \/ k = 1 \/ k = 2 \/ k = 3
      OBVIOUS
    <2> QED  BY <1>9, <2>1
  <1>10. /\ l <= h /\ l3 <= h3 /\ 1 <= l /\ h3 <= n /\ a <= b
         /\ 1 \in 1 .. n /\ n \in 1 .. n
    BY <1>1, <1>3, <1>5, <1>6
  <1>11. \A i \in 1 .. n : s[i] \in Nat
    BY <1>2
  <1>12. /\ s[1] <= s[l] /\ s[l] <= s[h] /\ s[l3] <= s[h3] /\ s[h3] <= s[n] /\ s[a] <= s[b]
    BY <1>2, <1>10
  <1>13. /\ Percentile(prices, 1) \in Nat
         /\ 4 * s[l] <= Percentile(prices, 1) /\ Percentile(prices, 1) <= 4 * s[h]
    BY <1>7, <1>9, <1>11, <1>12
  <1>14. /\ Percentile(prices, 3) \in Nat
         /\ 4 * s[l3] <= Percentile(prices, 3) /\ Percentile(prices, 3) <= 4 * s[h3]
    BY <1>8, <1>9, <1>11, <1>12
  <1>15. Percentile(prices, 1) <= Median(prices) /\ Median(prices) <= Percentile(prices, 3)
    <2>1. CASE n = 1
      <3>1. a = 1 /\ b = 1 /\ l = 1 /\ h = 1 /\ l3 = 1
        BY <2>1
      <3> QED  BY <1>4, <1>11, <1>13, <1>14, <3>1
    <2>2. CASE n = 2
      <3>1. a = 1 /\ b = 2 /\ l = 1 /\ h = 2 /\ l3 = 1 /\ h3 = 2 /\ r = 1 /\ r3 = 3
        BY <1>3, <1>5, <1>6, <2>2
      <3> QED  BY <1>4, <1>7, <1>8, <1>11, <1>12, <3>1
    <2>3. CASE n >= 3
      <3>1. h <= a /\ b <= l3
        BY <1>3, <1>5, <1>6, <2>3
      <3>2. s[h] <= s[a] /\ s[b] <= s[l3]
        BY <1>2, <3>1
      <3> QED  BY <1>4, <1>11, <1>12, <1>13, <1>14, <3>2
    <2> QED  BY <1>1, <2>1, <2>2, <2>3
  <1> QED  BY <1>1, <1>11, <1>10, <1>12, <1>13, <1>14, <1>15 DEF s

\* A function on a part of the places.
LEMMA CutoffIs ==
    ASSUME NEW prices, PriceList(prices)
    PROVE  /\ PriceList(AboveCutoff(prices))
           /\ DOMAIN AboveCutoff(prices) =
                  {i \in DOMAIN prices : 16 * prices[i] >= Median(prices)}
           /\ \A i \in DOMAIN AboveCutoff(prices) : AboveCutoff(prices)[i] = prices[i]
  <1>1. /\ DOMAIN AboveCutoff(prices) = {i \in DOMAIN prices : 16 * prices[i] >= Median(prices)}
        /\ \A i \in DOMAIN AboveCutoff(prices) : AboveCutoff(prices)[i] = prices[i]
    BY DEF AboveCutoff
  <1>2. DOMAIN AboveCutoff(prices) \subseteq DOMAIN prices
    BY <1>1
  <1>3. IsFiniteSet(DOMAIN AboveCutoff(prices))
    BY <1>2, FS_Subset DEF PriceList
  <1>4. AboveCutoff(prices) \in [DOMAIN AboveCutoff(prices) -> 1 .. MaxPrice]
    <2>1. \A i \in DOMAIN prices : prices[i] \in 1 .. MaxPrice
      BY DEF PriceList
    <2>2. \A i \in DOMAIN AboveCutoff(prices) : AboveCutoff(prices)[i] \in 1 .. MaxPrice
      BY <1>1, <1>2, <2>1
    <2>3. AboveCutoff(prices) = [i \in DOMAIN AboveCutoff(prices) |-> AboveCutoff(prices)[i]]
      BY DEF AboveCutoff
    <2> QED  BY <2>2, <2>3
  <1> QED  BY <1>1, <1>3, <1>4 DEF PriceList

\* The cutoff drops the cheapest prices: what is left is in the same order.
LEMMA CutoffShifts ==
    ASSUME NEW prices, PriceList(prices), Count(prices) > 0,
           NEW kept, kept = AboveCutoff(prices)
    PROVE  \E d \in Nat :
               /\ d < Count(prices) /\ Count(kept) = Count(prices) - d
               /\ \A j \in 1 .. Count(kept) : Sorted(kept)[j] = Sorted(prices)[j + d]
               /\ d = 0 => kept = prices
  <1> USE PricingAssumption
  <1> DEFINE m == Median(prices)
             D == {i \in DOMAIN prices : 16 * prices[i] < m}
             n == Count(prices)
  <1>1. /\ PriceList(kept)
        /\ DOMAIN kept = {i \in DOMAIN prices : 16 * prices[i] >= m}
        /\ \A i \in DOMAIN kept : kept[i] = prices[i]
    BY CutoffIs
  <1>2. \A i \in DOMAIN prices : prices[i] \in 1 .. MaxPrice
    BY DEF PriceList
  <1>3. /\ n \in Nat /\ m \in Nat /\ n > 0
        /\ 4 * Sorted(prices)[1] <= m /\ m <= 4 * Sorted(prices)[n]
    BY Counts, MedianBounds
  <1>4. IsFiniteSet(DOMAIN prices) /\ IsFiniteSet(D)
    <2>1. IsFiniteSet(DOMAIN prices)
      BY DEF PriceList
    <2> QED  BY <2>1, FS_Subset
  <1> HIDE DEF m
  <1>5. DOMAIN kept = DOMAIN prices \ D
    <2>1. \A i \in DOMAIN prices : 16 * prices[i] >= m <=> ~(16 * prices[i] < m)
      BY <1>2, <1>3
    <2> QED  BY <1>1, <2>1
  <1> DEFINE d == Cardinality(D)
  <1>6. d \in Nat /\ Count(kept) = n - d
    <2>1. D \subseteq DOMAIN prices /\ (DOMAIN prices) \cap D = D
      OBVIOUS
    <2> HIDE DEF D
    <2>2. Cardinality(DOMAIN prices \ D) = Cardinality(DOMAIN prices) - Cardinality((DOMAIN prices) \cap D)
      BY <1>4, FS_Difference
    <2>3. Cardinality(D) \in Nat
      BY <1>4, FS_CardinalityType
    <2> QED  BY <1>5, <2>1, <2>2, <2>3 DEF Count
  <1>7. \A p \in 1 .. MaxPrice : 16 * p >= m =>
            /\ Cardinality(Cheaper(kept, p)) = Cardinality(Cheaper(prices, p)) - d
            /\ Cardinality(NoDearer(kept, p)) = Cardinality(NoDearer(prices, p)) - d
    <2> SUFFICES ASSUME NEW p \in 1 .. MaxPrice, 16 * p >= m
                 PROVE  /\ Cardinality(Cheaper(kept, p)) = Cardinality(Cheaper(prices, p)) - d
                        /\ Cardinality(NoDearer(kept, p)) = Cardinality(NoDearer(prices, p)) - d
      OBVIOUS
    <2>1. \A i \in D : prices[i] < p
      BY <1>2, <1>3
    <2>2. D \subseteq Cheaper(prices, p) /\ D \subseteq NoDearer(prices, p)
      <3>1. \A i \in D : prices[i] < p /\ prices[i] <= p
        BY <1>2, <2>1
      <3> QED  BY <3>1 DEF Cheaper, NoDearer
    <2>3. Cheaper(kept, p) = Cheaper(prices, p) \ D /\ NoDearer(kept, p) = NoDearer(prices, p) \ D
      <3> HIDE DEF D
      <3> QED  BY <1>1, <1>5 DEF Cheaper, NoDearer
    <2>4. Cheaper(prices, p) \cap D = D /\ NoDearer(prices, p) \cap D = D
      BY <2>2
    <2>5. IsFiniteSet(Cheaper(prices, p)) /\ IsFiniteSet(NoDearer(prices, p))
      BY Counts
    <2> HIDE DEF D
    <2>6. /\ Cardinality(Cheaper(prices, p) \ D)
                 = Cardinality(Cheaper(prices, p)) - Cardinality(Cheaper(prices, p) \cap D)
          /\ Cardinality(NoDearer(prices, p) \ D)
                 = Cardinality(NoDearer(prices, p)) - Cardinality(NoDearer(prices, p) \cap D)
      BY <1>4, <2>5, FS_Difference
    <2> QED  BY <2>3, <2>4, <2>6
  <1>8. ASSUME NEW p, NEW j \in 1 .. n, j > d, Ranked(prices, p, j)
        PROVE  p \in 1 .. MaxPrice /\ 16 * p >= m
    <2>1. p \in 1 .. MaxPrice
      BY <1>2, <1>8 DEF Ranked
    <2>2. CASE 16 * p < m
      <3>1. \A i \in DOMAIN prices : prices[i] <= p => 16 * prices[i] < m
        BY <1>2, <1>3, <2>1, <2>2
      <3>2. NoDearer(prices, p) \subseteq D
        BY <3>1 DEF NoDearer
      <3>3. Cardinality(NoDearer(prices, p)) <= d
        BY <1>4, <3>2, FS_Subset
      <3>4. j <= Cardinality(NoDearer(prices, p)) /\ Cardinality(NoDearer(prices, p)) \in Nat
        BY <1>8, Counts DEF Ranked
      <3> HIDE DEF D
      <3> QED  BY <1>3, <1>6, <1>8, <3>3, <3>4
    <2> QED  BY <1>3, <2>1, <2>2
  <1>9. d < n
    <2>1. n \in 1 .. n
      BY <1>3
    <2>2. Ranked(prices, Sorted(prices)[n], n)
      BY <2>1, SortedIsRanked
    <2>3. PICK i \in DOMAIN prices : prices[i] = Sorted(prices)[n]
      BY <2>2 DEF Ranked
    <2>4. 16 * prices[i] >= m
      BY <1>2, <1>3, <2>3
    <2>5. i \in DOMAIN kept
      BY <1>1, <2>4
    <2>6. Count(kept) # 0
      BY <1>1, <2>5, FS_EmptySet DEF Count, PriceList
    <2>7. Count(kept) \in Nat
      BY <1>1, Counts
    <2> HIDE DEF D
    <2> QED  BY <1>3, <1>6, <2>6, <2>7
  <1>10. ASSUME NEW j \in 1 .. Count(kept)
         PROVE  Sorted(kept)[j] = Sorted(prices)[j + d]
    <2> HIDE DEF D
    <2>1. j + d \in 1 .. n /\ j + d > d /\ j \in Nat
      BY <1>3, <1>6, <1>9
    <2> DEFINE p == Sorted(prices)[j + d]
    <2>2. Ranked(prices, p, j + d)
      BY <2>1, SortedIsRanked
    <2>3. p \in 1 .. MaxPrice /\ 16 * p >= m
      BY <1>8, <2>1, <2>2
    <2>4. PICK i \in DOMAIN prices : prices[i] = p
      BY <2>2 DEF Ranked
    <2>5. p \in {kept[x] : x \in DOMAIN kept}
      <3>1. i \in DOMAIN kept /\ kept[i] = p
        BY <1>1, <2>3, <2>4
      <3> QED  BY <3>1
    <2>6. /\ Cardinality(Cheaper(prices, p)) < j + d /\ j + d <= Cardinality(NoDearer(prices, p))
          /\ Cardinality(Cheaper(prices, p)) \in Nat /\ Cardinality(NoDearer(prices, p)) \in Nat
      BY <2>2, Counts DEF Ranked
    <2> HIDE DEF p
    <2>7. Ranked(kept, p, j)
      <3>1. /\ Cardinality(Cheaper(kept, p)) = Cardinality(Cheaper(prices, p)) - d
            /\ Cardinality(NoDearer(kept, p)) = Cardinality(NoDearer(prices, p)) - d
        BY <1>7, <2>3
      <3>2. Cardinality(Cheaper(kept, p)) < j /\ j <= Cardinality(NoDearer(kept, p))
        BY <1>6, <2>1, <2>6, <3>1
      <3> QED  BY <2>5, <3>2 DEF Ranked
    <2>8. Ranked(kept, Sorted(kept)[j], j)
      BY <1>1, SortedIsRanked
    <2>9. Sorted(kept)[j] = p
      BY <1>1, <2>1, <2>7, <2>8, RankedOrder
    <2> QED  BY <2>9 DEF p
  <1>11. d = 0 => kept = prices
    <2>1. d = 0 => D = {}
      BY <1>4, FS_EmptySet
    <2>2. d = 0 => DOMAIN kept = DOMAIN prices
      <3> HIDE DEF D
      <3> QED  BY <1>5, <2>1
    <2> HIDE DEF D
    <2> QED  BY <1>1, <2>2 DEF PriceList
  <1> HIDE DEF D
  <1> QED  BY <1>6, <1>9, <1>10, <1>11

\* Dropping prices raises the cutoff: what was dropped stays dropped.
LEMMA MedianGrows ==
    ASSUME NEW prices, PriceList(prices), Count(prices) > 0
    PROVE  /\ Count(AboveCutoff(prices)) > 0
           /\ Median(prices) <= Median(AboveCutoff(prices))
           /\ AboveCutoff(prices) = prices \/ Count(AboveCutoff(prices)) + 1 <= Count(prices)
  <1> USE PricingAssumption
  <1> DEFINE kept == AboveCutoff(prices)
  <1>1. PICK d \in Nat :
               /\ d < Count(prices) /\ Count(kept) = Count(prices) - d
               /\ \A j \in 1 .. Count(kept) : Sorted(kept)[j] = Sorted(prices)[j + d]
               /\ d = 0 => kept = prices
    BY CutoffShifts
  <1>2. PriceList(kept)
    BY CutoffIs
  <1> HIDE DEF kept
  <1>3. PICK n \in Nat, k \in Nat : n = Count(prices) /\ k = Count(kept) /\ n > 0
    BY <1>2, Counts
  <1>4. k = n - d /\ k > 0
    BY <1>1, <1>3
  <1> DEFINE s == Sorted(prices)
  <1>5. PICK a \in 1 .. n, b \in 1 .. n : a = (n + 1) \div 2 /\ b = (n + 2) \div 2
    <2>1. (n + 1) \div 2 \in 1 .. n /\ (n + 2) \div 2 \in 1 .. n
      BY <1>3
    <2> QED  BY <2>1
  <1>6. PICK u \in 1 .. k, v \in 1 .. k : u = (k + 1) \div 2 /\ v = (k + 2) \div 2
    <2>1. (k + 1) \div 2 \in 1 .. k /\ (k + 2) \div 2 \in 1 .. k
      BY <1>4
    <2> QED  BY <2>1
  <1>7. Median(prices) = 2 * (s[a] + s[b])
    BY <1>3, <1>5 DEF Median
  <1>8. Median(kept) = 2 * (Sorted(kept)[u] + Sorted(kept)[v])
    BY <1>3, <1>4, <1>6 DEF Median
  <1>9. Sorted(kept)[u] = s[u + d] /\ Sorted(kept)[v] = s[v + d]
    BY <1>1, <1>3
  <1>10. u + d \in 1 .. n /\ v + d \in 1 .. n /\ a <= u + d /\ b <= v + d
    BY <1>4, <1>5, <1>6
  <1>11. /\ s[a] \in 1 .. MaxPrice /\ s[u + d] \in 1 .. MaxPrice /\ s[a] <= s[u + d]
         /\ s[b] \in 1 .. MaxPrice /\ s[v + d] \in 1 .. MaxPrice /\ s[b] <= s[v + d]
    BY <1>3, <1>10, SortedOrder
  <1> HIDE DEF s
  <1>12. Median(prices) <= Median(kept)
    BY <1>7, <1>8, <1>9, <1>11
  <1>13. kept = prices \/ Count(kept) + 1 <= Count(prices)
    BY <1>1, <1>3, <1>4
  <1> QED  BY <1>3, <1>4, <1>12, <1>13 DEF kept

-----------------------------------------------------------------------------
(* The loop of split_low_outliers. *)

\* The first n rounds of the loop.
Rounds(f, prices, n) ==
    /\ f = [m \in 0 .. n |-> f[m]]
    /\ f[0] = prices
    /\ \A m \in 1 .. n : f[m] = AboveCutoff(f[m - 1])

LEMMA RoundsAgree ==
    ASSUME NEW prices, NEW f, NEW g, NEW n \in Nat, NEW k \in Nat,
           Rounds(f, prices, n), Rounds(g, prices, k)
    PROVE  \A m \in Nat : m <= n /\ m <= k => f[m] = g[m]
  <1> DEFINE Bad == {m \in Nat : m <= n /\ m <= k /\ f[m] # g[m]}
  <1> SUFFICES ASSUME Bad # {} PROVE FALSE
    OBVIOUS
  <1>1. PICK m \in Bad : \A x \in Bad : m <= x
    <2>1. Bad \in SUBSET Nat
      OBVIOUS
    <2> HIDE DEF Bad
    <2> QED  BY <2>1, Least
  <1>2. m \in Nat /\ m <= n /\ m <= k /\ f[m] # g[m]
    OBVIOUS
  <1>3. m # 0
    BY <1>2 DEF Rounds
  <1>4. m - 1 \in Nat /\ m - 1 <= n /\ m - 1 <= k /\ m \in 1 .. n /\ m \in 1 .. k /\ ~(m <= m - 1)
    BY <1>2, <1>3
  <1>5. m - 1 \notin Bad
    <2> HIDE DEF Bad
    <2> QED  BY <1>1, <1>4
  <1>6. f[m - 1] = g[m - 1]
    BY <1>4, <1>5
  <1>7. f[m] = AboveCutoff(f[m - 1]) /\ g[m] = AboveCutoff(g[m - 1])
    BY <1>4 DEF Rounds
  <1> QED  BY <1>2, <1>6, <1>7

LEMMA RoundsExist ==
    ASSUME NEW prices, NEW n \in Nat
    PROVE  \E f : Rounds(f, prices, n)
  <1> DEFINE Bad == {m \in Nat : \A f : ~Rounds(f, prices, m)}
  <1> SUFFICES ASSUME Bad # {} PROVE FALSE
    OBVIOUS
  <1>1. PICK m \in Bad : \A x \in Bad : m <= x
    <2>1. Bad \in SUBSET Nat
      OBVIOUS
    <2> HIDE DEF Bad
    <2> QED  BY <2>1, Least
  <1>2. m \in Nat /\ \A f : ~Rounds(f, prices, m)
    OBVIOUS
  <1>3. m # 0
    <2> DEFINE f == [x \in 0 .. 0 |-> prices]
    <2>1. Rounds(f, prices, 0)
      <3>1. f[0] = prices /\ f = [x \in 0 .. 0 |-> f[x]]
        OBVIOUS
      <3> HIDE DEF f
      <3> QED  BY <3>1 DEF Rounds
    <2> QED  BY <1>2, <2>1
  <1>4. m - 1 \in Nat /\ ~(m <= m - 1)
    BY <1>2, <1>3
  <1>5. PICK f : Rounds(f, prices, m - 1)
    <2>1. m - 1 \notin Bad
      <3> HIDE DEF Bad
      <3> QED  BY <1>1, <1>4
    <2> QED  BY <1>4, <2>1
  <1> DEFINE g == [x \in 0 .. m |-> IF x = m THEN AboveCutoff(f[m - 1]) ELSE f[x]]
  <1>6. g = [x \in 0 .. m |-> g[x]]
    OBVIOUS
  <1>7. g[0] = prices
    <2>1. 0 \in 0 .. m
      BY <1>2
    <2>2. g[0] = f[0]
      BY <1>3, <2>1
    <2> QED  BY <1>5, <2>2 DEF Rounds
  <1>8. ASSUME NEW x \in 1 .. m PROVE g[x] = AboveCutoff(g[x - 1])
    <2>1. x \in 0 .. m /\ x - 1 \in 0 .. m /\ x - 1 # m /\ (x # m => x \in 1 .. m - 1)
      BY <1>2
    <2>2. g[x - 1] = f[x - 1]
      BY <2>1
    <2>3. CASE x = m
      BY <2>1, <2>2, <2>3
    <2>4. CASE x # m
      <3>1. g[x] = f[x]
        BY <2>1, <2>4
      <3>2. f[x] = AboveCutoff(f[x - 1])
        BY <1>5, <2>1, <2>4 DEF Rounds
      <3> QED  BY <2>2, <3>1, <3>2
    <2> QED  BY <2>3, <2>4
  <1>9. Rounds(g, prices, m)
    <2> HIDE DEF g
    <2> QED  BY <1>6, <1>7, <1>8 DEF Rounds
  <1> QED  BY <1>2, <1>9

\* The loop has an outcome.
LEMMA LoopExists ==
    ASSUME NEW prices
    PROVE  \E f : f = [n \in Nat |-> IF n = 0 THEN prices ELSE AboveCutoff(f[n - 1])]
  <1> DEFINE part(n) == CHOOSE f : Rounds(f, prices, n)
             f == [n \in Nat |-> part(n)[n]]
  <1>1. \A n \in Nat : Rounds(part(n), prices, n)
    BY RoundsExist
  <1> HIDE DEF part
  <1>2. ASSUME NEW n \in Nat
        PROVE  f[n] = IF n = 0 THEN prices ELSE AboveCutoff(f[n - 1])
    <2>1. f[n] = part(n)[n] /\ Rounds(part(n), prices, n)
      BY <1>1
    <2>2. CASE n = 0
      BY <2>1, <2>2 DEF Rounds
    <2>3. CASE n # 0
      <3>1. n - 1 \in Nat /\ n \in 1 .. n /\ n - 1 <= n /\ n - 1 <= n - 1
        BY <2>3
      <3>2. part(n)[n] = AboveCutoff(part(n)[n - 1])
        BY <2>1, <3>1 DEF Rounds
      <3>3. Rounds(part(n - 1), prices, n - 1) /\ f[n - 1] = part(n - 1)[n - 1]
        BY <1>1, <3>1
      <3>4. part(n)[n - 1] = part(n - 1)[n - 1]
        BY <2>1, <3>1, <3>3, RoundsAgree
      <3> HIDE DEF f
      <3> QED  BY <2>1, <2>3, <3>2, <3>3, <3>4
    <2> QED  BY <2>2, <2>3
  <1>3. f = [n \in Nat |-> f[n]]
    OBVIOUS
  <1>4. f = [n \in Nat |-> IF n = 0 THEN prices ELSE AboveCutoff(f[n - 1])]
    <2> HIDE DEF f
    <2>1. [n \in Nat |-> f[n]] = [n \in Nat |-> IF n = 0 THEN prices ELSE AboveCutoff(f[n - 1])]
      BY <1>2
    <2> QED  BY <1>3, <2>1
  <1> QED  BY <1>4

\* What holds after n rounds.
Stage(kept, prices, n) ==
    /\ PriceList(kept)
    /\ DOMAIN kept \subseteq DOMAIN prices
    /\ \A i \in DOMAIN kept : kept[i] = prices[i]
    /\ Count(prices) > 0 => Count(kept) > 0
    /\ \A i \in DOMAIN prices \ DOMAIN kept : 16 * prices[i] < Median(kept)
    /\ AboveCutoff(kept) = kept \/ Count(kept) + n <= Count(prices)

LEMMA NextStage ==
    ASSUME NEW prices, PriceList(prices), NEW kept, NEW n \in Nat, Stage(kept, prices, n)
    PROVE  Stage(AboveCutoff(kept), prices, n + 1)
  <1> USE PricingAssumption
  <1> DEFINE next == AboveCutoff(kept)
  <1>1. PriceList(kept)
    BY DEF Stage
  <1>2. /\ PriceList(next)
        /\ DOMAIN next = {i \in DOMAIN kept : 16 * kept[i] >= Median(kept)}
        /\ \A i \in DOMAIN next : next[i] = kept[i]
    BY <1>1, CutoffIs
  <1>3. CASE DOMAIN kept = {}
    <2>1. DOMAIN next = {} /\ next = kept
      <3>1. DOMAIN next = {}
        BY <1>2, <1>3
      <3>2. next = [i \in {} |-> next[i]] /\ kept = [i \in {} |-> kept[i]]
        BY <1>1, <1>2, <1>3, <3>1 DEF PriceList
      <3> HIDE DEF next
      <3> QED  BY <3>1, <3>2
    <2> QED  BY <2>1 DEF Stage
  <1>4. CASE DOMAIN kept # {}
    <2>1. Count(kept) > 0 /\ Count(kept) \in Nat /\ Count(next) \in Nat /\ Count(prices) \in Nat
      <3>1. Count(kept) # 0
        BY <1>1, <1>4, FS_EmptySet DEF Count, PriceList
      <3> QED  BY <1>1, <1>2, <3>1, Counts
    <2>2. /\ Count(next) > 0 /\ Median(kept) <= Median(next)
          /\ next = kept \/ Count(next) + 1 <= Count(kept)
      BY <1>1, <2>1, MedianGrows
    <2>3. Median(kept) \in Nat /\ Median(next) \in Nat
      BY <1>1, <1>2, MedianBounds
    <2>4. \A i \in DOMAIN prices : prices[i] \in 1 .. MaxPrice
      BY DEF PriceList
    <2> HIDE DEF next
    <2>5. ASSUME NEW i \in DOMAIN prices \ DOMAIN next
          PROVE  16 * prices[i] < Median(next)
      <3>1. CASE i \in DOMAIN kept
        <4>1. kept[i] = prices[i] /\ ~(16 * kept[i] >= Median(kept))
          BY <1>2, <3>1 DEF Stage
        <4> QED  BY <2>2, <2>3, <2>4, <4>1
      <3>2. CASE i \notin DOMAIN kept
        <4>1. 16 * prices[i] < Median(kept)
          BY <3>2 DEF Stage
        <4> QED  BY <2>2, <2>3, <2>4, <4>1
      <3> QED  BY <3>1, <3>2
    <2>6. AboveCutoff(next) = next \/ Count(next) + (n + 1) <= Count(prices)
      <3>1. CASE next = kept
        BY <1>2, <2>1, <3>1, MedianGrows DEF next, Stage
      <3>2. CASE next # kept
        <4>1. AboveCutoff(kept) # kept
          BY <3>2 DEF next
        <4>2. Count(kept) + n <= Count(prices)
          BY <4>1 DEF Stage
        <4> QED  BY <2>1, <2>2, <3>2, <4>2
      <3> QED  BY <3>1, <3>2
    <2>7. DOMAIN next \subseteq DOMAIN prices /\ \A i \in DOMAIN next : next[i] = prices[i]
      BY <1>2 DEF Stage
    <2>8. Stage(next, prices, n + 1)
      BY <1>2, <2>2, <2>5, <2>6, <2>7 DEF Stage
    <2> QED  BY <2>8 DEF next
  <1> QED  BY <1>3, <1>4

\* The loop keeps some prices if there are any; it leaves out exactly those below the
\* cutoff of what it keeps.
LEMMA KeptFacts ==
    ASSUME NEW prices, PriceList(prices)
    PROVE  /\ PriceList(Kept(prices))
           /\ DOMAIN Kept(prices) \subseteq DOMAIN prices
           /\ \A i \in DOMAIN Kept(prices) : Kept(prices)[i] = prices[i]
           /\ Count(prices) > 0 => Count(Kept(prices)) > 0
           /\ Count(prices) >= MinPrices =>
                DOMAIN Kept(prices) = {i \in DOMAIN prices : 16 * prices[i] >= Median(Kept(prices))}
           /\ Count(prices) < MinPrices => Kept(prices) = prices
  <1> USE PricingAssumption
  <1>1. Count(prices) \in Nat
    BY Counts
  <1>2. CASE Count(prices) < MinPrices
    <2>1. Kept(prices) = prices
      BY <1>2 DEF Kept
    <2> QED  BY <1>1, <1>2, <2>1
  <1>3. CASE Count(prices) >= MinPrices
    <2> DEFINE f == CHOOSE f : f = [n \in Nat |-> IF n = 0 THEN prices ELSE AboveCutoff(f[n - 1])]
    <2>1. Kept(prices) = f[Count(prices)]
      BY <1>1, <1>3 DEF Kept
    <2>2. f = [n \in Nat |-> IF n = 0 THEN prices ELSE AboveCutoff(f[n - 1])]
      BY LoopExists
    <2> HIDE DEF f
    <2>3. f[0] = prices /\ \A n \in Nat : f[n + 1] = AboveCutoff(f[n])
      <3>1. f[0] = prices
        BY <2>2
      <3>2. ASSUME NEW n \in Nat PROVE f[n + 1] = AboveCutoff(f[n])
        <4>1. n + 1 \in Nat /\ n + 1 # 0 /\ n + 1 - 1 = n
          OBVIOUS
        <4>2. f[n + 1] = AboveCutoff(f[n + 1 - 1])
          BY <2>2, <4>1
        <4> QED  BY <4>1, <4>2
      <3> QED  BY <3>1, <3>2
    <2> DEFINE Bad == {n \in Nat : ~Stage(f[n], prices, n)}
    <2>4. Bad = {}
      <3> SUFFICES ASSUME Bad # {} PROVE FALSE
        OBVIOUS
      <3>1. PICK n \in Bad : \A x \in Bad : n <= x
        <4>1. Bad \in SUBSET Nat
          OBVIOUS
        <4> HIDE DEF Bad
        <4> QED  BY <4>1, Least
      <3>2. n \in Nat /\ ~Stage(f[n], prices, n)
        OBVIOUS
      <3>3. n # 0
        <4>1. Stage(prices, prices, 0)
          BY <1>1 DEF Stage
        <4> QED  BY <2>3, <3>2, <4>1
      <3>4. n - 1 \in Nat /\ ~(n <= n - 1) /\ (n - 1) + 1 = n
        BY <3>2, <3>3
      <3>5. n - 1 \notin Bad
        <4> HIDE DEF Bad
        <4> QED  BY <3>1, <3>4
      <3>6. Stage(f[n - 1], prices, n - 1)
        BY <3>4, <3>5
      <3>7. Stage(AboveCutoff(f[n - 1]), prices, (n - 1) + 1)
        BY <3>4, <3>6, NextStage
      <3>8. f[n] = AboveCutoff(f[n - 1])
        BY <2>3, <3>4
      <3> QED  BY <3>2, <3>4, <3>7, <3>8
    <2>5. Stage(Kept(prices), prices, Count(prices))
      BY <1>1, <2>1, <2>4
    <2> DEFINE k == Kept(prices)
    <2>6. AboveCutoff(k) = k
      <3>1. Count(k) \in Nat /\ Count(k) > 0
        BY <1>1, <1>3, <2>5, Counts DEF Stage
      <3>2. ~(Count(k) + Count(prices) <= Count(prices))
        BY <1>1, <3>1
      <3> QED  BY <2>5, <3>2 DEF Stage
    <2>7. DOMAIN k = {i \in DOMAIN prices : 16 * prices[i] >= Median(k)}
      <3>1. PriceList(k) /\ Median(k) \in Nat
        BY <2>5, MedianBounds DEF Stage
      <3>2. \A i \in DOMAIN k : 16 * k[i] >= Median(k)
        BY <2>6, <3>1, CutoffIs
      <3>3. \A i \in DOMAIN prices : prices[i] \in 1 .. MaxPrice
        BY DEF PriceList
      <3> HIDE DEF k
      <3>4. Stage(k, prices, Count(prices))
        BY <2>5 DEF k
      <3>5. /\ \A i \in DOMAIN prices \ DOMAIN k : 16 * prices[i] < Median(k)
            /\ DOMAIN k \subseteq DOMAIN prices /\ \A i \in DOMAIN k : k[i] = prices[i]
        BY <3>4 DEF Stage
      <3>6. ASSUME NEW i \in DOMAIN prices
            PROVE  i \in DOMAIN k <=> 16 * prices[i] >= Median(k)
        <4>1. CASE i \in DOMAIN k
          BY <3>2, <3>5, <4>1
        <4>2. CASE i \notin DOMAIN k
          BY <3>1, <3>3, <3>5, <4>2
        <4> QED  BY <4>1, <4>2
      <3> QED  BY <3>5, <3>6
    <2> QED  BY <1>1, <1>3, <2>5, <2>7 DEF Stage
  <1> QED  BY <1>1, <1>2, <1>3

-----------------------------------------------------------------------------
(* Parts of a sequence. *)

\* A set of places of a sequence has a last one.
LEMMA LastOf ==
    ASSUME NEW m \in Nat, NEW P \in SUBSET (1 .. m), P # {}
    PROVE  \E x \in P : \A y \in P : y <= x
  <1> DEFINE T == {d \in 0 .. m : m - d \in P}
  <1>1. PICK y \in P : TRUE
    OBVIOUS
  <1>2. m - y \in 0 .. m /\ m - (m - y) = y
    OBVIOUS
  <1>3. m - y \in T
    BY <1>1, <1>2
  <1>4. T \subseteq 0 .. m /\ \A d \in 0 .. m : d \in Nat
    OBVIOUS
  <1>5. PICK x \in T : \A d \in T : x <= d
    <2> HIDE DEF T
    <2> QED  BY <1>3, <1>4, Least
  <1>6. ASSUME NEW z \in P PROVE z <= m - x
    <2>1. m - z \in 0 .. m /\ m - (m - z) = z
      OBVIOUS
    <2>2. m - z \in T
      BY <2>1
    <2>3. x <= m - z
      BY <1>5, <2>2
    <2> QED  BY <2>3
  <1>7. m - x \in P
    OBVIOUS
  <1> QED  BY <1>6, <1>7

\* Places are counted without a gap.
LEMMA Places ==
    ASSUME NEW m \in Nat, NEW P \in SUBSET (1 .. m)
    PROVE  /\ IsFiniteSet(P) /\ Cardinality(P) \in Nat /\ Cardinality(P) <= m
           /\ \A n \in 1 .. Cardinality(P) : \E i \in P : Cardinality({j \in P : j <= i}) = n
  <1> DEFINE Upto(i) == {j \in P : j <= i}
  <1>1. IsFiniteSet(1 .. m) /\ Cardinality(1 .. m) = m
    BY FS_Interval
  <1>2. IsFiniteSet(P) /\ Cardinality(P) <= m
    BY <1>1, FS_Subset
  <1>3. Cardinality(P) \in Nat
    BY <1>2, FS_CardinalityType
  <1>4. \A i : IsFiniteSet(Upto(i)) /\ Cardinality(Upto(i)) \in Nat
    BY <1>2, FS_Subset, FS_CardinalityType
  <1>5. ASSUME NEW n \in 1 .. Cardinality(P)
        PROVE  \E i \in P : Cardinality(Upto(i)) = n
    <2> DEFINE S == {i \in P : n <= Cardinality(Upto(i))}
    <2>1. P # {}
      BY <1>2, FS_EmptySet
    <2>2. PICK g \in P : \A y \in P : y <= g
      BY <2>1, LastOf
    <2>3. Upto(g) = P
      BY <2>2
    <2>4. n <= Cardinality(Upto(g))
      BY <1>3, <2>3
    <2>5. S \in SUBSET Nat /\ S # {}
      <3>1. g \in S
        BY <2>2, <2>4
      <3>2. \A i \in 1 .. m : i \in Nat
        OBVIOUS
      <3> HIDE DEF Upto
      <3> QED  BY <3>1, <3>2
    <2>6. PICK x \in S : \A y \in S : x <= y
      <3> HIDE DEF S
      <3> QED  BY <2>5, Least
    <2>7. x \in P /\ x \in 1 .. m /\ n <= Cardinality(Upto(x))
      OBVIOUS
    <2>8. PICK c \in Nat : c = Cardinality(Upto(x))
      BY <1>4
    <2>9. x \in Upto(x)
      BY <2>7
    <2> DEFINE Before == Upto(x) \ {x}
    <2>10. Cardinality(Before) = c - 1 /\ IsFiniteSet(Before)
      <3> HIDE DEF Upto
      <3> QED  BY <1>4, <2>8, <2>9, FS_RemoveElement
    <2>11. CASE Before = {}
      <3>1. c - 1 = 0
        BY <2>10, <2>11, FS_EmptySet
      <3>2. c = n
        BY <2>7, <2>8, <3>1
      <3> QED  BY <2>7, <2>8, <3>2
    <2>12. CASE Before # {}
      <3>1. Before \in SUBSET (1 .. m)
        OBVIOUS
      <3>2. PICK b \in Before : \A y \in Before : y <= b
        <4> HIDE DEF Before
        <4> QED  BY <2>12, <3>1, LastOf
      <3>3. b \in P /\ b \in 1 .. m /\ b < x
        BY <2>7
      <3>4. Upto(b) = Before
        <4>1. ASSUME NEW j \in P, j <= b PROVE j \in Before
          BY <2>7, <3>3, <4>1
        <4>2. ASSUME NEW j \in Before PROVE j \in P /\ j <= b
          BY <3>2
        <4> QED  BY <4>1, <4>2
      <3>5. ~(b \in S)
        <4>1. ~(x <= b)
          BY <2>7, <3>3
        <4> HIDE DEF S
        <4> QED  BY <2>6, <4>1
      <3>6. ~(n <= c - 1)
        BY <2>10, <3>3, <3>4, <3>5
      <3>7. c = n
        BY <2>7, <2>8, <3>6
      <3> QED  BY <2>7, <2>8, <3>7
    <2> QED  BY <2>11, <2>12
  <1> QED  BY <1>2, <1>3, <1>5

\* The n-th element at some places is the one at the place p[n].
Placing(p, s, P) ==
    /\ p \in [1 .. Cardinality(P) -> P]
    /\ \A n \in 1 .. Cardinality(P) : At(s, P)[n] = s[p[n]]
    /\ \A m, n \in 1 .. Cardinality(P) : p[m] = p[n] => m = n
    /\ \A i \in P : \E n \in 1 .. Cardinality(P) : p[n] = i

\* The elements at some places are those of the sequence, in the same order.
LEMMA AtPlaces ==
    ASSUME NEW S, NEW s \in Seq(S), NEW P \in SUBSET DOMAIN s
    PROVE  /\ At(s, P) \in Seq(S) /\ Len(At(s, P)) = Cardinality(P)
           /\ DOMAIN At(s, P) = 1 .. Cardinality(P)
           /\ Cardinality(P) \in Nat /\ Cardinality(P) <= Len(s)
           /\ \E p : Placing(p, s, P)
  <1>1. PICK m \in Nat : m = Len(s) /\ DOMAIN s = 1 .. m
    OBVIOUS
  <1>2. P \in SUBSET (1 .. m)
    BY <1>1
  <1>3. /\ Cardinality(P) \in Nat /\ Cardinality(P) <= m /\ IsFiniteSet(P)
        /\ \A n \in 1 .. Cardinality(P) : \E i \in P : Cardinality({j \in P : j <= i}) = n
    BY <1>2, Places
  <1>4. PICK c \in Nat : c = Cardinality(P)
    BY <1>3
  <1> DEFINE Upto(i) == {j \in P : j <= i}
             p == [n \in 1 .. c |-> CHOOSE i \in P : Cardinality(Upto(i)) = n]
  <1>5. \A n \in 1 .. c : p[n] \in P /\ Cardinality(Upto(p[n])) = n
    BY <1>3, <1>4
  <1>6. At(s, P) = [n \in 1 .. c |-> s[p[n]]]
    BY <1>4 DEF At
  <1>7. p \in [1 .. c -> P]
    BY <1>5
  <1>8. \A a, b \in 1 .. c : p[a] = p[b] => a = b
    BY <1>5
  <1>9. \A i : Upto(i) \subseteq P /\ IsFiniteSet(Upto(i)) /\ Cardinality(Upto(i)) \in Nat
             /\ Cardinality(Upto(i)) <= c
    BY <1>3, <1>4, FS_Subset, FS_CardinalityType
  <1>10. ASSUME NEW i \in P, NEW j \in P, Cardinality(Upto(i)) = Cardinality(Upto(j)), i < j
         PROVE  FALSE
    <2>1. i \in 1 .. m /\ j \in 1 .. m
      BY <1>2
    <2>2. j \in Upto(j) /\ j \notin Upto(i)
      BY <1>10, <2>1
    <2>3. Upto(i) \subseteq Upto(j) \ {j}
      <3>1. \A x \in P : x \in 1 .. m
        BY <1>2
      <3>2. \A x \in P : x <= i => x <= j /\ x # j
        BY <1>10, <2>1, <3>1
      <3> QED  BY <3>2
    <2> HIDE DEF Upto
    <2>4. Cardinality(Upto(j) \ {j}) = Cardinality(Upto(j)) - 1 /\ IsFiniteSet(Upto(j) \ {j})
      BY <1>9, <2>2, FS_RemoveElement
    <2>5. Cardinality(Upto(i)) <= Cardinality(Upto(j) \ {j})
      BY <2>3, <2>4, FS_Subset
    <2> QED  BY <1>9, <1>10, <2>4, <2>5
  <1>11. ASSUME NEW i \in P PROVE \E n \in 1 .. c : p[n] = i
    <2>1. PICK n \in Nat : n = Cardinality(Upto(i)) /\ n <= c
      BY <1>9
    <2>2. n # 0
      <3>1. i \in Upto(i)
        BY <1>2
      <3> HIDE DEF Upto
      <3> QED  BY <1>9, <2>1, <3>1, FS_EmptySet
    <2>3. n \in 1 .. c
      BY <2>1, <2>2
    <2>4. p[n] \in P /\ Cardinality(Upto(p[n])) = Cardinality(Upto(i))
      BY <1>5, <2>1, <2>3
    <2>5. p[n] \in 1 .. m /\ i \in 1 .. m
      BY <1>2, <2>4
    <2> HIDE DEF p, Upto
    <2>6. ~(p[n] < i) /\ ~(i < p[n])
      BY <1>10, <2>4
    <2> QED  BY <2>3, <2>5, <2>6
  <1> HIDE DEF p, Upto
  <1>12. \A n \in 1 .. c : s[p[n]] \in S
    <2>1. \A i \in 1 .. m : s[i] \in S
      BY <1>1
    <2>2. \A n \in 1 .. c : p[n] \in 1 .. m
      BY <1>2, <1>5
    <2> QED  BY <2>1, <2>2
  <1>13. At(s, P) \in Seq(S) /\ Len(At(s, P)) = c /\ DOMAIN At(s, P) = 1 .. c
    <2>1. At(s, P) \in [1 .. c -> S]
      BY <1>6, <1>12
    <2> QED  BY <1>6, <2>1, SeqDef, LenProperties
  <1>14. \A n \in 1 .. c : At(s, P)[n] = s[p[n]]
    BY <1>6
  <1>15. Placing(p, s, P)
    BY <1>4, <1>7, <1>8, <1>11, <1>14 DEF Placing
  <1> QED  BY <1>1, <1>3, <1>4, <1>13, <1>15

\* What is kept of a sequence is what was in it.
LEMMA AtElements ==
    ASSUME NEW S, NEW s \in Seq(S), NEW P \in SUBSET DOMAIN s
    PROVE  ToSet(At(s, P)) = {s[i] : i \in P}
  <1>1. DOMAIN At(s, P) = 1 .. Cardinality(P)
    BY AtPlaces
  <1>2. PICK p : Placing(p, s, P)
    BY AtPlaces
  <1>3. ToSet(At(s, P)) = {At(s, P)[n] : n \in 1 .. Cardinality(P)}
    BY <1>1 DEF ToSet
  <1>4. ASSUME NEW n \in 1 .. Cardinality(P) PROVE At(s, P)[n] \in {s[i] : i \in P}
    BY <1>2 DEF Placing
  <1>5. ASSUME NEW i \in P PROVE s[i] \in {At(s, P)[n] : n \in 1 .. Cardinality(P)}
    <2>1. PICK n \in 1 .. Cardinality(P) : p[n] = i
      BY <1>2 DEF Placing
    <2> QED  BY <1>2, <2>1 DEF Placing
  <1> QED  BY <1>3, <1>4, <1>5

-----------------------------------------------------------------------------
(* Statistics. *)

LEMMA PricesAreListed ==
    ASSUME NEW S, NEW ads \in Seq(S)
    PROVE  /\ PriceList(Prices(ads))
           /\ DOMAIN Prices(ads) = {i \in DOMAIN ads : HasPrice(ads[i])}
           /\ \A i \in DOMAIN Prices(ads) : Prices(ads)[i] = ads[i].price
           /\ Count(Prices(ads)) <= Len(ads)
  <1>1. PICK m \in Nat : m = Len(ads) /\ DOMAIN ads = 1 .. m
    OBVIOUS
  <1>2. /\ DOMAIN Prices(ads) = {i \in DOMAIN ads : HasPrice(ads[i])}
        /\ \A i \in DOMAIN Prices(ads) : Prices(ads)[i] = ads[i].price
        /\ Prices(ads) = [i \in DOMAIN Prices(ads) |-> Prices(ads)[i]]
    BY DEF Prices
  <1>3. DOMAIN Prices(ads) \in SUBSET (1 .. m)
    BY <1>1, <1>2
  <1>4. IsFiniteSet(DOMAIN Prices(ads)) /\ Cardinality(DOMAIN Prices(ads)) <= m
    BY <1>3, Places
  <1>5. \A i \in DOMAIN Prices(ads) : Prices(ads)[i] \in 1 .. MaxPrice
    BY <1>2 DEF HasPrice
  <1>6. Prices(ads) \in [DOMAIN Prices(ads) -> 1 .. MaxPrice]
    BY <1>2, <1>5
  <1> QED  BY <1>1, <1>2, <1>4, <1>6 DEF PriceList, Count

\* What statistics can be.
Sound(st) ==
    /\ st.count \in Nat /\ st.median \in 0 .. 4 * MaxPrice
    /\ st.count > 0 <=> st.median > 0
    /\ st.q1 \in Nat /\ st.q3 \in Nat
    /\ st.q1 <= st.median /\ st.median <= st.q3
    /\ st.cutoff = 0 \/ st.cutoff = st.median

\* What the statistics say of the prices they were taken of.
LEMMA StatsFacts ==
    ASSUME NEW prices, PriceList(prices), NEW st, st = Stats(prices)
    PROVE  /\ Sound(st)
           /\ st.count <= Count(prices) /\ (Count(prices) > 0 => st.count > 0)
           /\ st.count > 0 => 4 * st.min <= st.q1 /\ st.q3 <= 4 * st.max
           /\ Kept(prices) = [i \in {i \in DOMAIN prices : ~(16 * prices[i] < st.cutoff)} |-> prices[i]]
  <1> USE PricingAssumption
  <1> DEFINE k == Kept(prices)
  <1>1. /\ st.count = Count(k) /\ st.median = Median(k)
        /\ st.q1 = Percentile(k, 1) /\ st.q3 = Percentile(k, 3)
        /\ st.min = IF Count(k) = 0 THEN 0 ELSE Sorted(k)[1]
        /\ st.max = IF Count(k) = 0 THEN 0 ELSE Sorted(k)[Count(k)]
        /\ st.cutoff = IF Count(prices) < MinPrices THEN 0 ELSE Median(k)
    BY DEF Stats
  <1>2. /\ PriceList(k) /\ DOMAIN k \subseteq DOMAIN prices
        /\ \A i \in DOMAIN k : k[i] = prices[i]
        /\ Count(prices) > 0 => Count(k) > 0
        /\ Count(prices) >= MinPrices =>
                DOMAIN k = {i \in DOMAIN prices : 16 * prices[i] >= Median(k)}
        /\ Count(prices) < MinPrices => k = prices
    BY KeptFacts
  <1> HIDE DEF k
  <1>3. Count(k) \in Nat /\ Count(prices) \in Nat
    BY <1>2, Counts
  <1>4. Count(k) <= Count(prices)
    BY <1>2, FS_Subset DEF Count, PriceList
  <1>5. Median(k) \in 0 .. 4 * MaxPrice /\ (Count(k) > 0 => Median(k) > 0)
    BY <1>2, MedianBounds
  <1>6. Count(k) = 0 => Median(k) = 0 /\ Percentile(k, 1) = 0 /\ Percentile(k, 3) = 0
    BY DEF Median, Percentile
  <1>7. Percentile(k, 1) \in Nat /\ Percentile(k, 3) \in Nat
    <2>1. CASE Count(k) = 0
      BY <1>6, <2>1
    <2>2. CASE Count(k) > 0
      BY <1>2, <2>2, QuartilesInOrder
    <2> QED  BY <1>3, <2>1, <2>2
  <1>8. /\ st.count > 0 => 4 * st.min <= st.q1 /\ st.q3 <= 4 * st.max
        /\ st.q1 <= st.median /\ st.median <= st.q3
    <2>1. CASE Count(k) = 0
      BY <1>1, <1>6, <2>1
    <2>2. CASE Count(k) > 0
      <3>1. st.min = Sorted(k)[1] /\ st.max = Sorted(k)[Count(k)]
        BY <1>1, <1>3, <2>2
      <3> QED  BY <1>1, <1>2, <2>2, <3>1, QuartilesInOrder
    <2> QED  BY <1>3, <2>1, <2>2
  <1>9. \A i \in DOMAIN prices : prices[i] \in 1 .. MaxPrice
    BY DEF PriceList
  <1>10. DOMAIN k = {i \in DOMAIN prices : ~(16 * prices[i] < st.cutoff)}
    <2>1. CASE Count(prices) < MinPrices
      <3>1. st.cutoff = 0 /\ k = prices
        BY <1>1, <1>2, <2>1
      <3>2. \A i \in DOMAIN prices : ~(16 * prices[i] < 0)
        BY <1>9
      <3> QED  BY <3>1, <3>2
    <2>2. CASE Count(prices) >= MinPrices
      <3>1. st.cutoff = Median(k)
        BY <1>1, <1>3, <2>2
      <3>2. \A i \in DOMAIN prices : 16 * prices[i] >= Median(k) <=> ~(16 * prices[i] < Median(k))
        BY <1>5, <1>9
      <3> QED  BY <1>2, <2>2, <3>1, <3>2
    <2> QED  BY <1>3, <2>1, <2>2
  <1>11. k = [i \in {i \in DOMAIN prices : ~(16 * prices[i] < st.cutoff)} |-> prices[i]]
    <2> DEFINE D == {i \in DOMAIN prices : ~(16 * prices[i] < st.cutoff)}
    <2>1. k = [i \in DOMAIN k |-> k[i]]
      BY <1>2 DEF PriceList
    <2>2. DOMAIN k = D
      BY <1>10
    <2> HIDE DEF D
    <2>3. k = [i \in D |-> prices[i]]
      BY <1>2, <2>1, <2>2
    <2> QED  BY <2>3 DEF D
  <1> QED  BY <1>1, <1>2, <1>3, <1>4, <1>5, <1>6, <1>7, <1>8, <1>11 DEF k, Sound

-----------------------------------------------------------------------------
(* Numbers. *)

LEMMA OfTwo ==
    ASSUME NEW a \in Int, NEW b \in Int
    PROVE  /\ Max({a, b}) = (IF a >= b THEN a ELSE b)
           /\ Min({a, b}) = (IF a <= b THEN a ELSE b)
  <1>1. \E x \in {a, b} : \A y \in {a, b} : x >= y
    OBVIOUS
  <1>2. \E x \in {a, b} : \A y \in {a, b} : x <= y
    OBVIOUS
  <1>3. Max({a, b}) \in {a, b} /\ \A y \in {a, b} : Max({a, b}) >= y
    BY <1>1 DEF Max
  <1>4. Min({a, b}) \in {a, b} /\ \A y \in {a, b} : Min({a, b}) <= y
    BY <1>2 DEF Min
  <1> QED  BY <1>3, <1>4

\* Division rounds down.
LEMMA DivAtMost ==
    ASSUME NEW a \in Int, NEW b \in Nat \ {0}, NEW k \in Int
    PROVE  /\ a \div b \in Int
           /\ a \div b <= k <=> a < b * (k + 1)
  <1>1. PICK q \in Int, r \in 0 .. b - 1 : q = a \div b /\ a = b * q + r
    OBVIOUS
  <1>2. q <= k => b * q <= b * k
    OBVIOUS
  <1>3. q >= k + 1 => b * q >= b * (k + 1)
    OBVIOUS
  <1>4. b * (k + 1) = b * k + b
    OBVIOUS
  <1> QED  BY <1>1, <1>2, <1>3, <1>4

LEMMA RoundAtMost ==
    ASSUME NEW a \in Int, NEW b \in Nat \ {0}, NEW k \in Int
    PROVE  /\ RoundDiv(a, b) \in Int
           /\ RoundDiv(a, b) <= k <=> 2 * a + b < 2 * b * (k + 1)
  <1>1. PICK x \in Int, y \in Nat \ {0} : x = 2 * a + b /\ y = 2 * b
    OBVIOUS
  <1>2. RoundDiv(a, b) = x \div y
    BY <1>1 DEF RoundDiv
  <1>3. x \div y \in Int /\ (x \div y <= k <=> x < y * (k + 1))
    BY DivAtMost
  <1> QED  BY <1>1, <1>2, <1>3

-----------------------------------------------------------------------------
(* Discounts. *)

LEMMA VsMedianIs ==
    ASSUME NEW ad, NEW median \in Nat
    PROVE  /\ VsMedian(ad, median) \in Int /\ Discount(ad, median) \in Int
           /\ Discount(ad, median) = -VsMedian(ad, median)
           /\ median = 0 \/ ~HasPrice(ad) => VsMedian(ad, median) = 0
           /\ median # 0 /\ HasPrice(ad) =>
                /\ ad.price \in 1 .. MaxPrice
                /\ \A k \in Int : VsMedian(ad, median) <= k <=>
                        2 * (10000 * (4 * ad.price - median)) + median < 2 * median * (k + 1)
  <1>1. CASE median = 0 \/ ~HasPrice(ad)
    <2>1. VsMedian(ad, median) = 0
      BY <1>1 DEF VsMedian
    <2> QED  BY <1>1, <2>1 DEF Discount
  <1>2. CASE median # 0 /\ HasPrice(ad)
    <2>1. ad.price \in 1 .. MaxPrice
      BY <1>2 DEF HasPrice
    <2>2. PICK a \in Int : a = 10000 * (4 * ad.price - median)
      BY <2>1, PricingAssumption
    <2>3. VsMedian(ad, median) = RoundDiv(a, median)
      BY <1>2, <2>2 DEF VsMedian
    <2>4. /\ VsMedian(ad, median) \in Int
          /\ \A k \in Int : VsMedian(ad, median) <= k <=> 2 * a + median < 2 * median * (k + 1)
      BY <1>2, <2>3, RoundAtMost
    <2> QED  BY <1>2, <2>1, <2>2, <2>4 DEF Discount
  <1> QED  BY <1>1, <1>2

\* A placeholder is far below the median.
LEMMA PlaceholderIsCheap ==
    ASSUME NEW st, Sound(st), NEW ad, Placeholder(ad, st)
    PROVE  HasPrice(ad) /\ st.median \in Nat /\ st.median # 0 /\ VsMedian(ad, st.median) <= -1500
  <1> USE PricingAssumption
  <1>1. PICK m \in Nat : m = st.median
    BY DEF Sound
  <1>2. HasPrice(ad) /\ 16 * ad.price < st.cutoff
    BY DEF Placeholder
  <1>3. ad.price \in 1 .. MaxPrice
    BY <1>2 DEF HasPrice
  <1>4. st.cutoff = 0 \/ st.cutoff = m
    BY <1>1 DEF Sound
  <1>5. m # 0 /\ 16 * ad.price < m
    BY <1>2, <1>3, <1>4
  <1>6. 2 * (10000 * (4 * ad.price - m)) + m < 2 * m * (-1500 + 1)
    BY <1>3, <1>5
  <1>7. -1500 \in Int
    OBVIOUS
  <1>8. VsMedian(ad, m) <= -1500
    BY <1>2, <1>5, <1>6, <1>7, VsMedianIs
  <1> QED  BY <1>1, <1>2, <1>5, <1>8

\* The band of a listing says whether it is 15% cheaper than the median.
LEMMA BandIs ==
    ASSUME NEW ad, NEW median \in Nat
    PROVE  Band(ad, median) = "below_market" <=> HasPrice(ad) /\ VsMedian(ad, median) <= -1500
  <1>1. PICK delta \in Int : delta = VsMedian(ad, median)
    BY VsMedianIs
  <1>2. CASE ~HasPrice(ad)
    <2>1. Band(ad, median) = "none"
      BY <1>2 DEF Band, None
    <2> QED  BY <1>2, <2>1
  <1>3. CASE HasPrice(ad) /\ delta <= -1500
    <2>1. Band(ad, median) = "below_market"
      BY <1>1, <1>3 DEF Band
    <2> QED  BY <1>1, <1>3, <2>1
  <1>4. CASE HasPrice(ad) /\ ~(delta <= -1500)
    <2>1. Band(ad, median) # "below_market"
      BY <1>1, <1>4 DEF Band, None
    <2> QED  BY <1>1, <1>4, <2>1
  <1> QED  BY <1>2, <1>3, <1>4

\* What filter_deal_ads keeps.
LEMMA FilterDealsAre ==
    ASSUME NEW S, NEW ads \in Seq(S), NEW st, NEW d
    PROVE  /\ FilterDeals(ads, st, d) \in Seq(S)
           /\ ToSet(FilterDeals(ads, st, d)) =
                {ad \in ToSet(ads) :
                    /\ st.median # 0 /\ HasPrice(ad) /\ ~Placeholder(ad, st)
                    /\ Discount(ad, st.median) > 0 /\ Discount(ad, st.median) >= d}
  <1> DEFINE Deal(ad) == /\ st.median # 0 /\ HasPrice(ad) /\ ~Placeholder(ad, st)
                         /\ Discount(ad, st.median) > 0 /\ Discount(ad, st.median) >= d
             P == {i \in DOMAIN ads : Deal(ads[i])}
  <1>1. FilterDeals(ads, st, d) = At(ads, P)
    BY DEF FilterDeals, Keep
  <1>2. P \in SUBSET DOMAIN ads
    OBVIOUS
  <1>3. At(ads, P) \in Seq(S)
    <2> HIDE DEF P
    <2> QED  BY <1>2, AtPlaces
  <1>4. ToSet(At(ads, P)) = {ads[i] : i \in P}
    <2> HIDE DEF P
    <2> QED  BY <1>2, AtElements
  <1>5. {ads[i] : i \in P} = {ad \in ToSet(ads) : Deal(ad)}
    <2> HIDE DEF Deal
    <2> QED  BY DEF ToSet
  <1> QED  BY <1>1, <1>3, <1>4, <1>5

-----------------------------------------------------------------------------
(* Scores and items. *)

LEMMA ElementsFinite ==
    ASSUME NEW S, NEW ads \in Seq(S)
    PROVE  IsFiniteSet(ToSet(ads)) /\ \A ad \in ToSet(ads) : ad \in S
  <1>1. PICK m \in Nat : DOMAIN ads = 1 .. m
    OBVIOUS
  <1> DEFINE at == [i \in 1 .. m |-> ads[i]]
  <1>2. at \in Surjection(1 .. m, ToSet(ads))
    BY <1>1 DEF Surjection, ToSet
  <1>3. IsFiniteSet(1 .. m)
    BY FS_Interval
  <1>4. \A ad \in ToSet(ads) : ad \in S
    BY DEF ToSet
  <1> HIDE DEF at
  <1> QED  BY <1>2, <1>3, <1>4, FS_Surjection

LEMMA DuplicatesCounted ==
    ASSUME NEW S, NEW ads \in Seq(S), NEW ad
    PROVE  DuplicateCount(ads, ad) \in Nat
  <1> DEFINE like == {other \in ToSet(ads) :
                 /\ HasId(other) /\ other.id # ad.id /\ SameLot(other, ad)
                 /\ HasPrice(ad) /\ HasPrice(other) =>
                        100 * other.price \in 92 * ad.price .. 108 * ad.price}
  <1>1. IsFiniteSet(ToSet(ads))
    BY ElementsFinite
  <1>2. like \subseteq ToSet(ads)
    OBVIOUS
  <1> HIDE DEF like
  <1>3. Cardinality(like) \in Nat
    BY <1>1, <1>2, FS_Subset, FS_CardinalityType
  <1> QED  BY <1>3 DEF DuplicateCount, like

LEMMA AnomaliesCounted ==
    ASSUME NEW ad, NEW st
    PROVE  Cardinality(Anomalies(ad, st)) \in Nat
  <1> DEFINE two == {"too_cheap", "too_expensive"}
  <1>1. IsFiniteSet(two)
    <2>1. IsFiniteSet({"too_cheap"})
      BY FS_Singleton
    <2>2. two = {"too_cheap"} \cup {"too_expensive"}
      OBVIOUS
    <2> HIDE DEF two
    <2> QED  BY <2>1, <2>2, FS_AddElement
  <1>2. Anomalies(ad, st) \subseteq two
    BY DEF Anomalies
  <1> HIDE DEF two
  <1> QED  BY <1>1, <1>2, FS_Subset, FS_CardinalityType

LEMMA BonusTypes ==
    ASSUME NEW ad, NEW query
    PROVE  /\ FreshnessBonus(ad) \in Int
           /\ ProfileBonus(query, ad) \in Int
           /\ SellerScore(ad) \in Int
  <1>1. FreshnessBonus(ad) \in Int
    <2>1. Age(ad) \in 0 .. UnknownAge
      BY DEF Age, UnknownAge
    <2>2. PICK age \in Nat : age = Age(ad)
      BY <2>1 DEF UnknownAge
    <2>3. age <= 6 \/ age \in 7 .. 24 \/ age \in 25 .. 72 \/ age > 72
      OBVIOUS
    <2> QED  BY <2>2, <2>3 DEF FreshnessBonus
  <1>2. ProfileBonus(query, ad) \in Int
    BY DEF ProfileBonus
  <1>3. SellerScore(ad) \in Int
    BY DEF SellerScore
  <1> QED  BY <1>1, <1>2, <1>3

\* Every listing has a score, and a placeholder one that says to pass.
LEMMA ScoreFacts ==
    ASSUME NEW S, NEW ads \in Seq(S), NEW st, Sound(st), NEW query, NEW ad
    PROVE  /\ Score(ad, ads, st, query) \in Int
           /\ Placeholder(ad, st) => Score(ad, ads, st, query) <= 400
  <1>1. PICK d \in Nat : d = DuplicateCount(ads, ad)
    BY DuplicatesCounted
  <1>2. PICK a \in Nat : a = Cardinality(Anomalies(ad, st))
    BY AnomaliesCounted
  <1>3. PICK f \in Int, b \in Int, s \in Int :
            f = FreshnessBonus(ad) /\ b = ProfileBonus(query, ad) /\ s = SellerScore(ad)
    BY BonusTypes
  <1>4. PICK m \in Nat : m = st.median
    BY PricingAssumption DEF Sound
  <1>5. PICK delta \in Int : delta = VsMedian(ad, m)
    BY VsMedianIs
  <1>6. PriceScore(ad, st) \in Int
    BY <1>4, <1>5 DEF PriceScore, AtMost
  <1>7. PICK p \in Int : p = PriceScore(ad, st)
    BY <1>6
  <1>8. PICK sum \in Int : sum = 55000 + p + s + 1000 * (f + b - AtMost(10 * d, 20) - 12 * a)
    BY DEF AtMost
  <1>9. PICK c \in Int : /\ c = (IF Placeholder(ad, st) THEN AtMost(sum, 40000) ELSE sum)
                         /\ Placeholder(ad, st) => c <= 40000
    BY DEF AtMost
  <1>10. PICK x \in Int : /\ x = Clamp(c, 0, 100000)
                          /\ Placeholder(ad, st) => x <= 40000
    BY <1>9 DEF Clamp, AtMost
  <1>11. Score(ad, ads, st, query) = IF HasPrice(ad) THEN RoundDiv(x, 100) ELSE 0
    BY <1>1, <1>2, <1>3, <1>7, <1>8, <1>9, <1>10 DEF Score
  <1>12. 100 \in Nat \ {0} /\ 400 \in Int
    OBVIOUS
  <1>13. RoundDiv(x, 100) \in Int /\ (RoundDiv(x, 100) <= 400 <=> 2 * x + 100 < 2 * 100 * (400 + 1))
    BY <1>12, RoundAtMost
  <1>14. x <= 40000 => RoundDiv(x, 100) <= 400
    BY <1>13
  <1> QED  BY <1>10, <1>11, <1>13, <1>14

\* A verdict follows the score.
LEMMA VerdictIs ==
    ASSUME NEW S, NEW ads \in Seq(S), NEW st, Sound(st), NEW query, NEW ad, HasPrice(ad)
    PROVE  /\ Score(ad, ads, st, query) >= 780 => Verdict(ad, ads, st, query) = "take"
           /\ Score(ad, ads, st, query) < 450 => Verdict(ad, ads, st, query) = "pass"
  <1>1. PICK score \in Int : score = Score(ad, ads, st, query)
    BY ScoreFacts
  <1>2. ASSUME score >= 780 PROVE Verdict(ad, ads, st, query) = "take"
    BY <1>1, <1>2 DEF Verdict
  <1>3. ASSUME score < 450 PROVE Verdict(ad, ads, st, query) = "pass"
    BY <1>1, <1>3 DEF Verdict
  <1> QED  BY <1>1, <1>2, <1>3

\* The targets of a listing at least 8% below the median: a profit that grows.
LEMMA FlipsGrow ==
    ASSUME NEW st, Sound(st), NEW ad, HasPrice(ad), ~Placeholder(ad, st), st.median # 0,
           Discount(ad, st.median) >= 800
    PROVE  LET target == Flips(ad, st) IN
           /\ Len(target) = 3
           /\ 400 * ad.price < target[1]
           /\ target[1] <= target[2] /\ target[2] <= target[3]
  <1>1. PICK m \in Nat : m = st.median
    BY PricingAssumption DEF Sound
  <1>2. PICK q1 \in Nat, q3 \in Nat : q1 = st.q1 /\ q3 = st.q3
    BY DEF Sound
  <1>3. q1 <= m /\ m <= q3 /\ m > 0 /\ st.count # 0
    BY <1>1, <1>2 DEF Sound
  <1>4. PICK p \in 1 .. MaxPrice : p = ad.price
    BY DEF HasPrice
  <1>5. -800 \in Int
    OBVIOUS
  <1>6. VsMedian(ad, m) <= -800
    BY <1>1, VsMedianIs
  <1>7. 2 * (10000 * (4 * p - m)) + m < 2 * m * (-800 + 1)
    BY <1>1, <1>3, <1>4, <1>5, <1>6, VsMedianIs
  <1>8. 400 * p < 94 * m
    BY <1>3, <1>4, <1>7, PricingAssumption
  <1>9. Flips(ad, st) = <<Max({100 * q1, 94 * m}), 100 * m, Max({100 * q3, 106 * m})>>
    BY <1>1, <1>2, <1>3 DEF Flips
  <1>10. PICK low \in Nat : low = Max({100 * q1, 94 * m}) /\ low >= 94 * m /\ low <= 100 * m
    <2>1. 100 * q1 \in Int /\ 94 * m \in Int
      OBVIOUS
    <2>2. Max({100 * q1, 94 * m}) = IF 100 * q1 >= 94 * m THEN 100 * q1 ELSE 94 * m
      BY <2>1, OfTwo
    <2> QED  BY <1>3, <2>2
  <1>11. PICK high \in Nat : high = Max({100 * q3, 106 * m}) /\ high >= 100 * m
    <2>1. 100 * q3 \in Int /\ 106 * m \in Int
      OBVIOUS
    <2>2. Max({100 * q3, 106 * m}) = IF 100 * q3 >= 106 * m THEN 100 * q3 ELSE 106 * m
      BY <2>1, OfTwo
    <2> QED  BY <1>3, <2>2
  <1>12. Flips(ad, st) = <<low, 100 * m, high>>
    BY <1>9, <1>10, <1>11
  <1>13. 400 * p < low
    BY <1>4, <1>8, <1>10, PricingAssumption
  <1> QED  BY <1>4, <1>10, <1>11, <1>12, <1>13

-----------------------------------------------------------------------------
(* Pages. *)

\* A strict order of m places, and those that less than n others come before.
StrictOrder(R, m) ==
    /\ \A i \in 1 .. m : <<i, i>> \notin R
    /\ \A i, j, k \in 1 .. m : <<i, j>> \in R /\ <<j, k>> \in R => <<i, k>> \in R
    /\ \A i, j \in 1 .. m : i # j => <<i, j>> \in R \/ <<j, i>> \in R
Lowest(R, m, n) == {i \in 1 .. m : Cardinality({j \in 1 .. m : <<j, i>> \in R}) < n}

\* They are n, or all the places.
LEMMA FirstInOrder ==
    ASSUME NEW m \in Nat, NEW n \in Nat, NEW R, StrictOrder(R, m)
    PROVE  IsFiniteSet(Lowest(R, m, n)) /\ Cardinality(Lowest(R, m, n)) = AtMost(m, n)
  <1> DEFINE P == 1 .. m
             Below(i) == {j \in P : <<j, i>> \in R}
             r == [i \in P |-> Cardinality(Below(i))]
             B == {i \in P : r[i] < n}
  <1>0. /\ \A i \in P : <<i, i>> \notin R
        /\ \A i, j, k \in P : <<i, j>> \in R /\ <<j, k>> \in R => <<i, k>> \in R
        /\ \A i, j \in P : i # j => <<i, j>> \in R \/ <<j, i>> \in R
    BY DEF StrictOrder
  <1>1. IsFiniteSet(P) /\ Cardinality(P) = m
    BY FS_Interval
  <1>2. \A i : Below(i) \subseteq P /\ IsFiniteSet(Below(i)) /\ Cardinality(Below(i)) \in Nat
    BY <1>1, FS_Subset, FS_CardinalityType
  <1>3. ASSUME NEW i \in P, NEW j \in P, <<i, j>> \in R
        PROVE  Cardinality(Below(i)) < Cardinality(Below(j))
    <2>1. i \in Below(j) /\ i \notin Below(i)
      BY <1>0, <1>3
    <2>2. Below(i) \subseteq Below(j) \ {i}
      BY <1>0, <1>3, <2>1
    <2> HIDE DEF Below
    <2>3. Cardinality(Below(j) \ {i}) = Cardinality(Below(j)) - 1 /\ IsFiniteSet(Below(j) \ {i})
      BY <1>2, <2>1, FS_RemoveElement
    <2>4. Cardinality(Below(i)) <= Cardinality(Below(j) \ {i})
      BY <2>2, <2>3, FS_Subset
    <2> QED  BY <1>2, <2>3, <2>4
  <1>4. ASSUME NEW i \in P PROVE r[i] \in 0 .. m - 1
    <2>1. Below(i) \subseteq P \ {i}
      BY <1>0
    <2> HIDE DEF Below
    <2>2. Cardinality(P \ {i}) = m - 1 /\ IsFiniteSet(P \ {i})
      <3> HIDE DEF P
      <3> QED  BY <1>1, FS_RemoveElement
    <2>3. Cardinality(Below(i)) <= m - 1
      BY <2>1, <2>2, FS_Subset
    <2> QED  BY <1>2, <2>3
  <1>5. ASSUME NEW i \in P, NEW j \in P, r[i] = r[j] PROVE i = j
    <2>1. ~(<<i, j>> \in R) /\ ~(<<j, i>> \in R)
      <3> HIDE DEF Below, P
      <3> QED  BY <1>2, <1>3, <1>5
    <2> QED  BY <1>0, <2>1
  <1> DEFINE Q == 0 .. m - 1
  <1>6. r \in Injection(P, Q)
    <2>1. r \in [P -> Q]
      <3> HIDE DEF P, Q, Below
      <3> QED  BY <1>4 DEF Q
    <2> HIDE DEF P, Q, r
    <2> QED  BY <1>5, <2>1 DEF Injection, IsInjective
  <1>7. IsFiniteSet(Q) /\ Cardinality(Q) = m
    <2>1. IsFiniteSet(0 .. m - 1) /\ Cardinality(0 .. m - 1) = IF 0 > m - 1 THEN 0 ELSE m - 1 - 0 + 1
      BY FS_Interval
    <2> QED  BY <2>1
  <1>8. \A x \in Q : \E i \in P : r[i] = x
    <2> HIDE DEF P, Q, r
    <2>1. r \in Surjection(P, Q)
      BY <1>1, <1>6, <1>7, FS_Injection
    <2> QED  BY <2>1 DEF Surjection
  <1> DEFINE k == AtMost(m, n)
             K == 0 .. k - 1
             b == [i \in B |-> r[i]]
  <1>9. k \in Nat /\ k <= m /\ k <= n /\ (k = m \/ k = n)
    BY DEF AtMost
  <1>10. IsFiniteSet(K) /\ Cardinality(K) = k
    <2> HIDE DEF k
    <2>1. IsFiniteSet(0 .. k - 1) /\ Cardinality(0 .. k - 1) = IF 0 > k - 1 THEN 0 ELSE k - 1 - 0 + 1
      BY <1>9, FS_Interval
    <2> QED  BY <1>9, <2>1
  <1> HIDE DEF k
  <1>11. \A i \in B : i \in P /\ r[i] \in K
    <2> SUFFICES ASSUME NEW i \in B PROVE i \in P /\ r[i] \in K
      OBVIOUS
    <2>1. i \in P /\ r[i] < n
      OBVIOUS
    <2>2. r[i] \in 0 .. m - 1
      BY <1>4, <2>1
    <2> HIDE DEF r, P, B
    <2> QED  BY <1>9, <2>1, <2>2
  <1>12. \A x \in K : \E i \in B : r[i] = x
    <2> SUFFICES ASSUME NEW x \in K PROVE \E i \in B : r[i] = x
      OBVIOUS
    <2>1. x \in Q /\ x < n
      BY <1>9
    <2>2. PICK i \in P : r[i] = x
      BY <1>8, <2>1
    <2> HIDE DEF r, P, Q
    <2> QED  BY <2>1, <2>2
  <1> HIDE DEF r, P, K, Q, B
  <1>13. b \in Injection(B, K)
    <2>1. b \in [B -> K]
      BY <1>11
    <2>2. \A i, j \in B : b[i] = b[j] => i = j
      BY <1>5, <1>11
    <2> HIDE DEF b
    <2> QED  BY <2>1, <2>2 DEF Injection, IsInjective
  <1>14. b \in Surjection(B, K)
    <2>1. b \in [B -> K]
      BY <1>11
    <2> QED  BY <1>12, <2>1 DEF Surjection
  <1>15. IsFiniteSet(B) /\ Cardinality(B) = k
    <2> HIDE DEF b
    <2> QED  BY <1>10, <1>13, <1>14, FS_Injection
  <1>16. B = Lowest(R, m, n)
    BY DEF B, r, P, Lowest
  <1> QED  BY <1>15, <1>16 DEF k

\* The places of a sequence that come first in its order.
Firsts(ads, dataset, query, n) ==
    {i \in DOMAIN ads : Cardinality({j \in DOMAIN ads : Precedes(ads, dataset, query, j, i)}) < n}

LEMMA PrecedesIsOrder ==
    ASSUME NEW S, NEW ads \in Seq(S), NEW T, NEW dataset, dataset.ads \in Seq(T),
           Sound(dataset.stats), NEW query
    PROVE  /\ \A i \in DOMAIN ads : ~Precedes(ads, dataset, query, i, i)
           /\ \A i, j, k \in DOMAIN ads :
                Precedes(ads, dataset, query, i, j) /\ Precedes(ads, dataset, query, j, k)
                => Precedes(ads, dataset, query, i, k)
           /\ \A i, j \in DOMAIN ads :
                i # j => Precedes(ads, dataset, query, i, j) \/ Precedes(ads, dataset, query, j, i)
  <1> DEFINE score == [i \in DOMAIN ads |-> Score(ads[i], dataset.ads, dataset.stats, query)]
             delta == [i \in DOMAIN ads |-> VsMedian(ads[i], dataset.stats.median)]
  <1>1. \A i \in DOMAIN ads : score[i] \in Int
    BY ScoreFacts
  <1>2. \A i \in DOMAIN ads : delta[i] \in Int
    <2>1. dataset.stats.median \in Nat
      BY PricingAssumption DEF Sound
    <2> QED  BY <2>1, VsMedianIs
  <1>3. \A i \in DOMAIN ads : i \in Int
    <2>1. DOMAIN ads = 1 .. Len(ads)
      OBVIOUS
    <2> QED  BY <2>1
  <1>4. \A i, j \in DOMAIN ads : Precedes(ads, dataset, query, i, j) <=>
            \/ score[i] > score[j]
            \/ score[i] = score[j] /\ delta[i] < delta[j]
            \/ score[i] = score[j] /\ delta[i] = delta[j] /\ i < j
    BY DEF Precedes
  <1> HIDE DEF score, delta
  <1>5. \A i \in DOMAIN ads : ~Precedes(ads, dataset, query, i, i)
    BY <1>1, <1>2, <1>3, <1>4
  <1>6. \A i, j \in DOMAIN ads :
                i # j => Precedes(ads, dataset, query, i, j) \/ Precedes(ads, dataset, query, j, i)
    BY <1>1, <1>2, <1>3, <1>4
  <1>7. \A i, j, k \in DOMAIN ads :
                Precedes(ads, dataset, query, i, j) /\ Precedes(ads, dataset, query, j, k)
                => Precedes(ads, dataset, query, i, k)
    BY <1>1, <1>2, <1>3, <1>4
  <1> QED  BY <1>5, <1>6, <1>7

\* Nothing that is left out has a higher score than what is shown.
LEMMA TopIsBest ==
    ASSUME NEW S, NEW ads \in Seq(S), NEW T, NEW dataset, dataset.ads \in Seq(T),
           Sound(dataset.stats), NEW query, NEW n \in Nat
    PROVE  /\ Top(ads, dataset, query, n) = {ads[i] : i \in Firsts(ads, dataset, query, n)}
           /\ Top(ads, dataset, query, n) \subseteq ToSet(ads)
           /\ \A ad \in Top(ads, dataset, query, n), other \in ToSet(ads) \ Top(ads, dataset, query, n) :
                Score(ad, dataset.ads, dataset.stats, query)
                    >= Score(other, dataset.ads, dataset.stats, query)
  <1> DEFINE F == Firsts(ads, dataset, query, n)
             Below(i) == {j \in DOMAIN ads : Precedes(ads, dataset, query, j, i)}
             score(ad) == Score(ad, dataset.ads, dataset.stats, query)
  <1>1. Top(ads, dataset, query, n) = {ads[i] : i \in F}
    BY DEF Top, Firsts
  <1>2. F = {i \in DOMAIN ads : Cardinality(Below(i)) < n}
    BY DEF Firsts
  <1>3. Top(ads, dataset, query, n) \subseteq ToSet(ads)
    BY <1>1, <1>2 DEF ToSet
  <1>4. IsFiniteSet(DOMAIN ads)
    <2>1. DOMAIN ads = 1 .. Len(ads) /\ Len(ads) \in Nat
      OBVIOUS
    <2> QED  BY <2>1, FS_Interval
  <1>5. ASSUME NEW i \in F, NEW j \in DOMAIN ads, score(ads[j]) > score(ads[i])
        PROVE  j \in F
    <2>1. i \in DOMAIN ads /\ Cardinality(Below(i)) < n
      BY <1>2
    <2>2. Precedes(ads, dataset, query, j, i)
      BY <1>5 DEF Precedes
    <2>3. Below(j) \subseteq Below(i)
      BY <2>1, <2>2, PrecedesIsOrder
    <2>4. Below(i) \subseteq DOMAIN ads
      OBVIOUS
    <2> HIDE DEF F, Below, score
    <2>5. IsFiniteSet(Below(i))
      BY <1>4, <2>4, FS_Subset
    <2>6. IsFiniteSet(Below(j)) /\ Cardinality(Below(j)) <= Cardinality(Below(i))
      BY <2>3, <2>5, FS_Subset
    <2>7. Cardinality(Below(i)) \in Nat /\ Cardinality(Below(j)) \in Nat
      BY <2>5, <2>6, FS_CardinalityType
    <2> QED  BY <1>2, <2>1, <2>6, <2>7
  <1>6. ASSUME NEW ad \in Top(ads, dataset, query, n),
               NEW other \in ToSet(ads) \ Top(ads, dataset, query, n)
        PROVE  score(ad) >= score(other)
    <2>1. PICK i \in F : ad = ads[i]
      BY <1>1
    <2>2. PICK j \in DOMAIN ads : other = ads[j]
      BY DEF ToSet
    <2>3. j \notin F
      BY <1>1, <2>2
    <2>4. ~(score(ads[j]) > score(ads[i]))
      <3> HIDE DEF F, score
      <3> QED  BY <1>5, <2>3
    <2>5. score(ad) \in Int /\ score(other) \in Int
      BY ScoreFacts
    <2> HIDE DEF F, score
    <2> QED  BY <2>1, <2>2, <2>4, <2>5
  <1> QED  BY <1>1, <1>3, <1>6

\* A page is full unless there are fewer listings.
LEMMA TopIsFull ==
    ASSUME NEW S, NEW ads \in Seq(S), NEW T, NEW dataset, dataset.ads \in Seq(T),
           Sound(dataset.stats), NEW query, NEW n \in Nat,
           \A i, j \in DOMAIN ads : ads[i] = ads[j] => i = j
    PROVE  Cardinality(Top(ads, dataset, query, n)) = AtMost(Len(ads), n)
  <1>1. PICK m \in Nat : m = Len(ads) /\ DOMAIN ads = 1 .. m
    OBVIOUS
  <1> DEFINE R == {x \in (1 .. m) \X (1 .. m) : Precedes(ads, dataset, query, x[1], x[2])}
  <1>2. \A i, j \in 1 .. m : <<i, j>> \in R <=> Precedes(ads, dataset, query, i, j)
    OBVIOUS
  <1> HIDE DEF R
  <1>3. StrictOrder(R, m)
    <2>1. /\ \A i \in DOMAIN ads : ~Precedes(ads, dataset, query, i, i)
          /\ \A i, j, k \in DOMAIN ads :
                Precedes(ads, dataset, query, i, j) /\ Precedes(ads, dataset, query, j, k)
                => Precedes(ads, dataset, query, i, k)
          /\ \A i, j \in DOMAIN ads :
                i # j => Precedes(ads, dataset, query, i, j) \/ Precedes(ads, dataset, query, j, i)
      BY PrecedesIsOrder
    <2>2. /\ \A i \in 1 .. m : ~Precedes(ads, dataset, query, i, i)
          /\ \A i, j, k \in 1 .. m :
                Precedes(ads, dataset, query, i, j) /\ Precedes(ads, dataset, query, j, k)
                => Precedes(ads, dataset, query, i, k)
          /\ \A i, j \in 1 .. m :
                i # j => Precedes(ads, dataset, query, i, j) \/ Precedes(ads, dataset, query, j, i)
      BY <1>1, <2>1
    <2> QED  BY <1>2, <2>2 DEF StrictOrder
  <1> DEFINE B == Lowest(R, m, n)
  <1>4. IsFiniteSet(B) /\ Cardinality(B) = AtMost(m, n)
    BY <1>3, FirstInOrder
  <1>5. B = Firsts(ads, dataset, query, n)
    <2>1. \A i \in 1 .. m : {j \in 1 .. m : <<j, i>> \in R}
                = {j \in 1 .. m : Precedes(ads, dataset, query, j, i)}
      BY <1>2
    <2> QED  BY <1>1, <2>1 DEF Firsts, Lowest
  <1> DEFINE page == {ads[i] : i \in B}
             at == [i \in B |-> ads[i]]
  <1>6. Top(ads, dataset, query, n) = page
    <2> HIDE DEF B
    <2> QED  BY <1>5, TopIsBest
  <1>7. B \subseteq DOMAIN ads
    BY <1>1 DEF Lowest
  <1> HIDE DEF B
  <1>8. at \in Surjection(B, page)
    BY DEF Surjection
  <1>9. at \in Injection(B, page)
    <2>1. at \in [B -> page]
      OBVIOUS
    <2>2. \A i, j \in B : at[i] = at[j] => i = j
      BY <1>7
    <2> HIDE DEF at, page
    <2> QED  BY <2>1, <2>2 DEF Injection, IsInjective
  <1>10. Cardinality(page) = Cardinality(B)
    <2> HIDE DEF at, page
    <2> QED  BY <1>4, <1>8, <1>9, FS_Surjection
  <1> QED  BY <1>1, <1>4, <1>6, <1>10

-----------------------------------------------------------------------------
(* Datasets. *)

\* Keeping everything changes nothing.
LEMMA AtAll ==
    ASSUME NEW S, NEW s \in Seq(S)
    PROVE  At(s, DOMAIN s) = s
  <1>1. PICK m \in Nat : m = Len(s) /\ DOMAIN s = 1 .. m
    OBVIOUS
  <1>2. Cardinality(1 .. m) = m
    BY FS_Interval
  <1>3. ASSUME NEW n \in 1 .. m
        PROVE  s[CHOOSE i \in 1 .. m : Cardinality({j \in 1 .. m : j <= i}) = n] = s[n]
    <2>1. \A i \in 1 .. m : Cardinality({j \in 1 .. m : j <= i}) = i
      <3> SUFFICES ASSUME NEW i \in 1 .. m PROVE Cardinality({j \in 1 .. m : j <= i}) = i
        OBVIOUS
      <3>1. {j \in 1 .. m : j <= i} = 1 .. i
        OBVIOUS
      <3>2. Cardinality(1 .. i) = i
        <4>1. i \in Nat
          OBVIOUS
        <4> QED  BY <4>1, FS_Interval
      <3> QED  BY <3>1, <3>2
    <2>2. (CHOOSE i \in 1 .. m : Cardinality({j \in 1 .. m : j <= i}) = n) = n
      BY <2>1
    <2> QED  BY <2>2
  <1> DEFINE at == [n \in 1 .. m |->
                       s[CHOOSE i \in 1 .. m : Cardinality({j \in 1 .. m : j <= i}) = n]]
  <1>4. At(s, DOMAIN s) = at
    BY <1>1, <1>2 DEF At
  <1>5. at = [n \in 1 .. m |-> s[n]]
    BY <1>3
  <1>6. s = [n \in 1 .. m |-> s[n]]
    BY <1>1
  <1> HIDE DEF at
  <1> QED  BY <1>4, <1>5, <1>6

Distinct(s) == \A i, j \in DOMAIN s : s[i] = s[j] => i = j

LEMMA AtDistinct ==
    ASSUME NEW S, NEW s \in Seq(S), NEW P \in SUBSET DOMAIN s
    PROVE  Distinct(s) => Distinct(At(s, P))
  <1> SUFFICES ASSUME Distinct(s), NEW m \in DOMAIN At(s, P), NEW n \in DOMAIN At(s, P),
                      At(s, P)[m] = At(s, P)[n]
               PROVE  m = n
    BY DEF Distinct
  <1>1. DOMAIN At(s, P) = 1 .. Cardinality(P)
    BY AtPlaces
  <1>2. PICK p : Placing(p, s, P)
    BY AtPlaces
  <1>3. /\ p[m] \in P /\ p[n] \in P
        /\ At(s, P)[m] = s[p[m]] /\ At(s, P)[n] = s[p[n]]
        /\ p[m] = p[n] => m = n
    BY <1>1, <1>2 DEF Placing
  <1> QED  BY <1>3 DEF Distinct

\* The listings a search matches are some of those found, each once.
LEMMA MatchingAre ==
    ASSUME NEW S, NEW ads \in Seq(S), NEW query, NEW strict \in BOOLEAN
    PROVE  LET matching == ApplySearchMode(ads, query, strict) IN
           /\ matching \in Seq(S)
           /\ Len(matching) <= Len(ads)
           /\ ToSet(matching) \subseteq ToSet(ads)
           /\ Distinct(ads) => Distinct(matching)
           /\ ~strict => matching = ads
  <1> DEFINE P == {i \in DOMAIN ads : StrictMatch(ads[i].title, query)}
  <1>1. ApplySearchMode(ads, query, strict) = IF strict THEN At(ads, P) ELSE ads
    BY DEF ApplySearchMode, Keep
  <1>2. P \in SUBSET DOMAIN ads
    OBVIOUS
  <1> HIDE DEF P
  <1>3. /\ At(ads, P) \in Seq(S) /\ Len(At(ads, P)) <= Len(ads)
    BY <1>2, AtPlaces
  <1>4. ToSet(At(ads, P)) \subseteq ToSet(ads)
    BY <1>2, AtElements DEF ToSet
  <1>5. Distinct(ads) => Distinct(At(ads, P))
    BY <1>2, AtDistinct
  <1>6. Len(ads) <= Len(ads)
    OBVIOUS
  <1> QED  BY <1>1, <1>3, <1>4, <1>5, <1>6

\* A dataset of listings that all have ids holds what the search matches.
LEMMA DatasetIs ==
    ASSUME NEW S, \A ad \in S : HasId(ad), NEW ads \in Seq(S), NEW query,
           NEW strict \in BOOLEAN, NEW truncated, NEW total,
           NEW matching, matching = ApplySearchMode(ads, query, strict),
           NEW dataset, dataset = Dataset(ads, query, strict, truncated, total)
    PROVE  /\ matching \in Seq(S)
           /\ dataset.ads = matching
           /\ dataset.stats = Stats(Prices(matching))
           /\ dataset.truncated = truncated
           /\ Sound(dataset.stats)
  <1>1. matching \in Seq(S)
    BY MatchingAre
  <1>2. /\ dataset.ads = Keep(matching, HasId)
        /\ dataset.stats = Stats(Prices(matching))
        /\ dataset.truncated = truncated
    BY DEF Dataset
  <1>3. Keep(matching, HasId) = At(matching, {i \in DOMAIN matching : HasId(matching[i])})
    BY DEF Keep
  <1>4. {i \in DOMAIN matching : HasId(matching[i])} = DOMAIN matching
    <2>1. \A i \in DOMAIN matching : matching[i] \in S
      BY <1>1
    <2>2. \A i \in DOMAIN matching : HasId(matching[i])
      BY <2>1
    <2> QED  BY <2>2
  <1>5. Keep(matching, HasId) = matching
    BY <1>1, <1>3, <1>4, AtAll
  <1>6. PriceList(Prices(matching))
    BY <1>1, PricesAreListed
  <1>7. Sound(Stats(Prices(matching)))
    BY <1>6, StatsFacts
  <1> QED  BY <1>1, <1>2, <1>5, <1>7

-----------------------------------------------------------------------------
(* The properties of samples, for any sequence of listings. *)

\* What the statistics leave out, and nothing else, is a placeholder.
OnlyPlaceholdersLeft(ads, st) ==
    LET prices == Prices(ads)
        real == {i \in DOMAIN prices : ~Placeholder(ads[i], st)}
    IN Kept(prices) = [i \in real |-> prices[i]]

QuartilesOrdered(st) ==
    st.count > 0 => /\ 4 * st.min <= st.q1 /\ st.q1 <= st.median
                    /\ st.median <= st.q3 /\ st.q3 <= 4 * st.max

\* A placeholder's item says so.
ShownAsPlaceholder(ad, dataset, query) ==
    LET item == Item(ad, dataset, query) IN
    item.flips = <<>> /\ item.verdict = "pass" /\ item.band = "below_market"

LEMMA LeftOutIsPlaceholder ==
    ASSUME NEW S, NEW ads \in Seq(S), NEW st, st = Stats(Prices(ads))
    PROVE  OnlyPlaceholdersLeft(ads, st) /\ QuartilesOrdered(st)
  <1>1. PICK p : p = Prices(ads)
    OBVIOUS
  <1>2. PriceList(p) /\ \A i \in DOMAIN p : HasPrice(ads[i]) /\ p[i] = ads[i].price
    BY <1>1, PricesAreListed
  <1>3. st = Stats(p)
    BY <1>1
  <1>4. /\ Sound(st)
        /\ st.count > 0 => 4 * st.min <= st.q1 /\ st.q3 <= 4 * st.max
        /\ Kept(p) = [i \in {i \in DOMAIN p : ~(16 * p[i] < st.cutoff)} |-> p[i]]
    BY <1>2, <1>3, StatsFacts
  <1> DEFINE real == {i \in DOMAIN p : ~Placeholder(ads[i], st)}
             above == {i \in DOMAIN p : ~(16 * p[i] < st.cutoff)}
  <1>5. real = above
    BY <1>2 DEF Placeholder
  <1>6. Kept(p) = [i \in real |-> p[i]]
    <2>1. Kept(p) = [i \in above |-> p[i]]
      BY <1>4
    <2> HIDE DEF real, above
    <2> QED  BY <1>5, <2>1
  <1>7. st.q1 <= st.median /\ st.median <= st.q3
    BY <1>4 DEF Sound
  <1> QED  BY <1>1, <1>4, <1>6, <1>7 DEF OnlyPlaceholdersLeft, QuartilesOrdered

LEMMA PlaceholderItem ==
    ASSUME NEW S, NEW dataset, dataset.ads \in Seq(S), Sound(dataset.stats), NEW query,
           NEW ad, Placeholder(ad, dataset.stats)
    PROVE  ShownAsPlaceholder(ad, dataset, query)
  <1>1. /\ HasPrice(ad) /\ dataset.stats.median \in Nat
        /\ VsMedian(ad, dataset.stats.median) <= -1500
    BY PlaceholderIsCheap
  <1>2. Flips(ad, dataset.stats) = <<>>
    BY DEF Flips
  <1>3. Band(ad, dataset.stats.median) = "below_market"
    BY <1>1, BandIs
  <1>4. Verdict(ad, dataset.ads, dataset.stats, query) = "pass"
    <2>1. PICK score \in Int : score = Score(ad, dataset.ads, dataset.stats, query)
      BY ScoreFacts
    <2>2. score <= 400
      BY <2>1, ScoreFacts
    <2>3. score < 450
      BY <2>2
    <2> QED  BY <1>1, <2>1, <2>3, VerdictIs
  <1> QED  BY <1>2, <1>3, <1>4 DEF Item, ShownAsPlaceholder

\* What has a price comes before what has none.
LEMMA PricedFirst ==
    ASSUME NEW S, NEW dataset, dataset.ads \in Seq(S), Sound(dataset.stats), NEW query, NEW bounds,
           NEW sort \in {"price_asc", "price_desc", "near_median"}
    PROVE  LET page == Page(dataset, query, sort, bounds) IN
           (\E ad \in page : ~HasPrice(ad)) => Priced(dataset.ads) \subseteq page
  <1> USE PricingAssumption
  <1> DEFINE ads == dataset.ads
             page == Page(dataset, query, sort, bounds)
  <1>1. PICK m \in 0 .. 4 * MaxPrice : m = dataset.stats.median
    BY DEF Sound
  <1> DEFINE key == [i \in DOMAIN ads |-> SortKey(ads[i], sort, m)]
             Below(i) == {j \in DOMAIN ads : key[j] < key[i] \/ (key[j] = key[i] /\ j < i)}
  <1>2. DOMAIN ads = 1 .. Len(ads) /\ Len(ads) \in Nat
    OBVIOUS
  <1>3. page = {ads[i] : i \in {i \in DOMAIN ads : Cardinality(Below(i)) < MaxListings}}
    BY <1>1 DEF Page
  <1>4. \E low \in Int : \A i \in DOMAIN ads :
            /\ HasPrice(ads[i]) => key[i] \in Int /\ key[i] < low
            /\ ~HasPrice(ads[i]) => key[i] = low
    <2>1. CASE sort = "price_asc"
      <3>1. \A i \in DOMAIN ads : key[i] = IF HasPrice(ads[i]) THEN ads[i].price ELSE MaxPrice + 1
        BY <2>1 DEF SortKey
      <3>2. \A i \in DOMAIN ads : HasPrice(ads[i]) => ads[i].price \in 1 .. MaxPrice
        BY DEF HasPrice
      <3> HIDE DEF key
      <3>3. \A i \in DOMAIN ads :
            /\ HasPrice(ads[i]) => key[i] \in Int /\ key[i] < MaxPrice + 1
            /\ ~HasPrice(ads[i]) => key[i] = MaxPrice + 1
        BY <3>1, <3>2
      <3> QED  BY <3>3
    <2>2. CASE sort = "price_desc"
      <3>1. \A i \in DOMAIN ads : key[i] = IF HasPrice(ads[i]) THEN -ads[i].price ELSE 1
        BY <2>2 DEF SortKey
      <3>2. \A i \in DOMAIN ads : HasPrice(ads[i]) => ads[i].price \in 1 .. MaxPrice
        BY DEF HasPrice
      <3> HIDE DEF key
      <3>3. \A i \in DOMAIN ads :
            /\ HasPrice(ads[i]) => key[i] \in Int /\ key[i] < 1
            /\ ~HasPrice(ads[i]) => key[i] = 1
        BY <3>1, <3>2
      <3> WITNESS 1 \in Int
      <3> QED  BY <3>3
    <2>3. CASE sort = "near_median"
      <3>1. \A i \in DOMAIN ads :
                key[i] = IF HasPrice(ads[i])
                         THEN Max({4 * ads[i].price - m, m - 4 * ads[i].price})
                         ELSE 4 * MaxPrice + 1
        BY <2>3 DEF SortKey
      <3>2. ASSUME NEW p \in 1 .. MaxPrice
            PROVE  Max({4 * p - m, m - 4 * p}) \in Int /\ Max({4 * p - m, m - 4 * p}) < 4 * MaxPrice + 1
        <4>1. 4 * p - m \in Int /\ m - 4 * p \in Int
          OBVIOUS
        <4>2. Max({4 * p - m, m - 4 * p}) = IF 4 * p - m >= m - 4 * p THEN 4 * p - m ELSE m - 4 * p
          BY <4>1, OfTwo
        <4> QED  BY <4>1, <4>2
      <3>3. \A i \in DOMAIN ads : HasPrice(ads[i]) => ads[i].price \in 1 .. MaxPrice
        BY DEF HasPrice
      <3> HIDE DEF key
      <3>4. \A i \in DOMAIN ads :
            /\ HasPrice(ads[i]) => key[i] \in Int /\ key[i] < 4 * MaxPrice + 1
            /\ ~HasPrice(ads[i]) => key[i] = 4 * MaxPrice + 1
        BY <3>1, <3>2, <3>3
      <3> QED  BY <3>4
    <2> QED  BY <2>1, <2>2, <2>3
  <1>5. PICK low \in Int : \A i \in DOMAIN ads :
            /\ HasPrice(ads[i]) => key[i] \in Int /\ key[i] < low
            /\ ~HasPrice(ads[i]) => key[i] = low
    <2> HIDE DEF key
    <2> QED  BY <1>4
  <1> HIDE DEF key
  <1>6. ASSUME NEW ad \in page, ~HasPrice(ad), NEW other \in Priced(ads)
        PROVE  other \in page
    <2> HIDE DEF page
    <2>1. PICK i \in DOMAIN ads : ad = ads[i] /\ Cardinality(Below(i)) < MaxListings
      BY <1>3, <1>6
    <2>2. PICK j \in DOMAIN ads : other = ads[j] /\ HasPrice(ads[j])
      BY <1>6 DEF Priced, ToSet
    <2>3. key[i] = low /\ key[j] \in Int /\ key[j] < low
      BY <1>5, <1>6, <2>1, <2>2
    <2>4. \A x \in DOMAIN ads : key[x] \in Int
      BY <1>5
    <2>5. \A x \in DOMAIN ads : key[x] < key[j] \/ key[x] = key[j] => key[x] < key[i]
      BY <2>3, <2>4
    <2>6. Below(j) \subseteq Below(i) /\ Below(i) \subseteq DOMAIN ads
      BY <2>5
    <2>7. IsFiniteSet(DOMAIN ads)
      BY <1>2, FS_Interval
    <2> HIDE DEF Below
    <2>8. /\ IsFiniteSet(Below(i)) /\ IsFiniteSet(Below(j))
          /\ Cardinality(Below(j)) <= Cardinality(Below(i))
      <3>1. IsFiniteSet(Below(i))
        BY <2>6, <2>7, FS_Subset
      <3> QED  BY <2>6, <3>1, FS_Subset
    <2>9. Cardinality(Below(i)) \in Nat /\ Cardinality(Below(j)) \in Nat
      BY <2>8, FS_CardinalityType
    <2>10. Cardinality(Below(j)) < MaxListings
      BY <2>1, <2>8, <2>9
    <2> QED  BY <1>3, <2>2, <2>10
  <1> HIDE DEF page
  <1>7. (\E ad \in page : ~HasPrice(ad)) => Priced(ads) \subseteq page
    BY <1>6
  <1> QED  BY <1>7 DEF page

\* A filter that asks for a discount only.
LEMMA DiscountMatches ==
    ASSUME NEW ad, NEW ads, NEW st, Sound(st), NEW d \in Nat
    PROVE  /\ Matches(ad, ads, st, ByDiscount(d)) <=>
                  ~Placeholder(ad, st) /\ Max({Discount(ad, st.median), 0}) >= d
           /\ d > 0 => (Matches(ad, ads, st, ByDiscount(d)) <=>
                  /\ st.median # 0 /\ HasPrice(ad) /\ ~Placeholder(ad, st)
                  /\ Discount(ad, st.median) > 0 /\ Discount(ad, st.median) >= d)
  <1> DEFINE f == ByDiscount(d)
  <1>1. /\ f.discount = d /\ f.price = NoBound /\ f.seller = None /\ f.condition = None
        /\ f.region = {} /\ f.keyword = {} /\ f.unique = FALSE
    BY DEF ByDiscount, NoFilter
  <1>2. d # NoBound
    BY DEF NoBound
  <1> HIDE DEF f
  <1>3. Matches(ad, ads, st, f) <=> DiscountKept(ad, st, d)
    BY <1>1 DEF Matches, ValueKept, RegionKept
  <1>4. DiscountKept(ad, st, d) <=> ~Placeholder(ad, st) /\ Max({Discount(ad, st.median), 0}) >= d
    BY <1>2 DEF DiscountKept
  <1>5. PICK m \in Nat : m = st.median
    BY PricingAssumption DEF Sound
  <1>6. PICK x \in Int : x = Discount(ad, m)
    BY VsMedianIs
  <1>7. Max({x, 0}) = IF x >= 0 THEN x ELSE 0
    BY OfTwo
  <1>8. x > 0 => m # 0 /\ HasPrice(ad)
    <2>1. m = 0 \/ ~HasPrice(ad) => VsMedian(ad, m) = 0
      BY VsMedianIs
    <2>2. x = -VsMedian(ad, m)
      BY <1>6, VsMedianIs
    <2> QED  BY <2>1, <2>2
  <1>9. d > 0 => (Max({x, 0}) >= d <=> x > 0 /\ x >= d)
    BY <1>7
  <1> QED  BY <1>3, <1>4, <1>5, <1>6, <1>8, <1>9 DEF f

\* The board shows deals.
LEMMA BoardShowsDeals ==
    ASSUME NEW S, NEW dataset, dataset.ads \in Seq(S), Sound(dataset.stats), NEW query, NEW d \in Nat
    PROVE  Opportunities(dataset, query, ByDiscount(d))
               \subseteq ToSet(FilterDeals(dataset.ads, dataset.stats, d))
  <1> DEFINE f == ByDiscount(d)
             deals == FilterDeals(dataset.ads, dataset.stats, d)
             P == {i \in DOMAIN deals : Matches(deals[i], dataset.ads, dataset.stats, f)}
             kept == At(deals, P)
             first == SubSeq(kept, 1, AtMost(BoardSample, Len(kept)))
  <1>1. f.discount = d
    BY DEF ByDiscount, NoFilter
  <1>2. deals \in Seq(S)
    BY FilterDealsAre
  <1>3. P \in SUBSET DOMAIN deals
    OBVIOUS
  <1>4. Candidates(dataset, f) = first
    <2> HIDE DEF f
    <2> QED  BY <1>1 DEF Candidates, Keep
  <1> HIDE DEF f, deals, P
  <1>5. kept \in Seq(S) /\ ToSet(kept) \subseteq ToSet(deals)
    <2>1. kept \in Seq(S)
      BY <1>2, <1>3, AtPlaces
    <2>2. ToSet(kept) = {deals[i] : i \in P}
      BY <1>2, <1>3, AtElements
    <2>3. {deals[i] : i \in P} \subseteq ToSet(deals)
      BY <1>3 DEF ToSet
    <2> HIDE DEF kept
    <2> QED  BY <2>1, <2>2, <2>3
  <1> HIDE DEF kept
  <1>6. PICK k \in Nat : k = AtMost(BoardSample, Len(kept)) /\ k <= Len(kept)
    <2>1. Len(kept) \in Nat /\ BoardSample \in Nat
      BY <1>5, PricingAssumption
    <2> QED  BY <2>1 DEF AtMost
  <1>7. first = SubSeq(kept, 1, k)
    BY <1>6
  <1>8. first \in Seq(S) /\ ToSet(first) \subseteq ToSet(kept)
    <2>1. SubSeq(kept, 1, k) = [i \in 1 .. k |-> kept[i]]
      BY <1>5, <1>6
    <2>2. \A i \in 1 .. k : i \in DOMAIN kept
      BY <1>5, <1>6
    <2>3. [i \in 1 .. k |-> kept[i]] \in Seq(S)
      BY <1>5, <2>2
    <2>4. ToSet([i \in 1 .. k |-> kept[i]]) \subseteq ToSet(kept)
      BY <2>2 DEF ToSet
    <2> QED  BY <1>7, <2>1, <2>3, <2>4
  <1> HIDE DEF first
  <1>9. Top(first, dataset, query, 3) \subseteq ToSet(first)
    BY <1>8, TopIsBest
  <1>10. Opportunities(dataset, query, f) = Top(first, dataset, query, 3)
    BY <1>4 DEF Opportunities
  <1> QED  BY <1>5, <1>8, <1>9, <1>10 DEF f, deals

-----------------------------------------------------------------------------
(* The properties of the sample that is looked at. *)

LEMMA ListingsHaveIds == \A ad \in Listing : HasId(ad)
  <1> SUFFICES ASSUME NEW ad \in Listing PROVE HasId(ad)
    OBVIOUS
  <1>1. ad.id \in Id
    BY ListingAssumption
  <1>2. PICK n \in Nat \ {0} : n = ad.id
    BY <1>1, MarketAssumption, Zenon
  <1>3. n > 0
    OBVIOUS
  <1> QED  BY <1>2, <1>3, Zenon DEF HasId

\* The dataset of any listings agrees with its statistics.
DatasetAgrees(dataset) ==
    /\ OnlyPlaceholdersLeft(dataset.ads, dataset.stats)
    /\ QuartilesOrdered(dataset.stats)
    /\ \A ad \in ToSet(dataset.ads) :
           Placeholder(ad, dataset.stats) => ShownAsPlaceholder(ad, dataset, Query)

LEMMA DatasetsAgree ==
    ASSUME NEW ads \in Seq(Listing), NEW strict \in BOOLEAN, NEW truncated, NEW total,
           NEW dataset, dataset = Dataset(ads, Query.words, strict, truncated, total)
    PROVE  DatasetAgrees(dataset)
  <1>1. PICK matching : matching = ApplySearchMode(ads, Query.words, strict)
    OBVIOUS
  <1>2. /\ matching \in Seq(Listing) /\ dataset.ads = matching
        /\ dataset.stats = Stats(Prices(matching)) /\ Sound(dataset.stats)
    BY <1>1, ListingsHaveIds, DatasetIs
  <1>3. OnlyPlaceholdersLeft(matching, dataset.stats) /\ QuartilesOrdered(dataset.stats)
    BY <1>2, LeftOutIsPlaceholder
  <1>4. ASSUME NEW ad, Placeholder(ad, dataset.stats)
        PROVE  ShownAsPlaceholder(ad, dataset, Query)
    BY <1>2, <1>4, PlaceholderItem
  <1> QED  BY <1>2, <1>3, <1>4 DEF DatasetAgrees

LEMMA SegmentsAre ==
    ASSUME NEW ads, NEW query, NEW strict, NEW truncated,
           NEW dataset \in Segments(ads, query, strict, truncated)
    PROVE  \E condition \in {"new", "used"}, seller \in {"private", "shop"} :
               dataset = Dataset(Segment(ads, condition, seller), query, strict, truncated, 0)
  BY DEF Segments

LEMMA PlaceholdersAgreeNow == TypeOK => PlaceholdersAgree
  <1> SUFFICES ASSUME TypeOK,
                      NEW dataset \in {Whole(FALSE)} \cup Segments(sample, Query.words, TRUE, FALSE)
               PROVE  DatasetAgrees(dataset)
    BY DEF PlaceholdersAgree, DatasetAgrees, OnlyPlaceholdersLeft, QuartilesOrdered,
           ShownAsPlaceholder
  <1>1. sample \in Seq(Listing)
    BY DEF TypeOK
  <1>2. CASE dataset = Whole(FALSE)
    BY <1>1, <1>2, DatasetsAgree DEF Whole
  <1>3. CASE dataset \in Segments(sample, Query.words, TRUE, FALSE)
    <2>1. PICK strict \in BOOLEAN, truncated \in BOOLEAN : strict = TRUE /\ truncated = FALSE
      OBVIOUS
    <2>2. dataset \in Segments(sample, Query.words, strict, truncated)
      BY <1>3, <2>1, Zenon
    <2>3. PICK condition, seller :
             dataset = Dataset(Segment(sample, condition, seller), Query.words, strict, truncated, 0)
      BY <2>2, SegmentsAre
    <2> DEFINE P == {i \in DOMAIN sample : sample[i].condition = condition /\ sample[i].seller = seller}
    <2>4. Segment(sample, condition, seller) = At(sample, P)
      BY DEF Segment, Keep
    <2>5. P \in SUBSET DOMAIN sample
      OBVIOUS
    <2> HIDE DEF P
    <2>6. At(sample, P) \in Seq(Listing)
      BY <1>1, <2>5, AtPlaces
    <2> QED  BY <2>3, <2>4, <2>6, DatasetsAgree
  <1> QED  BY <1>2, <1>3

\* The deals of a dataset, its board and its items.
LEMMA DealsShown ==
    ASSUME NEW S, NEW dataset, dataset.ads \in Seq(S), Sound(dataset.stats), NEW query,
           NEW d \in Nat, NEW deals, deals = ToSet(FilterDeals(dataset.ads, dataset.stats, d))
    PROVE  /\ d > 0 => deals = {ad \in ToSet(dataset.ads) :
                                    Matches(ad, dataset.ads, dataset.stats, ByDiscount(d))}
           /\ Opportunities(dataset, query, ByDiscount(d)) \subseteq deals
           /\ MarketSignal(dataset, query, ByDiscount(d)) = "margin" =>
                  \E ad \in deals : Verdict(ad, dataset.ads, dataset.stats, query) = "take"
  <1>1. PICK ads : ads = dataset.ads
    OBVIOUS
  <1>2. PICK st : st = dataset.stats
    OBVIOUS
  <1>3. PICK board : board = Opportunities(dataset, query, ByDiscount(d))
    OBVIOUS
  <1>4. deals = {ad \in ToSet(ads) :
                    /\ st.median # 0 /\ HasPrice(ad) /\ ~Placeholder(ad, st)
                    /\ Discount(ad, st.median) > 0 /\ Discount(ad, st.median) >= d}
    BY <1>1, <1>2, FilterDealsAre
  <1>5. ASSUME d > 0, NEW ad
        PROVE  Matches(ad, ads, st, ByDiscount(d)) <=>
                    /\ st.median # 0 /\ HasPrice(ad) /\ ~Placeholder(ad, st)
                    /\ Discount(ad, st.median) > 0 /\ Discount(ad, st.median) >= d
    BY <1>2, <1>5, DiscountMatches
  <1>6. d > 0 => deals = {ad \in ToSet(ads) : Matches(ad, ads, st, ByDiscount(d))}
    BY <1>4, <1>5
  <1>7. board \subseteq deals
    BY <1>3, BoardShowsDeals
  <1>8. ASSUME MarketSignal(dataset, query, ByDiscount(d)) = "margin"
        PROVE  \E ad \in deals : Verdict(ad, ads, st, query) = "take"
    <2>1. \E ad \in board : Score(ad, ads, st, query) >= 800
      BY <1>1, <1>2, <1>3, <1>8 DEF MarketSignal, None
    <2>2. PICK ad \in board : Score(ad, ads, st, query) >= 800
      BY <2>1
    <2>3. ad \in deals /\ HasPrice(ad)
      BY <1>4, <1>7, <2>2
    <2>4. PICK score \in Int : score = Score(ad, ads, st, query)
      BY <1>1, <1>2, ScoreFacts
    <2>5. score >= 780
      BY <2>2, <2>4
    <2>6. Verdict(ad, ads, st, query) = "take"
      BY <1>1, <1>2, <2>3, <2>4, <2>5, VerdictIs
    <2> QED  BY <2>3, <2>6
  <1> QED  BY <1>1, <1>2, <1>3, <1>6, <1>7, <1>8

\* Every deal of 8% sells with a profit.
LEMMA DealsPay ==
    ASSUME NEW S, NEW ads \in Seq(S), NEW st, Sound(st), NEW d \in Nat, d >= 800,
           NEW ad \in ToSet(FilterDeals(ads, st, d)), NEW target, target = Flips(ad, st)
    PROVE  /\ Len(target) = 3
           /\ 400 * ad.price < target[1]
           /\ target[1] <= target[2] /\ target[2] <= target[3]
  <1>1. /\ st.median # 0 /\ HasPrice(ad) /\ ~Placeholder(ad, st)
        /\ Discount(ad, st.median) >= d
    BY FilterDealsAre
  <1>2. PICK m \in Nat : m = st.median
    BY PricingAssumption DEF Sound
  <1>3. PICK x \in Int : x = Discount(ad, st.median)
    BY <1>2, VsMedianIs
  <1>4. Discount(ad, st.median) >= 800
    BY <1>1, <1>3
  <1> QED  BY <1>1, <1>4, FlipsGrow

\* What is called below the market is a deal of 15% or a placeholder.
LEMMA BelowMarket ==
    ASSUME NEW S, NEW ads \in Seq(S), NEW st, Sound(st), NEW ad \in ToSet(ads)
    PROVE  Band(ad, st.median) = "below_market" <=>
               HasPrice(ad) /\ ( \/ ad \in ToSet(FilterDeals(ads, st, 1500))
                                 \/ Placeholder(ad, st) /\ Discount(ad, st.median) >= 1500)
  <1>1. PICK m \in Nat : m = st.median
    BY PricingAssumption DEF Sound
  <1>2. PICK v \in Int : v = VsMedian(ad, m) /\ Discount(ad, m) = -v
    BY VsMedianIs
  <1>3. m = 0 => v = 0
    BY <1>2, VsMedianIs
  <1>4. Band(ad, m) = "below_market" <=> HasPrice(ad) /\ v <= -1500
    BY <1>2, BandIs
  <1>5. ad \in ToSet(FilterDeals(ads, st, 1500)) <=>
            /\ m # 0 /\ HasPrice(ad) /\ ~Placeholder(ad, st) /\ -v > 0 /\ -v >= 1500
    BY <1>1, <1>2, FilterDealsAre
  <1>6. v <= -1500 <=> -v >= 1500
    OBVIOUS
  <1>7. -v >= 1500 => -v > 0 /\ m # 0
    BY <1>3
  <1> QED  BY <1>1, <1>2, <1>4, <1>5, <1>6, <1>7

LEMMA PartIs ==
    ASSUME TypeOK
    PROVE  /\ sample \in Seq(Listing) /\ Part.ads = sample /\ Sound(Part.stats)
  <1>1. sample \in Seq(Listing)
    BY DEF TypeOK
  <1>2. PICK strict \in BOOLEAN, truncated \in BOOLEAN : strict = FALSE /\ truncated = TRUE
    OBVIOUS
  <1>3. Part = Dataset(sample, Query.words, strict, truncated, MaxSample)
    BY <1>2, Zenon DEF Part
  <1>4. PICK matching : matching = ApplySearchMode(sample, Query.words, strict)
    OBVIOUS
  <1>5. matching = sample
    BY <1>2, <1>4 DEF ApplySearchMode
  <1>6. Part.ads = matching /\ Sound(Part.stats)
    BY <1>1, <1>3, <1>4, ListingsHaveIds, DatasetIs
  <1> QED  BY <1>1, <1>5, <1>6

LEMMA DealsAgreeNow == TypeOK => DealsAgree
  <1> SUFFICES ASSUME TypeOK PROVE DealsAgree
    OBVIOUS
  <1> DEFINE deals(d) == ToSet(FilterDeals(sample, Part.stats, d))
             items == [ad \in ToSet(sample) |-> Item(ad, Part, Query)]
  <1>1. sample \in Seq(Listing) /\ Part.ads = sample /\ Sound(Part.stats)
    BY PartIs
  <1>2. \A ad \in ToSet(sample) :
            /\ items[ad].band = Band(ad, Part.stats.median)
            /\ items[ad].verdict = Verdict(ad, sample, Part.stats, Query)
            /\ items[ad].flips = Flips(ad, Part.stats)
    BY <1>1 DEF Item
  <1> HIDE DEF items
  <1>3. ASSUME NEW d \in Asked
        PROVE  /\ d > 0 => deals(d) = {ad \in ToSet(sample) : Matches(ad, sample, Part.stats, ByDiscount(d))}
               /\ Opportunities(Part, Query, ByDiscount(d)) \subseteq deals(d)
               /\ MarketSignal(Part, Query, ByDiscount(d)) = "margin" =>
                      \E ad \in deals(d) : items[ad].verdict = "take"
               /\ d >= 800 => \A ad \in deals(d) :
                      LET target == items[ad].flips IN
                      /\ Len(target) = 3
                      /\ 400 * ad.price < target[1]
                      /\ target[1] <= target[2] /\ target[2] <= target[3]
    <2>1. d \in Nat
      BY MarketAssumption
    <2>2. deals(d) \subseteq ToSet(sample)
      BY <1>1, FilterDealsAre
    <2>3. /\ d > 0 => deals(d) = {ad \in ToSet(sample) : Matches(ad, sample, Part.stats, ByDiscount(d))}
          /\ Opportunities(Part, Query, ByDiscount(d)) \subseteq deals(d)
          /\ MarketSignal(Part, Query, ByDiscount(d)) = "margin" =>
                 \E ad \in deals(d) : Verdict(ad, sample, Part.stats, Query) = "take"
      BY <1>1, <2>1, DealsShown
    <2>4. ASSUME d >= 800, NEW ad \in deals(d)
          PROVE  LET target == items[ad].flips IN
                 /\ Len(target) = 3
                 /\ 400 * ad.price < target[1]
                 /\ target[1] <= target[2] /\ target[2] <= target[3]
      <3>1. PICK target : target = Flips(ad, Part.stats)
        OBVIOUS
      <3>2. /\ Len(target) = 3
            /\ 400 * ad.price < target[1]
            /\ target[1] <= target[2] /\ target[2] <= target[3]
        BY <1>1, <2>1, <2>4, <3>1, DealsPay
      <3>3. items[ad].flips = target
        BY <1>2, <2>2, <2>4, <3>1
      <3> QED  BY <3>2, <3>3
    <2> HIDE DEF deals
    <2> QED  BY <1>2, <2>2, <2>3, <2>4
  <1>4. ASSUME NEW ad \in ToSet(sample)
        PROVE  items[ad].band = "below_market" <=>
                   HasPrice(ad) /\ ( \/ ad \in deals(1500)
                                     \/ Placeholder(ad, Part.stats) /\ Discount(ad, Part.stats.median) >= 1500)
    BY <1>1, <1>2, BelowMarket
  <1> QED  BY <1>3, <1>4 DEF DealsAgree, items

\* A sample fits its bound, and no listing is in it twice.
SampleInv ==
    /\ Len(sample) <= MaxSample
    /\ \A i, j \in DOMAIN sample : sample[i].id = sample[j].id => i = j

\* The page of the best scores, and the page of the cheap.
LEMMA BestPage ==
    ASSUME NEW S, NEW dataset, dataset.ads \in Seq(S), Sound(dataset.stats), Distinct(dataset.ads),
           NEW query, NEW bounds, NEW best, best = Page(dataset, query, "deal_score", bounds)
    PROVE  /\ Cardinality(best) = AtMost(Len(dataset.ads), MaxListings)
           /\ \A ad \in best, other \in ToSet(dataset.ads) \ best :
                  Score(ad, dataset.ads, dataset.stats, query)
                      >= Score(other, dataset.ads, dataset.stats, query)
  <1>1. best = Top(dataset.ads, dataset, query, MaxListings)
    BY DEF Page
  <1>2. MaxListings \in Nat
    BY PricingAssumption
  <1>3. \A i, j \in DOMAIN dataset.ads : dataset.ads[i] = dataset.ads[j] => i = j
    BY DEF Distinct
  <1>4. Cardinality(best) = AtMost(Len(dataset.ads), MaxListings)
    BY <1>1, <1>2, <1>3, TopIsFull
  <1>5. \A ad \in best, other \in ToSet(dataset.ads) \ best :
            Score(ad, dataset.ads, dataset.stats, query)
                >= Score(other, dataset.ads, dataset.stats, query)
    BY <1>1, <1>2, TopIsBest
  <1> QED  BY <1>4, <1>5

LEMMA CheapPage ==
    ASSUME NEW S, NEW dataset, dataset.ads \in Seq(S), Sound(dataset.stats), NEW query,
           NEW low \in Nat, NEW high \in Nat, low <= high,
           NEW cheap, cheap = Page(dataset, query, "cheap", {low, high}),
           NEW ad \in cheap,
           NEW other \in ToSet(FilterDeals(dataset.ads, dataset.stats, low)) \ cheap
    PROVE  \/ Score(ad, dataset.ads, dataset.stats, query)
                  >= Score(other, dataset.ads, dataset.stats, query)
           \/ Discount(other, dataset.stats.median) > high
  <1>1. PICK st : st = dataset.stats
    OBVIOUS
  <1>2. PICK deals : deals = FilterDeals(dataset.ads, st, low)
    OBVIOUS
  <1>3. deals \in Seq(S)
    BY <1>2, FilterDealsAre
  <1>4. Min({low, high}) = low /\ Max({low, high}) = high
    BY OfTwo
  <1> DEFINE P == {i \in DOMAIN deals : Discount(deals[i], st.median) <= high}
  <1>5. FilterDealsWithin(dataset.ads, st, {low, high}) = At(deals, P)
    <2>1. FilterDealsWithin(dataset.ads, st, {low, high})
            = At(FilterDeals(dataset.ads, st, Min({low, high})),
                 {i \in DOMAIN FilterDeals(dataset.ads, st, Min({low, high})) :
                    Discount(FilterDeals(dataset.ads, st, Min({low, high}))[i], st.median)
                        <= Max({low, high})})
      BY DEF FilterDealsWithin, Keep
    <2> QED  BY <1>2, <1>4, <2>1
  <1>6. P \in SUBSET DOMAIN deals
    OBVIOUS
  <1> HIDE DEF P
  <1>7. At(deals, P) \in Seq(S)
    BY <1>3, <1>6, AtPlaces
  <1>8. ToSet(At(deals, P)) = {deals[i] : i \in P}
    BY <1>3, <1>6, AtElements
  <1>9. PICK within \in Seq(S) : within = At(deals, P)
    BY <1>7
  <1>10. cheap = Top(within, dataset, query, MaxListings)
    BY <1>1, <1>5, <1>9 DEF Page
  <1>11. MaxListings \in Nat
    BY PricingAssumption
  <1>12. \A one \in cheap, two \in ToSet(within) \ cheap :
            Score(one, dataset.ads, dataset.stats, query)
                >= Score(two, dataset.ads, dataset.stats, query)
    BY <1>10, <1>11, TopIsBest
  <1>13. other \in ToSet(within) \/ Discount(other, st.median) > high
    <2>1. PICK i \in DOMAIN deals : other = deals[i]
      BY <1>1, <1>2 DEF ToSet
    <2>2. PICK m \in Nat : m = st.median
      BY <1>1, PricingAssumption DEF Sound
    <2>3. Discount(other, st.median) \in Int
      BY <2>2, VsMedianIs
    <2>4. CASE Discount(other, st.median) <= high
      <3>1. i \in P
        BY <2>1, <2>4 DEF P
      <3> QED  BY <1>8, <1>9, <2>1, <3>1
    <2> QED  BY <2>3, <2>4
  <1> QED  BY <1>1, <1>12, <1>13

LEMMA WholeIs ==
    ASSUME TypeOK, SampleInv, NEW strict \in BOOLEAN, NEW whole, whole = Whole(strict)
    PROVE  whole.ads \in Seq(Listing) /\ Sound(whole.stats) /\ Distinct(whole.ads)
  <1>1. sample \in Seq(Listing)
    BY DEF TypeOK
  <1>2. PICK truncated \in BOOLEAN : truncated = FALSE
    OBVIOUS
  <1>3. whole = Dataset(sample, Query.words, strict, truncated, 0)
    BY <1>2, Zenon DEF Whole
  <1>4. PICK matching : matching = ApplySearchMode(sample, Query.words, strict)
    OBVIOUS
  <1>5. matching \in Seq(Listing) /\ whole.ads = matching /\ Sound(whole.stats)
    BY <1>1, <1>3, <1>4, ListingsHaveIds, DatasetIs
  <1>6. Distinct(sample)
    BY DEF SampleInv, Distinct
  <1>7. Distinct(ApplySearchMode(sample, Query.words, strict))
    BY <1>1, <1>6, MatchingAre
  <1> QED  BY <1>4, <1>5, <1>7

LEMMA PageKeepsBestNow == TypeOK /\ SampleInv => PageKeepsBest
  <1> SUFFICES ASSUME TypeOK, SampleInv, NEW strict \in BOOLEAN
               PROVE  LET whole == Whole(strict)
                          score(ad) == Score(ad, whole.ads, whole.stats, Query)
                          best == Page(whole, Query, "deal_score", {1})
                          cheap == Page(whole, Query, "cheap", {800, 9900})
                      IN
                      /\ Cardinality(best) = AtMost(Len(whole.ads), MaxListings)
                      /\ \A ad \in best, other \in ToSet(whole.ads) \ best : score(ad) >= score(other)
                      /\ \A ad \in cheap, other \in ToSet(FilterDeals(whole.ads, whole.stats, 800)) \ cheap :
                             score(ad) >= score(other) \/ Discount(other, whole.stats.median) > 9900
                      /\ \A sort \in {"price_asc", "price_desc", "near_median"} :
                             LET page == Page(whole, Query, sort, {1}) IN
                             (\E ad \in page : ~HasPrice(ad)) => Priced(whole.ads) \subseteq page
    BY DEF PageKeepsBest
  <1>1. PICK whole : whole = Whole(strict)
    OBVIOUS
  <1>2. whole.ads \in Seq(Listing) /\ Sound(whole.stats) /\ Distinct(whole.ads)
    BY <1>1, WholeIs
  <1>3. PICK best : best = Page(whole, Query, "deal_score", {1})
    OBVIOUS
  <1>4. /\ Cardinality(best) = AtMost(Len(whole.ads), MaxListings)
        /\ \A ad \in best, other \in ToSet(whole.ads) \ best :
               Score(ad, whole.ads, whole.stats, Query) >= Score(other, whole.ads, whole.stats, Query)
    BY <1>2, <1>3, BestPage
  <1>5. PICK cheap : cheap = Page(whole, Query, "cheap", {800, 9900})
    OBVIOUS
  <1>6. ASSUME NEW ad \in cheap, NEW other \in ToSet(FilterDeals(whole.ads, whole.stats, 800)) \ cheap
        PROVE  \/ Score(ad, whole.ads, whole.stats, Query) >= Score(other, whole.ads, whole.stats, Query)
               \/ Discount(other, whole.stats.median) > 9900
    <2>1. PICK low \in Nat, high \in Nat : low = 800 /\ high = 9900 /\ low <= high
      OBVIOUS
    <2>2. cheap = Page(whole, Query, "cheap", {low, high})
      BY <1>5, <2>1
    <2>3. other \in ToSet(FilterDeals(whole.ads, whole.stats, low)) \ cheap
      BY <1>6, <2>1
    <2>4. \/ Score(ad, whole.ads, whole.stats, Query) >= Score(other, whole.ads, whole.stats, Query)
          \/ Discount(other, whole.stats.median) > high
      BY <1>2, <1>6, <2>1, <2>2, <2>3, CheapPage
    <2> QED  BY <2>1, <2>4
  <1>7. ASSUME NEW sort \in {"price_asc", "price_desc", "near_median"}
        PROVE  LET page == Page(whole, Query, sort, {1}) IN
               (\E ad \in page : ~HasPrice(ad)) => Priced(whole.ads) \subseteq page
    BY <1>2, PricedFirst
  <1> QED  BY <1>1, <1>3, <1>4, <1>5, <1>6, <1>7

-----------------------------------------------------------------------------
(* Silent falls. *)

LEMMA SilentSteps ==
    ASSUME NEW price \in Nat
    PROVE  /\ SilentStep(price) \in Nat
           /\ \A p \in 0 .. price, q \in 0 .. price :
                 q <= p /\ ~Significant(p, q) => p - q <= SilentStep(price)
  <1> DEFINE steps == {d \in 0 .. price : \E p \in d .. price : ~Significant(p, p - d)}
  <1>1. 0 \in steps
    <2>1. 0 \in 0 .. price /\ ~(0 > 0 - 0)
      OBVIOUS
    <2> QED  BY <2>1 DEF Significant
  <1>2. steps \in SUBSET (0 .. price) /\ steps # {}
    BY <1>1
  <1>3. SilentStep(price) = Max(steps)
    BY DEF SilentStep
  <1>4. ASSUME NEW p \in 0 .. price, NEW q \in 0 .. price, q <= p, ~Significant(p, q)
        PROVE  p - q \in steps
    <2>1. p - q \in 0 .. price /\ p \in (p - q) .. price /\ p - (p - q) = q
      BY <1>4
    <2> QED  BY <1>4, <2>1
  <1> HIDE DEF steps
  <1>5. Max(steps) \in steps /\ \A y \in steps : y <= Max(steps)
    BY <1>2, Largest
  <1>6. Max(steps) \in 0 .. price
    BY <1>2, <1>5
  <1>7. SilentStep(price) \in Nat
    BY <1>3, <1>6
  <1>8. ASSUME NEW p \in 0 .. price, NEW q \in 0 .. price, q <= p /\ ~Significant(p, q)
        PROVE  p - q <= SilentStep(price)
    <2>1. p - q \in steps
      BY <1>4, <1>8
    <2> QED  BY <1>3, <1>5, <2>1
  <1> QED  BY <1>7, <1>8

LEMMA OneMoreStep ==
    ASSUME NEW from \in Nat, NEW p \in 0 .. from, NEW q \in 0 .. from, NEW n \in Nat,
           from - p <= n * SilentStep(from), q <= p => ~Significant(p, q)
    PROVE  from - q <= (n + 1) * SilentStep(from)
  <1>1. PICK s \in Nat : s = SilentStep(from)
    BY SilentSteps
  <1>2. q <= p => p - q <= s
    BY <1>1, SilentSteps
  <1>3. (n + 1) * s = n * s + s /\ n * s \in Nat
    OBVIOUS
  <1> QED  BY <1>1, <1>2, <1>3

-----------------------------------------------------------------------------
(* The rows after a sync. *)

LEMMA SampleIds ==
    ASSUME TypeOK, NEW ad \in ToSet(sample)
    PROVE  ad \in Listing /\ ad.id \in Id /\ ad.id # Marker
  <1>1. ad \in Listing
    BY DEF TypeOK, ToSet
  <1>2. ad.id \in Id
    BY <1>1, ListingAssumption
  <1> QED  BY <1>1, <1>2, MarketAssumption DEF Marker

LEMMA SyncedRow ==
    ASSUME TypeOK, Sync, NEW i \in Id
    PROVE  \/ /\ i \in SyncedIds
              /\ \E ad \in ToSet(sample) :
                    ad.id = i /\ row'[i] = [known |-> TRUE, active |-> TRUE, price |-> PriceOf(ad)]
           \/ i \notin SyncedIds /\ row'[i] = [row[i] EXCEPT !.active = FALSE]
  <1>1. i # Marker /\ i \in DOMAIN row
    BY MarketAssumption DEF Marker, TypeOK
  <1>2. row'[i] = Synced(i)
    BY <1>1 DEF Sync
  <1>3. CASE i \in SyncedIds
    <2>1. \E ad \in ToSet(sample) : ad.id = i
      BY <1>3 DEF SyncedIds, IdsOf
    <2>2. PICK ad \in ToSet(sample) :
             /\ ad.id = i
             /\ Synced(i) = [known |-> TRUE, active |-> TRUE, price |-> PriceOf(ad)]
      BY <2>1 DEF Synced
    <2> QED  BY <1>2, <1>3, <2>2
  <1>4. CASE i \notin SyncedIds
    <2>1. ~\E ad \in ToSet(sample) : ad.id = i
      BY <1>4 DEF SyncedIds, IdsOf
    <2> QED  BY <1>2, <1>4, <2>1 DEF Synced
  <1> QED  BY <1>3, <1>4

LEMMA MarkerRow ==
    ASSUME TypeOK, Sync
    PROVE  row'[Marker] \in Row /\ ~row'[Marker].active
  <1>1. Marker \in DOMAIN row /\ row[Marker] \in Row
    BY DEF TypeOK
  <1>2. row'[Marker] = IF Marked THEN [NoRow EXCEPT !.known = TRUE] ELSE Synced(Marker)
    BY <1>1 DEF Sync
  <1>3. ~\E ad \in ToSet(sample) : ad.id = Marker
    BY SampleIds
  <1>4. Synced(Marker) = [row[Marker] EXCEPT !.active = FALSE]
    BY <1>3 DEF Synced
  <1>5. [NoRow EXCEPT !.known = TRUE] \in Row /\ ~[NoRow EXCEPT !.known = TRUE].active
    <2>1. NoRow \in Row
      BY PricingAssumption DEF NoRow, Row
    <2>2. ~NoRow.active
      BY DEF NoRow
    <2> QED  BY <2>1, <2>2 DEF Row
  <1>6. [row[Marker] EXCEPT !.active = FALSE] \in Row /\ ~[row[Marker] EXCEPT !.active = FALSE].active
    BY <1>1 DEF Row
  <1> QED  BY <1>2, <1>4, <1>5, <1>6

LEMMA PriceTypes ==
    ASSUME NEW ad
    PROVE  /\ PriceOf(ad) \in 0 .. MaxPrice
           /\ PriceOf(ad) # 0 => HasPrice(ad) /\ PriceOf(ad) = ad.price
  BY PricingAssumption DEF PriceOf, HasPrice

-----------------------------------------------------------------------------
(* What trackers are told. *)

LEMMA SamplePlaces ==
    ASSUME TypeOK
    PROVE  /\ Len(sample) \in Nat /\ DOMAIN sample = 1 .. Len(sample)
           /\ \A i \in DOMAIN sample : sample[i] \in ToSet(sample) /\ sample[i].id \in Id
  <1>1. sample \in Seq(Listing)
    BY DEF TypeOK
  <1>2. \A i \in DOMAIN sample : sample[i] \in ToSet(sample)
    BY DEF ToSet
  <1> QED  BY <1>1, <1>2, SampleIds

\* A tracker is told of listings of the sample, of finitely many.
LEMMA ToldTypes ==
    ASSUME TypeOK, NEW t \in Tracker, NEW places \in SUBSET DOMAIN sample
    PROVE  /\ IsFiniteSet(Told(t, places))
           /\ \A x \in Told(t, places) : x.id \in Id
  <1> DEFINE told == Told(t, places)
             place == [x \in told |-> x.place]
  <1>1. \A x \in told : \E i \in DOMAIN sample : x = [place |-> i, id |-> sample[i].id]
    BY DEF Told
  <1> HIDE DEF told
  <1>2. \A x \in told : x.place \in DOMAIN sample /\ x.id = sample[x.place].id
    <2> SUFFICES ASSUME NEW x \in told
                 PROVE  x.place \in DOMAIN sample /\ x.id = sample[x.place].id
      OBVIOUS
    <2>1. PICK i \in DOMAIN sample : x = [place |-> i, id |-> sample[i].id]
      BY <1>1
    <2> QED  BY <2>1
  <1>3. \A x \in told, y \in told : x.place = y.place => x = y
    <2> SUFFICES ASSUME NEW x \in told, NEW y \in told, x.place = y.place
                 PROVE  x = y
      OBVIOUS
    <2>1. PICK i \in DOMAIN sample : x = [place |-> i, id |-> sample[i].id]
      BY <1>1
    <2>2. PICK j \in DOMAIN sample : y = [place |-> j, id |-> sample[j].id]
      BY <1>1
    <2>3. i = j
      BY <2>1, <2>2
    <2> QED  BY <2>1, <2>2, <2>3
  <1>4. IsFiniteSet(DOMAIN sample)
    <2>1. PICK n \in Nat : DOMAIN sample = 1 .. n
      BY SamplePlaces
    <2> QED  BY <2>1, FS_Interval
  <1>5. place \in Injection(told, DOMAIN sample)
    BY <1>2, <1>3 DEF Injection, IsInjective
  <1>6. IsFiniteSet(told)
    <2> HIDE DEF place
    <2> QED  BY <1>4, <1>5, FS_Injection
  <1>7. \A x \in told : x.id \in Id
    BY <1>2, SamplePlaces
  <1> QED  BY <1>6, <1>7 DEF told

\* The first few of what is told are among the first more.
LEMMA FirstGrows ==
    ASSUME NEW told, IsFiniteSet(told)
    PROVE  First(told, MaxNamed) \subseteq First(told, MaxEvents)
  <1> SUFFICES ASSUME NEW x \in told,
                      Cardinality({y \in told : y.place < x.place}) < MaxNamed
               PROVE  Cardinality({y \in told : y.place < x.place}) < MaxEvents
    BY DEF First
  <1>1. IsFiniteSet({y \in told : y.place < x.place})
    BY FS_Subset
  <1>2. PICK n \in Nat : n = Cardinality({y \in told : y.place < x.place})
    BY <1>1, FS_CardinalityType
  <1>3. n < MaxNamed
    BY <1>2
  <1>4. n < MaxEvents
    BY <1>3, MarketAssumption
  <1> QED  BY <1>2, <1>4

LEMMA FirstIsTold ==
    ASSUME NEW told, NEW n
    PROVE  First(told, n) \subseteq {x.id : x \in told}
  BY DEF First

LEMMA NothingTold == First({}, MaxNamed) = {}
  BY DEF First

\* What a sync tells and what it stores.
LEMMA SyncTells ==
    ASSUME TypeOK, Sync, NEW t \in Tracker
    PROVE  /\ inbox' = Nothing \/ inbox' \in [Tracker -> SUBSET Id]
           /\ Named(t)' \subseteq inbox'[t]
           /\ inbox'[t] \subseteq {x.id : x \in alerts'[t].new \cup alerts'[t].drops}
  <1>1. CASE fetch = "baseline"
    <2>1. alerts' = NoAlerts /\ inbox' = Nothing
      BY <1>1 DEF Sync
    <2>2. alerts'[t].new = {} /\ alerts'[t].drops = {} /\ inbox'[t] = {}
      BY <2>1 DEF NoAlerts, Nothing
    <2>3. Named(t)' = {}
      BY <2>2, NothingTold DEF Named
    <2> QED  BY <2>1, <2>2, <2>3
  <1>2. CASE fetch # "baseline"
    <2>1. PICK window :
             /\ alerts' = [u \in Tracker |-> [new |-> ToldNew(u, Silent(window)),
                                             drops |-> ToldDrops(u)]]
             /\ inbox' = [u \in Tracker |-> Events(u, Silent(window))]
      BY <1>2 DEF Sync
    <2>2. alerts'[t].new = ToldNew(t, Silent(window)) /\ alerts'[t].drops = ToldDrops(t)
      BY <2>1
    <2>3. \A u \in Tracker :
             /\ IsFiniteSet(ToldNew(u, Silent(window)))
             /\ \A x \in ToldNew(u, Silent(window)) : x.id \in Id
             /\ IsFiniteSet(ToldDrops(u))
             /\ \A x \in ToldDrops(u) : x.id \in Id
      <3>1. FreshPlaces(Silent(window)) \in SUBSET DOMAIN sample
        BY DEF FreshPlaces
      <3>2. DropPlaces \in SUBSET DOMAIN sample
        BY DEF DropPlaces
      <3> QED  BY <3>1, <3>2, ToldTypes DEF ToldNew, ToldDrops
    <2>4. PICK new : new = ToldNew(t, Silent(window))
      OBVIOUS
    <2>5. PICK drops : drops = ToldDrops(t)
      OBVIOUS
    <2>6. inbox'[t] = First(new, MaxEvents) \cup First(drops, MaxEvents)
      BY <2>1, <2>4, <2>5 DEF Events
    <2>7. Named(t)' = First(new, MaxNamed) \cup First(drops, MaxNamed)
      BY <2>2, <2>4, <2>5 DEF Named
    <2>8. Named(t)' \subseteq inbox'[t]
      <3>1. First(new, MaxNamed) \subseteq First(new, MaxEvents)
        BY <2>3, <2>4, FirstGrows
      <3>2. First(drops, MaxNamed) \subseteq First(drops, MaxEvents)
        BY <2>3, <2>5, FirstGrows
      <3> QED  BY <2>6, <2>7, <3>1, <3>2
    <2>9. inbox'[t] \subseteq {x.id : x \in alerts'[t].new \cup alerts'[t].drops}
      <3>1. First(new, MaxEvents) \subseteq {x.id : x \in new}
        BY FirstIsTold
      <3>2. First(drops, MaxEvents) \subseteq {x.id : x \in drops}
        BY FirstIsTold
      <3> QED  BY <2>2, <2>4, <2>5, <2>6, <3>1, <3>2
    <2>10. inbox' \in [Tracker -> SUBSET Id]
      <3>1. ASSUME NEW u \in Tracker PROVE Events(u, Silent(window)) \subseteq Id
        <4>1. First(ToldNew(u, Silent(window)), MaxEvents) \subseteq Id
          BY <2>3, FirstIsTold
        <4>2. First(ToldDrops(u), MaxEvents) \subseteq Id
          BY <2>3, FirstIsTold
        <4> QED  BY <4>1, <4>2 DEF Events
      <3> QED  BY <2>1, <3>1
    <2> QED  BY <2>8, <2>9, <2>10
  <1> QED  BY <1>1, <1>2

-----------------------------------------------------------------------------
(* Snapshots and samples. *)

\* Statistics on their way to the snapshot count what their sample holds.
SnapshotInv ==
    /\ \A s \in pending : s.count <= s.total
    /\ snapshot = {} \/ \E s \in Snapshots : snapshot = {s}
    /\ recorded \subseteq Nat
    /\ SnapshotIsFullest

LEMMA AnswerIs ==
    ASSUME TypeOK, SampleInv, NEW truncated \in BOOLEAN, Answer(truncated, MaxSample)
    PROVE  \E new \in Snapshots : pending' = pending \cup {new} /\ new.count <= new.total
  <1>1. sample \in Seq(Listing)
    BY DEF TypeOK
  <1>2. PICK strict \in BOOLEAN : strict = FALSE
    OBVIOUS
  <1>3. PICK dataset : dataset = Dataset(sample, Query.words, strict, truncated, MaxSample)
    OBVIOUS
  <1>4. PICK matching : matching = ApplySearchMode(sample, Query.words, strict)
    OBVIOUS
  <1>5. matching = sample
    BY <1>2, <1>4 DEF ApplySearchMode
  <1>6. dataset.ads = sample
    <2>1. dataset.ads = matching
      BY <1>1, <1>3, <1>4, ListingsHaveIds, DatasetIs
    <2> QED  BY <1>5, <2>1
  <1>7. PICK len \in Nat : len = Len(sample) /\ len <= MaxSample
    BY <1>1 DEF SampleInv
  <1>8. dataset.total \in Nat /\ dataset.total <= MaxSample
    <2>1. dataset.total = IF truncated /\ ~strict THEN Max({MaxSample, len}) ELSE len
      BY <1>3, <1>4, <1>5, <1>7 DEF Dataset
    <2>2. Max({MaxSample, len}) = IF MaxSample >= len THEN MaxSample ELSE len
      BY MarketAssumption, OfTwo
    <2> QED  BY <1>7, <2>1, <2>2, MarketAssumption
  <1>9. PICK st : st = Stats(Prices(sample))
    OBVIOUS
  <1>10. /\ PriceList(Prices(sample))
         /\ Count(Prices(sample)) <= Len(sample)
    BY <1>1, PricesAreListed
  <1>11. Sound(st) /\ st.count <= Count(Prices(sample))
    BY <1>9, <1>10, StatsFacts
  <1>12. PICK priced \in Nat : priced = Count(Prices(sample))
    BY <1>10, Counts
  <1>13. PICK count \in Nat : count = st.count
    BY <1>11 DEF Sound
  <1>14. count <= MaxSample
    BY <1>7, <1>10, <1>11, <1>12, <1>13, MarketAssumption
  <1>15. PICK total \in Nat : total = dataset.total /\ total <= MaxSample
    BY <1>8
  <1>16. Max({total, count}) = IF total >= count THEN total ELSE count
    BY OfTwo
  <1>17. Max({total, count}) \in 0 .. MaxSample /\ count <= Max({total, count})
    BY <1>14, <1>15, <1>16, MarketAssumption
  <1> DEFINE new == [count |-> count, median |-> st.median, total |-> Max({total, count})]
  <1>18. st.median \in 0 .. 4 * MaxPrice
    BY <1>11 DEF Sound
  <1>19. count \in 0 .. MaxSample
    BY <1>14, MarketAssumption
  <1>20. new \in Snapshots /\ new.count <= new.total
    BY <1>17, <1>18, <1>19 DEF Snapshots
  <1>21. Dataset(sample, Query.words, FALSE, truncated, MaxSample) = dataset
    BY <1>2, <1>3, Zenon
  <1>22. pending' = pending \cup {new}
    BY <1>6, <1>9, <1>13, <1>15, <1>21 DEF Answer
  <1> QED  BY <1>20, <1>22

LEMMA AnswerSnapshot ==
    ASSUME TypeOK, SampleInv, SnapshotInv, NEW truncated \in BOOLEAN, Answer(truncated, MaxSample)
    PROVE  SnapshotInv'
  <1>1. PICK new \in Snapshots : pending' = pending \cup {new} /\ new.count <= new.total
    BY AnswerIs
  <1>2. snapshot' = snapshot /\ recorded' = recorded
    BY DEF Answer
  <1>3. SnapshotIsFullest'
    BY <1>1, <1>2 DEF SnapshotInv, SnapshotIsFullest
  <1> QED  BY <1>1, <1>2, <1>3 DEF SnapshotInv

\* Whichever order requests commit in, the fullest statistics of the hour stay.
LEMMA RecordSnapshot ==
    ASSUME SnapshotInv, NEW new \in pending, NEW fails \in BOOLEAN, Record(new, fails)
    PROVE  SnapshotInv'
  <1> USE DEF SnapshotInv
  <1>1. pending' = pending \ {new}
    BY DEF Record
  <1>2. new \in Snapshots /\ new.count <= new.total
    BY DEF SnapshotIsFullest
  <1>3. PICK n \in Nat : n = new.count
    BY <1>2, MarketAssumption DEF Snapshots
  <1>4. CASE fails \/ n = 0
    <2>1. snapshot' = snapshot /\ recorded' = recorded
      BY <1>3, <1>4 DEF Record, Upserted
    <2>2. SnapshotIsFullest'
      BY <1>1, <2>1 DEF SnapshotIsFullest
    <2> QED  BY <1>1, <2>1, <2>2
  <1>5. CASE ~fails /\ n # 0
    <2>1. snapshot' = Upserted(new) /\ recorded' = recorded \cup {n}
      BY <1>3, <1>5 DEF Record
    <2>2. recorded' \subseteq Nat
      BY <2>1
    <2>3. CASE \E old \in snapshot : old.count > n
      <3>1. PICK old \in Snapshots : snapshot = {old} /\ old.count > n
        BY <2>3
      <3>2. snapshot' = {old}
        BY <1>3, <2>1, <3>1 DEF Upserted
      <3>3. PICK o \in Nat : o = old.count
        BY MarketAssumption DEF Snapshots
      <3>4. o \in recorded /\ o \in 1 .. old.total /\ \A count \in recorded : count <= o
        BY <3>1, <3>3 DEF SnapshotIsFullest
      <3>5. n <= o
        BY <3>1, <3>3
      <3>6. SnapshotIsFullest'
        <4>1. (snapshot \cup pending)' \subseteq Snapshots /\ Cardinality(snapshot') <= 1
          BY <1>1, <3>1, <3>2 DEF SnapshotIsFullest
        <4>2. \A count \in recorded' : count <= o
          BY <2>1, <3>4, <3>5
        <4>3. o \in recorded' /\ snapshot' # {}
          BY <2>1, <3>2, <3>4
        <4> QED  BY <3>2, <3>3, <3>4, <4>1, <4>2, <4>3 DEF SnapshotIsFullest
      <3> QED  BY <1>1, <2>2, <3>2, <3>6
    <2>4. CASE ~\E old \in snapshot : old.count > n
      <3>1. snapshot' = {new}
        BY <1>3, <1>5, <2>1, <2>4 DEF Upserted
      <3>2. \A count \in recorded : count <= n
        <4>1. CASE snapshot = {}
          BY <4>1 DEF SnapshotIsFullest
        <4>2. CASE snapshot # {}
          <5>1. PICK old \in Snapshots : snapshot = {old}
            BY <4>2
          <5>2. PICK o \in Nat : o = old.count
            BY MarketAssumption DEF Snapshots
          <5>3. ~(o > n) /\ \A count \in recorded : count <= o
            BY <2>4, <5>1, <5>2 DEF SnapshotIsFullest
          <5> QED  BY <5>3
        <4> QED  BY <4>1, <4>2
      <3>3. \A count \in recorded' : count <= n
        BY <2>1, <3>2
      <3>4. PICK total \in Nat : total = new.total
        BY <1>2, MarketAssumption DEF Snapshots
      <3>5. n \in 1 .. total
        BY <1>2, <1>3, <1>5, <3>4
      <3>6. Cardinality(snapshot') <= 1
        <4>1. Cardinality({new}) = 1
          BY FS_Singleton
        <4> QED  BY <3>1, <4>1
      <3>7. (snapshot \cup pending)' \subseteq Snapshots
        BY <1>1, <1>2, <3>1 DEF SnapshotIsFullest
      <3>8. n \in recorded' /\ snapshot' # {}
        BY <2>1, <3>1
      <3>9. SnapshotIsFullest'
        BY <1>3, <3>1, <3>3, <3>4, <3>5, <3>6, <3>7, <3>8 DEF SnapshotIsFullest
      <3> QED  BY <1>1, <1>2, <2>2, <3>1, <3>9
    <2> QED  BY <2>3, <2>4
  <1> QED  BY <1>4, <1>5

LEMMA NextHourSnapshot == SnapshotInv /\ NextHour => SnapshotInv'
  <1> SUFFICES ASSUME SnapshotInv, NextHour PROVE SnapshotInv'
    OBVIOUS
  <1>1. snapshot' = {} /\ recorded' = {} /\ pending' = pending
    BY DEF NextHour
  <1>2. Cardinality({}) <= 1
    BY FS_EmptySet
  <1>3. SnapshotIsFullest'
    BY <1>1, <1>2 DEF SnapshotInv, SnapshotIsFullest
  <1> QED  BY <1>1, <1>3 DEF SnapshotInv

LEMMA SameSnapshot == SnapshotInv /\ UNCHANGED <<pending, snapshot, recorded>> => SnapshotInv'
  BY DEF SnapshotInv, SnapshotIsFullest

LEMMA EmptySample == sample' = <<>> => SampleInv'
  <1> SUFFICES ASSUME sample' = <<>> PROVE SampleInv'
    OBVIOUS
  <1>1. Len(<<>>) = 0 /\ DOMAIN <<>> = {}
    OBVIOUS
  <1> QED  BY <1>1, MarketAssumption DEF SampleInv

LEMMA ArriveSample == TypeOK /\ SampleInv /\ Arrive => SampleInv'
  <1> SUFFICES ASSUME TypeOK, SampleInv, Arrive PROVE SampleInv'
    OBVIOUS
  <1>1. sample \in Seq(Listing)
    BY DEF TypeOK
  <1>2. PICK n \in Nat : n = Len(sample) /\ DOMAIN sample = 1 .. n
    BY <1>1
  <1>3. n < MaxSample
    BY <1>2, MarketAssumption DEF Arrive
  <1>4. PICK ad : ad.id \notin IdsOf(sample) /\ sample' = Append(sample, ad)
    BY DEF Arrive
  <1>5. /\ Len(sample') = n + 1 /\ DOMAIN sample' = 1 .. n + 1
        /\ sample'[n + 1] = ad /\ \A i \in 1 .. n : sample'[i] = sample[i]
    BY <1>1, <1>2, <1>4
  <1>6. \A i \in 1 .. n : sample[i].id # ad.id
    BY <1>2, <1>4 DEF IdsOf, ToSet
  <1>7. \A i, j \in 1 .. n + 1 : sample'[i].id = sample'[j].id => i = j
    <2> SUFFICES ASSUME NEW i \in 1 .. n + 1, NEW j \in 1 .. n + 1, sample'[i].id = sample'[j].id
                 PROVE  i = j
      OBVIOUS
    <2>1. (i = n + 1 \/ i \in 1 .. n) /\ (j = n + 1 \/ j \in 1 .. n)
      OBVIOUS
    <2>2. \A k, l \in 1 .. n : sample[k].id = sample[l].id => k = l
      BY <1>2 DEF SampleInv
    <2> QED  BY <1>5, <1>6, <2>1, <2>2
  <1>8. n + 1 <= MaxSample
    BY <1>3, MarketAssumption
  <1> QED  BY <1>5, <1>7, <1>8 DEF SampleInv

-----------------------------------------------------------------------------
(* The steps of the collector. *)

\* A row with a price was seen, and its price never rises above the one its silent
\* fall is counted from; where there is such a price, the row has one too.
PriceInv == \A i \in Id :
    /\ row[i].price # 0 => row[i].known /\ row[i].price <= before[i]
    /\ before[i] # 0 => row[i].price # 0

IInv ==
    /\ TypeOK /\ SampleInv
    /\ PriceInv /\ ActiveIsLatest /\ SilentFallBounded
    /\ AlertMatchesInbox
    /\ SnapshotInv

\* A sync starts every silent fall anew, counts one more step of it, or leaves it alone.
LEMMA SyncFall ==
    ASSUME TypeOK, PriceInv, SilentFallBounded, Sync, NEW i \in Id
    PROVE  /\ row'[i] \in Row
           /\ before'[i] \in 0 .. MaxPrice /\ quiet'[i] \in 0 .. MaxQuiet
           /\ row'[i].price # 0 => row'[i].known /\ row'[i].price <= before'[i]
           /\ before'[i] # 0 => row'[i].price # 0
           /\ before'[i] # 0 /\ quiet'[i] < MaxQuiet =>
                 before'[i] - row'[i].price <= quiet'[i] * SilentStep(before'[i])
           /\ row'[i].active <=> i \in SyncedIds
  <1>1. row[i] \in Row /\ before[i] \in 0 .. MaxPrice /\ quiet[i] \in 0 .. MaxQuiet
    BY DEF TypeOK
  <1>2. MaxPrice \in Nat /\ MaxQuiet \in Nat
    BY PricingAssumption, MarketAssumption
  <1>3. /\ before'[i] = IF i \in SyncedIds /\ Restarted(i) THEN row'[i].price ELSE before[i]
        /\ quiet'[i] = IF i \notin SyncedIds THEN quiet[i]
                       ELSE IF Restarted(i) THEN 0 ELSE AtMost(quiet[i] + 1, MaxQuiet)
    BY DEF Sync
  <1>4. CASE i \notin SyncedIds
    <2>1. row'[i] = [row[i] EXCEPT !.active = FALSE]
      BY <1>4, SyncedRow
    <2>2. /\ row'[i] \in Row /\ ~row'[i].active
          /\ row'[i].price = row[i].price /\ row'[i].known = row[i].known
      BY <1>1, <2>1 DEF Row
    <2>3. before'[i] = before[i] /\ quiet'[i] = quiet[i]
      BY <1>3, <1>4
    <2>4. /\ row'[i].price # 0 => row'[i].known /\ row'[i].price <= before'[i]
          /\ before'[i] # 0 => row'[i].price # 0
      BY <2>2, <2>3 DEF PriceInv
    <2>5. before'[i] # 0 /\ quiet'[i] < MaxQuiet =>
             before'[i] - row'[i].price <= quiet'[i] * SilentStep(before'[i])
      BY <2>2, <2>3 DEF SilentFallBounded
    <2> QED  BY <1>1, <1>4, <2>2, <2>3, <2>4, <2>5
  <1>5. CASE i \in SyncedIds
    <2>1. PICK ad \in ToSet(sample) :
             ad.id = i /\ row'[i] = [known |-> TRUE, active |-> TRUE, price |-> PriceOf(ad)]
      BY <1>5, SyncedRow
    <2>2. PICK q \in 0 .. MaxPrice : q = PriceOf(ad)
      BY PriceTypes
    <2>3. row'[i] \in Row /\ row'[i].known /\ row'[i].active /\ row'[i].price = q
      BY <2>1, <2>2 DEF Row
    <2>4. CASE Restarted(i)
      <3>1. before'[i] = q /\ quiet'[i] = 0
        BY <1>3, <1>5, <2>3, <2>4
      <3>2. PICK s \in Nat : s = SilentStep(q)
        BY <2>2, SilentSteps
      <3>3. q - q <= 0 * s
        BY <2>2
      <3>4. before'[i] - row'[i].price <= quiet'[i] * SilentStep(before'[i])
        BY <2>3, <3>1, <3>2, <3>3
      <3>5. q <= q /\ 0 \in 0 .. MaxQuiet
        BY <1>2
      <3> QED  BY <1>5, <2>2, <2>3, <3>1, <3>4, <3>5
    <2>5. CASE ~Restarted(i)
      <3>1. before'[i] = before[i] /\ quiet'[i] = AtMost(quiet[i] + 1, MaxQuiet)
        BY <1>3, <1>5, <2>5
      <3>2. q # 0 /\ q <= before[i] /\ ~Dropped(ad) /\ before[i] # 0 /\ row[i].price # 0
        <4>1. ~(q > before[i]) /\ q # 0
          BY <2>3, <2>5 DEF Restarted, Unpriced
        <4>2. ~Dropped(ad)
          BY <2>1, <2>5 DEF Restarted
        <4>3. before[i] # 0
          BY <1>1, <2>2, <4>1
        <4> QED  BY <1>1, <2>2, <4>1, <4>2, <4>3 DEF PriceInv
      <3>3. quiet'[i] \in 0 .. MaxQuiet
        BY <1>1, <1>2, <3>1 DEF AtMost
      <3>4. ASSUME quiet'[i] < MaxQuiet
            PROVE  before[i] - q <= quiet'[i] * SilentStep(before[i])
        <4>1. quiet'[i] = quiet[i] + 1 /\ quiet[i] < MaxQuiet
          BY <1>1, <1>2, <3>1, <3>4 DEF AtMost
        <4>2. PICK from \in Nat : from = before[i]
          BY <1>1, <1>2
        <4>3. PICK p \in 0 .. MaxPrice : p = row[i].price
          BY <1>1 DEF Row
        <4>4. PICK n \in Nat : n = quiet[i]
          BY <1>1
        <4>5. from - p <= n * SilentStep(from)
          BY <3>2, <4>1, <4>2, <4>3, <4>4 DEF SilentFallBounded
        <4>6. row[i].known /\ p \in 0 .. from
          BY <3>2, <4>2, <4>3 DEF PriceInv
        <4>7. HasPrice(ad) /\ ad.price = q
          BY <2>2, <3>2, PriceTypes
        <4>8. ~Significant(p, q)
          <5>1. row[ad.id] = row[i]
            BY <2>1
          <5> QED  BY <3>2, <4>3, <4>6, <4>7, <5>1 DEF Dropped
        <4>9. q \in 0 .. from
          BY <3>2, <4>2
        <4>10. from - q <= (n + 1) * SilentStep(from)
          BY <4>5, <4>6, <4>8, <4>9, OneMoreStep
        <4> QED  BY <4>1, <4>2, <4>4, <4>10
      <3>5. row'[i].known /\ row'[i].price <= before'[i] /\ row'[i].price # 0
        BY <2>3, <3>1, <3>2
      <3>6. before'[i] # 0 /\ quiet'[i] < MaxQuiet =>
               before'[i] - row'[i].price <= quiet'[i] * SilentStep(before'[i])
        BY <2>3, <3>1, <3>4
      <3>7. before'[i] \in 0 .. MaxPrice
        BY <1>1, <3>1
      <3> QED  BY <1>5, <2>3, <3>3, <3>5, <3>6, <3>7
    <2> QED  BY <2>4, <2>5
  <1> QED  BY <1>4, <1>5

LEMMA SyncStep == IInv /\ Sync => IInv'
  <1> SUFFICES ASSUME IInv, Sync PROVE IInv'
    OBVIOUS
  <1> USE DEF IInv
  <1>1. TypeOK'
    <2>1. fetch' = "none" /\ sample' = <<>>
      BY DEF Sync
    <2>2. row' \in [Id \cup {Marker} -> Row]
      <3>1. DOMAIN row = Id \cup {Marker}
        BY DEF TypeOK
      <3>2. \A i \in Id \cup {Marker} : row'[i] \in Row
        BY SyncFall, MarkerRow
      <3>3. row' = [i \in Id \cup {Marker} |-> row'[i]]
        BY <3>1 DEF Sync
      <3> QED  BY <3>2, <3>3
    <2>3. inbox' \in [Tracker -> SUBSET Id]
      <3>1. Nothing \in [Tracker -> SUBSET Id]
        BY DEF Nothing
      <3>2. CASE Tracker = {}
        <4>1. PICK f : inbox' = [u \in Tracker |-> f[u]]
          BY DEF Sync, Nothing
        <4> QED  BY <3>2, <4>1
      <3>3. CASE Tracker # {}
        BY <3>1, <3>3, SyncTells
      <3> QED  BY <3>2, <3>3
    <2>4. latest' \subseteq Id
      <3>1. latest' = SyncedIds
        BY DEF Sync
      <3> QED  BY <3>1, SampleIds DEF SyncedIds, IdsOf
    <2>5. before' \in [Id -> 0 .. MaxPrice] /\ quiet' \in [Id -> 0 .. MaxQuiet]
      <3>1. before' = [i \in Id |-> before'[i]] /\ quiet' = [i \in Id |-> quiet'[i]]
        BY DEF Sync
      <3>2. \A i \in Id : before'[i] \in 0 .. MaxPrice /\ quiet'[i] \in 0 .. MaxQuiet
        BY SyncFall
      <3> QED  BY <3>1, <3>2
    <2>6. <<>> \in Seq(Listing)
      OBVIOUS
    <2> QED  BY <2>1, <2>2, <2>3, <2>4, <2>5, <2>6 DEF TypeOK
  <1>2. PriceInv'
    BY SyncFall DEF PriceInv
  <1>3. ActiveIsLatest'
    <2>1. DOMAIN row' = Id \cup {Marker}
      BY <1>1 DEF TypeOK
    <2>2. latest' = SyncedIds /\ SyncedIds \subseteq Id /\ Marker \notin SyncedIds
      BY SampleIds DEF Sync, SyncedIds, IdsOf
    <2>3. \A i \in Id \cup {Marker} : row'[i].active <=> i \in SyncedIds
      BY <2>2, SyncFall, MarkerRow
    <2> QED  BY <1>1, <2>1, <2>2, <2>3 DEF ActiveIsLatest
  <1>4. SilentFallBounded'
    BY SyncFall DEF SilentFallBounded
  <1>5. AlertMatchesInbox'
    BY SyncTells DEF AlertMatchesInbox
  <1>6. SampleInv'
    BY EmptySample DEF Sync
  <1>7. SnapshotInv'
    BY SameSnapshot DEF Sync, hourly
  <1> QED  BY <1>1, <1>2, <1>3, <1>4, <1>5, <1>6, <1>7

LEMMA CleanupStep == ASSUME NEW i \in DOMAIN row PROVE IInv /\ Cleanup(i) => IInv'
  <1> SUFFICES ASSUME IInv, Cleanup(i) PROVE IInv'
    OBVIOUS
  <1> USE DEF IInv
  <1>1. i \in Id \cup {Marker} /\ DOMAIN row = Id \cup {Marker}
    BY DEF TypeOK
  <1>2. NoRow \in Row /\ ~NoRow.active /\ NoRow.price = 0
    BY PricingAssumption DEF NoRow, Row
  <1>3. row' \in [Id \cup {Marker} -> Row]
    BY <1>2 DEF TypeOK, Cleanup
  <1>4. /\ row'[i] = NoRow
        /\ \A j \in Id \cup {Marker} : j # i => row'[j] = row[j]
    BY <1>1 DEF TypeOK, Cleanup
  <1>5. \A j \in Id : IF j = i THEN before'[j] = 0
                      ELSE before'[j] = before[j] /\ quiet'[j] = quiet[j]
    BY DEF Cleanup
  <1>6. TypeOK'
    <2>1. 0 \in 0 .. MaxPrice /\ 0 \in 0 .. MaxQuiet
      BY PricingAssumption, MarketAssumption
    <2>2. before' \in [Id -> 0 .. MaxPrice] /\ quiet' \in [Id -> 0 .. MaxQuiet]
      BY <2>1 DEF Cleanup, TypeOK
    <2> QED  BY <1>3, <2>2 DEF Cleanup, TypeOK
  <1>7. PriceInv'
    BY <1>2, <1>4, <1>5 DEF PriceInv
  <1>8. ActiveIsLatest'
    <2>1. DOMAIN row' = Id \cup {Marker}
      BY <1>3
    <2>2. \A j \in Id \cup {Marker} : row'[j].active <=> j \in latest'
      BY <1>1, <1>2, <1>4 DEF Cleanup, ActiveIsLatest
    <2>3. latest' \subseteq Id
      BY DEF Cleanup, TypeOK
    <2> QED  BY <1>6, <2>1, <2>2, <2>3 DEF ActiveIsLatest
  <1>9. SilentFallBounded'
    BY <1>2, <1>4, <1>5 DEF SilentFallBounded
  <1>10. AlertMatchesInbox'
    BY DEF Cleanup, AlertMatchesInbox, Named
  <1>11. SampleInv'
    BY DEF Cleanup, SampleInv
  <1>12. SnapshotInv'
    BY SameSnapshot DEF Cleanup, hourly
  <1> QED  BY <1>6, <1>7, <1>8, <1>9, <1>10, <1>11, <1>12

\* Other steps do not touch what is remembered, and tell nothing.
LEMMA OtherSteps ==
    ASSUME IInv, TypeOK', SampleInv', SnapshotInv', UNCHANGED <<row, history>>,
           UNCHANGED <<alerts, inbox>> \/ (alerts' = NoAlerts /\ inbox' = Nothing)
    PROVE  IInv'
  <1> USE DEF IInv, history
  <1>1. PriceInv'
    BY DEF PriceInv
  <1>2. ActiveIsLatest'
    BY DEF ActiveIsLatest
  <1>3. SilentFallBounded'
    BY DEF SilentFallBounded
  <1>4. AlertMatchesInbox'
    <2>1. CASE UNCHANGED <<alerts, inbox>>
      BY <2>1 DEF AlertMatchesInbox, Named
    <2>2. CASE alerts' = NoAlerts /\ inbox' = Nothing
      <3> SUFFICES ASSUME NEW t \in Tracker
                   PROVE  /\ Named(t)' \subseteq inbox'[t]
                          /\ inbox'[t] \subseteq {x.id : x \in alerts'[t].new \cup alerts'[t].drops}
        BY DEF AlertMatchesInbox
      <3>1. alerts'[t].new = {} /\ alerts'[t].drops = {} /\ inbox'[t] = {}
        BY <2>2 DEF NoAlerts, Nothing
      <3>2. Named(t)' = {}
        BY <3>1, NothingTold DEF Named
      <3> QED  BY <3>1, <3>2
    <2> QED  BY <2>1, <2>2
  <1> QED  BY <1>1, <1>2, <1>3, <1>4

-----------------------------------------------------------------------------

LEMMA ArrivalIsListing ==
    ASSUME NEW n \in 1 .. MaxSample, NEW first \in BOOLEAN, NEW ad \in Arrival(n, first)
    PROVE  ad \in Listing
  <1>1. ad \in Arrival(n, TRUE) \cup Arrival(n, FALSE)
    <2>1. CASE first = TRUE
      BY <2>1
    <2>2. CASE first = FALSE
      BY <2>2
    <2> QED  BY <2>1, <2>2
  <1>2. Arrival(n, TRUE) \cup Arrival(n, FALSE)
            \in {Arrival(m, TRUE) \cup Arrival(m, FALSE) : m \in 1 .. MaxSample}
    OBVIOUS
  <1>3. Arrival(n, TRUE) \cup Arrival(n, FALSE) \subseteq Listing
    BY <1>2 DEF Listing
  <1> QED  BY <1>1, <1>3

LEMMA InitIInv == Init => IInv
  <1> SUFFICES ASSUME Init PROVE IInv
    OBVIOUS
  <1>1. NoRow \in Row /\ ~NoRow.active /\ NoRow.price = 0
    BY PricingAssumption DEF NoRow, Row
  <1>2. 0 \in 0 .. MaxPrice /\ 0 \in 0 .. MaxQuiet
    BY PricingAssumption, MarketAssumption
  <1>3. TypeOK
    BY <1>1, <1>2 DEF Init, TypeOK, Nothing
  <1>4. PriceInv
    BY <1>1 DEF Init, PriceInv
  <1>5. ActiveIsLatest
    BY <1>1, <1>3 DEF Init, ActiveIsLatest
  <1>6. SilentFallBounded
    BY <1>1 DEF Init, SilentFallBounded
  <1>7. AlertMatchesInbox
    <2> SUFFICES ASSUME NEW t \in Tracker
                 PROVE  /\ Named(t) \subseteq inbox[t]
                        /\ inbox[t] \subseteq {x.id : x \in alerts[t].new \cup alerts[t].drops}
      BY DEF AlertMatchesInbox
    <2>1. alerts[t].new = {} /\ alerts[t].drops = {} /\ inbox[t] = {}
      BY DEF Init, NoAlerts, Nothing
    <2>2. Named(t) = {}
      BY <2>1, NothingTold DEF Named
    <2> QED  BY <2>1, <2>2
  <1>8. SampleInv
    <2>1. sample = <<>>
      BY DEF Init
    <2> QED  BY <2>1, MarketAssumption DEF SampleInv
  <1>9. SnapshotInv
    <2>1. pending = {} /\ snapshot = {} /\ recorded = {}
      BY DEF Init
    <2>2. Cardinality({}) <= 1
      BY FS_EmptySet
    <2> QED  BY <2>1, <2>2 DEF SnapshotInv, SnapshotIsFullest
  <1> QED  BY <1>3, <1>4, <1>5, <1>6, <1>7, <1>8, <1>9 DEF IInv

LEMMA StepIInv == IInv /\ [Next]_vars => IInv'
  <1> SUFFICES ASSUME IInv, [Next]_vars PROVE IInv'
    OBVIOUS
  <1> USE DEF rows, history, hourly
  <1>1. TypeOK /\ SampleInv /\ SnapshotInv
    BY DEF IInv
  <1>2. CASE StartCheck \/ StartScan
    <2>1. Nothing \in [Tracker -> SUBSET Id]
      BY DEF Nothing
    <2>2. fetch' \in {"baseline", "regular", "deep", "scan"}
      BY <1>2 DEF StartCheck, StartScan
    <2>3. TypeOK'
      BY <1>1, <1>2, <2>1, <2>2 DEF StartCheck, StartScan, TypeOK
    <2>4. SampleInv'
      BY <1>1, <1>2 DEF StartCheck, StartScan, SampleInv
    <2>5. SnapshotInv'
      BY <1>1, <1>2, SameSnapshot DEF StartCheck, StartScan
    <2> QED  BY <1>2, <2>3, <2>4, <2>5, OtherSteps DEF StartCheck, StartScan
  <1>3. CASE Arrive
    <2>1. PICK ad \in Arrival(Len(sample) + 1, fetch = "baseline") : sample' = Append(sample, ad)
      BY <1>3 DEF Arrive
    <2>2. Len(sample) + 1 \in 1 .. MaxSample
      <3>1. PICK n \in Nat : n = Len(sample)
        BY <1>1, SamplePlaces
      <3>2. n < MaxSample
        <4>1. n < MaxSample \/ n < SyncSample
          BY <1>3, <3>1 DEF Arrive
        <4>2. MaxSample \in Nat /\ SyncSample \in 0 .. MaxSample
          BY MarketAssumption
        <4> QED  BY <4>1, <4>2
      <3> QED  BY <3>1, <3>2, MarketAssumption
    <2>3. ad \in Listing
      <3>1. PICK n \in 1 .. MaxSample : n = Len(sample) + 1
        BY <2>2
      <3>2. PICK first \in BOOLEAN : first <=> fetch = "baseline"
        OBVIOUS
      <3>3. first = (fetch = "baseline")
        BY <3>2, Zenon
      <3>4. ad \in Arrival(n, first)
        BY <2>1, <3>1, <3>3, Zenon
      <3> QED  BY <3>4, ArrivalIsListing
    <2>4. sample' \in Seq(Listing)
      BY <1>1, <2>1, <2>3 DEF TypeOK
    <2>5. TypeOK'
      BY <1>1, <1>3, <2>4 DEF Arrive, TypeOK
    <2>6. SampleInv'
      BY <1>1, <1>3, ArriveSample
    <2>7. SnapshotInv'
      BY <1>1, <1>3, SameSnapshot DEF Arrive
    <2> QED  BY <1>3, <2>5, <2>6, <2>7, OtherSteps DEF Arrive
  <1>4. CASE Abandon
    <2>1. TypeOK'
      BY <1>1, <1>4 DEF Abandon, TypeOK
    <2>2. SampleInv'
      BY <1>4, EmptySample DEF Abandon
    <2>3. SnapshotInv'
      BY <1>1, <1>4, SameSnapshot DEF Abandon
    <2> QED  BY <1>4, <2>1, <2>2, <2>3, OtherSteps DEF Abandon
  <1>5. CASE Sync
    BY <1>5, SyncStep
  <1>6. CASE \E i \in DOMAIN row : Cleanup(i)
    BY <1>6, CleanupStep
  <1>7. CASE \E truncated \in BOOLEAN : Answer(truncated, MaxSample)
    <2>1. fetch' = "none" /\ sample' = <<>> /\ UNCHANGED <<row, alerts, inbox, latest, before, quiet>>
      BY <1>7 DEF Answer
    <2>2. TypeOK'
      BY <1>1, <2>1 DEF TypeOK
    <2>3. SampleInv'
      BY <2>1, EmptySample
    <2>4. SnapshotInv'
      BY <1>1, <1>7, AnswerSnapshot
    <2> QED  BY <2>1, <2>2, <2>3, <2>4, OtherSteps
  <1>8. CASE \E new \in pending, fails \in BOOLEAN : Record(new, fails)
    <2>1. UNCHANGED <<fetch, sample, row, alerts, inbox, latest, before, quiet>>
      BY <1>8 DEF Record
    <2>2. TypeOK'
      BY <1>1, <2>1 DEF TypeOK
    <2>3. SampleInv'
      BY <1>1, <2>1 DEF SampleInv
    <2>4. SnapshotInv'
      BY <1>1, <1>8, RecordSnapshot
    <2> QED  BY <2>1, <2>2, <2>3, <2>4, OtherSteps
  <1>9. CASE NextHour
    <2>1. TypeOK'
      BY <1>1, <1>9 DEF NextHour, TypeOK
    <2>2. SampleInv'
      BY <1>1, <1>9 DEF NextHour, SampleInv
    <2>3. SnapshotInv'
      BY <1>1, <1>9, NextHourSnapshot
    <2> QED  BY <1>9, <2>1, <2>2, <2>3, OtherSteps DEF NextHour
  <1>10. CASE UNCHANGED vars
    <2>1. TypeOK'
      BY <1>1, <1>10 DEF vars, TypeOK
    <2>2. SampleInv'
      BY <1>1, <1>10 DEF vars, SampleInv
    <2>3. SnapshotInv'
      BY <1>1, <1>10, SameSnapshot DEF vars
    <2> QED  BY <1>10, <2>1, <2>2, <2>3, OtherSteps DEF vars
  <1> QED  BY <1>2, <1>3, <1>4, <1>5, <1>6, <1>7, <1>8, <1>9, <1>10 DEF Next

LEMMA Always == Spec => []IInv
  BY InitIInv, StepIInv, PTL DEF Spec

\* The active rows are the listings of the latest sync, whatever vanished, came back or
\* was cleaned up before it (sync_query_listing_states, cleanup_stale_listing_states).
THEOREM ActiveRowsAreLatest == Spec => []ActiveIsLatest
  <1>1. IInv => ActiveIsLatest
    BY DEF IInv
  <1> QED  BY <1>1, Always, PTL

\* A price that every check sees, and that falls in steps too small to be told, falls by
\* no more than the largest such step per check (is_significant_price_drop and the
\* stored price).  A check that sees none ends the count.
THEOREM SilentFallsAreBounded == Spec => []SilentFallBounded
  <1>1. IInv => SilentFallBounded
    BY DEF IInv
  <1> QED  BY <1>1, Always, PTL

\* What an alert names is in the inbox, and what the filter drops is not, whatever the
\* filters and the statistics say (persist_tracker_events, _build_tracker_message).
THEOREM AlertsMatchTheInbox == Spec => []AlertMatchesInbox
  <1>1. IInv => AlertMatchesInbox
    BY DEF IInv
  <1> QED  BY <1>1, Always, PTL

\* The snapshot of an hour was recorded in it, and none was taken from more prices, in
\* whatever order overlapping requests commit (upsert_query_snapshot).
THEOREM SnapshotsAreFullest == Spec => []SnapshotIsFullest
  <1>1. IInv => SnapshotIsFullest
    BY DEF IInv, SnapshotInv
  <1> QED  BY <1>1, Always, PTL

\* "Checks against the resulting stats agree with what the stats excluded"
\* (split_low_outliers): whatever the prices are, and however often the cutoff is
\* computed again, exactly what the statistics leave out is a placeholder to the items.
THEOREM PlaceholdersAlwaysAgree == Spec => []PlaceholdersAgree
  <1>1. IInv => PlaceholdersAgree
    BY PlaceholdersAgreeNow DEF IInv
  <1> QED  BY <1>1, Always, PTL

\* For any discounts users ask for, the listings page, the board, the trackers and the
\* items agree on what a deal is, and every deal of 8% has rising targets above its
\* price (filter_deal_ads, matches_tracker_filters, compute_flip_estimates).
THEOREM DealsAlwaysAgree == Spec => []DealsAgree
  <1>1. IInv => DealsAgree
    BY DealsAgreeNow DEF IInv
  <1> QED  BY <1>1, Always, PTL

\* No page leaves out a listing of a better score, or shows one without a price before
\* one with a price, for any sample, query and page size (_rank_by_deal_score,
\* sort_listings).
THEOREM PagesKeepTheBest == Spec => []PageKeepsBest
  <1>1. IInv => PageKeepsBest
    BY PageKeepsBestNow DEF IInv
  <1> QED  BY <1>1, Always, PTL

-----------------------------------------------------------------------------
(* Reposts. *)

LEMMA SampleIsFinite == ASSUME TypeOK PROVE IsFiniteSet(ToSet(sample))
  <1>1. PICK n \in Nat : DOMAIN sample = 1 .. n
    BY SamplePlaces
  <1> DEFINE at == [i \in 1 .. n |-> sample[i]]
  <1>2. at \in Surjection(1 .. n, ToSet(sample))
    BY <1>1 DEF Surjection, ToSet
  <1>3. IsFiniteSet(1 .. n)
    BY FS_Interval
  <1> HIDE DEF at
  <1> QED  BY <1>2, <1>3, FS_Surjection

LEMMA RepostsAreHiddenNow == TypeOK => RepostsHidden
  <1> SUFFICES ASSUME TypeOK, NEW a \in ToSet(sample)
               PROVE  /\ DuplicateCount(sample, a) > 0 =>
                            \E b \in ToSet(sample) : b # a /\ SameLot(a, b)
                      /\ \A b \in ToSet(sample) : b.id # a.id /\ SameLot(a, b)
                              /\ (HasPrice(a) /\ HasPrice(b) =>
                                      a.price <= b.price /\ 100 * b.price <= 108 * a.price) =>
                            DuplicateCount(sample, b) > 0
    BY DEF RepostsHidden
  <1> DEFINE Like(ad) == {other \in ToSet(sample) :
                 /\ HasId(other) /\ other.id # ad.id /\ SameLot(other, ad)
                 /\ HasPrice(ad) /\ HasPrice(other) =>
                        100 * other.price \in 92 * ad.price .. 108 * ad.price}
  <1>1. \A ad : DuplicateCount(sample, ad) = Cardinality(Like(ad))
    BY DEF DuplicateCount
  <1>2. \A ad : IsFiniteSet(Like(ad))
    BY SampleIsFinite, FS_Subset
  <1>3. ASSUME NEW x, NEW y, SameLot(x, y) PROVE SameLot(y, x)
    BY <1>3 DEF SameLot
  <1>4. ASSUME DuplicateCount(sample, a) > 0
        PROVE  \E b \in ToSet(sample) : b # a /\ SameLot(a, b)
    <2>1. Like(a) # {}
      <3> HIDE DEF Like
      <3> QED  BY <1>1, <1>4, FS_EmptySet
    <2>2. PICK b \in Like(a) : TRUE
      BY <2>1
    <2>3. b \in ToSet(sample) /\ b.id # a.id /\ SameLot(b, a)
      OBVIOUS
    <2> QED  BY <1>3, <2>3
  <1>5. ASSUME NEW b \in ToSet(sample), b.id # a.id, SameLot(a, b),
               HasPrice(a) /\ HasPrice(b) =>
                   a.price <= b.price /\ 100 * b.price <= 108 * a.price
        PROVE  DuplicateCount(sample, b) > 0
    <2>1. a.id \in Id
      BY SampleIds
    <2>2. HasId(a)
      <3>1. a.id \in Nat \ {0}
        BY <2>1, MarketAssumption, Zenon
      <3>2. PICK n \in Nat \ {0} : n = a.id
        BY <3>1, Zenon
      <3>3. n > 0
        OBVIOUS
      <3> QED  BY <3>2, <3>3, Zenon DEF HasId
    <2>3. ASSUME HasPrice(b), HasPrice(a)
          PROVE  100 * a.price \in 92 * b.price .. 108 * b.price
      <3>1. PICK p \in Nat : p = a.price
        BY <2>3, PricingAssumption DEF HasPrice
      <3>2. PICK q \in Nat : q = b.price
        BY <2>3, PricingAssumption DEF HasPrice
      <3>3. p <= q /\ 100 * q <= 108 * p
        BY <1>5, <2>3, <3>1, <3>2
      <3>4. 100 * p \in 92 * q .. 108 * q
        BY <3>3
      <3> QED  BY <3>1, <3>2, <3>4
    <2>4. a \in Like(b)
      BY <1>3, <1>5, <2>2, <2>3
    <2> HIDE DEF Like
    <2>5. PICK n \in Nat : n = Cardinality(Like(b))
      BY <1>2, FS_CardinalityType
    <2>6. n # 0
      BY <1>2, <2>4, <2>5, FS_EmptySet
    <2> QED  BY <1>1, <2>5, <2>6
  <1> QED  BY <1>4, <1>5

\* Of two look-alikes the dearer is never kept where the cheaper is hidden, although
\* each takes the 8% of its own price (duplicate_counts).
THEOREM RepostsAreHidden == Spec => []RepostsHidden
  <1>1. IInv => RepostsHidden
    BY RepostsAreHiddenNow DEF IInv
  <1> QED  BY <1>1, Always, PTL
=============================================================================
