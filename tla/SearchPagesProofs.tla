-------------------------- MODULE SearchPagesProofs --------------------------
(***************************************************************************)
(* The samples of the collector and of a search are complete for any page  *)
(* size, any page limits and any listings that come and go meanwhile.      *)
(***************************************************************************)
EXTENDS SearchPages, FunctionTheorems, FiniteSetTheorems, TLAPS

\* Everything there was when the fetch began, that may be kept and is no older than t.
Wanted(t) == {a \in AtStart \cap matches : a >= t}

Domains ==
    /\ kufar \subseteq 1 .. clock /\ clock \in 0 .. MaxTime
    /\ matches \subseteq Ad /\ since \in Ad \cup {Never} /\ deep \in BOOLEAN
    /\ pages \in Nat /\ ads \subseteq matches /\ silent \subseteq ads
    /\ inWindow \in BOOLEAN /\ window \in 0 .. MaxPages
    /\ step \in {"fetching", "done", "failed"}
    /\ moves \in 0 .. MaxMoves /\ withdrawn \in BOOLEAN
    /\ reader \in {"check", "search"}
    /\ total \in Nat \cup {Unreported} /\ truncated \in BOOLEAN

\* Unless a listing was withdrawn, those of Kufar have no gap, and a listing there was
\* at the start is fetched as soon as enough pages are: the later ones push it down, so
\* that it is met twice rather than never.
CoveredInv == ~withdrawn =>
    /\ kufar = 1 .. clock /\ moves <= clock
    /\ \A a \in AtStart \cap matches : Rank(a) < pages * PageSize => a \in ads

\* While the window is open nothing is silent.
OpenInv == reader = "check" /\ inWindow =>
    /\ silent = {} /\ window = pages /\ pages < MaxPages
    /\ step = "done" /\ ~withdrawn => Wanted(1) \subseteq ads

\* Once it is closed, although not full, a listing since the previous check that was
\* missed is too high up to be met on a page beyond the window: a move takes it down
\* by one place, and there are at most as many as a page has.
ClosedInv == reader = "check" /\ ~inWindow /\ window < MaxPages =>
    /\ 1 <= window /\ window <= pages
    /\ \A a \in silent : a < since
    /\ \A a \in (kufar \cap matches) \ ads :
          a >= since => Rank(a) < (window - 1) * PageSize + moves
    /\ ~withdrawn => Wanted(since) \subseteq ads

\* What a search has fetched, as long as fewer listings than a page were published.
SearchInv == reader = "search" =>
    /\ matches = Ad /\ since = Never /\ silent = {} /\ inWindow /\ window = 0
    /\ pages = 0 => ads = {}
    /\ ~withdrawn /\ moves < PageSize =>
          /\ \A a \in ads : a > clock - moves - pages * PageSize
          /\ total # Unreported => clock - moves <= total /\ ads \subseteq 1 .. total
          /\ step = "done" /\ ~truncated => AtStart \subseteq ads

IInv == Domains /\ CoveredInv /\ OpenInv /\ ClosedInv /\ SearchInv

-----------------------------------------------------------------------------
(* Ranks and pages. *)

RankIn(K, a) == Cardinality({b \in K : b > a})

LEMMA RankTypes ==
    ASSUME NEW c \in Nat, NEW K \in SUBSET (1 .. c)
    PROVE  /\ IsFiniteSet(K) /\ Cardinality(K) \in Nat
           /\ \A a : IsFiniteSet({b \in K : b > a}) /\ RankIn(K, a) \in Nat
  <1>1. IsFiniteSet(1 .. c)
    BY FS_Interval
  <1>2. IsFiniteSet(K)
    BY <1>1, FS_Subset
  <1>3. ASSUME NEW a
        PROVE  IsFiniteSet({b \in K : b > a}) /\ RankIn(K, a) \in Nat
    <2>1. IsFiniteSet({b \in K : b > a})
      BY <1>2, FS_Subset
    <2> QED  BY <2>1, FS_CardinalityType DEF RankIn
  <1> QED  BY <1>2, <1>3, FS_CardinalityType

\* Of two listings the older one comes later.
LEMMA RankOrder ==
    ASSUME NEW c \in Nat, NEW K \in SUBSET (1 .. c), NEW a \in K, NEW b \in K, a < b
    PROVE  RankIn(K, b) < RankIn(K, a)
  <1> DEFINE newer(x) == {y \in K : y > x}
  <1>1. newer(b) \in SUBSET newer(a) /\ b \in newer(a) /\ b \notin newer(b)
    <2>1. a \in Int /\ b \in Int /\ \A y \in K : y \in Int
      OBVIOUS
    <2>2. b > a /\ ~(b > b) /\ \A y \in K : y > b => y > a
      BY <2>1
    <2>3. \A y : y \in newer(b) => y \in newer(a)
      BY <2>2
    <2>4. b \in newer(a) /\ b \notin newer(b)
      BY <2>2
    <2> QED  BY <2>3, <2>4
  <1>2. RankIn(K, a) = Cardinality(newer(a)) /\ RankIn(K, b) = Cardinality(newer(b))
    BY DEF RankIn
  <1>3. IsFiniteSet(newer(a)) /\ RankIn(K, a) \in Nat /\ RankIn(K, b) \in Nat
    BY RankTypes
  <1> HIDE DEF newer
  <1>4. newer(a) # newer(b)
    BY <1>1
  <1>5. Cardinality(newer(b)) <= Cardinality(newer(a))
        /\ Cardinality(newer(a)) # Cardinality(newer(b))
    BY <1>1, <1>3, <1>4, FS_Subset
  <1> QED  BY <1>2, <1>3, <1>5

\* The ranks have no gap.
LEMMA RanksAreDense ==
    ASSUME NEW c \in Nat, NEW K \in SUBSET (1 .. c), NEW a \in K,
           NEW k \in Nat, k <= RankIn(K, a)
    PROVE  \E x \in K : RankIn(K, x) = k
  <1> DEFINE rank == [x \in K |-> RankIn(K, x)]
  <1>1. IsFiniteSet(K) /\ Cardinality(K) \in Nat /\ \A x : RankIn(K, x) \in Nat
    BY RankTypes
  <1>2. PICK n \in Nat : n = Cardinality(K)
    BY <1>1
  <1>3. ASSUME NEW x \in K PROVE RankIn(K, x) < n
    <2> DEFINE newer == {y \in K : y > x}
    <2>1. newer \in SUBSET K /\ newer # K
      OBVIOUS
    <2>2. RankIn(K, x) = Cardinality(newer)
      BY DEF RankIn
    <2> HIDE DEF newer
    <2>3. Cardinality(newer) <= n /\ n # Cardinality(newer)
      BY <1>1, <1>2, <2>1, FS_Subset
    <2> QED  BY <1>1, <2>2, <2>3
  <1>4. rank \in [K -> 0 .. n - 1]
    BY <1>1, <1>3
  <1>5. ASSUME NEW x \in K, NEW y \in K, rank[x] = rank[y] PROVE x = y
    <2>1. RankIn(K, x) = RankIn(K, y)
      BY <1>5
    <2>2. x \in Int /\ y \in Int
      OBVIOUS
    <2>3. ASSUME NEW v \in K, NEW w \in K, v < w PROVE RankIn(K, w) # RankIn(K, v)
      <3>1. RankIn(K, w) < RankIn(K, v)
        BY <2>3, RankOrder
      <3> QED  BY <1>1, <3>1
    <2> QED  BY <2>1, <2>2, <2>3
  <1>6. rank \in Injection(K, 0 .. n - 1)
    BY <1>4, <1>5 DEF Injection, IsInjective
  <1>7. IsFiniteSet(0 .. n - 1) /\ Cardinality(0 .. n - 1) = n
    <2>1. 0 \in Int /\ n - 1 \in Int /\ (0 > n - 1 <=> n = 0)
      OBVIOUS
    <2> QED  BY <2>1, FS_Interval
  <1>8. rank \in Surjection(K, 0 .. n - 1)
    <2> HIDE DEF rank
    <2> QED  BY <1>2, <1>6, <1>7, FS_Injection
  <1>9. k \in 0 .. n - 1
    BY <1>1, <1>3
  <1> QED  BY <1>8, <1>9 DEF Surjection

LEMMA RankInInterval ==
    ASSUME NEW c \in Nat, NEW a \in 0 .. c
    PROVE  RankIn(1 .. c, a) = c - a
  <1>1. {b \in 1 .. c : b > a} = (a + 1) .. c
    OBVIOUS
  <1>2. Cardinality((a + 1) .. c) = c - a
    <2>1. a + 1 \in Int /\ c \in Int /\ (a + 1 > c <=> c - a = 0)
      OBVIOUS
    <2>2. Cardinality((a + 1) .. c) = IF a + 1 > c THEN 0 ELSE c - (a + 1) + 1
      BY <2>1, FS_Interval
    <2> QED  BY <2>1, <2>2
  <1> QED  BY <1>1, <1>2 DEF RankIn

LEMMA RankAfterPublish ==
    ASSUME NEW c \in Nat, NEW K \in SUBSET (1 .. c)
    PROVE  /\ \A a \in K : /\ RankIn(K, a) <= RankIn(K \cup {c + 1}, a)
                           /\ RankIn(K \cup {c + 1}, a) <= RankIn(K, a) + 1
           /\ RankIn(K \cup {c + 1}, c + 1) = 0
  <1>1. ASSUME NEW a \in K PROVE RankIn(K \cup {c + 1}, a) = RankIn(K, a) + 1
    <2>1. {b \in K \cup {c + 1} : b > a} = {b \in K : b > a} \cup {c + 1}
      <3>1. a \in Int /\ c + 1 > a
        OBVIOUS
      <3> QED  BY <3>1
    <2>2. c + 1 \notin {b \in K : b > a}
      <3>1. c + 1 \notin K
        OBVIOUS
      <3> QED  BY <3>1
    <2>3. IsFiniteSet({b \in K : b > a})
      BY RankTypes
    <2>4. Cardinality({b \in K : b > a} \cup {c + 1}) = Cardinality({b \in K : b > a}) + 1
      BY <2>2, <2>3, FS_AddElement
    <2> QED  BY <2>1, <2>4 DEF RankIn
  <1>2. {b \in K \cup {c + 1} : b > c + 1} = {}
    <2>1. \A b \in K \cup {c + 1} : ~(b > c + 1)
      OBVIOUS
    <2> QED  BY <2>1
  <1>3. RankIn(K \cup {c + 1}, c + 1) = 0
    BY <1>2, FS_EmptySet DEF RankIn
  <1>4. \A a : RankIn(K, a) \in Nat
    BY RankTypes
  <1> QED  BY <1>1, <1>3, <1>4

LEMMA RankAfterWithdraw ==
    ASSUME NEW c \in Nat, NEW K \in SUBSET (1 .. c), NEW x
    PROVE  \A a : RankIn(K \ {x}, a) <= RankIn(K, a)
  <1> SUFFICES ASSUME NEW a PROVE RankIn(K \ {x}, a) <= RankIn(K, a)
    OBVIOUS
  <1>1. {b \in K \ {x} : b > a} \in SUBSET {b \in K : b > a}
    OBVIOUS
  <1>2. IsFiniteSet({b \in K : b > a})
    BY RankTypes
  <1> QED  BY <1>1, <1>2, FS_Subset DEF RankIn

\* The first listing of a page and of the next one.
LEMMA Offsets ==
    ASSUME NEW n \in Nat
    PROVE  /\ n * PageSize \in Nat
           /\ (n + 1) * PageSize = n * PageSize + PageSize
           /\ \A m \in Nat : m <= n => m * PageSize <= n * PageSize
  BY PagesAssumption

LEMMA Times ==
    ASSUME Domains
    PROVE  /\ clock \in Nat /\ since \in Nat /\ pages \in Nat /\ window \in Nat
           /\ moves \in 0 .. PageSize /\ moves \in 0 .. MaxMoves
           /\ \A a \in kufar : a \in 1 .. clock /\ a \in Nat
           /\ \A a \in matches : a \in Nat
  <1>1. clock \in Nat /\ since \in Nat
    BY MovesAssumption DEF Domains, Ad, Never
  <1>2. moves \in 0 .. PageSize /\ moves \in 0 .. MaxMoves
    BY MovesAssumption, PagesAssumption DEF Domains
  <1>3. pages \in Nat /\ window \in Nat
    BY PagesAssumption DEF Domains
  <1>4. \A a \in matches : a \in Nat
    BY MovesAssumption DEF Domains, Ad
  <1>5. \A a \in kufar : a \in 1 .. clock /\ a \in Nat
    BY <1>1 DEF Domains
  <1> QED  BY <1>1, <1>2, <1>3, <1>4, <1>5

LEMMA Pages ==
    ASSUME Domains, NEW n \in Nat
    PROVE  /\ \A a : Rank(a) \in Nat
           /\ \A a : a \in Page(n) <=> /\ a \in kufar
                                       /\ n * PageSize <= Rank(a)
                                       /\ Rank(a) < (n + 1) * PageSize
           /\ Page(n) = {} => \A a \in kufar : Rank(a) < n * PageSize
  <1>1. clock \in Nat /\ kufar \in SUBSET (1 .. clock) /\ PageSize \in Nat \ {0}
    BY PagesAssumption, MovesAssumption DEF Domains
  <1>2. \A a : Rank(a) = RankIn(kufar, a)
    BY DEF Rank, RankIn
  <1>3. \A a : Rank(a) \in Nat
    BY <1>1, <1>2, RankTypes
  <1>4. PICK from \in Nat : from = n * PageSize
    BY Offsets
  <1>5. (n + 1) * PageSize = from + PageSize
    BY <1>4, Offsets
  <1>6. \A a : a \in Page(n) <=> a \in kufar /\ from <= Rank(a) /\ Rank(a) < from + PageSize
    BY <1>1, <1>3, <1>4, <1>5 DEF Page
  <1>7. ASSUME Page(n) = {}, NEW a \in kufar, ~(Rank(a) < from) PROVE FALSE
    <2>1. from <= RankIn(kufar, a)
      BY <1>2, <1>3, <1>7
    <2>2. PICK x \in kufar : RankIn(kufar, x) = from
      BY <1>1, <2>1, RanksAreDense
    <2>3. x \in Page(n)
      BY <1>1, <1>2, <1>6, <2>2
    <2> QED  BY <1>7, <2>3
  <1> QED  BY <1>3, <1>4, <1>5, <1>6, <1>7

-----------------------------------------------------------------------------
(* Preservation. *)

\* What a page brings to the sample that a listing of rank below the next page is in.
LEMMA PageCovers ==
    ASSUME Domains, CoveredInv, ~withdrawn,
           NEW a \in AtStart \cap matches, Rank(a) < (pages + 1) * PageSize
    PROVE  a \in ads \cup (Page(pages) \cap matches)
  <1>1. a \in kufar
    BY DEF AtStart
  <1>2. CASE Rank(a) < pages * PageSize
    BY <1>2 DEF CoveredInv
  <1>3. CASE ~(Rank(a) < pages * PageSize)
    <2>1. Rank(a) \in Nat /\ pages \in Nat
      BY Pages DEF Domains
    <2>2. pages * PageSize <= Rank(a)
      BY <1>3, <2>1, Offsets
    <2> QED  BY <1>1, <2>1, <2>2, Pages
  <1> QED  BY <1>2, <1>3

\* The next page has nothing: the sample covers everything.
LEMMA LastPageCovers ==
    ASSUME Domains, CoveredInv, ~withdrawn, ~HasNextPage(pages)
    PROVE  AtStart \cap matches \subseteq ads \cup (Page(pages) \cap matches)
  <1>1. pages \in Nat /\ pages + 1 \in Nat
    BY DEF Domains
  <1>2. \A a \in kufar : Rank(a) < (pages + 1) * PageSize
    BY <1>1, Pages DEF HasNextPage
  <1>3. AtStart \subseteq kufar
    BY DEF AtStart
  <1> QED  BY <1>2, <1>3, PageCovers

\* The same ranks and listings before and after a page.
LEMMA FetchStill ==
    ASSUME UNCHANGED <<kufar, clock, moves>>
    PROVE  /\ \A a : Rank(a)' = Rank(a)
           /\ AtStart' = AtStart
  BY DEF Rank, AtStart

LEMMA CoveredByPage ==
    ASSUME Domains, CoveredInv, UNCHANGED <<kufar, clock, matches, moves, withdrawn>>,
           pages' = pages + 1, ads' = ads \cup (Page(pages) \cap matches)
    PROVE  CoveredInv'
  <1> SUFFICES ASSUME ~withdrawn,
                      NEW a \in AtStart \cap matches, Rank(a) < (pages + 1) * PageSize
               PROVE  a \in ads \cup (Page(pages) \cap matches)
    BY FetchStill DEF CoveredInv
  <1> QED  BY PageCovers
\* The page that closes a window that is not full brings nothing new and reaches back
\* to the previous check: what it does not bring of later listings is further up.
LEMMA ClosingPage ==
    ASSUME Domains, reader = "check", FetchPage, inWindow, ~inWindow', pages' < MaxPages,
           NEW a \in (kufar \cap matches) \ ads', a >= since
    PROVE  Rank(a) < pages * PageSize
  <1>1. pages \in Nat /\ Rank(a) \in Nat /\ a \in 1 .. clock /\ clock \in Nat
    BY Pages, MovesAssumption DEF Domains
  <1>2. a \notin Page(pages)
    BY DEF FetchPage
  <1>3. PICK from \in Nat : from = pages * PageSize
    BY <1>1, Offsets
  <1>4. (pages + 1) * PageSize = from + PageSize
    BY <1>1, <1>3, Offsets
  <1>5. ~ReachesSince(Page(pages))
    BY DEF FetchPage
  <1>6. CASE Page(pages) = {}
    BY <1>1, <1>6, Pages
  <1>7. ASSUME NEW b \in Page(pages), ~(b >= since)
        PROVE  Rank(a) < from
    <2>1. since \in Nat /\ b \in kufar /\ b \in 1 .. clock
      BY <1>1, <1>7, Pages, Times
    <2>2. b < a
      BY <1>1, <1>7, <2>1
    <2>3. RankIn(kufar, a) < RankIn(kufar, b)
      BY <1>1, <2>1, <2>2, RankOrder DEF Domains
    <2>4. Rank(a) < Rank(b) /\ Rank(b) \in Nat
      BY <2>3, Pages, <1>1 DEF Rank, RankIn
    <2>5. Rank(b) < from + PageSize
      BY <1>1, <1>4, Pages
    <2>6. Rank(a) < from + PageSize
      BY <1>1, <2>4, <2>5, PagesAssumption
    <2>7. ~(from <= Rank(a))
      BY <1>1, <1>2, <1>3, <1>4, <2>6, Pages
    <2> QED  BY <1>1, <1>3, <2>7
  <1> QED  BY <1>3, <1>5, <1>6, <1>7 DEF ReachesSince

\* A page beyond the window brings nothing of the time since the previous check.
LEMMA LaterPage ==
    ASSUME Domains, ClosedInv, reader = "check", ~inWindow, window < MaxPages,
           NEW a \in (Page(pages) \cap matches) \ ads
    PROVE  a < since
  <1>1. pages \in Nat /\ window \in Nat /\ Rank(a) \in Nat /\ moves \in 0 .. PageSize
        /\ a \in Nat /\ since \in Nat /\ a \in kufar
    <2>1. pages \in Nat /\ window \in Nat /\ moves \in 0 .. PageSize /\ since \in Nat
          /\ a \in Nat
      BY Times
    <2> QED  BY <2>1, Pages
  <1>2. 1 <= window /\ window <= pages
    BY DEF ClosedInv
  <1>3. PICK from \in Nat : from = (window - 1) * PageSize
    BY <1>1, <1>2, Offsets
  <1>4. window * PageSize = from + PageSize
    <2>1. window - 1 \in Nat /\ (window - 1) + 1 = window
      BY <1>1, <1>2
    <2> QED  BY <1>3, <2>1, Offsets
  <1>5. from + PageSize <= Rank(a)
    <2>1. pages * PageSize <= Rank(a)
      BY <1>1, Pages
    <2>2. window * PageSize <= pages * PageSize /\ pages * PageSize \in Nat
      BY <1>1, <1>2, Offsets
    <2> QED  BY <1>1, <1>4, <2>1, <2>2, PagesAssumption
  <1>6. ASSUME a >= since PROVE FALSE
    <2>1. Rank(a) < from + moves
      BY <1>1, <1>3, <1>6 DEF ClosedInv
    <2> QED  BY <1>1, <1>5, <2>1, PagesAssumption
  <1> QED  BY <1>1, <1>6

LEMMA CheckPage ==
    ASSUME IInv, reader = "check", FetchPage, UNCHANGED searchVars
    PROVE  IInv'
  <1> DEFINE fresh == (Page(pages) \cap matches) \ ads
  <1>1. /\ Domains /\ CoveredInv /\ OpenInv /\ ClosedInv
        /\ UNCHANGED <<kufar, clock, matches, since, deep, moves, withdrawn, reader>>
        /\ pages' = pages + 1 /\ ads' = ads \cup fresh /\ step = "fetching"
        /\ silent' = IF inWindow THEN silent ELSE silent \cup fresh
        /\ window' = IF inWindow THEN window + 1 ELSE window
    BY DEF IInv, FetchPage, Silent, inputs, searchVars
  <1>2. /\ inWindow' \in BOOLEAN
        /\ inWindow' => inWindow /\ pages' < MaxPages
        /\ step' \in {"fetching", "done"}
        /\ step' = "done" /\ inWindow' => ~HasNextPage(pages)
    <2>1. inWindow' => inWindow /\ pages' < MaxPages
      BY DEF FetchPage
    <2>2. inWindow' => pages' < PagesAllowed
      BY <1>1, <2>1, PagesAssumption DEF PagesAllowed, Domains
    <2> QED  BY <2>1, <2>2 DEF FetchPage
  <1>3. Domains'
    <2>1. pages' \in Nat /\ ads' \subseteq matches /\ silent' \subseteq ads'
      BY <1>1 DEF Domains
    <2>2. window' \in 0 .. MaxPages
      BY <1>1, PagesAssumption DEF Domains, OpenInv
    <2>3. UNCHANGED <<total, truncated>>
      BY DEF searchVars
    <2>4. inWindow' \in BOOLEAN
      BY <1>2
    <2>5. step' \in {"fetching", "done"}
      BY <1>2
    <2>6. UNCHANGED <<kufar, clock, matches, since, deep, moves, withdrawn, reader>>
      BY <1>1
    <2> QED  BY <1>1, <2>1, <2>2, <2>3, <2>4, <2>5, <2>6 DEF Domains
  <1>4. CoveredInv'
    BY <1>1, CoveredByPage
  <1>5. OpenInv'
    <2> SUFFICES ASSUME inWindow' PROVE
            /\ silent' = {} /\ window' = pages' /\ pages' < MaxPages
            /\ step' = "done" /\ ~withdrawn' => Wanted(1)' \subseteq ads'
      BY <1>1 DEF OpenInv
    <2>1. silent' = {} /\ window' = pages' /\ pages' < MaxPages
      BY <1>1, <1>2 DEF OpenInv
    <2>2. ASSUME step' = "done", ~withdrawn' PROVE Wanted(1)' \subseteq ads'
      <3>1. Wanted(1)' \subseteq AtStart \cap matches
        BY <1>1, FetchStill DEF Wanted
      <3>2. AtStart \cap matches \subseteq ads \cup (Page(pages) \cap matches)
        BY <1>1, <1>2, <2>2, LastPageCovers
      <3> QED  BY <1>1, <3>1, <3>2
    <2> QED  BY <2>1, <2>2
  <1>6. ClosedInv'
    <2> SUFFICES ASSUME ~inWindow', window' < MaxPages PROVE
            /\ 1 <= window' /\ window' <= pages'
            /\ \A a \in silent' : a < since
            /\ \A a \in (kufar \cap matches) \ ads' :
                  a >= since => Rank(a) < (window' - 1) * PageSize + moves
            /\ ~withdrawn => Wanted(since) \subseteq ads'
      BY <1>1, FetchStill DEF ClosedInv, Wanted
    <2>1. CASE inWindow
      <3>1. window' = pages + 1 /\ pages' < MaxPages /\ pages \in Nat /\ silent' = {}
        BY <1>1, <2>1 DEF OpenInv, Domains
      <3>2. ASSUME NEW a \in (kufar \cap matches) \ ads', a >= since
            PROVE  Rank(a) < pages * PageSize
        BY <1>1, <2>1, <3>1, <3>2, ClosingPage
      <3>3. ASSUME NEW a \in (kufar \cap matches) \ ads', a >= since
            PROVE  Rank(a) < (window' - 1) * PageSize + moves
        <4>1. Rank(a) \in Nat /\ moves \in Nat /\ pages * PageSize \in Nat
          BY <1>1, <3>1, Pages, Offsets, MovesAssumption, PagesAssumption DEF Domains
        <4>2. Rank(a) < pages * PageSize
          BY <3>2, <3>3
        <4>3. window' - 1 = pages
          BY <3>1
        <4> QED  BY <4>1, <4>2, <4>3
      <3>4. ASSUME ~withdrawn, NEW a \in Wanted(since) PROVE a \in ads'
        <4>1. a \in AtStart \cap matches /\ a >= since /\ a \in kufar
          BY <3>4 DEF Wanted, AtStart
        <4>2. a \in ads' \/ Rank(a) < pages * PageSize
          BY <3>2, <4>1
        <4> QED  BY <1>1, <3>4, <4>1, <4>2 DEF CoveredInv
      <3>5. 1 <= window' /\ window' <= pages'
        BY <1>1, <3>1
      <3> QED  BY <3>1, <3>3, <3>4, <3>5
    <2>2. CASE ~inWindow
      <3>1. window' = window /\ window < MaxPages /\ silent' = silent \cup fresh
        BY <1>1, <2>2
      <3>2. \A a \in fresh : a < since
        BY <1>1, <2>2, <3>1, LaterPage
      <3>3. 1 <= window' /\ window' <= pages'
        BY <1>1, <2>2, <3>1, PagesAssumption DEF ClosedInv, Domains
      <3> QED  BY <1>1, <2>2, <3>1, <3>2, <3>3 DEF ClosedInv
    <2> QED  BY <2>1, <2>2
  <1>7. SearchInv'
    BY <1>1 DEF SearchInv
  <1> QED  BY <1>3, <1>4, <1>5, <1>6, <1>7 DEF IInv

LEMMA CheckFails ==
    ASSUME IInv, reader = "check", PageFails, UNCHANGED searchVars
    PROVE  IInv'
  <1>1. /\ Domains /\ CoveredInv /\ OpenInv /\ ClosedInv
        /\ UNCHANGED <<kufar, clock, matches, since, deep, moves, withdrawn, reader>>
        /\ UNCHANGED <<pages, ads, silent, inWindow, window, total, truncated>>
        /\ step' = IF inWindow THEN "failed" ELSE "done"
    BY DEF IInv, PageFails, inputs, searchVars
  <1>2. (\A a : Rank(a)' = Rank(a)) /\ AtStart' = AtStart
    BY <1>1, FetchStill
  <1>3. Domains'
    BY <1>1 DEF Domains
  <1>4. CoveredInv'
    BY <1>1, <1>2 DEF CoveredInv
  <1>5. OpenInv'
    BY <1>1 DEF OpenInv
  <1>6. ClosedInv'
    BY <1>1, <1>2 DEF ClosedInv, Wanted
  <1>7. SearchInv'
    BY <1>1 DEF SearchInv
  <1> QED  BY <1>3, <1>4, <1>5, <1>6, <1>7 DEF IInv
\* A new listing takes the others down by one place, and is none of those there were.
LEMMA PublishKeeps ==
    ASSUME IInv, Publish, UNCHANGED searchVars
    PROVE  IInv'
  <1>1. /\ Domains /\ CoveredInv /\ OpenInv /\ ClosedInv /\ SearchInv
        /\ UNCHANGED <<matches, since, deep, withdrawn, reader>>
        /\ UNCHANGED <<pages, ads, silent, inWindow, window, step, total, truncated>>
        /\ clock' = clock + 1 /\ clock < MaxTime /\ kufar' = kufar \cup {clock + 1}
        /\ moves' = moves + 1 /\ moves < MaxMoves /\ step = "fetching"
    BY DEF IInv, Publish, inputs, loop, searchVars
  <1>2. /\ clock \in Nat /\ since \in Nat /\ pages \in Nat /\ window \in Nat
        /\ moves \in 0 .. PageSize /\ moves \in 0 .. MaxMoves
        /\ \A a \in kufar : a \in 1 .. clock
    BY <1>1, Times
  <1>0. PICK new \in Nat : new = clock + 1
    BY <1>2
  <1>3. Domains'
    <2>1. kufar' \subseteq 1 .. clock' /\ clock' \in 0 .. MaxTime
      BY <1>1, <1>2, MovesAssumption
    <2>2. moves' \in 0 .. MaxMoves
      BY <1>1, <1>2, MovesAssumption, PagesAssumption
    <2> QED  BY <1>1, <2>1, <2>2 DEF Domains
  <1>4. AtStart' = AtStart
    <2>1. clock' - moves' = clock - moves /\ clock + 1 \notin 1 .. clock - moves
      BY <1>1, <1>2
    <2> QED  BY <1>1, <2>1 DEF AtStart
  <1>5. /\ \A a \in kufar : Rank(a) <= Rank(a)' /\ Rank(a)' <= Rank(a) + 1
        /\ Rank(new)' = 0
        /\ \A a : Rank(a) \in Nat /\ Rank(a)' \in Nat
    <2>1. kufar \in SUBSET (1 .. clock)
      BY <1>2
    <2>2. kufar' \in SUBSET (1 .. clock') /\ clock' \in Nat
      BY <1>1, <1>2
    <2>3. \A a : RankIn(kufar, a) \in Nat /\ RankIn(kufar', a) \in Nat
      BY <1>2, <2>1, <2>2, RankTypes
    <2>4. /\ \A a \in kufar : /\ RankIn(kufar, a) <= RankIn(kufar', a)
                              /\ RankIn(kufar', a) <= RankIn(kufar, a) + 1
          /\ RankIn(kufar', new) = 0
      BY <1>0, <1>1, <1>2, <2>1, RankAfterPublish
    <2>5. \A a : Rank(a) = RankIn(kufar, a) /\ Rank(a)' = RankIn(kufar', a)
      BY DEF Rank, RankIn
    <2> QED  BY <2>3, <2>4, <2>5
  <1>6. CoveredInv'
    <2> SUFFICES ASSUME ~withdrawn
                 PROVE  /\ kufar' = 1 .. clock' /\ moves' <= clock'
                        /\ \A a \in AtStart \cap matches :
                              Rank(a)' < pages * PageSize => a \in ads
      BY <1>1, <1>4 DEF CoveredInv
    <2>1. kufar' = 1 .. clock' /\ moves' <= clock'
      <3>1. kufar = 1 .. clock /\ moves <= clock
        BY <1>1 DEF CoveredInv
      <3> QED  BY <1>1, <1>2, <3>1
    <2>2. ASSUME NEW a \in AtStart \cap matches, Rank(a)' < pages * PageSize
          PROVE  a \in ads
      <3>1. a \in kufar /\ pages * PageSize \in Nat
        BY <1>2, Offsets DEF AtStart
      <3>2. Rank(a) < pages * PageSize
        BY <1>5, <2>2, <3>1
      <3> QED  BY <1>1, <3>2 DEF CoveredInv
    <2> QED  BY <2>1, <2>2
  <1>7. OpenInv'
    BY <1>1 DEF OpenInv
  <1>8. ClosedInv'
    <2> SUFFICES ASSUME reader = "check", ~inWindow, window < MaxPages,
                        NEW a \in (kufar' \cap matches) \ ads, a >= since
                 PROVE  Rank(a)' < (window - 1) * PageSize + moves'
      BY <1>1, <1>4 DEF ClosedInv, Wanted
    <2>1. (window - 1) * PageSize \in Nat
      <3>1. window - 1 \in Nat
        BY <1>1, <1>2 DEF ClosedInv
      <3> QED  BY <3>1, Offsets
    <2>2. CASE a = new
      BY <1>1, <1>2, <1>5, <2>1, <2>2, PagesAssumption
    <2>3. CASE a \in kufar
      <3>1. Rank(a) < (window - 1) * PageSize + moves
        BY <1>1, <2>3 DEF ClosedInv
      <3> QED  BY <1>1, <1>2, <1>5, <2>1, <2>3, <3>1, PagesAssumption
    <2> QED  BY <1>0, <1>1, <2>2, <2>3
  <1>9. SearchInv'
    <2>1. clock' - moves' = clock - moves /\ (moves' < PageSize => moves < PageSize)
      BY <1>1, <1>2, PagesAssumption
    <2>2. clock' - moves' - pages * PageSize = clock - moves - pages * PageSize
      BY <2>1
    <2> QED  BY <1>1, <1>4, <2>1, <2>2 DEF SearchInv
  <1> QED  BY <1>3, <1>6, <1>7, <1>8, <1>9 DEF IInv

LEMMA WithdrawKeeps ==
    ASSUME IInv, NEW x \in Ad, Withdraw(x), UNCHANGED searchVars
    PROVE  IInv'
  <1>1. /\ Domains /\ CoveredInv /\ OpenInv /\ ClosedInv /\ SearchInv
        /\ UNCHANGED <<clock, matches, since, deep, reader>>
        /\ UNCHANGED <<pages, ads, silent, inWindow, window, step, total, truncated>>
        /\ kufar' = kufar \ {x} /\ withdrawn'
        /\ moves' = moves + 1 /\ moves < MaxMoves /\ step = "fetching"
    BY DEF IInv, Withdraw, inputs, loop, searchVars
  <1>2. /\ clock \in Nat /\ window \in Nat /\ moves \in 0 .. PageSize
        /\ moves \in 0 .. MaxMoves /\ kufar \in SUBSET (1 .. clock)
    BY <1>1, Times
  <1>3. Domains'
    <2>1. moves' \in 0 .. MaxMoves /\ withdrawn' \in BOOLEAN
      BY <1>1, <1>2, MovesAssumption, PagesAssumption DEF Withdraw
    <2> QED  BY <1>1, <2>1 DEF Domains
  <1>4. \A a : Rank(a) \in Nat /\ Rank(a)' \in Nat /\ Rank(a)' <= Rank(a)
    <2>1. kufar' \in SUBSET (1 .. clock)
      BY <1>1, <1>2
    <2>2. \A a : RankIn(kufar, a) \in Nat /\ RankIn(kufar', a) \in Nat
      BY <1>2, <2>1, RankTypes
    <2>3. \A a : RankIn(kufar', a) <= RankIn(kufar, a)
      BY <1>1, <1>2, RankAfterWithdraw
    <2>4. \A a : Rank(a) = RankIn(kufar, a) /\ Rank(a)' = RankIn(kufar', a)
      BY DEF Rank, RankIn
    <2> QED  BY <2>2, <2>3, <2>4
  <1>5. CoveredInv'
    BY <1>1 DEF CoveredInv
  <1>6. OpenInv'
    BY <1>1 DEF OpenInv
  <1>7. ClosedInv'
    <2> SUFFICES ASSUME reader = "check", ~inWindow, window < MaxPages,
                        NEW a \in (kufar' \cap matches) \ ads, a >= since
                 PROVE  Rank(a)' < (window - 1) * PageSize + moves'
      BY <1>1 DEF ClosedInv
    <2>1. (window - 1) * PageSize \in Nat
      <3>1. window - 1 \in Nat
        BY <1>1, <1>2 DEF ClosedInv
      <3> QED  BY <3>1, Offsets
    <2>2. Rank(a) < (window - 1) * PageSize + moves
      BY <1>1 DEF ClosedInv
    <2> QED  BY <1>1, <1>2, <1>4, <2>1, <2>2, PagesAssumption
  <1>8. SearchInv'
    BY <1>1 DEF SearchInv
  <1> QED  BY <1>3, <1>5, <1>6, <1>7, <1>8 DEF IInv
\* Where no listing was withdrawn the rank of a listing tells when it was published.
LEMMA SteadyRank ==
    ASSUME Domains, CoveredInv, ~withdrawn, NEW a \in kufar
    PROVE  Rank(a) = clock - a
  <1>1. kufar = 1 .. clock /\ clock \in Nat
    BY Times DEF CoveredInv
  <1>2. a \in 0 .. clock
    BY <1>1
  <1>3. RankIn(1 .. clock, a) = clock - a
    BY <1>1, <1>2, RankInInterval
  <1> QED  BY <1>1, <1>3 DEF Rank, RankIn

\* What every page of a search does.
SearchPage ==
    /\ reader = "search" /\ step = "fetching"
    /\ pages' = pages + 1
    /\ ads' = ads \cup Page(pages)
    /\ step' \in {"fetching", "done"} /\ total' \in Nat \cup {Unreported}
    /\ UNCHANGED <<kufar, clock, matches, since, deep, silent, inWindow, window, moves,
                   withdrawn, reader, truncated>>

LEMMA SearchPageKeeps ==
    ASSUME IInv, SearchPage
    PROVE  Domains' /\ CoveredInv' /\ OpenInv' /\ ClosedInv'
  <1>1. /\ Domains /\ CoveredInv /\ matches = Ad
        /\ reader' = "search" /\ pages \in Nat /\ pages' = pages + 1
        /\ UNCHANGED <<kufar, clock, matches, moves, withdrawn>>
    BY Times DEF IInv, SearchInv, SearchPage
  <1>2. Page(pages) \cap matches = Page(pages)
    <2>1. \A a \in Page(pages) : a \in 1 .. clock
      BY <1>1, Pages, Times
    <2>2. clock <= MaxTime /\ clock \in Nat
      BY <1>1, MovesAssumption DEF Domains
    <2> QED  BY <1>1, <2>1, <2>2, MovesAssumption DEF Ad
  <1>3. ads' = ads \cup (Page(pages) \cap matches)
    BY <1>2 DEF SearchPage
  <1>4. CoveredInv'
    BY <1>1, <1>3, CoveredByPage
  <1>5. Domains'
    BY <1>1, <1>3 DEF Domains, SearchPage
  <1> QED  BY <1>1, <1>4, <1>5 DEF OpenInv, ClosedInv

\* The listings of a page, and of the sample, by the time they were published.
LEMMA SearchPageTimes ==
    ASSUME IInv, SearchPage, ~withdrawn, moves < PageSize
    PROVE  /\ \A a \in Page(pages) : /\ a \in 1 .. clock
                                     /\ pages * PageSize <= clock - a
                                     /\ clock - a < pages * PageSize + PageSize
           /\ \A a \in ads' : a > clock - moves - pages' * PageSize
  <1>1. Domains /\ CoveredInv /\ pages \in Nat /\ clock \in Nat /\ moves \in Nat
        /\ pages' = pages + 1
    BY Times, PagesAssumption DEF IInv, SearchPage
  <1>2. PICK from \in Nat : from = pages * PageSize
    BY <1>1, Offsets
  <1>3. pages' * PageSize = from + PageSize
    BY <1>1, <1>2, Offsets
  <1>4. ASSUME NEW a \in Page(pages)
        PROVE  a \in 1 .. clock /\ from <= clock - a /\ clock - a < from + PageSize
    <2>1. a \in kufar /\ a \in 1 .. clock /\ Rank(a) = clock - a
      BY <1>1, <1>4, Pages, SteadyRank, Times
    <2>2. from <= Rank(a) /\ Rank(a) < (pages + 1) * PageSize
      BY <1>1, <1>2, <1>4, Pages
    <2> QED  BY <1>1, <1>3, <2>1, <2>2
  <1>5. ASSUME NEW a \in ads' PROVE a > clock - moves - pages' * PageSize
    <2>1. CASE a \in Page(pages)
      BY <1>1, <1>2, <1>3, <1>4, <2>1, PagesAssumption
    <2>2. CASE a \in ads
      <3>1. a > clock - moves - from /\ a \in Nat
        BY <1>1, <1>2, <2>2, Times DEF IInv, SearchInv, SearchPage, Domains
      <3> QED  BY <1>1, <1>2, <1>3, <3>1, PagesAssumption
    <2> QED  BY <1>5, <2>1, <2>2 DEF SearchPage
  <1> QED  BY <1>2, <1>4, <1>5

\* The total is reached: the sample has no room for a listing that it lacks.
LEMMA TotalReached ==
    ASSUME NEW n \in Nat, NEW S \in SUBSET (1 .. n), ~(Cardinality(S) < n)
    PROVE  S = 1 .. n
  <1>1. IsFiniteSet(1 .. n) /\ Cardinality(1 .. n) = n
    <2>1. 1 \in Int /\ n \in Int /\ (1 > n <=> n = 0)
      OBVIOUS
    <2>2. Cardinality(1 .. n) = IF 1 > n THEN 0 ELSE n - 1 + 1
      BY <2>1, FS_Interval
    <2> QED  BY <2>1, <2>2, FS_Interval
  <1>2. Cardinality(S) \in Nat /\ Cardinality(S) <= Cardinality(1 .. n)
    BY <1>1, FS_Subset, FS_CardinalityType
  <1>3. Cardinality(S) = Cardinality(1 .. n)
    BY <1>1, <1>2
  <1> QED  BY <1>1, <1>3, FS_Subset

\* A search that ends at a page because there is no next one or the total is reached.
LEMMA EndsComplete ==
    ASSUME IInv, SearchPage, ~withdrawn, moves < PageSize,
           total' # Unreported => clock - moves <= total' /\ ads' \subseteq 1 .. total',
           ~GoesOn(pages, ads', total')
    PROVE  AtStart \subseteq ads'
  <1>1. /\ Domains /\ CoveredInv /\ pages \in Nat /\ clock \in Nat /\ moves \in Nat
        /\ total' \in Nat \cup {Unreported} /\ matches = Ad /\ ads' = ads \cup Page(pages)
    BY Times, PagesAssumption DEF IInv, SearchPage, SearchInv
  <1>2. AtStart \subseteq Ad /\ AtStart \subseteq 1 .. clock - moves
    <2>1. kufar \subseteq 1 .. clock /\ clock <= MaxTime
      BY <1>1, MovesAssumption DEF Domains
    <2> QED  BY <1>1, <2>1, MovesAssumption DEF AtStart, Ad
  <1>3. CASE ~HasNextPage(pages)
    <2>1. AtStart \cap matches \subseteq ads \cup (Page(pages) \cap matches)
      BY <1>1, <1>3, LastPageCovers
    <2> QED  BY <1>1, <1>2, <2>1
  <1>4. CASE total' # Unreported /\ ~(Cardinality(ads') < total')
    <2>1. PICK n \in Nat : n = total'
      BY <1>1, <1>4
    <2>2. ads' = 1 .. n
      BY <1>4, <2>1, TotalReached
    <2>3. clock - moves <= n
      BY <1>4, <2>1
    <2> QED  BY <1>1, <1>2, <2>2, <2>3
  <1> QED  BY <1>3, <1>4 DEF GoesOn
\* The frame of a step of a search.
SearchFrame ==
    UNCHANGED <<kufar, clock, inputs, silent, inWindow, window, moves, withdrawn, reader>>

LEMMA FirstPageKeeps ==
    ASSUME IInv, reader = "search", FirstPage, SearchFrame
    PROVE  IInv'
  <1>1. /\ Domains /\ CoveredInv /\ SearchInv /\ pages = 0 /\ ads = {}
        /\ ads' = Page(pages) /\ pages' = pages + 1
        /\ total' \in {Unreported, Cardinality(kufar)}
    BY DEF IInv, FirstPage, SearchInv
  <1>2. IsFiniteSet(kufar) /\ Cardinality(kufar) \in Nat /\ kufar \in SUBSET (1 .. clock)
        /\ clock \in Nat /\ moves \in Nat
    <2>1. kufar \in SUBSET (1 .. clock) /\ clock \in Nat /\ moves \in Nat
      BY <1>1, Times, PagesAssumption
    <2> QED  BY <2>1, RankTypes
  <1>3. SearchPage
    BY <1>1, <1>2 DEF FirstPage, SearchFrame, inputs, SearchPage
  <1>4. ASSUME ~withdrawn, total' # Unreported
        PROVE  clock - moves <= total' /\ ads' \subseteq 1 .. total'
    <2>1. kufar = 1 .. clock
      BY <1>1, <1>4 DEF CoveredInv
    <2>2. 1 \in Int /\ clock \in Int /\ (1 > clock <=> clock = 0)
      BY <1>2
    <2>3. Cardinality(1 .. clock) = IF 1 > clock THEN 0 ELSE clock - 1 + 1
      BY <2>2, FS_Interval
    <2>4. total' = clock
      BY <1>1, <1>2, <1>4, <2>1, <2>2, <2>3
    <2>5. Page(pages) \subseteq kufar
      BY DEF Page
    <2> QED  BY <1>1, <1>2, <2>1, <2>4, <2>5
  <1>5. SearchInv'
    <2> SUFFICES ASSUME ~withdrawn, moves < PageSize
                 PROVE  /\ \A a \in ads' : a > clock - moves - pages' * PageSize
                        /\ step' = "done" => AtStart \subseteq ads'
      BY <1>1, <1>3, <1>4, FetchStill DEF SearchInv, SearchPage
    <2>1. \A a \in ads' : a > clock - moves - pages' * PageSize
      BY <1>3, SearchPageTimes
    <2>2. step' = "done" => ~GoesOn(pages, ads', total')
      BY <1>1 DEF FirstPage
    <2> QED  BY <1>3, <1>4, <2>1, <2>2, EndsComplete
  <1> QED  BY <1>3, <1>5, SearchPageKeeps DEF IInv

\* A page without news: were a listing missing, the oldest of the sample would lie
\* above the end of the page, and the page would bring the one below it.
LEMMA PageWithoutNews ==
    ASSUME IInv, SearchPage, ~withdrawn, moves < PageSize, 1 <= pages,
           Page(pages) \subseteq ads
    PROVE  AtStart \subseteq ads
  <1>1. /\ Domains /\ CoveredInv /\ pages \in Nat /\ clock \in Nat /\ moves \in Nat
        /\ matches = Ad /\ kufar = 1 .. clock /\ moves <= clock
        /\ \A a \in ads : a > clock - moves - pages * PageSize
    BY Times, PagesAssumption DEF IInv, SearchPage, SearchInv, CoveredInv
  <1>2. PICK from \in Nat : from = pages * PageSize
    BY <1>1, Offsets
  <1>3. (pages + 1) * PageSize = from + PageSize /\ PageSize \in Nat
    BY <1>1, <1>2, Offsets, PagesAssumption
  <1>4. ASSUME NEW a \in 1 .. clock, from <= clock - a, clock - a < from + PageSize
        PROVE  a \in ads
    <2>1. Rank(a) = clock - a /\ a \in kufar
      BY <1>1, SteadyRank
    <2>2. a \in Page(pages)
      BY <1>1, <1>2, <1>3, <1>4, <2>1, Pages
    <2> QED  BY <2>2
  <1>5. ASSUME NEW a \in AtStart, a \notin ads PROVE FALSE
    <2>1. a \in 1 .. clock /\ a \in 1 .. clock - moves /\ a \in AtStart \cap matches
      BY <1>1, MovesAssumption DEF AtStart, Ad, Domains
    <2>2. Rank(a) = clock - a
      BY <1>1, <2>1, SteadyRank
    <2>3. ~(clock - a < from)
      BY <1>1, <1>2, <1>5, <2>1, <2>2 DEF CoveredInv
    <2>4. ~(clock - a < from + PageSize)
      BY <1>1, <1>4, <1>5, <2>1, <2>3
    <2>5. clock - moves - from \in 1 .. clock
      BY <1>1, <1>3, <2>1, <2>4
    <2>6. clock - moves - from \in ads
      <3>1. from <= clock - (clock - moves - from)
        BY <1>1
      <3>2. clock - (clock - moves - from) < from + PageSize
        BY <1>1, <1>3
      <3> QED  BY <1>4, <2>5, <3>1, <3>2
    <2> QED  BY <1>1, <1>2, <2>6
  <1> QED  BY <1>5

LEMMA FurtherPageKeeps ==
    ASSUME IInv, reader = "search", FurtherPage, SearchFrame
    PROVE  IInv'
  <1> DEFINE fresh == Page(pages) \ ads
  <1>1. /\ Domains /\ CoveredInv /\ SearchInv /\ pages' = pages + 1
        /\ ads' = ads \cup fresh /\ 1 <= pages /\ pages \in Nat
        /\ total' = total /\ total \in Nat \cup {Unreported}
        /\ step' = IF fresh # {} /\ GoesOn(pages, ads', total') THEN "fetching" ELSE "done"
    BY SearchAssumption DEF IInv, FurtherPage, Domains
  <1>2. SearchPage
    BY <1>1 DEF FurtherPage, SearchFrame, inputs, SearchPage
  <1>3. clock \in Nat /\ moves \in Nat /\ PageSize \in Nat
    BY <1>1, Times, PagesAssumption
  <1>4. SearchInv'
    <2> SUFFICES ASSUME ~withdrawn, moves < PageSize
                 PROVE  /\ \A a \in ads' : a > clock - moves - pages' * PageSize
                        /\ total' # Unreported =>
                               clock - moves <= total' /\ ads' \subseteq 1 .. total'
                        /\ step' = "done" /\ ~truncated => AtStart \subseteq ads'
      BY <1>1, <1>2, FetchStill DEF SearchInv, SearchPage
    <2>1. \A a \in ads' : a > clock - moves - pages' * PageSize
      BY <1>2, SearchPageTimes
    <2>2. ASSUME total' # Unreported
          PROVE  clock - moves <= total' /\ ads' \subseteq 1 .. total'
      <3>1. clock - moves <= total /\ ads \subseteq 1 .. total /\ total \in Nat
        BY <1>1, <2>2 DEF SearchInv
      <3>2. ASSUME NEW a \in Page(pages) PROVE a \in 1 .. total
        <4>1. a \in 1 .. clock /\ pages * PageSize <= clock - a
          BY <1>2, SearchPageTimes
        <4>2. PageSize <= pages * PageSize /\ pages * PageSize \in Nat
          <5>1. 1 * PageSize <= pages * PageSize /\ pages * PageSize \in Nat
            BY <1>1, Offsets
          <5> QED  BY <1>3, <5>1
        <4> QED  BY <1>3, <3>1, <4>1, <4>2
      <3> QED  BY <1>1, <3>1, <3>2
    <2>3. ASSUME step' = "done" PROVE AtStart \subseteq ads'
      <3>1. CASE fresh = {}
        <4>1. Page(pages) \subseteq ads
          BY <3>1
        <4>2. AtStart \subseteq ads
          BY <1>1, <1>2, <4>1, PageWithoutNews
        <4> QED  BY <1>1, <4>2
      <3>2. CASE ~GoesOn(pages, ads', total')
        BY <1>2, <2>2, <3>2, EndsComplete
      <3> QED  BY <1>1, <2>3, <3>1, <3>2
    <2> QED  BY <2>1, <2>2, <2>3
  <1> QED  BY <1>2, <1>4, SearchPageKeeps DEF IInv

\* A search that stops early, or whose first page fails, calls itself so.
LEMMA StopKeeps ==
    ASSUME IInv, reader = "search", FirstPageFails \/ StopEarly, SearchFrame
    PROVE  IInv'
  <1>1. /\ Domains /\ CoveredInv /\ SearchInv
        /\ UNCHANGED <<kufar, clock, matches, since, deep, silent, inWindow, window>>
        /\ UNCHANGED <<moves, withdrawn, reader, pages, ads, total>>
        /\ step' \in {"done", "failed"} /\ truncated' \in BOOLEAN
        /\ step' = "done" => truncated'
    BY DEF IInv, FirstPageFails, StopEarly, SearchFrame, inputs, Domains
  <1>2. (\A a : Rank(a)' = Rank(a)) /\ AtStart' = AtStart
    BY <1>1, FetchStill
  <1>3. Domains'
    BY <1>1 DEF Domains
  <1>4. CoveredInv'
    BY <1>1, <1>2 DEF CoveredInv
  <1>5. SearchInv'
    BY <1>1, <1>2 DEF SearchInv
  <1> QED  BY <1>1, <1>3, <1>4, <1>5 DEF IInv, OpenInv, ClosedInv

-----------------------------------------------------------------------------
(* The theorems. *)

LEMMA Initial == SearchInit => IInv
  <1> SUFFICES ASSUME SearchInit PROVE IInv
    OBVIOUS
  <1>1. /\ clock \in 0 .. MaxTime - 1 /\ kufar = 1 .. clock /\ matches \in SUBSET Ad
        /\ since \in Ad \cup {Never} /\ deep \in BOOLEAN
        /\ pages = 0 /\ ads = {} /\ silent = {} /\ inWindow = TRUE /\ step = "fetching"
        /\ window = 0 /\ moves = 0 /\ withdrawn = FALSE
        /\ reader \in {"check", "search"} /\ total = Unreported /\ truncated = FALSE
        /\ reader = "search" => matches = Ad /\ since = Never
    BY DEF SearchInit, Init
  <1>2. clock \in 0 .. MaxTime /\ 0 <= clock /\ MaxPages \in Nat \ {0} /\ MaxMoves \in Nat
    BY <1>1, MovesAssumption, PagesAssumption
  <1>3. Domains
    <2>1. window \in 0 .. MaxPages /\ moves \in 0 .. MaxMoves /\ pages \in Nat
      BY <1>1, <1>2
    <2>2. inWindow \in BOOLEAN /\ withdrawn \in BOOLEAN /\ truncated \in BOOLEAN
      BY <1>1
    <2>3. kufar \subseteq 1 .. clock /\ ads \subseteq matches /\ silent \subseteq ads
      BY <1>1
    <2> QED  BY <1>1, <1>2, <2>1, <2>2, <2>3 DEF Domains
  <1>4. CoveredInv
    <2> SUFFICES ASSUME NEW a \in AtStart \cap matches, Rank(a) < pages * PageSize
                 PROVE  FALSE
      BY <1>1, <1>2 DEF CoveredInv
    <2>1. Rank(a) \in Nat /\ pages * PageSize = 0
      BY <1>1, <1>3, Pages, PagesAssumption
    <2> QED  BY <2>1
  <1>5. OpenInv /\ ClosedInv /\ SearchInv
    BY <1>1, <1>2 DEF OpenInv, ClosedInv, SearchInv
  <1> QED  BY <1>3, <1>4, <1>5 DEF IInv

LEMMA Invariance == SearchSpec => []IInv
  <1>1. IInv /\ [SearchNext]_allVars => IInv'
    <2> SUFFICES ASSUME IInv, [SearchNext]_allVars PROVE IInv'
      OBVIOUS
    <2>1. CASE UNCHANGED allVars
      <3>1. /\ UNCHANGED <<kufar, clock, matches, since, deep, moves, withdrawn, reader>>
            /\ UNCHANGED <<pages, ads, silent, inWindow, window, step, total, truncated>>
        BY <2>1 DEF allVars, vars, inputs, loop, searchVars
      <3>2. (\A a : Rank(a)' = Rank(a)) /\ AtStart' = AtStart
        BY <3>1, FetchStill
      <3> QED
        BY <3>1, <3>2
        DEF IInv, Domains, CoveredInv, OpenInv, ClosedInv, SearchInv, Wanted
    <2>2. CASE reader = "check" /\ Next /\ UNCHANGED searchVars
      BY <2>2, CheckPage, CheckFails, PublishKeeps, WithdrawKeeps DEF Next
    <2>3. CASE reader = "search" /\ SearchStep /\ UNCHANGED reader
      <3>1. SearchFrame
        BY <2>3 DEF SearchStep, SearchFrame, inputs
      <3> QED
        BY <2>3, <3>1, FirstPageKeeps, FurtherPageKeeps, StopKeeps DEF SearchStep
    <2>4. CASE reader = "search" /\ MarketMoves /\ UNCHANGED searchVars
      BY <2>4, PublishKeeps, WithdrawKeeps DEF MarketMoves
    <2> QED  BY <2>1, <2>2, <2>3, <2>4 DEF SearchNext
  <1> QED  BY <1>1, Initial, PTL DEF SearchSpec

\* The regular window of a check has every listing since the previous one, for any
\* page size and any number of listings published while it is fetched.
THEOREM WindowHasTheNews == SearchSpec => []WindowIsComplete
  <1>1. IInv => WindowIsComplete
    <2> SUFFICES ASSUME IInv, step = "done", ~withdrawn, since # Never, window < MaxPages,
                        NEW a \in AtStart \cap matches, a >= since
                 PROVE  a \in ads \ silent
      BY DEF WindowIsComplete
    <2>1. reader = "check" /\ Domains /\ OpenInv /\ ClosedInv
      BY DEF IInv, SearchInv, Domains
    <2>2. since \in Nat /\ a \in Nat
      BY <2>1, Times
    <2>3. CASE inWindow
      <3>1. a \in Wanted(1)
        <4>1. a \in 1 .. MaxTime
          BY <2>1 DEF Domains, Ad
        <4>2. a >= 1
          BY <4>1, MovesAssumption
        <4> QED  BY <4>2 DEF Wanted
      <3> QED  BY <2>1, <2>3, <3>1 DEF OpenInv
    <2>4. CASE ~inWindow
      <3>1. a \in ads
        BY <2>1, <2>4 DEF ClosedInv, Wanted
      <3>2. a \notin silent
        BY <2>1, <2>2, <2>4 DEF ClosedInv
      <3> QED  BY <3>1, <3>2
    <2> QED  BY <2>3, <2>4
  <1> QED  BY <1>1, Invariance, PTL

\* Nothing since the previous check is silent: as many listings as a page has may be
\* published or withdrawn while the pages of a deep scan are fetched.
THEOREM SilentIsOld == SearchSpec => []SilentAreOld
  <1>1. IInv => SilentAreOld
    <2> SUFFICES ASSUME IInv PROVE SilentAreOld
      OBVIOUS
    <2>1. Domains
      BY DEF IInv
    <2>2. TypeOK
      <3>1. kufar \subseteq Ad
        BY <2>1, MovesAssumption DEF Domains, Ad
      <3> QED  BY <2>1, <3>1 DEF Domains, TypeOK
    <2>3. CASE silent = {}
      BY <2>2, <2>3 DEF SilentAreOld
    <2>4. CASE silent # {}
      BY <2>1, <2>2, <2>4 DEF IInv, OpenInv, ClosedInv, SearchInv, SilentAreOld, Domains
    <2> QED  BY <2>3, <2>4
  <1> QED  BY <1>1, Invariance, PTL

\* A search that does not call itself truncated has all there was when it began, unless
\* a listing was withdrawn or a page full of listings published meanwhile.
THEOREM SearchesAreComplete == SearchSpec => []CompleteUnlessTruncated
  <1>1. IInv => CompleteUnlessTruncated
    BY DEF IInv, SearchInv, CompleteUnlessTruncated
  <1> QED  BY <1>1, Invariance, PTL
=============================================================================
