----------------------------- MODULE SearchPages -----------------------------
(***************************************************************************)
(* KufarClient.search_all_ads: the pages a request of the Mini App fetches *)
(* from the same moving market as FetchSample.  It ends at the last page,  *)
(* at the total Kufar reported, at a page without news, and early, with    *)
(* the flag `truncated`, at its page limit, its deadline or a page that    *)
(* fails.  Every listing has an id, and a cursor is never repeated.        *)
(***************************************************************************)
EXTENDS FetchSample

CONSTANT SearchPageLimit    \* max_pages of the caller

ASSUME SearchAssumption == SearchPageLimit \in Nat \ {0}

VARIABLES
    reader,     \* who fetches: a check of the collector or a search
    total,      \* the total of the first page, if Kufar reported one
    truncated   \* whether the search ended early

searchVars == <<reader, total, truncated>>
allVars == <<vars, searchVars>>

Unreported == -1

\* A search knows nothing but its pages.
SearchInit ==
    /\ Init
    /\ reader \in {"check", "search"}
    /\ reader = "search" => matches = Ad /\ known = {} /\ since = Never /\ ~deep
    /\ total = Unreported
    /\ truncated = FALSE

\* The loop goes on while there is a cursor and the total is not reached.
GoesOn(n, sample, size) ==
    HasNextPage(n) /\ (size # Unreported => Cardinality(sample) < size)

FirstPage ==
    /\ step = "fetching" /\ pages = 0
    /\ pages' = 1
    /\ ads' = Page(0)
    /\ total' \in {Unreported, Cardinality(kufar)}
    /\ step' = IF GoesOn(0, ads', total') THEN "fetching" ELSE "done"
    /\ UNCHANGED truncated

\* Only a failure of the first page is one of the search.
FirstPageFails ==
    /\ step = "fetching" /\ pages = 0
    /\ step' = "failed"
    /\ UNCHANGED <<pages, ads, total, truncated>>

\* Mutant: a page that is not full of news must be the last one.
FurtherPageShort ==
    LET fresh == Page(pages) \ ads IN
    /\ step = "fetching" /\ pages \in 1 .. SearchPageLimit - 1
    /\ pages' = pages + 1
    /\ ads' = ads \cup fresh
    /\ step' = IF Cardinality(fresh) = PageSize /\ GoesOn(pages, ads', total)
               THEN "fetching" ELSE "done"
    /\ UNCHANGED <<total, truncated>>

FurtherPage ==
    LET fresh == Page(pages) \ ads IN
    /\ step = "fetching" /\ pages \in 1 .. SearchPageLimit - 1
    /\ pages' = pages + 1
    /\ ads' = ads \cup fresh
    /\ step' = IF fresh # {} /\ GoesOn(pages, ads', total) THEN "fetching" ELSE "done"
    /\ UNCHANGED <<total, truncated>>

\* The page limit, which no page passes, the deadline or a page that fails.
StopEarly ==
    /\ step = "fetching" /\ pages > 0
    /\ step' = "done"
    /\ truncated' = TRUE
    /\ UNCHANGED <<pages, ads, total>>

SearchStep ==
    /\ FirstPage \/ FirstPageFails \/ FurtherPage \/ StopEarly
    /\ UNCHANGED <<kufar, clock, inputs, silent, inWindow, window, moves, withdrawn>>

MarketMoves == Publish \/ \E a \in Ad : Withdraw(a)

SearchNext ==
    \/ reader = "check" /\ Next /\ UNCHANGED searchVars
    \/ reader = "search" /\ SearchStep /\ UNCHANGED reader
    \/ reader = "search" /\ MarketMoves /\ UNCHANGED searchVars

SearchSpec == SearchInit /\ [][SearchNext]_allVars

-----------------------------------------------------------------------------

\* A search that does not call itself truncated has every listing there was when it
\* began, although new ones push the others from page to page and the total and the
\* pages without news end it: rare markets, thin markets and lots that are gone are
\* told from nothing else (the docstring of QueryDataset).  A listing that is
\* withdrawn, or a page full of new ones, can hide another; then nobody notices.
CompleteUnlessTruncated ==
    reader = "search" /\ step = "done" /\ ~truncated /\ ~withdrawn /\ moves < PageSize =>
        AtStart \subseteq ads
=============================================================================
