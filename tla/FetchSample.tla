----------------------------- MODULE FetchSample -----------------------------
(***************************************************************************)
(* _fetch_group_sample: the pages of recent listings that one check of a   *)
(* query key fetches from Kufar.  The regular window ends after a page     *)
(* that brings nothing unknown and reaches back to the previous check; a   *)
(* deep scan goes on and records what it first meets silently.             *)
(*                                                                         *)
(* A listing is the time it was published.  Kufar sorts by that time, and  *)
(* its cursor is the number of the next page, so a listing published while *)
(* the pages are fetched moves the others down, one withdrawn moves them   *)
(* up.                                                                     *)
(***************************************************************************)
EXTENDS Integers, FiniteSets

CONSTANTS
    MaxTime,    \* bound: listings are published at 1 .. MaxTime
    PageSize,   \* PAGE_SIZE
    MaxPages,   \* MAX_PAGES_PER_GROUP
    DeepPages,  \* DEEP_SCAN_MAX_PAGES
    MaxMoves    \* bound: listings published or withdrawn during the fetch

ASSUME PagesAssumption ==
    /\ PageSize \in Nat \ {0}
    /\ MaxPages \in Nat \ {0}
    /\ DeepPages \in Nat /\ DeepPages >= MaxPages
ASSUME MovesAssumption == MaxTime \in Nat /\ MaxMoves \in 0 .. PageSize

VARIABLES
    kufar,      \* the listings Kufar has for the query
    clock,      \* when the last of them was published
    matches,    \* the listings apply_search_mode keeps
    known,      \* load_known_ad_ids
    since,      \* the previous check of the group
    deep,       \* whether this is a deep scan
    pages, ads, silent, inWindow,   \* the local variables of the loop
    step,
    window,     \* history: the pages of the regular window
    moves,      \* history: listings published or withdrawn during the fetch
    withdrawn   \* history: whether any was withdrawn

inputs == <<matches, known, since, deep>>
loop == <<pages, ads, silent, inWindow, step, window>>
vars == <<kufar, clock, inputs, loop, moves, withdrawn>>

-----------------------------------------------------------------------------

Ad == 1 .. MaxTime
Never == MaxTime + 1      \* since is None: no listing is that new

PagesAllowed == IF deep THEN DeepPages ELSE MaxPages

\* The place of a listing among all, newest first.
Rank(a) == Cardinality({b \in kufar : b > a})

\* The listings of page n, counted from 0.
Page(n) == {a \in kufar : Rank(a) \in n * PageSize .. (n + 1) * PageSize - 1}
HasNextPage(n) == Page(n + 1) # {}

\* Mutant: only unknown listings keep the window open.
ReachesSinceNever(page) == FALSE

\* _page_reaches_since: even the oldest listing is newer than the last check
\* (the slack of LIST_TIME_SLACK_MINUTES is part of `since`).
ReachesSince(page) == page # {} /\ \A a \in page : a >= since

\* Only listings that match were ever recorded; a key that is no baseline may know none
\* of those on sale.  A group that was never checked is not scanned deeply.
Init ==
    /\ clock \in 0 .. MaxTime - 1
    /\ kufar = 1 .. clock
    /\ matches \in SUBSET Ad
    /\ known \in SUBSET (kufar \cap matches)
    /\ since \in Ad \cup {Never}
    /\ deep \in BOOLEAN
    /\ deep => since # Never
    /\ pages = 0
    /\ ads = {}
    /\ silent = {}
    /\ inWindow = TRUE
    /\ step = "fetching"
    /\ window = 0
    /\ moves = 0
    /\ withdrawn = FALSE

-----------------------------------------------------------------------------

\* Listings first met beyond the regular window.
Silent(fresh) == IF inWindow THEN silent ELSE silent \cup fresh

FetchPage ==
    LET page == Page(pages)
        fresh == (page \cap matches) \ ads
    IN
    /\ step = "fetching"
    /\ pages < PagesAllowed
    /\ pages' = pages + 1
    /\ ads' = ads \cup fresh
    /\ silent' = Silent(fresh)
    /\ inWindow' = /\ inWindow
                   /\ pages' < MaxPages
                   /\ fresh \ known # {} \/ ReachesSince(page)
    /\ window' = IF inWindow THEN window + 1 ELSE window
    /\ step' = IF (inWindow' \/ deep) /\ HasNextPage(pages) /\ pages' < PagesAllowed
               THEN "fetching" ELSE "done"
    /\ UNCHANGED <<kufar, clock, inputs, moves, withdrawn>>

\* A page that cannot be fetched fails the group inside the window, and ends a
\* deep scan beyond it.
PageFails ==
    /\ step = "fetching"
    /\ step' = IF inWindow THEN "failed" ELSE "done"
    /\ UNCHANGED <<kufar, clock, inputs, pages, ads, silent, inWindow, window, moves, withdrawn>>

Publish ==
    /\ step = "fetching"
    /\ moves < MaxMoves
    /\ clock < MaxTime
    /\ clock' = clock + 1
    /\ kufar' = kufar \cup {clock'}
    /\ moves' = moves + 1
    /\ UNCHANGED <<inputs, loop, withdrawn>>

Withdraw(a) ==
    /\ step = "fetching"
    /\ moves < MaxMoves
    /\ a \in kufar
    /\ kufar' = kufar \ {a}
    /\ moves' = moves + 1
    /\ withdrawn' = TRUE
    /\ UNCHANGED <<clock, inputs, loop>>

Next ==
    \/ FetchPage
    \/ PageFails
    \/ Publish
    \/ \E a \in Ad : Withdraw(a)

Spec == Init /\ [][Next]_vars

-----------------------------------------------------------------------------
(* Properties. *)

\* The loop's variables and the bounds it must keep.
TypeOK ==
    /\ kufar \subseteq Ad /\ clock \in 0 .. MaxTime
    /\ pages \in Nat
    /\ window \in 0 .. MaxPages
    /\ ads \subseteq matches
    /\ silent \subseteq ads
    /\ inWindow \in BOOLEAN
    /\ step \in {"fetching", "done", "failed"}
    /\ moves \in 0 .. MaxMoves /\ withdrawn \in BOOLEAN

\* The listings there were when the fetch began.
AtStart == kufar \cap 1 .. clock - moves

\* Every listing published since the previous check is in the sample and not
\* silent, unless the window was full, although new listings move the others from
\* page to page meanwhile and strict mode hides whole pages of fresh listings
\* (the docstring of _page_reaches_since).
WindowIsComplete ==
    step = "done" /\ ~withdrawn /\ since # Never /\ window < MaxPages =>
        \A a \in AtStart \cap matches : a >= since => a \in ads \ silent

\* "Recorded silently: they are old, not new" (DEEP_SCAN_INTERVAL_HOURS): nothing
\* published since the previous check is silent unless the window was full, even
\* if listings appear and vanish between two pages.
SilentAreOld ==
    TypeOK /\ (window < MaxPages => \A a \in silent : a < since)

=============================================================================
