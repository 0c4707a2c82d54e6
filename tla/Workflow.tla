------------------------------- MODULE Workflow -------------------------------
(***************************************************************************)
(* The leads, the watchlist and the saved searches of one user.            *)
(*                                                                         *)
(* A request reads in one statement and writes at its commit; in between   *)
(* other requests commit.  What creates a row first writes the user's row  *)
(* of `users` (ensure_user), whose lock it keeps until its commit, so that *)
(* creations run one at a time.  Changes and deletions take no lock, and a *)
(* commit writes only the columns that its request changed.                *)
(*                                                                         *)
(* A refresh of the watchlist reads its queries, searches Kufar within one *)
(* time budget and outside any transaction, and writes what it found to    *)
(* the rows there are by then.  What it searches with is shared: a load    *)
(* that another user began is joined, and a dataset in the cache is taken. *)
(***************************************************************************)
EXTENDS Integers, FiniteSets, Sequences, SequencesExt

CONSTANTS
    Request,        \* requests of the user
    Ad,             \* listings
    Query,          \* search texts
    Search,         \* saved searches
    Early, Late,    \* lead statuses inside and outside LEAD_STATUSES_OPEN_TO_UPSERT
    New,            \* DEFAULT_LEAD_STATUS and the workflow status of a new watchlist row
    Note,           \* a note
    MaxWatch,       \* MAX_WATCHLIST_ITEMS_PER_USER
    MaxSaved,       \* MAX_ACTIVE_SAVED_SEARCHES_PER_USER
    PageSize,       \* listings of a page
    Concurrency,    \* kufar_parallel_semaphore
    Budget,         \* MULTI_SEARCH_BUDGET_SECONDS, in ticks
    Least,          \* MIN_SEARCH_BUDGET_SECONDS
    Grace           \* SEARCH_DEADLINE_GRACE_SECONDS

None == "none"

ASSUME WorkflowAssumption ==
    /\ New \in Early /\ Early \cap Late = {} /\ None \notin Early \cup Late
    /\ MaxWatch \in Nat /\ MaxSaved \in Nat /\ PageSize \in Nat \ {0}
    /\ Concurrency \in Nat \ {0}
    /\ Budget \in Nat /\ Least \in Nat \ {0} /\ Grace \in Nat

VARIABLES
    lead,       \* LeadItem rows, by listing
    watch,      \* WatchlistItem rows, by listing
    saved,      \* the active saved searches
    lock,       \* the request that holds the lock of the user's row, if any
    request,    \* what each request has read
    seen,       \* the watched listings, the longest unseen first
    market,     \* the listings on sale
    refresh,    \* the refresh of the watchlist
    load,       \* by query, the search of Kufar under way: what it can meet, and how many
                \* listings were published since it began
    dataset,    \* by query, the dataset the last search left, in the cache for a while
    told,       \* history: the status the user last gave each watched listing
    standing    \* history: by query, what is on sale since the load of its dataset began,
                \* if nothing hid it from that load

tables == <<lead, watch, saved, seen, told>>
vars == <<tables, lock, request, market, refresh, load, dataset, standing>>

-----------------------------------------------------------------------------

Status == Early \cup Late
WatchStatus == {New} \cup Late     \* bound: those of a watchlist row
NoRow == [query |-> None, status |-> None, market |-> None]
\* "listed" stands for active, price_drop and duplicate, which Pricing tells apart.
MarketStatus == {"listed", "missing"}
NoLead == [status |-> None, note |-> None]

NoWatch == [a \in Ad |-> NoRow]
NoDataset == [q \in Query |-> {}]
NoLoad == [q \in Query |-> {}]
Idle == [op |-> "idle"]
Untouched == [step |-> "idle"]

Watched == {a \in Ad : watch[a] # NoRow}
QueryOf(a) == watch[a].query

\* _queries_by_staleness: each query once, the one with the longest unseen lot first.
StalestFirst ==
    LET first(q) == CHOOSE i \in DOMAIN seen :
                        QueryOf(seen[i]) = q /\ \A j \in 1 .. i - 1 : QueryOf(seen[j]) # q
    IN SetToSortSeq({QueryOf(a) : a \in Watched}, LAMBDA p, q : first(p) < first(q))

\* The listing is gone, or was just seen.
Dropped(order, a) == RemoveAt(order, CHOOSE i \in DOMAIN order : order[i] = a)
MovedLast(order, a) == Append(IF a \in ToSet(order) THEN Dropped(order, a) ELSE order, a)

Init ==
    /\ lead = [a \in Ad |-> NoLead]
    /\ watch = NoWatch
    /\ saved = {}
    /\ lock = {}
    /\ request = [r \in Request |-> Idle]
    /\ seen = <<>>
    /\ market = {}
    /\ refresh = Untouched
    /\ load = NoLoad
    /\ dataset = NoDataset
    /\ told = [a \in Ad |-> None]
    /\ standing = [q \in Query |-> {}]

\* Bound: the user works with one of the three tables at a time; they share the lock
\* of the user's row and nothing else.
OnlyLeads ==
    /\ watch = NoWatch /\ saved = {}
    /\ market = {} /\ load = NoLoad /\ dataset = NoDataset /\ refresh = Untouched
OnlyWatchlist == lead = [a \in Ad |-> NoLead] /\ saved = {}
OnlySaved == saved # {} \/ (OnlyLeads /\ lead = [a \in Ad |-> NoLead])

Begin(r, read) ==
    /\ request[r] = Idle
    /\ request' = [request EXCEPT ![r] = read]

\* ensure_user waits for the lock of the user's row.
BeginLocked(r, read) ==
    /\ lock = {}
    /\ lock' = {r}
    /\ Begin(r, read)

End(r) ==
    /\ request' = [request EXCEPT ![r] = Idle]
    /\ lock' = lock \ {r}

External == <<market, refresh, load, dataset, standing>>

-----------------------------------------------------------------------------
(* Leads. *)

\* create_lead, and _save_alert_lead with the statuses of the alert's buttons.
ReadLeadToAdd(r, a, status, note) ==
    /\ OnlyLeads
    /\ BeginLocked(r, [op |-> "add lead", ad |-> a, row |-> lead[a],
                       status |-> status, note |-> note])
    /\ UNCHANGED <<tables, External>>

\* upsert_lead: an unchanged column is not written, so it keeps what others wrote.
UpsertedStatus(read) ==
    IF \/ read.row = NoLead
       \/ read.status # New /\ read.row.status \in Early /\ read.row.status # read.status
    THEN read.status
    ELSE lead[read.ad].status

UpsertedNote(read) ==
    IF read.row = NoLead \/ (read.note # None /\ read.row.note = None)
    THEN read.note ELSE lead[read.ad].note

CommitLead(r) ==
    LET read == request[r] IN
    /\ read.op = "add lead"
    /\ lead' = [lead EXCEPT ![read.ad] = [status |-> UpsertedStatus(read),
                                          note |-> UpsertedNote(read)]]
    /\ End(r)
    /\ UNCHANGED <<watch, saved, seen, told, External>>

\* update_lead: there is no deletion, so what is read stays.
ReadLeadToChange(r, a, status, note) ==
    /\ OnlyLeads /\ lead[a] # NoLead
    /\ Begin(r, [op |-> "change lead", ad |-> a, row |-> lead[a],
                 status |-> status, note |-> note])
    /\ UNCHANGED <<tables, lock, External>>

\* A value equal to the one that was read is not written.
Changed(old, new, now) == IF new = old THEN now ELSE new

CommitLeadChange(r) ==
    LET read == request[r] IN
    /\ read.op = "change lead"
    /\ lead' = [lead EXCEPT ![read.ad] =
                    [status |-> Changed(read.row.status, read.status, @.status),
                     note |-> Changed(read.row.note, read.note, @.note)]]
    /\ End(r)
    /\ UNCHANGED <<watch, saved, seen, told, External>>

-----------------------------------------------------------------------------
(* The watchlist. *)

\* Mutant: additions do not wait for each other.
ReadWatchToAddUnlocked(r, a, q) ==
    /\ OnlyWatchlist
    /\ watch[a] # NoRow \/ Cardinality(Watched) < MaxWatch
    /\ Begin(r, [op |-> "watch", ad |-> a, isNew |-> watch[a] = NoRow, query |-> q])
    /\ UNCHANGED <<tables, lock, External>>

\* create_watchlist_item: the row, or the number of rows.
ReadWatchToAdd(r, a, q) ==
    /\ OnlyWatchlist
    /\ watch[a] # NoRow \/ Cardinality(Watched) < MaxWatch
    /\ BeginLocked(r, [op |-> "watch", ad |-> a, isNew |-> watch[a] = NoRow, query |-> q])
    /\ UNCHANGED <<tables, External>>

CommitWatch(r) ==
    LET read == request[r]
        row == IF read.isNew
               THEN [query |-> read.query, status |-> New, market |-> "listed"]
               ELSE [watch[read.ad] EXCEPT !.query = read.query]
    IN
    /\ read.op = "watch"
    /\ watch' = [watch EXCEPT ![read.ad] = row]
    /\ seen' = MovedLast(seen, read.ad)
    /\ told' = [told EXCEPT ![read.ad] = IF read.isNew THEN New ELSE @]
    /\ End(r)
    /\ UNCHANGED <<lead, saved, External>>

\* update_watchlist_item
ReadWatchToChange(r, a, status) ==
    /\ OnlyWatchlist /\ watch[a] # NoRow
    /\ Begin(r, [op |-> "change watch", ad |-> a, read |-> watch[a].status, status |-> status])
    /\ UNCHANGED <<tables, lock, External>>

CommitWatchChange(r) ==
    LET read == request[r]
        status == Changed(read.read, read.status, watch[read.ad].status)
    IN
    /\ read.op = "change watch"
    /\ watch' = [watch EXCEPT ![read.ad].status = status]
    /\ told' = [told EXCEPT ![read.ad] = status]
    /\ End(r)
    /\ UNCHANGED <<lead, saved, seen, External>>

\* The requests that hold a row of the listing and may write it.
ReadRow(read, a) ==
    /\ read.op \in {"watch", "change watch"} /\ read.ad = a
    /\ read.op = "watch" => ~read.isNew

\* delete_watchlist_item.  Who has read the row finds it gone at the commit, also if
\* the listing has a new row by then (StaleDataError).
DeleteWatch(a) ==
    /\ OnlyWatchlist /\ watch[a] # NoRow
    /\ watch' = [watch EXCEPT ![a] = NoRow]
    /\ seen' = Dropped(seen, a)
    /\ told' = [told EXCEPT ![a] = None]
    /\ request' = [r \in Request |-> IF ReadRow(request[r], a)
                                      THEN [op |-> "stale"] ELSE request[r]]
    /\ refresh' = IF refresh.step = "applying"
                  THEN [refresh EXCEPT !.gone = @ \cup {a}] ELSE refresh
    /\ UNCHANGED <<lead, saved, lock, market, load, dataset, standing>>

\* A request whose row is gone, or that the database refuses, changes nothing.
Fail(r) ==
    /\ request[r] # Idle
    /\ End(r)
    /\ UNCHANGED <<tables, External>>

-----------------------------------------------------------------------------
(* Saved searches. *)

\* create_saved_search
ReadSaved(r) ==
    /\ OnlySaved
    /\ Cardinality(saved) < MaxSaved
    /\ BeginLocked(r, [op |-> "save"])
    /\ UNCHANGED <<tables, External>>

CommitSaved(r, s) ==
    /\ request[r].op = "save" /\ s \notin saved
    /\ saved' = saved \cup {s}
    /\ End(r)
    /\ UNCHANGED <<lead, watch, seen, told, External>>

\* delete_saved_search
DeleteSaved(s) ==
    /\ s \in saved
    /\ saved' = saved \ {s}
    /\ UNCHANGED <<lead, watch, seen, told, lock, request, External>>

-----------------------------------------------------------------------------
(* Kufar, where every listing answers every query, and the searches of it. *)

\* get_or_load: nobody has loaded the query, and nobody does.
BeginLoad(q) ==
    /\ dataset[q] = {} /\ load[q] = {}
    /\ load' = [load EXCEPT ![q] = {[met |-> market, moves |-> 0]}]
    /\ standing' = [standing EXCEPT ![q] = market]

\* Another user has the same query.
OthersLoad(q) ==
    /\ OnlyWatchlist
    /\ BeginLoad(q)
    /\ UNCHANGED <<tables, lock, request, market, refresh, dataset>>

\* New listings push the others to later pages.  After a page full of them the next page
\* brings no news, which ends the search (SearchPages).
Pushed(l, new) == [met |-> l.met \cup new,
                   moves |-> IF l.moves < PageSize THEN l.moves + 1 ELSE PageSize]
StandingAfter(q) == IF \E l \in load[q] : l.moves + 1 >= PageSize THEN {} ELSE standing[q]

Publish(a) ==
    /\ OnlyWatchlist /\ a \notin market
    /\ market' = market \cup {a}
    /\ load' = [q \in Query |-> {Pushed(l, {a}) : l \in load[q]}]
    /\ standing' = [q \in Query |-> StandingAfter(q)]
    /\ UNCHANGED <<tables, lock, request, refresh, dataset>>

\* A listing that leaves its page can hide another from a search under way.
Withdraw(a) ==
    /\ OnlyWatchlist /\ a \in market
    /\ market' = market \ {a}
    /\ standing' = [q \in Query |-> IF load[q] = {} THEN standing[q] \ {a} ELSE {}]
    /\ UNCHANGED <<tables, lock, request, refresh, load, dataset>>

\* So do listings that nobody watches, and those that are bumped to the first page.
OtherPublished(q) ==
    /\ load[q] # {} /\ standing[q] # {}
    /\ load' = [load EXCEPT ![q] = {Pushed(l, {}) : l \in @}]
    /\ standing' = [standing EXCEPT ![q] = StandingAfter(q)]
    /\ UNCHANGED <<tables, lock, request, market, refresh, dataset>>

OtherMoved(q) ==
    /\ load[q] # {} /\ standing[q] # {}
    /\ standing' = [standing EXCEPT ![q] = {}]
    /\ UNCHANGED <<tables, lock, request, market, refresh, load, dataset>>

-----------------------------------------------------------------------------
(* The refresh of the watchlist. *)

Loading == refresh.step = "loading"

StartRefresh ==
    /\ refresh.step \in {"idle", "applied"} /\ Watched # {}
    /\ refresh' = [step |-> "loading", todo |-> StalestFirst, running |-> {}, left |-> Budget,
                   results |-> {}, skipped |-> {}, failed |-> {}]
    /\ UNCHANGED <<tables, lock, request, market, load, dataset, standing>>

Proceed(next) ==
    /\ Loading
    /\ refresh' = next
    /\ UNCHANGED <<tables, lock, request, market, dataset>>

Unchanged == UNCHANGED <<load, standing>>
SlotFree == refresh.todo # <<>> /\ Cardinality(refresh.running) < Concurrency
UpNext == Head(refresh.todo)

\* gather_within_budget: the searches start in order, if there is time for one, and join
\* a load that is under way.
StartSearch ==
    /\ Loading /\ SlotFree /\ refresh.left >= Least
    /\ dataset[UpNext] = {}
    /\ Proceed([refresh EXCEPT !.todo = Tail(@), !.running = @ \cup {UpNext}])
    /\ \/ BeginLoad(UpNext)
       \/ load[UpNext] # {} /\ Unchanged

SearchCached ==
    /\ Loading /\ SlotFree /\ refresh.left >= Least
    /\ dataset[UpNext] # {}
    /\ Proceed([refresh EXCEPT !.todo = Tail(@), !.results = @ \cup {UpNext}])
    /\ Unchanged

SkipSearch ==
    /\ Loading /\ SlotFree /\ refresh.left < Least
    /\ Proceed([refresh EXCEPT !.todo = Tail(@), !.skipped = @ \cup {UpNext}])
    /\ Unchanged

\* Time passes while searches are waited for, and also before they start: the event loop
\* may be late.
Tick ==
    /\ Loading /\ refresh.left > -Grace
    /\ Proceed([refresh EXCEPT !.left = @ - 1])
    /\ Unchanged

Waits(q) == Loading /\ q \in refresh.running
Finished(q, bucket) == [refresh EXCEPT !.running = @ \ {q}, ![bucket] = @ \cup {q}]

\* The answer of Kufar, of which a truncated one is a part only.  Any other has what
\* SearchPages!CompleteUnlessTruncated says.
LoadEnds(q, found, truncated) ==
    /\ \E l \in load[q] : found \subseteq l.met
    /\ truncated \/ standing[q] \subseteq found
    /\ load' = [load EXCEPT ![q] = {}]
    /\ dataset' = [dataset EXCEPT ![q] = {[ads |-> found, truncated |-> truncated]}]
    /\ refresh' = IF Waits(q) THEN Finished(q, "results") ELSE refresh
    /\ UNCHANGED <<tables, lock, request, market, standing>>

LoadFails(q) ==
    /\ load[q] # {}
    /\ load' = [load EXCEPT ![q] = {}]
    /\ standing' = [standing EXCEPT ![q] = {}]
    /\ refresh' = IF Waits(q) THEN Finished(q, "failed") ELSE refresh
    /\ UNCHANGED <<tables, lock, request, market, dataset>>

\* The refresh waits no longer; the load goes on without it (asyncio.shield).
SearchLate(q) ==
    /\ Waits(q) /\ refresh.left <= -Grace
    /\ Proceed(Finished(q, "skipped")) /\ Unchanged

\* A cached dataset expires, or was never cached.  Bound: not before the refresh that
\* holds it is done with it.
Expire(q) ==
    /\ dataset[q] # {}
    /\ Loading => q \notin refresh.results
    /\ refresh.step # "applying"
    /\ dataset' = [dataset EXCEPT ![q] = {}]
    /\ standing' = [standing EXCEPT ![q] = {}]
    /\ UNCHANGED <<tables, lock, request, market, refresh, load>>

Gathered == Loading /\ refresh.todo = <<>> /\ refresh.running = {}

\* _load_watchlist_datasets: when nothing was found and something failed, the user is
\* told so.
RefreshFails ==
    /\ Gathered /\ refresh.results = {} /\ refresh.failed # {}
    /\ Proceed(Untouched) /\ Unchanged

\* The second session reads the rows there are by now.
SelectItems ==
    /\ Gathered
    /\ refresh.results # {} \/ refresh.failed = {}
    /\ Proceed([step |-> "applying", rows |-> watch, gone |-> {},
             results |-> refresh.results, skipped |-> refresh.skipped])
    /\ Unchanged

Checked(a) == refresh.rows[a] # NoRow /\ refresh.rows[a].query \in refresh.results
Found(a) == \E d \in dataset[refresh.rows[a].query] : a \in d.ads

\* Mutant: a lot that is not in a part of the market is missing, too.
MissingInPart(a) == Checked(a) /\ ~Found(a)

Missing(a) ==
    Checked(a) /\ ~Found(a) /\ \E d \in dataset[refresh.rows[a].query] : ~d.truncated

\* The rows the commit writes to.
Written == {a \in Ad : \/ Checked(a) /\ Found(a)
                       \/ Missing(a) /\ refresh.rows[a].market # "missing"}

\* Mutant: the rows are written as they were read.
RefreshedWhole(a) ==
    IF a \notin Written THEN watch[a]
    ELSE [refresh.rows[a] EXCEPT !.market = IF Missing(a) THEN "missing" ELSE "listed"]

\* The columns that refresh_watchlist changes.
Refreshed(a) ==
    IF a \notin Written THEN watch[a]
    ELSE [watch[a] EXCEPT !.market = IF Missing(a) THEN "missing" ELSE "listed"]

\* Found lots were seen now, in whatever order the rows are; the others keep theirs.
SeenNow(found) ==
    {order \in SetToSeqs(Watched) : \A i, j \in DOMAIN order : i < j =>
        \/ order[j] \in found
        \/ /\ order[i] \notin found
           /\ \A m, n \in DOMAIN seen : seen[m] = order[i] /\ seen[n] = order[j] => m < n}

CommitRefresh ==
    /\ refresh.step = "applying" /\ Written \cap refresh.gone = {}
    /\ watch' = [a \in Ad |-> Refreshed(a)]
    /\ seen' \in SeenNow({a \in Ad : Checked(a) /\ Found(a)})
    /\ refresh' = [step |-> "applied", skipped |-> refresh.skipped, results |-> refresh.results]
    /\ UNCHANGED <<lead, saved, told, lock, request, market, load, dataset, standing>>

\* A row it writes to was deleted: all of the refresh is lost, as if the database failed.
RefreshStale ==
    /\ refresh.step = "applying"
    /\ refresh' = Untouched
    /\ UNCHANGED <<tables, lock, request, market, load, dataset, standing>>

-----------------------------------------------------------------------------

Lead(r) ==
    \/ \E a \in Ad, status \in Status, note \in {None, Note} :
           \/ ReadLeadToAdd(r, a, status, note)
           \/ ReadLeadToChange(r, a, status, note)
    \/ CommitLead(r)
    \/ CommitLeadChange(r)

Watchlist(r) ==
    \/ \E a \in Ad, q \in Query : ReadWatchToAdd(r, a, q)
    \/ \E a \in Ad, status \in WatchStatus : ReadWatchToChange(r, a, status)
    \/ CommitWatch(r)
    \/ CommitWatchChange(r)

SavedSearches(r) == ReadSaved(r) \/ \E s \in Search : CommitSaved(r, s)

RefreshStep ==
    \/ StartSearch \/ SearchCached \/ SkipSearch \/ Tick
    \/ \E q \in Query :
           \/ \E found \in SUBSET Ad, truncated \in BOOLEAN : LoadEnds(q, found, truncated)
           \/ LoadFails(q) \/ SearchLate(q)
    \/ RefreshFails \/ SelectItems \/ CommitRefresh \/ RefreshStale

Next ==
    \/ \E r \in Request : Lead(r) \/ Watchlist(r) \/ SavedSearches(r) \/ Fail(r)
    \/ \E a \in Ad : DeleteWatch(a) \/ Publish(a) \/ Withdraw(a)
    \/ \E s \in Search : DeleteSaved(s)
    \/ \E q \in Query : Expire(q) \/ OthersLoad(q) \/ OtherPublished(q) \/ OtherMoved(q)
    \/ StartRefresh \/ RefreshStep

Spec == Init /\ [][Next]_vars

-----------------------------------------------------------------------------
(* Properties. *)

\* The rows, the requests' reads and the budget.
TypeOK ==
    /\ lead \in [Ad -> {NoLead} \cup [status: Status, note: {None, Note}]]
    /\ watch \in [Ad -> {NoRow} \cup [query: Query, status: Status, market: MarketStatus]]
    /\ saved \subseteq Search /\ lock \subseteq Request /\ Cardinality(lock) <= 1
    /\ ToSet(seen) = Watched /\ Len(seen) = Cardinality(Watched)
    /\ Loading => refresh.left \in -Grace .. Budget /\ Cardinality(refresh.running) <= Concurrency
    /\ \A q \in Query : standing[q] \subseteq market

\* "Serialize one user's adds so parallel requests cannot pass the quota together"
\* (workflow.py:171, saved_searches.py:149), with deletions that take no lock.
QuotasKept ==
    /\ TypeOK
    /\ Cardinality(Watched) <= MaxWatch
    /\ Cardinality(saved) <= MaxSaved

\* A refresh or a repeated "add" that read a row before the user changed or deleted it
\* neither sets the user's status back nor brings the row back (workflow.py:318).
UserStatusKept == \A a \in Ad : watch[a].status = told[a]

\* "A repeated add (Mini App button, alert button) ... must never downgrade a lead that
\* is already in work, bought or sold" (workflow_store.py:24), whatever the user has
\* committed since the button's request read the lead.
NeverDowngraded ==
    [][\A r \in Request : CommitLead(r) /\ lead[request[r].ad].status \in Late =>
        lead'[request[r].ad].status = lead[request[r].ad].status]_vars

\* A lot is marked missing only if it was not on sale at some moment since the load of
\* its query's dataset began, or something may have hidden it from that load: never for
\* a search that failed, was late or saw a part of the market (docstring of
\* refresh_watchlist), whatever was added, deleted, cached, joined or published
\* meanwhile.  So a lot that was published or bumped while the load ran may be called
\* missing, and one that a withdrawal, a bump or a page full of new ones hid.
MissingIsGone ==
    [][\A a \in Ad :
        watch'[a].market = "missing" /\ watch[a].market # "missing" =>
            a \notin standing[refresh.rows[a].query]]_vars

\* "When the time budget runs out, repeated refreshes then reach the queries skipped
\* before" (_queries_by_staleness): a query that stays on the watchlist is not skipped
\* for ever by refreshes that do check other queries.
SkippedAreReached ==
    \A q \in Query :
        /\ <>[](\E a \in Ad : watch[a].query = q)
        /\ []<>(refresh.step = "applied" /\ refresh.results # {})
        => []<>(refresh.step = "applied" /\ q \notin refresh.skipped)
=============================================================================
