------------------------------ MODULE MCWorkflow ------------------------------
(* Small instances of Workflow, and refreshes of a watchlist that nobody touches. *)
EXTENDS Workflow, TLC

Symmetry == Permutations(Request) \cup Permutations(Ad) \cup Permutations(Query)

\* Every listing is watched, by a query of its own, and the market stands still.
QuietInit ==
    /\ lead = [a \in Ad |-> NoLead]
    /\ \E query \in [Ad -> Query] :
        /\ \A a, b \in Ad : query[a] = query[b] => a = b
        /\ watch = [a \in Ad |-> [query |-> query[a], status |-> New, market |-> "listed"]]
    /\ saved = {} /\ lock = {} /\ request = [r \in Request |-> Idle]
    /\ seen \in SetToSeqs(Ad)
    /\ market \in SUBSET Ad
    /\ refresh = Untouched /\ load = NoLoad /\ dataset = NoDataset
    /\ told = [a \in Ad |-> New]
    /\ standing = [q \in Query |-> {}]

\* The event loop is not late: time passes only while a search is waited for.
QuietStep == RefreshStep /\ (Tick => refresh.running # {})
QuietNext == StartRefresh \/ QuietStep \/ \E q \in Query : Expire(q)

\* Fairness: the event loop goes on with a refresh that began, and with its loads, and the
\* user refreshes again ("repeated refreshes").
QuietSpec == QuietInit /\ [][QuietNext]_vars /\ WF_vars(QuietStep) /\ WF_vars(StartRefresh)
=============================================================================
