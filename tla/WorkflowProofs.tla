--------------------------- MODULE WorkflowProofs ---------------------------
(***************************************************************************)
(* The quotas and the user's status survive any interleaving of requests   *)
(* and refreshes, and a refresh calls no lot missing that its dataset had  *)
(* to have, for any number of requests, listings, queries and saved        *)
(* searches and any quotas.                                                *)
(***************************************************************************)
EXTENDS Workflow, FunctionTheorems, FiniteSetTheorems, SequenceTheorems, TLAPS

LeadRow == {NoLead} \cup [status: Status, note: {None, Note}]
WatchRow == {NoRow} \cup [query: Query, status: Status, market: MarketStatus]

\* What a request has read.
LeadRead == [op: {"add lead", "change lead"}, ad: Ad, row: LeadRow,
             status: Status, note: {None, Note}]
WatchRead == [op: {"watch"}, ad: Ad, isNew: BOOLEAN, query: Query]
ChangeRead == [op: {"change watch"}, ad: Ad, read: Status, status: Status]
Read == {Idle, [op |-> "stale"], [op |-> "save"]} \cup LeadRead \cup WatchRead \cup ChangeRead

Adder == {"add lead", "watch", "save"}

\* Who adds holds the lock of the user's row: one request at most.
LockInv ==
    /\ request \in [Request -> Read]
    /\ lock = {} \/ \E r \in Request : lock = {r}
    /\ \A r \in Request : request[r].op \in Adder => lock = {r}

\* A lead that was read is still there.
LeadInv ==
    /\ lead \in [Ad -> LeadRow]
    /\ \A r \in Request : request[r].op \in {"add lead", "change lead"} =>
          /\ request[r].op = "change lead" => request[r].row # NoLead
          /\ request[r].row # NoLead => lead[request[r].ad] # NoLead

\* The quota still has room for a row that was missing when it was read, and it is
\* still missing; a row that was read is still there.
WatchInv ==
    /\ watch \in [Ad -> WatchRow]
    /\ IsFiniteSet(Watched) /\ Cardinality(Watched) <= MaxWatch
    /\ \A r \in Request :
          /\ request[r].op = "watch" =>
                IF request[r].isNew
                THEN watch[request[r].ad] = NoRow /\ Cardinality(Watched) < MaxWatch
                ELSE watch[request[r].ad] # NoRow
          /\ request[r].op = "change watch" => watch[request[r].ad] # NoRow

SavedInv ==
    /\ saved \subseteq Search
    /\ IsFiniteSet(saved) /\ Cardinality(saved) <= MaxSaved
    /\ \A r \in Request : request[r].op = "save" => Cardinality(saved) < MaxSaved

\* Each watched listing is in the order once.
SeenInv ==
    /\ seen \in Seq(Ad)
    /\ ToSet(seen) = Watched
    /\ Len(seen) = Cardinality(Watched)

\* What a refresh goes through while it searches.
LoadingState(state) ==
    /\ state = [step |-> "loading", todo |-> state.todo, running |-> state.running,
                left |-> state.left,
                results |-> state.results, skipped |-> state.skipped, failed |-> state.failed]
    /\ state.left \in -Grace .. Budget
    /\ IsFiniteSet(state.running) /\ Cardinality(state.running) <= Concurrency

\* A row that the refresh has read is still there, or it knows that it is gone.
RefreshInv ==
    /\ refresh.step \in {"idle", "loading", "applying", "applied"}
    /\ refresh.step = "loading" => LoadingState(refresh)
    /\ refresh.step = "applying" =>
          /\ refresh = [step |-> "applying", rows |-> refresh.rows, gone |-> refresh.gone,
                        results |-> refresh.results, skipped |-> refresh.skipped]
          /\ refresh.rows \in [Ad -> WatchRow]
          /\ \A a \in Ad : refresh.rows[a] # NoRow /\ a \notin refresh.gone => watch[a] # NoRow

\* What a complete dataset had to have is in it, as far as it is still on sale.
DataInv ==
    /\ standing \in [Query -> SUBSET market]
    /\ DOMAIN dataset = Query
    /\ \A q \in Query : \A d \in dataset[q] : d.truncated \/ standing[q] \subseteq d.ads

IInv ==
    /\ LockInv /\ LeadInv /\ WatchInv /\ SavedInv /\ SeenInv /\ RefreshInv /\ DataInv
    /\ UserStatusKept /\ DOMAIN told = Ad

-----------------------------------------------------------------------------
(* Rows and sequences. *)

LEMMA RowsDiffer ==
  /\ NoLead \notin [status: Status, note: {None, Note}]
  /\ NoRow \notin [query: Query, status: Status, market: MarketStatus]
  /\ New \in Status /\ WatchStatus \subseteq Status
  BY WorkflowAssumption DEF NoLead, NoRow, Status, WatchStatus

\* A sequence as long as its set of members is large has each of them once.
LEMMA OnceEach ==
  ASSUME NEW S, NEW s \in Seq(S), IsFiniteSet(ToSet(s)), Len(s) = Cardinality(ToSet(s))
  PROVE  \A i, j \in 1 .. Len(s) : s[i] = s[j] => i = j
  <1>1. /\ s = [j \in 1 .. Len(s) |-> s[j]] /\ Len(s) \in Nat
        /\ DOMAIN s = 1 .. Len(s)
    OBVIOUS
  <1>2. s \in Surjection(1 .. Len(s), ToSet(s))
    BY <1>1 DEF Surjection, ToSet
  <1>3. IsFiniteSet(1 .. Len(s)) /\ Cardinality(1 .. Len(s)) = Len(s)
    <2>1. 1 \in Int /\ Len(s) \in Int /\ (1 <= Len(s) \/ Len(s) = 0)
      BY <1>1
    <2> QED  BY <2>1, FS_Interval
  <1>4. s \in Injection(1 .. Len(s), ToSet(s))
    BY <1>2, <1>3, FS_SurjSameCardinalityImpliesInj
  <1> QED  BY <1>4 DEF Injection, IsInjective

LEMMA Joined ==
  ASSUME NEW S, NEW s \in Seq(S), NEW t \in Seq(S)
  PROVE  /\ s \o t \in Seq(S) /\ Len(s \o t) = Len(s) + Len(t)
         /\ \A i \in 1 .. Len(s) + Len(t) :
                (s \o t)[i] = IF i <= Len(s) THEN s[i] ELSE t[i - Len(s)]
  OBVIOUS

\* Taking a member out of a sequence that has each of its members once.
LEMMA Removal ==
  ASSUME NEW S, NEW s \in Seq(S), NEW i \in 1 .. Len(s),
         \A j, k \in 1 .. Len(s) : s[j] = s[k] => j = k
  PROVE  /\ RemoveAt(s, i) \in Seq(S)
         /\ Len(RemoveAt(s, i)) = Len(s) - 1
         /\ ToSet(RemoveAt(s, i)) = ToSet(s) \ {s[i]}
  <1> DEFINE front == SubSeq(s, 1, i - 1)
             back == SubSeq(s, i + 1, Len(s))
             rest == RemoveAt(s, i)
  <1>1. /\ front \in Seq(S) /\ Len(front) = i - 1
        /\ \A j \in 1 .. i - 1 : front[j] = s[j]
    OBVIOUS
  <1>2. /\ back \in Seq(S) /\ Len(back) = Len(s) - i
        /\ \A j \in 1 .. Len(s) - i : back[j] = s[i + j]
    OBVIOUS
  <1>3. rest = front \o back
    BY DEF RemoveAt
  <1> HIDE DEF front, back
  <1>4. /\ front \o back \in Seq(S) /\ Len(front \o back) = Len(s) - 1
        /\ \A j \in 1 .. Len(s) - 1 : (front \o back)[j] =
               IF j <= i - 1 THEN front[j] ELSE back[j - (i - 1)]
    <2>1. front \in Seq(S) /\ back \in Seq(S)
      BY <1>1, <1>2
    <2>2. /\ front \o back \in Seq(S) /\ Len(front \o back) = Len(front) + Len(back)
          /\ \A j \in 1 .. Len(front) + Len(back) : (front \o back)[j] =
                 IF j <= Len(front) THEN front[j] ELSE back[j - Len(front)]
      BY <2>1, Joined, Zenon
    <2>3. Len(front) + Len(back) = Len(s) - 1
      BY <1>1, <1>2
    <2> QED  BY <1>1, <2>2, <2>3
  <1> HIDE DEF rest
  <1>5. ASSUME NEW j \in 1 .. Len(s) - 1  PROVE rest[j] = s[IF j < i THEN j ELSE j + 1]
    <2>1. CASE j < i
      BY <1>1, <1>3, <1>4, <2>1
    <2>2. CASE ~(j < i)
      <3>1. j - (i - 1) \in 1 .. Len(s) - i /\ i + (j - (i - 1)) = j + 1
        BY <2>2
      <3> QED  BY <1>2, <1>3, <1>4, <2>2, <3>1
    <2> QED  BY <2>1, <2>2
  <1>6. rest \in Seq(S) /\ Len(rest) = Len(s) - 1
    BY <1>3, <1>4
  <1>7. ASSUME NEW j \in 1 .. Len(rest)  PROVE \E k \in 1 .. Len(s) : k # i /\ rest[j] = s[k]
    BY <1>5, <1>6
  <1>8. ASSUME NEW k \in 1 .. Len(s), k # i  PROVE \E j \in 1 .. Len(rest) : rest[j] = s[k]
    <2>1. CASE k < i
      <3>1. k \in 1 .. Len(rest) /\ rest[k] = s[k]
        BY <1>5, <1>6, <2>1
      <3> QED  BY <3>1
    <2>2. CASE k > i
      <3>1. k - 1 \in 1 .. Len(rest) /\ ~(k - 1 < i) /\ k - 1 + 1 = k
        BY <1>6, <2>2
      <3>2. rest[k - 1] = s[k]
        BY <1>5, <1>6, <3>1
      <3> QED  BY <3>1, <3>2
    <2> QED  BY <1>8, <2>1, <2>2
  <1>9. DOMAIN s = 1 .. Len(s) /\ DOMAIN rest = 1 .. Len(rest)
    BY <1>6
  <1>10. ToSet(rest) = ToSet(s) \ {s[i]}
    <2>1. \A x : x \in ToSet(rest) <=> \E j \in 1 .. Len(rest) : rest[j] = x
      BY <1>9 DEF ToSet
    <2>2. \A x : x \in ToSet(s) <=> \E k \in 1 .. Len(s) : s[k] = x
      BY <1>9 DEF ToSet
    <2>3. \A k \in 1 .. Len(s) : k # i <=> s[k] # s[i]
      OBVIOUS
    <2>4. ASSUME NEW x \in ToSet(rest)  PROVE x \in ToSet(s) \ {s[i]}
      <3>1. PICK j \in 1 .. Len(rest) : rest[j] = x
        BY <2>1, <2>4
      <3>2. PICK k \in 1 .. Len(s) : k # i /\ rest[j] = s[k]
        BY <1>7, <3>1
      <3> QED  BY <2>2, <2>3, <3>1, <3>2
    <2>5. ASSUME NEW x \in ToSet(s) \ {s[i]}  PROVE x \in ToSet(rest)
      BY <1>8, <2>1, <2>2, <2>3
    <2> QED  BY <2>4, <2>5
  <1> QED  BY <1>6, <1>10 DEF rest

-----------------------------------------------------------------------------
(* The lock. *)

USE WorkflowAssumption

\* A step of r alone.
Only(r) == \A s \in Request \ {r} : request'[s] = request[s]

\* A request that begins with a lock, or without.
LEMMA Begins ==
  ASSUME LockInv, NEW r \in Request, NEW read \in Read, Begin(r, read),
         IF read.op \in Adder THEN lock = {} /\ lock' = {r} ELSE UNCHANGED lock
  PROVE  LockInv' /\ Only(r) /\ request'[r] = read
  <1>1. request' \in [Request -> Read] /\ request'[r] = read /\ Only(r)
    BY DEF LockInv, Begin, Only
  <1>2. lock' = {} \/ \E s \in Request : lock' = {s}
    BY DEF LockInv
  <1>3. ASSUME NEW s \in Request, request'[s].op \in Adder  PROVE lock' = {s}
    BY <1>1, <1>3 DEF LockInv, Only
  <1> QED  BY <1>1, <1>2, <1>3 DEF LockInv

LEMMA Ends ==
  ASSUME LockInv, NEW r \in Request, End(r)
  PROVE  LockInv' /\ Only(r) /\ request'[r] = Idle
  <1>1. request' \in [Request -> Read] /\ request'[r] = Idle /\ Only(r)
    BY DEF LockInv, End, Only, Read
  <1>2. Idle.op \notin Adder
    BY DEF Idle, Adder
  <1>3. lock' = {} \/ \E s \in Request : lock' = {s}
    BY DEF LockInv, End
  <1>4. ASSUME NEW s \in Request, request'[s].op \in Adder  PROVE lock' = {s}
    <2>1. s # r /\ request'[s] = request[s]
      BY <1>1, <1>2, <1>4 DEF Only
    <2> QED  BY <1>4, <2>1 DEF LockInv, End
  <1> QED  BY <1>1, <1>3, <1>4 DEF LockInv

-----------------------------------------------------------------------------
(* The requests. *)

\* What a request has read can be told from its operation.
LEMMA ReadKinds ==
  ASSUME NEW read \in Read
  PROVE  /\ read.op \in {"add lead", "change lead"} => read \in LeadRead
         /\ read.op = "watch" => read \in WatchRead
         /\ read.op = "change watch" => read \in ChangeRead
  <1>1. CASE read \in {Idle, [op |-> "stale"], [op |-> "save"]}
    <2>1. read.op \in {"idle", "stale", "save"}
      BY <1>1 DEF Idle
    <2> QED  BY <2>1
  <1>2. CASE read \in LeadRead
    BY <1>2 DEF LeadRead
  <1>3. CASE read \in WatchRead
    BY <1>3 DEF WatchRead
  <1>4. CASE read \in ChangeRead
    BY <1>4 DEF ChangeRead
  <1> QED  BY <1>1, <1>2, <1>3, <1>4 DEF Read

\* What a step of r leaves alone, it keeps.
LEMMA Frames ==
  ASSUME IInv, NEW r \in Request, Only(r), UNCHANGED External
  PROVE  /\ UNCHANGED lead /\ request'[r].op \notin {"add lead", "change lead"} => LeadInv'
         /\ UNCHANGED watch /\ request'[r].op \notin {"watch", "change watch"} => WatchInv'
         /\ UNCHANGED saved /\ request'[r].op # "save" => SavedInv'
         /\ UNCHANGED <<watch, seen>> => SeenInv'
         /\ UNCHANGED <<watch, told>> => UserStatusKept' /\ DOMAIN told' = Ad
         /\ (\A a \in Ad : watch[a] # NoRow => watch'[a] # NoRow) => RefreshInv'
         /\ DataInv'
  <1>1. ASSUME UNCHANGED lead, request'[r].op \notin {"add lead", "change lead"}
        PROVE  LeadInv'
    <2>1. \A s \in Request : request'[s].op \in {"add lead", "change lead"}
              => request'[s] = request[s]
      BY <1>1 DEF Only
    <2> QED  BY <1>1, <2>1 DEF IInv, LeadInv
  <1>2. ASSUME UNCHANGED watch, request'[r].op \notin {"watch", "change watch"}
        PROVE  WatchInv'
    <2>1. \A s \in Request : request'[s].op \in {"watch", "change watch"}
              => request'[s] = request[s]
      BY <1>2 DEF Only
    <2>2. Watched' = Watched
      BY <1>2 DEF Watched
    <2> QED  BY <1>2, <2>1, <2>2 DEF IInv, WatchInv
  <1>3. ASSUME UNCHANGED saved, request'[r].op # "save"
        PROVE  SavedInv'
    BY <1>3 DEF IInv, SavedInv, Only
  <1>4. ASSUME UNCHANGED <<watch, seen>>
        PROVE  SeenInv'
    BY <1>4 DEF IInv, SeenInv, Watched
  <1>5. ASSUME UNCHANGED <<watch, told>>
        PROVE  UserStatusKept' /\ DOMAIN told' = Ad
    BY <1>5 DEF IInv, UserStatusKept
  <1>6. ASSUME \A a \in Ad : watch[a] # NoRow => watch'[a] # NoRow
        PROVE  RefreshInv'
    <2>1. refresh' = refresh
      BY DEF External
    <2> QED  BY <1>6, <2>1 DEF IInv, RefreshInv
  <1>7. DataInv'
    BY DEF IInv, DataInv, External
  <1> QED  BY <1>1, <1>2, <1>3, <1>4, <1>5, <1>6, <1>7

\* A request that reads writes nothing.
LEMMA ReadKeeps ==
  ASSUME IInv, NEW r \in Request, NEW read \in Read, Begin(r, read),
         IF read.op \in Adder THEN lock = {} /\ lock' = {r} ELSE UNCHANGED lock,
         UNCHANGED <<tables, External>>,
         read.op \in {"add lead", "change lead"} =>
             /\ read.op = "change lead" => read.row # NoLead
             /\ read.row = lead[read.ad],
         read.op = "watch" => /\ read.isNew <=> watch[read.ad] = NoRow
                              /\ read.isNew => Cardinality(Watched) < MaxWatch,
         read.op = "change watch" => watch[read.ad] # NoRow,
         read.op = "save" => Cardinality(saved) < MaxSaved
  PROVE  IInv'
  <1>1. LockInv' /\ Only(r) /\ request'[r] = read
    BY Begins DEF IInv
  <1>2. UNCHANGED <<lead, watch, saved, seen, told>> /\ UNCHANGED External
    BY DEF tables
  <1>3. SeenInv' /\ UserStatusKept' /\ DOMAIN told' = Ad /\ RefreshInv' /\ DataInv'
    BY <1>1, <1>2, Frames
  <1>4. \A s \in Request : request'[s] = IF s = r THEN read ELSE request[s]
    BY <1>1 DEF Only
  <1>5. LeadInv'
    BY <1>2, <1>4 DEF IInv, LeadInv
  <1>6. WatchInv'
    <2>1. Watched' = Watched
      BY <1>2 DEF Watched
    <2> QED  BY <1>2, <1>4, <2>1 DEF IInv, WatchInv
  <1>7. SavedInv'
    BY <1>2, <1>4 DEF IInv, SavedInv
  <1> QED  BY <1>1, <1>3, <1>5, <1>6, <1>7 DEF IInv

LEMMA LeadKeeps ==
  ASSUME IInv, NEW r \in Request, Lead(r)
  PROVE  IInv'
  <1>1. ASSUME NEW a \in Ad, NEW status \in Status, NEW note \in {None, Note},
               ReadLeadToAdd(r, a, status, note)
        PROVE  IInv'
    <2> DEFINE read == [op |-> "add lead", ad |-> a, row |-> lead[a],
                        status |-> status, note |-> note]
    <2>1. read \in Read /\ read.op = "add lead" /\ read.ad = a /\ read.row = lead[a]
      BY DEF Read, LeadRead, IInv, LeadInv
    <2>2. lock = {} /\ lock' = {r} /\ Begin(r, read) /\ UNCHANGED <<tables, External>>
      BY <1>1 DEF ReadLeadToAdd, BeginLocked
    <2> HIDE DEF read
    <2> QED  BY <2>1, <2>2, ReadKeeps DEF Adder
  <1>2. ASSUME NEW a \in Ad, NEW status \in Status, NEW note \in {None, Note},
               ReadLeadToChange(r, a, status, note)
        PROVE  IInv'
    <2> DEFINE read == [op |-> "change lead", ad |-> a, row |-> lead[a],
                        status |-> status, note |-> note]
    <2>1. read \in Read /\ read.op = "change lead" /\ read.ad = a /\ read.row = lead[a]
      BY DEF Read, LeadRead, IInv, LeadInv
    <2>2. lead[a] # NoLead /\ Begin(r, read) /\ UNCHANGED lock /\ UNCHANGED <<tables, External>>
      BY <1>2 DEF ReadLeadToChange
    <2> HIDE DEF read
    <2> QED  BY <2>1, <2>2, ReadKeeps DEF Adder
  <1>3. ASSUME End(r), UNCHANGED <<watch, saved, seen, told, External>>,
               lead' \in [Ad -> LeadRow], \A a \in Ad : lead[a] # NoLead => lead'[a] # NoLead
        PROVE  IInv'
    <2>1. LockInv' /\ Only(r) /\ request'[r] = Idle
      BY <1>3, Ends DEF IInv
    <2>2. Idle.op = "idle"
      BY DEF Idle
    <2>3. /\ WatchInv' /\ SavedInv' /\ SeenInv' /\ UserStatusKept' /\ DOMAIN told' = Ad
          /\ RefreshInv' /\ DataInv'
      BY <1>3, <2>1, <2>2, Frames
    <2>4. LeadInv'
      <3>1. ASSUME NEW s \in Request, request'[s].op \in {"add lead", "change lead"}
            PROVE  request'[s] = request[s] /\ request[s].ad \in Ad
        <4>1. s # r /\ request'[s] = request[s]
          BY <2>1, <2>2, <3>1 DEF Only
        <4>2. request[s] \in Read
          BY DEF IInv, LockInv
        <4> QED  BY <3>1, <4>1, <4>2, ReadKinds DEF LeadRead
      <3> QED  BY <1>3, <3>1 DEF IInv, LeadInv
    <2> QED  BY <2>1, <2>3, <2>4 DEF IInv
  <1>4. ASSUME request[r].op \in {"add lead", "change lead"}
        PROVE  /\ request[r] \in LeadRead
               /\ request[r].row # NoLead => lead[request[r].ad] # NoLead
               /\ request[r].op = "change lead" => request[r].row # NoLead
               /\ lead \in [Ad -> LeadRow]
    <2>1. request[r] \in Read
      BY DEF IInv, LockInv
    <2>2. request[r] \in LeadRead
      BY <1>4, <2>1, ReadKinds
    <2> QED  BY <1>4, <2>2 DEF IInv, LeadInv
  <1>5. \A row \in LeadRow : /\ row.note \in {None, Note}
                             /\ row # NoLead => row.status \in Status
    BY DEF LeadRow, NoLead
  <1>6. \A status \in Status, note \in {None, Note} :
            /\ [status |-> status, note |-> note] \in LeadRow
            /\ [status |-> status, note |-> note] # NoLead
    BY RowsDiffer DEF LeadRow
  <1>7. CASE CommitLead(r)
    <2> DEFINE read == request[r]
    <2>1. /\ read \in LeadRead /\ lead \in [Ad -> LeadRow]
          /\ read.row # NoLead => lead[read.ad] # NoLead
      BY <1>4, <1>7 DEF CommitLead
    <2>2. UpsertedStatus(read) \in Status
      BY <1>5, <2>1 DEF UpsertedStatus, LeadRead
    <2>3. UpsertedNote(read) \in {None, Note}
      BY <1>5, <2>1 DEF UpsertedNote, LeadRead
    <2>4. /\ lead' = [lead EXCEPT ![read.ad] = [status |-> UpsertedStatus(read),
                                               note |-> UpsertedNote(read)]]
          /\ End(r) /\ UNCHANGED <<watch, saved, seen, told, External>>
      BY <1>7 DEF CommitLead
    <2>5. read.ad \in Ad
      BY <2>1 DEF LeadRead
    <2> HIDE DEF read
    <2> QED  BY <1>3, <1>6, <2>1, <2>2, <2>3, <2>4, <2>5
  <1>8. CASE CommitLeadChange(r)
    <2> DEFINE read == request[r]
               status == Changed(read.row.status, read.status, lead[read.ad].status)
               note == Changed(read.row.note, read.note, lead[read.ad].note)
    <2>1. /\ read \in LeadRead /\ lead \in [Ad -> LeadRow] /\ lead[read.ad] # NoLead
      BY <1>4, <1>8 DEF CommitLeadChange
    <2>2. read.ad \in Ad /\ read.status \in Status /\ read.note \in {None, Note}
      BY <2>1 DEF LeadRead
    <2>3. lead' = [lead EXCEPT ![read.ad] = [status |-> status, note |-> note]]
      BY <1>8 DEF CommitLeadChange
    <2>4. End(r) /\ UNCHANGED <<watch, saved, seen, told, External>>
      BY <1>8 DEF CommitLeadChange
    <2>5. status \in Status /\ note \in {None, Note}
      BY <1>5, <2>1, <2>2 DEF Changed
    <2> HIDE DEF read, status, note
    <2> QED  BY <1>3, <1>6, <2>1, <2>2, <2>3, <2>4, <2>5
  <1> QED  BY <1>1, <1>2, <1>7, <1>8 DEF Lead

\* A commit to the watchlist by the request r, which leaves every row there is.
LEMMA WatchCommits ==
  ASSUME IInv, NEW r \in Request, End(r), UNCHANGED <<lead, saved, External>>,
         watch' \in [Ad -> WatchRow], \A a \in Ad : watch[a] # NoRow => watch'[a] # NoRow,
         IsFiniteSet(Watched)', Cardinality(Watched)' <= MaxWatch,
         \/ Watched' = Watched
         \/ request[r].op \in Adder,
         SeenInv', UserStatusKept', DOMAIN told' = Ad
  PROVE  IInv'
  <1>1. LockInv' /\ Only(r) /\ request'[r] = Idle /\ Idle.op = "idle"
    BY Ends DEF IInv, Idle
  <1>2. LeadInv' /\ SavedInv' /\ RefreshInv' /\ DataInv'
    BY <1>1, Frames
  <1>3. ASSUME NEW s \in Request, request'[s].op \in {"watch", "change watch"}
        PROVE  /\ s # r /\ request'[s] = request[s] /\ request[s].ad \in Ad
               /\ request[s].op = "watch" => Watched' = Watched
    <2>1. s # r /\ request'[s] = request[s]
      BY <1>1, <1>3 DEF Only
    <2>2. request[s] \in Read
      BY DEF IInv, LockInv
    <2>3. request[s].ad \in Ad
      BY <1>3, <2>1, <2>2, ReadKinds DEF WatchRead, ChangeRead
    <2>4. request[s].op = "watch" => lock = {s}
      BY DEF IInv, LockInv, Adder
    <2>5. request[r].op \in Adder => lock = {r}
      BY DEF IInv, LockInv
    <2> QED  BY <2>1, <2>3, <2>4, <2>5
  <1>4. WatchInv'
    <2>1. ASSUME NEW s \in Request, request'[s].op = "watch"
          PROVE  IF request'[s].isNew
                 THEN watch'[request'[s].ad] = NoRow /\ Cardinality(Watched') < MaxWatch
                 ELSE watch'[request'[s].ad] # NoRow
      <3>1. /\ request'[s] = request[s] /\ request[s].ad \in Ad /\ Watched' = Watched
            /\ request[s].op = "watch"
        BY <1>3, <2>1
      <3>2. watch'[request[s].ad] = NoRow <=> watch[request[s].ad] = NoRow
        BY <3>1 DEF Watched
      <3> QED  BY <3>1, <3>2 DEF IInv, WatchInv
    <2>2. ASSUME NEW s \in Request, request'[s].op = "change watch"
          PROVE  watch'[request'[s].ad] # NoRow
      BY <1>3, <2>2 DEF IInv, WatchInv
    <2> QED  BY <2>1, <2>2 DEF WatchInv
  <1> QED  BY <1>1, <1>2, <1>4 DEF IInv

\* A watched listing has its place in the order, and one that leaves it is gone from it.
LEMMA Leaving ==
  ASSUME IInv, NEW a \in Ad, watch[a] # NoRow
  PROVE  /\ Dropped(seen, a) \in Seq(Ad)
         /\ Len(Dropped(seen, a)) = Len(seen) - 1
         /\ ToSet(Dropped(seen, a)) = Watched \ {a}
  <1>1. /\ seen \in Seq(Ad) /\ IsFiniteSet(ToSet(seen)) /\ Len(seen) = Cardinality(ToSet(seen))
        /\ ToSet(seen) = Watched /\ a \in Watched
    BY DEF IInv, SeenInv, WatchInv, Watched
  <1>2. \A i, j \in 1 .. Len(seen) : seen[i] = seen[j] => i = j
    BY <1>1, OnceEach
  <1>3. \E i \in DOMAIN seen : seen[i] = a
    BY <1>1 DEF ToSet
  <1>4. PICK i \in 1 .. Len(seen) : seen[i] = a /\ Dropped(seen, a) = RemoveAt(seen, i)
    <2> DEFINE i == CHOOSE i \in DOMAIN seen : seen[i] = a
    <2>1. i \in DOMAIN seen /\ seen[i] = a
      BY <1>3
    <2>2. DOMAIN seen = 1 .. Len(seen)
      BY <1>1
    <2> QED  BY <2>1, <2>2 DEF Dropped
  <1> QED  BY <1>1, <1>2, <1>4, Removal

\* Joining the order at its end.
LEMMA Joining ==
  ASSUME NEW s \in Seq(Ad), NEW a \in Ad
  PROVE  /\ Append(s, a) \in Seq(Ad) /\ Len(Append(s, a)) = Len(s) + 1
         /\ ToSet(Append(s, a)) = ToSet(s) \cup {a}
  <1>1. /\ Append(s, a) \in Seq(Ad) /\ Len(Append(s, a)) = Len(s) + 1 /\ Len(s) \in Nat
        /\ \A i \in 1 .. Len(s) : Append(s, a)[i] = s[i]
        /\ Append(s, a)[Len(s) + 1] = a
    OBVIOUS
  <1>2. DOMAIN s = 1 .. Len(s) /\ DOMAIN Append(s, a) = 1 .. Len(s) + 1
    BY <1>1
  <1> DEFINE longer == Append(s, a)
  <1> HIDE DEF longer
  <1>3. ASSUME NEW x \in ToSet(longer)  PROVE x \in ToSet(s) \cup {a}
    BY <1>1, <1>2, <1>3 DEF ToSet, longer
  <1>4. ASSUME NEW x \in ToSet(s) \cup {a}  PROVE x \in ToSet(longer)
    <2>1. CASE x = a
      <3>1. Len(s) + 1 \in DOMAIN longer /\ longer[Len(s) + 1] = a
        BY <1>1, <1>2 DEF longer
      <3> QED  BY <2>1, <3>1 DEF ToSet
    <2>2. CASE x \in ToSet(s)
      <3>1. PICK i \in 1 .. Len(s) : s[i] = x
        BY <1>2, <2>2 DEF ToSet
      <3>2. i \in DOMAIN longer /\ longer[i] = x
        BY <1>1, <1>2, <3>1 DEF longer
      <3> QED  BY <3>2 DEF ToSet
    <2> QED  BY <1>4, <2>1, <2>2
  <1>5. ToSet(longer) = ToSet(s) \cup {a}
    BY <1>3, <1>4
  <1> QED  BY <1>1, <1>5 DEF longer

LEMMA CommitWatchKeeps ==
  ASSUME IInv, NEW r \in Request, CommitWatch(r)
  PROVE  IInv'
  <1> DEFINE read == request[r]
             a == read.ad
  <1>1. /\ read \in WatchRead /\ read.op = "watch" /\ a \in Ad /\ read.query \in Query
        /\ IF read.isNew THEN watch[a] = NoRow /\ Cardinality(Watched) < MaxWatch
                         ELSE watch[a] # NoRow
    <2>1. read \in Read /\ read.op = "watch"
      BY DEF CommitWatch, IInv, LockInv
    <2>2. read \in WatchRead
      BY <2>1, ReadKinds
    <2> QED  BY <2>1, <2>2 DEF WatchRead, IInv, WatchInv
  <1>2. /\ watch' = [watch EXCEPT ![a] =
               IF read.isNew THEN [query |-> read.query, status |-> New, market |-> "listed"]
               ELSE [watch[a] EXCEPT !.query = read.query]]
        /\ seen' = MovedLast(seen, a)
        /\ told' = [told EXCEPT ![a] = IF read.isNew THEN New ELSE @]
        /\ End(r) /\ UNCHANGED <<lead, saved, External>>
    BY DEF CommitWatch
  <1>3. /\ watch \in [Ad -> WatchRow] /\ IsFiniteSet(Watched) /\ Cardinality(Watched) <= MaxWatch
        /\ Cardinality(Watched) \in Nat
        /\ seen \in Seq(Ad) /\ ToSet(seen) = Watched /\ Len(seen) = Cardinality(Watched)
        /\ \A b \in Ad : watch[b].status = told[b]
        /\ DOMAIN told = Ad
    BY FS_CardinalityType DEF IInv, WatchInv, SeenInv, UserStatusKept
  <1>4. request[r].op \in Adder
    BY <1>1 DEF Adder
  <1> HIDE DEF read, a
  <1>5. CASE read.isNew
    <2> DEFINE row == [query |-> read.query, status |-> New, market |-> "listed"]
    <2>1. row \in WatchRow /\ row # NoRow /\ row.status = New
      BY <1>1, RowsDiffer DEF WatchRow, MarketStatus
    <2>2. watch' = [watch EXCEPT ![a] = row] /\ told' = [told EXCEPT ![a] = New]
      BY <1>2, <1>5
    <2> HIDE DEF row
    <2>3. watch' \in [Ad -> WatchRow] /\ \A b \in Ad : watch'[b] = IF b = a THEN row ELSE watch[b]
      BY <1>1, <1>3, <2>1, <2>2
    <2>4. Watched' = Watched \cup {a} /\ a \notin Watched
      BY <1>1, <1>5, <2>1, <2>3 DEF Watched
    <2>5. IsFiniteSet(Watched') /\ Cardinality(Watched') = Cardinality(Watched) + 1
      BY <1>3, <2>4, FS_AddElement
    <2>6. seen' = Append(seen, a)
      BY <1>2, <1>3, <2>4 DEF MovedLast
    <2>7. SeenInv'
      BY <1>1, <1>3, <2>4, <2>5, <2>6, Joining DEF SeenInv
    <2>8. UserStatusKept' /\ DOMAIN told' = Ad
      <3>1. \A b \in Ad : told'[b] = IF b = a THEN New ELSE told[b]
        BY <1>3, <2>2
      <3> QED  BY <1>3, <2>1, <2>2, <2>3, <3>1 DEF UserStatusKept
    <2>9. Cardinality(Watched') <= MaxWatch
      BY <1>1, <1>3, <1>5, <2>5
    <2>10. \A b \in Ad : watch[b] # NoRow => watch'[b] # NoRow
      BY <2>1, <2>3
    <2> QED  BY <1>2, <1>4, <2>3, <2>5, <2>7, <2>8, <2>9, <2>10, WatchCommits
  <1>6. CASE ~read.isNew
    <2> DEFINE row == [watch[a] EXCEPT !.query = read.query]
    <2>1. row \in WatchRow /\ row # NoRow /\ row.status = watch[a].status
      <3>1. watch[a] \in [query: Query, status: Status, market: MarketStatus]
        BY <1>1, <1>3, <1>6 DEF WatchRow
      <3>2. row \in [query: Query, status: Status, market: MarketStatus]
        BY <1>1, <3>1
      <3>3. row.status = watch[a].status
        BY <3>1
      <3> QED  BY <3>2, <3>3, RowsDiffer DEF WatchRow
    <2>2. watch' = [watch EXCEPT ![a] = row] /\ told' = [told EXCEPT ![a] = told[a]]
      BY <1>2, <1>6
    <2> HIDE DEF row
    <2>3. watch' \in [Ad -> WatchRow] /\ \A b \in Ad : watch'[b] = IF b = a THEN row ELSE watch[b]
      BY <1>1, <1>3, <2>1, <2>2
    <2>4. Watched' = Watched /\ a \in Watched
      BY <1>1, <1>6, <2>1, <2>3 DEF Watched
    <2>5. seen' = Append(Dropped(seen, a), a)
      BY <1>2, <1>3, <2>4 DEF MovedLast
    <2>6. SeenInv'
      <3>1. /\ Dropped(seen, a) \in Seq(Ad) /\ Len(Dropped(seen, a)) = Len(seen) - 1
            /\ ToSet(Dropped(seen, a)) = Watched \ {a}
        BY <1>1, <1>6, Leaving
      <3>2. /\ seen' \in Seq(Ad) /\ Len(seen') = Len(seen) - 1 + 1
            /\ ToSet(seen') = (Watched \ {a}) \cup {a}
        BY <1>1, <2>5, <3>1, Joining
      <3>3. (Watched \ {a}) \cup {a} = Watched' /\ Len(seen') = Cardinality(Watched')
        BY <1>3, <2>4, <3>2
      <3> QED  BY <3>2, <3>3 DEF SeenInv
    <2>7. UserStatusKept' /\ DOMAIN told' = Ad
      <3>1. \A b \in Ad : told'[b] = told[b]
        BY <1>3, <2>2
      <3> QED  BY <1>3, <2>1, <2>2, <2>3, <3>1 DEF UserStatusKept
    <2>8. \A b \in Ad : watch[b] # NoRow => watch'[b] # NoRow
      BY <2>1, <2>3
    <2>9. IsFiniteSet(Watched') /\ Cardinality(Watched') <= MaxWatch
      BY <1>3, <2>4
    <2> QED  BY <1>2, <1>4, <2>3, <2>4, <2>6, <2>7, <2>8, <2>9, WatchCommits
  <1> QED  BY <1>5, <1>6

LEMMA CommitWatchChangeKeeps ==
  ASSUME IInv, NEW r \in Request, CommitWatchChange(r)
  PROVE  IInv'
  <1> DEFINE read == request[r]
             a == read.ad
             status == Changed(read.read, read.status, watch[a].status)
             row == [watch[a] EXCEPT !.status = status]
  <1>1. /\ read \in ChangeRead /\ read.op = "change watch" /\ watch[a] # NoRow
        /\ watch \in [Ad -> WatchRow] /\ IsFiniteSet(Watched)
        /\ Cardinality(Watched) <= MaxWatch
    <2>1. read \in Read /\ read.op = "change watch"
      BY DEF CommitWatchChange, IInv, LockInv
    <2>2. read \in ChangeRead
      BY <2>1, ReadKinds
    <2> QED  BY <2>1, <2>2 DEF IInv, WatchInv
  <1>2. a \in Ad /\ read.status \in Status
    BY <1>1 DEF ChangeRead
  <1>3. watch[a] \in [query: Query, status: Status, market: MarketStatus]
    BY <1>1, <1>2 DEF WatchRow
  <1>4. status \in Status
    BY <1>2, <1>3 DEF Changed
  <1>5. /\ watch' = [watch EXCEPT ![a] = row] /\ told' = [told EXCEPT ![a] = status]
        /\ End(r) /\ UNCHANGED <<lead, saved, seen, External>>
    BY DEF CommitWatchChange
  <1> HIDE DEF read, a, status
  <1>6. row \in WatchRow /\ row # NoRow /\ row.status = status
    <2>1. row \in [query: Query, status: Status, market: MarketStatus] /\ row.status = status
      BY <1>3, <1>4
    <2> QED  BY <2>1, RowsDiffer DEF WatchRow
  <1> HIDE DEF row
  <1>7. watch' \in [Ad -> WatchRow] /\ \A b \in Ad : watch'[b] = IF b = a THEN row ELSE watch[b]
    BY <1>1, <1>2, <1>5, <1>6
  <1>8. Watched' = Watched /\ \A b \in Ad : watch[b] # NoRow => watch'[b] # NoRow
    BY <1>1, <1>6, <1>7 DEF Watched
  <1>9. SeenInv'
    BY <1>5, <1>8 DEF IInv, SeenInv
  <1>10. UserStatusKept' /\ DOMAIN told' = Ad
    <2>1. DOMAIN told = Ad /\ \A b \in Ad : watch[b].status = told[b]
      BY DEF IInv, UserStatusKept
    <2>2. \A b \in Ad : told'[b] = IF b = a THEN status ELSE told[b]
      BY <1>5, <2>1
    <2> QED  BY <1>5, <1>6, <1>7, <2>1, <2>2 DEF UserStatusKept
  <1> QED  BY <1>1, <1>5, <1>7, <1>8, <1>9, <1>10, WatchCommits

LEMMA WatchlistKeeps ==
  ASSUME IInv, NEW r \in Request, Watchlist(r)
  PROVE  IInv'
  <1>1. ASSUME NEW a \in Ad, NEW q \in Query, ReadWatchToAdd(r, a, q)
        PROVE  IInv'
    <2> DEFINE read == [op |-> "watch", ad |-> a, isNew |-> watch[a] = NoRow, query |-> q]
    <2>1. /\ read \in Read /\ read.op = "watch" /\ read.ad = a
          /\ read.isNew <=> watch[a] = NoRow
      BY DEF Read, WatchRead
    <2>2. /\ lock = {} /\ lock' = {r} /\ Begin(r, read) /\ UNCHANGED <<tables, External>>
          /\ watch[a] # NoRow \/ Cardinality(Watched) < MaxWatch
      BY <1>1 DEF ReadWatchToAdd, BeginLocked
    <2> HIDE DEF read
    <2> QED  BY <2>1, <2>2, ReadKeeps DEF Adder
  <1>2. ASSUME NEW a \in Ad, NEW status \in WatchStatus, ReadWatchToChange(r, a, status)
        PROVE  IInv'
    <2> DEFINE read == [op |-> "change watch", ad |-> a, read |-> watch[a].status,
                        status |-> status]
    <2>1. watch[a] \in WatchRow /\ watch[a] # NoRow
      BY <1>2 DEF ReadWatchToChange, IInv, WatchInv
    <2>2. watch[a].status \in Status /\ status \in Status
      BY <2>1, RowsDiffer DEF WatchRow
    <2>3. read \in Read /\ read.op = "change watch" /\ read.ad = a
      BY <2>2 DEF Read, ChangeRead
    <2>4. Begin(r, read) /\ UNCHANGED lock /\ UNCHANGED <<tables, External>>
      BY <1>2 DEF ReadWatchToChange
    <2> HIDE DEF read
    <2> QED  BY <2>1, <2>3, <2>4, ReadKeeps DEF Adder
  <1> QED  BY <1>1, <1>2, CommitWatchKeeps, CommitWatchChangeKeeps DEF Watchlist

LEMMA SavedKeeps ==
  ASSUME IInv, NEW r \in Request, SavedSearches(r)
  PROVE  IInv'
  <1>1. CASE ReadSaved(r)
    <2> DEFINE read == [op |-> "save"]
    <2>1. read \in Read /\ read.op = "save"
      BY DEF Read
    <2>2. /\ lock = {} /\ lock' = {r} /\ Begin(r, read) /\ UNCHANGED <<tables, External>>
          /\ Cardinality(saved) < MaxSaved
      BY <1>1 DEF ReadSaved, BeginLocked
    <2> HIDE DEF read
    <2> QED  BY <2>1, <2>2, ReadKeeps DEF Adder
  <1>2. ASSUME NEW s \in Search, CommitSaved(r, s)
        PROVE  IInv'
    <2>1. /\ request[r].op = "save" /\ s \notin saved /\ saved' = saved \cup {s}
          /\ End(r) /\ UNCHANGED <<lead, watch, seen, told>> /\ UNCHANGED External
      BY <1>2 DEF CommitSaved
    <2>2. LockInv' /\ Only(r) /\ request'[r] = Idle /\ Idle.op = "idle"
      BY <2>1, Ends DEF IInv, Idle
    <2>3. /\ LeadInv' /\ WatchInv' /\ SeenInv' /\ UserStatusKept' /\ DOMAIN told' = Ad
          /\ RefreshInv' /\ DataInv'
      BY <2>1, <2>2, Frames
    <2>4. /\ IsFiniteSet(saved) /\ Cardinality(saved) < MaxSaved /\ Cardinality(saved) \in Nat
          /\ saved \subseteq Search
      BY <2>1, FS_CardinalityType DEF IInv, SavedInv
    <2>5. IsFiniteSet(saved') /\ Cardinality(saved') = Cardinality(saved) + 1
      BY <2>1, <2>4, FS_AddElement
    <2>6. \A t \in Request : request'[t].op # "save"
      <3>1. ASSUME NEW t \in Request, request'[t].op = "save"  PROVE FALSE
        <4>1. t # r /\ request'[t] = request[t]
          BY <2>2, <3>1 DEF Only
        <4>2. lock = {t} /\ lock = {r}
          BY <2>1, <3>1, <4>1 DEF IInv, LockInv, Adder
        <4> QED  BY <4>1, <4>2
      <3> QED  BY <3>1
    <2>7. SavedInv'
      BY <2>1, <2>4, <2>5, <2>6 DEF SavedInv
    <2> QED  BY <2>2, <2>3, <2>7 DEF IInv
  <1> QED  BY <1>1, <1>2 DEF SavedSearches

LEMMA FailKeeps ==
  ASSUME IInv, NEW r \in Request, Fail(r)
  PROVE  IInv'
  <1>1. End(r) /\ UNCHANGED <<lead, watch, saved, seen, told>> /\ UNCHANGED External
    BY DEF Fail, tables
  <1>2. LockInv' /\ Only(r) /\ request'[r] = Idle /\ Idle.op = "idle"
    BY <1>1, Ends DEF IInv, Idle
  <1> QED  BY <1>1, <1>2, Frames DEF IInv

LEMMA DeleteSavedKeeps ==
  ASSUME IInv, NEW s \in Search, DeleteSaved(s)
  PROVE  IInv'
  <1>1. /\ saved' = saved \ {s} /\ s \in saved
        /\ UNCHANGED <<lead, watch, seen, told, lock, request>> /\ UNCHANGED External
    BY DEF DeleteSaved
  <1>2. /\ IsFiniteSet(saved) /\ Cardinality(saved) <= MaxSaved /\ Cardinality(saved) \in Nat
        /\ saved \subseteq Search
        /\ \A r \in Request : request[r].op = "save" => Cardinality(saved) < MaxSaved
    BY FS_CardinalityType DEF IInv, SavedInv
  <1>3. IsFiniteSet(saved') /\ Cardinality(saved') = Cardinality(saved) - 1
    BY <1>1, <1>2, FS_RemoveElement
  <1>4. SavedInv'
    BY <1>1, <1>2, <1>3 DEF SavedInv
  <1>5. Watched' = Watched
    BY <1>1 DEF Watched
  <1>6. LockInv' /\ LeadInv' /\ UserStatusKept' /\ DOMAIN told' = Ad
    BY <1>1 DEF IInv, LockInv, LeadInv, UserStatusKept
  <1>7. WatchInv' /\ SeenInv'
    BY <1>1, <1>5 DEF IInv, WatchInv, SeenInv
  <1>8. RefreshInv' /\ DataInv'
    BY <1>1 DEF IInv, RefreshInv, DataInv, External
  <1> QED  BY <1>4, <1>6, <1>7, <1>8 DEF IInv

\* A row goes; who holds it, among requests or in the refresh, learns of it.
LEMMA DeleteWatchKeeps ==
  ASSUME IInv, NEW a \in Ad, DeleteWatch(a)
  PROVE  IInv'
  <1>1. /\ watch[a] # NoRow
        /\ watch' = [watch EXCEPT ![a] = NoRow]
        /\ seen' = Dropped(seen, a)
        /\ told' = [told EXCEPT ![a] = None]
        /\ request' = [r \in Request |-> IF ReadRow(request[r], a)
                                          THEN [op |-> "stale"] ELSE request[r]]
        /\ refresh' = IF refresh.step = "applying"
                      THEN [refresh EXCEPT !.gone = @ \cup {a}] ELSE refresh
        /\ UNCHANGED <<lead, saved, lock, market, load, dataset, standing>>
    BY DEF DeleteWatch
  <1>2. /\ watch \in [Ad -> WatchRow] /\ IsFiniteSet(Watched) /\ Cardinality(Watched) <= MaxWatch
        /\ Cardinality(Watched) \in Nat /\ a \in Watched
    BY <1>1, FS_CardinalityType DEF IInv, WatchInv, Watched
  <1>3. watch' \in [Ad -> WatchRow] /\ \A b \in Ad : watch'[b] = IF b = a THEN NoRow ELSE watch[b]
    BY <1>1, <1>2 DEF WatchRow
  <1>4. Watched' = Watched \ {a}
    BY <1>3 DEF Watched
  <1>5. IsFiniteSet(Watched') /\ Cardinality(Watched') = Cardinality(Watched) - 1
    BY <1>2, <1>4, FS_RemoveElement
  <1>6. ASSUME NEW r \in Request
        PROVE  \/ request'[r] = [op |-> "stale"]
               \/ request'[r] = request[r] /\ ~ReadRow(request[r], a)
    BY <1>1
  <1>7. \A r \in Request : request'[r].op # "stale" =>
            request'[r] = request[r] /\ ~ReadRow(request[r], a)
    BY <1>6
  <1>8. LockInv'
    <2>1. request' \in [Request -> Read]
      BY <1>1 DEF IInv, LockInv, Read
    <2>2. \A r \in Request : request'[r].op \in Adder => request'[r] = request[r]
      BY <1>7 DEF Adder
    <2> QED  BY <1>1, <2>1, <2>2 DEF IInv, LockInv
  <1>9. LeadInv'
    BY <1>1, <1>7 DEF IInv, LeadInv
  <1>10. SavedInv'
    BY <1>1, <1>7 DEF IInv, SavedInv
  <1>11. WatchInv'
    <2>1. ASSUME NEW r \in Request, request'[r].op = "watch"
          PROVE  IF request'[r].isNew
                 THEN watch'[request'[r].ad] = NoRow /\ Cardinality(Watched') < MaxWatch
                 ELSE watch'[request'[r].ad] # NoRow
      <3>1. /\ request'[r] = request[r] /\ ~ReadRow(request[r], a) /\ request[r] \in Read
            /\ request[r].op = "watch"
        BY <1>7, <2>1 DEF IInv, LockInv
      <3>2. request[r].ad \in Ad
        BY <3>1, ReadKinds DEF WatchRead
      <3>3. IF request[r].isNew
            THEN watch[request[r].ad] = NoRow /\ Cardinality(Watched) < MaxWatch
            ELSE watch[request[r].ad] # NoRow
        BY <3>1 DEF IInv, WatchInv
      <3>4. ~request[r].isNew => request[r].ad # a
        BY <3>1 DEF ReadRow
      <3> QED  BY <1>2, <1>3, <1>5, <3>1, <3>2, <3>3, <3>4
    <2>2. ASSUME NEW r \in Request, request'[r].op = "change watch"
          PROVE  watch'[request'[r].ad] # NoRow
      <3>1. /\ request'[r] = request[r] /\ ~ReadRow(request[r], a) /\ request[r] \in Read
            /\ request[r].op = "change watch"
        BY <1>7, <2>2 DEF IInv, LockInv
      <3>2. request[r].ad \in Ad /\ request[r].ad # a
        BY <3>1, ReadKinds DEF ChangeRead, ReadRow
      <3> QED  BY <1>3, <3>1, <3>2 DEF IInv, WatchInv
    <2>3. Cardinality(Watched') <= MaxWatch
      BY <1>2, <1>5
    <2> QED  BY <1>3, <1>5, <2>1, <2>2, <2>3 DEF WatchInv
  <1>12. SeenInv'
    BY <1>1, <1>4, <1>5, Leaving DEF IInv, SeenInv
  <1>13. UserStatusKept' /\ DOMAIN told' = Ad
    <2>1. DOMAIN told = Ad /\ \A b \in Ad : watch[b].status = told[b]
      BY DEF IInv, UserStatusKept
    <2>2. \A b \in Ad : told'[b] = IF b = a THEN None ELSE told[b]
      BY <1>1, <2>1
    <2>3. NoRow.status = None
      BY DEF NoRow
    <2> QED  BY <1>1, <1>3, <2>1, <2>2, <2>3 DEF UserStatusKept
  <1>14. RefreshInv'
    <2>1. CASE refresh.step = "applying"
      <3>1. /\ refresh = [step |-> "applying", rows |-> refresh.rows, gone |-> refresh.gone,
                          results |-> refresh.results, skipped |-> refresh.skipped]
            /\ refresh.rows \in [Ad -> WatchRow]
            /\ \A b \in Ad : refresh.rows[b] # NoRow /\ b \notin refresh.gone => watch[b] # NoRow
        BY <2>1 DEF IInv, RefreshInv
      <3>2. refresh' = [step |-> "applying", rows |-> refresh.rows, gone |-> refresh.gone \cup {a},
                        results |-> refresh.results, skipped |-> refresh.skipped]
        BY <1>1, <2>1, <3>1
      <3> QED  BY <1>3, <3>1, <3>2 DEF RefreshInv
    <2>2. CASE refresh.step # "applying"
      <3>1. refresh' = refresh
        BY <1>1, <2>2
      <3> QED  BY <2>2, <3>1 DEF IInv, RefreshInv
    <2> QED  BY <2>1, <2>2
  <1>15. DataInv'
    BY <1>1 DEF IInv, DataInv
  <1> QED  BY <1>8, <1>9, <1>10, <1>11, <1>12, <1>13, <1>14, <1>15 DEF IInv

-----------------------------------------------------------------------------
(* The refresh of the watchlist, and Kufar. *)

\* A step that writes no row.
LEMMA RowsStay ==
  ASSUME IInv, UNCHANGED <<tables, lock, request>>
  PROVE  /\ LockInv' /\ LeadInv' /\ WatchInv' /\ SavedInv' /\ SeenInv'
         /\ UserStatusKept' /\ DOMAIN told' = Ad
         /\ UNCHANGED refresh => RefreshInv'
         /\ UNCHANGED <<market, dataset, standing>> => DataInv'
  <1>1. UNCHANGED <<lead, watch, saved, seen, told, lock, request>>
    BY DEF tables
  <1>2. Watched' = Watched
    BY <1>1 DEF Watched
  <1>3. LockInv' /\ LeadInv' /\ SavedInv' /\ UserStatusKept' /\ DOMAIN told' = Ad
    BY <1>1 DEF IInv, LockInv, LeadInv, SavedInv, UserStatusKept
  <1>4. WatchInv' /\ SeenInv'
    BY <1>1, <1>2 DEF IInv, WatchInv, SeenInv
  <1>5. UNCHANGED refresh => RefreshInv'
    BY <1>1 DEF IInv, RefreshInv
  <1>6. UNCHANGED <<market, dataset, standing>> => DataInv'
    BY DEF IInv, DataInv
  <1> QED  BY <1>3, <1>4, <1>5, <1>6

LEMMA LoadsOn ==
  ASSUME NEW todo, NEW running, NEW left, NEW results, NEW skipped, NEW failed,
         refresh' = [step |-> "loading", todo |-> todo, running |-> running, left |-> left,
                     results |-> results, skipped |-> skipped, failed |-> failed],
         left \in -Grace .. Budget, IsFiniteSet(running), Cardinality(running) <= Concurrency
  PROVE  RefreshInv'
  <1>1. LoadingState(refresh')
    BY DEF LoadingState
  <1> QED  BY <1>1 DEF RefreshInv, LoadingState

\* One query more, or one less, is being searched.
LEMMA Searches ==
  ASSUME NEW S, IsFiniteSet(S), NEW q
  PROVE  /\ IsFiniteSet(S \cup {q}) /\ IsFiniteSet(S \ {q})
         /\ Cardinality(S) < Concurrency => Cardinality(S \cup {q}) <= Concurrency
         /\ Cardinality(S) <= Concurrency => Cardinality(S \ {q}) <= Concurrency
  <1>1. Cardinality(S) \in Nat
    BY FS_CardinalityType
  <1>2. /\ IsFiniteSet(S \cup {q})
        /\ Cardinality(S \cup {q}) = Cardinality(S) \/ Cardinality(S \cup {q}) = Cardinality(S) + 1
    BY FS_AddElement
  <1>3. /\ IsFiniteSet(S \ {q})
        /\ Cardinality(S \ {q}) = Cardinality(S) \/ Cardinality(S \ {q}) = Cardinality(S) - 1
    BY FS_RemoveElement
  <1> QED  BY <1>1, <1>2, <1>3

\* What a refresh that searches consists of.
LEMMA WhileLoading ==
  ASSUME IInv, Loading
  PROVE  \E todo, running, left, results, skipped, failed :
            /\ refresh = [step |-> "loading", todo |-> todo, running |-> running, left |-> left,
                          results |-> results, skipped |-> skipped, failed |-> failed]
            /\ left \in -Grace .. Budget
            /\ IsFiniteSet(running) /\ Cardinality(running) <= Concurrency
  BY DEF Loading, IInv, RefreshInv, LoadingState

\* A search that ends frees its place.
LEMMA FinishedHolds ==
  ASSUME IInv, Loading, NEW q \in Query, NEW bucket \in {"results", "failed", "skipped"},
         refresh' = Finished(q, bucket)
  PROVE  RefreshInv'
  <1>1. PICK todo, running, left, results, skipped, failed :
            /\ refresh = [step |-> "loading", todo |-> todo, running |-> running, left |-> left,
                          results |-> results, skipped |-> skipped, failed |-> failed]
            /\ left \in -Grace .. Budget
            /\ IsFiniteSet(running) /\ Cardinality(running) <= Concurrency
    BY WhileLoading
  <1>2. IsFiniteSet(running \ {q}) /\ Cardinality(running \ {q}) <= Concurrency
    BY <1>1, Searches
  <1>3. CASE bucket = "results"
    <2>1. refresh' = [step |-> "loading", todo |-> todo, running |-> running \ {q}, left |-> left,
                      results |-> results \cup {q}, skipped |-> skipped, failed |-> failed]
      BY <1>1, <1>3 DEF Finished
    <2> QED  BY <1>1, <1>2, <2>1, LoadsOn
  <1>4. CASE bucket = "failed"
    <2>1. refresh' = [step |-> "loading", todo |-> todo, running |-> running \ {q}, left |-> left,
                      results |-> results, skipped |-> skipped, failed |-> failed \cup {q}]
      BY <1>1, <1>4 DEF Finished
    <2> QED  BY <1>1, <1>2, <2>1, LoadsOn
  <1>5. CASE bucket = "skipped"
    <2>1. refresh' = [step |-> "loading", todo |-> todo, running |-> running \ {q}, left |-> left,
                      results |-> results, skipped |-> skipped \cup {q}, failed |-> failed]
      BY <1>1, <1>5 DEF Finished
    <2> QED  BY <1>1, <1>2, <2>1, LoadsOn
  <1> QED  BY <1>3, <1>4, <1>5

\* A load begins where there is no dataset yet.
LEMMA BeginLoadKeeps ==
  ASSUME IInv, NEW q, BeginLoad(q), UNCHANGED <<market, dataset>>
  PROVE  DataInv'
  <1>1. /\ standing \in [Query -> SUBSET market] /\ DOMAIN dataset = Query
        /\ \A p \in Query : \A d \in dataset[p] : d.truncated \/ standing[p] \subseteq d.ads
        /\ dataset[q] = {} /\ standing' = [standing EXCEPT ![q] = market]
    BY DEF IInv, DataInv, BeginLoad
  <1>2. standing' \in [Query -> SUBSET market']
    BY <1>1
  <1>3. ASSUME NEW p \in Query, NEW d \in dataset'[p]
        PROVE  d.truncated \/ standing'[p] \subseteq d.ads
    <2>1. p # q
      BY <1>1, <1>3
    <2> QED  BY <1>1, <1>3, <2>1
  <1> QED  BY <1>1, <1>2, <1>3 DEF DataInv

LEMMA SearchKeeps ==
  ASSUME IInv, StartSearch \/ SearchCached \/ SkipSearch \/ Tick
  PROVE  IInv'
  <1>1. Loading /\ UNCHANGED <<tables, lock, request>> /\ UNCHANGED <<market, dataset>>
    BY DEF StartSearch, SearchCached, SkipSearch, Tick, Proceed
  <1>2. PICK todo, running, left, results, skipped, failed :
            /\ refresh = [step |-> "loading", todo |-> todo, running |-> running, left |-> left,
                          results |-> results, skipped |-> skipped, failed |-> failed]
            /\ left \in -Grace .. Budget
            /\ IsFiniteSet(running) /\ Cardinality(running) <= Concurrency
    BY <1>1, WhileLoading
  <1>3. ASSUME StartSearch  PROVE RefreshInv'
    <2>1. /\ refresh' = [refresh EXCEPT !.todo = Tail(@), !.running = @ \cup {UpNext}]
          /\ Cardinality(running) < Concurrency
      BY <1>2, <1>3 DEF StartSearch, Proceed, SlotFree
    <2>2. refresh' = [step |-> "loading", todo |-> Tail(todo), running |-> running \cup {UpNext},
                      left |-> left, results |-> results, skipped |-> skipped, failed |-> failed]
      BY <1>2, <2>1
    <2>3. /\ IsFiniteSet(running \cup {UpNext})
          /\ Cardinality(running \cup {UpNext}) <= Concurrency
      BY <1>2, <2>1, Searches
    <2> QED  BY <1>2, <2>2, <2>3, LoadsOn
  <1>4. ASSUME SearchCached  PROVE RefreshInv'
    <2>1. refresh' = [refresh EXCEPT !.todo = Tail(@), !.results = @ \cup {UpNext}]
      BY <1>4 DEF SearchCached, Proceed
    <2>2. refresh' = [step |-> "loading", todo |-> Tail(todo), running |-> running, left |-> left,
                      results |-> results \cup {UpNext}, skipped |-> skipped, failed |-> failed]
      BY <1>2, <2>1
    <2> QED  BY <1>2, <2>2, LoadsOn
  <1>5. ASSUME SkipSearch  PROVE RefreshInv'
    <2>1. refresh' = [refresh EXCEPT !.todo = Tail(@), !.skipped = @ \cup {UpNext}]
      BY <1>5 DEF SkipSearch, Proceed
    <2>2. refresh' = [step |-> "loading", todo |-> Tail(todo), running |-> running, left |-> left,
                      results |-> results, skipped |-> skipped \cup {UpNext}, failed |-> failed]
      BY <1>2, <2>1
    <2> QED  BY <1>2, <2>2, LoadsOn
  <1>6. ASSUME Tick  PROVE RefreshInv'
    <2>1. refresh' = [refresh EXCEPT !.left = @ - 1] /\ refresh.left > -Grace
      BY <1>6 DEF Tick, Proceed
    <2>2. refresh' = [step |-> "loading", todo |-> todo, running |-> running, left |-> left - 1,
                      results |-> results, skipped |-> skipped, failed |-> failed]
      BY <1>2, <2>1
    <2>3. left - 1 \in -Grace .. Budget
      BY <1>2, <2>1
    <2> QED  BY <1>2, <2>2, <2>3, LoadsOn
  <1>7. DataInv'
    <2>1. CASE UNCHANGED standing
      BY <1>1, <2>1, RowsStay
    <2>2. CASE BeginLoad(UpNext)
      BY <1>1, <2>2, BeginLoadKeeps
    <2> QED
      BY <2>1, <2>2 DEF StartSearch, SearchCached, SkipSearch, Tick, Unchanged
  <1>8. RefreshInv'
    BY <1>3, <1>4, <1>5, <1>6
  <1> QED  BY <1>1, <1>7, <1>8, RowsStay DEF IInv

\* A load ends, for a refresh that waits for it and for one that does not.
LEMMA AnswerKeeps ==
  ASSUME IInv, NEW q \in Query, NEW found, NEW truncated, LoadEnds(q, found, truncated)
  PROVE  IInv'
  <1>1. /\ UNCHANGED <<tables, lock, request>> /\ UNCHANGED market /\ UNCHANGED standing
        /\ truncated \/ standing[q] \subseteq found
        /\ refresh' = IF Waits(q) THEN Finished(q, "results") ELSE refresh
        /\ dataset' = [dataset EXCEPT ![q] = {[ads |-> found, truncated |-> truncated]}]
    BY DEF LoadEnds
  <1>2. RefreshInv'
    <2>1. CASE Waits(q)
      BY <1>1, <2>1, FinishedHolds DEF Waits
    <2>2. CASE ~Waits(q)
      BY <1>1, <2>2, RowsStay
    <2> QED  BY <2>1, <2>2
  <1>3. DataInv'
    <2>1. /\ standing \in [Query -> SUBSET market] /\ DOMAIN dataset = Query
          /\ \A p \in Query : \A d \in dataset[p] : d.truncated \/ standing[p] \subseteq d.ads
      BY DEF IInv, DataInv
    <2>2. ASSUME NEW p \in Query, NEW d \in dataset'[p]
          PROVE  d.truncated \/ standing'[p] \subseteq d.ads
      <3>1. CASE p # q
        BY <1>1, <2>1, <2>2, <3>1
      <3>2. CASE p = q
        <4>1. d = [ads |-> found, truncated |-> truncated]
          BY <1>1, <2>1, <2>2, <3>2
        <4>2. d.ads = found /\ d.truncated = truncated
          BY <4>1
        <4> QED  BY <1>1, <3>2, <4>2
      <3> QED  BY <3>1, <3>2
    <2> QED  BY <1>1, <2>1, <2>2 DEF DataInv
  <1> QED  BY <1>1, <1>2, <1>3, RowsStay DEF IInv

LEMMA NoAnswerKeeps ==
  ASSUME IInv, NEW q \in Query, LoadFails(q) \/ SearchLate(q)
  PROVE  IInv'
  <1>1. UNCHANGED <<tables, lock, request>> /\ UNCHANGED <<market, dataset>>
    BY DEF LoadFails, SearchLate, Proceed
  <1>2. CASE LoadFails(q)
    <2>1. /\ standing' = [standing EXCEPT ![q] = {}]
          /\ refresh' = IF Waits(q) THEN Finished(q, "failed") ELSE refresh
      BY <1>2 DEF LoadFails
    <2>2. RefreshInv'
      <3>1. CASE Waits(q)
        BY <2>1, <3>1, FinishedHolds DEF Waits
      <3>2. CASE ~Waits(q)
        BY <1>1, <2>1, <3>2, RowsStay
      <3> QED  BY <3>1, <3>2
    <2>3. DataInv'
      BY <1>1, <2>1 DEF IInv, DataInv
    <2> QED  BY <1>1, <2>2, <2>3, RowsStay DEF IInv
  <1>3. CASE SearchLate(q)
    <2>1. Loading /\ refresh' = Finished(q, "skipped") /\ UNCHANGED standing
      BY <1>3 DEF SearchLate, Waits, Proceed, Unchanged
    <2>2. RefreshInv'
      BY <2>1, FinishedHolds
    <2> QED  BY <1>1, <2>1, <2>2, RowsStay DEF IInv
  <1> QED  BY <1>2, <1>3

\* The listings move.
LEMMA KufarKeeps ==
  ASSUME IInv, NEW a \in Ad, Publish(a) \/ Withdraw(a)
  PROVE  IInv'
  <1>1. UNCHANGED <<tables, lock, request>> /\ UNCHANGED refresh /\ UNCHANGED dataset
    BY DEF Publish, Withdraw
  <1>2. standing \in [Query -> SUBSET market]
    BY DEF IInv, DataInv
  <1>3. CASE Publish(a)
    <2>1. /\ market' = market \cup {a} /\ standing' = [q \in Query |-> StandingAfter(q)]
          /\ \A q \in Query : StandingAfter(q) \subseteq standing[q]
      BY <1>3 DEF Publish, StandingAfter
    <2>2. DataInv'
      BY <1>1, <1>2, <2>1 DEF IInv, DataInv
    <2> QED  BY <1>1, <2>2, RowsStay DEF IInv
  <1>4. CASE Withdraw(a)
    <2>1. /\ market' = market \ {a}
          /\ standing' = [q \in Query |-> IF load[q] = {} THEN standing[q] \ {a} ELSE {}]
      BY <1>4 DEF Withdraw
    <2>2. DataInv'
      BY <1>1, <1>2, <2>1 DEF IInv, DataInv
    <2> QED  BY <1>1, <2>2, RowsStay DEF IInv
  <1> QED  BY <1>3, <1>4

\* What happens to one query outside the refresh.
LEMMA QueryKeeps ==
  ASSUME IInv, NEW q \in Query, Expire(q) \/ OthersLoad(q) \/ OtherPublished(q) \/ OtherMoved(q)
  PROVE  IInv'
  <1>1. UNCHANGED <<tables, lock, request>> /\ UNCHANGED refresh /\ UNCHANGED market
    BY DEF Expire, OthersLoad, OtherPublished, OtherMoved
  <1>2. CASE Expire(q)
    <2>1. /\ dataset' = [dataset EXCEPT ![q] = {}]
          /\ standing' = [standing EXCEPT ![q] = {}]
      BY <1>2 DEF Expire
    <2>2. DataInv'
      BY <1>1, <2>1 DEF IInv, DataInv
    <2> QED  BY <1>1, <2>2, RowsStay DEF IInv
  <1>3. CASE OthersLoad(q)
    <2>1. DataInv'
      BY <1>1, <1>3, BeginLoadKeeps DEF OthersLoad
    <2> QED  BY <1>1, <2>1, RowsStay DEF IInv
  <1>4. CASE OtherPublished(q) \/ OtherMoved(q)
    <2>1. UNCHANGED dataset
      BY <1>4 DEF OtherPublished, OtherMoved
    <2>2. PICK now : standing' = [standing EXCEPT ![q] = now] /\ now \subseteq standing[q]
      <3>1. StandingAfter(q) \subseteq standing[q]
        BY DEF StandingAfter
      <3> QED  BY <1>4, <3>1 DEF OtherPublished, OtherMoved
    <2>3. DataInv'
      BY <1>1, <2>1, <2>2 DEF IInv, DataInv
    <2> QED  BY <1>1, <2>3, RowsStay DEF IInv
  <1> QED  BY <1>2, <1>3, <1>4

\* The steps between the searches and the rows.
LEMMA StagesKeep ==
  ASSUME IInv, StartRefresh \/ RefreshFails \/ SelectItems \/ RefreshStale
  PROVE  IInv'
  <1>1. UNCHANGED <<tables, lock, request>> /\ UNCHANGED <<market, dataset, standing>>
    BY DEF StartRefresh, RefreshFails, SelectItems, RefreshStale, Proceed, Unchanged
  <1>2. ASSUME StartRefresh  PROVE RefreshInv'
    <2>1. refresh' = [step |-> "loading", todo |-> StalestFirst, running |-> {}, left |-> Budget,
                      results |-> {}, skipped |-> {}, failed |-> {}]
      BY <1>2 DEF StartRefresh
    <2>2. /\ Budget \in -Grace .. Budget /\ IsFiniteSet({}) /\ Cardinality({}) <= Concurrency
      BY FS_EmptySet
    <2> HIDE DEF StalestFirst
    <2> QED  BY <2>1, <2>2, LoadsOn
  <1>3. ASSUME RefreshFails \/ RefreshStale  PROVE RefreshInv'
    <2>1. refresh' = [step |-> "idle"]
      BY <1>3 DEF RefreshFails, RefreshStale, Proceed, Untouched
    <2> QED  BY <2>1 DEF RefreshInv
  <1>4. ASSUME SelectItems  PROVE RefreshInv'
    <2>1. refresh' = [step |-> "applying", rows |-> watch, gone |-> {},
                      results |-> refresh.results, skipped |-> refresh.skipped]
      BY <1>4 DEF SelectItems, Proceed
    <2>2. UNCHANGED watch /\ watch \in [Ad -> WatchRow]
      BY <1>1 DEF tables, IInv, WatchInv
    <2> QED  BY <2>1, <2>2 DEF RefreshInv
  <1> QED  BY <1>1, <1>2, <1>3, <1>4, RowsStay DEF IInv

\* The commit of a refresh writes its columns of rows that are still there.
LEMMA CommitRefreshKeeps ==
  ASSUME IInv, CommitRefresh
  PROVE  /\ IInv'
         /\ \A a \in Ad : watch'[a] # watch[a] =>
                /\ Checked(a) /\ watch'[a].status = watch[a].status
                /\ watch'[a].market = IF Missing(a) THEN "missing" ELSE "listed"
  <1>1. /\ refresh.step = "applying" /\ Written \cap refresh.gone = {}
        /\ watch' = [a \in Ad |-> Refreshed(a)]
        /\ seen' \in SeenNow({a \in Ad : Checked(a) /\ Found(a)})
        /\ refresh' = [step |-> "applied", skipped |-> refresh.skipped, results |-> refresh.results]
        /\ UNCHANGED <<lead, saved, told, lock, request, market, load, dataset, standing>>
    BY DEF CommitRefresh
  <1>2. /\ watch \in [Ad -> WatchRow] /\ IsFiniteSet(Watched)
        /\ \A a \in Ad : refresh.rows[a] # NoRow /\ a \notin refresh.gone => watch[a] # NoRow
    BY <1>1 DEF IInv, RefreshInv, WatchInv
  <1>3. ASSUME NEW a \in Ad
        PROVE  /\ watch'[a] \in WatchRow
               /\ watch'[a] = NoRow <=> watch[a] = NoRow
               /\ watch'[a].status = watch[a].status
               /\ watch'[a] # watch[a] =>
                      /\ Checked(a)
                      /\ watch'[a].market = IF Missing(a) THEN "missing" ELSE "listed"
    <2>1. CASE a \notin Written
      BY <1>1, <1>2, <2>1 DEF Refreshed
    <2>2. CASE a \in Written
      <3>1. Checked(a) /\ a \notin refresh.gone
        BY <1>1, <2>2 DEF Written, Missing
      <3>2. watch[a] \in [query: Query, status: Status, market: MarketStatus]
        BY <1>2, <3>1 DEF Checked, WatchRow
      <3> DEFINE new == IF Missing(a) THEN "missing" ELSE "listed"
      <3>3. new \in MarketStatus
        BY DEF MarketStatus
      <3>4. watch'[a] = [watch[a] EXCEPT !.market = new]
        BY <1>1, <2>2 DEF Refreshed
      <3> HIDE DEF new
      <3>5. /\ watch'[a] \in [query: Query, status: Status, market: MarketStatus]
            /\ watch'[a].market = new /\ watch'[a].status = watch[a].status
        BY <3>2, <3>3, <3>4
      <3> QED  BY <3>1, <3>2, <3>5, RowsDiffer DEF WatchRow, new
    <2> QED  BY <2>1, <2>2
  <1>4. Watched' = Watched /\ watch' \in [Ad -> WatchRow]
    BY <1>1, <1>3 DEF Watched
  <1>5. WatchInv'
    <2>1. \A r \in Request : request[r].op \in {"watch", "change watch"} => request[r].ad \in Ad
      <3>1. ASSUME NEW r \in Request, request[r].op \in {"watch", "change watch"}
            PROVE  request[r].ad \in Ad
        <4>1. request[r] \in Read
          BY DEF IInv, LockInv
        <4> QED  BY <3>1, <4>1, ReadKinds DEF WatchRead, ChangeRead
      <3> QED  BY <3>1
    <2> QED  BY <1>1, <1>3, <1>4, <2>1 DEF IInv, WatchInv
  <1>6. LockInv' /\ LeadInv' /\ SavedInv' /\ DataInv'
    BY <1>1 DEF IInv, LockInv, LeadInv, SavedInv, DataInv
  <1>7. RefreshInv'
    BY <1>1 DEF RefreshInv
  <1>8. SeenInv'
    <2>1. seen' \in SetToSeqs(Watched)
      BY <1>1 DEF SeenNow
    <2>2. PICK n \in Nat : n = Cardinality(Watched)
      BY <1>2, FS_CardinalityType
    <2>3. seen' \in [1 .. n -> Watched] /\ \A i, j \in 1 .. n : i # j => seen'[i] # seen'[j]
      BY <2>1, <2>2 DEF SetToSeqs
    <2>4. seen' \in Injection(1 .. n, Watched)
      BY <2>3 DEF Injection, IsInjective
    <2>5. IsFiniteSet(1 .. n) /\ Cardinality(1 .. n) = n
      <3>1. 1 \in Int /\ n \in Int /\ (1 <= n \/ n = 0)
        OBVIOUS
      <3> QED  BY <3>1, FS_Interval
    <2>6. seen' \in Surjection(1 .. n, Watched)
      BY <1>2, <2>2, <2>4, <2>5, FS_Injection
    <2>7. Watched \subseteq Ad
      BY DEF Watched
    <2>8. seen' \in Seq(Ad) /\ Len(seen') = n
      BY <2>3, <2>7
    <2>9. ToSet(seen') = Watched
      BY <2>6 DEF Surjection, ToSet
    <2> QED  BY <1>4, <2>2, <2>8, <2>9 DEF SeenInv
  <1>9. UserStatusKept' /\ DOMAIN told' = Ad
    BY <1>1, <1>3 DEF IInv, UserStatusKept
  <1> QED  BY <1>3, <1>5, <1>6, <1>7, <1>8, <1>9 DEF IInv

-----------------------------------------------------------------------------
(* The theorems. *)

LEMMA Initial == Init => IInv
  <1> SUFFICES ASSUME Init PROVE IInv
    OBVIOUS
  <1>1. /\ lead = [a \in Ad |-> NoLead] /\ watch = [a \in Ad |-> NoRow] /\ saved = {}
        /\ lock = {} /\ request = [r \in Request |-> Idle] /\ seen = <<>> /\ market = {}
        /\ refresh = [step |-> "idle"] /\ dataset = [q \in Query |-> {}]
        /\ told = [a \in Ad |-> None] /\ standing = [q \in Query |-> {}]
    BY DEF Init, NoWatch, NoDataset, Untouched
  <1>2. \A r \in Request : request[r].op = "idle"
    BY <1>1 DEF Idle
  <1>3. Watched = {} /\ IsFiniteSet({}) /\ Cardinality({}) = 0
    BY <1>1, FS_EmptySet DEF Watched
  <1>4. LockInv
    BY <1>1, <1>2 DEF LockInv, Read, Adder
  <1>5. LeadInv
    BY <1>1, <1>2 DEF LeadInv, LeadRow
  <1>6. WatchInv
    <2>1. watch \in [Ad -> WatchRow]
      BY <1>1 DEF WatchRow
    <2>2. IsFiniteSet(Watched) /\ Cardinality(Watched) <= MaxWatch
      BY <1>3, WorkflowAssumption
    <2>3. \A r \in Request : request[r].op # "watch" /\ request[r].op # "change watch"
      BY <1>2
    <2> QED  BY <2>1, <2>2, <2>3 DEF WatchInv
  <1>7. SavedInv
    BY <1>1, <1>2, <1>3 DEF SavedInv
  <1>8. SeenInv
    BY <1>1, <1>3 DEF SeenInv, ToSet
  <1>9. RefreshInv
    BY <1>1 DEF RefreshInv
  <1>10. DataInv
    BY <1>1 DEF DataInv
  <1>11. UserStatusKept /\ DOMAIN told = Ad
    BY <1>1 DEF UserStatusKept, NoRow
  <1> QED  BY <1>4, <1>5, <1>6, <1>7, <1>8, <1>9, <1>10, <1>11 DEF IInv

LEMMA Invariance == Spec => []IInv
  <1>1. IInv /\ [Next]_vars => IInv'
    <2> SUFFICES ASSUME IInv, [Next]_vars PROVE IInv'
      OBVIOUS
    <2>1. CASE UNCHANGED vars
      <3>1. /\ UNCHANGED <<tables, lock, request>> /\ UNCHANGED refresh
            /\ UNCHANGED <<market, dataset, standing>>
        BY <2>1 DEF vars
      <3> QED  BY <3>1, RowsStay DEF IInv
    <2>2. CASE RefreshStep
      BY <2>2, SearchKeeps, AnswerKeeps, NoAnswerKeeps, StagesKeep, CommitRefreshKeeps
      DEF RefreshStep
    <2> QED
      BY <2>1, <2>2, LeadKeeps, WatchlistKeeps, SavedKeeps, FailKeeps, DeleteWatchKeeps,
         DeleteSavedKeeps, KufarKeeps, QueryKeeps, StagesKeep DEF Next
  <1> QED  BY <1>1, Initial, PTL DEF Spec

\* Parallel requests never take the watchlist or the saved searches over their quota.
THEOREM QuotasHold == Spec => []QuotasKept
  <1>1. IInv => TypeOK
    <2> SUFFICES ASSUME IInv PROVE TypeOK
      OBVIOUS
    <2>1. lock \subseteq Request /\ Cardinality(lock) <= 1
      <3>1. CASE lock = {}
        BY <3>1, FS_EmptySet
      <3>2. ASSUME NEW r \in Request, lock = {r}
            PROVE  lock \subseteq Request /\ Cardinality(lock) <= 1
        <4>1. Cardinality({r}) = 1
          BY FS_Singleton
        <4> QED  BY <3>2, <4>1
      <3> QED  BY <3>1, <3>2 DEF IInv, LockInv
    <2>2. Loading => /\ refresh.left \in -Grace .. Budget
                     /\ Cardinality(refresh.running) <= Concurrency
      BY DEF IInv, RefreshInv, LoadingState, Loading
    <2>3. \A q \in Query : standing[q] \subseteq market
      BY DEF IInv, DataInv
    <2> QED
      BY <2>1, <2>2, <2>3
      DEF TypeOK, IInv, LeadInv, LeadRow, WatchInv, WatchRow, SavedInv, SeenInv
  <1>2. IInv => QuotasKept
    BY <1>1 DEF QuotasKept, IInv, WatchInv, SavedInv
  <1> QED  BY <1>2, Invariance, PTL

\* No refresh and no repeated "add" sets back the status a user gave a watched listing.
THEOREM UserStatusStays == Spec => []UserStatusKept
  <1>1. IInv => UserStatusKept
    BY DEF IInv
  <1> QED  BY <1>1, Invariance, PTL

\* A lot is marked missing only when it was not on sale at some moment since the load of
\* its query's dataset began, or something may have hidden it from that load.
THEOREM MissingAreGone == Spec => MissingIsGone
  <1>1. ASSUME IInv, [Next]_vars, NEW a \in Ad,
               watch'[a].market = "missing", watch[a].market # "missing"
        PROVE  a \notin standing[refresh.rows[a].query]
    <2>1. watch \in [Ad -> WatchRow] /\ watch' # watch
      BY <1>1 DEF IInv, WatchInv
    <2>2. ASSUME CommitRefresh
          PROVE  a \notin standing[refresh.rows[a].query]
      <3>1. Missing(a) /\ refresh.rows[a] # NoRow
        <4>1. /\ Checked(a)
              /\ watch'[a].market = IF Missing(a) THEN "missing" ELSE "listed"
          BY <1>1, <2>2, CommitRefreshKeeps
        <4> QED  BY <1>1, <4>1 DEF Checked
      <3> DEFINE q == refresh.rows[a].query
      <3>2. q \in Query
        <4>1. refresh.rows[a] \in WatchRow
          BY <1>1, <2>2 DEF CommitRefresh, IInv, RefreshInv
        <4> QED  BY <3>1, <4>1 DEF WatchRow
      <3>3. PICK d \in dataset[q] : ~d.truncated /\ a \notin d.ads
        BY <3>1 DEF Missing, Found
      <3>4. standing[q] \subseteq d.ads
        BY <1>1, <3>2, <3>3 DEF IInv, DataInv
      <3> QED  BY <3>3, <3>4
    <2>3. ASSUME NEW r \in Request, CommitWatch(r) \/ CommitWatchChange(r)
          PROVE  FALSE
      <3> DEFINE read == request[r]
      <3>1. read \in Read /\ read.op \in {"watch", "change watch"}
        BY <1>1, <2>3 DEF IInv, LockInv, CommitWatch, CommitWatchChange
      <3>2. read.ad \in Ad
        BY <3>1, ReadKinds DEF WatchRead, ChangeRead
      <3>3. ASSUME NEW row, watch' = [watch EXCEPT ![read.ad] = row],
                   row.market # "missing" \/ row.market = watch[read.ad].market
            PROVE  FALSE
        BY <1>1, <2>1, <3>2, <3>3
      <3>4. CASE CommitWatch(r) /\ read.isNew
        BY <3>3, <3>4 DEF CommitWatch
      <3>5. CASE CommitWatch(r) /\ ~read.isNew
        <4>1. watch[read.ad] \in [query: Query, status: Status, market: MarketStatus]
          BY <1>1, <2>1, <3>2, <3>5 DEF CommitWatch, IInv, WatchInv, WatchRow
        <4>2. watch' = [watch EXCEPT ![read.ad] = [watch[read.ad] EXCEPT !.query = read.query]]
          BY <3>5 DEF CommitWatch
        <4> QED  BY <3>3, <4>1, <4>2
      <3>6. CASE CommitWatchChange(r)
        <4>1. watch[read.ad] \in [query: Query, status: Status, market: MarketStatus]
          BY <1>1, <2>1, <3>2, <3>6 DEF CommitWatchChange, IInv, WatchInv, WatchRow
        <4>2. PICK status : watch' = [watch EXCEPT ![read.ad] = [watch[read.ad] EXCEPT !.status = status]]
          BY <3>6 DEF CommitWatchChange
        <4> QED  BY <3>3, <4>1, <4>2
      <3> QED  BY <2>3, <3>4, <3>5, <3>6
    <2>4. ASSUME NEW b \in Ad, DeleteWatch(b)  PROVE FALSE
      <3>1. watch' = [watch EXCEPT ![b] = NoRow] /\ NoRow.market # "missing"
        BY <2>4 DEF DeleteWatch, NoRow, None
      <3> QED  BY <1>1, <2>1, <3>1
    <2>5. ASSUME NEW r \in Request, Lead(r) \/ SavedSearches(r) \/ Fail(r)
          PROVE  FALSE
      BY <2>1, <2>5 DEF Lead, ReadLeadToAdd, ReadLeadToChange, CommitLead, CommitLeadChange,
         SavedSearches, ReadSaved, CommitSaved, Fail, tables
    <2>6. ASSUME NEW r \in Request, Watchlist(r)
          PROVE  CommitWatch(r) \/ CommitWatchChange(r)
      BY <2>1, <2>6 DEF Watchlist, ReadWatchToAdd, ReadWatchToChange, tables
    <2>7. ASSUME RefreshStep \/ StartRefresh  PROVE CommitRefresh
      BY <2>1, <2>7 DEF RefreshStep, StartRefresh, StartSearch, SkipSearch, Tick,
         SearchCached, LoadEnds, LoadFails, SearchLate, RefreshFails, SelectItems,
         RefreshStale, Proceed, tables
    <2>8. ASSUME \/ \E b \in Ad : Publish(b) \/ Withdraw(b)
                 \/ \E t \in Search : DeleteSaved(t)
                 \/ \E q \in Query :
                        Expire(q) \/ OthersLoad(q) \/ OtherPublished(q) \/ OtherMoved(q)
                 \/ UNCHANGED vars
          PROVE  FALSE
      BY <2>1, <2>8 DEF Publish, Withdraw, DeleteSaved, Expire, OthersLoad, OtherPublished,
         OtherMoved, tables, vars
    <2> QED  BY <1>1, <2>2, <2>3, <2>4, <2>5, <2>6, <2>7, <2>8 DEF Next
  <1>2. IInv /\ [Next]_vars =>
            [\A a \in Ad :
                watch'[a].market = "missing" /\ watch[a].market # "missing" =>
                    a \notin standing[refresh.rows[a].query]]_vars
    BY <1>1
  <1> QED  BY <1>2, Invariance, PTL DEF Spec, MissingIsGone

=============================================================================
