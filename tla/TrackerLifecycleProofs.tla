----------------------- MODULE TrackerLifecycleProofs -----------------------
(* Theorems about TrackerLifecycle, for every set of users, identities and   *)
(* handlers, every quota and every number of rows.                           *)
EXTENDS TrackerLifecycle, FiniteSetTheorems, WellFoundedInduction, NaturalsInduction, TLAPS

-----------------------------------------------------------------------------
(* Type correctness. *)

\* An UPDATE of rows that exist leaves a table of rows.
LEMMA UpdateTypes ==
    ASSUME NEW table \in [TrackerId -> Row \cup {NoRow}],
           NEW ids \in SUBSET TrackerId,
           \A t \in ids : table[t] \in Row,
           NEW value \in BOOLEAN
    PROVE  /\ SetActive(table, ids, value) \in [TrackerId -> Row \cup {NoRow}]
           /\ SetDeleted(table, ids) \in [TrackerId -> Row \cup {NoRow}]
           /\ SetChecked(table, ids, value) \in [TrackerId -> Row \cup {NoRow}]
  BY DEF SetActive, SetDeleted, SetChecked, Row

\* The end of a transaction resets one handler and frees its lock.
LEMMA FinishTypes ==
    ASSUME TypeOK, NEW r \in Request, Finish(r)
    PROVE  /\ lock' \in [User -> Request \cup {NoRequest}]
           /\ request' \in [Request -> RequestState]
  <1>1. IdleRequest \in RequestState
    BY DEF IdleRequest, RequestState, Step
  <1> QED  BY <1>1 DEF TypeOK, Finish

\* A handler under way works for a user, and the ids that it or the collector
\* keeps are ids of rows that exist: rows are never removed.
LocalsExist ==
    /\ \A r \in Request :
          /\ request[r].paused \cup request[r].seen \cup request[r].target \subseteq Inserted
          /\ request[r].step # "idle" => request[r].user \in User
    /\ collector.batch \cup collector.outbox \subseteq Inserted

TypeInv == TypeOK /\ LocalsExist

\* The tables that the migrations create satisfy the type invariant.
LEMMA TypeInit == Init => TypeInv
  BY DEF Init, TypeInv, TypeOK, LocalsExist, IdleRequest, RequestState, Step,
         IdleCollector, CollectorState, Inserted

\* A handler moves on with a well-typed local state about existing rows.
LEMMA RequestTypes ==
    ASSUME TypeInv, NEW r \in Request, NEW new \in RequestState,
           new.paused \cup new.seen \cup new.target \subseteq Inserted,
           new.user \in User,
           request' = [request EXCEPT ![r] = new],
           UNCHANGED <<tracker, collector>>,
           lock' \in [User -> Request \cup {NoRequest}],
           blocked' \in SUBSET User
    PROVE  TypeInv'
  <1>1. TypeOK'
    BY DEF TypeInv, TypeOK
  <1>2. LocalsExist'
    BY DEF TypeInv, TypeOK, LocalsExist, Inserted
  <1> QED  BY <1>1, <1>2 DEF TypeInv

\* The table changes but no row goes, and a handler ends or none moves.
LEMMA TableTypes ==
    ASSUME TypeInv, tracker' \in [TrackerId -> Row \cup {NoRow}],
           Inserted \subseteq Inserted',
           \/ \E r \in Request : Finish(r) /\ UNCHANGED collector
           \/ /\ UNCHANGED <<request, lock>>
              /\ collector' \in CollectorState
              /\ collector'.batch \subseteq collector.batch
              /\ collector'.outbox \subseteq collector.outbox,
           UNCHANGED blocked
    PROVE  TypeInv'
  <1>1. ASSUME NEW r \in Request, Finish(r)
        PROVE  /\ lock' \in [User -> Request \cup {NoRequest}]
               /\ request' \in [Request -> RequestState]
    BY <1>1, FinishTypes DEF TypeInv
  <1>2. TypeOK'
    BY <1>1 DEF TypeInv, TypeOK
  <1>3. ASSUME NEW r \in Request, Finish(r)
        PROVE  \A q \in Request :
                  /\ request'[q].paused \cup request'[q].seen \cup request'[q].target
                        \subseteq Inserted
                  /\ request'[q].step # "idle" => request'[q].user \in User
    BY <1>3 DEF TypeInv, TypeOK, LocalsExist, Finish, IdleRequest
  <1>4. LocalsExist'
    BY <1>3 DEF TypeInv, LocalsExist
  <1> QED  BY <1>2, <1>4 DEF TypeInv

\* The loop of resume_paused_trackers picks among the rows it has read.
LEMMA ResumedPaused ==
    ASSUME NEW paused, NEW active
    PROVE  Resumed(paused, active) \subseteq Distinct(paused, active)
           /\ Distinct(paused, active) \subseteq paused
  BY DEF Resumed, Distinct

\* An UPDATE inserts and deletes no row.
LEMMA UpdateInserted ==
    ASSUME NEW table \in [TrackerId -> Row \cup {NoRow}],
           NEW ids \in SUBSET TrackerId,
           \A t \in ids : table[t] \in Row,
           NEW value \in BOOLEAN, NEW t \in TrackerId
    PROVE  /\ (SetActive(table, ids, value)[t] = NoRow) <=> (table[t] = NoRow)
           /\ (SetDeleted(table, ids)[t] = NoRow) <=> (table[t] = NoRow)
           /\ (SetChecked(table, ids, value)[t] = NoRow) <=> (table[t] = NoRow)
  <1>1. CASE t \in ids
    <2>1. table[t] \in Row
      BY <1>1
    <2>2. /\ [table[t] EXCEPT !.active = value] \in Row
          /\ [table[t] EXCEPT !.deleted = TRUE] \in Row
          /\ [table[t] EXCEPT !.checked = value] \in Row
      BY <2>1 DEF Row
    <2>3. NoRow \notin Row
      BY NoRowAssumption DEF Row
    <2> QED  BY <1>1, <2>1, <2>2, <2>3 DEF SetActive, SetDeleted, SetChecked
  <1>2. CASE t \notin ids
    BY <1>2 DEF SetActive, SetDeleted, SetChecked
  <1> QED  BY <1>1, <1>2

\* Every statement and commit keeps the type invariant.
LEMMA TypeStep == TypeInv /\ [Next]_vars => TypeInv'
  <1> SUFFICES ASSUME TypeInv, [Next]_vars
               PROVE  TypeInv'
    OBVIOUS
  <1>a. \A r \in Request :
           /\ request[r] \in RequestState
           /\ request[r].paused \cup request[r].seen \cup request[r].target \subseteq Inserted
           /\ request[r].step # "idle" => request[r].user \in User
    BY DEF TypeInv, TypeOK, LocalsExist
  <1>b. \A t \in Inserted : tracker[t] \in Row
    BY DEF TypeInv, TypeOK, Inserted
  <1>c. \A u : Active(u) \subseteq Inserted /\ Paused(u) \subseteq Inserted
    BY DEF Active, Paused, OwnedBy
  <1>d. Inserted \subseteq TrackerId
    BY DEF Inserted
  <1>e. IdleRequest \in RequestState
    BY DEF IdleRequest, RequestState, Step
  <1>1. ASSUME NEW r \in Request, NEW u \in User, NEW i \in Identity,
               StartCreate(r, u, i)
        PROVE  TypeInv'
    <2> DEFINE new == [IdleRequest EXCEPT !.step = "create-user", !.user = u, !.identity = {i}]
    <2>1. new \in RequestState /\ new.paused \cup new.seen \cup new.target = {} /\ new.user \in User
      BY DEF IdleRequest, RequestState, Step
    <2>2. request' = [request EXCEPT ![r] = new] /\ UNCHANGED <<tracker, lock, collector, blocked>>
      BY <1>1 DEF StartCreate
    <2> HIDE DEF new
    <2> QED  BY <2>1, <2>2, RequestTypes DEF TypeInv, TypeOK
  <1>2. ASSUME NEW r \in Request, CreateLocksUser(r) \/ StartLocksUser(r)
        PROVE  TypeInv'
    <2> PICK to \in Step : LockUser(r, "create-user", to) \/ LockUser(r, "start-user", to)
      BY <1>2 DEF CreateLocksUser, StartLocksUser, Step
    <2> DEFINE new == [request[r] EXCEPT !.step = to]
    <2>1. new \in RequestState /\ new.paused \cup new.seen \cup new.target \subseteq Inserted
          /\ new.user \in User
      BY <1>a DEF RequestState, LockUser, At
    <2>2. request' = [request EXCEPT ![r] = new]
      BY DEF LockUser
    <2>3. lock' \in [User -> Request \cup {NoRequest}]
      BY DEF LockUser, TypeInv, TypeOK
    <2>4. UNCHANGED <<tracker, collector, blocked>>
      BY DEF LockUser
    <2> HIDE DEF new
    <2> QED  BY <2>1, <2>2, <2>3, <2>4, RequestTypes DEF TypeInv, TypeOK
  <1>3. ASSUME NEW r \in Request, CreateAccepted(r)
        PROVE  TypeInv'
    <2> DEFINE new == [request[r] EXCEPT !.step = "create-insert"]
    <2>1. new \in RequestState /\ new.paused \cup new.seen \cup new.target \subseteq Inserted
          /\ new.user \in User
      BY <1>3, <1>a DEF RequestState, Step, CreateAccepted, At
    <2>2. request' = [request EXCEPT ![r] = new] /\ UNCHANGED <<tracker, lock, collector, blocked>>
      BY <1>3 DEF CreateAccepted
    <2> HIDE DEF new
    <2> QED  BY <2>1, <2>2, RequestTypes DEF TypeInv, TypeOK
  <1>4. ASSUME NEW r \in Request, CreateRejected(r) \/ Abort(r)
        PROVE  TypeInv'
    <2>1. Finish(r) /\ UNCHANGED <<tracker, collector, blocked>>
      BY <1>4 DEF CreateRejected, Abort
    <2> QED  BY <2>1, TableTypes DEF TypeInv, TypeOK, Inserted
  <1>5. ASSUME NEW r \in Request, CreateCommits(r)
        PROVE  TypeInv'
    <2>0. /\ At(r, "create-insert")
          /\ Finish(r)
          /\ UNCHANGED <<collector, blocked>>
      BY <1>5 DEF CreateCommits
    <2>1. PICK t \in TrackerId, i \in request[r].identity :
             /\ NextId(t)
             /\ tracker' = [tracker EXCEPT ![t] =
                   [owner |-> request[r].user, identity |-> i, active |-> TRUE,
                    deleted |-> FALSE, checked |-> FALSE]]
      BY <1>5 DEF CreateCommits
    <2>2. request[r].user \in User /\ i \in Identity
      BY <1>a, <2>0 DEF At, RequestState
    <2>3. tracker' \in [TrackerId -> Row \cup {NoRow}]
      BY <2>1, <2>2 DEF TypeInv, TypeOK, Row
    <2>4. Inserted \subseteq Inserted'
      BY <2>1, <2>2, NoRowAssumption DEF Inserted, NextId, TypeInv, TypeOK
    <2> QED  BY <2>0, <2>3, <2>4, TableTypes
  <1>6. ASSUME NEW r \in Request, NEW u \in User, NEW t \in TrackerId,
               DeleteFindsRow(r, u, t)
        PROVE  TypeInv'
    <2> DEFINE new == [IdleRequest EXCEPT !.step = "delete-commit", !.user = u, !.target = {t}]
    <2>1. new \in RequestState /\ new.paused \cup new.seen \cup new.target = {t} /\ new.user \in User
      BY DEF IdleRequest, RequestState, Step
    <2>2. request' = [request EXCEPT ![r] = new] /\ UNCHANGED <<tracker, lock, collector, blocked>>
      BY <1>6 DEF DeleteFindsRow
    <2>3. t \in Inserted
      BY <1>6, <1>c DEF DeleteFindsRow
    <2> HIDE DEF new
    <2> QED  BY <2>1, <2>2, <2>3, RequestTypes DEF TypeInv, TypeOK
  <1>7. ASSUME NEW r \in Request, DeleteCommits(r)
        PROVE  TypeInv'
    <2> DEFINE ids == request[r].target
               table == SetActive(tracker, ids, FALSE)
    <2>1. ids \in SUBSET TrackerId /\ \A t \in ids : tracker[t] \in Row
      BY <1>a, <1>b, <1>d
    <2>2. table \in [TrackerId -> Row \cup {NoRow}] /\ \A t \in TrackerId : table[t] = NoRow <=> tracker[t] = NoRow
      BY <2>1, UpdateTypes, UpdateInserted DEF TypeInv, TypeOK
    <2>3. \A t \in ids : table[t] \in Row
      BY <2>1, <2>2, NoRowAssumption DEF Row
    <2>4. tracker' = SetDeleted(table, ids) /\ Finish(r) /\ UNCHANGED <<collector, blocked>>
      BY <1>7 DEF DeleteCommits
    <2> HIDE DEF ids, table
    <2>5. tracker' \in [TrackerId -> Row \cup {NoRow}]
      BY <2>1, <2>2, <2>3, <2>4, UpdateTypes
    <2>6. \A t \in TrackerId : tracker'[t] = NoRow <=> table[t] = NoRow
      BY <2>1, <2>2, <2>3, <2>4, UpdateInserted
    <2>7. Inserted \subseteq Inserted'
      BY <2>2, <2>6 DEF Inserted
    <2> QED  BY <2>4, <2>5, <2>7, TableTypes
  <1>8. ASSUME NEW r \in Request, NEW u \in User, StartCommand(r, u)
        PROVE  TypeInv'
    <2> DEFINE new == [IdleRequest EXCEPT !.step = "start-user", !.user = u]
    <2>1. new \in RequestState /\ new.paused \cup new.seen \cup new.target = {} /\ new.user \in User
      BY DEF IdleRequest, RequestState, Step
    <2>2. request' = [request EXCEPT ![r] = new] /\ UNCHANGED <<tracker, lock, collector, blocked>>
      BY <1>8 DEF StartCommand
    <2> HIDE DEF new
    <2> QED  BY <2>1, <2>2, RequestTypes DEF TypeInv, TypeOK
  <1>9. ASSUME NEW r \in Request, ReadPaused(r)
        PROVE  TypeInv'
    <2> DEFINE paused == Paused(request[r].user)
               new == [request[r] EXCEPT
                         !.step = IF paused = {} THEN "start-resume" ELSE "start-active",
                         !.paused = paused,
                         !.stale = {t \in paused : tracker[t].checked}]
    <2>0. /\ paused \in SUBSET TrackerId
          /\ paused \subseteq Inserted
          /\ {t \in paused : tracker[t].checked} \in SUBSET TrackerId
          /\ request[r].user \in User
      BY <1>9, <1>a, <1>c, <1>d DEF ReadPaused, At
    <2> HIDE DEF paused
    <2>1. new.user \in User /\ new \in RequestState /\ new.paused \cup new.seen \cup new.target \subseteq Inserted
      BY <1>a, <2>0 DEF RequestState, Step
    <2>2. request' = [request EXCEPT ![r] = new] /\ UNCHANGED <<tracker, lock, collector, blocked>>
      BY <1>9 DEF ReadPaused, paused
    <2> HIDE DEF new
    <2> QED  BY <2>1, <2>2, RequestTypes DEF TypeInv, TypeOK
  <1>10. ASSUME NEW r \in Request, ReadActive(r)
         PROVE  TypeInv'
    <2> DEFINE new == [request[r] EXCEPT !.step = "start-resume", !.seen = Active(request[r].user)]
    <2>1. new \in RequestState /\ new.paused \cup new.seen \cup new.target \subseteq Inserted
          /\ new.user \in User
      BY <1>10, <1>a, <1>c, <1>d DEF RequestState, Step, ReadActive, At
    <2>2. request' = [request EXCEPT ![r] = new] /\ UNCHANGED <<tracker, lock, collector, blocked>>
      BY <1>10 DEF ReadActive
    <2> HIDE DEF new
    <2> QED  BY <2>1, <2>2, RequestTypes DEF TypeInv, TypeOK
  <1>11. ASSUME NEW r \in Request, StartCommits(r)
         PROVE  TypeInv'
    <2> DEFINE ids == Resumed(request[r].paused, request[r].seen)
               cleared == ids \cap request[r].stale
               table == SetActive(tracker, ids, TRUE)
    <2>0. ids \subseteq Inserted
      BY <1>a, ResumedPaused
    <2>1. ids \in SUBSET TrackerId /\ \A t \in ids : tracker[t] \in Row
      BY <2>0, <1>b, <1>d
    <2>2. table \in [TrackerId -> Row \cup {NoRow}] /\ \A t \in TrackerId : table[t] = NoRow <=> tracker[t] = NoRow
      BY <2>1, UpdateTypes, UpdateInserted DEF TypeInv, TypeOK
    <2>3. cleared \in SUBSET TrackerId /\ \A t \in cleared : table[t] \in Row
      BY <2>1, <2>2, NoRowAssumption DEF Row
    <2>4. tracker' = SetChecked(table, cleared, FALSE) /\ Finish(r) /\ UNCHANGED <<collector, blocked>>
      BY <1>11 DEF StartCommits
    <2> HIDE DEF ids, table, cleared
    <2>5. tracker' \in [TrackerId -> Row \cup {NoRow}]
      BY <2>2, <2>3, <2>4, UpdateTypes
    <2>6. \A t \in TrackerId : tracker'[t] = NoRow <=> table[t] = NoRow
      BY <2>2, <2>3, <2>4, UpdateInserted
    <2>7. Inserted \subseteq Inserted'
      BY <2>2, <2>6 DEF Inserted
    <2> QED  BY <2>4, <2>5, <2>7, TableTypes
  <1>12. ASSUME NEW batch \in SUBSET TrackerId, SelectBatch(batch)
         PROVE  TypeInv'
    BY <1>12 DEF SelectBatch, Active, OwnedBy, CollectorState, TypeInv, TypeOK, LocalsExist, Inserted
  <1>13. CASE CommitBatch
    <2>1. collector.batch \in SUBSET TrackerId /\ \A t \in collector.batch : tracker[t] \in Row
      BY <1>b, <1>d DEF TypeInv, LocalsExist
    <2>2. tracker' \in [TrackerId -> Row \cup {NoRow}]
      BY <1>13, <2>1, UpdateTypes DEF CommitBatch, TypeInv, TypeOK
    <2>3. Inserted \subseteq Inserted'
      BY <1>13, <2>1, UpdateInserted DEF CommitBatch, TypeInv, TypeOK, Inserted
    <2>4. /\ collector' \in CollectorState
          /\ collector'.batch \subseteq collector.batch
          /\ collector'.outbox \subseteq collector.outbox
          /\ UNCHANGED <<lock, request, blocked>>
      BY <1>13 DEF CommitBatch, CollectorState, TypeInv, TypeOK
    <2> QED  BY <2>2, <2>3, <2>4, TableTypes
  <1>14. ASSUME NEW t \in TrackerId, SendForbidden(t)
         PROVE  TypeInv'
    <2>1. t \in Inserted /\ tracker[t].owner \in User
      BY <1>14, <1>b DEF SendForbidden, TypeInv, LocalsExist, Row
    <2> QED  BY <1>14, <2>1 DEF SendForbidden, CollectorState, TypeInv, TypeOK, LocalsExist, Inserted
  <1>15. CASE PauseCommits
    <2> DEFINE ids == Active(collector.user)
    <2>1. ids \in SUBSET TrackerId /\ \A t \in ids : tracker[t] \in Row
      BY <1>b, <1>c, <1>d
    <2>2. tracker' = SetActive(tracker, ids, FALSE)
      BY <1>15 DEF PauseCommits
    <2>3. /\ collector' \in CollectorState
          /\ collector'.batch \subseteq collector.batch
          /\ collector'.outbox \subseteq collector.outbox
          /\ UNCHANGED <<lock, request, blocked>>
      BY <1>15 DEF PauseCommits, CollectorState, TypeInv, TypeOK
    <2> HIDE DEF ids
    <2>4. tracker' \in [TrackerId -> Row \cup {NoRow}]
      BY <2>1, <2>2, UpdateTypes DEF TypeInv, TypeOK
    <2>5. Inserted \subseteq Inserted'
      BY <2>1, <2>2, UpdateInserted DEF TypeInv, TypeOK, Inserted
    <2> QED  BY <2>3, <2>4, <2>5, TableTypes
  <1>16. CASE PauseFails \/ CollectorStops
    <2>1. /\ collector' \in CollectorState
          /\ collector'.batch \subseteq collector.batch
          /\ collector'.outbox \subseteq collector.outbox
          /\ UNCHANGED <<tracker, lock, request, blocked>>
      <3>1. CASE PauseFails
        BY <3>1 DEF PauseFails, CollectorState, TypeInv, TypeOK
      <3>2. CASE CollectorStops
        BY <3>2 DEF CollectorStops, IdleCollector, CollectorState, TypeInv, TypeOK
      <3> QED  BY <1>16, <3>1, <3>2
    <2> QED  BY <2>1, TableTypes DEF TypeInv, TypeOK, Inserted
  <1>17. ASSUME NEW u \in User, Block(u) \/ Unblock(u)
         PROVE  TypeInv'
    BY <1>17 DEF Block, Unblock, TypeInv, TypeOK, LocalsExist, Inserted
  <1>18. CASE UNCHANGED vars
    BY <1>18 DEF vars, TypeInv, TypeOK, LocalsExist, Inserted
  <1> QED
    BY <1>1, <1>2, <1>3, <1>4, <1>5, <1>6, <1>7, <1>8, <1>9, <1>10, <1>11, <1>12,
       <1>13, <1>14, <1>15, <1>16, <1>17, <1>18
    DEF Next, RequestNext, CreateStep, StartStep, CollectorNext

\* Every column, lock and local variable of the handlers stays in its domain,
\* for any number of users, handlers and rows.
THEOREM TypeCorrect == Spec => []TypeOK
  <1>1. TypeInv => TypeOK
    BY DEF TypeInv
  <1> QED  BY TypeInit, TypeStep, <1>1, PTL DEF Spec

\* Types hold, and whatever a handler has read by id exists in the table.
THEOREM TypeInvariant == Spec => []TypeInv
  BY TypeInit, TypeStep, PTL DEF Spec

-----------------------------------------------------------------------------
(* The `users` row lock. *)

\* Every step keeps the users lock with the handler that needs it.
LEMMA LockStep ==
    TypeInv /\ LockHeldWhileChecking /\ [Next]_vars => LockHeldWhileChecking'
  <1> SUFFICES ASSUME TypeInv, LockHeldWhileChecking, [Next]_vars
               PROVE  LockHeldWhileChecking'
    OBVIOUS
  <1>a. /\ lock \in [User -> Request \cup {NoRequest}]
        /\ request \in [Request -> RequestState]
        /\ \A r \in Request : request[r].step # "idle" => request[r].user \in User
    BY DEF TypeInv, TypeOK, LocalsExist
  <1>1. ASSUME NEW r \in Request, Finish(r)
        PROVE  LockHeldWhileChecking'
    BY <1>1, <1>a, NoRequestAssumption
    DEF Finish, LockHeldWhileChecking, CriticalSteps, IdleRequest
  <1>2. ASSUME NEW r \in Request, NEW new \in RequestState,
               request' = [request EXCEPT ![r] = new], UNCHANGED lock,
               \/ request[r].step = "idle" /\ new.step \notin CriticalSteps
               \/ /\ request[r].step \in CriticalSteps
                  /\ new.step \in CriticalSteps
                  /\ new.user = request[r].user
        PROVE  LockHeldWhileChecking'
    BY <1>2, <1>a DEF LockHeldWhileChecking, CriticalSteps
  <1>3. ASSUME NEW r \in Request, NEW from \in Step, NEW to \in CriticalSteps,
               LockUser(r, from, to), from \notin CriticalSteps, from # "idle"
        PROVE  LockHeldWhileChecking'
    BY <1>3, <1>a, NoRequestAssumption DEF LockUser, LockHeldWhileChecking, CriticalSteps, At
  <1>4. ASSUME UNCHANGED <<lock, request>>
        PROVE  LockHeldWhileChecking'
    BY <1>4 DEF LockHeldWhileChecking
  <1>5. ASSUME NEW r \in Request, RequestNext(r)
        PROVE  LockHeldWhileChecking'
    <2>1. ASSUME NEW u \in User, NEW i \in Identity, StartCreate(r, u, i)
          PROVE  LockHeldWhileChecking'
      BY <2>1, <1>2, <1>a DEF StartCreate, IdleRequest, RequestState, Step, CriticalSteps, At
    <2>2. ASSUME NEW u \in User, NEW t \in TrackerId, DeleteFindsRow(r, u, t)
          PROVE  LockHeldWhileChecking'
      BY <2>2, <1>2, <1>a DEF DeleteFindsRow, IdleRequest, RequestState, Step, CriticalSteps, At
    <2>3. ASSUME NEW u \in User, StartCommand(r, u)
          PROVE  LockHeldWhileChecking'
      BY <2>3, <1>2, <1>a DEF StartCommand, IdleRequest, RequestState, Step, CriticalSteps, At
    <2>4. CASE CreateLocksUser(r) \/ StartLocksUser(r)
      BY <2>4, <1>3 DEF CreateLocksUser, StartLocksUser, Step, CriticalSteps
    <2>5. CASE CreateAccepted(r)
      <3> DEFINE new == [request[r] EXCEPT !.step = "create-insert"]
      <3>1. new \in RequestState /\ new.step \in CriticalSteps /\ new.user = request[r].user
        BY <1>a DEF RequestState, Step, CriticalSteps
      <3>2. /\ request' = [request EXCEPT ![r] = new]
            /\ UNCHANGED lock
            /\ request[r].step \in CriticalSteps
        BY <2>5 DEF CreateAccepted, At, CriticalSteps
      <3> QED  BY <3>1, <3>2, <1>2
    <2>6. CASE ReadPaused(r)
      <3> DEFINE paused == Paused(request[r].user)
                 new == [request[r] EXCEPT
                           !.step = IF paused = {} THEN "start-resume" ELSE "start-active",
                           !.paused = paused,
                           !.stale = {t \in paused : tracker[t].checked}]
      <3>1. request' = [request EXCEPT ![r] = new] /\ UNCHANGED lock
        BY <2>6 DEF ReadPaused
      <3>2. request[r].step \in CriticalSteps
        BY <2>6 DEF ReadPaused, At, CriticalSteps
      <3>3. paused \in SUBSET TrackerId /\ {t \in paused : tracker[t].checked} \in SUBSET TrackerId
        BY DEF Paused, OwnedBy, Inserted
      <3>4. new \in RequestState /\ new.step \in CriticalSteps /\ new.user = request[r].user
        <4> HIDE DEF paused
        <4> QED  BY <1>a, <3>3 DEF RequestState, Step, CriticalSteps
      <3> QED  BY <3>1, <3>2, <3>4, <1>2
    <2>7. CASE ReadActive(r)
      <3> DEFINE new == [request[r] EXCEPT !.step = "start-resume", !.seen = Active(request[r].user)]
      <3>1. Active(request[r].user) \in SUBSET TrackerId
        BY DEF Active, OwnedBy, Inserted
      <3>2. new \in RequestState /\ new.step \in CriticalSteps /\ new.user = request[r].user
        BY <1>a, <3>1 DEF RequestState, Step, CriticalSteps
      <3>3. /\ request' = [request EXCEPT ![r] = new]
            /\ UNCHANGED lock
            /\ request[r].step \in CriticalSteps
        BY <2>7 DEF ReadActive, At, CriticalSteps
      <3> QED  BY <3>2, <3>3, <1>2
    <2>8. CASE CreateRejected(r) \/ CreateCommits(r) \/ DeleteCommits(r) \/ StartCommits(r) \/ Abort(r)
      BY <2>8, <1>1 DEF CreateRejected, CreateCommits, DeleteCommits, StartCommits, Abort
    <2> QED
      BY <1>5, <2>1, <2>2, <2>3, <2>4, <2>5, <2>6, <2>7, <2>8
      DEF RequestNext, CreateStep, StartStep
  <1>6. CASE CollectorNext \/ \E u \in User : Block(u) \/ Unblock(u)
    BY <1>6, <1>4
    DEF CollectorNext, SelectBatch, CommitBatch, SendForbidden, PauseCommits, PauseFails,
        CollectorStops, Block, Unblock
  <1> QED  BY <1>4, <1>5, <1>6 DEF Next, vars

\* The checks of create_tracker and resume_paused_trackers run one user at a
\* time: from its reads to its commit a handler holds the `users` lock.
THEOREM MutualExclusion == Spec => []LockHeldWhileChecking
  <1>1. Init => LockHeldWhileChecking
    BY NoRequestAssumption DEF Init, LockHeldWhileChecking, CriticalSteps, IdleRequest
  <1> QED  BY <1>1, LockStep, TypeInvariant, PTL DEF Spec

-----------------------------------------------------------------------------
(* No interleaving of handlers takes a user over the quota or lets two      *)
(* active trackers follow the same identity, and TrackerLifecycle            *)
(* implements TrackerRegistry.                                               *)

(* Counting: the loop of resume_paused_trackers stops at the quota.          *)

\* Sets of tracker ids are finite.
LEMMA IdsFinite ==
    ASSUME NEW S \in SUBSET TrackerId
    PROVE  IsFiniteSet(S) /\ Cardinality(S) \in Nat
  <1>1. IsFiniteSet(TrackerId)
    <2>1. 1 \in Int /\ MaxTracker \in Int
      BY MaxTrackerAssumption
    <2> QED  BY <2>1, FS_Interval DEF TrackerId
  <1>2. IsFiniteSet(S)
    BY <1>1, FS_Subset
  <1> QED  BY <1>2, FS_CardinalityType

\* At most k members of a set of ids have fewer than k members below them.
LEMMA FirstMembers ==
    ASSUME NEW D \in SUBSET TrackerId, NEW k \in Nat
    PROVE  LET first == {t \in D : Cardinality({s \in D : s < t}) < k}
           IN  IsFiniteSet(first) /\ Cardinality(first) <= k
  <1> DEFINE below(t) == {s \in D : s < t}
             first == {t \in D : Cardinality(below(t)) < k}
             rank == [t \in first |-> Cardinality(below(t))]
  <1>1. IsFiniteSet(D)
    BY IdsFinite
  <1>2. \A t \in D : IsFiniteSet(below(t)) /\ Cardinality(below(t)) \in Nat
    <2> SUFFICES ASSUME NEW t \in D
                 PROVE  IsFiniteSet(below(t)) /\ Cardinality(below(t)) \in Nat
      OBVIOUS
    <2>1. below(t) \in SUBSET TrackerId
      OBVIOUS
    <2> HIDE DEF below
    <2> QED  BY <2>1, IdsFinite
  <1>3. \A t \in first : rank[t] \in 0 .. k - 1
    <2> SUFFICES ASSUME NEW t \in first
                 PROVE  rank[t] \in 0 .. k - 1
      OBVIOUS
    <2>1. Cardinality(below(t)) < k /\ Cardinality(below(t)) \in Nat
      BY <1>2
    <2>2. rank[t] = Cardinality(below(t))
      OBVIOUS
    <2> HIDE DEF below, rank
    <2> QED  BY <2>1, <2>2
  <1>4. ASSUME NEW s \in first, NEW t \in first, s < t
        PROVE  rank[s] < rank[t]
    <2>1. s \in D /\ t \in D /\ s \in Int /\ t \in Int
      BY DEF TrackerId
    <2>2. below(s) \subseteq below(t) /\ below(s) # below(t)
      <3>1. s \in below(t) /\ s \notin below(s)
        BY <1>4, <2>1
      <3>2. \A x \in below(s) : x \in below(t)
        BY <1>4, <2>1 DEF TrackerId
      <3> QED  BY <3>1, <3>2
    <2>3. Cardinality(below(s)) < Cardinality(below(t))
      <3> HIDE DEF below
      <3>1. IsFiniteSet(below(t)) /\ Cardinality(below(t)) \in Nat /\ Cardinality(below(s)) \in Nat
        BY <1>2, <2>1
      <3> QED  BY <2>2, <3>1, FS_Subset
    <2> QED  BY <2>3
  <1>5. \A s, t \in first : s # t => rank[s] # rank[t]
    <2> SUFFICES ASSUME NEW s \in first, NEW t \in first, s # t
                 PROVE  rank[s] # rank[t]
      OBVIOUS
    <2>1. s < t \/ t < s
      BY DEF TrackerId
    <2>2. rank[s] \in Nat /\ rank[t] \in Nat
      BY <1>3
    <2> HIDE DEF rank, first
    <2> QED  BY <1>4, <2>1, <2>2
  <1>6. rank \in Injection(first, 0 .. k - 1)
    <2> HIDE DEF first, below
    <2>1. rank \in [first -> 0 .. k - 1]
      BY <1>3
    <2> QED  BY <1>5, <2>1 DEF Injection, IsInjective
  <1>7. IsFiniteSet(0 .. k - 1) /\ Cardinality(0 .. k - 1) = k
    BY FS_Interval
  <1> HIDE DEF first, rank
  <1>8. IsFiniteSet(first) /\ Cardinality(first) <= k
    BY <1>6, <1>7, FS_Injection
  <1> QED  BY <1>8 DEF first

\* Active rows plus resumed rows fit in the quota.
LEMMA ResumedFits ==
    ASSUME NEW paused \in SUBSET TrackerId, NEW seen \in SUBSET TrackerId,
           NEW active \in SUBSET seen, Cardinality(active) <= Quota
    PROVE  Cardinality(active \cup Resumed(paused, seen)) <= Quota
  <1> DEFINE resumed == Resumed(paused, seen)
             k == Quota - Cardinality(seen)
  <1>1. IsFiniteSet(seen) /\ Cardinality(seen) \in Nat
    BY IdsFinite
  <1>2. IsFiniteSet(active) /\ Cardinality(active) \in Nat /\ Cardinality(active) <= Cardinality(seen)
    BY <1>1, FS_Subset, FS_CardinalityType
  <1>3. Distinct(paused, seen) \in SUBSET TrackerId
    BY DEF Distinct
  <1>4. \A t \in TrackerId : Cardinality({s \in Distinct(paused, seen) : s < t}) \in Nat
    <2> SUFFICES ASSUME NEW t \in TrackerId
                 PROVE  Cardinality({s \in Distinct(paused, seen) : s < t}) \in Nat
      OBVIOUS
    <2>1. {s \in Distinct(paused, seen) : s < t} \in SUBSET TrackerId
      BY <1>3
    <2> HIDE DEF Distinct
    <2> QED  BY <2>1, IdsFinite
  <1>5. CASE k <= 0
    <2>1. resumed = {}
      BY <1>1, <1>3, <1>4, <1>5, QuotaAssumption DEF Resumed
    <2> QED  BY <2>1
  <1>6. CASE k > 0
    <2>1. k \in Nat
      BY <1>1, <1>6, QuotaAssumption
    <2>2. resumed = {t \in Distinct(paused, seen) :
                        Cardinality({s \in Distinct(paused, seen) : s < t}) < k}
      BY DEF Resumed
    <2> HIDE DEF resumed, k
    <2>3. IsFiniteSet(resumed) /\ Cardinality(resumed) <= k
      BY <1>3, <2>1, <2>2, FirstMembers
    <2>4. Cardinality(resumed) \in Nat /\ Cardinality(active \cap resumed) \in Nat
      BY <1>2, <2>3, FS_CardinalityType, FS_Intersection
    <2>5. Cardinality(active \cup resumed) =
            Cardinality(active) + Cardinality(resumed) - Cardinality(active \cap resumed)
      BY <1>2, <2>3, FS_Union
    <2>6. Cardinality(active) + k <= Quota
      BY <1>1, <1>2, QuotaAssumption DEF k
    <2> QED  BY <1>2, <2>1, <2>3, <2>4, <2>5, <2>6, QuotaAssumption DEF resumed
  <1> QED  BY <1>1, <1>5, <1>6, QuotaAssumption

-----------------------------------------------------------------------------
(* The inductive invariant: while a handler holds the lock no row of its     *)
(* user becomes active, so what it read still covers what is active.         *)

IInv == /\ TypeInv
        /\ LockHeldWhileChecking
        /\ SnapshotCoversActive
        /\ ActiveWithinQuota
        /\ ActiveIdentitiesDistinct

\* Rows stay where they are and keep their owner and identity.
RowsKept ==
    \A t \in Inserted : /\ t \in Inserted'
                        /\ tracker'[t].owner = tracker[t].owner
                        /\ tracker'[t].identity = tracker[t].identity

\* The rows of every user but those in `users` can only become inactive.
OthersShrink(users) == \A u \in User \ users : Active(u)' \subseteq Active(u)

\* ... or do not change at all.
OthersStay(users) == \A u \in User \ users : Active(u)' = Active(u)

\* An UPDATE keeps the owner and the identity of every row, and only one of
\* `active` changes which rows are active.
LEMMA ActivateKeeps ==
    ASSUME NEW table \in [TrackerId -> Row \cup {NoRow}], NEW ids \in SUBSET TrackerId,
           NEW t \in TrackerId, table[t] \in Row
    PROVE  /\ SetActive(table, ids, TRUE)[t].owner = table[t].owner
           /\ SetActive(table, ids, TRUE)[t].identity = table[t].identity
           /\ SetActive(table, ids, TRUE)[t].active <=> (t \in ids \/ table[t].active)
  BY DEF SetActive, Row

\* A pause activates no row and keeps owner and identity.
LEMMA DeactivateKeeps ==
    ASSUME NEW table \in [TrackerId -> Row \cup {NoRow}], NEW ids \in SUBSET TrackerId,
           NEW t \in TrackerId, table[t] \in Row
    PROVE  /\ SetActive(table, ids, FALSE)[t].owner = table[t].owner
           /\ SetActive(table, ids, FALSE)[t].identity = table[t].identity
           /\ SetActive(table, ids, FALSE)[t].active => table[t].active
  BY DEF SetActive, Row

\* deleted_at is not `active`: setting it changes neither claims nor owners.
LEMMA DeleteKeeps ==
    ASSUME NEW table \in [TrackerId -> Row \cup {NoRow}], NEW ids \in SUBSET TrackerId,
           NEW t \in TrackerId, table[t] \in Row
    PROVE  /\ SetDeleted(table, ids)[t].owner = table[t].owner
           /\ SetDeleted(table, ids)[t].identity = table[t].identity
           /\ SetDeleted(table, ids)[t].active <=> table[t].active
  BY DEF SetDeleted, Row

\* last_checked_at is not `active`: setting it changes neither claims nor owners.
LEMMA CheckKeeps ==
    ASSUME NEW table \in [TrackerId -> Row \cup {NoRow}], NEW ids \in SUBSET TrackerId,
           NEW t \in TrackerId, table[t] \in Row
    PROVE  /\ SetChecked(table, ids, TRUE)[t].owner = table[t].owner
           /\ SetChecked(table, ids, TRUE)[t].identity = table[t].identity
           /\ SetChecked(table, ids, TRUE)[t].active <=> table[t].active
           /\ SetChecked(table, ids, FALSE)[t].owner = table[t].owner
           /\ SetChecked(table, ids, FALSE)[t].identity = table[t].identity
           /\ SetChecked(table, ids, FALSE)[t].active <=> table[t].active
  BY DEF SetChecked, Row

\* Rows change one by one, none is added and none becomes active.
LEMMA RowwiseShrink ==
    ASSUME \A t \in TrackerId :
              /\ tracker'[t] = NoRow <=> tracker[t] = NoRow
              /\ tracker[t] # NoRow =>
                    /\ tracker'[t].owner = tracker[t].owner
                    /\ tracker'[t].identity = tracker[t].identity
                    /\ tracker'[t].active => tracker[t].active
    PROVE  RowsKept /\ OthersShrink({})
  BY DEF RowsKept, OthersShrink, Inserted, Active, OwnedBy

\* A step that activates no row leaves owners and identities alone.
LEMMA QuietRows ==
    ASSUME TypeInv, [Next]_vars,
           \A r \in Request : ~CreateCommits(r) /\ ~StartCommits(r)
    PROVE  RowsKept /\ OthersShrink({})
  <1>a. /\ tracker \in [TrackerId -> Row \cup {NoRow}]
        /\ \A t \in Inserted : tracker[t] \in Row
        /\ Inserted \subseteq TrackerId
        /\ \A u : Active(u) \subseteq Inserted
    BY DEF TypeInv, TypeOK, Inserted, Active, OwnedBy
  <1>1. CASE UNCHANGED tracker
    BY <1>1, RowwiseShrink
  <1>2. ASSUME NEW r \in Request, DeleteCommits(r)
        PROVE  RowsKept /\ OthersShrink({})
    <2> DEFINE ids == request[r].target
               table == SetActive(tracker, ids, FALSE)
    <2>1. ids \in SUBSET TrackerId /\ \A t \in ids : tracker[t] \in Row
      BY <1>a DEF TypeInv, LocalsExist
    <2>2. table \in [TrackerId -> Row \cup {NoRow}]
          /\ \A t \in TrackerId : table[t] = NoRow <=> tracker[t] = NoRow
      BY <1>a, <2>1, UpdateTypes, UpdateInserted
    <2>3. \A t \in ids : table[t] \in Row
      BY <2>1, <2>2, NoRowAssumption DEF Row
    <2>4. \A t \in TrackerId : tracker[t] # NoRow =>
             /\ table[t].owner = tracker[t].owner
             /\ table[t].identity = tracker[t].identity
             /\ table[t].active => tracker[t].active
      BY <1>a, <2>1, DeactivateKeeps DEF Inserted
    <2>5. tracker' = SetDeleted(table, ids)
      BY <1>2 DEF DeleteCommits
    <2> HIDE DEF ids, table
    <2>6. \A t \in TrackerId : tracker'[t] = NoRow <=> table[t] = NoRow
      BY <2>1, <2>2, <2>3, <2>5, UpdateInserted
    <2>7. \A t \in TrackerId : table[t] # NoRow =>
             /\ tracker'[t].owner = table[t].owner
             /\ tracker'[t].identity = table[t].identity
             /\ tracker'[t].active <=> table[t].active
      BY <2>1, <2>2, <2>5, DeleteKeeps
    <2> QED  BY <2>2, <2>4, <2>6, <2>7, RowwiseShrink
  <1>3. CASE CommitBatch
    <2>1. /\ collector.batch \in SUBSET TrackerId
          /\ \A t \in collector.batch : tracker[t] \in Row
      BY <1>a DEF TypeInv, LocalsExist
    <2>2. tracker' = SetChecked(tracker, collector.batch, TRUE)
      BY <1>3 DEF CommitBatch
    <2>3. \A t \in TrackerId : tracker'[t] = NoRow <=> tracker[t] = NoRow
      BY <1>a, <2>1, <2>2, UpdateInserted
    <2>4. \A t \in TrackerId : tracker[t] # NoRow =>
             /\ tracker'[t].owner = tracker[t].owner
             /\ tracker'[t].identity = tracker[t].identity
             /\ tracker'[t].active <=> tracker[t].active
      BY <1>a, <2>1, <2>2, CheckKeeps DEF Inserted
    <2> QED  BY <2>3, <2>4, RowwiseShrink
  <1>4. CASE PauseCommits
    <2> DEFINE ids == Active(collector.user)
    <2>1. ids \in SUBSET TrackerId /\ \A t \in ids : tracker[t] \in Row
      BY <1>a
    <2>2. tracker' = SetActive(tracker, ids, FALSE)
      BY <1>4 DEF PauseCommits
    <2> HIDE DEF ids
    <2>3. \A t \in TrackerId : tracker'[t] = NoRow <=> tracker[t] = NoRow
      BY <1>a, <2>1, <2>2, UpdateInserted
    <2>4. \A t \in TrackerId : tracker[t] # NoRow =>
             /\ tracker'[t].owner = tracker[t].owner
             /\ tracker'[t].identity = tracker[t].identity
             /\ tracker'[t].active => tracker[t].active
      BY <1>a, <2>1, <2>2, DeactivateKeeps DEF Inserted
    <2> QED  BY <2>3, <2>4, RowwiseShrink
  <1>5. \/ UNCHANGED tracker
        \/ \E r \in Request : DeleteCommits(r)
        \/ CommitBatch
        \/ PauseCommits
    BY DEF Next, RequestNext, CreateStep, StartStep, CollectorNext, vars, LockUser,
           StartCreate, CreateLocksUser, CreateAccepted, CreateRejected, DeleteFindsRow,
           StartCommand, StartLocksUser, ReadPaused, ReadActive, Abort, SelectBatch,
           SendForbidden, PauseFails, CollectorStops, Block, Unblock
  <1> QED  BY <1>1, <1>2, <1>3, <1>4, <1>5

\* create_tracker adds one row, active, of the handler's user.
LEMMA CreateRows ==
    ASSUME TypeInv, NEW r \in Request, CreateCommits(r),
           NEW u, u = request[r].user
    PROVE  /\ RowsKept
           /\ OthersShrink({u})
           /\ OthersStay({u})
           /\ \E t \in TrackerId \ Inserted :
                 /\ Active(u)' = Active(u) \cup {t}
                 /\ tracker'[t].identity \in request[r].identity
  <1>1. PICK t \in TrackerId, i \in request[r].identity :
           /\ NextId(t)
           /\ tracker' = [tracker EXCEPT ![t] =
                 [owner |-> request[r].user, identity |-> i, active |-> TRUE,
                  deleted |-> FALSE, checked |-> FALSE]]
    BY DEF CreateCommits
  <1>2. tracker \in [TrackerId -> Row \cup {NoRow}] /\ t \notin Inserted
    BY <1>1 DEF TypeInv, TypeOK, NextId, Inserted
  <1>3. u \in User /\ i \in Identity
    <2>1. request[r] \in RequestState /\ (request[r].step # "idle" => request[r].user \in User)
      BY DEF TypeInv, TypeOK, LocalsExist
    <2>2. request[r].step = "create-insert"
      BY DEF CreateCommits, At
    <2> QED  BY <2>1, <2>2 DEF RequestState
  <1>4. tracker'[t] # NoRow
    <2>1. tracker'[t] \in Row
      BY <1>1, <1>2, <1>3 DEF Row
    <2> QED  BY <2>1, NoRowAssumption DEF Row
  <1>5. tracker'[t].owner = u /\ tracker'[t].identity = i /\ tracker'[t].active
    BY <1>1, <1>2
  <1>6. \A s \in TrackerId : s # t => tracker'[s] = tracker[s]
    BY <1>1, <1>2
  <1>7. RowsKept
    BY <1>2, <1>6 DEF RowsKept, Inserted
  <1>8. OthersStay({u})
    <2> SUFFICES ASSUME NEW v \in User \ {u}
                 PROVE  Active(v)' = Active(v)
      BY DEF OthersStay
    <2>1. \A s \in TrackerId : s \in Active(v)' <=> s \in Active(v)
      BY <1>2, <1>5, <1>6 DEF Inserted, Active, OwnedBy
    <2> QED  BY <2>1 DEF Inserted, Active, OwnedBy
  <1>9. Active(u)' = Active(u) \cup {t}
    <2>1. ASSUME NEW s \in TrackerId, s # t
          PROVE  s \in Active(u)' <=> s \in Active(u)
      BY <1>6, <2>1 DEF Active, OwnedBy, Inserted
    <2>2. t \in Active(u)'
      BY <1>4, <1>5 DEF Active, OwnedBy, Inserted
    <2>3. Active(u) \subseteq TrackerId /\ Active(u)' \subseteq TrackerId
      BY DEF Active, OwnedBy, Inserted
    <2> QED  BY <2>1, <2>2, <2>3
  <1> QED  BY <1>2, <1>5, <1>7, <1>8, <1>9 DEF OthersStay, OthersShrink

\* resume_paused_trackers activates the resumed rows of the handler's user.
LEMMA StartRows ==
    ASSUME TypeInv, SnapshotCoversActive, NEW r \in Request, StartCommits(r),
           NEW u, u = request[r].user,
           NEW ids, ids = Resumed(request[r].paused, request[r].seen)
    PROVE  /\ RowsKept
           /\ OthersShrink({u})
           /\ OthersStay({u})
           /\ Active(u)' = Active(u) \cup ids
  <1> DEFINE cleared == ids \cap request[r].stale
             table == SetActive(tracker, ids, TRUE)
  <1>1. tracker \in [TrackerId -> Row \cup {NoRow}]
    BY DEF TypeInv, TypeOK
  <1>2. ids \subseteq OwnedBy(u)
    BY ResumedPaused DEF SnapshotCoversActive, SnapshotCovers
  <1>3. ids \in SUBSET TrackerId /\ \A t \in ids : tracker[t] \in Row
    BY <1>1, <1>2 DEF OwnedBy, Inserted
  <1>4. /\ table \in [TrackerId -> Row \cup {NoRow}]
        /\ \A t \in TrackerId : table[t] = NoRow <=> tracker[t] = NoRow
    BY <1>1, <1>3, UpdateTypes, UpdateInserted
  <1>5. \A t \in TrackerId : tracker[t] # NoRow =>
           /\ table[t].owner = tracker[t].owner
           /\ table[t].identity = tracker[t].identity
           /\ t \in ids => table[t].active
           /\ t \notin ids => (table[t].active <=> tracker[t].active)
    BY <1>1, <1>3, ActivateKeeps
  <1>6. cleared \in SUBSET TrackerId /\ \A t \in cleared : table[t] \in Row
    BY <1>3, <1>4, NoRowAssumption DEF Row
  <1>7. tracker' = SetChecked(table, cleared, FALSE)
    BY DEF StartCommits
  <1> HIDE DEF cleared, table
  <1>8. \A t \in TrackerId : tracker'[t] = NoRow <=> table[t] = NoRow
    BY <1>4, <1>6, <1>7, UpdateInserted
  <1>9. \A t \in TrackerId : table[t] # NoRow =>
           /\ tracker'[t].owner = table[t].owner
           /\ tracker'[t].identity = table[t].identity
           /\ tracker'[t].active <=> table[t].active
    <2> SUFFICES ASSUME NEW t \in TrackerId, table[t] # NoRow
                 PROVE  /\ tracker'[t].owner = table[t].owner
                        /\ tracker'[t].identity = table[t].identity
                        /\ tracker'[t].active <=> table[t].active
      OBVIOUS
    <2>1. table[t] \in Row
      BY <1>4
    <2> QED  BY <1>4, <1>6, <1>7, <2>1, CheckKeeps
  <1>10. RowsKept
    BY <1>4, <1>5, <1>8, <1>9 DEF RowsKept, Inserted
  <1>11. \A t \in TrackerId : t \notin ids =>
            (\A v \in User : t \in Active(v)' <=> t \in Active(v))
    BY <1>4, <1>5, <1>8, <1>9 DEF Active, OwnedBy, Inserted
  <1>12. \A t \in ids : t \in Active(u)' /\ \A v : v # u => t \notin Active(v)'
    BY <1>2, <1>3, <1>4, <1>5, <1>8, <1>9 DEF Active, OwnedBy, Inserted
  <1>13. u \in User
    BY DEF StartCommits, At, TypeInv, LocalsExist
  <1>14. \A v : Active(v) \subseteq TrackerId /\ Active(v)' \subseteq TrackerId
    BY DEF Active, OwnedBy, Inserted
  <1>15. Active(u)' = Active(u) \cup ids
    BY <1>3, <1>11, <1>12, <1>13, <1>14
  <1>16. OthersStay({u})
    <2> SUFFICES ASSUME NEW v \in User \ {u}
                 PROVE  Active(v)' = Active(v)
      BY DEF OthersStay
    <2>1. \A t \in ids : t \notin Active(v) /\ t \notin Active(v)'
      BY <1>2, <1>12 DEF Active, OwnedBy
    <2> QED  BY <1>11, <1>14, <2>1
  <1> QED  BY <1>10, <1>15, <1>16 DEF OthersStay, OthersShrink

-----------------------------------------------------------------------------
(* Preservation. *)

\* Where no row of the user becomes active, the quota and the identities hold.
LEMMA ShrinkKeeps ==
    ASSUME TypeInv, ActiveWithinQuota, ActiveIdentitiesDistinct, RowsKept, NEW u \in User,
           Active(u)' \subseteq Active(u)
    PROVE  /\ Cardinality(Active(u)') <= Quota
           /\ \A s, t \in Active(u)' :
                 tracker'[s].identity = tracker'[t].identity => s = t
  <1>1. Active(u) \in SUBSET TrackerId /\ Active(u) \subseteq Inserted
    BY DEF Active, OwnedBy, Inserted
  <1>2. Cardinality(Active(u)') <= Cardinality(Active(u))
    BY <1>1, IdsFinite, FS_Subset
  <1>3. Cardinality(Active(u)') \in Nat /\ Cardinality(Active(u)) \in Nat
    BY <1>1, IdsFinite
  <1>4. Cardinality(Active(u)') <= Quota
    BY <1>2, <1>3, QuotaAssumption DEF ActiveWithinQuota
  <1>5. \A s \in Active(u)' : s \in Active(u) /\ tracker'[s].identity = tracker[s].identity
    BY <1>1 DEF RowsKept
  <1> QED  BY <1>4, <1>5 DEF ActiveIdentitiesDistinct

\* A handler that keeps what it read keeps a safe basis for its write, as long
\* as no row of its user becomes active.
LEMMA SnapshotKept ==
    ASSUME TypeInv, SnapshotCoversActive, RowsKept, NEW r \in Request, NEW u, u = request'[r].user,
           request'[r] = request[r] \/ request'[r] = IdleRequest,
           request'[r].step \in CriticalSteps => Active(u)' \subseteq Active(u)
    PROVE  SnapshotCovers(r)'
  <1> SUFFICES /\ request'[r].paused \cup request'[r].seen \cup request'[r].target
                     \subseteq OwnedBy(u)'
               /\ request'[r].step = "create-insert" =>
                     /\ request'[r].identity \cap {tracker'[t].identity : t \in Active(u)'} = {}
                     /\ Cardinality(Active(u)') < Quota
               /\ request'[r].step = "start-resume" /\ request'[r].paused # {} =>
                     Active(u)' \subseteq request'[r].seen
    BY DEF SnapshotCovers, At, IdentitiesOf
  <1>1. CASE request'[r] = IdleRequest
    BY <1>1 DEF IdleRequest
  <1>2. CASE request'[r] = request[r] /\ request[r].step \in CriticalSteps
    <2>1. OwnedBy(u) \subseteq OwnedBy(u)'
      BY DEF RowsKept, OwnedBy
    <2>2. Active(u)' \subseteq Active(u) /\ Active(u) \in SUBSET TrackerId /\ Active(u) \subseteq Inserted
      BY <1>2 DEF Active, OwnedBy, Inserted
    <2>3. \A t \in Active(u)' : tracker'[t].identity = tracker[t].identity
      BY <2>2 DEF RowsKept
    <2>4. Cardinality(Active(u)') <= Cardinality(Active(u))
      BY <2>2, IdsFinite, FS_Subset
    <2>5. Cardinality(Active(u)') \in Nat /\ Cardinality(Active(u)) \in Nat
      BY <2>2, IdsFinite
    <2>6. request[r].step = "create-insert" =>
             /\ request[r].identity \cap {tracker'[t].identity : t \in Active(u)'} = {}
             /\ Cardinality(Active(u)') < Quota
      <3> SUFFICES ASSUME request[r].step = "create-insert"
                   PROVE  /\ request[r].identity \cap {tracker'[t].identity : t \in Active(u)'} = {}
                          /\ Cardinality(Active(u)') < Quota
        OBVIOUS
      <3>1. /\ request[r].identity \cap IdentitiesOf(Active(u)) = {}
            /\ Cardinality(Active(u)) < Quota
        BY <1>2 DEF SnapshotCoversActive, SnapshotCovers, At
      <3>2. {tracker'[t].identity : t \in Active(u)'} \subseteq IdentitiesOf(Active(u))
        BY <2>2, <2>3 DEF IdentitiesOf
      <3> QED  BY <2>4, <2>5, <3>1, <3>2, QuotaAssumption
    <2> QED  BY <1>2, <2>1, <2>2, <2>6 DEF SnapshotCoversActive, SnapshotCovers, At
  <1>3. CASE request'[r] = request[r] /\ request[r].step \notin CriticalSteps
    <2>1. OwnedBy(u) \subseteq OwnedBy(u)'
      BY DEF RowsKept, OwnedBy
    <2> QED  BY <1>3, <2>1 DEF CriticalSteps, SnapshotCoversActive, SnapshotCovers, At
  <1> QED  BY <1>1, <1>2, <1>3

\* The other handlers of the user are not between their reads and their commit.
LEMMA OthersOutside ==
    ASSUME TypeInv, LockHeldWhileChecking, NEW r \in Request, NEW q \in Request, q # r,
           request[r].step \in CriticalSteps, request[q].step \in CriticalSteps
    PROVE  request[q].user # request[r].user
  BY DEF LockHeldWhileChecking

\* What the other handlers hold survives the commit of a handler with the lock.
LEMMA CommitKeepsSnapshots ==
    ASSUME IInv, NEW r \in Request, request[r].step \in CriticalSteps, Finish(r),
           NEW u, u = request[r].user, RowsKept, OthersShrink({u})
    PROVE  SnapshotCoversActive'
  <1> SUFFICES ASSUME NEW q \in Request
               PROVE  SnapshotCovers(q)'
    BY DEF SnapshotCoversActive
  <1>1. request \in [Request -> RequestState]
    BY DEF IInv, TypeInv, TypeOK
  <1>2. CASE q = r
    <2>1. request'[q] = IdleRequest
      BY <1>1, <1>2 DEF Finish
    <2>2. request'[q].user = NoUser /\ request'[q].step = "idle"
      BY <2>1 DEF IdleRequest
    <2> QED  BY <2>1, <2>2, SnapshotKept DEF IInv, CriticalSteps
  <1>3. CASE q # r
    <2>1. request'[q] = request[q]
      BY <1>1, <1>3 DEF Finish
    <2>2. request[q].step \in CriticalSteps => request[q].user \in User \ {u}
      BY <1>3, OthersOutside DEF IInv, TypeInv, LocalsExist, CriticalSteps
    <2> DEFINE v == request[q].user
    <2> SUFFICES ASSUME NEW w, w = v
                 PROVE  SnapshotCovers(q)'
      OBVIOUS
    <2>3. request[q].step \in CriticalSteps => Active(w)' \subseteq Active(w)
      BY <2>2 DEF OthersShrink
    <2> QED  BY <2>1, <2>3, SnapshotKept DEF IInv
  <1> QED  BY <1>2, <1>3

\* A step that activates no row: what each handler holds stays, or it reads
\* under its lock what it holds from now on.
LEMMA QuietSnapshots ==
    ASSUME IInv, [Next]_vars, \A r \in Request : ~CreateCommits(r) /\ ~StartCommits(r),
           RowsKept, OthersShrink({}), NEW q \in Request
    PROVE  SnapshotCovers(q)'
  <1>1. /\ request \in [Request -> RequestState]
        /\ \A r \in Request : request[r].step # "idle" => request[r].user \in User
    BY DEF IInv, TypeInv, TypeOK, LocalsExist
  <1>2. ASSUME request'[q] = request[q] \/ request'[q] = IdleRequest
        PROVE  SnapshotCovers(q)'
    <2> SUFFICES ASSUME NEW w, w = request'[q].user
                 PROVE  SnapshotCovers(q)'
      OBVIOUS
    <2>1. request'[q].step \in CriticalSteps => w \in User
      BY <1>1, <1>2 DEF CriticalSteps, IdleRequest
    <2>2. request'[q].step \in CriticalSteps => Active(w)' \subseteq Active(w)
      BY <2>1 DEF OthersShrink
    <2> QED  BY <1>2, <2>2, SnapshotKept DEF IInv
  <1>3. ASSUME NEW u \in User, NEW step \in {"create-user", "delete-commit", "start-user"},
               request'[q].step = step, request'[q].paused = {}, request'[q].seen = {},
               request'[q].user = u, request'[q].target \subseteq OwnedBy(u)'
        PROVE  SnapshotCovers(q)'
    BY <1>3 DEF SnapshotCovers, At
  <1>4. ASSUME UNCHANGED tracker,
               request'[q].user = request[q].user,
               request'[q].paused = request[q].paused,
               request'[q].seen = request[q].seen,
               request'[q].target = request[q].target,
               request'[q].step \in {"create-read", "start-paused"}
        PROVE  SnapshotCovers(q)'
    <2>1. request[q].paused \cup request[q].seen \cup request[q].target
              \subseteq OwnedBy(request[q].user)
      BY DEF IInv, SnapshotCoversActive, SnapshotCovers
    <2> QED  BY <1>4, <2>1 DEF SnapshotCovers, At, OwnedBy, Inserted
  <1>5. CASE CreateAccepted(q)
    <2>1. /\ request'[q] = [request[q] EXCEPT !.step = "create-insert"]
          /\ UNCHANGED tracker
      BY <1>1, <1>5 DEF CreateAccepted
    <2> QED
      BY <1>1, <1>5, <2>1 DEF CreateAccepted, IInv, SnapshotCoversActive, SnapshotCovers, At,
         OwnedBy, Inserted, Active, IdentitiesOf, RequestState
  <1>6. CASE ReadPaused(q)
    <2> SUFFICES ASSUME NEW u, u = request[q].user
                 PROVE  SnapshotCovers(q)'
      OBVIOUS
    <2>1. request[q].seen \cup request[q].target \subseteq OwnedBy(u)
      BY DEF IInv, SnapshotCoversActive, SnapshotCovers
    <2>2. /\ request'[q].user = u
          /\ request'[q].seen = request[q].seen
          /\ request'[q].paused = Paused(u)
          /\ request'[q].target = request[q].target
          /\ request'[q].step = IF Paused(u) = {} THEN "start-resume" ELSE "start-active"
          /\ UNCHANGED tracker
      BY <1>1, <1>6 DEF ReadPaused, RequestState
    <2>3. Paused(u) \subseteq OwnedBy(u) /\ OwnedBy(u)' = OwnedBy(u)
      BY <2>2 DEF Paused, OwnedBy, Inserted
    <2> QED  BY <2>1, <2>2, <2>3 DEF SnapshotCovers, At
  <1>7. CASE ReadActive(q)
    <2> SUFFICES ASSUME NEW u, u = request[q].user
                 PROVE  SnapshotCovers(q)'
      OBVIOUS
    <2>1. request[q].paused \cup request[q].target \subseteq OwnedBy(u)
      BY DEF IInv, SnapshotCoversActive, SnapshotCovers
    <2>2. /\ request'[q].user = u
          /\ request'[q].paused = request[q].paused
          /\ request'[q].seen = Active(u)
          /\ request'[q].target = request[q].target
          /\ request'[q].step = "start-resume"
          /\ UNCHANGED tracker
      BY <1>1, <1>7 DEF ReadActive, RequestState
    <2>3. Active(u) \subseteq OwnedBy(u) /\ OwnedBy(u)' = OwnedBy(u) /\ Active(u)' = Active(u)
      BY <2>2 DEF Active, OwnedBy, Inserted
    <2> QED  BY <2>1, <2>2, <2>3 DEF SnapshotCovers, At
  <1>8. ASSUME NEW r \in Request, RequestNext(r), r # q
        PROVE  request'[q] = request[q]
    BY <1>1, <1>8
    DEF RequestNext, CreateStep, StartStep, Finish, LockUser, StartCreate, CreateLocksUser,
        CreateAccepted, CreateRejected, CreateCommits, DeleteFindsRow, DeleteCommits,
        StartCommand, StartLocksUser, ReadPaused, ReadActive, StartCommits, Abort
  <1>9. CASE CreateRejected(q) \/ DeleteCommits(q) \/ Abort(q)
    BY <1>1, <1>9, <1>2 DEF CreateRejected, DeleteCommits, Abort, Finish
  <1>10. ASSUME NEW u \in User,
                \/ \E i \in Identity : StartCreate(q, u, i)
                \/ \E t \in TrackerId : DeleteFindsRow(q, u, t)
                \/ StartCommand(q, u)
         PROVE  SnapshotCovers(q)'
    <2>1. /\ request'[q].step \in {"create-user", "delete-commit", "start-user"}
          /\ request'[q].paused = {} /\ request'[q].seen = {}
          /\ request'[q].user = u
          /\ request'[q].target \subseteq Active(u)
          /\ UNCHANGED tracker
      <3>1. CASE \E i \in Identity : StartCreate(q, u, i)
        BY <1>1, <3>1 DEF StartCreate, IdleRequest
      <3>2. CASE \E t \in TrackerId : DeleteFindsRow(q, u, t)
        BY <1>1, <3>2 DEF DeleteFindsRow, IdleRequest
      <3>3. CASE StartCommand(q, u)
        BY <1>1, <3>3 DEF StartCommand, IdleRequest
      <3> QED  BY <1>10, <3>1, <3>2, <3>3
    <2>2. Active(u) \subseteq OwnedBy(u)'
      BY <2>1 DEF Active, OwnedBy, Inserted
    <2> QED  BY <2>1, <2>2, <1>3
  <1>11. CASE CreateLocksUser(q) \/ StartLocksUser(q)
    BY <1>1, <1>11, <1>4 DEF CreateLocksUser, StartLocksUser, LockUser, RequestState
  <1>12. CASE CollectorNext \/ (\E u \in User : Block(u) \/ Unblock(u)) \/ UNCHANGED vars
    BY <1>12, <1>2
    DEF CollectorNext, SelectBatch, CommitBatch, SendForbidden, PauseCommits, PauseFails,
        CollectorStops, Block, Unblock, vars
  <1> QED
    BY <1>2, <1>5, <1>6, <1>7, <1>8, <1>9, <1>10, <1>11, <1>12
    DEF Next, RequestNext, CreateStep, StartStep

\* Every statement and commit keeps the inductive invariant.
LEMMA InvStep == IInv /\ [Next]_vars => IInv'
  <1> SUFFICES ASSUME IInv, [Next]_vars
               PROVE  IInv'
    OBVIOUS
  <1>1. TypeInv' /\ LockHeldWhileChecking'
    BY TypeStep, LockStep DEF IInv
  <1>2. CASE \A r \in Request : ~CreateCommits(r) /\ ~StartCommits(r)
    <2>1. RowsKept /\ OthersShrink({})
      BY <1>2, QuietRows DEF IInv
    <2>2. SnapshotCoversActive'
      BY <1>2, <2>1, QuietSnapshots DEF SnapshotCoversActive
    <2>3. ActiveWithinQuota' /\ ActiveIdentitiesDistinct'
      BY <2>1, ShrinkKeeps DEF IInv, OthersShrink, ActiveWithinQuota, ActiveIdentitiesDistinct
    <2> QED  BY <1>1, <2>2, <2>3 DEF IInv
  <1>3. ASSUME NEW r \in Request, NEW u, u = request[r].user,
               request[r].step \in CriticalSteps, Finish(r), RowsKept, OthersShrink({u}),
               Cardinality(Active(u)') <= Quota,
               \A s, t \in Active(u)' : tracker'[s].identity = tracker'[t].identity => s = t
        PROVE  IInv'
    <2>1. SnapshotCoversActive'
      BY <1>3, CommitKeepsSnapshots
    <2>2. \A v \in User \ {u} :
             /\ Cardinality(Active(v)') <= Quota
             /\ \A s, t \in Active(v)' : tracker'[s].identity = tracker'[t].identity => s = t
      BY <1>3, ShrinkKeeps DEF IInv, OthersShrink
    <2>3. ActiveWithinQuota' /\ ActiveIdentitiesDistinct'
      BY <1>3, <2>2 DEF ActiveWithinQuota, ActiveIdentitiesDistinct
    <2> QED  BY <1>1, <2>1, <2>3 DEF IInv
  <1>4. ASSUME NEW r \in Request, CreateCommits(r)
        PROVE  IInv'
    <2> SUFFICES ASSUME NEW u, u = request[r].user
                 PROVE  IInv'
      OBVIOUS
    <2>1. RowsKept /\ OthersShrink({u})
      BY <1>4, CreateRows DEF IInv
    <2>2. PICK t \in TrackerId \ Inserted :
             /\ Active(u)' = Active(u) \cup {t}
             /\ tracker'[t].identity \in request[r].identity
      BY <1>4, CreateRows DEF IInv
    <2>3. request[r].step = "create-insert" /\ Finish(r)
      BY <1>4 DEF CreateCommits, At
    <2>4. /\ request[r].identity \cap IdentitiesOf(Active(u)) = {}
          /\ Cardinality(Active(u)) < Quota
      BY <2>3 DEF IInv, SnapshotCoversActive, SnapshotCovers, At
    <2>5. Active(u) \in SUBSET TrackerId /\ Active(u) \subseteq Inserted /\ t \notin Active(u)
      BY <2>2 DEF Active, OwnedBy, Inserted
    <2>6. Cardinality(Active(u)') = Cardinality(Active(u)) + 1 /\ Cardinality(Active(u)) \in Nat
      BY <2>2, <2>5, IdsFinite, FS_AddElement
    <2>7. Cardinality(Active(u)') <= Quota
      BY <2>4, <2>6, QuotaAssumption
    <2>8. u \in User
      BY <2>3 DEF IInv, TypeInv, LocalsExist
    <2>9. \A s \in Active(u) : /\ tracker'[s].identity = tracker[s].identity
                               /\ tracker'[s].identity # tracker'[t].identity
      BY <2>1, <2>2, <2>4, <2>5 DEF RowsKept, IdentitiesOf
    <2>10. \A s1, s2 \in Active(u) : tracker[s1].identity = tracker[s2].identity => s1 = s2
      BY <2>8 DEF IInv, ActiveIdentitiesDistinct
    <2>11. \A s1, s2 \in Active(u)' : tracker'[s1].identity = tracker'[s2].identity => s1 = s2
      BY <2>2, <2>9, <2>10
    <2> QED  BY <1>3, <2>1, <2>3, <2>7, <2>11 DEF CriticalSteps
  <1>5. ASSUME NEW r \in Request, StartCommits(r)
        PROVE  IInv'
    <2> SUFFICES ASSUME NEW u, u = request[r].user,
                        NEW paused, paused = request[r].paused,
                        NEW seen, seen = request[r].seen,
                        NEW ids, ids = Resumed(paused, seen)
                 PROVE  IInv'
      OBVIOUS
    <2>1. RowsKept /\ OthersShrink({u}) /\ Active(u)' = Active(u) \cup ids
      BY <1>5, StartRows DEF IInv
    <2>2. request[r].step = "start-resume" /\ Finish(r)
      BY <1>5 DEF StartCommits, At
    <2>3. u \in User /\ Active(u) \in SUBSET TrackerId /\ Active(u) \subseteq Inserted
      BY <2>2 DEF IInv, TypeInv, LocalsExist, Active, OwnedBy, Inserted
    <2>4. CASE paused = {}
      <3>1. Active(u)' \subseteq Active(u)
        BY <2>1, <2>4, ResumedPaused
      <3> QED  BY <1>3, <2>1, <2>2, <2>3, <3>1, ShrinkKeeps DEF IInv, CriticalSteps
    <2>5. CASE paused # {}
      <3>1. Active(u) \subseteq seen
        BY <2>2, <2>5 DEF IInv, SnapshotCoversActive, SnapshotCovers, At
      <3>2. paused \in SUBSET TrackerId /\ seen \in SUBSET TrackerId /\ paused \subseteq Inserted
        BY DEF IInv, TypeInv, LocalsExist, Inserted
      <3>3. Cardinality(Active(u)') <= Quota
        <4>1. Cardinality(Active(u)) <= Quota
          BY <2>3 DEF IInv, ActiveWithinQuota
        <4> QED  BY <2>1, <3>1, <3>2, <4>1, ResumedFits
      <3>4. ids \subseteq paused /\ ids \subseteq Distinct(paused, seen)
        BY ResumedPaused
      <3>5. \A s \in Active(u), t \in ids : tracker[s].identity # tracker[t].identity
        BY <3>1, <3>4 DEF Distinct, IdentitiesOf
      <3>6. \A s, t \in ids : tracker[s].identity = tracker[t].identity => s = t
        <4> SUFFICES ASSUME NEW s \in ids, NEW t \in ids,
                            tracker[s].identity = tracker[t].identity, s # t
                     PROVE  FALSE
          OBVIOUS
        <4>1. s \in paused /\ t \in paused /\ (s < t \/ t < s)
          BY <3>2, <3>4 DEF TrackerId
        <4>2. \A x \in paused : x < s => tracker[x].identity # tracker[s].identity
          BY <3>4 DEF Distinct
        <4>3. \A x \in paused : x < t => tracker[x].identity # tracker[t].identity
          BY <3>4 DEF Distinct
        <4> QED  BY <4>1, <4>2, <4>3
      <3>7. \A t \in Active(u)' : tracker'[t].identity = tracker[t].identity
        BY <2>1, <2>3, <3>2, <3>4 DEF RowsKept
      <3>8. \A s, t \in Active(u) : tracker[s].identity = tracker[t].identity => s = t
        BY <2>3 DEF IInv, ActiveIdentitiesDistinct
      <3>9. \A s, t \in Active(u)' : tracker'[s].identity = tracker'[t].identity => s = t
        BY <2>1, <3>5, <3>6, <3>7, <3>8
      <3> QED  BY <1>3, <2>1, <2>2, <3>3, <3>9 DEF CriticalSteps
    <2> QED  BY <2>4, <2>5
  <1> QED  BY <1>2, <1>4, <1>5

\* The tables that the migrations create satisfy the inductive invariant.
LEMMA InvInit == Init => IInv
  <1> SUFFICES ASSUME Init PROVE IInv
    OBVIOUS
  <1>1. TypeInv
    BY TypeInit
  <1>2. LockHeldWhileChecking
    BY NoRequestAssumption DEF Init, LockHeldWhileChecking, CriticalSteps, IdleRequest
  <1>3. Inserted = {} /\ \A u : OwnedBy(u) = {} /\ Active(u) = {}
    BY DEF Init, Inserted, OwnedBy, Active
  <1>4. SnapshotCoversActive
    BY DEF Init, SnapshotCoversActive, SnapshotCovers, At, IdleRequest
  <1>5. ActiveWithinQuota /\ ActiveIdentitiesDistinct
    BY <1>3, FS_EmptySet, QuotaAssumption DEF ActiveWithinQuota, ActiveIdentitiesDistinct
  <1> QED  BY <1>1, <1>2, <1>4, <1>5 DEF IInv

\* The inductive invariant of the handlers holds in every reachable state.
THEOREM Invariance == Spec => []IInv
  BY InvInit, InvStep, PTL DEF Spec

\* No interleaving of creates, resumes, deletions and pauses takes a user over
\* MAX_ACTIVE_TRACKERS_PER_USER, for any number of users, handlers and rows.
THEOREM QuotaHolds == Spec => []ActiveWithinQuota
  <1>1. IInv => ActiveWithinQuota
    BY DEF IInv
  <1> QED  BY <1>1, Invariance, PTL

\* No interleaving leaves a user with two active trackers for one identity.
THEOREM IdentitiesHold == Spec => []ActiveIdentitiesDistinct
  <1>1. IInv => ActiveIdentitiesDistinct
    BY DEF IInv
  <1> QED  BY <1>1, Invariance, PTL

\* What a handler read under the `users` lock covers what is active until it
\* commits: the reason why its checks are still true when it writes.
THEOREM SnapshotsHold == Spec => []SnapshotCoversActive
  <1>1. IInv => SnapshotCoversActive
    BY DEF IInv
  <1> QED  BY <1>1, Invariance, PTL

-----------------------------------------------------------------------------
(* Refinement: the active rows are the claims of TrackerRegistry.            *)

ClaimOf(t) == [user |-> tracker[t].owner, identity |-> tracker[t].identity, tracker |-> t]

\* An UPDATE of rows of one user leaves the other users' active rows alone.
LEMMA OneUser ==
    ASSUME RowsKept, NEW u, NEW ids, ids \subseteq OwnedBy(u),
           \A t \in TrackerId \ ids : tracker'[t] = tracker[t]
    PROVE  OthersStay({u})
  <1> SUFFICES ASSUME NEW v \in User \ {u}
               PROVE  Active(v)' = Active(v)
    BY DEF OthersStay
  <1>1. \A t \in ids : t \notin Active(v) /\ t \notin Active(v)'
    BY DEF Active, OwnedBy, RowsKept
  <1>2. \A t \in TrackerId \ ids : t \in Active(v)' <=> t \in Active(v)
    BY DEF Active, OwnedBy, Inserted
  <1>3. Active(v) \subseteq TrackerId /\ Active(v)' \subseteq TrackerId
    BY DEF Active, OwnedBy, Inserted
  <1> QED  BY <1>1, <1>2, <1>3

\* A step that activates no row deactivates rows of at most one user.
LEMMA QuietOneUser ==
    ASSUME IInv, [Next]_vars, \A r \in Request : ~CreateCommits(r) /\ ~StartCommits(r)
    PROVE  OthersStay({}) \/ \E u \in User : OthersStay({u})
  <1>a. RowsKept
    BY QuietRows DEF IInv
  <1>b. tracker \in [TrackerId -> Row \cup {NoRow}]
    BY DEF IInv, TypeInv, TypeOK
  <1>1. CASE UNCHANGED tracker
    BY <1>1 DEF OthersStay, Active, OwnedBy, Inserted
  <1>2. ASSUME NEW r \in Request, DeleteCommits(r)
        PROVE  \E u \in User : OthersStay({u})
    <2>1. request[r].user \in User
      BY <1>2 DEF DeleteCommits, At, IInv, TypeInv, LocalsExist
    <2>2. request[r].target \subseteq OwnedBy(request[r].user)
      BY DEF IInv, SnapshotCoversActive, SnapshotCovers
    <2>3. \A t \in TrackerId \ request[r].target : tracker'[t] = tracker[t]
      BY <1>2 DEF DeleteCommits, SetActive, SetDeleted
    <2> QED  BY <1>a, <2>1, <2>2, <2>3, OneUser
  <1>3. CASE CommitBatch
    <2>1. collector.batch \in SUBSET TrackerId
      BY DEF IInv, TypeInv, LocalsExist, Inserted
    <2>2. tracker' = SetChecked(tracker, collector.batch, TRUE)
      BY <1>3 DEF CommitBatch
    <2>3. \A t \in TrackerId : tracker'[t] = NoRow <=> tracker[t] = NoRow
      BY <1>b, <2>1, <2>2, UpdateInserted DEF IInv, TypeInv, LocalsExist, Inserted
    <2>4. \A t \in Inserted : /\ tracker'[t].owner = tracker[t].owner
                              /\ tracker'[t].active <=> tracker[t].active
      <3> SUFFICES ASSUME NEW t \in Inserted
                   PROVE  /\ tracker'[t].owner = tracker[t].owner
                          /\ tracker'[t].active <=> tracker[t].active
        OBVIOUS
      <3>1. t \in TrackerId /\ tracker[t] \in Row
        BY <1>b DEF Inserted
      <3> QED  BY <1>b, <2>1, <2>2, <3>1, CheckKeeps
    <2>5. Inserted' = Inserted
      BY <2>3 DEF Inserted
    <2>6. \A v \in User : Active(v)' = Active(v)
      BY <2>4, <2>5 DEF Active, OwnedBy
    <2> QED  BY <2>6 DEF OthersStay
  <1>4. CASE PauseCommits
    <2> SUFFICES ASSUME NEW u, u = collector.user
                 PROVE  OthersStay({}) \/ \E w \in User : OthersStay({w})
      OBVIOUS
    <2>1. Active(u) \subseteq OwnedBy(u)
      BY DEF Active
    <2>2. \A t \in TrackerId \ Active(u) : tracker'[t] = tracker[t]
      BY <1>4 DEF PauseCommits, SetActive
    <2>3. OthersStay({u})
      BY <1>a, <2>1, <2>2, OneUser
    <2> QED  BY <2>3 DEF OthersStay
  <1>5. \/ UNCHANGED tracker
        \/ \E r \in Request : DeleteCommits(r)
        \/ CommitBatch
        \/ PauseCommits
    BY DEF Next, RequestNext, CreateStep, StartStep, CollectorNext, vars, LockUser,
           StartCreate, CreateLocksUser, CreateAccepted, CreateRejected, DeleteFindsRow,
           StartCommand, StartLocksUser, ReadPaused, ReadActive, Abort, SelectBatch,
           SendForbidden, PauseFails, CollectorStops, Block, Unblock
  <1> QED  BY <1>1, <1>2, <1>3, <1>4, <1>5

\* The instance brings its own copy of the library's Cardinality.
LEMMA RegistryCardinality ==
    ASSUME NEW S
    PROVE  Registry!Cardinality(S) = Cardinality(S)
  BY DEF Registry!Cardinality, Cardinality

\* The quota and the identities, read off the claims.
LEMMA ClaimsAdmissible == IInv => Registry!Admissible(ClaimsOfRows)
  <1> SUFFICES ASSUME IInv, NEW u \in User
               PROVE  /\ Cardinality(Registry!ClaimsOf(u, ClaimsOfRows)) <= Quota
                      /\ \A c, d \in Registry!ClaimsOf(u, ClaimsOfRows) :
                            c.identity = d.identity => c = d
    BY RegistryCardinality DEF Registry!Admissible
  <1> DEFINE mine == Registry!ClaimsOf(u, ClaimsOfRows)
  <1>1. mine = {ClaimOf(t) : t \in Active(u)}
    BY DEF Registry!ClaimsOf, ClaimsOfRows, ClaimOf, Active, OwnedBy
  <1>2. \A c, d \in mine : c.identity = d.identity => c = d
    BY <1>1 DEF ClaimOf, IInv, ActiveIdentitiesDistinct
  <1>3. Active(u) \in SUBSET TrackerId
    BY DEF Active, OwnedBy, Inserted
  <1> DEFINE claim == [t \in Active(u) |-> ClaimOf(t)]
  <1>4. claim \in Surjection(Active(u), mine)
    BY <1>1 DEF Surjection
  <1>5. IsFiniteSet(Active(u)) /\ Cardinality(Active(u)) \in Nat
    BY <1>3, IdsFinite
  <1> HIDE DEF mine, claim
  <1>6. IsFiniteSet(mine) /\ Cardinality(mine) <= Cardinality(Active(u))
    BY <1>4, <1>5, FS_Surjection
  <1>7. Cardinality(mine) \in Nat
    BY <1>6, FS_CardinalityType
  <1>8. Cardinality(Active(u)) <= Quota
    BY DEF IInv, ActiveWithinQuota
  <1>9. Cardinality(mine) <= Quota
    BY <1>5, <1>6, <1>7, <1>8, QuotaAssumption
  <1> QED  BY <1>2, <1>9 DEF mine

\* Rows that stay active keep their claim.
LEMMA ClaimsKept ==
    ASSUME RowsKept, NEW u \in User
    PROVE  \A t \in Active(u) : ClaimOf(t)' = ClaimOf(t)
  BY DEF RowsKept, Active, OwnedBy, ClaimOf

\* A claim is the claim of an active row.
LEMMA ClaimsUnfold ==
    /\ \A c : c \in ClaimsOfRows <=> \E v \in User : \E t \in Active(v) : c = ClaimOf(t)
    /\ \A c : c \in ClaimsOfRows' <=> \E v \in User : \E t \in Active(v)' : c = ClaimOf(t)'
  BY DEF ClaimsOfRows, ClaimOf

\* A claim belongs to the owner of its row.
LEMMA ClaimUser ==
    ASSUME NEW u \in User, NEW t \in Active(u)
    PROVE  ClaimOf(t).user = u
  BY DEF ClaimOf, Active, OwnedBy

\* Where active rows only go, or only come, so do the claims.
LEMMA ClaimsShrink ==
    ASSUME RowsKept, OthersShrink({})
    PROVE  ClaimsOfRows' \subseteq ClaimsOfRows
  <1> SUFFICES ASSUME NEW v \in User, NEW t \in Active(v)'
               PROVE  ClaimOf(t)' \in ClaimsOfRows
    BY ClaimsUnfold
  <1>1. t \in Active(v)
    BY DEF OthersShrink
  <1> QED  BY <1>1, ClaimsKept, ClaimsUnfold

\* Where active rows only come, so do the claims.
LEMMA ClaimsGrow ==
    ASSUME RowsKept, \A v \in User : Active(v) \subseteq Active(v)'
    PROVE  ClaimsOfRows \subseteq ClaimsOfRows'
  <1> SUFFICES ASSUME NEW v \in User, NEW t \in Active(v)
               PROVE  ClaimOf(t) \in ClaimsOfRows'
    BY ClaimsUnfold
  <1>1. t \in Active(v)'
    OBVIOUS
  <1> QED  BY <1>1, ClaimsKept, ClaimsUnfold

\* The claims in which the two states of a step differ are of that user.
LEMMA LostClaims ==
    ASSUME RowsKept, NEW u \in User, OthersStay({u}),
           NEW c \in ClaimsOfRows, c \notin ClaimsOfRows'
    PROVE  c.user = u
  <1>1. PICK v \in User : \E t \in Active(v) : c = ClaimOf(t)
    BY ClaimsUnfold
  <1>2. PICK t \in Active(v) : c = ClaimOf(t)
    BY <1>1
  <1>3. CASE v = u
    BY <1>2, <1>3, ClaimUser
  <1>4. CASE v # u
    <2>1. t \in Active(v)'
      BY <1>4 DEF OthersStay
    <2> QED  BY <1>2, <2>1, ClaimsKept, ClaimsUnfold
  <1> QED  BY <1>3, <1>4

\* The claims that a step adds are of the user whose rows become active.
LEMMA NewClaims ==
    ASSUME RowsKept, NEW u \in User, OthersStay({u}),
           NEW c \in ClaimsOfRows', c \notin ClaimsOfRows
    PROVE  c.user = u
  <1>1. PICK v \in User : \E t \in Active(v)' : c = ClaimOf(t)'
    BY ClaimsUnfold
  <1>2. PICK t \in Active(v)' : c = ClaimOf(t)'
    BY <1>1
  <1>3. CASE v = u
    BY <1>2, <1>3 DEF ClaimOf, Active, OwnedBy
  <1>4. CASE v # u
    <2>1. t \in Active(v)
      BY <1>4 DEF OthersStay
    <2> QED  BY <1>2, <2>1, ClaimsKept, ClaimsUnfold
  <1> QED  BY <1>3, <1>4

\* What the active rows are mapped to are claims of the registry.
LEMMA ClaimsTyped == TypeInv => ClaimsOfRows \in SUBSET Registry!Claim
  <1> SUFFICES ASSUME TypeInv, NEW v \in User, NEW t \in Active(v)
               PROVE  ClaimOf(t) \in Registry!Claim
    BY ClaimsUnfold
  <1>1. t \in TrackerId /\ tracker[t] \in Row
    BY DEF Active, OwnedBy, Inserted, TypeInv, TypeOK
  <1> QED  BY <1>1 DEF ClaimOf, Row, Registry!Claim

\* Every step of the handlers is a step of the registry, or a stutter.
LEMMA RegistryStep ==
    IInv /\ IInv' /\ [Next]_vars => [Registry!Next]_ClaimsOfRows
  <1> SUFFICES ASSUME IInv, IInv', [Next]_vars
               PROVE  [Registry!Next]_ClaimsOfRows
    OBVIOUS
  <1>1. CASE \A r \in Request : ~CreateCommits(r) /\ ~StartCommits(r)
    <2>1. RowsKept /\ OthersShrink({})
      BY <1>1, QuietRows DEF IInv
    <2>2. ClaimsOfRows' \subseteq ClaimsOfRows
      BY <2>1, ClaimsShrink
    <2>3. CASE OthersStay({})
      <3>1. ClaimsOfRows \subseteq ClaimsOfRows'
        BY <2>1, <2>3, ClaimsGrow DEF OthersStay
      <3> QED  BY <2>2, <3>1
    <2>4. ASSUME NEW u \in User, OthersStay({u})
          PROVE  Registry!Drop(u)
      <3>1. \A c \in ClaimsOfRows \ ClaimsOfRows' : c.user = u
        BY <2>1, <2>4, LostClaims
      <3> QED  BY <2>2, <3>1 DEF Registry!Drop, Registry!ClaimsOf
    <2> QED  BY <1>1, <2>3, <2>4, QuietOneUser DEF Registry!Next
  <1>2. ASSUME NEW u \in User, RowsKept, OthersStay({u}), Active(u) \subseteq Active(u)'
        PROVE  Registry!Take(u)
    <2>1. ClaimsOfRows' \in SUBSET Registry!Claim
      <3>1. TypeInv'
        BY DEF IInv
      <3>2. (ClaimsOfRows \in SUBSET Registry!Claim)'
        BY <3>1, ClaimsTyped, PTL
      <3> QED  BY <3>2 DEF Registry!Claim
    <2>2. ClaimsOfRows \subseteq ClaimsOfRows'
      BY <1>2, ClaimsGrow DEF OthersStay
    <2>3. \A c \in ClaimsOfRows' \ ClaimsOfRows : c.user = u
      BY <1>2, NewClaims
    <2>4. Registry!Admissible(ClaimsOfRows)'
      BY ClaimsAdmissible, PTL
    <2>5. Registry!Admissible(ClaimsOfRows')
      BY <2>4 DEF Registry!Admissible, Registry!ClaimsOf
    <2> QED  BY <2>1, <2>2, <2>3, <2>5 DEF Registry!Take, Registry!ClaimsOf
  <1>3. ASSUME NEW r \in Request, CreateCommits(r)
        PROVE  \E u \in User : Registry!Take(u)
    <2> SUFFICES ASSUME NEW u, u = request[r].user
                 PROVE  \E w \in User : Registry!Take(w)
      OBVIOUS
    <2>1. u \in User
      BY <1>3 DEF CreateCommits, At, IInv, TypeInv, LocalsExist
    <2>2. RowsKept /\ OthersStay({u}) /\ Active(u) \subseteq Active(u)'
      BY <1>3, CreateRows DEF IInv
    <2> QED  BY <1>2, <2>1, <2>2
  <1>4. ASSUME NEW r \in Request, StartCommits(r)
        PROVE  \E u \in User : Registry!Take(u)
    <2> SUFFICES ASSUME NEW u, u = request[r].user,
                        NEW ids, ids = Resumed(request[r].paused, request[r].seen)
                 PROVE  \E w \in User : Registry!Take(w)
      OBVIOUS
    <2>1. u \in User
      BY <1>4 DEF StartCommits, At, IInv, TypeInv, LocalsExist
    <2>2. RowsKept /\ OthersStay({u}) /\ Active(u) \subseteq Active(u)'
      BY <1>4, StartRows DEF IInv
    <2> QED  BY <1>2, <2>1, <2>2
  <1> QED  BY <1>1, <1>3, <1>4 DEF Registry!Next

\* The handlers, with their locks and snapshots, implement the registry in
\* which a claim is taken or dropped at once, for every value of the constants.
THEOREM Refinement == Spec => ImplementsRegistry
  <1>1. Init => Registry!Init
    BY DEF Init, Registry!Init, ClaimsOfRows, Active, OwnedBy, Inserted
  <1>2. IInv /\ IInv' /\ [Next]_vars => [Registry!Next]_ClaimsOfRows
    BY RegistryStep
  <1> QED  BY <1>1, <1>2, Invariance, PTL DEF Spec, ImplementsRegistry, Registry!Spec

-----------------------------------------------------------------------------
(* A tracker that becomes active has no last_checked_at: its next check is a *)
(* baseline.                                                                 *)

HoldsPaused(r) == request[r].step \in {"start-active", "start-resume"}

InBatch(t) == collector.step = "syncing" /\ t \in collector.batch

\* While the collector syncs, a row it selected becomes inactive by a deletion
\* only: it pauses nobody until it has committed.
BatchInv == \A t \in TrackerId : InBatch(t) => tracker[t].active \/ tracker[t].deleted

\* What /start has read as paused is still inactive, and a row that it will not
\* clear is still unchecked and out of the collector's hands.
PausedInv ==
    \A r \in Request : HoldsPaused(r) =>
        \A t \in request[r].paused :
            /\ ~tracker[t].active
            /\ t \notin request[r].stale => ~tracker[t].checked /\ ~InBatch(t)

BInv == IInv /\ BatchInv /\ PausedInv

-----------------------------------------------------------------------------
(* What each UPDATE does to one row. *)

\* deactivate_tracker: the row keeps its last check and is not active.
LEMMA DeleteRow ==
  ASSUME TypeInv, NEW r \in Request, DeleteCommits(r), NEW t \in Inserted
  PROVE  \/ tracker'[t] = tracker[t]
         \/ /\ ~tracker'[t].active
            /\ tracker'[t].deleted
            /\ tracker'[t].checked = tracker[t].checked
  <1>1. tracker \in [TrackerId -> Row \cup {NoRow}] /\ tracker[t] \in Row /\ t \in TrackerId
    BY DEF TypeInv, TypeOK, Inserted
  <1> QED  BY <1>1 DEF DeleteCommits, SetActive, SetDeleted, Row

\* _process_group writes last_checked_at of the rows of its batch alone.
LEMMA CheckRow ==
  ASSUME TypeInv, CommitBatch, NEW t \in Inserted
  PROVE  /\ tracker'[t].active = tracker[t].active
         /\ tracker'[t].deleted = tracker[t].deleted
         /\ ~InBatch(t) => tracker'[t] = tracker[t]
  <1>1. tracker \in [TrackerId -> Row \cup {NoRow}] /\ tracker[t] \in Row /\ t \in TrackerId
    BY DEF TypeInv, TypeOK, Inserted
  <1> QED  BY <1>1 DEF CommitBatch, SetChecked, Row, InBatch

\* deactivate_user_trackers: rows become inactive and change in nothing else.
LEMMA PauseRow ==
  ASSUME TypeInv, PauseCommits, NEW t \in Inserted
  PROVE  /\ ~tracker[t].active => tracker'[t] = tracker[t]
         /\ tracker'[t].checked = tracker[t].checked
         /\ tracker'[t].active => tracker[t].active
  <1>1. tracker \in [TrackerId -> Row \cup {NoRow}] /\ tracker[t] \in Row /\ t \in TrackerId
    BY DEF TypeInv, TypeOK, Inserted
  <1> QED  BY <1>1 DEF PauseCommits, SetActive, Row, Active

\* resume_paused_trackers: a row it activates has no last check.
LEMMA ResumeRow ==
  ASSUME TypeInv, NEW r \in Request, StartCommits(r), NEW t \in Inserted
  PROVE  /\ t \notin request[r].paused => tracker'[t] = tracker[t]
         /\ tracker'[t].deleted = tracker[t].deleted
         /\ tracker[t].active => tracker'[t].active
         /\ tracker'[t].active => tracker[t].active \/ t \in request[r].paused
         /\ tracker'[t].active /\ ~tracker[t].active =>
               tracker'[t].checked = (tracker[t].checked /\ t \notin request[r].stale)
  <1>1. tracker \in [TrackerId -> Row \cup {NoRow}] /\ tracker[t] \in Row /\ t \in TrackerId
    BY DEF TypeInv, TypeOK, Inserted
  <1> DEFINE ids == Resumed(request[r].paused, request[r].seen)
  <1>2. ids \subseteq request[r].paused
    BY ResumedPaused
  <1>3. tracker' = SetChecked(SetActive(tracker, ids, TRUE), ids \cap request[r].stale, FALSE)
    BY DEF StartCommits
  <1> HIDE DEF ids
  <1>4. CASE t \notin ids
    BY <1>1, <1>3, <1>4 DEF SetChecked, SetActive
  <1>5. CASE t \in ids
    <2>1. tracker'[t] = IF t \in request[r].stale
                        THEN [[tracker[t] EXCEPT !.active = TRUE] EXCEPT !.checked = FALSE]
                        ELSE [tracker[t] EXCEPT !.active = TRUE]
      BY <1>1, <1>3, <1>5 DEF SetChecked, SetActive
    <2> QED  BY <1>1, <1>2, <1>5, <2>1 DEF Row
  <1> QED  BY <1>4, <1>5

\* create_tracker: the row it inserts has no last check.
LEMMA InsertRow ==
  ASSUME TypeInv, NEW r \in Request, CreateCommits(r), NEW t \in TrackerId
  PROVE  /\ t \in Inserted => tracker'[t] = tracker[t]
         /\ t \notin Inserted /\ tracker'[t] # NoRow => ~tracker'[t].checked
  <1>1. tracker \in [TrackerId -> Row \cup {NoRow}]
    BY DEF TypeInv, TypeOK
  <1> QED  BY <1>1 DEF CreateCommits, NextId, Inserted

\* These are all the steps that write rows.
LEMMA Writers ==
  ASSUME [Next]_vars
  PROVE  \/ UNCHANGED tracker
         \/ \E r \in Request : CreateCommits(r) \/ DeleteCommits(r) \/ StartCommits(r)
         \/ CommitBatch
         \/ PauseCommits
  BY DEF Next, RequestNext, CreateStep, StartStep, CollectorNext, vars, LockUser,
         StartCreate, CreateLocksUser, CreateAccepted, CreateRejected, DeleteFindsRow,
         StartCommand, StartLocksUser, ReadPaused, ReadActive, Abort, SelectBatch,
         SendForbidden, PauseFails, CollectorStops, Block, Unblock

-----------------------------------------------------------------------------
(* Preservation. *)

\* The collector takes rows into its hands only while they are active.
LEMMA BatchMoves ==
  ASSUME TypeInv, [Next]_vars, NEW t \in TrackerId, InBatch(t)'
  PROVE  InBatch(t) \/ (UNCHANGED tracker /\ tracker[t].active)
  <1>1. ASSUME NEW batch \in SUBSET TrackerId, SelectBatch(batch)
        PROVE  UNCHANGED tracker /\ tracker[t].active
    BY <1>1 DEF SelectBatch, InBatch, Active
  <1>2. CASE UNCHANGED collector
    BY <1>2 DEF InBatch
  <1>3. ASSUME \/ CommitBatch \/ PauseCommits \/ PauseFails \/ CollectorStops
               \/ \E s \in TrackerId : SendForbidden(s)
        PROVE  FALSE
    <2>1. collector \in CollectorState
      BY DEF TypeInv, TypeOK
    <2>2. CASE CommitBatch
      BY <2>1, <2>2 DEF CommitBatch, CollectorState, InBatch
    <2>3. CASE PauseCommits
      BY <2>1, <2>3 DEF PauseCommits, CollectorState, InBatch
    <2>4. CASE PauseFails
      BY <2>1, <2>4 DEF PauseFails, CollectorState, InBatch
    <2>6. CASE CollectorStops
      BY <2>6 DEF CollectorStops, IdleCollector, InBatch
    <2>5. ASSUME NEW s \in TrackerId, SendForbidden(s)  PROVE FALSE
      BY <2>1, <2>5 DEF SendForbidden, CollectorState, InBatch
    <2> QED  BY <1>3, <2>2, <2>3, <2>4, <2>5, <2>6
  <1>4. \/ \E batch \in SUBSET TrackerId : SelectBatch(batch)
        \/ UNCHANGED collector
        \/ CommitBatch \/ PauseCommits \/ PauseFails \/ CollectorStops
        \/ \E s \in TrackerId : SendForbidden(s)
    BY DEF Next, RequestNext, CreateStep, StartStep, CollectorNext, vars, LockUser,
           StartCreate, CreateLocksUser, CreateAccepted, CreateRejected, CreateCommits,
           DeleteFindsRow, DeleteCommits, StartCommand, StartLocksUser, ReadPaused,
           ReadActive, StartCommits, Abort, Block, Unblock
  <1> QED  BY <1>1, <1>2, <1>3, <1>4

\* A handler keeps what it read as paused until it commits or ends.
LEMMA PausedMoves ==
  ASSUME TypeInv, [Next]_vars, NEW r \in Request, HoldsPaused(r)'
  PROVE  \/ ReadPaused(r)
         \/ /\ HoldsPaused(r)
            /\ request'[r].paused = request[r].paused
            /\ request'[r].stale = request[r].stale
  <1>1. request \in [Request -> RequestState]
    BY DEF TypeInv, TypeOK
  <1>2. ASSUME NEW q \in Request, Finish(q)
        PROVE  r # q /\ request'[r] = request[r]
    BY <1>1, <1>2 DEF Finish, IdleRequest, HoldsPaused
  <1>3. ASSUME NEW q \in Request, ReadActive(q)
        PROVE  /\ HoldsPaused(r)
               /\ request'[r].paused = request[r].paused
               /\ request'[r].stale = request[r].stale
    BY <1>1, <1>3 DEF ReadActive, At, HoldsPaused, RequestState
  <1>4. ASSUME NEW q \in Request, ReadPaused(q)
        PROVE  r = q \/ request'[r] = request[r]
    BY <1>1, <1>4 DEF ReadPaused
  <1>5. ASSUME NEW q \in Request,
               \/ \E u \in User, i \in Identity : StartCreate(q, u, i)
               \/ \E u \in User, t \in TrackerId : DeleteFindsRow(q, u, t)
               \/ \E u \in User : StartCommand(q, u)
               \/ CreateLocksUser(q) \/ StartLocksUser(q)
               \/ CreateAccepted(q)
        PROVE  request'[r] = request[r]
    <2>1. /\ \A p \in Request : p # q => request'[p] = request[p]
          /\ request'[q].step \notin {"start-active", "start-resume"}
      <3>1. CASE \E u \in User, i \in Identity : StartCreate(q, u, i)
        BY <1>1, <3>1 DEF StartCreate, IdleRequest
      <3>2. CASE \E u \in User, t \in TrackerId : DeleteFindsRow(q, u, t)
        BY <1>1, <3>2 DEF DeleteFindsRow, IdleRequest
      <3>3. CASE \E u \in User : StartCommand(q, u)
        BY <1>1, <3>3 DEF StartCommand, IdleRequest
      <3>4. CASE CreateLocksUser(q)
        BY <1>1, <3>4 DEF CreateLocksUser, LockUser, RequestState
      <3>5. CASE StartLocksUser(q)
        BY <1>1, <3>5 DEF StartLocksUser, LockUser, RequestState
      <3>6. CASE CreateAccepted(q)
        BY <1>1, <3>6 DEF CreateAccepted, RequestState
      <3> QED  BY <1>5, <3>1, <3>2, <3>3, <3>4, <3>5, <3>6
    <2> QED  BY <2>1 DEF HoldsPaused
  <1>6. CASE UNCHANGED request
    BY <1>6 DEF HoldsPaused
  <1>7. \/ UNCHANGED request
        \/ \E q \in Request :
              \/ Finish(q) \/ ReadActive(q) \/ ReadPaused(q)
              \/ \E u \in User, i \in Identity : StartCreate(q, u, i)
              \/ \E u \in User, t \in TrackerId : DeleteFindsRow(q, u, t)
              \/ \E u \in User : StartCommand(q, u)
              \/ CreateLocksUser(q) \/ StartLocksUser(q)
              \/ CreateAccepted(q)
    BY DEF Next, RequestNext, CreateStep, StartStep, CollectorNext, vars, CreateRejected,
           CreateCommits, DeleteCommits, StartCommits, Abort, SelectBatch, CommitBatch,
           SendForbidden, PauseCommits, PauseFails, CollectorStops, Block, Unblock
  <1> QED  BY <1>2, <1>3, <1>4, <1>5, <1>6, <1>7 DEF HoldsPaused

\* Every step keeps BatchInv.
LEMMA BatchStep == BInv /\ [Next]_vars => BatchInv'
  <1> SUFFICES ASSUME BInv, [Next]_vars, NEW t \in TrackerId, InBatch(t)'
               PROVE  tracker'[t].active \/ tracker'[t].deleted
    BY DEF BatchInv
  <1>1. TypeInv /\ BatchInv
    BY DEF BInv, IInv
  <1>2. CASE UNCHANGED tracker
    BY <1>1, <1>2, BatchMoves DEF BatchInv
  <1>3. ASSUME InBatch(t), t \in Inserted  PROVE tracker'[t].active \/ tracker'[t].deleted
    <2>1. tracker[t].active \/ tracker[t].deleted
      BY <1>1, <1>3 DEF BatchInv
    <2>2. ~PauseCommits
      BY <1>3 DEF PauseCommits, InBatch
    <2> QED
      BY <1>1, <1>2, <1>3, <2>1, <2>2, Writers, InsertRow, DeleteRow, ResumeRow, CheckRow
  <1>4. InBatch(t) => t \in Inserted
    BY <1>1 DEF InBatch, TypeInv, LocalsExist
  <1> QED  BY <1>1, <1>2, <1>3, <1>4, BatchMoves

\* Every step keeps PausedInv.
LEMMA PausedStep == BInv /\ [Next]_vars => PausedInv'
  <1> SUFFICES ASSUME BInv, [Next]_vars, NEW r \in Request, HoldsPaused(r)',
                      NEW t \in request'[r].paused
               PROVE  /\ ~tracker'[t].active
                      /\ t \notin request'[r].stale => ~tracker'[t].checked /\ ~InBatch(t)'
    BY DEF PausedInv
  <1>1. TypeInv /\ BatchInv /\ PausedInv /\ LockHeldWhileChecking /\ SnapshotCoversActive
    BY DEF BInv, IInv
  <1>2. CASE ReadPaused(r)
    <2>1. /\ request'[r].paused = Paused(request[r].user)
          /\ request'[r].stale = {s \in Paused(request[r].user) : tracker[s].checked}
          /\ UNCHANGED <<tracker, collector>>
      BY <1>1, <1>2 DEF ReadPaused, TypeInv, TypeOK, RequestState
    <2>2. /\ t \in TrackerId /\ ~tracker[t].active /\ ~tracker[t].deleted
          /\ t \notin request'[r].stale => ~tracker[t].checked
      BY <2>1 DEF Paused, OwnedBy, Inserted
    <2>3. ~InBatch(t)
      BY <1>1, <2>2 DEF BatchInv
    <2> QED  BY <2>1, <2>2, <2>3 DEF InBatch
  <1>3. CASE /\ HoldsPaused(r)
             /\ request'[r].paused = request[r].paused
             /\ request'[r].stale = request[r].stale
    <2>1. /\ t \in Inserted /\ t \in TrackerId /\ t \in OwnedBy(request[r].user)
          /\ ~tracker[t].active
          /\ t \notin request[r].stale => ~tracker[t].checked /\ ~InBatch(t)
      BY <1>1, <1>3 DEF PausedInv, SnapshotCoversActive, SnapshotCovers, OwnedBy, Inserted
    <2>2. t \notin request[r].stale => ~InBatch(t)'
      BY <1>1, <2>1, BatchMoves
    <2>3. ASSUME NEW q \in Request, StartCommits(q)  PROVE t \notin request[q].paused
      <3>1. q # r /\ request[q].step \in CriticalSteps /\ request[r].step \in CriticalSteps
        BY <1>1, <1>3, <2>3 DEF StartCommits, Finish, IdleRequest, HoldsPaused, TypeInv,
                                TypeOK, At, CriticalSteps
      <3>2. request[q].user # request[r].user
        BY <1>1, <3>1 DEF LockHeldWhileChecking
      <3> QED  BY <1>1, <2>1, <3>2 DEF SnapshotCoversActive, SnapshotCovers, OwnedBy
    <2>4. /\ ~tracker'[t].active
          /\ t \notin request[r].stale => ~tracker'[t].checked
      BY <1>1, <2>1, <2>3, Writers, InsertRow, DeleteRow, ResumeRow, CheckRow, PauseRow
    <2> QED  BY <1>3, <2>2, <2>4
  <1> QED  BY <1>1, <1>2, <1>3, PausedMoves

\* Both invariants about last_checked_at hold in every reachable state.
LEMMA BaselineInvariance == Spec => []BInv
  <1>1. Init => BatchInv /\ PausedInv
    BY DEF Init, BatchInv, PausedInv, InBatch, HoldsPaused, IdleCollector, IdleRequest
  <1>2. Init => BInv
    BY <1>1, InvInit DEF BInv
  <1>3. BInv /\ [Next]_vars => BInv'
    BY InvStep, BatchStep, PausedStep DEF BInv
  <1> QED  BY <1>2, <1>3, PTL DEF Spec

-----------------------------------------------------------------------------

\* A tracker becomes active with last_checked_at NULL, created or resumed, in
\* whatever order the collector's commits and pauses come: it does not alert on
\* what was missed in between.
THEOREM ActivationIsUnchecked == Spec => ActivatedIsUnchecked
  <1> DEFINE Unchecked ==
        \A t \in TrackerId :
          (\E u \in User : t \in Active(u)' \ Active(u)) => ~tracker'[t].checked
  <1>1. ASSUME BInv, [Next]_vars  PROVE Unchecked
    <2>1. TypeInv /\ PausedInv /\ SnapshotCoversActive
      BY <1>1 DEF BInv, IInv
    <2> SUFFICES ASSUME NEW t \in TrackerId, NEW u \in User, t \in Active(u)', t \notin Active(u)
                 PROVE  ~tracker'[t].checked
      OBVIOUS
    <2>2. tracker'[t] # NoRow /\ tracker'[t].active
      BY DEF Active, OwnedBy, Inserted
    <2>3. PICK r \in Request : CreateCommits(r) \/ StartCommits(r)
      BY <1>1, <2>1, QuietRows DEF OthersShrink
    <2>4. CASE CreateCommits(r)
      <3>1. t \notin Inserted
        BY <2>1, <2>4, InsertRow DEF Active, OwnedBy, Inserted
      <3> QED  BY <2>1, <2>2, <2>4, <3>1, InsertRow
    <2>5. CASE StartCommits(r)
      <3> SUFFICES ASSUME NEW v, v = request[r].user,
                          NEW ids, ids = Resumed(request[r].paused, request[r].seen)
                   PROVE  ~tracker'[t].checked
        OBVIOUS
      <3>1. ids \subseteq request[r].paused
        BY ResumedPaused
      <3>2. t \in ids
        <4>1. request[r].user \in User
          BY <2>1, <2>5 DEF StartCommits, At, TypeInv, LocalsExist
        <4>2. OthersStay({v}) /\ Active(v)' = Active(v) \cup ids
          BY <2>1, <2>5, StartRows
        <4> QED  BY <4>1, <4>2 DEF OthersStay
      <3>3. t \in request[r].paused /\ HoldsPaused(r)
        BY <2>5, <3>1, <3>2 DEF StartCommits, At, HoldsPaused
      <3>4. t \in Inserted /\ ~tracker[t].active
            /\ (t \notin request[r].stale => ~tracker[t].checked)
        BY <2>1, <3>3 DEF PausedInv, TypeInv, LocalsExist
      <3> QED  BY <2>1, <2>2, <2>5, <3>4, ResumeRow
    <2> QED  BY <2>3, <2>4, <2>5
  <1>2. BInv /\ [Next]_vars => [Unchecked]_vars
    BY <1>1
  <1> QED  BY <1>2, BaselineInvariance, PTL DEF Spec, ActivatedIsUnchecked

-----------------------------------------------------------------------------
(* The loop of resume_paused_trackers, turn by turn, takes the rows of       *)
(* Resumed.                                                                  *)

\* A set of numbers has a smallest one.
LEMMA LeastNumber ==
    ASSUME NEW S \in SUBSET Nat, S # {}
    PROVE  \E x \in S : \A y \in S : x <= y
  <1> DEFINE R == OpToRel(<, Nat)
  <1>1. IsWellFoundedOn(R, Nat)
    BY NatLessThanWellFounded
  <1>2. \A x, y \in Nat : y < x => <<y, x>> \in R
    BY DEF OpToRel
  <1> HIDE DEF R
  <1>3. PICK x \in S : \A y \in S : ~(<<y, x>> \in R)
    BY <1>1, WFMin
  <1>4. ASSUME NEW y \in S PROVE x <= y
    <2>1. x \in Nat /\ y \in Nat
      OBVIOUS
    <2>2. ~(y < x)
      BY <1>2, <1>3, <2>1
    <2> QED  BY <2>1, <2>2
  <1> QED  BY <1>4

\* The rows that the loop takes before it comes to row n.
TakenBefore(n, paused, active) == {t \in Resumed(paused, active) : t < n}

\* Once a row was refused for want of room, the room stays taken.
LEMMA FullOnceRefused ==
    ASSUME NEW paused \in SUBSET TrackerId, NEW active \in SUBSET TrackerId,
           NEW d \in Distinct(paused, active), d \notin Resumed(paused, active),
           NEW n \in Nat, d <= n
    PROVE  Cardinality(TakenBefore(n, paused, active)) >= Quota - Cardinality(active)
  <1> DEFINE D == Distinct(paused, active)
             k == Quota - Cardinality(active)
             below(t) == {s \in D : s < t}
             R == Resumed(paused, active)
             refused == {t \in D : ~(Cardinality(below(t)) < k)}
  <1>1. D \in SUBSET TrackerId /\ D \in SUBSET Nat /\ refused \in SUBSET Nat
    <2>1. D \in SUBSET TrackerId
      BY ResumedPaused
    <2>2. TrackerId \in SUBSET Nat
      BY DEF TrackerId
    <2> QED  BY <2>1, <2>2
  <1>2. R = {t \in D : Cardinality(below(t)) < k}
    BY DEF Resumed
  <1>3. d \in refused
    BY <1>2
  <1>4. PICK m \in refused : \A y \in refused : m <= y
    <2> HIDE DEF refused, D
    <2> QED  BY <1>1, <1>3, LeastNumber
  <1>5. m \in D /\ ~(Cardinality(below(m)) < k) /\ m <= d
    BY <1>3, <1>4
  <1>6. below(m) \subseteq TakenBefore(n, paused, active)
    <2> SUFFICES ASSUME NEW s \in D, s < m
                 PROVE  s \in R /\ s < n
      BY DEF TakenBefore
    <2>1. s \in Nat /\ m \in Nat /\ d \in Nat
      BY <1>1, <1>5
    <2>2. ~(m <= s)
      BY <2>1
    <2>3. s \notin refused
      <3> HIDE DEF refused
      <3> QED  BY <1>4, <2>2
    <2>4. s \in R
      BY <1>2, <2>3
    <2> QED  BY <1>5, <2>1, <2>4
  <1>7. /\ IsFiniteSet(TakenBefore(n, paused, active))
        /\ Cardinality(TakenBefore(n, paused, active)) \in Nat
    <2>1. TakenBefore(n, paused, active) \in SUBSET TrackerId
      BY <1>1, ResumedPaused DEF TakenBefore
    <2> QED  BY <2>1, IdsFinite
  <1>8. Cardinality(below(m)) \in Nat /\ k \in Int
    <2>1. below(m) \in SUBSET TrackerId
      BY <1>1
    <2> HIDE DEF below
    <2> QED  BY <2>1, IdsFinite, QuotaAssumption
  <1>9. Cardinality(below(m)) <= Cardinality(TakenBefore(n, paused, active))
    <2> HIDE DEF below
    <2> QED  BY <1>6, <1>7, FS_Subset
  <1> HIDE DEF below, k
  <1>10. Cardinality(TakenBefore(n, paused, active)) >= k
    BY <1>5, <1>7, <1>8, <1>9
  <1> QED  BY <1>10 DEF k

\* A turn of the loop takes row n exactly if Resumed has it.
LEMMA TurnTakes ==
    ASSUME NEW paused \in SUBSET TrackerId, NEW active \in SUBSET TrackerId, NEW n \in Nat
    PROVE  TakeTurn(TakenBefore(n, paused, active), n, paused, active)
             = TakenBefore(n + 1, paused, active)
  <1> DEFINE D == Distinct(paused, active)
             R == Resumed(paused, active)
             taken == TakenBefore(n, paused, active)
             k == Quota - Cardinality(active)
             below(t) == {s \in D : s < t}
  <1>1. R \subseteq D /\ D \subseteq paused /\ paused \subseteq Nat /\ D \in SUBSET TrackerId
    <2>1. R \subseteq D /\ D \subseteq paused
      BY ResumedPaused
    <2>2. TrackerId \in SUBSET Nat
      BY DEF TrackerId
    <2> QED  BY <2>1, <2>2
  <1>2. TakenBefore(n + 1, paused, active) = IF n \in R THEN taken \cup {n} ELSE taken
    <2>1. \A t \in Nat : t < n + 1 <=> t < n \/ t = n
      OBVIOUS
    <2>4. R \in SUBSET Nat
      BY <1>1
    <2> HIDE DEF R
    <2>2. CASE n \in R
      BY <2>1, <2>2, <2>4 DEF TakenBefore, R
    <2>3. CASE n \notin R
      BY <2>1, <2>3, <2>4 DEF TakenBefore, R
    <2> QED  BY <2>2, <2>3
  <1>3. taken \subseteq R /\ taken \in SUBSET TrackerId /\ \A t \in taken : t < n
    BY <1>1 DEF TakenBefore
  <1>4. Cardinality(taken) \in Nat /\ Cardinality(active) \in Nat /\ k \in Int
    <2> HIDE DEF taken
    <2> QED  BY <1>3, IdsFinite, QuotaAssumption
  <1>5. CASE n \notin paused
    BY <1>1, <1>2, <1>5 DEF TakeTurn
  <1>6. CASE n \in R
    <2>1. n \in D /\ Cardinality(below(n)) < k
      BY <1>6 DEF Resumed
    <2>2. Cardinality(taken) <= Cardinality(below(n)) /\ Cardinality(below(n)) \in Nat
      <3>1. below(n) \in SUBSET TrackerId /\ taken \subseteq below(n)
        BY <1>1, <1>3
      <3> HIDE DEF below, taken
      <3> QED  BY <3>1, IdsFinite, FS_Subset
    <2>3. ~(Cardinality(taken) >= k)
      <3> HIDE DEF below, taken, k
      <3> QED  BY <1>4, <2>1, <2>2
    <2>4. tracker[n].identity \notin IdentitiesOf(active \cup taken)
      <3> SUFFICES ASSUME NEW s \in active \cup taken
                   PROVE  tracker[s].identity # tracker[n].identity
        BY DEF IdentitiesOf
      <3>1. CASE s \in active
        BY <2>1, <3>1 DEF Distinct, IdentitiesOf
      <3>2. CASE s \in taken
        <4>1. s \in paused /\ s < n
          BY <1>1, <1>3, <3>2
        <4> QED  BY <2>1, <4>1 DEF Distinct
      <3> QED  BY <3>1, <3>2
    <2>5. n \in paused
      BY <1>1, <1>6
    <2>6. TakeTurn(taken, n, paused, active) = taken \cup {n}
      <3> HIDE DEF taken
      <3> QED  BY <2>3, <2>4, <2>5 DEF TakeTurn
    <2> QED  BY <1>2, <1>6, <2>6
  <1>7. CASE n \in paused /\ n \notin R
    <2> SUFFICES \/ Cardinality(taken) >= k
                 \/ tracker[n].identity \in IdentitiesOf(active \cup taken)
      <3>1. TakeTurn(taken, n, paused, active) = taken
        <4> HIDE DEF taken
        <4> QED  BY DEF TakeTurn
      <3> QED  BY <1>2, <1>7, <3>1
    <2>1. CASE n \in D
      <3>1. n <= n
        OBVIOUS
      <3> QED  BY <1>7, <2>1, <3>1, FullOnceRefused
    <2>2. CASE tracker[n].identity \in IdentitiesOf(active)
      BY <2>2 DEF IdentitiesOf
    <2>3. CASE n \notin D /\ tracker[n].identity \notin IdentitiesOf(active)
      <3> DEFINE twins == {s \in paused : s < n /\ tracker[s].identity = tracker[n].identity}
      <3>1. twins # {} /\ twins \in SUBSET Nat
        BY <1>1, <1>7, <2>3 DEF Distinct
      <3>2. PICK s \in twins : \A y \in twins : s <= y
        <4> HIDE DEF twins
        <4> QED  BY <3>1, LeastNumber
      <3>3. s \in paused /\ s < n /\ s \in Nat /\ tracker[s].identity = tracker[n].identity
        BY <3>1, <3>2
      <3>4. s \in D
        <4> SUFFICES ASSUME NEW y \in paused, y < s
                     PROVE  tracker[y].identity # tracker[s].identity
          BY <2>3, <3>3 DEF Distinct
        <4>1. y \in Nat /\ ~(s <= y) /\ y < n
          BY <1>1, <3>3
        <4>2. y \notin twins
          <5> HIDE DEF twins
          <5> QED  BY <3>2, <4>1
        <4> QED  BY <3>3, <4>1, <4>2
      <3>5. CASE s \in R
        <4>1. s \in taken
          BY <3>3, <3>5 DEF TakenBefore
        <4> QED  BY <3>3, <4>1 DEF IdentitiesOf
      <3>6. CASE s \notin R
        <4>1. s <= n
          BY <3>3
        <4> QED  BY <3>4, <3>6, <4>1, FullOnceRefused
      <3> QED  BY <3>5, <3>6
    <2> QED  BY <2>1, <2>2, <2>3
  <1> QED  BY <1>1, <1>5, <1>6, <1>7

\* The recursive function of ResumeLoop has a solution, and only one.
LEMMA LoopTakes ==
    ASSUME NEW paused \in SUBSET TrackerId, NEW active \in SUBSET TrackerId
    PROVE  ResumeLoop(paused, active) = Resumed(paused, active)
  <1> DEFINE Solves(f) == f = [t \in Nat |->
                 IF t = 0 THEN {} ELSE TakeTurn(f[t - 1], t, paused, active)]
             g == [t \in Nat |-> TakenBefore(t + 1, paused, active)]
             after == CHOOSE f : Solves(f)
  <1>1. Resumed(paused, active) \subseteq 1 .. MaxTracker /\ MaxTracker \in Nat
    BY ResumedPaused, MaxTrackerAssumption DEF TrackerId
  <1>2. g[0] = {}
    BY <1>1 DEF TakenBefore
  <1>3. ASSUME NEW t \in Nat, t # 0
        PROVE  g[t] = TakeTurn(g[t - 1], t, paused, active)
    <2>1. t - 1 \in Nat /\ (t - 1) + 1 = t
      BY <1>3
    <2>2. g[t - 1] = TakenBefore(t, paused, active) /\ g[t] = TakenBefore(t + 1, paused, active)
      BY <2>1
    <2> HIDE DEF g
    <2> QED  BY <2>2, TurnTakes
  <1>4. Solves(g)
    <2>1. g = [t \in Nat |-> g[t]]
      OBVIOUS
    <2> HIDE DEF g
    <2>2. [t \in Nat |-> g[t]] =
            [t \in Nat |-> IF t = 0 THEN {} ELSE TakeTurn(g[t - 1], t, paused, active)]
      BY <1>2, <1>3
    <2> QED  BY <2>1, <2>2
  <1>5. Solves(after)
    <2> HIDE DEF Solves, g
    <2> QED  BY <1>4
  <1>6. ResumeLoop(paused, active) = after[MaxTracker]
    BY DEF ResumeLoop
  <1> HIDE DEF after
  <1>7. after[0] = {} /\ \A t \in Nat : t # 0 => after[t] = TakeTurn(after[t - 1], t, paused, active)
    BY <1>5
  <1> HIDE DEF Solves, g
  <1>8. \A t \in Nat : after[t] = g[t]
    <2> DEFINE wrong == {t \in Nat : after[t] # g[t]}
    <2> SUFFICES ASSUME wrong # {} PROVE FALSE
      OBVIOUS
    <2>1. PICK t \in wrong : \A y \in wrong : t <= y
      <3>1. wrong \in SUBSET Nat
        OBVIOUS
      <3> HIDE DEF wrong
      <3> QED  BY <3>1, LeastNumber
    <2>2. t \in Nat /\ after[t] # g[t]
      OBVIOUS
    <2>3. t # 0
      BY <1>2, <1>7, <2>2
    <2>4. t - 1 \in Nat /\ ~(t <= t - 1)
      BY <2>2, <2>3
    <2>5. t - 1 \notin wrong
      <3> HIDE DEF wrong
      <3> QED  BY <2>1, <2>4
    <2>6. after[t - 1] = g[t - 1]
      BY <2>4, <2>5
    <2>7. after[t] = TakeTurn(after[t - 1], t, paused, active)
      BY <1>7, <2>2, <2>3
    <2>8. g[t] = TakeTurn(g[t - 1], t, paused, active)
      BY <1>3, <2>2, <2>3
    <2> QED  BY <2>2, <2>6, <2>7, <2>8
  <1>9. g[MaxTracker] = TakenBefore(MaxTracker + 1, paused, active)
    BY <1>1 DEF g
  <1>10. TakenBefore(MaxTracker + 1, paused, active) = Resumed(paused, active)
    <2>1. \A t \in Resumed(paused, active) : t < MaxTracker + 1
      BY <1>1
    <2> QED  BY <2>1 DEF TakenBefore
  <1> QED  BY <1>1, <1>6, <1>8, <1>9, <1>10

\* /start resumes exactly the rows that the loop of resume_paused_trackers takes,
\* for every quota and every number of rows.
THEOREM ResumesAsTheLoop == Spec => []ResumeMatchesLoop
  <1>1. IInv => ResumeMatchesLoop
    <2> SUFFICES ASSUME IInv, NEW r \in Request
                 PROVE  Resumed(request[r].paused, request[r].seen) =
                          ResumeLoop(request[r].paused, request[r].seen)
      BY DEF ResumeMatchesLoop
    <2>1. request[r].paused \in SUBSET TrackerId /\ request[r].seen \in SUBSET TrackerId
      BY DEF IInv, TypeInv, TypeOK, RequestState
    <2> QED  BY <2>1, LoopTakes
  <1> QED  BY <1>1, Invariance, PTL

===============================================================================
