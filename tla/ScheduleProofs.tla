--------------------------- MODULE ScheduleProofs ---------------------------
(***************************************************************************)
(* The cadence of checks and of deep scans, for any interval of the job,   *)
(* any intervals of trackers and any late runs within the slack.           *)
(***************************************************************************)
EXTENDS Schedule, TLAPS

USE IntervalAssumption, CheckAssumption, WindowAssumption, MaxRunAssumption, MaxLateAssumption

-----------------------------------------------------------------------------
(* Arithmetic. *)

\* What \div computes, for a divisor that is not a number of the text.
LEMMA Quotient ==
  ASSUME NEW a \in Nat, NEW b \in Nat \ {0}
  PROVE  a \div b \in Nat /\ b * (a \div b) <= a /\ a < b * (a \div b) + b
  OBVIOUS

LEMMA Multiples ==
  ASSUME NEW j \in Int, NEW k \in Int, NEW c \in Nat, j < k
  PROVE  j * c \in Int /\ k * c \in Int /\ j * c + c <= k * c
  <1>1. (k - j - 1) * c >= 0
    OBVIOUS
  <1>2. (k - j - 1) * c = k * c - j * c - c
    OBVIOUS
  <1> QED  BY <1>1, <1>2

\* A run that is late by less than a turn belongs to its turn.
LEMMA TurnOf ==
  ASSUME NEW k \in Nat, NEW late \in Nat, late < Check
  PROVE  (k * Check + late) \div Check = k
  <1> DEFINE q == (k * Check + late) \div Check
  <1>1. k * Check + late \in Nat
    OBVIOUS
  <1>2. q \in Nat /\ Check * q <= k * Check + late /\ k * Check + late < Check * q + Check
    BY <1>1, Quotient
  <1> HIDE DEF q
  <1>3. Check * q = q * Check
    BY <1>2
  <1>4. CASE q < k
    BY <1>2, <1>3, <1>4, Multiples
  <1>5. CASE k < q
    BY <1>2, <1>3, <1>5, Multiples
  <1> QED  BY <1>2, <1>4, <1>5 DEF q

LEMMA WindowsGrow ==
  ASSUME NEW a \in Nat, NEW b \in Nat, a <= b
  PROVE  WindowOf(a) \in Nat /\ WindowOf(b) \in Nat /\ WindowOf(a) <= WindowOf(b)
  <1> DEFINE p == WindowOf(a)
             q == WindowOf(b)
  <1>1. a + Shift \in Nat /\ b + Shift \in Nat
    OBVIOUS
  <1>2. p \in Nat /\ Window * p <= a + Shift /\ q \in Nat /\ b + Shift < Window * q + Window
    BY <1>1, Quotient DEF WindowOf
  <1> HIDE DEF p, q
  <1>3. CASE q < p
    <2>1. q * Window + Window <= p * Window
      BY <1>2, <1>3, Multiples
    <2>2. Window * p = p * Window /\ Window * q = q * Window
      BY <1>2
    <2> QED  BY <1>2, <2>1, <2>2
  <1> QED  BY <1>2, <1>3 DEF p, q

-----------------------------------------------------------------------------
(* The interval that rounded_interval_min shows. *)

Nearest(i) == LET multiple == (2 * i + Check) \div (2 * Check)
              IN  IF multiple < 1 THEN 1 ELSE multiple

\* Within half of Check of the interval, or the shortest there is.
LEMMA NearestBounds ==
  ASSUME NEW i \in Nat \ {0}
  PROVE  /\ Nearest(i) \in 1 .. i + 1
         /\ 2 * i < 2 * (Nearest(i) * Check) + Check
         /\ Nearest(i) = 1 \/ 2 * (Nearest(i) * Check) <= 2 * i + Check
         /\ i <= Check => Nearest(i) = 1
  <1> DEFINE q == (2 * i + Check) \div (2 * Check)
  <1>1. /\ q \in Nat /\ (2 * Check) * q <= 2 * i + Check
        /\ 2 * i + Check < (2 * Check) * q + 2 * Check
    <2>1. 2 * i + Check \in Nat /\ 2 * Check \in Nat \ {0}
      OBVIOUS
    <2> QED  BY <2>1, Quotient
  <1>2. Nearest(i) = IF q < 1 THEN 1 ELSE q
    BY DEF Nearest
  <1> HIDE DEF q
  <1>3. (2 * Check) * q = 2 * (q * Check)
    BY <1>1
  <1>4. i + 1 < q => (i + 1) * Check + Check <= q * Check
    BY <1>1, Multiples
  <1>5. (i + 1) * Check >= i + 1
    OBVIOUS
  <1>6. q <= i + 1
    BY <1>1, <1>3, <1>4, <1>5
  <1>7. 1 < q => 1 * Check + Check <= q * Check
    BY <1>1, Multiples
  <1>8. i <= Check => q <= 1
    BY <1>1, <1>3, <1>7
  <1> QED  BY <1>1, <1>2, <1>3, <1>6, <1>8

\* The code's rounding finds the multiple of Check that is nearest to the interval.
LEMMA NearestIsWanted ==
  ASSUME NEW i \in Nat \ {0}
  PROVE  WantedTurns(i) = Nearest(i)
  <1> DEFINE m == Nearest(i)
             Better(j, k) == \/ Distance(j, i) < Distance(k, i)
                             \/ Distance(j, i) = Distance(k, i) /\ j >= k
  <1>1. \A k \in Int : Distance(k, i) \in Nat
    BY DEF Distance
  <1>2. /\ m \in 1 .. i + 1 /\ 2 * i < 2 * (m * Check) + Check
        /\ m = 1 \/ 2 * (m * Check) <= 2 * i + Check
    BY NearestBounds
  <1> HIDE DEF m
  <1>3. ASSUME NEW k \in 1 .. i + 1  PROVE Better(m, k)
    <2>1. k * Check \in Nat /\ m * Check \in Nat
      BY <1>2
    <2>2. CASE k = m
      BY <1>1, <1>2, <2>2
    <2>3. CASE k > m
      <3>1. m * Check + Check <= k * Check
        BY <1>2, <2>3, Multiples
      <3>2. CASE m * Check > i
        BY <1>2, <2>1, <3>1, <3>2 DEF Distance
      <3>3. CASE ~(m * Check > i)
        BY <1>2, <2>1, <3>1, <3>3 DEF Distance
      <3> QED  BY <3>2, <3>3
    <2>4. CASE k < m
      <3>1. k * Check + Check <= m * Check /\ m # 1
        BY <1>2, <2>4, Multiples
      <3>2. 2 * (k * Check) + Check <= 2 * i
        BY <1>2, <2>1, <3>1
      <3>3. Distance(k, i) = i - k * Check
        BY <2>1, <3>2 DEF Distance
      <3>4. Distance(m, i) <= i - k * Check
        BY <1>2, <2>1, <3>1, <3>2 DEF Distance
      <3> QED  BY <1>1, <1>2, <2>4, <3>3, <3>4
    <2> QED  BY <1>2, <2>2, <2>3, <2>4
  <1>4. ASSUME NEW j \in 1 .. i + 1, \A k \in 1 .. i + 1 : Better(j, k)  PROVE j = m
    BY <1>1, <1>2, <1>3, <1>4
  <1>5. WantedTurns(i) = CHOOSE j \in 1 .. i + 1 : \A k \in 1 .. i + 1 : Better(j, k)
    BY DEF WantedTurns
  <1> HIDE DEF Better
  <1> QED  BY <1>2, <1>3, <1>4, <1>5 DEF m

LEMMA RoundingIsNearest ==
  ASSUME NEW i \in Nat \ {0}
  PROVE  RoundedInterval(i) = WantedTurns(i) * Check
  BY NearestIsWanted DEF RoundedInterval, Nearest

-----------------------------------------------------------------------------
(* The clock. *)

\* A moment at which a run started, in a turn that has been.
Started(moment, upto) ==
    \E k \in 0 .. upto, late \in 0 .. MaxLate : moment = k * Check + late

\* All trackers of the key that were checked were checked by the same run, whose
\* window is the latest that the key was checked in.
ClockInv ==
    /\ Started(now, turn)
    /\ \A t \in Tracker : last[t] # Never => Started(last[t], turn)
    /\ \A s, t \in CheckedBefore : last[s] = last[t]
    /\ \A t \in CheckedBefore : WindowOf(last[t]) \in visited
    /\ \A t \in CheckedBefore : \A w \in visited : w <= WindowOf(last[t])
    /\ \A w \in visited : w <= WindowOf(now)

IInv == TypeOK /\ ClockInv

\* Time goes on from turn to turn.
LEMMA StartedLater ==
  ASSUME NEW n \in Nat, NEW moment, Started(moment, n), NEW late \in 0 .. MaxLate
  PROVE  /\ moment \in Nat /\ Started(moment, n + 1)
         /\ (n + 1) * Check + late \in Nat /\ Started((n + 1) * Check + late, n + 1)
         /\ moment < (n + 1) * Check + late
  <1>1. PICK k \in 0 .. n, l \in 0 .. MaxLate : moment = k * Check + l
    BY DEF Started
  <1>2. k * Check \in Nat /\ (n + 1) * Check \in Nat /\ k * Check + Check <= (n + 1) * Check
    BY Multiples
  <1>3. Started(moment, n + 1)
    BY <1>1 DEF Started
  <1>4. Started((n + 1) * Check + late, n + 1)
    BY DEF Started
  <1> QED  BY <1>1, <1>2, <1>3, <1>4

\* What every start of a run does to the clock.
LEMMA Starting ==
  ASSUME IInv, NEW late \in 0 .. MaxLate, Starts(late)
  PROVE  /\ turn' = turn + 1 /\ turn' \in 0 .. MaxRun /\ turn \in Nat
         /\ now' = turn' * Check + late /\ now' \in 0 .. MaxRun * Check + MaxLate
         /\ Started(now', turn') /\ now < now' /\ now \in Nat
         /\ \A t \in Tracker : last[t] # Never =>
                /\ last[t] \in Nat /\ last[t] <= now /\ last[t] < now' /\ Started(last[t], turn')
         /\ WindowOf(now) \in Nat /\ WindowOf(now') \in Nat /\ WindowOf(now) <= WindowOf(now')
  <1>1. /\ turn \in Nat /\ turn' = turn + 1 /\ turn' <= MaxRun /\ now' = turn' * Check + late
        /\ now \in Nat /\ \A t \in Tracker : last[t] # Never => last[t] \in 0 .. now
    BY DEF IInv, TypeOK, Starts
  <1>2. now' \in Nat /\ Started(now', turn') /\ now < now'
    BY <1>1, StartedLater DEF IInv, ClockInv
  <1>3. ASSUME NEW t \in Tracker, last[t] # Never
        PROVE  last[t] \in Nat /\ last[t] <= now /\ last[t] < now' /\ Started(last[t], turn')
    BY <1>1, <1>3, StartedLater DEF IInv, ClockInv
  <1>4. turn' * Check <= MaxRun * Check
    BY <1>1, Multiples
  <1>5. now' <= MaxRun * Check + MaxLate
    BY <1>1, <1>4
  <1> QED  BY <1>1, <1>2, <1>3, <1>5, WindowsGrow

LEMMA StartKeeps ==
  ASSUME IInv, NEW late \in 0 .. MaxLate, Checks(late) \/ Fails(late) \/ Skips(late)
  PROVE  IInv'
  <1>1. Starts(late)
    BY DEF Checks, Fails, Skips
  <1>2. /\ turn' = turn + 1 /\ turn' \in 0 .. MaxRun /\ turn \in Nat
        /\ now' \in 0 .. MaxRun * Check + MaxLate
        /\ Started(now', turn') /\ now < now' /\ now \in Nat
        /\ \A t \in Tracker : last[t] # Never =>
               /\ last[t] \in Nat /\ last[t] <= now /\ last[t] < now' /\ Started(last[t], turn')
        /\ WindowOf(now) \in Nat /\ WindowOf(now') \in Nat /\ WindowOf(now) <= WindowOf(now')
    BY <1>1, Starting
  <1>3. /\ last \in [Tracker -> {Never} \cup 0 .. now] /\ active \subseteq Tracker
        /\ interval \in [Tracker -> Interval] /\ deep' \in BOOLEAN /\ known' \in BOOLEAN
        /\ UNCHANGED <<interval, active>>
    BY DEF IInv, TypeOK, Checks, Fails, Skips, DeepScanIsDue
  <1>4. \A w \in visited : w \in Nat /\ w <= WindowOf(now)
    BY DEF IInv, TypeOK, ClockInv
  <1>5. CASE Checks(late)
    <2>1. /\ last' = [t \in Tracker |-> IF t \in active THEN now' ELSE last[t]]
          /\ visited' = visited \cup {WindowOf(now')}
      BY <1>5 DEF Checks
    <2>2. \A t \in Tracker : last'[t] = IF t \in active THEN now' ELSE last[t]
      BY <2>1
    <2>3. \A w \in visited' : w \in Nat /\ w <= WindowOf(now')
      BY <1>2, <1>4, <2>1
    <2>4. \A t \in CheckedBefore' : last'[t] = now'
      BY <1>3, <2>2 DEF CheckedBefore
    <2>5. ClockInv'
      <3>1. \A t \in Tracker : last'[t] # Never => Started(last'[t], turn')
        BY <1>2, <2>2
      <3>2. \A t \in CheckedBefore' : WindowOf(last'[t]) \in visited'
        BY <2>1, <2>4
      <3>3. \A t \in CheckedBefore' : \A w \in visited' : w <= WindowOf(last'[t])
        BY <2>3, <2>4
      <3>4. /\ Started(now, turn)' /\ \A t \in Tracker : Started(last[t], turn)' <=> Started(last'[t], turn')
            /\ \A t \in Tracker : WindowOf(last[t])' = WindowOf(last'[t])
            /\ WindowOf(now)' = WindowOf(now') /\ CheckedBefore' \subseteq Tracker
        BY <1>2, <1>3 DEF Started, WindowOf, CheckedBefore
      <3> QED  BY <2>3, <2>4, <3>1, <3>2, <3>3, <3>4 DEF ClockInv
    <2>6. last' \in [Tracker -> {Never} \cup 0 .. now']
      BY <1>2, <1>3, <2>1
    <2>7. visited' \subseteq 0 .. (now' + Shift) \div Window
      BY <1>2, <2>3 DEF WindowOf
    <2> QED  BY <1>2, <1>3, <2>5, <2>6, <2>7 DEF IInv, TypeOK
  <1>6. CASE Fails(late) \/ Skips(late)
    <2>1. UNCHANGED <<last, active, visited>>
      BY <1>6 DEF Fails, Skips
    <2>2. CheckedBefore' = CheckedBefore
      BY <2>1 DEF CheckedBefore
    <2>3. \A w \in visited' : w \in Nat /\ w <= WindowOf(now')
      BY <1>2, <1>4, <2>1
    <2>4. ClockInv'
      BY <1>2, <2>1, <2>2, <2>3 DEF ClockInv, IInv
    <2>5. last' \in [Tracker -> {Never} \cup 0 .. now']
      BY <1>2, <1>3, <2>1
    <2>6. visited' \subseteq 0 .. (now' + Shift) \div Window
      BY <1>2, <2>3 DEF WindowOf
    <2> QED  BY <1>2, <1>3, <2>4, <2>5, <2>6 DEF IInv, TypeOK
  <1> QED  BY <1>5, <1>6

\* A tracker that comes or goes was not checked, or takes its check with it.
LEMMA TrackKeeps ==
  ASSUME IInv, NEW t \in Tracker, Track(t) \/ Untrack(t)
  PROVE  IInv'
  <1>1. /\ UNCHANGED <<turn, now, interval, known, deep, visited>>
        /\ last' = [last EXCEPT ![t] = Never] \/ last' = last
        /\ active' \subseteq Tracker
    BY DEF Track, Untrack, IInv, TypeOK
  <1>2. TypeOK'
    BY <1>1 DEF IInv, TypeOK
  <1>3. ASSUME NEW s \in CheckedBefore'  PROVE s \in CheckedBefore /\ last'[s] = last[s]
    BY <1>3 DEF Track, Untrack, CheckedBefore, IInv, TypeOK
  <1>4. \A s \in Tracker : last'[s] # Never => last'[s] = last[s]
    BY <1>1 DEF IInv, TypeOK
  <1>5. ClockInv'
    BY <1>1, <1>3, <1>4 DEF IInv, ClockInv
  <1> QED  BY <1>2, <1>5 DEF IInv

LEMMA NoRunKeeps ==
  ASSUME IInv, NoRun
  PROVE  IInv'
  <1>1. /\ turn \in Nat /\ turn' = turn + 1 /\ turn' \in 0 .. MaxRun
        /\ UNCHANGED <<now, interval, last, active, known, deep, visited>>
    BY DEF NoRun, IInv, TypeOK
  <1>2. \A moment : Started(moment, turn) => Started(moment, turn')
    BY <1>1 DEF Started
  <1> QED  BY <1>1, <1>2 DEF IInv, TypeOK, ClockInv, CheckedBefore

LEMMA ForgetKeeps ==
  ASSUME IInv, Forget
  PROVE  IInv'
  <1>1. known' = FALSE /\ UNCHANGED <<turn, now, interval, last, active, deep, visited>>
    BY DEF Forget
  <1>2. CheckedBefore' = CheckedBefore
    BY <1>1 DEF CheckedBefore
  <1>3. ClockInv'
    BY <1>1, <1>2 DEF IInv, ClockInv, Started, WindowOf
  <1> QED  BY <1>1, <1>3 DEF IInv, TypeOK

LEMMA Invariance == Spec => []IInv
  <1>1. Init => IInv
    <2> SUFFICES ASSUME Init PROVE IInv
      OBVIOUS
    <2>1. Started(0, 0)
      <3>1. 0 = 0 * Check + 0
        OBVIOUS
      <3> QED  BY <3>1 DEF Started
    <2>2. 0 \in 0 .. MaxRun * Check + MaxLate
      BY Multiples
    <2>3. TypeOK
      <3>1. last \in [Tracker -> {Never} \cup 0 .. now]
        BY DEF Init
      <3>2. turn \in 0 .. MaxRun /\ now \in 0 .. MaxRun * Check + MaxLate
        BY <2>2 DEF Init
      <3> QED  BY <3>1, <3>2 DEF Init, TypeOK
    <2>4. Started(now, turn) /\ CheckedBefore = {} /\ \A t \in Tracker : last[t] = Never
      BY <2>1 DEF Init, CheckedBefore
    <2> QED  BY <2>3, <2>4 DEF Init, IInv, ClockInv
  <1>2. IInv /\ [Next]_vars => IInv'
    <2> SUFFICES ASSUME IInv, [Next]_vars PROVE IInv'
      OBVIOUS
    <2>1. CASE UNCHANGED vars
      BY <2>1 DEF vars, IInv, TypeOK, ClockInv, CheckedBefore, Started
    <2> QED  BY <2>1, StartKeeps, TrackKeeps, NoRunKeeps, ForgetKeeps DEF Next
  <1> QED  BY <1>1, <1>2, PTL DEF Spec

\* The interval that the Mini App shows for a tracker is the interval it is checked in:
\* the nearest multiple of the job's own.
THEOREM ShownIntervals == Spec => []ShownIntervalIsWanted
  <1>1. ASSUME NEW i \in Nat \ {0}  PROVE RealCheckInterval(i) = WantedTurns(i) * Check
    <2>1. i <= Check => WantedTurns(i) * Check = Check
      BY NearestBounds, NearestIsWanted
    <2> QED  BY <2>1, RoundingIsNearest DEF RealCheckInterval
  <1>2. IInv => ShownIntervalIsWanted
    BY <1>1 DEF IInv, TypeOK, ShownIntervalIsWanted
  <1> QED  BY <1>2, Invariance, PTL

-----------------------------------------------------------------------------
(* The cadence. *)

\* The slack of half of Check makes up for any two late runs.
LEMMA SlackIsEnough ==
  ASSUME NEW k \in Int, NEW n \in Int, NEW m \in Int,
         NEW l \in 0 .. MaxLate, NEW late \in 0 .. MaxLate
  PROVE  2 * (n * Check + late - (k * Check + l)) >= 2 * (m * Check) - Check
             <=> n - k >= m
  <1> DEFINE d == n - k - m
  <1>1. n * Check - k * Check - m * Check = d * Check
    OBVIOUS
  <1>2. n * Check \in Int /\ k * Check \in Int /\ m * Check \in Int /\ d * Check \in Int
    OBVIOUS
  <1>3. d >= 0 => d * Check >= 0
    OBVIOUS
  <1>4. d < 0 => d * Check + Check <= 0 * Check
    BY Multiples
  <1> HIDE DEF d
  <1>5. d \in Int /\ (d >= 0 <=> n - k >= m)
    BY DEF d
  <1> QED  BY <1>1, <1>2, <1>3, <1>4, <1>5

\* A tracker is due in a run exactly when it has waited the turns it wants.
LEMMA DueByTurns ==
  ASSUME IInv, NEW late \in 0 .. MaxLate, Starts(late), NEW t \in active
  PROVE  TrackerIsDue(t, now') <=>
             last[t] = Never \/ TurnsSince(t) >= WantedTurns(interval[t])
  <1>1. t \in Tracker /\ interval[t] \in Nat \ {0}
    BY DEF IInv, TypeOK
  <1>2. turn \in Nat /\ turn' = turn + 1 /\ now' = turn' * Check + late
    BY Starting
  <1>3. CASE last[t] = Never
    BY <1>3 DEF TrackerIsDue
  <1>4. CASE last[t] # Never
    <2>1. PICK k \in 0 .. turn, l \in 0 .. MaxLate : last[t] = k * Check + l
      BY <1>1, <1>4 DEF IInv, ClockInv, Started
    <2>2. TurnsSince(t) = turn' - k
      BY <1>2, <2>1, TurnOf DEF TurnsSince
    <2> DEFINE m == WantedTurns(interval[t])
    <2>3. m \in Nat \ {0} /\ RoundedInterval(interval[t]) = m * Check
      <3>1. RoundedInterval(interval[t]) = m * Check /\ m = Nearest(interval[t])
        BY <1>1, NearestIsWanted, RoundingIsNearest
      <3>2. Nearest(interval[t]) \in 1 .. interval[t] + 1
        BY <1>1, NearestBounds
      <3>3. Nearest(interval[t]) \in Nat \ {0}
        BY <1>1, <3>2
      <3> QED  BY <3>1, <3>3
    <2>4. interval[t] <= Check => m = 1
      BY <1>1, NearestBounds, NearestIsWanted
    <2> HIDE DEF m
    <2>5. 2 * (now' - last[t]) >= 2 * (m * Check) - Check <=> turn' - k >= m
      <3>1. PICK n \in Int : n = turn'
        BY <1>2
      <3>2. 2 * (n * Check + late - (k * Check + l)) >= 2 * (m * Check) - Check <=> n - k >= m
        BY <2>3, SlackIsEnough
      <3> QED  BY <1>2, <2>1, <3>1, <3>2
    <2>6. TrackerIsDue(t, now') <=> interval[t] <= Check \/ turn' - k >= m
      BY <1>4, <2>3, <2>5 DEF TrackerIsDue
    <2>7. interval[t] <= Check => turn' - k >= m
      BY <1>2, <2>1, <2>4
    <2> QED  BY <1>4, <2>2, <2>6, <2>7 DEF m
  <1> QED  BY <1>3, <1>4

\* The steps in which the clock moves are the starts of runs.
LEMMA ClockMoves ==
  ASSUME [Next]_vars, now' # now
  PROVE  \E late \in 0 .. MaxLate :
             Starts(late) /\ (Checks(late) \/ Fails(late) \/ Skips(late))
  BY DEF Next, NoRun, Track, Untrack, Forget, vars, Checks, Fails, Skips

\* The turns in which a key is checked depend on its trackers' intervals alone, and not
\* on which runs were late: no late run costs a tracker a cycle.
THEOREM CadenceHolds == Spec => CadenceKept
  <1>1. IInv /\ [Next]_vars =>
            [now' # now =>
                (GroupIsDue(now') <=>
                 \E t \in active : last[t] = Never \/ TurnsSince(t) >= WantedTurns(interval[t]))]_vars
    BY ClockMoves, DueByTurns DEF GroupIsDue
  <1> QED  BY <1>1, Invariance, PTL DEF Spec, CadenceKept

\* A key's first check in a window is a deep scan, unless none of its trackers was
\* checked before or the key begins with a baseline, and no other check is.
THEOREM DeepScansOncePerWindow == Spec => DeepOncePerWindow
  <1>1. ASSUME IInv, [Next]_vars, now' # now, last' # last
        PROVE  /\ deep' => WindowOf(now') \notin visited
               /\ WindowOf(now') \notin visited /\ CheckedBefore # {} /\ known => deep'
    <2>1. PICK late \in 0 .. MaxLate : Starts(late) /\ Checks(late)
      BY <1>1, ClockMoves DEF Fails, Skips
    <2>2. deep' <=> /\ known /\ CheckedBefore # {}
                    /\ WindowOf(now') # WindowOf(GroupLastChecked)
      BY <2>1 DEF Checks, DeepScanIsDue
    <2>3. CASE CheckedBefore = {}
      BY <2>2, <2>3
    <2>4. CASE CheckedBefore # {}
      <3>1. PICK t \in CheckedBefore : GroupLastChecked = last[t]
        <4>1. PICK s \in CheckedBefore : TRUE
          BY <2>4
        <4>2. \A u \in CheckedBefore : last[u] \in Nat
          BY <1>1, <2>1, Starting DEF CheckedBefore, IInv, TypeOK
        <4>3. \A u \in CheckedBefore : last[u] <= last[s]
          BY <1>1, <4>2 DEF IInv, ClockInv
        <4> QED  BY <4>1, <4>3 DEF GroupLastChecked
      <3>2. /\ last[t] \in Nat /\ last[t] <= now' /\ now' \in Nat
            /\ WindowOf(last[t]) \in visited
            /\ \A w \in visited : w <= WindowOf(last[t])
        <4>1. t \in Tracker /\ last[t] # Never
          BY <1>1, <3>1 DEF CheckedBefore, IInv, TypeOK
        <4>2. last[t] \in Nat /\ last[t] < now' /\ now' \in 0 .. MaxRun * Check + MaxLate
          BY <1>1, <2>1, <4>1, Starting
        <4>3. now' \in Nat
          BY <4>2
        <4> QED  BY <1>1, <3>1, <4>2, <4>3 DEF IInv, ClockInv
      <3>3. /\ WindowOf(last[t]) \in Nat /\ WindowOf(now') \in Nat
            /\ WindowOf(last[t]) <= WindowOf(now')
        BY <3>2, WindowsGrow
      <3>4. WindowOf(now') # WindowOf(last[t]) <=> WindowOf(now') \notin visited
        BY <3>2, <3>3
      <3> QED  BY <2>2, <2>4, <3>1, <3>4
    <2> QED  BY <2>3, <2>4
  <1>2. ASSUME IInv, [Next]_vars
        PROVE  now' # now /\ last' # last =>
                   /\ deep' => WindowOf(now') \notin visited
                   /\ WindowOf(now') \notin visited /\ CheckedBefore # {} /\ known => deep'
    BY <1>1, <1>2
  <1> QED  BY <1>2, Invariance, PTL DEF Spec, DeepOncePerWindow

=============================================================================
