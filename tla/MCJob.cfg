\* Runs every four minutes, a minute late at most; deep scans every ten.  Two users,
\* four alerts per run; the circuit opens after two lost alerts.
CONSTANTS
    Tracker = {t1, t2}
    Interval = {3, 5, 6, 9, 10}
    AnyInterval = 3
    Check = 4
    MaxLate = 1
    Window = 10
    Shift = 3
    MaxRun = 7
    User = {u1, u2}
    MaxSendAttempts = 3
    MaxFailures = 2
    MaxAlert = 4
SPECIFICATION FairJobSpec
INVARIANTS
    ShownIntervalIsWanted
    BackoffBounded
    RefusedOncePerRun
    CircuitOpensLate
PROPERTIES
    CadenceKept
    DeepOncePerWindow
    GroupIsSent
