\* Three requests through two slots, with a queue of two.
CONSTANTS
    Request = {r1, r2, r3}
    MaxInFlight = 2
    MaxWaiting = 2
    Delay = 1
    MaxRetries = 2
    MaxPause = 2
    MaxCancel = 1
SPECIFICATION FairSpec
INVARIANTS
    CountersExact
    BurstBounded
PROPERTIES
    NoStartInPause
    SearchesEnd
