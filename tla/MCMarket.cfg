\* Up to five listings in a first sample, two in those that follow.
CONSTANTS
    Variant = {"pro", "max"}
    Number = {"7", "128"}
    Filler = {"new"}
    MaxPrice = 20
    MinPrices = 3
    MaxListings = 2
    BoardSample = 2
    Id = {1, 2, 3, 4, 5}
    Arrival <- MCArrival
    Tracker = {"bargains", "demanding"}
    Filter <- MCFilter
    MinDrop = 3
    MinPercent = 40
    MaxEvents = 1
    MaxNamed = 1
    SyncSample = 2
    MaxSample = 5
    MaxQuiet = 3
    Query <- MCQuery
    Asked = {0, 500, 800, 3000}
    MaxPending = 2
SPECIFICATION Spec
INVARIANTS
    ActiveIsLatest
    SilentFallBounded
    AlertMatchesInbox
    SnapshotIsFullest
    PlaceholdersAgree
    DealsAgree
    RepostsHidden
    PageKeepsBest
CHECK_DEADLOCK FALSE
