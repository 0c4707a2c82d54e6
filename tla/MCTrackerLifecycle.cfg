\* One user, two handlers, three rows: creates, deletions, /start and the
\* collector interleave on one `users` row, with the quota in reach.
CONSTANTS
    User = {u1}
    Identity = {i1, i2, i3}
    Request = {r1, r2}
    Quota = 2
    MaxTracker = 3
    NoRow = NoRow
    NoRequest = NoRequest
    NoUser = NoUser
SPECIFICATION Spec
SYMMETRY Symmetry
INVARIANTS
    ActiveWithinQuota
    ActiveIdentitiesDistinct
    SnapshotCoversActive
    ResumeMatchesLoop
PROPERTY
    ActivatedIsUnchecked
