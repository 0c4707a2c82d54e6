\* A deletion, a pause and a /start of one user overlap.
CONSTANTS
    User = {u1}
    Identity = {i1}
    Request = {r1, r2}
    Quota = 1
    MaxTracker = 1
    NoRow = NoRow
    NoRequest = NoRequest
    NoUser = NoUser
SPECIFICATION Spec
PROPERTY
    DeletedNeverResumed
