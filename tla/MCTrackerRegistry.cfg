\* Two handlers of one user contend for the `users` row and the quota, beside a
\* bystander with a tracker of their own.
CONSTANTS
    User = {u1, u2}
    Bystander = u2
    Identity = {i1}
    Request = {r1, r2}
    Quota = 1
    MaxTracker = 3
    NoRow = NoRow
    NoRequest = NoRequest
    NoUser = NoUser
SPECIFICATION BesideSpec
PROPERTIES
    RequestsEnd
    ImplementsRegistry
