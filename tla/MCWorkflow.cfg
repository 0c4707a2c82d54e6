\* Two requests, two lots of one query, one search at a time.
CONSTANTS
    Request = {r1, r2}
    Ad = {a1, a2}
    Query = {q1}
    Search = {s1, s2}
    Early = {"new", "deferred"}
    Late = {"bought"}
    New = "new"
    Note = "note"
    MaxWatch = 1
    MaxSaved = 1
    PageSize = 2
    Concurrency = 1
    Budget = 1
    Least = 1
    Grace = 1
SPECIFICATION Spec
SYMMETRY Symmetry
INVARIANTS
    QuotasKept
    UserStatusKept
PROPERTIES
    MissingIsGone
CHECK_DEADLOCK FALSE
