\* Two lots of two queries, which nobody touches, and time for one search per refresh.
CONSTANTS
    Request = {r1}
    Ad = {a1, a2}
    Query = {q1, q2}
    Search = {}
    Early = {"new"}
    Late = {}
    New = "new"
    Note = "note"
    MaxWatch = 2
    MaxSaved = 0
    PageSize = 2
    Concurrency = 1
    Budget = 1
    Least = 1
    Grace = 0
SPECIFICATION QuietSpec
PROPERTY
    SkippedAreReached
CHECK_DEADLOCK FALSE
