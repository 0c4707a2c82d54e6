\* Up to seven listings on pages of two, of which a regular check fetches three at most
\* and a deep scan or a search four; a listing comes or goes during the fetch.
CONSTANTS
    MaxTime = 7
    PageSize = 2
    MaxPages = 3
    DeepPages = 4
    MaxMoves = 1
    SearchPageLimit = 4
SPECIFICATION SearchSpec
INVARIANTS
    WindowIsComplete
    SilentAreOld
    CompleteUnlessTruncated
CHECK_DEADLOCK FALSE
