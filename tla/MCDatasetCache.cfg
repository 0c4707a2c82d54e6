\* Two requests for three keys; two small datasets fit, a large one does not.
CONSTANTS
    Key = {k1, k2, k3}
    Request = {r1, r2}
    Task = {s1, s2}
    Ttl = 2
    TruncatedTtl = 1
    MaxEntries = 2
    MaxAds = 3
    Payload <- MCPayload
    NoTask = NoTask
SPECIFICATION FairSpec
INVARIANTS
    OneLoadPerKey
    CacheBounded
    AnswersFresh
PROPERTY
    WaitersAnswered
