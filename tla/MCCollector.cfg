\* Two trackers of one key and two listings; months pass, jobs overlap.
CONSTANTS
    t1 = t1
    t2 = t2
    a1 = a1
    a2 = a2
    Marker = Marker
    Tracker <- MCTracker
    Ad <- MCAd
    Wanted <- MCWanted
SPECIFICATION Spec
INVARIANTS
    CheckedKeyIsInitialised
PROPERTIES
    ToldOnce
    CheckedTrackersHear
