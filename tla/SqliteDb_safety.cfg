\* Two threads of one process, one of a newer raeva, one damage, one kill or
\* failed call.
SPECIFICATION Spec
CONSTANTS
    p1 = p1
    p2 = p2
    t1 = t1
    t2 = t2
    t3 = t3
    Proc = {p1, p2}
    Thread = {t1, t2, t3}
    ProcOf <- MCThreeThreads
    Gen <- MCNewerPeer
    MaxGen = 2
    None = None
    MaxTries = 1
    MaxDamage = 1
    MaxFaults = 1
SYMMETRY MCSymmetry
INVARIANTS FileShared RecreationSeen
PROPERTIES FilesKept
