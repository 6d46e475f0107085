\* Two processes with a thread each, one damage, no fault.
SPECIFICATION FairSpec
CONSTANTS
    p1 = p1
    p2 = p2
    t1 = t1
    t2 = t2
    t3 = t3
    Proc = {p1, p2}
    Thread = {t1, t3}
    ProcOf <- MCTwoThreads
    Gen <- MCNewerPeer
    MaxGen = 2
    None = None
    MaxTries = 1
    MaxDamage = 1
    MaxFaults = 0
PROPERTIES
    CallsReturn
