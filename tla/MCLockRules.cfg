SPECIFICATION Spec
CONSTANTS
    NoBlob = NoBlob
    NoId = NoId
    FoldedBy <- Folds
    ListSums <- Sums
    SuffixOf <- FileEnds
    Unset = Unset
    NoList = NoList
    NoLock = NoLock
    Conflict = Conflict
    EveryModule = EveryModule
    AllTargets = {"t1", "t2"}
    MaxHostConditions = 1
    CommonReaders = 2
    NoValue = NoValue
    Portable = {"r", "k"}
    LinkTo <- Links
INVARIANTS ExportsPlanned GraphsTrusted LocksStand
