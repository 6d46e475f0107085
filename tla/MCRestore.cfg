SPECIFICATION Spec
CONSTANTS
    Lock <- Locks
    Concurrency = 2
    NoBlob = "NoBlob"
    NoFile = "NoFile"
    Network <- Networks
    MaxRedirectHops = 3
    MaxChain = 4
    Setup <- Setups
    MaxSent = 2
    NoId = "none"
    Job <- Jobs
    Start <- Starts
    Parallelism = 2
    MaxFaults = 1
    Nothing = Nothing
INVARIANTS RestoreSound ConnectionsTrusted CredentialsStayHome
PROPERTIES ExportsHold WorkEnds
