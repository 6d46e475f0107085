\* Two threads of one process, one thread of another, and two open
\* handles, abandoned ones included.
SPECIFICATION FairSpec
CONSTANTS
    p1 = p1
    p2 = p2
    t1 = t1
    t2 = t2
    t3 = t3
    Proc = {p1, p2}
    Thread = {t1, t2, t3}
    ProcOf <- MCProcOf
    Handle = {h1, h2}
    None = None
INVARIANTS LockInv
PROPERTIES ImplementsMutex WaitsEnd
