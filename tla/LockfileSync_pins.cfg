\* Two runs while a SNAPSHOT build and a release are published again, with one
\* edit or one lock left by git.
SPECIFICATION Spec
CONSTANTS
    p1 = p1
    p2 = p2
    d = d
    linux = linux
    macos = macos
    j17 = j17
    c1 = c1
    c2 = c2
    c3 = c3
    Proc = {p1, p2}
    CacheDir = {d}
    CacheOf <- MCCacheOf
    Os = {linux, macos}
    Host = linux
    Jdk = {j17}
    NoJdk = NoJdk
    HostJdk = j17
    Conf = {c1, c3}
    JdksOf <- MCJdks
    Model = {1}
    Graph <- MCGraph
    FirstModel = 1
    None = None
    MaxSnap = 2
    MaxRel = 2
    MaxEdits = 1
    MaxGit = 1
SYMMETRY MCSymmetry
INVARIANTS MergeValid
PROPERTIES LockKept
