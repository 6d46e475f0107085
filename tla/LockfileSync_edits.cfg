\* Two runs while the user edits the project.
SPECIFICATION Spec
CONSTANTS
    p1 = p1
    p2 = p2
    d = d
    linux = linux
    macos = macos
    j17 = j17
    c1 = c1
    c2 = c2
    c3 = c3
    Proc = {p1, p2}
    CacheDir = {d}
    CacheOf <- MCCacheOf
    Os = {linux, macos}
    Host = linux
    Jdk = {j17}
    NoJdk = NoJdk
    HostJdk = j17
    Conf = {c1, c2}
    JdksOf <- MCJdks
    Model = {1, 2, 3}
    Graph <- MCGraph
    FirstModel = 1
    None = None
    MaxSnap = 1
    MaxRel = 1
    MaxEdits = 2
    MaxGit = 0
SYMMETRY MCSymmetry
INVARIANTS ConfHonest LockCurrent
