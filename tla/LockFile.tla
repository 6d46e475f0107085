------------------------------- MODULE LockFile -------------------------------
(***************************************************************************)
(* What raeva.lock may say (rv-lock lock.rs) and which platforms of an     *)
(* older lock a new one may keep (merge.rs). A lock is a sequence of       *)
(* platforms; a platform has module rows, artifact rows and the support    *)
(* POMs its modules read. Maven keeps one file per path of a local         *)
(* repository, so every pin of a path, from any row of any platform, has   *)
(* to be the same.                                                         *)
(***************************************************************************)
EXTENDS ExportPlan

CONSTANTS
    SuffixOf    \* packaging and classifier -> the end of the file name, where they are not one

-----------------------------------------------------------------------------
(* Rows. `sums` is the set of <<algorithm, digest>> an artifact row lists. *)

Coord(row) == Key(row.ga, row.v, row.kind)
RowGav(row) == <<row.ga, row.v>>
PomGav(row) == <<row.ga, PomVersion(row)>>
IsOwnPom(row) == row.kind = "pom"
Suffix(kind) == IF kind \in DOMAIN SuffixOf THEN SuffixOf[kind] ELSE kind
RepositoryPath(row) == Key(row.ga, FileVersion(row), Suffix(row.kind))

\* The SHA-256 where there is one, else the first checksum.
PinOf(row) == IF \E s \in row.sums : s[1] = "sha256" THEN CHOOSE s \in row.sums : s[1] = "sha256"
              ELSE CHOOSE s \in row.sums : TRUE

\* Mutant: only the checksums of one algorithm are compared.
BytesDifferShared(row, other) ==
    \E s \in row.sums, t \in other.sums : s[1] = t[1] /\ s[2] # t[2]

BytesDiffer(row, other) ==
    \/ PinOf(row) # PinOf(other)
    \/ \E s \in row.sums, t \in other.sums : s[1] = t[1] /\ s[2] # t[2]
ConflictsWith(row, other) == row.build # other.build \/ BytesDiffer(row, other)

SupportCoord(pin) == <<pin.ga, pin.v>>
FileGav(pin) == <<pin.ga, Resolved(pin.v, pin.build)>>
SupportRows(platforms) == UNION {platforms[i].support : i \in DOMAIN platforms}
ArtifactRows(platforms) == UNION {ToSet(platforms[i].rows) : i \in DOMAIN platforms}

-----------------------------------------------------------------------------
(* One platform                                                            *)

RowSound(row) ==
    /\ row.sums # {}
    /\ row.pomBuild > 0 => IsPlain(row.v) /\ row.pomBuild # row.build /\ ~IsOwnPom(row)
    /\ row.pomBase => row.build > 0 /\ row.pomBuild = 0 /\ ~IsOwnPom(row)
    /\ \A s, t \in row.sums : s[1] = t[1] => s = t
    /\ \A s \in row.sums : s[1] # "md5"
    /\ IsOwnPom(row) => row.pom # NoBlob /\ row.sums = {<<"sha256", row.pom>>}

CheckSystemPackage(package) == (package.sys # NoBlob) => package.scope = "system"

\* A package is a module of the reactor, a file of the project or a row.
ValidateModule(platform, module) ==
    /\ \A i, j \in DOMAIN module.packages : module.packages[i].key = module.packages[j].key => i = j
    /\ \A e \in module.edges : e[1] \in DOMAIN module.packages /\ e[2] \in DOMAIN module.packages
    /\ \A i \in DOMAIN module.packages :
         LET package == module.packages[i]
             listed == \E r \in DOMAIN platform.rows : Coord(platform.rows[r]) = package.key
         IN /\ ~(package.ws # NoBlob /\ package.sys # NoBlob)
            /\ CheckSystemPackage(package)
            /\ listed <=> (package.ws = NoBlob /\ package.sys = NoBlob)
            /\ package.ws # NoBlob =>
                 \E m \in DOMAIN platform.modules : /\ platform.modules[m].path = package.ws
                                                    /\ platform.modules[m].gav = <<package.key.ga, package.key.v>>
    /\ \A coord \in module.support : \E pin \in platform.support : SupportCoord(pin) = coord

ValidatePlatform(platform) ==
    /\ platform.modules # <<>>
    /\ \A m, n \in DOMAIN platform.modules :
         m # n => /\ platform.modules[m].path # platform.modules[n].path
                  /\ platform.modules[m].gav # platform.modules[n].gav
    /\ \A r, s \in DOMAIN platform.rows : Coord(platform.rows[r]) = Coord(platform.rows[s]) => r = s
    /\ \A r \in DOMAIN platform.rows : RowSound(platform.rows[r])
    /\ \A m \in DOMAIN platform.modules : ValidateModule(platform, platform.modules[m])
    /\ \A r \in DOMAIN platform.rows : \E m \in DOMAIN platform.modules :
         \E i \in DOMAIN platform.modules[m].packages :
           platform.modules[m].packages[i].key = Coord(platform.rows[r])

-----------------------------------------------------------------------------
(* Pins of all platforms                                                   *)

CheckCrossPlatformPins(rows, support) ==
    /\ \A r, s \in rows : RepositoryPath(r) = RepositoryPath(s) => ~BytesDiffer(r, s)
    /\ \A p, q \in support :
         /\ SupportCoord(p) = SupportCoord(q) => p.build = q.build /\ p.blob = q.blob
         /\ FileGav(p) = FileGav(q) => p.blob = q.blob
    /\ \A r, s \in rows : Coord(r) = Coord(s) => r.build = s.build

\* Export leaves both at the plain -SNAPSHOT.pom path, whatever their builds.
ConflictingSnapshotPom(support, rows) ==
    \E p \in support : \E r \in rows : IsPlain(p.v) /\ RowGav(r) = SupportCoord(p) /\ r.pom # p.blob
ConflictingSupportCompanionPin(support, rows) ==
    \E p \in support : \E r \in rows : PomGav(r) = FileGav(p) /\ r.pom # p.blob

CheckPomPins(rows, support) ==
    /\ \A r, s \in rows : RowGav(r) = RowGav(s) => PomGav(r) = PomGav(s)
    /\ \A r, s \in rows : PomGav(r) = PomGav(s) => r.pom = s.pom
    /\ ~ConflictingSupportCompanionPin(support, rows)
    /\ ~ConflictingSnapshotPom(support, rows)

MixedJdks(platforms) ==
    \E i, j \in DOMAIN platforms : platforms[i].jdk = NoBlob /\ platforms[j].jdk # NoBlob
CheckPins(rows, support) == CheckCrossPlatformPins(rows, support) /\ CheckPomPins(rows, support)
Validate(platforms) ==
    /\ \A i, j \in DOMAIN platforms :
         platforms[i].os = platforms[j].os /\ platforms[i].jdk = platforms[j].jdk => i = j
    /\ ~MixedJdks(platforms)
    /\ \A i \in DOMAIN platforms : ValidatePlatform(platforms[i])
    /\ CheckPins(ArtifactRows(platforms), SupportRows(platforms))

-----------------------------------------------------------------------------
(* What an accepted lock pins                                              *)

\* <<path, digest>> of every artifact, companion POM and support POM.
PinnedFiles(platforms) ==
    {<<RepositoryPath(r), PinOf(r)>> : r \in {t \in ArtifactRows(platforms) : PinOf(t)[1] = "sha256"}}
    \cup {<<PomKey(r), <<"sha256", r.pom>> >> : r \in {t \in ArtifactRows(platforms) : t.pom # NoBlob}}
    \cup {<<Key(p.ga, Resolved(p.v, p.build), "pom"), <<"sha256", p.blob>> >> : p \in SupportRows(platforms)}
Sha1Files(platforms) ==
    {<<RepositoryPath(r), PinOf(r)>> : r \in {t \in ArtifactRows(platforms) : PinOf(t)[1] = "sha1"}}
PinnedPaths(platforms) ==
    LET files == PinnedFiles(platforms)
    IN files \cup {f \in Sha1Files(platforms) : \A g \in files : g[1] # f[1]}
MissingPomPaths(platforms) ==
    {PomKey(r) : r \in {t \in ArtifactRows(platforms) : t.pom = NoBlob /\ ~IsOwnPom(t)}}

-----------------------------------------------------------------------------
(* Platforms of the previous lock that a run did not resolve again         *)

ConflictingSupportPom(kept, fresh) ==
    \E p \in kept, q \in fresh :
       \/ SupportCoord(p) = SupportCoord(q) /\ (p.blob # q.blob \/ p.build # q.build)
       \/ FileGav(p) = FileGav(q) /\ p.blob # q.blob
ConflictingCompanionPomPin(fresh, rows) ==
    \E r \in rows, f \in fresh :
       \/ RowGav(f) = RowGav(r) /\ PomGav(f) # PomGav(r)
       \/ PomGav(f) = PomGav(r) /\ f.pom # r.pom
ConflictingArtifactPin(rows, fresh) ==
    \E r \in rows, f \in fresh :
       \/ Coord(r) = Coord(f) /\ ConflictsWith(r, f)
       \/ RepositoryPath(r) = RepositoryPath(f) /\ BytesDiffer(r, f)

Dropped(rows, support, fresh, freshSupport) ==
    \/ ConflictingSupportPom(support, freshSupport) \/ ConflictingSupportCompanionPin(support, fresh)
    \/ ConflictingSnapshotPom(support, fresh) \/ ConflictingSnapshotPom(freshSupport, rows)
    \/ ConflictingCompanionPomPin(fresh, rows) \/ ConflictingArtifactPin(rows, fresh)
    \/ ConflictingSupportCompanionPin(freshSupport, rows)

PreservedPlatforms(previous, fresh, reconfigured) ==
    {i \in DOMAIN previous :
       /\ \A j \in DOMAIN fresh : fresh[j].os # previous[i].os \/ fresh[j].jdk # previous[i].jdk
       /\ ~reconfigured
       /\ ~Dropped(ToSet(previous[i].rows), previous[i].support, ArtifactRows(fresh), SupportRows(fresh))}
Carried(previous, fresh, kept) == fresh \o SetToSeq({previous[i] : i \in kept})

-----------------------------------------------------------------------------
(* What the checks are for                                                 *)

LockOutcome(input) ==
    [accepted |-> Validate(input.fresh), previous |-> Validate(input.previous),
     kept |-> PreservedPlatforms(input.previous, input.fresh, FALSE)]

\* The files of a local repository an export of these rows leaves: under a
\* -SNAPSHOT request also the copy with the plain name.
Copies(v, file) == IF IsPlain(v) THEN {v, file} ELSE {file}
ExportedRows(rows) ==
    UNION {{<<Key(r.ga, v, Suffix(r.kind)), PinOf(r)>> : v \in Copies(r.v, FileVersion(r))} : r \in rows}
    \cup UNION {{<<Key(r.ga, v, "pom"), <<"sha256", r.pom>> >> : v \in Copies(r.v, PomVersion(r))} :
                  r \in {t \in rows : t.pom # NoBlob}}
ExportedSupport(support) ==
    UNION {{<<Key(p.ga, v, "pom"), <<"sha256", p.blob>> >> : v \in Copies(p.v, Resolved(p.v, p.build))} : p \in support}

(* A lock that check accepts describes a local repository that can exist   *)
(* (check_cross_platform_pins, lock.rs:745-824, check_pom_pins, 826-898):  *)
(* each path, the plain -SNAPSHOT copies included, has one pin, whichever  *)
(* platform and whichever kind of row names it; and no POM it records as   *)
(* missing (217-231) is one it pins.                                       *)
OneFilePerPath(input, result) ==
    result.accepted =>
      LET files == ExportedRows(ArtifactRows(input.fresh)) \cup ExportedSupport(SupportRows(input.fresh))
      IN /\ \A f, g \in files : f[1] = g[1] => f[2] = g[2]
         /\ PinnedPaths(input.fresh) \subseteq files
         /\ \A path \in MissingPomPaths(input.fresh) : \A f \in PinnedPaths(input.fresh) : f[1] # path

(* A platform of the previous lock is carried into the new one exactly     *)
(* when the two together pass the pin checks (preservation, merge.rs:      *)
(* 108-193): none that was kept makes writing fail, and none is dropped    *)
(* that could have stayed.                                                 *)
KeptIffValid(input, result) ==
    result.accepted /\ result.previous =>
      /\ \A i \in result.kept : Validate(Carried(input.previous, input.fresh, {i}))
      /\ Validate(Carried(input.previous, input.fresh, result.kept))
      /\ \A i \in DOMAIN input.previous \ result.kept :
           ~CheckPins(ArtifactRows(Carried(input.previous, input.fresh, {i})),
                      SupportRows(Carried(input.previous, input.fresh, {i})))
===============================================================================
