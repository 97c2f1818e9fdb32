------------------------------ MODULE SelfUpdate ------------------------------
(***************************************************************************)
(* wol update (internal/updater): which release is installed, what is      *)
(* checked of it, and how the executable is replaced, while the release is *)
(* published anew, the machine crashes and other updates run.              *)
(*                                                                         *)
(* A program is a record: its version, the build of the release it is from *)
(* (0 for one compiled here), the update that wrote it (None: the one at   *)
(* first), and whether it is flushed, so that a crash cannot empty it. An  *)
(* update runs from the file that it replaces (there is no --target).      *)
(***************************************************************************)
EXTENDS Integers, Sequences, FiniteSets

CONSTANTS
    Updaters,    \* concurrent runs of wol update
    Versions,    \* the versions a release may have, see Older
    Installed,   \* the version there is at first
    Releases,    \* the sets of assets a release may have: an asset is
                 \* [terms, companion, holds, runs], see MatchAsset and Extract
    MaxBuilds,   \* bound on how often the release is published
    None

VARIABLES
    system,      \* [windows, key]: the platform, and whether a public key is set
    at,          \* at[u]: the step of an update
    has,         \* has[u]: what it has decided and downloaded
    build,       \* the build of the release that is published now
    path, old,   \* the executable and, on Windows, the copy moved aside
    temp         \* temp[u]: the temporary file of u

updateVars == <<system, at, has, build, path, old, temp>>
files == <<path, old, temp>>

Nothing == [running |-> None, version |-> None, forced |-> FALSE, asset |-> None,
            sums |-> 0, signature |-> 0, archive |-> 0]
Programs == [version : Versions \cup {Installed, None}, build : Nat, by : Updaters \cup {None}, flushed : BOOLEAN]
Program(v, b, u) == [version |-> v, build |-> b, by |-> u, flushed |-> TRUE]

UpdateInit ==
    /\ system \in [windows : BOOLEAN, key : BOOLEAN]
    /\ at = [u \in Updaters |-> "idle"]
    /\ has = [u \in Updaters |-> Nothing]
    /\ build = 1
    /\ path = Program(Installed, 0, None)
    /\ old = None
    /\ temp = [u \in Updaters |-> None]

-----------------------------------------------------------------------------
(* The order of versions: a version is its numbers and its pre-release, a  *)
(* sequence of numbers and words, <<>> for a release. Words are ordered as *)
(* strings; here Word(i) is the i-th of them. SemVer has three numbers; a  *)
(* version may leave some of them out.                                     *)

Number(i) == [word |-> FALSE, value |-> i]
Word(i) == [word |-> TRUE, value |-> i]

Identifiers == [word : BOOLEAN, value : Int]
SemVer == {v \in [base : Seq(Int), pre : Seq(Identifiers)] : Len(v.base) <= 3}

Part(s, i) == IF i \in DOMAIN s THEN s[i] ELSE 0
Longer(s, t) == IF Len(s) > Len(t) THEN Len(s) ELSE Len(t)
Order(i, j) == IF i < j THEN -1 ELSE IF i > j THEN 1 ELSE 0

\* The first order that is not equal, else rest.
FirstOrder(orders, rest) ==
    IF \A i \in DOMAIN orders : orders[i] = 0 THEN rest
    ELSE orders[CHOOSE i \in DOMAIN orders : orders[i] # 0 /\ \A j \in 1 .. i - 1 : orders[j] = 0]

CompareNumbers(v, w) == [i \in 1 .. Longer(v.base, w.base) |-> Order(Part(v.base, i), Part(w.base, i))]

CompareIdentifiers(x, y) ==
    CASE ~x.word /\ y.word -> -1
      [] x.word /\ ~y.word -> 1
      [] x.word = y.word -> Order(x.value, y.value)

ComparePreRelease(a, b) ==
    FirstOrder([i \in DOMAIN a \cap DOMAIN b |-> CompareIdentifiers(a[i], b[i])], Order(Len(a), Len(b)))

\* Variant: a version without pre-release is the shortest list of identifiers.
CompareAsLists(v, w) == FirstOrder(CompareNumbers(v, w), ComparePreRelease(v.pre, w.pre))

CompareVersions(v, w) ==
    FirstOrder(CompareNumbers(v, w),
        CASE v.pre # <<>> /\ w.pre = <<>> -> -1
          [] v.pre = <<>> /\ w.pre # <<>> -> 1
          [] OTHER -> ComparePreRelease(v.pre, w.pre))

-----------------------------------------------------------------------------
(* The release and its asset for this platform. An asset is the terms of   *)
(* its file name, whether it is a checksum, a signature or the like, what  *)
(* it holds, and the platform that what it holds runs on.                  *)

OsTerms == [darwin |-> {"darwin", "macos", "osx"}, linux |-> {"linux"},
            windows |-> {"windows", "win", "win32", "win64"}]

\* A file name is cut at underscores: no term is x86_64, and a file so named is
\* one for x86.
ArchTerms == [arm64 |-> {"arm64", "aarch64"}, amd64 |-> {"amd64", "x64"},
              x86 |-> {"386", "i386", "x86"}, arm |-> {"arm", "armv7", "armv6"}]

Os == IF system.windows THEN "windows" ELSE "linux"
Arch == "amd64"

\* Does the name have a term of k, and of nothing else?
NamesOnly(asset, k, terms) ==
    \A j \in DOMAIN terms : asset.terms \cap terms[j] # {} <=> j = k

\* Variant: the other systems and architectures in the name are not looked at.
MatchAnyTerm(assets) ==
    {a \in assets : ~a.companion /\ a.terms \cap OsTerms[Os] # {} /\ a.terms \cap ArchTerms[Arch] # {}}

\* The first of the assets that match is taken; they are in any order.
MatchAsset(assets) ==
    {a \in assets : ~a.companion /\ NamesOnly(a, Os, OsTerms) /\ NamesOnly(a, Arch, ArchTerms)}

\* A release of the API, and one that is only known by the redirect of its page.
FetchReleaseByTag == [version : Versions, assets : Releases]
Redirected == [version : Versions, assets : {{}}]
FetchLatestRelease == FetchReleaseByTag \cup Redirected

-----------------------------------------------------------------------------
(* ExecuteUpdate.                                                          *)

Ended == {"idle", "done", "failed", "stranded", "crashed"}
Go(u, step) == at' = [at EXCEPT ![u] = step]
Keep(u, field, value) == has' = [has EXCEPT ![u][field] = value]

\* The release asked for, or the latest; without --force an update goes only to
\* another version, and to the latest only if it is newer.
Decide(u) ==
    /\ at[u] = "idle" /\ path # None
    /\ \E force, target \in BOOLEAN : \E r \in IF target THEN FetchReleaseByTag ELSE FetchLatestRelease :
        LET order == CompareVersions(path.version, r.version)
            matching == MatchAsset(r.assets)
        IN  IF force \/ (IF target THEN order # 0 ELSE order < 0)
            THEN \E asset \in IF matching = {} THEN {None} ELSE matching :
                    /\ has' = [has EXCEPT ![u] = [Nothing EXCEPT !.running = path, !.version = r.version,
                                                    !.asset = asset, !.forced = force \/ target]]
                    /\ Go(u, IF asset = None THEN "source" ELSE "sums")
            ELSE Go(u, "done") /\ UNCHANGED has
    /\ UNCHANGED <<system, build, files>>

\* The checksum manifest.
DownloadSums(u) ==
    /\ at[u] = "sums"
    /\ Keep(u, "sums", build)
    /\ Go(u, IF system.key THEN "signature" ELSE "archive")
    /\ UNCHANGED <<system, build, files>>

\* The signature of the manifest, when a public key is set.
DownloadSignature(u) ==
    /\ at[u] = "signature"
    /\ Keep(u, "signature", build)
    /\ Go(u, IF build = has[u].sums THEN "archive" ELSE "failed")
    /\ UNCHANGED <<system, build, files>>

\* The archive, whose digest has to be the one in the manifest.
DownloadArchive(u) ==
    /\ at[u] = "archive"
    /\ Keep(u, "archive", build)
    /\ Go(u, IF build = has[u].sums THEN "extract" ELSE "failed")
    /\ UNCHANGED <<system, build, files>>

\* The program called wol in the archive; one that holds none, or more than the
\* limits allow, is refused.
Extract(u) ==
    /\ at[u] = "extract"
    /\ Go(u, IF has[u].asset.holds = "program" THEN "create" ELSE "failed")
    /\ UNCHANGED <<system, has, build, files>>

\* Without an archive for the platform: compiled here, but not with a key.
BuildFromSource(u) ==
    /\ at[u] = "source" /\ ~system.key
    /\ Go(u, "create")
    /\ UNCHANGED <<system, has, build, files>>

\* The maintainers publish the release again, with other files.
Publish ==
    /\ build < MaxBuilds
    /\ build' = build + 1
    /\ UNCHANGED <<system, at, has, files>>

-----------------------------------------------------------------------------
(* ReplaceExecutable.                                                      *)

Written(u) == Program(has[u].version, has[u].archive, u)

\* The temporary file is written; a crash can still empty it.
Create(u) ==
    /\ at[u] = "create"
    /\ temp' = [temp EXCEPT ![u] = [Written(u) EXCEPT !.flushed = FALSE]]
    /\ Go(u, "sync")
    /\ UNCHANGED <<system, has, build, path, old>>

\* It is flushed before it is renamed.
Sync(u) ==
    /\ at[u] = "sync"
    /\ temp' = [temp EXCEPT ![u] = Written(u)]
    /\ Go(u, IF system.windows THEN "clear" ELSE "rename")
    /\ UNCHANGED <<system, has, build, path, old>>

\* A rename is one step of the file system.
Rename(u) ==
    /\ at[u] = "rename"
    /\ path' = temp[u]
    /\ temp' = [temp EXCEPT ![u] = None]
    /\ Go(u, IF system.windows THEN "discard" ELSE "done")
    /\ UNCHANGED <<system, has, build, old>>

\* Windows neither removes nor replaces a program that runs.
Locked == \E u \in Updaters : at[u] \notin Ended /\ has[u].running = old
RemoveOld == old' \in {None, old} /\ (Locked => old' = old)

\* On Windows the executable is moved aside; what was there before is removed.
Clear(u) ==
    /\ at[u] = "clear"
    /\ RemoveOld
    /\ Go(u, "aside")
    /\ UNCHANGED <<system, has, build, path, temp>>

MoveAside(u) ==
    /\ at[u] = "aside"
    /\ \/ path # None /\ ~Locked /\ old' = path /\ path' = None /\ Go(u, "rename") /\ UNCHANGED temp
       \/ (path = None \/ old # None)
          /\ Go(u, "failed") /\ temp' = [temp EXCEPT ![u] = None] /\ UNCHANGED <<path, old>>
    /\ UNCHANGED <<system, has, build>>

\* Variant: an executable that cannot be replaced is left aside.
RenameFailsForGood(u) ==
    /\ at[u] = "rename"
    /\ Go(u, "failed")
    /\ temp' = [temp EXCEPT ![u] = None]
    /\ UNCHANGED <<system, has, build, path, old>>

\* The rename fails, and what was moved aside is moved back, which may fail too.
RenameFails(u) ==
    /\ at[u] = "rename"
    /\ \/ ~system.windows /\ Go(u, "failed") /\ UNCHANGED <<path, old>>
       \/ system.windows /\ path' = old /\ old' = None /\ Go(u, "failed")
       \/ system.windows /\ Go(u, "stranded") /\ UNCHANGED <<path, old>>
    /\ temp' = [temp EXCEPT ![u] = None]
    /\ UNCHANGED <<system, has, build>>

Discard(u) ==
    /\ at[u] = "discard"
    /\ RemoveOld
    /\ Go(u, "done")
    /\ UNCHANGED <<system, has, build, path, temp>>

\* A download, a build or a write fails: what was written is removed.
GiveUp(u) ==
    /\ at[u] \in {"sums", "signature", "archive", "source", "create", "sync"}
    /\ Go(u, "failed")
    /\ temp' = [temp EXCEPT ![u] = None]
    /\ UNCHANGED <<system, has, build, path, old>>

\* RemoveStaleExecutable: every start of wol on Windows removes the copy.
RemoveStale ==
    /\ system.windows /\ path # None /\ old # None /\ ~Locked
    /\ old' = None
    /\ UNCHANGED <<system, at, has, build, path, temp>>

\* The machine crashes: what was not flushed is lost.
Crash ==
    /\ \E u \in Updaters : at[u] \notin Ended
    /\ at' = [u \in Updaters |-> IF at[u] \in Ended THEN at[u] ELSE "crashed"]
    /\ UNCHANGED <<system, has, build, files>>

UpdateStep(u) ==
    \/ Decide(u) \/ DownloadSums(u) \/ DownloadSignature(u) \/ DownloadArchive(u) \/ Extract(u)
    \/ BuildFromSource(u) \/ Create(u) \/ Sync(u)
    \/ Clear(u) \/ MoveAside(u) \/ Rename(u) \/ RenameFails(u) \/ Discard(u) \/ GiveUp(u)

UpdateNext == (\E u \in Updaters : UpdateStep(u)) \/ Publish \/ RemoveStale \/ Crash

-----------------------------------------------------------------------------
\* SemVer 2.0, item 11, which CompareVersions says it follows: the numbers and
\* then the identifiers, in lexicographic order, a release after all of its
\* pre-releases.
Precedence(v) ==
    LET Rank(x) == IF x.word THEN <<2, x.value>> ELSE <<1, x.value>>
    IN  [i \in 1 .. 3 |-> <<0, Part(v.base, i)>>]
            \o (IF v.pre = <<>> THEN << <<3, 0>> >> ELSE [i \in DOMAIN v.pre |-> Rank(v.pre[i])])

Before(p, q) ==
    \/ \E i \in DOMAIN p \cap DOMAIN q :
        /\ \A j \in 1 .. i - 1 : p[j] = q[j]
        /\ p[i][1] < q[i][1] \/ (p[i][1] = q[i][1] /\ p[i][2] < q[i][2])
    \/ Len(p) < Len(q) /\ \A j \in DOMAIN p : p[j] = q[j]

\* What an update writes over wol is of one published build: its manifest, the
\* signature of it and the archive, though the release is published anew between
\* the downloads; an archive is one for this platform (MatchAsset); it is compiled here only without a public key; and without
\* --force or --version it is a version after the one that runs.
OneReleaseIsInstalled ==
    \A u \in Updaters :
        temp[u] # None =>
            /\ has[u].asset # None => has[u].archive = has[u].sums /\ has[u].asset.runs = <<Os, Arch>>
            /\ system.key => has[u].asset # None /\ has[u].signature = has[u].archive
            /\ ~has[u].forced => Before(Precedence(has[u].running.version), Precedence(has[u].version))

\* Whatever fails and whenever the machine crashes, with two updates at once, wol
\* is on the disk: at its path, or on Windows moved aside, and moved aside only
\* by an update that is not over or could not move it back.
ProgramSurvives ==
    /\ path # None \/ (system.windows /\ old # None)
    /\ path # None => path.flushed
    /\ old # None => old.flushed
    /\ path = None => \E u \in Updaters : at[u] \in {"rename", "stranded", "crashed"}
=============================================================================
