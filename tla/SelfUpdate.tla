---------------------------- MODULE SelfUpdate -----------------------------
(***************************************************************************)
(* `update`: replace the running standalone executable with a release.     *)
(*                                                                         *)
(* Each process runs the command once, from the executable installed when  *)
(* it starts. It asks who owns the file, fetches the checksums of the      *)
(* release, the signature over them and the archive (three requests to a   *)
(* server where `latest` may move in between, or to a mirror that answers  *)
(* anything), checks them, stages the new executable beside the old one    *)
(* and renames it. Two updates may run at once; a process may be killed    *)
(* and the machine may lose power at any step.                             *)
(*                                                                         *)
(* The SHA-256 of an archive is the archive itself (no collisions); the    *)
(* one asset of this executable and platform stands for a release, so      *)
(* asset names are versions.                                               *)
(***************************************************************************)
EXTENDS Naturals, FiniteSets

CONSTANTS
    Proc,       \* the processes that run `update`
    MaxCore,    \* releases are numbered 1 .. MaxCore
    NoAsset,    \* the releases without an archive for this platform
    Setting,    \* the platforms and installations: [place, windows, mirror]
    InitVer,    \* the versions the executable may start at
    Request,    \* the command lines: [to, insecure, yes, container]
    Nothing,    \* no version, no file
    Garbage     \* a text that is no version

(* A version is its numeric core and whether it carries a `-dev` suffix. *)
Version == [core : 1 .. MaxCore, dev : BOOLEAN]
Release(n) == [core |-> n, dev |-> FALSE]
Releases == {Release(n) : n \in 1 .. MaxCore}

(* An executable; a power loss may leave a torn one. A forged one is all    *)
(* that the release workflow did not build, whatever version it claims.     *)
Binary == [ver : Version, genuine : BOOLEAN, whole : BOOLEAN]
Genuine(v) == [ver |-> v, genuine |-> TRUE, whole |-> TRUE]
Forged == [ver |-> Release(1), genuine |-> FALSE, whole |-> TRUE]

(* A file at the executable's path, or staged beside it: what it holds, and *)
(* whether it has the permissions of the installed one.                     *)
File == [bin : Binary, mode : {"installed", "default"}]

(* The contents of an archive: the one entry that is looked at. "bad" is an *)
(* entry that is missing, not a regular file, too large or empty.           *)
Archive == [bin : Binary, entry : {"file", "bad"}]
Packed(b) == [bin |-> b, entry |-> "file"]
AnyArchive == {Packed(Genuine(v)) : v \in Releases}
                \cup {[bin |-> Forged, entry |-> e] : e \in {"file", "bad"}}

(* A checksums file: the version it lists for this platform, and its sum. *)
SignedSums(v) == [ver |-> v, sum |-> IF v.core \in NoAsset THEN Nothing ELSE Packed(Genuine(v))]
AnySums == {SignedSums(v) : v \in Releases}
             \cup {[ver |-> v, sum |-> Packed(Forged)] : v \in Releases}
NoSums == [ver |-> Nothing, sum |-> Nothing]

ASSUME UpdateAssumption ==
    /\ IsFiniteSet(Proc) /\ MaxCore \in Nat \ {0}
    /\ Setting \subseteq [place : {"local", "usrbin", "homebrew"},
                          windows : BOOLEAN, mirror : BOOLEAN]
    /\ NoAsset \subseteq 1 .. MaxCore /\ 1 \notin NoAsset
    /\ InitVer \subseteq Version
    /\ Request \subseteq [to : Version \cup {Nothing, Garbage}, insecure : BOOLEAN,
                          yes : BOOLEAN, container : BOOLEAN]
    /\ Nothing \notin Version \cup File \cup Archive
    /\ Garbage \notin Version \cup {Nothing}

VARIABLES
    setting,    \* where the executable lies, whether the platform is Windows
                \* and whether the base URL is a mirror that answers anything
    published,  \* the releases that exist
    latest,     \* the one `latest` redirects to
    exe,        \* the installed executable: [bin, mode]
    disk,       \* the files a power loss may leave at its path
    staged,     \* staged[f]: the staging file f, or Nothing
    pc,         \* pc[p]: where p is
    req,        \* req[p]: its request
    cur,        \* cur[p]: the version compiled into p
    sums,       \* sums[p]: the checksums p fetched
    ver,        \* ver[p]: the version p installs
    new,        \* new[p]: the executable p extracted
    fault       \* fault[p]: what went wrong around p (history)

server == <<published, latest>>
files == <<exe, disk, staged>>
locals == <<req, cur, sums, ver, new>>
vars == <<setting, server, files, locals, pc, fault>>

Busy == {"sums", "bundle", "archive", "stat", "write", "rename"}
End == {"delegated", "current", "newer", "updated", "failed", "denied", "dead"}

TypeOK ==
    /\ setting \in Setting
    /\ published \subseteq Releases /\ latest \in published
    /\ exe \in File /\ disk \subseteq File
    /\ staged \in [Proc -> File \cup {Nothing}]
    /\ pc \in [Proc -> {"idle"} \cup Busy \cup End]
    /\ \A p \in Proc : pc[p] # "idle" =>
           /\ req[p] \in Request /\ cur[p] \in Version
           /\ sums[p] \in AnySums \cup {NoSums}
           /\ ver[p] \in Version \cup {Nothing}
           /\ new[p] \in Binary \cup {Nothing}
    /\ \A p \in Proc : pc[p] \in {"archive", "stat", "write", "rename"} => ver[p] \in Version
    /\ \A p \in Proc : pc[p] \in {"stat", "write", "rename"} => new[p].whole
    /\ fault \in [Proc -> SUBSET {"fetch", "moved", "io", "leftover"}]

Init ==
    /\ setting \in Setting
    /\ published = {Release(1)} /\ latest = Release(1)
    /\ \E v \in InitVer : exe = [bin |-> Genuine(v), mode |-> "installed"]
    /\ disk = {exe}
    /\ staged = [p \in Proc |-> Nothing]
    /\ pc = [p \in Proc |-> "idle"]
    /\ req = [p \in Proc |-> Nothing] /\ cur = [p \in Proc |-> Nothing]
    /\ sums = [p \in Proc |-> NoSums]
    /\ ver = [p \in Proc |-> Nothing] /\ new = [p \in Proc |-> Nothing]
    /\ fault = [p \in Proc |-> {}]

----------------------------------------------------------------------------
(* Who owns the file. *)

(* classify: the container variable wins over the path. *)
Classify(container) ==
    CASE container -> "Container"
      [] ~container /\ setting.place = "homebrew" -> "Homebrew"
      [] ~container /\ setting.place = "usrbin" -> "LinuxPackage"
      [] OTHER -> "Standalone"

Overridable(owner) == owner \in {"LinuxPackage", "Homebrew"}

(* check_owner: proceed, or leave the update to the owner. *)
CheckOwner(owner, yes) == owner = "Standalone" \/ (Overridable(owner) /\ yes)

(* parse_version refuses anything but a version. *)
Parses(to) == to # Garbage

(* run_update_cli up to the first request; `latest` of --insecure still     *)
(* needs the checksums to learn the version.                                *)
Start(p, r) ==
    /\ pc[p] = "idle" /\ exe.bin.whole
    /\ req' = [req EXCEPT ![p] = r]
    /\ cur' = [cur EXCEPT ![p] = exe.bin.ver]
    /\ IF ~CheckOwner(Classify(r.container), r.yes)
       THEN pc' = [pc EXCEPT ![p] = "delegated"] /\ ver' = ver
       ELSE IF ~Parses(r.to)
       THEN pc' = [pc EXCEPT ![p] = "failed"] /\ ver' = ver
       ELSE IF r.insecure /\ r.to # Nothing
       THEN /\ ver' = [ver EXCEPT ![p] = r.to]
            /\ pc' = [pc EXCEPT ![p] = IF r.to = cur'[p] THEN "current" ELSE "archive"]
       ELSE pc' = [pc EXCEPT ![p] = "sums"] /\ ver' = ver
    /\ UNCHANGED <<setting, server, files, sums, new, fault>>

----------------------------------------------------------------------------
(* Fetching and checking. *)

(* The release a request addresses: /download/vX, or /latest/download. *)
Addressed(p) == IF req[p].to = Nothing THEN latest ELSE req[p].to

(* fetch: a status other than success, a broken transfer, a body over its   *)
(* bound or the 300 s limit end the update; nothing was written yet.        *)
FetchFails(p) ==
    /\ pc[p] \in {"sums", "bundle", "archive"}
    /\ pc' = [pc EXCEPT ![p] = "failed"]
    /\ fault' = [fault EXCEPT ![p] = @ \cup {"fetch"}]
    /\ UNCHANGED <<setting, server, files, locals>>

(* is_older compares the numeric cores only. *)
IsOlder(v, c) == v.core < c.core

(* latest_version: the one the checksums list, if they list this platform. *)
LatestVersion(s) == IF s.sum = Nothing THEN Nothing ELSE s.ver

ExpectedSum_Any(s, v) == s.sum

(* expected_sum: the sum listed under the archive name of version v. *)
ExpectedSum(s, v) == IF s.ver = v THEN s.sum ELSE Nothing

(* The part of update between the checksums and the archive. *)
Decide(p, s) ==
    LET v == IF req[p].to # Nothing THEN req[p].to ELSE LatestVersion(s)
    IN /\ sums' = [sums EXCEPT ![p] = s]
       /\ ver' = [ver EXCEPT ![p] = v]
       /\ pc' = [pc EXCEPT ![p] =
              IF v = Nothing THEN "failed"
              ELSE IF v = cur[p] THEN "current"
              ELSE IF req[p].to = Nothing /\ IsOlder(v, cur[p]) THEN "newer"
              ELSE IF ExpectedSum(s, v) = Nothing /\ ~req[p].insecure THEN "failed"
              ELSE "archive"]

(* What the server answers to a request for the checksums. *)
ServedSums(p) ==
    IF setting.mirror THEN AnySums ELSE {SignedSums(v) : v \in {Addressed(p)} \cap published}

FetchChecksums(p) ==
    /\ pc[p] = "sums"
    /\ \E s \in ServedSums(p) :
           IF req[p].insecure
           THEN Decide(p, s)
           ELSE /\ sums' = [sums EXCEPT ![p] = s]
                /\ pc' = [pc EXCEPT ![p] = "bundle"]
                /\ UNCHANGED ver
    /\ UNCHANGED <<setting, server, files, req, cur, new, fault>>

(* A signature bundle names the text it is over and its signer. The release *)
(* workflow signs the checksums of published releases, and nothing else.    *)
ReleaseBundles(S) == {[over |-> SignedSums(v), by |-> "release.yml"] : v \in S}
ServedBundles(p) ==
    IF setting.mirror
    THEN ReleaseBundles(published) \cup {[over |-> s, by |-> "other"] : s \in AnySums}
    ELSE ReleaseBundles({Addressed(p)} \cap published)

(* verify: the bundle is over these bytes, and its signer is the release    *)
(* workflow run for some version tag (the tag itself is not pinned).        *)
Verify(s, b) == b.over = s /\ b.by = "release.yml"

FetchBundle(p) ==
    /\ pc[p] = "bundle"
    /\ \E b \in ServedBundles(p) :
           IF Verify(sums[p], b)
           THEN Decide(p, sums[p])
           ELSE pc' = [pc EXCEPT ![p] = "failed"] /\ UNCHANGED <<sums, ver>>
    /\ UNCHANGED <<setting, server, files, req, cur, new, fault>>

(* The archive of version v below the addressed release. *)
ServedArchives(p) ==
    IF setting.mirror THEN AnyArchive
    ELSE {Packed(Genuine(v)) : v \in {r \in {Addressed(p)} \cap published :
                                          r = ver[p] /\ r.core \notin NoAsset}}

(* extract_entry: one regular entry, neither too large nor empty. *)
Extracts(a) == a.entry = "file"

FetchArchive(p) ==
    /\ pc[p] = "archive"
    /\ \E a \in ServedArchives(p) :
           IF /\ req[p].insecure \/ ExpectedSum(sums[p], ver[p]) = a
              /\ Extracts(a)
           THEN pc' = [pc EXCEPT ![p] = "stat"] /\ new' = [new EXCEPT ![p] = a.bin]
           ELSE pc' = [pc EXCEPT ![p] = "failed"] /\ new' = new
    /\ UNCHANGED <<setting, server, files, req, cur, sums, ver, fault>>

----------------------------------------------------------------------------
(* Replacing the file. *)

StagePath_Fixed(p) == CHOOSE q \in Proc : TRUE

(* The name of the staging file holds the process id, a nonce and a counter. *)
StagePath(p) == p

(* An OS error drops the armed StagedFile, which removes the file or fails  *)
(* to and says nothing.                                                     *)
Drop(p) ==
    \/ /\ staged' = [staged EXCEPT ![StagePath(p)] = Nothing]
       /\ fault' = [fault EXCEPT ![p] = @ \cup {"io"}]
    \/ /\ UNCHANGED staged
       /\ fault' = [fault EXCEPT ![p] = @ \cup {"io", "leftover"}]

(* metadata(target) and the exclusive creation of the staging file: an OS   *)
(* error, or a file of that name, ends the update with nothing to drop.     *)
Stage(p) ==
    /\ pc[p] = "stat"
    /\ \/ /\ staged[StagePath(p)] = Nothing
          /\ staged' = [staged EXCEPT ![StagePath(p)] =
                            [bin |-> [new[p] EXCEPT !.whole = FALSE], mode |-> "default"]]
          /\ pc' = [pc EXCEPT ![p] = "write"]
          /\ UNCHANGED fault
       \/ /\ staged[StagePath(p)] # Nothing
          /\ pc' = [pc EXCEPT ![p] = "failed"]
          /\ UNCHANGED <<staged, fault>>
       \/ /\ pc' \in {[pc EXCEPT ![p] = e] : e \in {"failed", "denied"}}
          /\ fault' = [fault EXCEPT ![p] = @ \cup {"io"}]
          /\ UNCHANGED staged
    /\ UNCHANGED <<setting, server, exe, disk, locals>>

(* set_permissions (those of the file being replaced), write_all, sync_all. *)
WriteStaged(p) ==
    /\ pc[p] = "write"
    /\ staged' = [staged EXCEPT ![StagePath(p)] = [bin |-> new[p], mode |-> exe.mode]]
    /\ pc' = [pc EXCEPT ![p] = "rename"]
    /\ UNCHANGED <<setting, server, exe, disk, locals, fault>>

Rename_Unsynced(p) ==
    /\ pc[p] = "rename" /\ ~setting.windows
    /\ exe' = staged[StagePath(p)]
    /\ disk' = disk \cup {exe', [exe' EXCEPT !.bin.whole = FALSE]}
    /\ staged' = [staged EXCEPT ![StagePath(p)] = Nothing]
    /\ pc' = [pc EXCEPT ![p] = "updated"]
    /\ UNCHANGED <<setting, server, locals, fault>>

(* The rename, then disarm. The directory is not synced: after a power loss *)
(* the path may hold the old file again. Windows refuses to replace a       *)
(* running image, and p itself runs this one.                               *)
Rename(p) ==
    /\ pc[p] = "rename" /\ ~setting.windows
    /\ exe' = staged[StagePath(p)]
    /\ disk' = disk \cup {exe'}
    /\ staged' = [staged EXCEPT ![StagePath(p)] = Nothing]
    /\ pc' = [pc EXCEPT ![p] = "updated"]
    /\ UNCHANGED <<setting, server, locals, fault>>

(* classify_replace_error: exit 3 when the OS denied it, else 1. *)
ReplaceFails(p) ==
    /\ pc[p] \in {"write", "rename"}
    /\ \E e \in {"failed", "denied"} :
           /\ setting.windows /\ pc[p] = "rename" => e = "denied"
           /\ pc' = [pc EXCEPT ![p] = e]
    /\ Drop(p)
    /\ UNCHANGED <<setting, server, exe, disk, locals>>

----------------------------------------------------------------------------
(* The surroundings. *)

(* A new release; `latest` may or may not move to it. *)
Publish ==
    /\ \E v \in Releases \ published :
           /\ published' = published \cup {v}
           /\ latest' \in {latest, v}
    /\ fault' = [p \in Proc |-> IF pc[p] \in {"sums", "bundle", "archive"} /\ latest' # latest
                                THEN fault[p] \cup {"moved"} ELSE fault[p]]
    /\ UNCHANGED <<setting, files, locals, pc>>

(* Ctrl-C or a kill: nothing is dropped. *)
Crash(p) ==
    /\ pc[p] \in Busy
    /\ pc' = [pc EXCEPT ![p] = "dead"]
    /\ UNCHANGED <<setting, server, files, locals, fault>>

PowerLoss ==
    /\ \E p \in Proc : pc[p] # "idle"
    /\ pc' = [p \in Proc |-> IF pc[p] \in Busy THEN "dead" ELSE pc[p]]
    /\ exe' \in disk /\ disk' = {exe'}
    /\ UNCHANGED <<setting, server, staged, locals, fault>>

Next ==
    \/ \E p \in Proc :
        \/ \E r \in Request : Start(p, r)
        \/ FetchFails(p) \/ FetchChecksums(p) \/ FetchBundle(p) \/ FetchArchive(p)
        \/ Stage(p) \/ WriteStaged(p) \/ Rename(p) \/ ReplaceFails(p)
        \/ Crash(p)
    \/ Publish
    \/ PowerLoss

Spec == Init /\ [][Next]_vars

----------------------------------------------------------------------------
(* Properties. *)

(* Whatever the server answers and whenever a process or the machine stops, *)
(* the installed executable is whole, has the permissions it was installed  *)
(* with, and comes from the release workflow unless someone passed          *)
(* --insecure (update.rs: "the installed executable is unchanged in every   *)
(* case"; replace.rs: written, synced, then renamed).                       *)
InstalledVerified ==
    \A f \in {exe} \cup disk :
        /\ f.bin.whole /\ f.mode = "installed"
        /\ f.bin.genuine \/ \E p \in Proc : pc[p] = "updated" /\ req[p].insecure

(* An update that verifies installs the version that was asked for, or one  *)
(* not older than the version that runs; it touches neither a container     *)
(* image nor, without --yes, a file that a package manager owns.            *)
InstallsWhatWasAsked ==
    [][\A p \in Proc : pc[p] = "rename" /\ pc'[p] = "updated" =>
          /\ exe'.bin.genuine \/ req[p].insecure
          /\ req[p].insecure \/ (IF req[p].to # Nothing
                                 THEN exe'.bin.ver = req[p].to
                                 ELSE exe'.bin.ver.core >= cur[p].core)
          /\ ~req[p].container /\ (setting.place = "local" \/ req[p].yes)]_vars

(* Only a killed update leaves a staging file beside the executable, or one *)
(* that the OS did not let it remove (replace.rs: "the installed executable *)
(* and its directory are left as they were").                               *)
NoLitter ==
    \A f \in {g \in Proc : staged[g] # Nothing} : \E p \in Proc :
        /\ StagePath(p) = f
        /\ pc[p] \in {"write", "rename", "dead"} \/ "leftover" \in fault[p]

(* Against the project's own server, an update of a release that exists for *)
(* this platform fails only when a request or the file system failed, or    *)
(* `latest` moved between its requests: a concurrent update, or what a      *)
(* killed one left behind, is never the reason.                             *)
FailsForAReason ==
    \A p \in Proc : pc[p] \in {"failed", "denied"} =>
        \/ fault[p] # {} \/ setting.mirror
        \/ ~Parses(req[p].to)
        \/ sums[p] # NoSums /\ sums[p].sum = Nothing

(* At every step, kill and power loss included, the installation is sound:   *)
(* a whole and verified executable, and no staging file beside it that       *)
(* nobody is working on.                                                     *)
InstallationSound == TypeOK /\ InstalledVerified /\ NoLitter

=============================================================================
