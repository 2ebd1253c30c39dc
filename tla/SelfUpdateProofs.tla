-------------------------- MODULE SelfUpdateProofs --------------------------
(***************************************************************************)
(* Proofs about SelfUpdate for any set of updates, any releases, settings  *)
(* and command lines.  The invariant follows one update: that its owner    *)
(* and its request were checked before it fetched, that what it is to      *)
(* install is covered by checksums that the release workflow signed, what  *)
(* its staging file holds, and why it may have failed.                     *)
(***************************************************************************)
EXTENDS SelfUpdate, TLAPS

Installing == {"archive", "stat", "write", "rename"}
Replacing == {"stat", "write", "rename"}

Types ==
    /\ setting \in Setting
    /\ published \subseteq Releases /\ latest \in published
    /\ exe \in File /\ disk \subseteq File
    /\ staged \in [Proc -> File \cup {Nothing}]
    /\ pc \in [Proc -> {"idle"} \cup Busy \cup End]
    /\ req \in [Proc -> Request \cup {Nothing}]
    /\ cur \in [Proc -> Version \cup {Nothing}]
    /\ sums \in [Proc -> AnySums \cup {NoSums}]
    /\ ver \in [Proc -> Version \cup {Nothing}]
    /\ new \in [Proc -> Binary \cup {Nothing}]
    /\ fault \in [Proc -> SUBSET {"fetch", "moved", "io", "leftover"}]

(* An update at work was asked for a version or for the latest, may touch    *)
(* the file, and installs what was asked for or nothing older.               *)
Asked(p) ==
    /\ pc[p] # "idle" => req[p] \in Request /\ cur[p] \in Version
    /\ pc[p] \in Busy => Parses(req[p].to) /\ CheckOwner(Classify(req[p].container), req[p].yes)
    /\ pc[p] \in Installing =>
          /\ ver[p] \in Version
          /\ IF req[p].to # Nothing THEN ver[p] = req[p].to ELSE ~IsOlder(ver[p], cur[p])

(* Unless it is insecure, what an update installs is listed in checksums     *)
(* that the release workflow signed.  From the project's own server the      *)
(* checksums are those of the release addressed, or `latest` has moved.      *)
Verified(p) ==
    /\ pc[p] = "bundle" => ~req[p].insecure
    /\ pc[p] = "bundle" /\ ~setting.mirror =>
          \E v \in Releases :
             /\ sums[p] = SignedSums(v)
             /\ v = Addressed(p) \/ (req[p].to = Nothing /\ "moved" \in fault[p])
    /\ pc[p] \in Installing /\ ~req[p].insecure =>
          ver[p] \in Releases /\ ver[p].core \notin NoAsset /\ sums[p] = SignedSums(ver[p])
    /\ pc[p] \in Replacing =>
          /\ new[p] \in Binary /\ new[p].whole
          /\ req[p].insecure \/ new[p] = Genuine(ver[p])

(* The staging file of an update: none before it is made, complete and with  *)
(* the right mode when it is renamed, and left behind only by a kill or by a *)
(* removal that failed.                                                      *)
Staging(p) ==
    /\ pc[p] \in {"idle", "sums", "bundle", "archive", "stat"} => staged[p] = Nothing
    /\ pc[p] = "rename" => staged[p] = [bin |-> new[p], mode |-> "installed"]
    /\ staged[p] # Nothing => pc[p] \in {"write", "rename", "dead"} \/ "leftover" \in fault[p]

(* FailsForAReason, of one update. *)
Reason(p) ==
    pc[p] \in {"failed", "denied"} =>
        \/ fault[p] # {} \/ setting.mirror
        \/ ~Parses(req[p].to)
        \/ sums[p] # NoSums /\ sums[p].sum = Nothing

Knows(p) == Asked(p) /\ Verified(p) /\ Staging(p) /\ Reason(p)

Inv == Types /\ InstalledVerified /\ \A p \in Proc : Knows(p)

-----------------------------------------------------------------------------
(* Releases, archives and checksums *)

(* A release is a version, and its executable a genuine and whole one. *)
LEMMA ReleaseFacts ==
  /\ Releases \subseteq Version
  /\ \A v \in Version : Genuine(v) \in Binary
  /\ Release(1) \in Releases
  /\ Nothing \notin Releases
<1>1. \A n \in 1 .. MaxCore : Release(n) \in Version
  BY DEF Release, Version
<1>2. Releases \subseteq Version
  BY <1>1 DEF Releases
<1>3. Release(1) \in Releases
  BY UpdateAssumption DEF Releases
<1>4. QED BY <1>2, <1>3, UpdateAssumption DEF Genuine, Binary

(* What an archive may hold. *)
LEMMA ArchiveFacts ==
  ASSUME NEW a \in AnyArchive
  PROVE  a.bin \in Binary /\ a.bin.whole
<1>1. CASE a \in {Packed(Genuine(v)) : v \in Releases}
  <2>1. PICK v \in Releases : a = Packed(Genuine(v))
    BY <1>1
  <2>2. QED BY <2>1, ReleaseFacts DEF Packed, Genuine
<1>2. CASE \E e \in {"file", "bad"} : a = [bin |-> Forged, entry |-> e]
  <2>1. Forged \in Binary /\ Forged.whole
    BY ReleaseFacts DEF Forged, Binary
  <2>2. QED BY <1>2, <2>1
<1>3. QED BY <1>1, <1>2 DEF AnyArchive

(* The checksums of a release list its archive, if there is one. *)
LEMMA SignedFacts ==
  ASSUME NEW v \in Releases
  PROVE  /\ SignedSums(v) \in AnySums /\ SignedSums(v).ver = v
         /\ v.core \in NoAsset => SignedSums(v).sum = Nothing
         /\ v.core \notin NoAsset => SignedSums(v).sum = Packed(Genuine(v))
BY DEF SignedSums, AnySums

(* Checksums list one release. *)
LEMMA SumsFacts ==
  ASSUME NEW s \in AnySums
  PROVE  s.ver \in Releases /\ s # NoSums
<1>1. s.ver \in Releases
  BY DEF AnySums, SignedSums
<1>2. NoSums.ver = Nothing
  BY DEF NoSums
<1>3. QED BY <1>1, <1>2, ReleaseFacts

(* Servers and mirrors answer with checksums, with bundles, of which those   *)
(* of the release workflow are over signed checksums, and with archives.     *)
LEMMA Served ==
  ASSUME Types, NEW p \in Proc
  PROVE  /\ ServedSums(p) \subseteq AnySums
         /\ ~setting.mirror => \A s \in ServedSums(p) :
               Addressed(p) \in Releases /\ s = SignedSums(Addressed(p))
         /\ \A b \in ServedBundles(p) : b.by = "release.yml" =>
               \E v \in Releases : b.over = SignedSums(v)
         /\ ~setting.mirror => \A b \in ServedBundles(p) :
               b.by = "release.yml" /\ b.over = SignedSums(Addressed(p))
         /\ ServedArchives(p) \subseteq AnyArchive
         /\ ~setting.mirror => \A a \in ServedArchives(p) :
               a = Packed(Genuine(ver[p])) /\ ver[p].core \notin NoAsset
<1>1. published \subseteq Releases
  BY DEF Types
<1>2. ServedSums(p) \subseteq AnySums
  BY <1>1, SignedFacts DEF ServedSums
<1>3. ~setting.mirror => \A s \in ServedSums(p) :
         Addressed(p) \in Releases /\ s = SignedSums(Addressed(p))
  BY <1>1 DEF ServedSums
<1>4. \A b \in ServedBundles(p) : b.by = "release.yml" => \E v \in Releases : b.over = SignedSums(v)
  BY <1>1 DEF ServedBundles, ReleaseBundles
<1>5. ~setting.mirror => \A b \in ServedBundles(p) :
         b.by = "release.yml" /\ b.over = SignedSums(Addressed(p))
  BY DEF ServedBundles, ReleaseBundles
<1>6. ServedArchives(p) \subseteq AnyArchive
  BY <1>1 DEF ServedArchives, AnyArchive
<1>7. ~setting.mirror => \A a \in ServedArchives(p) :
         a = Packed(Genuine(ver[p])) /\ ver[p].core \notin NoAsset
  BY DEF ServedArchives
<1>8. QED BY <1>2, <1>3, <1>4, <1>5, <1>6, <1>7

(* A command line that names a version names one, and flags are flags. *)
LEMMA RequestFacts ==
  ASSUME NEW r \in Request
  PROVE  /\ r.to \in Version \cup {Nothing, Garbage}
         /\ r.insecure \in BOOLEAN /\ r.yes \in BOOLEAN /\ r.container \in BOOLEAN
         /\ Parses(r.to) => r.to \in Version \cup {Nothing}
BY UpdateAssumption DEF Parses

-----------------------------------------------------------------------------
(* Types *)

(* Initially the executable is the one that was installed. *)
LEMMA InitInv == Init => Inv
<1> SUFFICES ASSUME Init PROVE Inv
  OBVIOUS
<1>1. PICK v \in Version : exe = [bin |-> Genuine(v), mode |-> "installed"]
  BY UpdateAssumption DEF Init
<1>2. Genuine(v) \in Binary /\ Genuine(v).whole /\ Genuine(v).genuine
  BY ReleaseFacts DEF Genuine
<1>3. exe \in File /\ disk = {exe}
  BY <1>1, <1>2 DEF Init, File
<1>4. Types
  BY <1>3, ReleaseFacts DEF Init, Types
<1>5. InstalledVerified
  BY <1>1, <1>2, <1>3 DEF InstalledVerified
<1>6. \A p \in Proc : Knows(p)
  BY DEF Init, Knows, Asked, Verified, Staging, Reason, Busy, Installing, Replacing
<1>7. QED BY <1>4, <1>5, <1>6 DEF Inv

(* What an update decides between the checksums and the archive. *)
LEMMA DecideFacts ==
  ASSUME Types, NEW p \in Proc, req[p] \in Request, Parses(req[p].to), NEW s \in AnySums,
         Decide(p, s)
  PROVE  \E v \in Version \cup {Nothing} :
           /\ sums' = [sums EXCEPT ![p] = s] /\ ver' = [ver EXCEPT ![p] = v]
           /\ v = IF req[p].to # Nothing THEN req[p].to ELSE LatestVersion(s)
           /\ \/ pc' = [pc EXCEPT ![p] = "failed"]
                 /\ (v = Nothing \/ (ExpectedSum(s, v) = Nothing /\ ~req[p].insecure))
              \/ pc' = [pc EXCEPT ![p] = "current"]
              \/ pc' = [pc EXCEPT ![p] = "newer"]
              \/ /\ pc' = [pc EXCEPT ![p] = "archive"]
                 /\ v # Nothing
                 /\ req[p].to = Nothing => ~IsOlder(v, cur[p])
                 /\ ExpectedSum(s, v) # Nothing \/ req[p].insecure
<1> DEFINE v == IF req[p].to # Nothing THEN req[p].to ELSE LatestVersion(s)
<1>1. v \in Version \cup {Nothing}
  <2>1. LatestVersion(s) \in Version \cup {Nothing}
    BY SumsFacts, ReleaseFacts DEF LatestVersion
  <2>2. QED BY <2>1, RequestFacts
<1>2. sums' = [sums EXCEPT ![p] = s] /\ ver' = [ver EXCEPT ![p] = v]
  BY DEF Decide
<1>3. pc' = [pc EXCEPT ![p] =
              IF v = Nothing THEN "failed"
              ELSE IF v = cur[p] THEN "current"
              ELSE IF req[p].to = Nothing /\ IsOlder(v, cur[p]) THEN "newer"
              ELSE IF ExpectedSum(s, v) = Nothing /\ ~req[p].insecure THEN "failed"
              ELSE "archive"]
  BY DEF Decide
<1>4. v = IF req[p].to # Nothing THEN req[p].to ELSE LatestVersion(s)
  OBVIOUS
<1> HIDE DEF v
<1>5. QED BY <1>1, <1>2, <1>3, <1>4

(* Steps up to the archive keep the types. *)
LEMMA FetchTyped ==
  ASSUME Types, NEW p \in Proc, Knows(p),
         \/ \E r \in Request : Start(p, r)
         \/ FetchFails(p) \/ FetchChecksums(p) \/ FetchBundle(p) \/ FetchArchive(p)
  PROVE  Types'
<1> USE DEF server, files, locals
<1> {"delegated", "failed", "current", "newer", "archive", "sums", "bundle", "stat"}
      \subseteq {"idle"} \cup Busy \cup End
  BY DEF Busy, End
<1>1. ASSUME NEW r \in Request, Start(p, r) PROVE Types'
  <2>1. exe.bin.ver \in Version
    BY DEF Types, File, Binary
  <2>2. cur' \in [Proc -> Version \cup {Nothing}] /\ req' \in [Proc -> Request \cup {Nothing}]
    BY <1>1, <2>1 DEF Start, Types
  <2>3. ver' \in [Proc -> Version \cup {Nothing}]
    <3>1. ver' = ver \/ (Parses(r.to) /\ ver' = [ver EXCEPT ![p] = r.to])
      BY <1>1 DEF Start
    <3>2. QED BY <3>1, RequestFacts DEF Types
  <2>4. pc' \in [Proc -> {"idle"} \cup Busy \cup End]
    BY <1>1 DEF Start, Types
  <2>5. QED BY <1>1, <2>2, <2>3, <2>4 DEF Start, Types
<1>2. CASE FetchFails(p)
  BY <1>2 DEF FetchFails, Types
<1>3. ASSUME NEW s \in AnySums, Decide(p, s), pc[p] \in {"sums", "bundle"},
             UNCHANGED <<setting, server, files, req, cur, new, fault>>
      PROVE  Types'
  <2>1. req[p] \in Request /\ Parses(req[p].to)
    BY <1>3 DEF Knows, Asked, Busy
  <2>2. PICK v \in Version \cup {Nothing} :
           /\ sums' = [sums EXCEPT ![p] = s] /\ ver' = [ver EXCEPT ![p] = v]
           /\ \E c \in {"failed", "current", "newer", "archive"} : pc' = [pc EXCEPT ![p] = c]
    BY <1>3, <2>1, DecideFacts
  <2>3. QED BY <1>3, <2>2 DEF Types
<1>4. CASE FetchChecksums(p)
  <2>1. PICK s \in AnySums :
          \/ Decide(p, s)
          \/ /\ sums' = [sums EXCEPT ![p] = s] /\ pc' = [pc EXCEPT ![p] = "bundle"]
             /\ UNCHANGED ver
    BY <1>4, Served DEF FetchChecksums
  <2>2. pc[p] = "sums" /\ UNCHANGED <<setting, server, files, req, cur, new, fault>>
    BY <1>4 DEF FetchChecksums
  <2>3. CASE Decide(p, s)
    BY <1>3, <2>2, <2>3
  <2>4. CASE ~Decide(p, s)
    BY <2>1, <2>2, <2>4 DEF Types
  <2>5. QED BY <2>3, <2>4
<1>5. CASE FetchBundle(p)
  <2>1. \/ Decide(p, sums[p]) /\ sums[p] \in AnySums
        \/ pc' = [pc EXCEPT ![p] = "failed"] /\ UNCHANGED <<sums, ver>>
    <3>1. PICK b \in ServedBundles(p) :
            IF Verify(sums[p], b) THEN Decide(p, sums[p])
            ELSE pc' = [pc EXCEPT ![p] = "failed"] /\ UNCHANGED <<sums, ver>>
      BY <1>5 DEF FetchBundle
    <3>2. Verify(sums[p], b) => sums[p] \in AnySums
      BY Served, SignedFacts DEF Verify
    <3>3. QED BY <3>1, <3>2
  <2>2. pc[p] = "bundle" /\ UNCHANGED <<setting, server, files, req, cur, new, fault>>
    BY <1>5 DEF FetchBundle
  <2>3. CASE Decide(p, sums[p]) /\ sums[p] \in AnySums
    BY <1>3, <2>2, <2>3
  <2>4. CASE pc' = [pc EXCEPT ![p] = "failed"] /\ UNCHANGED <<sums, ver>>
    BY <2>2, <2>4 DEF Types
  <2>5. QED BY <2>1, <2>3, <2>4
<1>6. CASE FetchArchive(p)
  <2>1. PICK a \in AnyArchive :
          \/ pc' = [pc EXCEPT ![p] = "stat"] /\ new' = [new EXCEPT ![p] = a.bin]
          \/ pc' = [pc EXCEPT ![p] = "failed"] /\ new' = new
    BY <1>6, Served DEF FetchArchive
  <2>2. a.bin \in Binary
    BY ArchiveFacts
  <2>3. QED BY <1>6, <2>1, <2>2 DEF FetchArchive, Types
<1>7. QED BY <1>1, <1>2, <1>4, <1>5, <1>6

(* Replacing the file and the surroundings keep the types. *)
LEMMA ReplaceTyped ==
  ASSUME Types, \A p \in Proc : Knows(p), InstalledVerified,
         \/ \E p \in Proc : Stage(p) \/ WriteStaged(p) \/ Rename(p) \/ ReplaceFails(p) \/ Crash(p)
         \/ Publish \/ PowerLoss
  PROVE  Types'
<1> USE DEF server, files, locals, StagePath
<1> {"failed", "denied", "write", "rename", "updated", "dead"} \subseteq {"idle"} \cup Busy \cup End
  BY DEF Busy, End
<1>1. ASSUME NEW p \in Proc, Stage(p) PROVE Types'
  <2>1. new[p] \in Binary
    BY <1>1 DEF Stage, Knows, Verified, Replacing
  <2>2. [bin |-> [new[p] EXCEPT !.whole = FALSE], mode |-> "default"] \in File
    BY <2>1 DEF File, Binary
  <2>3. staged' \in [Proc -> File \cup {Nothing}] /\ pc' \in [Proc -> {"idle"} \cup Busy \cup End]
    <3>1. PICK f \in File : staged' = staged \/ staged' = [staged EXCEPT ![p] = f]
      BY <1>1, <2>2 DEF Stage
    <3>2. \E e \in {"write", "failed", "denied"} : pc' = [pc EXCEPT ![p] = e]
      BY <1>1 DEF Stage
    <3>3. QED BY <3>1, <3>2 DEF Types
  <2>4. fault' \in [Proc -> SUBSET {"fetch", "moved", "io", "leftover"}]
    <3>1. fault' = fault \/ fault' = [fault EXCEPT ![p] = fault[p] \cup {"io"}]
      BY <1>1 DEF Stage
    <3>2. QED BY <3>1 DEF Types
  <2>5. QED BY <1>1, <2>3, <2>4 DEF Stage, Types
<1>2. ASSUME NEW p \in Proc, WriteStaged(p) PROVE Types'
  <2>1. new[p] \in Binary /\ exe.mode \in {"installed", "default"}
    BY <1>2 DEF WriteStaged, Knows, Verified, Replacing, Types, File
  <2>2. [bin |-> new[p], mode |-> exe.mode] \in File
    BY <2>1 DEF File
  <2>3. QED BY <1>2, <2>2 DEF WriteStaged, Types
<1>3. ASSUME NEW p \in Proc, Rename(p) PROVE Types'
  <2>1. staged[p] \in File
    <3>1. new[p] \in Binary /\ staged[p] = [bin |-> new[p], mode |-> "installed"]
      BY <1>3 DEF Rename, Knows, Staging, Verified, Replacing
    <3>2. QED BY <3>1 DEF File
  <2>2. QED BY <1>3, <2>1 DEF Rename, Types
<1>4. ASSUME NEW p \in Proc, ReplaceFails(p) PROVE Types'
  <2>1. /\ staged' \in [Proc -> File \cup {Nothing}]
        /\ fault' \in [Proc -> SUBSET {"fetch", "moved", "io", "leftover"}]
    <3>1. /\ staged' = staged \/ staged' = [staged EXCEPT ![p] = Nothing]
          /\ \/ fault' = [fault EXCEPT ![p] = fault[p] \cup {"io"}]
             \/ fault' = [fault EXCEPT ![p] = fault[p] \cup {"io", "leftover"}]
      BY <1>4 DEF ReplaceFails, Drop
    <3>2. QED BY <3>1 DEF Types
  <2>2. /\ \E e \in {"failed", "denied"} : pc' = [pc EXCEPT ![p] = e]
        /\ UNCHANGED <<setting, server, exe, disk, locals>>
    BY <1>4 DEF ReplaceFails
  <2>3. QED BY <2>1, <2>2 DEF Types
<1>5. ASSUME NEW p \in Proc, Crash(p) PROVE Types'
  BY <1>5 DEF Crash, Types
<1>6. CASE Publish
  BY <1>6 DEF Publish, Types
<1>7. CASE PowerLoss
  BY <1>7 DEF PowerLoss, Types
<1>8. QED BY <1>1, <1>2, <1>3, <1>4, <1>5, <1>6, <1>7

-----------------------------------------------------------------------------
(* The life of one update *)

(* What a step of another leaves alone of q. *)
SameOf(q) ==
    /\ pc'[q] = pc[q] /\ req'[q] = req[q] /\ cur'[q] = cur[q] /\ sums'[q] = sums[q]
    /\ ver'[q] = ver[q] /\ new'[q] = new[q] /\ staged'[q] = staged[q] /\ fault'[q] = fault[q]

(* An update that is left alone knows what it knew. *)
LEMMA SameKnows ==
  ASSUME NEW q \in Proc, Knows(q), SameOf(q), setting' = setting, latest' = latest
  PROVE  Knows(q)'
<1>1. Addressed(q)' = Addressed(q)
  BY DEF Addressed, SameOf
<1>2. Asked(q)'
  BY DEF Knows, Asked, SameOf, Classify
<1>3. Verified(q)'
  BY <1>1 DEF Knows, Verified, SameOf
<1>4. Staging(q)' /\ Reason(q)'
  BY DEF Knows, Staging, Reason, SameOf
<1>5. QED BY <1>2, <1>3, <1>4 DEF Knows

StepOf(p) ==
    \/ \E r \in Request : Start(p, r)
    \/ FetchFails(p) \/ FetchChecksums(p) \/ FetchBundle(p) \/ FetchArchive(p)
    \/ Stage(p) \/ WriteStaged(p) \/ Rename(p) \/ ReplaceFails(p)
    \/ Crash(p)

(* A step of p leaves every other update and the server alone. *)
LEMMA OthersSame ==
  ASSUME Types, NEW p \in Proc, StepOf(p)
  PROVE  (\A q \in Proc \ {p} : SameOf(q)) /\ setting' = setting /\ latest' = latest
<1> USE DEF Types, SameOf, server, files, locals, StagePath
<1>1. CASE \E r \in Request : Start(p, r)
  BY <1>1 DEF Start
<1>2. CASE FetchFails(p) \/ Crash(p)
  BY <1>2 DEF FetchFails, Crash
<1>3. CASE FetchChecksums(p)
  BY <1>3 DEF FetchChecksums, Decide
<1>4. CASE FetchBundle(p)
  BY <1>4 DEF FetchBundle, Decide
<1>5. CASE FetchArchive(p)
  BY <1>5 DEF FetchArchive
<1>6. CASE Stage(p)
  BY <1>6 DEF Stage
<1>7. CASE WriteStaged(p) \/ Rename(p)
  BY <1>7 DEF WriteStaged, Rename
<1>8. CASE ReplaceFails(p)
  BY <1>8 DEF ReplaceFails, Drop
<1>9. QED BY <1>1, <1>2, <1>3, <1>4, <1>5, <1>6, <1>7, <1>8 DEF StepOf

(* run_update_cli up to the first request. *)
LEMMA StartKnows ==
  ASSUME Types, NEW p \in Proc, Knows(p), NEW r \in Request, Start(p, r)
  PROVE  Knows(p)'
<1> USE DEF server, files, locals
<1>1. /\ pc[p] = "idle" /\ req'[p] = r /\ cur'[p] \in Version
      /\ UNCHANGED <<setting, latest, staged, sums, new, fault>>
  BY DEF Start, Types, File, Binary
<1>2. \/ pc'[p] = "delegated"
      \/ pc'[p] = "failed" /\ ~Parses(r.to)
      \/ pc'[p] = "current"
      \/ /\ pc'[p] = "archive" /\ r.insecure /\ r.to # Nothing /\ ver'[p] = r.to
         /\ Parses(r.to) /\ CheckOwner(Classify(r.container), r.yes)
      \/ pc'[p] = "sums" /\ Parses(r.to) /\ CheckOwner(Classify(r.container), r.yes)
  BY DEF Start, Types
<1>3. Classify(r.container)' = Classify(r.container)
  BY <1>1 DEF Classify
<1>4. Asked(p)'
  <2>1. pc'[p] = "archive" => ver'[p] \in Version
    BY <1>2, RequestFacts
  <2>2. QED BY <1>1, <1>2, <1>3, <2>1 DEF Asked, Busy, Installing
<1>5. Verified(p)'
  BY <1>1, <1>2 DEF Verified, Installing, Replacing
<1>6. Staging(p)'
  BY <1>1, <1>2 DEF Knows, Staging
<1>7. Reason(p)'
  BY <1>1, <1>2 DEF Reason
<1>8. QED BY <1>4, <1>5, <1>6, <1>7 DEF Knows

(* The decision between the checksums and the archive, given checksums that  *)
(* are signed unless the update is insecure.                                 *)
LEMMA DecideKnows ==
  ASSUME Types, NEW p \in Proc, Knows(p), pc[p] \in {"sums", "bundle"}, NEW s \in AnySums,
         Decide(p, s), UNCHANGED <<setting, latest, staged, req, cur, new, fault>>,
         ~req[p].insecure => \E v \in Releases : s = SignedSums(v),
         ~req[p].insecure /\ ~setting.mirror /\ fault[p] = {} /\ req[p].to # Nothing
            => s.ver = req[p].to
  PROVE  Knows(p)'
<1>1. req[p] \in Request /\ cur[p] \in Version /\ Parses(req[p].to)
      /\ CheckOwner(Classify(req[p].container), req[p].yes) /\ staged[p] = Nothing
  BY DEF Knows, Asked, Staging, Busy
<1>2. PICK v \in Version \cup {Nothing} :
        /\ sums' = [sums EXCEPT ![p] = s] /\ ver' = [ver EXCEPT ![p] = v]
        /\ v = IF req[p].to # Nothing THEN req[p].to ELSE LatestVersion(s)
        /\ \/ pc' = [pc EXCEPT ![p] = "failed"]
              /\ (v = Nothing \/ (ExpectedSum(s, v) = Nothing /\ ~req[p].insecure))
           \/ pc' = [pc EXCEPT ![p] = "current"]
           \/ pc' = [pc EXCEPT ![p] = "newer"]
           \/ /\ pc' = [pc EXCEPT ![p] = "archive"]
              /\ v # Nothing
              /\ req[p].to = Nothing => ~IsOlder(v, cur[p])
              /\ ExpectedSum(s, v) # Nothing \/ req[p].insecure
  BY <1>1, DecideFacts
<1>3. sums'[p] = s /\ ver'[p] = v /\ pc'[p] \in {"failed", "current", "newer", "archive"}
  BY <1>2 DEF Types
<1>4. /\ pc'[p] = "failed" => v = Nothing \/ (ExpectedSum(s, v) = Nothing /\ ~req[p].insecure)
      /\ pc'[p] = "archive" =>
            /\ v \in Version
            /\ req[p].to = Nothing => ~IsOlder(v, cur[p])
            /\ ExpectedSum(s, v) # Nothing \/ req[p].insecure
  BY <1>2 DEF Types
<1>5. Asked(p)'
  <2>1. Classify(req[p].container)' = Classify(req[p].container)
    BY DEF Classify
  <2>2. QED BY <1>1, <1>2, <1>3, <1>4, <2>1 DEF Asked, Busy, Installing
<1>6. Verified(p)'
  <2>1. ASSUME pc'[p] = "archive", ~req[p].insecure
        PROVE  v \in Releases /\ v.core \notin NoAsset /\ s = SignedSums(v)
    <3>1. PICK w \in Releases : s = SignedSums(w)
      BY <2>1
    <3>2. s.ver = v /\ s.sum # Nothing
      BY <1>4, <2>1 DEF ExpectedSum
    <3>3. QED BY <3>1, <3>2, SignedFacts
  <2>2. QED BY <1>3, <2>1 DEF Verified, Installing, Replacing
<1>7. Staging(p)'
  BY <1>1, <1>3 DEF Staging
<1>8. Reason(p)'
  <2> SUFFICES ASSUME pc'[p] = "failed", fault[p] = {}, ~setting.mirror PROVE s.sum = Nothing
    BY <1>3, SumsFacts DEF Reason
  <2>1. CASE v = Nothing
    <3>1. LatestVersion(s) = Nothing
      BY <1>2, <2>1
    <3>2. QED BY <3>1, SumsFacts, ReleaseFacts DEF LatestVersion
  <2>2. CASE v # Nothing
    <3>1. ExpectedSum(s, v) = Nothing /\ ~req[p].insecure
      BY <1>4, <2>2
    <3>2. s.ver = v
      BY <1>2, <2>2, <3>1 DEF LatestVersion
    <3>3. QED BY <3>1, <3>2 DEF ExpectedSum
  <2>3. QED BY <2>1, <2>2
<1>9. QED BY <1>5, <1>6, <1>7, <1>8 DEF Knows

(* A request that fails leaves its reason. *)
LEMMA FetchFailsKnows ==
  ASSUME Types, NEW p \in Proc, Knows(p), FetchFails(p) \/ Crash(p)
  PROVE  Knows(p)'
<1> USE DEF server, files, locals
<1>1. CASE FetchFails(p)
  <2>1. pc[p] \in {"sums", "bundle", "archive"} /\ pc'[p] = "failed" /\ fault'[p] # {}
        /\ UNCHANGED <<setting, staged, req, cur>>
    BY <1>1 DEF FetchFails, Types
  <2>2. Asked(p)' /\ Verified(p)' /\ Staging(p)' /\ Reason(p)'
    BY <2>1 DEF Knows, Asked, Verified, Staging, Reason, Busy, Installing, Replacing
  <2>3. QED BY <2>2 DEF Knows
<1>2. CASE Crash(p)
  <2>1. pc[p] \in Busy /\ pc'[p] = "dead" /\ UNCHANGED <<setting, staged, req, cur>>
    BY <1>2 DEF Crash, Types
  <2>2. Asked(p)' /\ Verified(p)' /\ Staging(p)' /\ Reason(p)'
    BY <2>1 DEF Knows, Asked, Verified, Staging, Reason, Busy, Installing, Replacing
  <2>3. QED BY <2>2 DEF Knows
<1>3. QED BY <1>1, <1>2

(* Checksums are acted upon at once by an insecure update, and wait for      *)
(* their signature in any other.                                             *)
LEMMA FetchChecksumsKnows ==
  ASSUME Types, NEW p \in Proc, Knows(p), FetchChecksums(p)
  PROVE  Knows(p)'
<1> USE DEF server, files, locals
<1>1. pc[p] = "sums" /\ UNCHANGED <<setting, latest, staged, req, cur, new, fault>>
  BY DEF FetchChecksums
<1>2. PICK s \in ServedSums(p) :
        IF req[p].insecure THEN Decide(p, s)
        ELSE /\ sums' = [sums EXCEPT ![p] = s] /\ pc' = [pc EXCEPT ![p] = "bundle"]
             /\ UNCHANGED ver
  BY DEF FetchChecksums
<1>3. /\ s \in AnySums
      /\ ~setting.mirror => Addressed(p) \in Releases /\ s = SignedSums(Addressed(p))
  BY Served
<1>4. CASE req[p].insecure
  BY <1>1, <1>2, <1>3, <1>4, DecideKnows
<1>5. CASE ~req[p].insecure
  <2>1. sums'[p] = s /\ pc'[p] = "bundle"
    BY <1>2, <1>5 DEF Types
  <2>2. Addressed(p)' = Addressed(p) /\ Classify(req[p].container)' = Classify(req[p].container)
    BY <1>1 DEF Addressed, Classify
  <2>3. Asked(p)'
    BY <1>1, <2>1, <2>2 DEF Knows, Asked, Busy, Installing
  <2>4. Verified(p)'
    BY <1>1, <1>3, <1>5, <2>1, <2>2 DEF Verified, Installing, Replacing
  <2>5. Staging(p)' /\ Reason(p)'
    BY <1>1, <2>1 DEF Knows, Staging, Reason
  <2>6. QED BY <2>3, <2>4, <2>5 DEF Knows
<1>6. QED BY <1>4, <1>5

(* Checksums are acted upon only under a signature of the release workflow   *)
(* over these checksums; from the project's own server it fits, unless       *)
(* `latest` has moved.                                                       *)
LEMMA FetchBundleKnows ==
  ASSUME Types, NEW p \in Proc, Knows(p), FetchBundle(p)
  PROVE  Knows(p)'
<1> USE DEF server, files, locals
<1>1. pc[p] = "bundle" /\ UNCHANGED <<setting, latest, staged, req, cur, new, fault>>
  BY DEF FetchBundle
<1>2. PICK b \in ServedBundles(p) :
        IF Verify(sums[p], b) THEN Decide(p, sums[p])
        ELSE pc' = [pc EXCEPT ![p] = "failed"] /\ UNCHANGED <<sums, ver>>
  BY DEF FetchBundle
<1>3. /\ b.by = "release.yml" => \E v \in Releases : b.over = SignedSums(v)
      /\ ~setting.mirror => b.by = "release.yml" /\ b.over = SignedSums(Addressed(p))
  BY Served
<1>4. ~setting.mirror =>
        \E v \in Releases :
           /\ sums[p] = SignedSums(v)
           /\ v = Addressed(p) \/ (req[p].to = Nothing /\ "moved" \in fault[p])
  BY <1>1 DEF Knows, Verified
<1>5. CASE Verify(sums[p], b)
  <2>1. PICK v \in Releases : sums[p] = SignedSums(v)
    BY <1>3, <1>5 DEF Verify
  <2>2. sums[p] \in AnySums
    BY <2>1, SignedFacts
  <2>3. ~setting.mirror /\ fault[p] = {} /\ req[p].to # Nothing => sums[p].ver = req[p].to
    BY <1>4, SignedFacts DEF Addressed
  <2>4. Decide(p, sums[p])
    BY <1>2, <1>5
  <2>5. QED BY <1>1, <2>1, <2>2, <2>3, <2>4, DecideKnows
<1>6. CASE ~Verify(sums[p], b)
  <2>1. pc'[p] = "failed" /\ UNCHANGED <<sums, ver>>
    BY <1>2, <1>6 DEF Types
  <2>2. Asked(p)' /\ Verified(p)' /\ Staging(p)'
    BY <1>1, <2>1 DEF Knows, Asked, Verified, Staging, Busy, Installing, Replacing
  <2>3. Reason(p)'
    BY <1>1, <1>3, <1>4, <1>6, <2>1 DEF Reason, Verify
  <2>4. QED BY <2>2, <2>3 DEF Knows
<1>7. QED BY <1>5, <1>6

(* What is extracted is whole and, unless the update is insecure, the        *)
(* genuine executable of the version that was decided on.                    *)
LEMMA FetchArchiveKnows ==
  ASSUME Types, NEW p \in Proc, Knows(p), FetchArchive(p)
  PROVE  Knows(p)'
<1> USE DEF server, files, locals
<1>1. pc[p] = "archive" /\ UNCHANGED <<setting, latest, staged, req, cur, sums, ver, fault>>
  BY DEF FetchArchive
<1>2. PICK a \in ServedArchives(p) :
        IF /\ req[p].insecure \/ ExpectedSum(sums[p], ver[p]) = a
           /\ Extracts(a)
        THEN pc' = [pc EXCEPT ![p] = "stat"] /\ new' = [new EXCEPT ![p] = a.bin]
        ELSE pc' = [pc EXCEPT ![p] = "failed"] /\ new' = new
  BY DEF FetchArchive
<1>3. a \in AnyArchive /\ a.bin \in Binary /\ a.bin.whole
      /\ (~setting.mirror => a = Packed(Genuine(ver[p])))
  BY Served, ArchiveFacts
<1>4. ~req[p].insecure => ExpectedSum(sums[p], ver[p]) = Packed(Genuine(ver[p]))
  BY <1>1, SignedFacts DEF Knows, Verified, Installing, ExpectedSum
<1>5. /\ Packed(Genuine(ver[p])).bin = Genuine(ver[p])
      /\ Extracts(Packed(Genuine(ver[p])))
  BY DEF Packed, Extracts
<1>6. \/ /\ pc'[p] = "stat" /\ new'[p] = a.bin
         /\ req[p].insecure \/ a = Packed(Genuine(ver[p]))
      \/ pc'[p] = "failed" /\ setting.mirror
  <2>1. CASE /\ req[p].insecure \/ ExpectedSum(sums[p], ver[p]) = a
             /\ Extracts(a)
    BY <1>2, <1>4, <2>1 DEF Types
  <2>2. CASE ~(/\ req[p].insecure \/ ExpectedSum(sums[p], ver[p]) = a
               /\ Extracts(a))
    <3>1. setting.mirror
      BY <1>3, <1>4, <1>5, <2>2
    <3>2. QED BY <1>2, <2>2, <3>1 DEF Types
  <2>3. QED BY <2>1, <2>2
<1>7. Asked(p)'
  <2>1. Classify(req[p].container)' = Classify(req[p].container)
    BY <1>1 DEF Classify
  <2>2. QED BY <1>1, <1>6, <2>1 DEF Knows, Asked, Busy, Installing
<1>8. Verified(p)'
  BY <1>1, <1>3, <1>5, <1>6 DEF Knows, Verified, Installing, Replacing
<1>9. Staging(p)' /\ Reason(p)'
  BY <1>1, <1>6 DEF Knows, Staging, Reason
<1>10. QED BY <1>7, <1>8, <1>9 DEF Knows

(* The staging file is made, filled with the mode of the installed file, and *)
(* renamed; an OS error on the way is the reason of the failure, and a       *)
(* staging file that is already there never is.                              *)
LEMMA ReplaceKnows ==
  ASSUME Types, InstalledVerified, NEW p \in Proc, Knows(p),
         Stage(p) \/ WriteStaged(p) \/ Rename(p) \/ ReplaceFails(p)
  PROVE  Knows(p)'
<1> USE DEF server, files, locals, StagePath
<1>1. UNCHANGED <<setting, latest, req, cur, sums, ver, new>>
      /\ Classify(req[p].container)' = Classify(req[p].container)
  BY DEF Stage, WriteStaged, Rename, ReplaceFails, Classify
<1>2. CASE Stage(p)
  <2>1. pc[p] = "stat" /\ staged[p] = Nothing
    BY <1>2 DEF Stage, Knows, Staging
  <2>2. \/ pc'[p] = "write" /\ fault' = fault
        \/ pc'[p] \in {"failed", "denied"} /\ fault'[p] # {} /\ staged' = staged
    <3>1. \/ pc' = [pc EXCEPT ![p] = "write"] /\ fault' = fault
          \/ /\ \E e \in {"failed", "denied"} : pc' = [pc EXCEPT ![p] = e]
             /\ fault' = [fault EXCEPT ![p] = fault[p] \cup {"io"}] /\ staged' = staged
      BY <1>2, <2>1 DEF Stage
    <3>2. QED BY <3>1 DEF Types
  <2>3. Asked(p)' /\ Verified(p)'
    BY <1>1, <2>1, <2>2 DEF Knows, Asked, Verified, Busy, Installing, Replacing
  <2>4. Staging(p)' /\ Reason(p)'
    BY <1>1, <2>1, <2>2 DEF Staging, Reason
  <2>5. QED BY <2>3, <2>4 DEF Knows
<1>3. CASE WriteStaged(p)
  <2>1. exe.mode = "installed"
    BY DEF InstalledVerified
  <2>2. pc[p] = "write" /\ pc'[p] = "rename" /\ fault' = fault
        /\ staged'[p] = [bin |-> new[p], mode |-> "installed"]
    BY <1>3, <2>1 DEF WriteStaged, Types
  <2>3. Asked(p)' /\ Verified(p)'
    BY <1>1, <2>2 DEF Knows, Asked, Verified, Busy, Installing, Replacing
  <2>4. Staging(p)' /\ Reason(p)'
    BY <1>1, <2>2 DEF Staging, Reason
  <2>5. QED BY <2>3, <2>4 DEF Knows
<1>4. CASE Rename(p)
  <2>1. pc[p] = "rename" /\ pc'[p] = "updated" /\ staged'[p] = Nothing
    BY <1>4 DEF Rename, Types
  <2>2. Asked(p)' /\ Verified(p)'
    BY <1>1, <2>1 DEF Knows, Asked, Verified, Busy, Installing, Replacing
  <2>3. Staging(p)' /\ Reason(p)'
    BY <2>1 DEF Staging, Reason
  <2>4. QED BY <2>2, <2>3 DEF Knows
<1>5. CASE ReplaceFails(p)
  <2>1. pc[p] \in {"write", "rename"} /\ pc'[p] \in {"failed", "denied"}
    BY <1>5 DEF ReplaceFails, Types
  <2>2. fault'[p] # {} /\ (staged'[p] = Nothing \/ "leftover" \in fault'[p])
    BY <1>5 DEF ReplaceFails, Drop, Types
  <2>3. Asked(p)' /\ Verified(p)'
    BY <1>1, <2>1 DEF Knows, Asked, Verified, Busy, Installing, Replacing
  <2>4. Staging(p)' /\ Reason(p)'
    BY <2>1, <2>2 DEF Staging, Reason
  <2>5. QED BY <2>3, <2>4 DEF Knows
<1>6. QED BY <1>2, <1>3, <1>4, <1>5

(* A release appears: an update between two of its requests is told by the   *)
(* history that `latest` moved.  The machine stops: updates at work are over. *)
LEMMA SurroundingsKnow ==
  ASSUME Types, NEW p \in Proc, Knows(p), Publish \/ PowerLoss
  PROVE  Knows(p)'
<1> USE DEF server, files, locals
<1>1. UNCHANGED <<setting, staged, req, cur, sums, ver, new>>
      /\ Classify(req[p].container)' = Classify(req[p].container)
  BY DEF Publish, PowerLoss, Classify
<1>2. CASE Publish
  <2>1. pc' = pc /\ fault[p] \subseteq fault'[p]
        /\ (latest' = latest \/ (pc[p] = "bundle" => "moved" \in fault'[p]))
    BY <1>2 DEF Publish, Types
  <2>2. Asked(p)'
    BY <1>1, <2>1 DEF Knows, Asked
  <2>3. Verified(p)'
    <3>1. ASSUME pc[p] = "bundle", ~setting.mirror
          PROVE  \E v \in Releases :
                   /\ sums[p] = SignedSums(v)
                   /\ v = Addressed(p)' \/ (req[p].to = Nothing /\ "moved" \in fault'[p])
      <4>1. PICK v \in Releases :
              /\ sums[p] = SignedSums(v)
              /\ v = Addressed(p) \/ (req[p].to = Nothing /\ "moved" \in fault[p])
        BY <3>1 DEF Knows, Verified
      <4>2. CASE req[p].to = Nothing
        BY <1>1, <2>1, <3>1, <4>1, <4>2 DEF Addressed
      <4>3. CASE req[p].to # Nothing
        BY <1>1, <4>1, <4>3 DEF Addressed
      <4>4. QED BY <4>2, <4>3
    <3>2. QED BY <1>1, <2>1, <3>1 DEF Knows, Verified
  <2>4. Staging(p)' /\ Reason(p)'
    BY <1>1, <2>1 DEF Knows, Staging, Reason
  <2>5. QED BY <2>2, <2>3, <2>4 DEF Knows
<1>3. CASE PowerLoss
  <2>1. fault' = fault /\ latest' = latest
        /\ (IF pc[p] \in Busy THEN pc'[p] = "dead" ELSE pc'[p] = pc[p])
    BY <1>3 DEF PowerLoss, Types
  <2>2. pc'[p] \notin Busy
    BY <2>1 DEF Busy
  <2>3. Asked(p)' /\ Verified(p)'
    BY <1>1, <2>1, <2>2 DEF Knows, Asked, Verified, Busy, Installing, Replacing
  <2>4. Staging(p)' /\ Reason(p)'
    BY <1>1, <2>1, <2>2 DEF Knows, Staging, Reason, Busy
  <2>5. QED BY <2>3, <2>4 DEF Knows
<1>4. QED BY <1>2, <1>3

(* Whoever steps, every update knows what it must. *)
LEMMA NextKnows ==
  ASSUME Inv, Next
  PROVE  \A q \in Proc : Knows(q)'
<1> USE DEF Inv
<1>1. ASSUME NEW p \in Proc, StepOf(p) PROVE \A q \in Proc : Knows(q)'
  <2>1. Knows(p)'
    BY <1>1, StartKnows, FetchFailsKnows, FetchChecksumsKnows, FetchBundleKnows,
       FetchArchiveKnows, ReplaceKnows DEF StepOf
  <2>2. ASSUME NEW q \in Proc \ {p} PROVE Knows(q)'
    BY <1>1, OthersSame, SameKnows
  <2>3. QED BY <2>1, <2>2
<1>2. CASE Publish \/ PowerLoss
  BY <1>2, SurroundingsKnow
<1>3. QED BY <1>1, <1>2 DEF Next, StepOf

-----------------------------------------------------------------------------
(* The installed executable *)

(* An update that is over stays over, and its request with it. *)
LEMMA UpdatedStays ==
  ASSUME Types, Next, NEW q \in Proc, pc[q] = "updated"
  PROVE  pc'[q] = "updated" /\ req'[q] = req[q]
<1> USE DEF server, files, locals
<1>1. ASSUME NEW p \in Proc, StepOf(p) PROVE pc'[q] = "updated" /\ req'[q] = req[q]
  <2>1. q # p
    BY <1>1 DEF StepOf, Start, FetchFails, FetchChecksums, FetchBundle, FetchArchive, Stage,
              WriteStaged, Rename, ReplaceFails, Crash, Busy
  <2>2. QED BY <1>1, <2>1, OthersSame DEF SameOf
<1>2. CASE Publish \/ PowerLoss
  BY <1>2 DEF Publish, PowerLoss, Busy
<1>3. QED BY <1>1, <1>2 DEF Next, StepOf

(* What a rename puts in place. *)
LEMMA RenameFacts ==
  ASSUME Types, NEW p \in Proc, Knows(p), Rename(p)
  PROVE  /\ exe' = [bin |-> new[p], mode |-> "installed"] /\ exe'.bin = new[p]
         /\ exe'.mode = "installed" /\ exe'.bin.whole
         /\ req[p].insecure \/ (exe'.bin.genuine /\ exe'.bin.ver = ver[p])
         /\ disk' = disk \cup {exe'} /\ pc'[p] = "updated" /\ req' = req
<1>1. exe' = [bin |-> new[p], mode |-> "installed"]
  BY DEF Rename, StagePath, Knows, Staging
<1>2. new[p].whole /\ (req[p].insecure \/ new[p] = Genuine(ver[p]))
  BY DEF Rename, Knows, Verified, Replacing
<1>3. req[p].insecure \/ (new[p].genuine /\ new[p].ver = ver[p])
  BY <1>2 DEF Genuine
<1>4. QED BY <1>1, <1>2, <1>3 DEF Rename, locals, Types

(* Every file that may be found at the path of the executable is a verified  *)
(* one: only a rename adds one, and only a power loss picks another.         *)
LEMMA NextInstalled ==
  ASSUME Inv, Next
  PROVE  InstalledVerified'
<1> USE DEF Inv
<1>1. \/ UNCHANGED <<exe, disk>>
      \/ \E p \in Proc : Rename(p)
      \/ exe' \in disk /\ disk' = {exe'}
  BY DEF Next, Start, FetchFails, FetchChecksums, FetchBundle, FetchArchive, Stage, WriteStaged,
         ReplaceFails, Crash, Publish, PowerLoss, server, files, locals
<1>2. ASSUME NEW f \in {exe} \cup disk
      PROVE  /\ f.bin.whole /\ f.mode = "installed"
             /\ f.bin.genuine \/ \E p \in Proc : pc'[p] = "updated" /\ req'[p].insecure
  BY UpdatedStays DEF InstalledVerified
<1>3. CASE UNCHANGED <<exe, disk>>
  BY <1>2, <1>3 DEF InstalledVerified
<1>4. CASE exe' \in disk /\ disk' = {exe'}
  BY <1>2, <1>4 DEF InstalledVerified
<1>5. ASSUME NEW p \in Proc, Rename(p) PROVE InstalledVerified'
  <2>1. /\ exe'.mode = "installed" /\ exe'.bin.whole
        /\ exe'.bin.genuine \/ (pc'[p] = "updated" /\ req'[p].insecure)
        /\ disk' = disk \cup {exe'}
    BY <1>5, RenameFacts
  <2>2. QED BY <1>2, <2>1 DEF InstalledVerified
<1>6. QED BY <1>1, <1>3, <1>4, <1>5

(* Every step keeps the invariant. *)
LEMMA NextInv == Inv /\ [Next]_vars => Inv'
<1> SUFFICES ASSUME Inv, [Next]_vars PROVE Inv'
  OBVIOUS
<1>1. CASE Next
  <2>1. Types'
    BY <1>1, FetchTyped, ReplaceTyped DEF Next, Inv
  <2>2. QED BY <1>1, <2>1, NextKnows, NextInstalled DEF Inv
<1>2. CASE UNCHANGED vars
  <2>1. UNCHANGED <<setting, published, latest, exe, disk, staged, pc>>
        /\ UNCHANGED <<req, cur, sums, ver, new, fault>>
    BY <1>2 DEF vars, server, files, locals
  <2>2. Types' /\ InstalledVerified'
    BY <2>1 DEF Inv, Types, InstalledVerified
  <2>3. \A q \in Proc : Knows(q)'
    BY <2>1, SameKnows DEF Inv, SameOf
  <2>4. QED BY <2>2, <2>3 DEF Inv
<1>3. QED BY <1>1, <1>2

(* The invariant of one update holds of every update, always. *)
THEOREM InvAlways == Spec => []Inv
BY InitInv, NextInv, PTL DEF Spec

-----------------------------------------------------------------------------
(* The properties *)

(* What the model says of the types, from what is known of each update. *)
LEMMA TypesOK == Inv => TypeOK
<1> SUFFICES ASSUME Inv PROVE TypeOK
  OBVIOUS
<1>1. \A p \in Proc : pc[p] # "idle" => req[p] \in Request /\ cur[p] \in Version
  BY DEF Inv, Knows, Asked
<1>2. \A p \in Proc : pc[p] \in {"archive", "stat", "write", "rename"} => ver[p] \in Version
  BY DEF Inv, Knows, Asked, Installing
<1>3. \A p \in Proc : pc[p] \in {"stat", "write", "rename"} => new[p].whole
  BY DEF Inv, Knows, Verified, Replacing
<1>4. QED BY <1>1, <1>2, <1>3 DEF Inv, Types, TypeOK

(* Whatever the server or a mirror answers, whoever else updates, and at     *)
(* every kill and power loss, the executable at the path is whole, has the   *)
(* mode it was installed with and comes from the release workflow unless an  *)
(* --insecure update put it there, and no staging file lies beside it that   *)
(* nobody works on (replace.rs and update.rs), for any number of updates.    *)
THEOREM InstallationSoundAlways == Spec => []InstallationSound
<1>1. Inv => NoLitter
  BY DEF Inv, Knows, Staging, NoLitter, StagePath
<1>2. Inv => InstallationSound
  BY <1>1, TypesOK DEF Inv, InstallationSound
<1>3. QED BY <1>2, InvAlways, PTL

(* Against the project's own server an update fails only for a request or a  *)
(* file operation that failed, a `latest` that moved between its requests, a *)
(* request that is no version or a release without this platform.            *)
THEOREM FailsForAReasonAlways == Spec => []FailsForAReason
<1>1. Inv => FailsForAReason
  BY DEF Inv, Knows, Reason, FailsForAReason
<1>2. QED BY <1>1, InvAlways, PTL

(* Who may have the file replaced: not a container, and where a package      *)
(* manager owns it only someone who said --yes.                              *)
LEMMA OwnerFacts ==
  ASSUME NEW r \in Request, setting \in Setting, CheckOwner(Classify(r.container), r.yes)
  PROVE  ~r.container /\ (setting.place = "local" \/ r.yes)
<1>1. setting.place \in {"local", "usrbin", "homebrew"} /\ r.container \in BOOLEAN
  BY UpdateAssumption, RequestFacts
<1>2. CASE r.container
  <2>1. Classify(r.container) = "Container"
    BY <1>2 DEF Classify
  <2>2. QED BY <2>1 DEF CheckOwner, Overridable
<1>3. CASE ~r.container
  <2>1. setting.place # "local" => Classify(r.container) # "Standalone"
    <3>1. CASE setting.place = "homebrew"
      <4>1. Classify(r.container) = "Homebrew"
        BY <1>3, <3>1 DEF Classify
      <4>2. QED BY <4>1
    <3>2. CASE setting.place = "usrbin"
      <4>1. Classify(r.container) = "LinuxPackage"
        BY <1>3, <3>2 DEF Classify
      <4>2. QED BY <4>1
    <3>3. QED BY <1>1, <3>1, <3>2
  <2>2. QED BY <1>3, <2>1 DEF CheckOwner
<1>4. QED BY <1>2, <1>3

(* An update that verifies puts in place the version that was asked for, or  *)
(* for `latest` none older than its own, whatever a mirror answered and      *)
(* whatever ran between its requests; and it replaces only a file that is    *)
(* its own to replace.                                                       *)
THEOREM InstallsWhatWasAskedAlways == Spec => InstallsWhatWasAsked
<1> DEFINE A == \A p \in Proc : pc[p] = "rename" /\ pc'[p] = "updated" =>
                   /\ exe'.bin.genuine \/ req[p].insecure
                   /\ req[p].insecure \/ (IF req[p].to # Nothing
                                          THEN exe'.bin.ver = req[p].to
                                          ELSE exe'.bin.ver.core >= cur[p].core)
                   /\ ~req[p].container /\ (setting.place = "local" \/ req[p].yes)
<1>1. ASSUME Inv, Next PROVE A
  <2> SUFFICES ASSUME NEW p \in Proc, pc[p] = "rename", pc'[p] = "updated"
               PROVE  /\ exe'.bin.genuine \/ req[p].insecure
                      /\ req[p].insecure \/ (IF req[p].to # Nothing
                                             THEN exe'.bin.ver = req[p].to
                                             ELSE exe'.bin.ver.core >= cur[p].core)
                      /\ ~req[p].container /\ (setting.place = "local" \/ req[p].yes)
    OBVIOUS
  <2>1. Rename(p)
    <3>1. ASSUME NEW q \in Proc, StepOf(q) PROVE Rename(p)
      <4>1. q = p
        <5>1. q # p => pc'[p] = pc[p]
          BY <1>1, <3>1, OthersSame DEF Inv, SameOf
        <5>2. QED BY <5>1
      <4>2. CASE ReplaceFails(p) \/ Crash(p)
        BY <1>1, <4>2 DEF ReplaceFails, Crash, Inv, Types
      <4>3. QED BY <3>1, <4>1, <4>2 DEF StepOf, Start, FetchFails, FetchChecksums, FetchBundle,
                                       FetchArchive, Stage, WriteStaged
    <3>2. CASE Publish \/ PowerLoss
      BY <3>2 DEF Publish, PowerLoss, Busy
    <3>3. QED BY <1>1, <3>1, <3>2 DEF Next, StepOf
  <2>2. Knows(p) /\ Types
    BY <1>1 DEF Inv
  <2>3. req[p].insecure \/ (exe'.bin.genuine /\ exe'.bin.ver = ver[p])
    BY <2>1, <2>2, RenameFacts
  <2>4. /\ ver[p] \in Version /\ cur[p] \in Version /\ req[p] \in Request
        /\ IF req[p].to # Nothing THEN ver[p] = req[p].to ELSE ~IsOlder(ver[p], cur[p])
        /\ CheckOwner(Classify(req[p].container), req[p].yes)
    BY <2>2 DEF Knows, Asked, Installing, Busy
  <2>5. ~IsOlder(ver[p], cur[p]) => ver[p].core >= cur[p].core
    BY <2>4, UpdateAssumption DEF IsOlder, Version
  <2>6. ~req[p].container /\ (setting.place = "local" \/ req[p].yes)
    BY <2>2, <2>4, OwnerFacts DEF Types
  <2>7. QED BY <2>3, <2>4, <2>5, <2>6
<1>2. ASSUME Inv, UNCHANGED vars PROVE A
  BY <1>2 DEF vars
<1>3. Inv /\ [Next]_vars => [A]_vars
  BY <1>1, <1>2
<1>4. QED BY <1>3, InvAlways, PTL DEF Spec, InstallsWhatWasAsked

=============================================================================
