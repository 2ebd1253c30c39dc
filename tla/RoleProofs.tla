----------------------------- MODULE RoleProofs -----------------------------
(***************************************************************************)
(* Proofs about the roles: what the ownership locks and records guarantee  *)
(* of the processes that run them (RoleOwnership), and what the Serve role *)
(* counts, joins and aborts while it runs (ServeRun).                      *)
(*                                                                         *)
(* RoleOwnership is proved for any set of processes, commands, homes and   *)
(* identities, any number of attempts and any party.                       *)
(* What the program relies on without saying so becomes the inductive      *)
(* invariant: which locks a process holds at each point of its run, that   *)
(* an exclusive hold is the only one, whose records a directory carries,   *)
(* and what a probe that has passed the other's directory has learnt.      *)
(***************************************************************************)
EXTENDS RoleOwnership, ServeRun, FiniteSetTheorems, TLAPS

OwnerPhase == {"record", "record_machine"} \cup Owning
Probing == {"test", "held", "read"}

(* From the first record of a claim to the end of the run. *)
Keeping == {"record", "record_machine", "running"} \cup Publishing

(* The shape of the state, without what it says of locks. *)
Shape ==
    /\ locks \in [LockName -> SUBSET (Actor \X Mode)]
    /\ exists \in [Role -> BOOLEAN]
    /\ record \in [LockName -> Record \cup {None}]
    /\ phase \in [Actor -> Phase]
    /\ tries \in [Proc -> 0 .. Attempts]
    /\ tier \in [Proc -> Tier]
    /\ written \in [Proc -> SUBSET Dir]
    /\ look \in [Actor -> Dir \cup {None}]
    /\ clash \in [Proc -> BOOLEAN]

(* A command only probes, and a probe is at one of the two tiers. *)
ProbesTiers ==
    /\ \A a \in Prober : phase[a] \in {"idle", "gone"} \cup Probing
    /\ \A a \in Actor : phase[a] \in Probing => look[a] \in {HomeOf[a], Machine}

(* From its claim of the user lock on, a process holds it.                   *)
UserHeld ==
    \A p \in Proc : phase[p] \in {"machine", "machine_lock"} \cup OwnerPhase =>
        <<p, "exclusive">> \in locks[UserLock(p)]

(* An owner has settled its tier, and holds the machine lock accordingly.    *)
MachineHeld ==
    \A p \in Proc : phase[p] \in OwnerPhase =>
        /\ tier[p] # "none"
        /\ tier[p] \in Mode => <<p, tier[p]>> \in locks[MachineLock(p)]

(* A probe that found a lock free holds it until it releases it. *)
ProbeHeld ==
    \A a \in Actor : phase[a] = "held" => <<a, ProbeMode(a)>> \in locks[ProbedLock(a)]

(* An exclusive hold is the only hold. *)
Exclusive ==
    \A l \in LockName : \A g, h \in locks[l] : g[2] = "exclusive" => g = h

(* The machine tier is owned only by those who have created its lock file,   *)
(* and only they come to write its record.                                   *)
MachineFile ==
    \A p \in Proc :
        /\ phase[p] = "machine_lock" \/ tier[p] = "exclusive" => exists[RoleOf[p]]
        /\ phase[p] \in {"record_machine", "publish_machine", "drop_machine"} =>
              tier[p] = "exclusive"

Locked == UserHeld /\ MachineHeld /\ ProbeHeld /\ Exclusive

(* A process counts as its own only records of the directories it claims,    *)
(* none of them before it owns its role.                                     *)
WrittenClaimed ==
    \A p \in Proc :
        /\ written[p] \subseteq {HomeOf[p]} \cup (IF tier[p] = "exclusive" THEN {Machine} ELSE {})
        /\ phase[p] \in {"user", "machine", "machine_lock"} => written[p] = {}

(* The records that a process has written are its own ...                    *)
OwnRecords ==
    \A p \in Proc :
        phase[p] \in Keeping =>
            \A d \in written[p] :
                /\ record[<<d, RoleOf[p]>>] # None
                /\ record[<<d, RoleOf[p]>>].proc = p

(* ... and carry its identity from the time it has published it.             *)
Published ==
    \A p \in Proc :
        /\ phase[p] \in {"publish_machine", "running"} \cup Probing
              /\ HomeOf[p] \in written[p]
              => record[UserLock(p)].id = IdOf[p]
        /\ phase[p] \in {"running"} \cup Probing /\ Machine \in written[p]
              => record[MachineLock(p)].id = IdOf[p]

(* p has looked into a directory in which q publishes, and saw no clash. *)
PastClear(p, q) ==
    /\ \/ phase[p] = "running"
       \/ phase[p] \in Probing /\ look[p] = Machine /\ HomeOf[p] = HomeOf[q]
    /\ ~clash[p]

(* Of two processes with one identity that can see each other, at most one   *)
(* passes the other's directory without a clash.                             *)
OnePasses ==
    \A p, q \in Proc :
        /\ RoleOf[p] # RoleOf[q] /\ IdOf[p] = IdOf[q]
        /\ Sees(p, q) /\ Sees(q, p)
        /\ Wrote(p) /\ Wrote(q)
        => ~(PastClear(p, q) /\ PastClear(q, p))

(* A process runs only without a clash. *)
RunsClear == \A p \in Proc : phase[p] = "running" => ~clash[p]

Inv ==
    /\ Shape /\ ProbesTiers /\ Locked /\ MachineFile
    /\ WrittenClaimed /\ OwnRecords /\ Published /\ OnePasses /\ RunsClear

-----------------------------------------------------------------------------
(* Facts about lock names *)

(* The locks of a process and of a probe are lock names; those of the two    *)
(* tiers differ, and a starting process never probes a lock of its own.      *)
LEMMA LockNames ==
  /\ \A p \in Proc : UserLock(p) \in LockName /\ MachineLock(p) \in LockName
  /\ \A p, q \in Proc : UserLock(p) # MachineLock(q)
  /\ \A a \in Actor : Target(a) \in Role
  /\ \A p \in Proc : Target(p) # RoleOf[p]
BY OwnershipAssumption DEF UserLock, MachineLock, LockName, Dir, Actor, Role, Target, other_role

(* A probe is at a lock of one of the two tiers. *)
LEMMA ProbedName ==
  ASSUME ProbesTiers, NEW a \in Actor, phase[a] \in Probing
  PROVE  /\ ProbedLock(a) \in LockName
         /\ a \in Proc => ProbedLock(a) # UserLock(a) /\ ProbedLock(a) # MachineLock(a)
<1>1. look[a] \in Dir
  BY OwnershipAssumption DEF ProbesTiers, Dir, Actor
<1>2. QED
  BY <1>1, LockNames DEF ProbedLock, LockName, UserLock, MachineLock

-----------------------------------------------------------------------------
(* Shape *)

(* Initially nothing is held, written or probed. *)
LEMMA InitInv == Init => Inv
<1> SUFFICES ASSUME Init PROVE Inv
  OBVIOUS
<1>1. \A a \in Actor : phase[a] \in {"gone", "user", "idle"}
  BY DEF Init
<1>2. \A a \in Prober : phase[a] \in {"gone", "idle"}
  BY OwnershipAssumption DEF Init, Actor
<1>3. Shape
  BY OwnershipAssumption DEF Init, Shape, Phase, Tier, Claiming
<1>4. ProbesTiers /\ MachineFile /\ RunsClear
  BY <1>1, <1>2 DEF Init, ProbesTiers, Probing, MachineFile, RunsClear, Actor
<1>5. Locked
  BY <1>1 DEF Init, Locked, UserHeld, MachineHeld, ProbeHeld, Exclusive, OwnerPhase,
              Owning, Publishing, Actor
<1>6. WrittenClaimed /\ OwnRecords /\ Published
  BY <1>1 DEF Init, WrittenClaimed, OwnRecords, Published, Keeping, Publishing, Probing, Actor
<1>7. OnePasses
  BY <1>1 DEF Init, OnePasses, PastClear, Probing, Actor
<1>8. QED
  BY <1>3, <1>4, <1>5, <1>6, <1>7 DEF Inv

(* What a process does keeps the shape of the state. *)
LEMMA ProcShape ==
  ASSUME Shape, NEW p \in Proc, ProcStep(p)
  PROVE  Shape'
<1> USE OwnershipAssumption, LockNames DEF Shape
<1>0. p \in Actor /\ HomeOf[p] \in Dir /\ Machine \in Dir
  BY DEF Actor, Dir
<1>1. ASSUME End(p), UNCHANGED <<exists, record>> PROVE Shape'
  BY <1>0, <1>1 DEF End, Goto, ReleaseAll, Phase, Tier
<1>2. ASSUME NEW l \in LockName, NEW next \in Phase, ClaimFree(p, l, next),
             UNCHANGED exists, tier' \in [Proc -> Tier]
      PROVE  Shape'
  BY <1>0, <1>2 DEF ClaimFree, Acquire, Goto, Mode
<1>3. ASSUME NEW l \in LockName, ClaimBusy(p, l), UNCHANGED exists PROVE Shape'
  BY <1>0, <1>1, <1>3 DEF ClaimBusy, Refuse
<1>4. ASSUME ClaimUser(p) \/ ClaimMachine(p) PROVE Shape'
  BY <1>2, <1>3, <1>4 DEF ClaimUser, ClaimMachine, Phase, Claiming, Tier
<1>5. ASSUME CreateMachine(p) PROVE Shape'
  BY <1>0, <1>5 DEF CreateMachine, Goto, Phase, Claiming
<1>6. ASSUME ShareMachine(p) PROVE Shape'
  BY <1>0, <1>1, <1>6 DEF ShareMachine, Refuse, Acquire, Goto, Phase, Claiming, Tier, Mode
<1>7. ASSUME NEW d \in Dir, NEW id \in Id \cup {None}, WriteOwner(p, d, id)
      PROVE  record' \in [LockName -> Record \cup {None}] /\ written' \in [Proc -> SUBSET Dir]
  <2>1. <<d, RoleOf[p]>> \in LockName /\ [proc |-> p, id |-> id] \in Record
    BY <1>0 DEF LockName, Record
  <2>2. QED
    BY <1>7, <2>1 DEF WriteOwner
<1>8. ASSUME WriteClaim(p) PROVE Shape'
  <2>1. \E d \in Dir : WriteOwner(p, d, None)
    BY <1>0, <1>8 DEF WriteClaim
  <2>2. phase' \in [Actor -> Phase]
    BY <1>0, <1>8 DEF WriteClaim, Goto, Phase, Claiming, Owning, Publishing
  <2>3. QED
    BY <1>7, <1>8, <2>1, <2>2 DEF WriteClaim
<1>9. ASSUME Publish(p) PROVE Shape'
  <2>1. \E d \in Dir : WriteOwner(p, d, IdOf[p])
    BY <1>0, <1>9 DEF Publish
  <2>2. phase' \in [Actor -> Phase] /\ look' \in [Actor -> Dir \cup {None}]
    BY <1>0, <1>9 DEF Publish, Goto, ProbeFrom, Phase, Owning, Publishing
  <2>3. QED
    BY <1>7, <1>9, <2>1, <2>2 DEF Publish
<1>10. ASSUME LoadFails(p) \/ Finish(p) PROVE Shape'
  BY <1>0, <1>10 DEF LoadFails, Finish, Goto, memory, Phase, Owning
<1>11. ASSUME DropRecord(p) PROVE Shape'
  BY <1>0, <1>11 DEF DropRecord, RemoveOwn, Goto, memory, Phase, Owning
<1>12. ASSUME Release(p) \/ Crash(p) PROVE Shape'
  BY <1>1, <1>12 DEF Release, Crash
<1>13. QED
  BY <1>4, <1>5, <1>6, <1>8, <1>9, <1>10, <1>11, <1>12 DEF ProcStep

(* What a probe does keeps the shape of the state. *)
LEMMA ProbeShape ==
  ASSUME Shape, ProbesTiers, NEW a \in Actor, ProbeStep(a) \/ Probe(a)
  PROVE  Shape'
<1> USE OwnershipAssumption DEF Shape
<1>0. HomeOf[a] \in Dir /\ Machine \in Dir
  BY DEF Actor, Dir
<1>1. ASSUME NEW found, NextTier(a, found)
      PROVE  phase' \in [Actor -> Phase] /\ look' \in [Actor -> Dir \cup {None}]
  BY <1>0, <1>1 DEF NextTier, Goto, ProbeFrom, Phase, Owning, Publishing
<1>2. ASSUME TestLock(a) PROVE Shape'
  BY <1>2, ProbedName DEF TestLock, Acquire, ProbeMode, Goto, memory, Mode, Phase, Owning,
                          Publishing, Probing
<1>3. ASSUME TestMissing(a) PROVE Shape'
  BY <1>1, <1>3 DEF TestMissing
<1>4. ASSUME ReleaseProbe(a) PROVE Shape'
  BY <1>1, <1>4, ProbedName DEF ReleaseProbe, Probing
<1>5. ASSUME ReadOwner(a) PROVE Shape'
  <2>1. phase' \in [Actor -> Phase] /\ look' \in [Actor -> Dir \cup {None}]
    BY <1>1, <1>5 DEF ReadOwner
  <2>2. a \in Proc => Clashes(a) \in BOOLEAN
    BY DEF Clashes
  <2>3. clash' \in [Proc -> BOOLEAN]
    BY <1>5, <2>2 DEF ReadOwner
  <2>4. QED
    BY <1>5, <2>1, <2>3 DEF ReadOwner
<1>6. ASSUME Probe(a) PROVE Shape'
  BY <1>0, <1>6 DEF Probe, Goto, ProbeFrom, Phase, Owning, Publishing
<1>7. QED
  BY <1>2, <1>3, <1>4, <1>5, <1>6 DEF ProbeStep

-----------------------------------------------------------------------------
(* Locks *)

(* Where a process that is not p stands, and what it claims, only its own    *)
(* steps change.                                                             *)
Others(p) ==
    /\ \A a \in Actor \ {p} : phase'[a] = phase[a] /\ look'[a] = look[a]
    /\ \A q \in Proc \ {p} :
          tier'[q] = tier[q] /\ written'[q] = written[q] /\ clash'[q] = clash[q]

(* A step of p leaves where every other stands. *)
LEMMA ProcOthers ==
  ASSUME Shape, NEW p \in Proc, ProcStep(p)
  PROVE  Others(p)
<1> USE DEF Shape, Others
<1>1. ASSUME End(p) PROVE Others(p)
  BY <1>1 DEF End, Goto
<1>2. ASSUME NEW l, NEW next, ClaimFree(p, l, next),
             \A q \in Proc \ {p} : tier'[q] = tier[q]
      PROVE  Others(p)
  BY <1>2 DEF ClaimFree, Goto
<1>3. ASSUME NEW l, ClaimBusy(p, l) PROVE Others(p)
  BY <1>1, <1>3 DEF ClaimBusy, Refuse
<1>4. ASSUME ClaimUser(p) \/ ClaimMachine(p) PROVE Others(p)
  <2>1. \A q \in Proc \ {p} : tier'[q] = tier[q]
    BY <1>4 DEF ClaimUser, ClaimMachine, ClaimBusy, Refuse, End
  <2>2. QED
    BY <1>2, <1>3, <1>4, <2>1 DEF ClaimUser, ClaimMachine
<1>5. ASSUME CreateMachine(p) \/ LoadFails(p) \/ Finish(p) \/ DropRecord(p) PROVE Others(p)
  BY <1>5 DEF CreateMachine, LoadFails, Finish, DropRecord, Goto, memory
<1>6. ASSUME ShareMachine(p) PROVE Others(p)
  BY <1>1, <1>6 DEF ShareMachine, Refuse, Goto
<1>7. ASSUME WriteClaim(p) \/ Publish(p) PROVE Others(p)
  BY <1>7 DEF WriteClaim, Publish, WriteOwner, Goto, ProbeFrom
<1>8. ASSUME Release(p) \/ Crash(p) PROVE Others(p)
  BY <1>1, <1>8 DEF Release, Crash
<1>9. QED
  BY <1>4, <1>5, <1>6, <1>7, <1>8 DEF ProcStep

(* A step of a probe leaves where every other stands, and every tier and     *)
(* every record.                                                             *)
LEMMA ProbeOthers ==
  ASSUME Shape, NEW a \in Actor, ProbeStep(a) \/ Probe(a)
  PROVE  /\ Others(a)
         /\ UNCHANGED <<exists, record, tier, written>>
<1> USE DEF Shape, Others
<1>1. ASSUME NEW found, NextTier(a, found)
      PROVE  \A b \in Actor \ {a} : phase'[b] = phase[b] /\ look'[b] = look[b]
  BY <1>1 DEF NextTier, Goto, ProbeFrom
<1>2. ASSUME TestLock(a) \/ Probe(a)
      PROVE  Others(a) /\ UNCHANGED <<exists, record, tier, written>>
  BY <1>2 DEF TestLock, Probe, Goto, ProbeFrom, memory
<1>3. ASSUME TestMissing(a) \/ ReleaseProbe(a) \/ ReadOwner(a)
      PROVE  Others(a) /\ UNCHANGED <<exists, record, tier, written>>
  BY <1>1, <1>3 DEF TestMissing, ReleaseProbe, ReadOwner
<1>4. QED
  BY <1>2, <1>3 DEF ProbeStep

(* What p holds, at which step it is and what it claims are of one piece. *)
HoldsAt(a) ==
    /\ a \in Proc /\ phase[a] \in {"machine", "machine_lock"} \cup OwnerPhase =>
          <<a, "exclusive">> \in locks[UserLock(a)]
    /\ a \in Proc /\ phase[a] \in OwnerPhase =>
          /\ tier[a] # "none"
          /\ tier[a] \in Mode => <<a, tier[a]>> \in locks[MachineLock(a)]
    /\ phase[a] = "held" => <<a, ProbeMode(a)>> \in locks[ProbedLock(a)]

(* The four parts of Locked, party by party. *)
LEMMA LockedByParty == Locked <=> Exclusive /\ \A a \in Actor : HoldsAt(a)
BY DEF Locked, UserHeld, MachineHeld, ProbeHeld, HoldsAt, Actor

(* A step of a that takes from nobody else, and leaves where the others      *)
(* stand, only has to be checked for a.                                      *)
LEMMA OthersKeepLocks ==
  ASSUME Shape, Locked, ProbesTiers, NEW a \in Actor, Others(a), Exclusive', HoldsAt(a)',
         \A l \in LockName : \A h \in locks[l] : h[1] # a => h \in locks'[l]
  PROVE  Locked'
<1> SUFFICES ASSUME NEW b \in Actor, b # a PROVE HoldsAt(b)'
  BY DEF Locked, UserHeld, MachineHeld, ProbeHeld, HoldsAt, Actor
<1>1. phase'[b] = phase[b] /\ look'[b] = look[b] /\ (b \in Proc => tier'[b] = tier[b])
  BY DEF Others
<1>2. HoldsAt(b)
  BY LockedByParty
<1>3. QED
  BY <1>1, <1>2, LockNames, ProbedName
  DEF HoldsAt, ProbedLock, ProbeMode, UserLock, MachineLock, Target, Probing

(* Taking a free lock keeps every exclusive hold alone. *)
LEMMA AcquireExclusive ==
  ASSUME Shape, Exclusive, NEW a \in Actor, NEW l \in LockName, NEW mode \in Mode,
         Free(l, mode), Acquire(l, a, mode)
  PROVE  /\ Exclusive'
         /\ <<a, mode>> \in locks'[l]
         /\ \A m \in LockName : \A h \in locks[m] : h \in locks'[m]
<1>1. locks' = [locks EXCEPT ![l] = @ \cup {<<a, mode>>}]
  BY DEF Acquire
<1>2. locks'[l] = locks[l] \cup {<<a, mode>>}
      /\ \A m \in LockName \ {l} : locks'[m] = locks[m]
  BY <1>1 DEF Shape
<1>3. ASSUME NEW g \in locks'[l], NEW h \in locks'[l], g[2] = "exclusive" PROVE g = h
  <2>1. CASE mode = "exclusive"
    BY <1>2, <1>3, <2>1 DEF Free
  <2>2. CASE mode = "shared"
    BY <1>2, <1>3, <2>2 DEF Free
  <2>3. QED BY <2>1, <2>2 DEF Mode
<1>4. QED
  BY <1>2, <1>3 DEF Exclusive

(* The end of a process takes no lock from another. *)
LEMMA EndLocked ==
  ASSUME Shape, ProbesTiers, Locked, NEW p \in Proc, End(p), Others(p)
  PROVE  Locked'
<1>0. p \in Actor
  BY DEF Actor
<1>1. phase'[p] = "gone"
  BY <1>0 DEF End, Goto, Shape
<1>2. \A l \in LockName : locks'[l] = {h \in locks[l] : h[1] # p}
  BY DEF End, ReleaseAll
<1>3. Exclusive'
  BY <1>2 DEF Exclusive, Locked
<1>4. HoldsAt(p)'
  BY <1>1 DEF HoldsAt, OwnerPhase, Owning, Publishing
<1>5. QED
  BY <1>0, <1>2, <1>3, <1>4, OthersKeepLocks

(* A step that leaves the locks only has to keep what p itself holds. *)
LEMMA SameLocks ==
  ASSUME Shape, ProbesTiers, Locked, NEW p \in Proc, Others(p), UNCHANGED locks, HoldsAt(p)'
  PROVE  Locked'
<1>1. Exclusive'
  BY DEF Exclusive, Locked
<1>2. QED
  BY <1>1, OthersKeepLocks DEF Actor

(* Each step of a process keeps the meaning of the locks. *)
LEMMA ProcLocked ==
  ASSUME Shape, ProbesTiers, Locked, MachineFile, NEW p \in Proc, ProcStep(p)
  PROVE  Locked'
<1> USE LockNames
<1>0. p \in Actor /\ Others(p) /\ Exclusive /\ HoldsAt(p)
  BY ProcOthers, LockedByParty DEF Actor
<1>1. ASSUME NEW l \in {UserLock(p), MachineLock(p)}, ClaimBusy(p, l), UNCHANGED exists
      PROVE  Locked'
  <2>1. CASE tries[p] + 1 < Attempts
    <3>1. UNCHANGED <<locks, phase, tier, look>>
      BY <1>1, <2>1 DEF ClaimBusy
    <3>2. HoldsAt(p)'
      BY <1>0, <3>1 DEF HoldsAt, ProbedLock, ProbeMode
    <3>3. QED BY <1>0, <3>1, <3>2, SameLocks
  <2>2. CASE ~(tries[p] + 1 < Attempts)
    BY <1>0, <1>1, <2>2, EndLocked DEF ClaimBusy, Refuse
  <2>3. QED BY <2>1, <2>2
<1>2. ASSUME NEW l \in LockName, NEW next \in {"machine", "record"}, ClaimFree(p, l, next)
      PROVE  /\ Exclusive' /\ <<p, "exclusive">> \in locks'[l]
             /\ \A m \in LockName : \A h \in locks[m] : h \in locks'[m]
             /\ phase'[p] = next
  BY <1>0, <1>2, AcquireExclusive DEF ClaimFree, Mode, Goto, Shape
<1>3. ASSUME ClaimUser(p) PROVE Locked'
  <2>1. CASE ClaimFree(p, UserLock(p), "machine")
    <3>1. HoldsAt(p)'
      BY <1>2, <2>1 DEF HoldsAt, OwnerPhase, Owning, Publishing, UserLock
    <3>2. QED BY <1>0, <1>2, <2>1, <3>1, OthersKeepLocks
  <2>2. QED
    BY <1>1, <1>3, <2>1 DEF ClaimUser
<1>4. ASSUME ClaimMachine(p) PROVE Locked'
  <2>1. CASE ClaimFree(p, MachineLock(p), "record") /\ tier' = [tier EXCEPT ![p] = "exclusive"]
    <3>1. phase[p] = "machine_lock" /\ tier'[p] = "exclusive"
      BY <1>4, <2>1 DEF ClaimMachine, Shape
    <3>2. HoldsAt(p)'
      BY <1>0, <1>2, <2>1, <3>1 DEF HoldsAt, OwnerPhase, UserLock, MachineLock
    <3>3. QED BY <1>0, <1>2, <2>1, <3>2, OthersKeepLocks
  <2>2. QED
    BY <1>1, <1>4, <2>1 DEF ClaimMachine
<1>5. ASSUME ShareMachine(p) PROVE Locked'
  <2>0. phase[p] = "machine" /\ <<p, "exclusive">> \in locks[UserLock(p)]
    BY <1>0, <1>5 DEF ShareMachine, HoldsAt
  <2>1. CASE UNCHANGED locks /\ tier' = [tier EXCEPT ![p] = "absent"] /\ Goto(p, "record")
    <3>1. phase'[p] = "record" /\ tier'[p] = "absent"
      BY <1>0, <2>1 DEF Goto, Shape
    <3>2. HoldsAt(p)'
      BY <2>0, <2>1, <3>1 DEF HoldsAt, UserLock, Mode
    <3>3. QED BY <1>0, <2>1, <3>2, SameLocks
  <2>2. CASE /\ Free(MachineLock(p), "shared") /\ Acquire(MachineLock(p), p, "shared")
             /\ tier' = [tier EXCEPT ![p] = "shared"] /\ Goto(p, "record")
    <3>1. phase'[p] = "record" /\ tier'[p] = "shared"
      BY <1>0, <2>2 DEF Goto, Shape
    <3>2. /\ Exclusive' /\ <<p, "shared">> \in locks'[MachineLock(p)]
          /\ \A m \in LockName : \A h \in locks[m] : h \in locks'[m]
      BY <1>0, <2>2, AcquireExclusive DEF Mode
    <3>3. HoldsAt(p)'
      BY <2>0, <3>1, <3>2 DEF HoldsAt, UserLock, MachineLock
    <3>4. QED BY <1>0, <3>2, <3>3, OthersKeepLocks
  <2>3. CASE Refuse(p)
    BY <1>0, <2>3, EndLocked DEF Refuse
  <2>4. QED
    BY <1>5, <2>1, <2>2, <2>3 DEF ShareMachine
<1>6. ASSUME CreateMachine(p) \/ WriteClaim(p) \/ Publish(p) \/ LoadFails(p)
             \/ Finish(p) \/ DropRecord(p)
      PROVE  Locked'
  <2>1. UNCHANGED <<locks, tier>>
    BY <1>6 DEF CreateMachine, WriteClaim, Publish, LoadFails, Finish, DropRecord, memory
  <2>2. \/ phase[p] = "machine" /\ phase'[p] = "machine_lock"
        \/ phase[p] \in OwnerPhase /\ phase'[p] \in OwnerPhase \ {"held"}
    BY <1>0, <1>6 DEF CreateMachine, WriteClaim, Publish, LoadFails, Finish, DropRecord,
                      Goto, Shape, OwnerPhase, Owning, Publishing
  <2>3. HoldsAt(p)'
    BY <1>0, <2>1, <2>2 DEF HoldsAt, UserLock, MachineLock, OwnerPhase, Owning, Publishing
  <2>4. QED BY <1>0, <2>1, <2>3, SameLocks
<1>7. ASSUME Release(p) \/ Crash(p) PROVE Locked'
  BY <1>0, <1>7, EndLocked DEF Release, Crash
<1>8. QED
  BY <1>3, <1>4, <1>5, <1>6, <1>7 DEF ProcStep

(* Each step of a probe keeps the meaning of the locks: it takes a lock only *)
(* when it is free, and gives back no lock but the one it took.              *)
LEMMA ProbeLocked ==
  ASSUME Shape, ProbesTiers, Locked, NEW a \in Actor, ProbeStep(a) \/ Probe(a)
  PROVE  Locked'
<1>0. Others(a) /\ UNCHANGED <<exists, record, tier, written>> /\ Exclusive /\ HoldsAt(a)
  BY ProbeOthers, LockedByParty
<1>1. ASSUME TestLock(a) PROVE Locked'
  <2>0. phase[a] = "test" /\ UNCHANGED look /\ ProbedLock(a) \in LockName
    BY <1>1, ProbedName DEF TestLock, memory, Probing
  <2>1. CASE /\ Free(ProbedLock(a), ProbeMode(a)) /\ Acquire(ProbedLock(a), a, ProbeMode(a))
             /\ Goto(a, "held")
    <3>1. phase'[a] = "held" /\ ProbeMode(a) \in Mode
      BY <2>1 DEF Goto, Shape, ProbeMode, Mode
    <3>2. /\ Exclusive' /\ <<a, ProbeMode(a)>> \in locks'[ProbedLock(a)]
          /\ \A m \in LockName : \A h \in locks[m] : h \in locks'[m]
      BY <1>0, <2>0, <2>1, <3>1, AcquireExclusive
    <3>3. HoldsAt(a)'
      BY <1>0, <2>0, <3>1, <3>2, LockNames
      DEF HoldsAt, ProbedLock, ProbeMode, OwnerPhase, Owning, Publishing, UserLock, MachineLock
    <3>4. QED BY <1>0, <3>2, <3>3, OthersKeepLocks
  <2>2. CASE Goto(a, "read") /\ UNCHANGED locks
    <3>1. phase'[a] = "read"
      BY <2>2 DEF Goto, Shape
    <3>2. HoldsAt(a)' /\ Exclusive'
      BY <1>0, <2>0, <2>2, <3>1
      DEF HoldsAt, Exclusive, OwnerPhase, Owning, Publishing, UserLock, MachineLock
    <3>3. QED BY <1>0, <2>2, <3>2, OthersKeepLocks
  <2>3. QED BY <1>1, <2>1, <2>2 DEF TestLock
<1>2. ASSUME TestMissing(a) \/ ReadOwner(a) \/ Probe(a) PROVE Locked'
  <2>1. UNCHANGED locks
    BY <1>2 DEF TestMissing, ReadOwner, Probe
  <2>2. a \in Proc => phase[a] \in OwnerPhase
    BY <1>2, OwnershipAssumption
    DEF TestMissing, ReadOwner, Probe, OwnerPhase, Owning, Publishing
  <2>3. phase'[a] # "held"
    BY <1>2 DEF TestMissing, ReadOwner, Probe, NextTier, Goto, Shape
  <2>4. HoldsAt(a)' /\ Exclusive'
    BY <1>0, <2>1, <2>2, <2>3 DEF HoldsAt, Exclusive, UserLock, MachineLock
  <2>5. QED BY <1>0, <2>1, <2>4, OthersKeepLocks
<1>3. ASSUME ReleaseProbe(a) PROVE Locked'
  <2>1. /\ ProbedLock(a) \in LockName
        /\ a \in Proc => ProbedLock(a) # UserLock(a) /\ ProbedLock(a) # MachineLock(a)
    BY <1>3, ProbedName DEF ReleaseProbe, Probing
  <2>2. /\ locks'[ProbedLock(a)] = {h \in locks[ProbedLock(a)] : h[1] # a}
        /\ \A l \in LockName \ {ProbedLock(a)} : locks'[l] = locks[l]
    BY <1>3, <2>1 DEF ReleaseProbe, Shape
  <2>3. a \in Proc => phase[a] \in OwnerPhase
    BY <1>3 DEF ReleaseProbe, OwnerPhase, Owning, Publishing
  <2>4. phase'[a] # "held"
    BY <1>3 DEF ReleaseProbe, NextTier, Goto, Shape
  <2>5. Exclusive'
    BY <1>0, <2>1, <2>2 DEF Exclusive
  <2>6. HoldsAt(a)'
    BY <1>0, <2>1, <2>2, <2>3, <2>4, LockNames DEF HoldsAt, UserLock, MachineLock
  <2>7. QED BY <1>0, <2>1, <2>2, <2>5, <2>6, OthersKeepLocks
<1>4. QED
  BY <1>1, <1>2, <1>3 DEF ProbeStep

-----------------------------------------------------------------------------
(* Who owns, and what the records say *)

(* Two owners of one role have different homes, and beside an owner of the   *)
(* machine tier there is only one that found no machine lock.                *)
LEMMA OwnersApart ==
  ASSUME Shape, Locked, NEW p \in Proc, NEW q \in Proc, p # q, RoleOf[p] = RoleOf[q],
         phase[p] \in OwnerPhase, phase[q] \in OwnerPhase
  PROVE  /\ HomeOf[p] # HomeOf[q]
         /\ tier[p] = "exclusive" => tier[q] = "absent"
<1> USE LockNames
<1>1. HomeOf[p] # HomeOf[q]
  <2>1. SUFFICES ASSUME HomeOf[p] = HomeOf[q] PROVE FALSE
    OBVIOUS
  <2>2. <<p, "exclusive">> \in locks[UserLock(p)] /\ <<q, "exclusive">> \in locks[UserLock(p)]
    BY <2>1 DEF Locked, UserHeld, UserLock
  <2>3. QED BY <2>2 DEF Locked, Exclusive
<1>2. ASSUME tier[p] = "exclusive" PROVE tier[q] = "absent"
  <2>1. ASSUME tier[q] \in Mode PROVE FALSE
    <3>1. <<p, "exclusive">> \in locks[MachineLock(p)] /\ <<q, tier[q]>> \in locks[MachineLock(p)]
      BY <1>2, <2>1 DEF Locked, MachineHeld, MachineLock, Mode
    <3>2. QED BY <3>1 DEF Locked, Exclusive
  <2>2. tier[q] # "none" /\ tier[q] \in Tier
    BY DEF Locked, MachineHeld, Shape
  <2>3. QED BY <2>1, <2>2 DEF Tier, Mode
<1>3. QED BY <1>1, <1>2

(* Each step leaves a probe at one of its tiers. *)
LEMMA NextProbesTiers ==
  ASSUME Shape, ProbesTiers, Next
  PROVE  ProbesTiers'
<1> USE OwnershipAssumption DEF Shape, ProbesTiers, Others
<1>1. ASSUME NEW p \in Proc, ProcStep(p) PROVE ProbesTiers'
  <2>1. p \in Actor /\ p \notin Prober /\ Others(p)
    BY <1>1, ProcOthers DEF Actor
  <2>2. \/ phase'[p] \notin Probing
        \/ phase'[p] = "test" /\ look'[p] = HomeOf[p]
        \/ phase'[p] = phase[p] /\ look'[p] = look[p]
    <3>1. ASSUME End(p) PROVE phase'[p] \notin Probing
      BY <2>1, <3>1 DEF End, Goto, Probing
    <3>2. QED
      BY <1>1, <2>1, <3>1
      DEF ProcStep, ClaimUser, ClaimMachine, ClaimFree, ClaimBusy, Refuse, CreateMachine,
          ShareMachine, WriteClaim, Publish, LoadFails, Finish, DropRecord, Release, Crash,
          Goto, ProbeFrom, Probing
  <2>3. QED BY <2>1, <2>2 DEF Actor, Probing
<1>2. ASSUME NEW a \in Actor, ProbeStep(a) \/ Probe(a) PROVE ProbesTiers'
  <2>1. Others(a)
    BY <1>2, ProbeOthers
  <2>2. phase'[a] \in Probing => look'[a] \in {HomeOf[a], Machine}
    BY <1>2 DEF ProbeStep, Probe, TestLock, TestMissing, ReleaseProbe, ReadOwner, NextTier,
                Goto, ProbeFrom, memory, Probing
  <2>3. a \in Prober => phase'[a] \in {"idle"} \cup Probing
    BY <1>2 DEF ProbeStep, Probe, TestLock, TestMissing, ReleaseProbe, ReadOwner, NextTier,
                Goto, ProbeFrom, memory, Probing
  <2>4. QED BY <2>1, <2>2, <2>3 DEF Actor
<1>3. QED
  BY <1>1, <1>2 DEF Next

(* The steps of p, by what they do to its place, its tier and its directory. *)
LEMMA ProcMoves ==
  ASSUME Shape, MachineFile, NEW p \in Proc, ProcStep(p)
  PROVE  /\ \A r \in Role : exists[r] => exists'[r]
         /\ \/ phase'[p] = "gone" /\ tier'[p] = "none" /\ written'[p] = {} /\ UNCHANGED record
            \/ phase'[p] = phase[p] /\ UNCHANGED <<record, tier, written, look, clash>>
            \/ /\ UNCHANGED <<record, written, clash>>
               /\ \/ phase[p] = "user" /\ phase'[p] = "machine" /\ UNCHANGED tier
                  \/ phase[p] = "machine" /\ phase'[p] = "machine_lock" /\ UNCHANGED tier
                     /\ exists'[RoleOf[p]]
                  \/ phase[p] = "machine_lock" /\ phase'[p] = "record"
                  \/ phase[p] = "machine" /\ phase'[p] = "record"
                     /\ tier'[p] \in {"shared", "absent"}
                  \/ phase[p] \in {"loading", "running"} /\ phase'[p] = "drop" /\ UNCHANGED tier
            \/ WriteClaim(p) \/ Publish(p) \/ DropRecord(p)
<1> USE OwnershipAssumption DEF Shape
<1>0. p \in Actor /\ RoleOf[p] \in Role
  BY DEF Actor
<1>1. ASSUME End(p)
      PROVE  phase'[p] = "gone" /\ tier'[p] = "none" /\ written'[p] = {}
  BY <1>0, <1>1 DEF End, Goto
<1>2. CASE ClaimUser(p) \/ ClaimMachine(p)
  BY <1>0, <1>1, <1>2 DEF ClaimUser, ClaimMachine, ClaimFree, ClaimBusy, Refuse, Goto
<1>3. CASE CreateMachine(p) \/ LoadFails(p) \/ Finish(p)
  BY <1>0, <1>3 DEF CreateMachine, LoadFails, Finish, Goto, memory
<1>4. CASE ShareMachine(p)
  BY <1>0, <1>1, <1>4 DEF ShareMachine, Refuse, Goto
<1>5. CASE WriteClaim(p) \/ Publish(p) \/ DropRecord(p)
  BY <1>5 DEF WriteClaim, Publish, DropRecord
<1>6. CASE Release(p) \/ Crash(p)
  BY <1>1, <1>6 DEF Release, Crash
<1>7. QED
  BY <1>2, <1>3, <1>4, <1>5, <1>6 DEF ProcStep

(* Each step keeps what is known of the machine lock file: nobody removes    *)
(* it.                                                                       *)
LEMMA NextMachineFile ==
  ASSUME Shape, MachineFile, Next
  PROVE  MachineFile'
<1> USE OwnershipAssumption DEF Shape, MachineFile
<1>1. ASSUME NEW p \in Proc, ProcStep(p) PROVE MachineFile'
  <2>1. p \in Actor /\ \A q \in Proc : RoleOf[q] \in Role
    BY DEF Actor
  <2>2. /\ \A r \in Role : exists[r] => exists'[r]
        /\ \A q \in Proc \ {p} : phase'[q] = phase[q] /\ tier'[q] = tier[q]
    BY <1>1, ProcMoves, ProcOthers DEF Others, Actor
  <2>3. /\ phase'[p] = "machine_lock" \/ tier'[p] = "exclusive" => exists'[RoleOf[p]]
        /\ phase'[p] \in {"record_machine", "publish_machine", "drop_machine"} =>
              tier'[p] = "exclusive"
    <3>1. CASE WriteClaim(p) \/ Publish(p) \/ DropRecord(p)
      BY <2>1, <2>2, <3>1 DEF WriteClaim, Publish, DropRecord, Goto, memory
    <3>2. CASE ~(WriteClaim(p) \/ Publish(p) \/ DropRecord(p))
      BY <1>1, <2>1, <2>2, <3>2, ProcMoves
    <3>3. QED BY <3>1, <3>2
  <2>4. QED BY <2>1, <2>2, <2>3
<1>2. ASSUME NEW a \in Actor, ProbeStep(a) \/ Probe(a) PROVE MachineFile'
  <2>1. UNCHANGED <<exists, tier>> /\ Others(a)
    BY <1>2, ProbeOthers
  <2>2. phase'[a] \in {"idle", "drop", "running"} \cup Probing
    BY <1>2 DEF ProbeStep, Probe, TestLock, TestMissing, ReleaseProbe, ReadOwner, NextTier,
                Goto, ProbeFrom, memory, Probing
  <2>3. QED BY <2>1, <2>2 DEF Others, Actor, Probing
<1>3. QED
  BY <1>1, <1>2 DEF Next

(* A process calls only records of its own directories its own. *)
LEMMA NextWrittenClaimed ==
  ASSUME Shape, Locked, MachineFile, WrittenClaimed, Next
  PROVE  WrittenClaimed'
<1> USE OwnershipAssumption DEF Shape, WrittenClaimed
<1>1. ASSUME NEW p \in Proc, ProcStep(p) PROVE WrittenClaimed'
  <2>1. p \in Actor /\ Others(p)
    BY <1>1, ProcOthers DEF Actor
  <2>2. CASE WriteClaim(p) \/ Publish(p)
    <3>1. /\ phase'[p] \notin {"user", "machine", "machine_lock"} /\ UNCHANGED tier
          /\ \/ written'[p] \subseteq written[p] \cup {HomeOf[p]}
             \/ tier[p] = "exclusive" /\ written'[p] \subseteq written[p] \cup {Machine}
      BY <2>1, <2>2 DEF WriteClaim, Publish, WriteOwner, Goto, MachineFile
    <3>2. QED BY <2>1, <3>1 DEF Others, Actor
  <2>3. CASE DropRecord(p)
    BY <2>1, <2>3 DEF DropRecord, Goto, memory, Others, Actor
  <2>4. CASE ~(WriteClaim(p) \/ Publish(p) \/ DropRecord(p))
    BY <1>1, <2>1, <2>4, ProcMoves DEF Others, Actor
  <2>5. QED BY <2>2, <2>3, <2>4
<1>2. ASSUME NEW a \in Actor, ProbeStep(a) \/ Probe(a) PROVE WrittenClaimed'
  <2>1. UNCHANGED <<tier, written>> /\ Others(a)
    BY <1>2, ProbeOthers
  <2>2. phase'[a] \in {"idle", "drop", "running"} \cup Probing
    BY <1>2 DEF ProbeStep, Probe, TestLock, TestMissing, ReleaseProbe, ReadOwner, NextTier,
                Goto, ProbeFrom, memory, Probing
  <2>3. QED BY <2>1, <2>2 DEF Others, Actor, Probing
<1>3. QED
  BY <1>1, <1>2 DEF Next

(* No step of p touches the records of another owner: it writes only where   *)
(* it holds the lock, and removes only what names itself.                    *)
LEMMA RecordsApart ==
  ASSUME Shape, Locked, MachineFile, WrittenClaimed, OwnRecords, NEW p \in Proc, ProcStep(p),
         NEW q \in Proc, q # p, phase[q] \in Keeping, NEW d \in written[q]
  PROVE  record'[<<d, RoleOf[q]>>] = record[<<d, RoleOf[q]>>]
<1> USE OwnershipAssumption DEF Shape
<1> DEFINE l == <<d, RoleOf[q]>>
<1>0. /\ p \in Actor /\ q \in Actor /\ d \in Dir /\ l \in LockName /\ phase[q] \in OwnerPhase
      /\ d = HomeOf[q] \/ (d = Machine /\ tier[q] = "exclusive")
      /\ record[l] # None /\ record[l].proc = q
      /\ HomeOf[p] # Machine /\ HomeOf[q] # Machine
  BY DEF Actor, LockName, Keeping, OwnerPhase, Owning, WrittenClaimed, OwnRecords
<1>1. ASSUME NEW e \in Dir, NEW id, WriteOwner(p, e, id), phase[p] \in OwnerPhase,
             e = HomeOf[p] \/ (e = Machine /\ tier[p] = "exclusive")
      PROVE  record'[l] = record[l]
  <2>1. <<e, RoleOf[p]>> # l
    <3>1. SUFFICES ASSUME e = d, RoleOf[p] = RoleOf[q] PROVE FALSE
      OBVIOUS
    <3>2. QED BY <1>0, <1>1, <3>1, OwnersApart
  <2>2. QED BY <1>0, <1>1, <2>1 DEF WriteOwner
<1>2. CASE WriteClaim(p)
  BY <1>0, <1>1, <1>2 DEF WriteClaim, OwnerPhase, MachineFile, Dir
<1>3. CASE Publish(p)
  BY <1>0, <1>1, <1>3 DEF Publish, OwnerPhase, Owning, Publishing, MachineFile, Dir
<1>4. CASE DropRecord(p)
  BY <1>0, <1>4, LockNames DEF DropRecord, RemoveOwn
<1>5. CASE ~(WriteClaim(p) \/ Publish(p) \/ DropRecord(p))
  BY <1>5, ProcMoves
<1>6. QED BY <1>2, <1>3, <1>4, <1>5

(* A write of p's own record leaves in its directories what it says. *)
LEMMA OwnWrite ==
  ASSUME Shape, NEW p \in Proc, NEW d \in Dir, NEW id \in Id \cup {None}, WriteOwner(p, d, id)
  PROVE  /\ written'[p] \subseteq written[p] \cup {d}
         /\ d \in written'[p] => record'[<<d, RoleOf[p]>>] = [proc |-> p, id |-> id]
         /\ \A e \in Dir \ {d} :
               record'[<<e, RoleOf[p]>>] = record[<<e, RoleOf[p]>>]
               /\ (e \in written'[p] <=> e \in written[p])
<1>1. \A e \in Dir : <<e, RoleOf[p]>> \in LockName
  BY OwnershipAssumption DEF LockName, Actor
<1>2. QED
  BY <1>1 DEF WriteOwner, Shape

(* Each step leaves to every owner the records it has written, with the      *)
(* identity it has published.                                                *)
LEMMA NextRecords ==
  ASSUME Shape, Locked, MachineFile, WrittenClaimed, OwnRecords, Published, Next
  PROVE  OwnRecords' /\ Published'
<1> USE OwnershipAssumption DEF Shape
<1>0. \A p \in Proc : p \in Actor /\ HomeOf[p] \in Dir /\ Machine \in Dir /\ HomeOf[p] # Machine
                      /\ IdOf[p] \in Id
  BY DEF Actor, Dir
<1> DEFINE Own(p) == phase[p] \in Keeping =>
                       \A d \in written[p] : record[<<d, RoleOf[p]>>] # None
                                             /\ record[<<d, RoleOf[p]>>].proc = p
           Pub(p) ==
             /\ phase[p] \in {"publish_machine", "running"} \cup Probing
                   /\ HomeOf[p] \in written[p] => record[UserLock(p)].id = IdOf[p]
             /\ phase[p] \in {"running"} \cup Probing /\ Machine \in written[p]
                   => record[MachineLock(p)].id = IdOf[p]
<1>1. ASSUME NEW p \in Proc, ProcStep(p) PROVE OwnRecords' /\ Published'
  <2>1. ASSUME NEW q \in Proc, q # p PROVE Own(q)' /\ Pub(q)'
    <3>1. phase'[q] = phase[q] /\ written'[q] = written[q]
      BY <1>0, <1>1, <2>1, ProcOthers DEF Others
    <3>2. phase[q] \in Keeping =>
            \A d \in written[q] : record'[<<d, RoleOf[q]>>] = record[<<d, RoleOf[q]>>]
      BY <1>1, <2>1, RecordsApart
    <3>3. Own(q) /\ Pub(q)
      BY DEF OwnRecords, Published, Keeping
    <3>4. QED
      BY <3>1, <3>2, <3>3 DEF Keeping, Probing, Publishing, UserLock, MachineLock
  <2>2. Own(p)' /\ Pub(p)'
    <3>a. Own(p) /\ Pub(p)
      BY DEF OwnRecords, Published, Keeping
    <3>b. ASSUME NEW d \in Dir, NEW id \in Id \cup {None}, WriteOwner(p, d, id), Own(p),
                 phase[p] \in Keeping
          PROVE  /\ written'[p] \subseteq written[p] \cup {d}
                 /\ \A e \in written'[p] : record'[<<e, RoleOf[p]>>] # None
                                           /\ record'[<<e, RoleOf[p]>>].proc = p
                 /\ d \in written'[p] => record'[<<d, RoleOf[p]>>].id = id
                 /\ \A e \in Dir \ {d} :
                       record'[<<e, RoleOf[p]>>] = record[<<e, RoleOf[p]>>]
                       /\ (e \in written'[p] => e \in written[p])
      <4>1. /\ written'[p] \subseteq written[p] \cup {d}
            /\ d \in written'[p] => record'[<<d, RoleOf[p]>>] = [proc |-> p, id |-> id]
            /\ \A e \in Dir \ {d} :
                  record'[<<e, RoleOf[p]>>] = record[<<e, RoleOf[p]>>]
                  /\ (e \in written'[p] <=> e \in written[p])
        BY <3>b, OwnWrite
      <4>2. [proc |-> p, id |-> id] # None
        BY <3>b DEF Record
      <4>3. written[p] \subseteq Dir
        OBVIOUS
      <4>4. QED BY <3>b, <4>1, <4>2, <4>3
    <3>1. CASE phase[p] = "record" /\ WriteClaim(p)
      <4>1. WriteOwner(p, HomeOf[p], None)
            /\ phase'[p] \in {"record_machine", "loading"}
        BY <1>0, <3>1 DEF WriteClaim, Goto
      <4>2. QED BY <1>0, <3>b, <3>a, <3>1, <4>1 DEF Keeping, Probing
    <3>2. CASE phase[p] = "record_machine" /\ WriteClaim(p)
      <4>1. WriteOwner(p, Machine, None) /\ phase'[p] = "loading"
        BY <1>0, <3>2 DEF WriteClaim, Goto
      <4>2. QED BY <1>0, <3>b, <3>a, <3>2, <4>1 DEF Keeping, Probing
    <3>3. CASE phase[p] = "loading" /\ Publish(p)
      <4>1. WriteOwner(p, HomeOf[p], IdOf[p]) /\ UNCHANGED tier
            /\ phase'[p] = IF tier[p] = "exclusive" THEN "publish_machine" ELSE "test"
        BY <1>0, <3>3 DEF Publish, Goto
      <4>2. Own(p)' /\ (HomeOf[p] \in written'[p] => record'[UserLock(p)].id = IdOf[p])
        BY <1>0, <3>b, <3>a, <3>3, <4>1 DEF Keeping, Publishing, UserLock
      <4>3. phase'[p] = "test" => Machine \notin written'[p]
        BY <1>0, <3>b, <3>a, <3>3, <4>1 DEF WrittenClaimed, Keeping, Publishing
      <4>4. QED BY <4>1, <4>2, <4>3 DEF Probing, UserLock, MachineLock
    <3>4. CASE phase[p] = "publish_machine" /\ Publish(p)
      <4>1. WriteOwner(p, Machine, IdOf[p]) /\ phase'[p] = "test"
        BY <1>0, <3>4 DEF Publish, Goto
      <4>2. Own(p)' /\ (Machine \in written'[p] => record'[MachineLock(p)].id = IdOf[p])
        BY <1>0, <3>b, <3>a, <3>4, <4>1 DEF Keeping, Publishing, MachineLock
      <4>3. HomeOf[p] \in written'[p] => record'[UserLock(p)].id = IdOf[p]
        BY <1>0, <3>b, <3>a, <3>4, <4>1 DEF Keeping, Publishing, UserLock
      <4>4. QED BY <4>2, <4>3 DEF UserLock, MachineLock
    <3>5. CASE DropRecord(p)
      BY <1>0, <3>5 DEF DropRecord, Goto, Keeping, Probing, Publishing
    <3>6. CASE ~(WriteClaim(p) \/ Publish(p) \/ DropRecord(p))
      BY <1>0, <1>1, <3>6, ProcMoves
      DEF OwnRecords, Published, WrittenClaimed, Keeping, Probing, Publishing, UserLock,
          MachineLock
    <3>7. QED
      BY <3>1, <3>2, <3>3, <3>4, <3>5, <3>6 DEF WriteClaim, Publish
  <2>3. QED
    BY <2>1, <2>2 DEF OwnRecords, Published, Keeping
<1>2. ASSUME NEW a \in Actor, ProbeStep(a) \/ Probe(a) PROVE OwnRecords' /\ Published'
  <2>1. UNCHANGED <<record, written>> /\ Others(a)
    BY <1>2, ProbeOthers
  <2>2. a \in Proc => phase[a] \in Probing /\ phase'[a] \in {"drop", "running"} \cup Probing
    BY <1>2 DEF ProbeStep, Probe, TestLock, TestMissing, ReleaseProbe, ReadOwner, NextTier,
                Goto, ProbeFrom, memory, Probing
  <2>3. QED
    BY <1>0, <2>1, <2>2
    DEF Others, OwnRecords, Published, Keeping, Probing, Publishing, UserLock, MachineLock
<1>3. QED
  BY <1>1, <1>2 DEF Next

-----------------------------------------------------------------------------
(* Two starts with one identity *)

(* A process runs only when its probe saw no clash, and a clash once seen is *)
(* not forgotten.                                                            *)
LEMMA NextRunsClear ==
  ASSUME Shape, RunsClear, Next
  PROVE  RunsClear'
<1> USE DEF Shape, RunsClear, Others
<1>1. ASSUME NEW p \in Proc, ProcStep(p) PROVE RunsClear'
  <2>1. p \in Actor /\ Others(p)
    BY <1>1, ProcOthers DEF Actor
  <2>2. phase'[p] # "running"
    BY <1>1, <2>1
    DEF ProcStep, ClaimUser, ClaimMachine, ClaimFree, ClaimBusy, Refuse, CreateMachine,
        ShareMachine, WriteClaim, Publish, LoadFails, Finish, DropRecord, Release, Crash,
        End, Goto
  <2>3. QED BY <2>1, <2>2 DEF Actor
<1>2. ASSUME NEW a \in Actor, ProbeStep(a) \/ Probe(a) PROVE RunsClear'
  <2>1. Others(a)
    BY <1>2, ProbeOthers
  <2>2. a \in Proc /\ phase'[a] = "running" => ~clash'[a]
    BY <1>2 DEF ProbeStep, Probe, TestLock, TestMissing, ReleaseProbe, ReadOwner, NextTier,
                Found, Goto, memory
  <2>3. QED BY <2>1, <2>2 DEF Actor
<1>3. QED
  BY <1>1, <1>2 DEF Next

(* A probe of a that passes a directory in which q has published and still   *)
(* lives has seen q's record.                                                *)
LEMMA NewlyPast ==
  ASSUME Shape, ProbesTiers, Locked, MachineFile, OwnRecords, Published,
         NEW a \in Proc, NEW q \in Proc, ProbeStep(a),
         RoleOf[a] # RoleOf[q], IdOf[a] = IdOf[q], Sees(a, q), Sees(q, a), Wrote(q),
         ~PastClear(a, q), PastClear(a, q)'
  PROVE  ~PastClear(q, a)
<1> SUFFICES ASSUME PastClear(q, a) PROVE FALSE
  OBVIOUS
<1> USE OwnershipAssumption DEF Shape
<1>0. a \in Actor /\ q \in Actor /\ a # q /\ Target(a) = RoleOf[q] /\ HomeOf[a] # Machine
  BY DEF Actor, Target, other_role, Role
<1>1. phase[a] \in Probing /\ look[a] \in {HomeOf[a], Machine}
  BY <1>0 DEF ProbeStep, TestLock, TestMissing, ReleaseProbe, ReadOwner, Probing, ProbesTiers
<1>2. ~clash[a] /\ ~clash'[a]
  <2>1. clash[a] => clash'[a]
    BY DEF ProbeStep, TestLock, TestMissing, ReleaseProbe, ReadOwner, memory
  <2>2. QED BY <2>1 DEF PastClear
<1>3. phase[q] \in {"running"} \cup Probing /\ phase[q] \in OwnerPhase /\ phase[q] \in Keeping
  BY DEF PastClear, Probing, OwnerPhase, Owning, Publishing, Keeping
<1>4. CASE HomeOf[a] = HomeOf[q]
  <2>1. look[a] # Machine
    BY <1>1, <1>2, <1>4 DEF PastClear
  <2>2. ProbedLock(a) = UserLock(q) /\ UserLock(q) \in LockName
    BY <1>0, <1>1, <1>4, <2>1, LockNames DEF ProbedLock, UserLock
  <2>3. <<q, "exclusive">> \in locks[ProbedLock(a)]
    BY <1>3, <2>2 DEF Locked, UserHeld
  <2>4. record[ProbedLock(a)] # None /\ record[ProbedLock(a)].id = IdOf[a]
    <3>1. HomeOf[q] \in written[q]
      BY DEF Wrote
    <3>2. record[UserLock(q)] # None
      BY <1>3, <3>1 DEF OwnRecords, Keeping, UserLock
    <3>3. record[UserLock(q)].id = IdOf[q]
      BY <1>3, <3>1 DEF Published
    <3>4. QED BY <2>2, <3>2, <3>3
  <2>5. phase[a] # "held"
    BY <1>0, <2>2, <2>3 DEF Locked, ProbeHeld, Exclusive
  <2>6. phase'[a] = "running" \/ look'[a] = Machine
    BY DEF PastClear
  <2>7. phase[a] # "test"
    BY <1>0, <2>1, <2>6 DEF ProbeStep, TestLock, TestMissing, ReleaseProbe, ReadOwner, Goto, memory
  <2>8. CASE phase[a] = "read"
    <3>1. ReadOwner(a)
      BY <2>8 DEF ProbeStep, TestLock, TestMissing, ReleaseProbe
    <3>2. Clashes(a)
      BY <2>4 DEF Clashes
    <3>3. QED BY <1>2, <3>1, <3>2 DEF ReadOwner
  <2>9. QED BY <1>1, <2>5, <2>7, <2>8 DEF Probing
<1>5. CASE HomeOf[a] # HomeOf[q]
  <2>1. tier[q] = "exclusive" /\ phase[q] = "running" /\ phase'[a] = "running"
    BY <1>5 DEF Sees, PastClear
  <2>2. look[a] = Machine
    BY <1>0, <2>1 DEF ProbeStep, TestLock, TestMissing, ReleaseProbe, ReadOwner, NextTier, Goto
  <2>3. ProbedLock(a) = MachineLock(q) /\ MachineLock(q) \in LockName
    BY <1>0, <2>2, LockNames DEF ProbedLock, MachineLock
  <2>4. <<q, "exclusive">> \in locks[ProbedLock(a)]
    BY <1>3, <2>1, <2>3 DEF Locked, MachineHeld, Mode
  <2>5. record[ProbedLock(a)] # None /\ record[ProbedLock(a)].id = IdOf[a]
    <3>1. Machine \in written[q]
      BY <2>1 DEF Wrote
    <3>2. record[MachineLock(q)] # None
      BY <1>3, <3>1 DEF OwnRecords, Keeping, MachineLock
    <3>3. record[MachineLock(q)].id = IdOf[q]
      BY <1>3, <3>1 DEF Published
    <3>4. QED BY <2>3, <3>2, <3>3
  <2>6. phase[a] # "held"
    BY <1>0, <2>3, <2>4 DEF Locked, ProbeHeld, Exclusive
  <2>7. exists[Target(a)]
    BY <1>0, <2>1 DEF MachineFile
  <2>8. phase[a] # "test"
    BY <1>0, <2>1, <2>7 DEF ProbeStep, TestLock, TestMissing, ReleaseProbe, ReadOwner, Goto
  <2>9. CASE phase[a] = "read"
    <3>1. ReadOwner(a)
      BY <2>9 DEF ProbeStep, TestLock, TestMissing, ReleaseProbe
    <3>2. Clashes(a)
      BY <2>5 DEF Clashes
    <3>3. QED BY <1>2, <3>1, <3>2 DEF ReadOwner
  <2>10. QED BY <1>1, <2>6, <2>8, <2>9 DEF Probing
<1>6. QED BY <1>4, <1>5

(* Whichever of the two starts passes first, the other does not. *)
LEMMA NextOnePasses ==
  ASSUME Shape, ProbesTiers, Locked, MachineFile, OwnRecords, Published, OnePasses, Next
  PROVE  OnePasses'
<1> USE OwnershipAssumption DEF Shape
<1>1. ASSUME NEW p \in Proc, ProcStep(p) PROVE OnePasses'
  <2>1. p \in Actor /\ Others(p)
    BY <1>1, ProcOthers DEF Actor
  <2>2. \A q \in Proc : ~PastClear(p, q)'
    <3>1. phase'[p] # "running"
      BY <1>1, <2>1
      DEF ProcStep, ClaimUser, ClaimMachine, ClaimFree, ClaimBusy, Refuse, CreateMachine,
          ShareMachine, WriteClaim, Publish, LoadFails, Finish, DropRecord, Release, Crash,
          End, Goto
    <3>2. phase'[p] \in Probing => look'[p] = HomeOf[p]
      BY <1>1, <2>1
      DEF ProcStep, ClaimUser, ClaimMachine, ClaimFree, ClaimBusy, Refuse, CreateMachine,
          ShareMachine, WriteClaim, Publish, LoadFails, Finish, DropRecord, Release, Crash,
          End, Goto, ProbeFrom, Probing
    <3>3. HomeOf[p] # Machine
      BY <2>1
    <3>4. QED BY <3>1, <3>2, <3>3 DEF PastClear
  <2>3. ASSUME NEW q \in Proc, q # p PROVE
          /\ phase'[q] = phase[q] /\ look'[q] = look[q] /\ tier'[q] = tier[q]
          /\ written'[q] = written[q] /\ clash'[q] = clash[q]
    BY <2>1, <2>3 DEF Others, Actor
  <2>4. SUFFICES ASSUME NEW q \in Proc, NEW r \in Proc, q # p, r # p,
                        RoleOf[q] # RoleOf[r], IdOf[q] = IdOf[r], Sees(q, r)', Sees(r, q)',
                        Wrote(q)', Wrote(r)', PastClear(q, r)', PastClear(r, q)'
                 PROVE  FALSE
    BY <2>2 DEF OnePasses
  <2>5. Sees(q, r) /\ Sees(r, q) /\ Wrote(q) /\ Wrote(r) /\ PastClear(q, r) /\ PastClear(r, q)
    BY <2>3, <2>4 DEF Sees, Wrote, PastClear
  <2>6. QED BY <2>4, <2>5 DEF OnePasses
<1>2. ASSUME NEW a \in Actor, ProbeStep(a) \/ Probe(a) PROVE OnePasses'
  <2>1. UNCHANGED <<tier, written>> /\ Others(a)
    BY <1>2, ProbeOthers
  <2>2. ASSUME NEW q \in Proc, q # a
        PROVE  phase'[q] = phase[q] /\ look'[q] = look[q] /\ clash'[q] = clash[q]
    BY <2>1, <2>2 DEF Others, Actor
  <2>3. SUFFICES ASSUME NEW q \in Proc, NEW r \in Proc,
                        RoleOf[q] # RoleOf[r], IdOf[q] = IdOf[r], Sees(q, r)', Sees(r, q)',
                        Wrote(q)', Wrote(r)', PastClear(q, r)', PastClear(r, q)'
                 PROVE  FALSE
    BY DEF OnePasses
  <2>4. Sees(q, r) /\ Sees(r, q) /\ Wrote(q) /\ Wrote(r) /\ q # r
    BY <2>1, <2>3 DEF Sees, Wrote
  <2>5. ASSUME NEW s \in Proc, NEW t \in Proc, s # a, PastClear(s, t)' PROVE PastClear(s, t)
    BY <2>2, <2>5 DEF PastClear
  <2>6. ~(PastClear(q, r) /\ PastClear(r, q))
    BY <2>3, <2>4 DEF OnePasses
  <2>7. a \in Proc => ProbeStep(a)
    BY <1>2 DEF Probe
  <2>8. CASE q = a
    BY <2>3, <2>4, <2>5, <2>6, <2>7, <2>8, NewlyPast
  <2>9. CASE r = a
    BY <2>3, <2>4, <2>5, <2>6, <2>7, <2>9, NewlyPast
  <2>10. CASE q # a /\ r # a
    BY <2>3, <2>5, <2>6, <2>10
  <2>11. QED BY <2>8, <2>9, <2>10
<1>3. QED
  BY <1>1, <1>2 DEF Next

-----------------------------------------------------------------------------
(* The inductive invariant and the theorems *)

(* Every step keeps the inductive invariant. *)
LEMMA NextInv == Inv /\ [Next]_vars => Inv'
<1> SUFFICES ASSUME Inv, [Next]_vars PROVE Inv'
  OBVIOUS
<1>1. CASE Next
  <2>1. Shape' /\ Locked'
    BY <1>1, ProcShape, ProbeShape, ProcLocked, ProbeLocked DEF Next, Inv
  <2>2. ProbesTiers' /\ MachineFile' /\ WrittenClaimed'
    BY <1>1, NextProbesTiers, NextMachineFile, NextWrittenClaimed DEF Inv
  <2>3. OwnRecords' /\ Published'
    BY <1>1, NextRecords DEF Inv
  <2>4. OnePasses' /\ RunsClear'
    BY <1>1, NextOnePasses, NextRunsClear DEF Inv
  <2>5. QED BY <2>1, <2>2, <2>3, <2>4 DEF Inv
<1>2. CASE UNCHANGED vars
  <2>1. UNCHANGED <<locks, exists, record, phase, tries, tier, written, look, clash>>
    BY <1>2 DEF vars, memory
  <2>2. Shape' /\ ProbesTiers' /\ MachineFile' /\ RunsClear'
    BY <2>1 DEF Inv, Shape, ProbesTiers, MachineFile, RunsClear
  <2>3. Locked'
    BY <2>1 DEF Inv, Locked, UserHeld, MachineHeld, ProbeHeld, Exclusive, ProbedLock, ProbeMode
  <2>4. WrittenClaimed' /\ OwnRecords' /\ Published'
    BY <2>1 DEF Inv, WrittenClaimed, OwnRecords, Published
  <2>5. OnePasses'
    BY <2>1 DEF Inv, OnePasses, PastClear, Sees, Wrote
  <2>6. QED BY <2>2, <2>3, <2>4, <2>5 DEF Inv
<1>3. QED BY <1>1, <1>2

(* The invariant holds in every reachable state. *)
THEOREM InvAlways == Spec => []Inv
BY InitInv, NextInv, PTL DEF Spec

(* Claims mean what they say: whatever the order of starts, refusals and     *)
(* crashes, an owner holds the locks of its tier, and no other process owns  *)
(* its role there.                                                           *)
THEOREM ClaimsHoldAlways == Spec => []ClaimsHold
<1>1. Inv => ClaimsHold
  <2> SUFFICES ASSUME Inv PROVE ClaimsHold
    OBVIOUS
  <2>1. \A p \in Owners : p \in Proc /\ phase[p] \in OwnerPhase
    BY DEF Owners, OwnerPhase
  <2>2. TypeOK
    BY <2>1 DEF Inv, Shape, TypeOK, Locked, UserHeld, MachineHeld
  <2>3. OneOwner
    BY <2>1, OwnersApart DEF Inv, OneOwner
  <2>4. QED BY <2>2, <2>3 DEF ClaimsHold
<1>2. QED BY <1>1, InvAlways, PTL

(* While a process owns its role, the records it has written stay its own:   *)
(* a write needs the lock, and a drop removes only what names itself.        *)
THEOREM RecordStaysAlways == Spec => []RecordStays
<1>1. Inv => RecordStays
  BY DEF Inv, OwnRecords, Keeping, RecordStays
<1>2. QED BY <1>1, InvAlways, PTL

(* Two racing starts with one identity never both run, when each probes a    *)
(* directory in which the other publishes and no record write failed.        *)
THEOREM NeverBothRunAlways == Spec => []NeverBothRun
<1>1. Inv => NeverBothRun
  BY DEF Inv, OnePasses, RunsClear, PastClear, NeverBothRun
<1>2. QED BY <1>1, InvAlways, PTL

-----------------------------------------------------------------------------
(***************************************************************************)
(* Proofs about ServeRun for any finite set of connections, any peers, any *)
(* services and any number of streams per connection.  The status counters *)
(* are exact because every task is counted once, when it is admitted, and  *)
(* discounted once, wherever it ends; the rest of the invariant says what  *)
(* the accept loop knows of the connection in its hands and what run_serve *)
(* has joined at each point of its shutdown.                               *)
(***************************************************************************)

(* The connection in the accept loop's hands has no supervisor yet, and its  *)
(* service is known before its paths are queried.                            *)
PendingUnsupervised ==
    incoming # NoConn =>
        /\ conn[incoming] = "none"
        /\ accept = "paths" => service[incoming] \in Service

(* What run_serve has joined by the time it reaches each of its states. *)
JoinedInOrder ==
    /\ role = "starting" => accept = "off"
    /\ role \in {"sinks", "closing"} => accept = "ended"
    /\ role = "closed" => accept \in {"off", "ended"}
    /\ role \in {"starting", "closing", "closed"} => sinks = {}

(* ServeTypeOK, without the values of the two counters. *)
ServeShape ==
    /\ role \in RoleState
    /\ accept \in AcceptState
    /\ incoming \in Conn \cup {NoConn}
    /\ conn \in [Conn -> ConnState]
    /\ peer \in [Conn -> Peer]
    /\ service \in [Conn -> Service \cup {Unknown}]
    /\ alive \subseteq Conn
    /\ stream \in [Stream -> StreamState]
    /\ sinks \subseteq Conn
    /\ stop \in BOOLEAN
    /\ expired \in BOOLEAN
    /\ incoming # NoConn <=> accept \in {"handshake", "paths"}
    /\ \A k \in Conn : conn[k] \notin {"none", "ended"} => service[k] \in Service

(* The counters are numbers and exact. *)
Counts ==
    /\ active \in [Service -> Nat]
    /\ peers \in [Peer -> [Service -> Nat]]
    /\ ActiveExact /\ PeersExact

ServeInv == ServeShape /\ PendingUnsupervised /\ JoinedInOrder /\ NoOrphans /\ Counts

-----------------------------------------------------------------------------
(* Facts about the constants *)

(* The streams of all connections are finitely many, and each is a pair of   *)
(* its connection and a number.                                              *)
LEMMA StreamFinite ==
  /\ IsFiniteSet(Stream)
  /\ \A s \in Stream : s[1] \in Conn
<1>1. IsFiniteSet(1 .. MaxStreams)
  BY FS_Interval, ServeRunAssumption
<1>2. IsFiniteSet(Conn \X (1 .. MaxStreams))
  BY <1>1, FS_Product, ServeRunAssumption
<1>3. QED
  BY <1>2 DEF Stream

(* Any set of streams, and any set of connections, has a natural number of   *)
(* members; one more or one less changes it by one.                          *)
LEMMA Counting ==
  ASSUME NEW A, IsFiniteSet(A), NEW S \in SUBSET A
  PROVE  /\ IsFiniteSet(S) /\ Cardinality(S) \in Nat
         /\ \A x : x \notin S => Cardinality(S \cup {x}) = Cardinality(S) + 1
         /\ \A x \in S : Cardinality(S \ {x}) = Cardinality(S) - 1
         /\ \A T \in SUBSET S : Cardinality(S \ T) = Cardinality(S) - Cardinality(T)
<1>1. IsFiniteSet(S)
  BY FS_Subset
<1>2. Cardinality(S) \in Nat
  BY <1>1, FS_CardinalityType
<1>3. ASSUME NEW T \in SUBSET S PROVE Cardinality(S \ T) = Cardinality(S) - Cardinality(T)
  <2>1. S \cap T = T
    OBVIOUS
  <2>2. QED BY <1>1, <2>1, FS_Difference
<1>4. QED
  BY <1>1, <1>2, <1>3, FS_AddElement, FS_RemoveElement

-----------------------------------------------------------------------------
(* The supervisors and their order *)

(* Initially nothing runs and nothing is counted. *)
LEMMA ServeInitInv == ServeInit => ServeInv
<1> SUFFICES ASSUME ServeInit PROVE ServeInv
  OBVIOUS
<1>1. ServeShape
  BY ServeRunAssumption DEF ServeInit, ServeShape, RoleState, AcceptState, ConnState, StreamState
<1>2. PendingUnsupervised /\ JoinedInOrder
  BY DEF ServeInit, PendingUnsupervised, JoinedInOrder
<1>3. NoOrphans
  BY DEF ServeInit, NoOrphans, Open
<1>4. Counts
  <2>1. \A v \in Service : OnService(v) = {}
    BY DEF ServeInit, OnService, Open
  <2>2. Supervised = {}
    BY DEF ServeInit, Supervised
  <2>3. ActiveExact
    BY <2>1, FS_EmptySet DEF ServeInit, ActiveExact
  <2>4. PeersExact
    <3>1. \A p \in Peer, v \in Service : {k \in Supervised : peer[k] = p /\ service[k] = v} = {}
      BY <2>2
    <3>2. QED BY <3>1, FS_EmptySet DEF ServeInit, PeersExact
  <2>5. QED BY <2>3, <2>4 DEF ServeInit, Counts
<1>5. QED BY <1>1, <1>2, <1>3, <1>4 DEF ServeInv

(* The ends of a connection's supervisor have this in common. *)
EndStep(k) == PeerLost(k) \/ Drained(k) \/ DrainTimeout(k)

(* A supervisor ends its connection after the streams that it leaves. *)
LEMMA EndStepEnds ==
  ASSUME ServeShape, NEW k \in Conn, EndStep(k)
  PROVE  /\ k \in Supervised /\ Done(k)
         /\ stream' = [s \in Stream |-> IF s \in StreamsOf(k) THEN "ended" ELSE stream[s]]
         /\ UNCHANGED <<role, accept, incoming, peer, service, stop, expired>>
<1>1. /\ k \in Supervised /\ Done(k)
      /\ UNCHANGED <<role, accept, incoming, peer, service, stop, expired>>
  BY DEF EndStep, PeerLost, Drained, DrainTimeout, Supervised
<1>2. CASE Drained(k)
  BY <1>1, <1>2 DEF Drained, ServeShape
<1>3. CASE PeerLost(k) \/ DrainTimeout(k)
  BY <1>1, <1>3 DEF PeerLost, DrainTimeout
<1>4. QED BY <1>1, <1>2, <1>3 DEF EndStep

(* Each step keeps the shape of the state, what is known of the pending      *)
(* connection, and the order in which tasks are joined.                      *)
LEMMA ServeNextShape ==
  ASSUME ServeShape, PendingUnsupervised, JoinedInOrder, NoOrphans, ServeNext
  PROVE  ServeShape' /\ PendingUnsupervised' /\ JoinedInOrder' /\ NoOrphans'
<1> USE ServeRunAssumption, StreamFinite
    DEF ServeShape, PendingUnsupervised, JoinedInOrder, NoOrphans, envVars, Supervised
<1> DEFINE Goal == ServeShape' /\ PendingUnsupervised' /\ JoinedInOrder' /\ NoOrphans'
<1>1. ASSUME RoleStep \/ Shutdown \/ GraceOver PROVE Goal
  BY <1>1 DEF RoleStep, Shutdown, GraceOver, Ready, ReadyFails, AcceptJoined, SinksJoined, Close,
              RoleState, AcceptState
<1>2. ASSUME Established \/ ConnectionsJoined PROVE Goal
  BY <1>2 DEF Established, ConnectionsJoined, AcceptState
<1>3. ASSUME HandshakeFails \/ UnknownAlpn \/ SpawnConnection PROVE Goal
  <2>1. incoming \in Conn /\ conn[incoming] = "none"
        /\ (SpawnConnection => service[incoming] \in Service)
    BY <1>3 DEF HandshakeFails, UnknownAlpn, SpawnConnection
  <2>2. \A s \in Stream : stream[s] \in Open => s[1] # incoming
    BY <2>1
  <2>3. QED
    BY <1>3, <2>1, <2>2 DEF HandshakeFails, UnknownAlpn, SpawnConnection, AcceptState, ConnState
<1>4. ASSUME StopAccepting PROVE Goal
  <2>1. \A s \in Stream : stream[s] \in Open => s[1] # incoming
    OBVIOUS
  <2>2. QED
    BY <1>4, <2>1 DEF StopAccepting, AcceptState, ConnState
<1>5. ASSUME NEW k \in Conn, Incoming(k) PROVE Goal
  BY <1>5 DEF Incoming, AcceptState
<1>6. ASSUME NEW k \in Conn, Supervise(k) \/ StopConnection(k) PROVE Goal
  BY <1>6 DEF Supervise, StopConnection, ConnState
<1>7. ASSUME NEW k \in Conn, EndStep(k) PROVE Goal
  <2>1. /\ conn[k] \in {"serving", "draining"}
        /\ conn' = [conn EXCEPT ![k] = "ended"]
        /\ alive' = alive \ {k}
        /\ sinks' = sinks \/ sinks' = sinks \cup {k}
        /\ stream' = [s \in Stream |-> IF s \in StreamsOf(k) THEN "ended" ELSE stream[s]]
        /\ UNCHANGED <<role, accept, incoming, peer, service, stop, expired>>
    BY <1>7, EndStepEnds DEF Done
  <2>2. accept \notin {"off", "ended"} /\ role \notin {"starting", "closing", "closed"}
    BY <2>1
  <2>3. \A s \in Stream : stream'[s] \in Open => stream[s] \in Open /\ s[1] # k
    BY <2>1 DEF StreamsOf, Open
  <2>4. QED
    BY <2>1, <2>2, <2>3 DEF ConnState, StreamState
<1>8. ASSUME NEW k \in Conn, ConnLost(k) \/ SinksEnd(k) PROVE Goal
  BY <1>8 DEF ConnLost, SinksEnd
<1>9. ASSUME NEW s \in Stream, AcceptStream(s) PROVE Goal
  BY <1>9 DEF AcceptStream, StreamState
<1>10. ASSUME NEW s \in Stream, ConnectTarget(s) \/ PipeEnds(s) \/ StreamEnds(s) PROVE Goal
  <2>1. /\ stream[s] \in Open
        /\ stream' \in [Stream -> StreamState]
        /\ \A t \in Stream : t # s => stream'[t] = stream[t]
        /\ UNCHANGED <<role, accept, incoming, conn, peer, service, sinks, envVars>>
    BY <1>10 DEF ConnectTarget, PipeEnds, StreamEnds, StreamTo, StreamState, Open
  <2>2. QED BY <2>1
<1>11. QED
  BY <1>1, <1>2, <1>3, <1>4, <1>5, <1>6, <1>7, <1>8, <1>9, <1>10
  DEF ServeNext, AcceptStep, ConnStep, EndStep

-----------------------------------------------------------------------------
(* The counters *)

OfPeer(p, v) == {k \in Supervised : peer[k] = p /\ service[k] = v}

(* What is counted is finite. *)
LEMMA CountedFinite ==
  /\ \A v : OnService(v) \in SUBSET Stream
  /\ \A p, v : OfPeer(p, v) \in SUBSET Conn
  /\ \A k : StreamsOf(k) \in SUBSET Stream
BY DEF OnService, OfPeer, Supervised, StreamsOf

(* A step that leaves the open streams and their counters keeps the count. *)
LEMMA SameStreams ==
  ASSUME ServeShape, Counts, UNCHANGED <<active, service>>,
         \A s \in Stream : stream'[s] \in Open <=> stream[s] \in Open
  PROVE  active' \in [Service -> Nat] /\ ActiveExact'
<1>1. \A v \in Service : OnService(v)' = OnService(v)
  BY DEF OnService
<1>2. QED
  BY <1>1 DEF Counts, ActiveExact

(* A step that leaves the supervised connections keeps the registry. *)
LEMMA SamePeers ==
  ASSUME ServeShape, Counts, UNCHANGED <<peers, peer, service>>, Supervised' = Supervised
  PROVE  peers' \in [Peer -> [Service -> Nat]] /\ PeersExact'
<1>1. \A p \in Peer, v \in Service :
        {k \in Supervised' : peer'[k] = p /\ service'[k] = v}
        = {k \in Supervised : peer[k] = p /\ service[k] = v}
  OBVIOUS
<1>2. QED
  BY <1>1 DEF Counts, PeersExact

(* An admitted stream is counted once ... *)
LEMMA StreamCounted ==
  ASSUME ServeShape, Counts, NEW s \in Stream, AcceptStream(s)
  PROVE  active' \in [Service -> Nat] /\ ActiveExact'
<1>1. PICK u \in Service : s[1] \in Conn /\ u = service[s[1]] /\ stream[s] = "none"
  BY StreamFinite DEF AcceptStream, ServeShape
<1>2. /\ active' = [active EXCEPT ![u] = @ + 1] /\ service' = service
      /\ stream' = [stream EXCEPT ![s] = "connecting"]
  BY <1>1 DEF AcceptStream
<1>3. OnService(u)' = OnService(u) \cup {s} /\ s \notin OnService(u)
  BY <1>1, <1>2 DEF OnService, Open, ServeShape
<1>4. \A v \in Service \ {u} : OnService(v)' = OnService(v)
  BY <1>1, <1>2 DEF OnService, Open, ServeShape
<1>5. Cardinality(OnService(u)') = Cardinality(OnService(u)) + 1
  <2>1. OnService(u) \in SUBSET Stream
    BY CountedFinite
  <2>2. Cardinality(OnService(u) \cup {s}) = Cardinality(OnService(u)) + 1
    BY <1>3, <2>1, StreamFinite, Counting
  <2>3. QED BY <1>3, <2>2
<1>6. QED
  BY <1>1, <1>2, <1>4, <1>5 DEF Counts, ActiveExact

(* ... and discounted once, when its task ends by itself ... *)
LEMMA StreamDiscounted ==
  ASSUME ServeShape, NoOrphans, Counts, NEW s \in Stream, StreamEnds(s)
  PROVE  active' \in [Service -> Nat] /\ ActiveExact'
<1>1. PICK u \in Service : stream[s] \in Open /\ s[1] \in Conn /\ u = service[s[1]]
  BY StreamFinite DEF StreamEnds, StreamTo, NoOrphans, Supervised, ServeShape
<1>2. /\ active' = [active EXCEPT ![u] = @ - 1] /\ service' = service
      /\ stream' = [stream EXCEPT ![s] = "ended"]
  BY <1>1 DEF StreamEnds, StreamTo, DropCounters
<1>3. OnService(u)' = OnService(u) \ {s} /\ s \in OnService(u)
  BY <1>1, <1>2 DEF OnService, Open, ServeShape
<1>4. \A v \in Service \ {u} : OnService(v)' = OnService(v)
  BY <1>1, <1>2 DEF OnService, Open, ServeShape
<1>5. Cardinality(OnService(u)') = Cardinality(OnService(u)) - 1
      /\ Cardinality(OnService(u)') \in Nat
  <2>1. OnService(u) \in SUBSET Stream /\ OnService(u) \ {s} \in SUBSET Stream
    BY CountedFinite
  <2>2. Cardinality(OnService(u) \ {s}) = Cardinality(OnService(u)) - 1
    BY <1>3, <2>1, StreamFinite, Counting
  <2>3. Cardinality(OnService(u) \ {s}) \in Nat
    BY <2>1, StreamFinite, Counting
  <2>4. QED BY <1>3, <2>2, <2>3
<1>6. QED
  BY <1>1, <1>2, <1>4, <1>5 DEF Counts, ActiveExact

(* ... or with all the streams that its connection leaves. *)
LEMMA StreamsDiscounted ==
  ASSUME ServeShape, Counts, NEW k \in Conn, EndStep(k)
  PROVE  active' \in [Service -> Nat] /\ ActiveExact'
<1> DEFINE S == StreamsOf(k)
<1>1. PICK u \in Service : u = service[k]
  BY EndStepEnds DEF Supervised, ServeShape
<1>2. service' = service /\ stream' = [s \in Stream |-> IF s \in S THEN "ended" ELSE stream[s]]
  BY EndStepEnds
<1>3. Cardinality(S) \in Nat
  BY CountedFinite, StreamFinite, Counting
<1>4. active' = [active EXCEPT ![u] = @ - Cardinality(S)]
  <2>1. CASE PeerLost(k) \/ DrainTimeout(k)
    BY <1>1, <2>1 DEF PeerLost, DrainTimeout, DropCounters
  <2>2. CASE Drained(k)
    <3>1. S = {} /\ active' = active
      BY <2>2 DEF Drained
    <3>2. Cardinality(S) = 0 /\ active[u] \in Nat
      BY <1>1, <3>1, FS_EmptySet DEF Counts
    <3>3. QED BY <3>1, <3>2 DEF Counts
  <2>3. QED BY <2>1, <2>2 DEF EndStep
<1>5. OnService(u)' = OnService(u) \ S /\ S \subseteq OnService(u)
  BY <1>1, <1>2 DEF OnService, StreamsOf, Open
<1>6. \A v \in Service \ {u} : OnService(v)' = OnService(v)
  BY <1>1, <1>2 DEF OnService, StreamsOf, Open
<1> HIDE DEF S
<1>7. Cardinality(OnService(u)') = Cardinality(OnService(u)) - Cardinality(S)
      /\ Cardinality(OnService(u)') \in Nat
  <2>1. OnService(u) \in SUBSET Stream /\ OnService(u) \ S \in SUBSET Stream
    BY CountedFinite
  <2>2. Cardinality(OnService(u) \ S) = Cardinality(OnService(u)) - Cardinality(S)
    BY <1>5, <2>1, StreamFinite, Counting
  <2>3. Cardinality(OnService(u) \ S) \in Nat
    BY <2>1, StreamFinite, Counting
  <2>4. QED BY <1>5, <2>2, <2>3
<1>8. QED
  BY <1>1, <1>3, <1>4, <1>6, <1>7 DEF Counts, ActiveExact

(* A supervised connection is registered once under its peer and service ... *)
LEMMA PeerCounted ==
  ASSUME ServeShape, Counts, NEW k \in Conn, Supervise(k)
  PROVE  peers' \in [Peer -> [Service -> Nat]] /\ PeersExact'
<1>1. PICK q \in Peer, u \in Service : q = peer[k] /\ u = service[k] /\ k \notin Supervised
  BY DEF Supervise, Supervised, ServeShape
<1>2. Supervised' = Supervised \cup {k} /\ UNCHANGED <<peer, service>>
  BY DEF Supervise, Supervised, ServeShape
<1>3. peers' = [peers EXCEPT ![q][u] = @ + 1]
  BY <1>1 DEF Supervise, Track
<1>4. OfPeer(q, u)' = OfPeer(q, u) \cup {k} /\ k \notin OfPeer(q, u)
  BY <1>1, <1>2 DEF OfPeer
<1>5. \A p \in Peer, v \in Service : p # q \/ v # u => OfPeer(p, v)' = OfPeer(p, v)
  BY <1>1, <1>2 DEF OfPeer
<1>6. Cardinality(OfPeer(q, u)') = Cardinality(OfPeer(q, u)) + 1
  <2>1. OfPeer(q, u) \in SUBSET Conn
    BY CountedFinite
  <2>2. Cardinality(OfPeer(q, u) \cup {k}) = Cardinality(OfPeer(q, u)) + 1
    BY <1>4, <2>1, ServeRunAssumption, Counting
  <2>3. QED BY <1>4, <2>2
<1>7. \A p \in Peer, v \in Service : peers[p][v] = Cardinality(OfPeer(p, v))
  BY DEF Counts, PeersExact, OfPeer
<1>8. peers' \in [Peer -> [Service -> Nat]]
  BY <1>1, <1>3 DEF Counts
<1>9. \A p \in Peer, v \in Service : peers'[p][v] = Cardinality(OfPeer(p, v)')
  BY <1>1, <1>3, <1>5, <1>6, <1>7 DEF Counts
<1>10. QED
  BY <1>8, <1>9 DEF PeersExact, OfPeer

(* ... and leaves the registry when it is done. *)
LEMMA PeerDiscounted ==
  ASSUME ServeShape, Counts, NEW k \in Conn, EndStep(k)
  PROVE  peers' \in [Peer -> [Service -> Nat]] /\ PeersExact'
<1>1. PICK q \in Peer, u \in Service : q = peer[k] /\ u = service[k] /\ k \in Supervised
  BY EndStepEnds DEF Supervised, ServeShape
<1>2. Supervised' = Supervised \ {k} /\ UNCHANGED <<peer, service>>
  BY EndStepEnds DEF Done, Supervised, ServeShape
<1>3. peers' = [peers EXCEPT ![q][u] = @ - 1]
  BY <1>1, EndStepEnds DEF Done, Untrack
<1>4. OfPeer(q, u)' = OfPeer(q, u) \ {k} /\ k \in OfPeer(q, u)
  BY <1>1, <1>2 DEF OfPeer
<1>5. \A p \in Peer, v \in Service : p # q \/ v # u => OfPeer(p, v)' = OfPeer(p, v)
  BY <1>1, <1>2 DEF OfPeer
<1>6. Cardinality(OfPeer(q, u)') = Cardinality(OfPeer(q, u)) - 1
      /\ Cardinality(OfPeer(q, u)') \in Nat
  <2>1. OfPeer(q, u) \in SUBSET Conn /\ OfPeer(q, u) \ {k} \in SUBSET Conn
    BY CountedFinite
  <2>2. Cardinality(OfPeer(q, u) \ {k}) = Cardinality(OfPeer(q, u)) - 1
    BY <1>4, <2>1, ServeRunAssumption, Counting
  <2>3. Cardinality(OfPeer(q, u) \ {k}) \in Nat
    BY <2>1, ServeRunAssumption, Counting
  <2>4. QED BY <1>4, <2>2, <2>3
<1>7. \A p \in Peer, v \in Service : peers[p][v] = Cardinality(OfPeer(p, v))
  BY DEF Counts, PeersExact, OfPeer
<1>8. peers' \in [Peer -> [Service -> Nat]]
  BY <1>1, <1>3, <1>6, <1>7 DEF Counts
<1>9. \A p \in Peer, v \in Service : peers'[p][v] = Cardinality(OfPeer(p, v)')
  BY <1>1, <1>3, <1>5, <1>6, <1>7 DEF Counts
<1>10. QED
  BY <1>8, <1>9 DEF PeersExact, OfPeer

(* Each step keeps the counters exact. *)
LEMMA ServeNextCounts ==
  ASSUME ServeShape, PendingUnsupervised, NoOrphans, Counts, ServeNext
  PROVE  Counts'
<1> SUFFICES /\ active' \in [Service -> Nat] /\ ActiveExact'
             /\ peers' \in [Peer -> [Service -> Nat]] /\ PeersExact'
  BY DEF Counts
<1> USE DEF envVars
<1>1. ASSUME UNCHANGED <<active, peers, peer, service, stream>>, Supervised' = Supervised
      PROVE  /\ active' \in [Service -> Nat] /\ ActiveExact'
             /\ peers' \in [Peer -> [Service -> Nat]] /\ PeersExact'
  BY <1>1, SameStreams, SamePeers
<1>2. CASE RoleStep \/ Shutdown \/ GraceOver \/ Established \/ ConnectionsJoined
           \/ \E k \in Conn : Incoming(k) \/ ConnLost(k) \/ SinksEnd(k)
  <2>1. UNCHANGED <<active, peers, peer, service, stream, conn>>
    BY <1>2 DEF RoleStep, Shutdown, GraceOver, Ready, ReadyFails, AcceptJoined, SinksJoined,
                Close, Established, ConnectionsJoined, Incoming, ConnLost, SinksEnd
  <2>2. QED BY <1>1, <2>1 DEF Supervised
<1>3. CASE HandshakeFails \/ UnknownAlpn \/ SpawnConnection \/ StopAccepting
  <2>1. UNCHANGED <<active, peers, peer, service, stream>>
    BY <1>3 DEF HandshakeFails, UnknownAlpn, SpawnConnection, StopAccepting
  <2>2. Supervised' = Supervised
    <3>1. /\ \A k \in Conn : k # incoming => conn'[k] = conn[k]
          /\ incoming \in Conn =>
                conn'[incoming] \in {"ended", "spawned"} /\ conn[incoming] = "none"
      BY <1>3, ServeRunAssumption
      DEF HandshakeFails, UnknownAlpn, SpawnConnection, StopAccepting, ServeShape,
          PendingUnsupervised
    <3>2. QED BY <3>1 DEF Supervised
  <2>3. QED BY <1>1, <2>1, <2>2
<1>4. CASE \E k \in Conn : StopConnection(k)
  <2>1. UNCHANGED <<active, peers, peer, service, stream>> /\ Supervised' = Supervised
    BY <1>4 DEF StopConnection, Supervised, ServeShape
  <2>2. QED BY <1>1, <2>1
<1>5. ASSUME NEW k \in Conn, Supervise(k)
      PROVE  /\ active' \in [Service -> Nat] /\ ActiveExact'
             /\ peers' \in [Peer -> [Service -> Nat]] /\ PeersExact'
  <2>1. UNCHANGED <<active, service, stream>>
    BY <1>5 DEF Supervise
  <2>2. QED BY <1>5, <2>1, SameStreams, PeerCounted
<1>6. ASSUME NEW k \in Conn, EndStep(k)
      PROVE  /\ active' \in [Service -> Nat] /\ ActiveExact'
             /\ peers' \in [Peer -> [Service -> Nat]] /\ PeersExact'
  BY <1>6, StreamsDiscounted, PeerDiscounted
<1>7. ASSUME NEW s \in Stream, AcceptStream(s) \/ ConnectTarget(s) \/ PipeEnds(s) \/ StreamEnds(s)
      PROVE  /\ active' \in [Service -> Nat] /\ ActiveExact'
             /\ peers' \in [Peer -> [Service -> Nat]] /\ PeersExact'
  <2>1. UNCHANGED <<peers, peer, service, conn>>
    BY <1>7 DEF AcceptStream, ConnectTarget, PipeEnds, StreamEnds
  <2>2. peers' \in [Peer -> [Service -> Nat]] /\ PeersExact'
    BY <2>1, SamePeers DEF Supervised
  <2>3. CASE ConnectTarget(s) \/ PipeEnds(s)
    <3>1. active' = active /\ \A t \in Stream : stream'[t] \in Open <=> stream[t] \in Open
      BY <2>3 DEF ConnectTarget, PipeEnds, StreamTo, Open, ServeShape
    <3>2. QED BY <2>1, <2>2, <3>1, SameStreams
  <2>4. QED BY <1>7, <2>2, <2>3, StreamCounted, StreamDiscounted
<1>8. QED
  BY <1>2, <1>3, <1>4, <1>5, <1>6, <1>7 DEF ServeNext, AcceptStep, ConnStep, EndStep

-----------------------------------------------------------------------------
(* The inductive invariant and the theorems *)

(* Every step keeps the inductive invariant. *)
LEMMA ServeNextInv == ServeInv /\ [ServeNext]_serveVars => ServeInv'
<1> SUFFICES ASSUME ServeInv, [ServeNext]_serveVars PROVE ServeInv'
  OBVIOUS
<1>1. CASE ServeNext
  BY <1>1, ServeNextShape, ServeNextCounts DEF ServeInv
<1>2. CASE UNCHANGED serveVars
  <2> USE <1>2 DEF serveVars, envVars
  <2>1. ServeShape' /\ PendingUnsupervised' /\ JoinedInOrder'
    BY DEF ServeInv, ServeShape, PendingUnsupervised, JoinedInOrder
  <2>2. NoOrphans'
    BY DEF ServeInv, NoOrphans, Supervised
  <2>3. Supervised' = Supervised
    BY DEF Supervised
  <2>4. Counts'
    BY <2>3, SameStreams, SamePeers DEF ServeInv, Counts
  <2>5. QED BY <2>1, <2>2, <2>4 DEF ServeInv
<1>3. QED BY <1>1, <1>2

(* The invariant holds in every reachable state. *)
THEOREM ServeInvAlways == ServeSpec => []ServeInv
BY ServeInitInv, ServeNextInv, PTL DEF ServeSpec

(* The status never shows a stream or a peer too many or too few, also when  *)
(* tasks are aborted, connections lost or a shutdown is in progress.         *)
THEOREM CountsExactAlways == ServeSpec => []CountsExact
<1>1. ServeInv => CountsExact
  BY DEF ServeInv, ServeShape, Counts, CountsExact, ServeTypeOK
<1>2. QED BY <1>1, ServeInvAlways, PTL

(* No task outlives its supervisor, and the endpoint is closed after all of  *)
(* them and after the sinks.                                                 *)
THEOREM NoOrphansAlways == ServeSpec => []NoOrphans
<1>1. ServeInv => NoOrphans
  BY DEF ServeInv
<1>2. QED BY <1>1, ServeInvAlways, PTL

(* A supervisor leaves open streams behind only when its connection is lost  *)
(* or the shared drain deadline has passed.                                  *)
THEOREM GraceRespectedAlways == ServeSpec => GraceRespected
<1> DEFINE Graced == \A s \in Stream :
                       stream[s] \in Open /\ s[1] \in Supervised /\ conn'[s[1]] = "ended"
                          => expired \/ s[1] \notin alive
<1>1. ServeInv /\ [ServeNext]_serveVars => [Graced]_serveVars
  <2> SUFFICES ASSUME ServeInv, ServeNext, NEW s \in Stream, stream[s] \in Open,
                      s[1] \in Supervised, conn'[s[1]] = "ended"
               PROVE  expired \/ s[1] \notin alive
    OBVIOUS
  <2>0. s[1] \in Conn /\ conn[s[1]] \in {"serving", "draining"} /\ s[1] # incoming
        /\ s \in StreamsOf(s[1]) /\ conn \in [Conn -> ConnState]
    BY StreamFinite, ServeRunAssumption
    DEF ServeInv, Supervised, PendingUnsupervised, StreamsOf, ServeShape
  <2>1. ASSUME NEW k \in Conn, EndStep(k) PROVE expired \/ s[1] \notin alive
    <3>1. k = s[1]
      BY <2>0, <2>1, EndStepEnds DEF Done, ServeInv
    <3>2. QED BY <2>0, <2>1, <3>1 DEF EndStep, PeerLost, Drained, DrainTimeout
  <2>2. ASSUME HandshakeFails \/ UnknownAlpn \/ SpawnConnection \/ StopAccepting PROVE FALSE
    BY <2>0, <2>2 DEF HandshakeFails, UnknownAlpn, SpawnConnection, StopAccepting
  <2>3. ASSUME NEW k \in Conn, Supervise(k) \/ StopConnection(k) PROVE FALSE
    BY <2>0, <2>3 DEF Supervise, StopConnection
  <2>4. ASSUME UNCHANGED conn PROVE FALSE
    BY <2>0, <2>4
  <2>5. QED
    BY <2>1, <2>2, <2>3, <2>4
    DEF ServeNext, RoleStep, Shutdown, GraceOver, Ready, ReadyFails, AcceptJoined, SinksJoined,
        Close, AcceptStep, Established, ConnectionsJoined, Incoming, ConnStep, EndStep,
        ConnLost, SinksEnd, AcceptStream, ConnectTarget, PipeEnds, StreamEnds
<1>2. QED BY <1>1, ServeInvAlways, PTL DEF ServeSpec, GraceRespected

=============================================================================
