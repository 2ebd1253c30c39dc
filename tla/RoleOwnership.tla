---------------------------- MODULE RoleOwnership ---------------------------
(***************************************************************************)
(* Role ownership: the kernel locks of the two tiers, the owner records    *)
(* beside them, the claim of a starting role, the check of its identity    *)
(* against the other role, and the probes of status and service commands.  *)
(*                                                                         *)
(* Every file-system or lock call is a step.  A process may crash at any   *)
(* of them: the kernel then drops its locks, and its records stay.  A      *)
(* process is written for its pid in the records; reuse of pids is left to *)
(* RoleStatus.                                                             *)
(***************************************************************************)
EXTENDS Integers, FiniteSets

CONSTANTS
    Proc,       \* processes that start a role, each once
    Prober,     \* status and service commands
    Home,       \* user tier directories
    Machine,    \* the machine tier directory
    Id,         \* node identities
    None,       \* no record, no identity, no directory
    RoleOf,     \* RoleOf[a]: the role that a starts or probes
    HomeOf,     \* HomeOf[a]: the user tier directory of a
    IdOf,       \* IdOf[p]: the identity of process p
    Elevated,   \* those that may create and write the machine lock
    Attempts,   \* ATTEMPTS of claim_lock
    Parties     \* who may take part in one behaviour; the others never start

Actor == Proc \cup Prober
Role == {"serve", "access"}
Dir == Home \cup {Machine}
Record == [proc : Proc, id : Id \cup {None}]

ASSUME OwnershipAssumption ==
    /\ Proc \cap Prober = {}
    /\ Machine \notin Home
    /\ None \notin Dir \cup Id \cup Proc /\ None \notin Record
    /\ RoleOf \in [Actor -> Role]
    /\ HomeOf \in [Actor -> Home]
    /\ IdOf \in [Proc -> Id]
    /\ Elevated \subseteq Actor
    /\ Parties \subseteq SUBSET Actor
    /\ Attempts \in Nat \ {0}

VARIABLES
    locks,    \* locks[d, r]: the holders of r's lock in d, with their mode
    exists,   \* exists[r]: the machine lock file of r exists
    record,   \* record[d, r]: the owner record of r in d
    phase,    \* phase[a]: where a stands
    tries,    \* tries[p]: busy attempts of the lock p is claiming
    tier,     \* tier[p]: p's claim on the machine tier
    written,  \* written[p]: directories whose record is p's own
    look,     \* look[a]: the directory a probes
    clash     \* clash[p]: a live owner with p's identity was seen

memory == <<tries, tier, written, look, clash>>
vars == <<locks, exists, record, phase, memory>>

LockName == Dir \X Role
Mode == {"exclusive", "shared"}
Tier == {"none", "exclusive", "shared", "absent"}

(* In the order of a run: the claim; its records; loading the configuration; *)
(* the records with the identity; the probe of the other role; the run; the  *)
(* drop of the claim.                                                        *)
Claiming == {"user", "machine", "machine_lock", "record", "record_machine"}
Publishing == {"loading", "publish_machine", "test", "held", "read"}
Owning == Publishing \cup {"running", "drop", "drop_machine", "release"}
Phase == {"idle", "gone"} \cup Claiming \cup Owning

other_role(r) == IF r = "serve" THEN "access" ELSE "serve"

(* The role a probes: a starting process probes the other role. *)
Target(a) == IF a \in Proc THEN other_role(RoleOf[a]) ELSE RoleOf[a]

UserLock(p) == <<HomeOf[p], RoleOf[p]>>
MachineLock(p) == <<Machine, RoleOf[p]>>

Free_FaultySharedFits(l, mode) == mode = "shared" \/ locks[l] = {}

(* Kernel locks: exclusive against all, shared against exclusive. *)
Free(l, mode) ==
    IF mode = "exclusive" THEN locks[l] = {} ELSE \A h \in locks[l] : h[2] = "shared"

Acquire(l, a, mode) == locks' = [locks EXCEPT ![l] = @ \cup {<<a, mode>>}]
ReleaseAll(a) ==
    locks' = [l \in LockName |-> {h \in locks[l] : h[1] # a}]

Init ==
    /\ locks = [l \in LockName |-> {}]
    /\ exists \in [Role -> BOOLEAN]
    /\ record = [l \in LockName |-> None]
    /\ \E party \in Parties :
          phase = [a \in Actor |-> IF a \notin party THEN "gone"
                                   ELSE IF a \in Proc THEN "user" ELSE "idle"]
    /\ tries = [p \in Proc |-> 0]
    /\ tier = [p \in Proc |-> "none"]
    /\ written = [p \in Proc |-> {}]
    /\ look = [a \in Actor |-> None]
    /\ clash = [p \in Proc |-> FALSE]

Goto(a, s) == phase' = [phase EXCEPT ![a] = s]

-----------------------------------------------------------------------------
(* claim *)

(* The process ends; with it go its locks and its memory. *)
End(p) ==
    /\ Goto(p, "gone")
    /\ ReleaseAll(p)
    /\ tries' = [tries EXCEPT ![p] = 0]
    /\ tier' = [tier EXCEPT ![p] = "none"]
    /\ written' = [written EXCEPT ![p] = {}]
    /\ look' = [look EXCEPT ![p] = None]
    /\ clash' = [clash EXCEPT ![p] = FALSE]

(* claim_lock finds the lock free. *)
ClaimFree(p, l, next) ==
    /\ Free(l, "exclusive")
    /\ Acquire(l, p, "exclusive")
    /\ tries' = [tries EXCEPT ![p] = 0]
    /\ Goto(p, next)
    /\ UNCHANGED <<record, written, look, clash>>

Refuse_FaultyRemoves(p) ==
    /\ End(p)
    /\ record' = [record EXCEPT ![UserLock(p)] = None]

(* A refused claim releases what it holds; there is no RoleClaim to drop, so *)
(* no record is touched.                                                     *)
Refuse(p) ==
    /\ End(p)
    /\ UNCHANGED record

(* claim_lock finds it busy: pause and retry, or refuse the start. *)
ClaimBusy(p, l) ==
    /\ ~Free(l, "exclusive")
    /\ IF tries[p] + 1 < Attempts
         THEN /\ tries' = [tries EXCEPT ![p] = @ + 1]
              /\ UNCHANGED <<phase, locks, record, tier, written, look, clash>>
         ELSE Refuse(p)

ClaimUser(p) ==
    /\ phase[p] = "user"
    /\ \/ ClaimFree(p, UserLock(p), "machine") /\ UNCHANGED tier
       \/ ClaimBusy(p, UserLock(p))
    /\ UNCHANGED exists

(* claim_machine of an elevated process: create the file ... *)
CreateMachine(p) ==
    /\ phase[p] = "machine"
    /\ p \in Elevated
    /\ exists' = [exists EXCEPT ![RoleOf[p]] = TRUE]
    /\ Goto(p, "machine_lock")
    /\ UNCHANGED <<locks, record, tries, tier, written, look, clash>>

(* ... and hold it exclusively. *)
ClaimMachine(p) ==
    /\ phase[p] = "machine_lock"
    /\ \/ /\ ClaimFree(p, MachineLock(p), "record")
          /\ tier' = [tier EXCEPT ![p] = "exclusive"]
       \/ ClaimBusy(p, MachineLock(p))
    /\ UNCHANGED exists

(* claim_machine of any other process: no file, a shared hold, or a refusal  *)
(* at the first busy attempt.                                                *)
ShareMachine(p) ==
    /\ phase[p] = "machine"
    /\ p \notin Elevated
    /\ \/ /\ ~exists[RoleOf[p]]
          /\ tier' = [tier EXCEPT ![p] = "absent"]
          /\ Goto(p, "record")
          /\ UNCHANGED <<locks, record, tries, written, look, clash>>
       \/ /\ exists[RoleOf[p]] /\ Free(MachineLock(p), "shared")
          /\ Acquire(MachineLock(p), p, "shared")
          /\ tier' = [tier EXCEPT ![p] = "shared"]
          /\ Goto(p, "record")
          /\ UNCHANGED <<record, tries, written, look, clash>>
       \/ /\ exists[RoleOf[p]] /\ ~Free(MachineLock(p), "shared")
          /\ Refuse(p)
    /\ UNCHANGED exists

(* write_owner: replaces the record atomically, or fails and leaves it. *)
WriteOwner(p, d, id) ==
    \/ /\ record' = [record EXCEPT ![<<d, RoleOf[p]>>] = [proc |-> p, id |-> id]]
       /\ written' = [written EXCEPT ![p] = @ \cup {d}]
    \/ UNCHANGED record /\ written' = [written EXCEPT ![p] = @ \ {d}]

(* The end of claim: the records, without an identity. *)
WriteClaim(p) ==
    /\ \/ /\ phase[p] = "record"
          /\ WriteOwner(p, HomeOf[p], None)
          /\ Goto(p, IF tier[p] = "exclusive" THEN "record_machine" ELSE "loading")
       \/ /\ phase[p] = "record_machine"
          /\ WriteOwner(p, Machine, None)
          /\ Goto(p, "loading")
    /\ UNCHANGED <<locks, exists, tries, tier, look, clash>>

-----------------------------------------------------------------------------
(* publish_identity, and the probe it shares with status commands *)

ProbeFrom(a, d) == look' = [look EXCEPT ![a] = d]

(* The records are written before the other role is inspected. *)
Publish(p) ==
    /\ \/ /\ phase[p] = "loading"
          /\ WriteOwner(p, HomeOf[p], IdOf[p])
          /\ IF tier[p] = "exclusive"
               THEN Goto(p, "publish_machine") /\ UNCHANGED look
               ELSE Goto(p, "test") /\ ProbeFrom(p, HomeOf[p])
       \/ /\ phase[p] = "publish_machine"
          /\ WriteOwner(p, Machine, IdOf[p])
          /\ Goto(p, "test")
          /\ ProbeFrom(p, HomeOf[p])
    /\ UNCHANGED <<locks, exists, tries, tier, clash>>

(* An error before the endpoint is bound: the claim is dropped. *)
LoadFails(p) ==
    /\ phase[p] = "loading"
    /\ Goto(p, "drop")
    /\ UNCHANGED <<locks, exists, record, memory>>

(* A command probes; it may do so any number of times. *)
Probe(a) ==
    /\ a \in Prober /\ phase[a] = "idle"
    /\ Goto(a, "test")
    /\ ProbeFrom(a, HomeOf[a])
    /\ UNCHANGED <<locks, exists, record, tries, tier, written, clash>>

(* After one tier the next, or the verdict. *)
NextTier(a, found) ==
    IF look[a] # Machine
      THEN Goto(a, "test") /\ ProbeFrom(a, Machine)
      ELSE /\ Goto(a, IF a \in Prober THEN "idle"
                      ELSE IF found THEN "drop" ELSE "running")
           /\ ProbeFrom(a, None)

Found(a) == a \in Proc /\ clash[a]

ProbedLock(a) == <<look[a], Target(a)>>

(* lock_is_held: whoever can write the machine lock tests it exclusively.    *)
ProbeMode(a) == IF look[a] = Machine /\ a \in Elevated THEN "exclusive" ELSE "shared"

(* The lock is free and taken for a moment, or busy: the role runs. *)
TestLock(a) ==
    /\ phase[a] = "test"
    /\ look[a] = Machine => exists[Target(a)]
    /\ \/ /\ Free(ProbedLock(a), ProbeMode(a))
          /\ Acquire(ProbedLock(a), a, ProbeMode(a))
          /\ Goto(a, "held")
       \/ /\ ~Free(ProbedLock(a), ProbeMode(a))
          /\ Goto(a, "read")
          /\ UNCHANGED locks
    /\ UNCHANGED <<exists, record, memory>>

(* A missing lock is not held. *)
TestMissing(a) ==
    /\ phase[a] = "test"
    /\ look[a] = Machine /\ ~exists[Target(a)]
    /\ NextTier(a, Found(a))
    /\ UNCHANGED <<locks, exists, record, tries, tier, written, clash>>

(* The probe releases the lock it took. *)
ReleaseProbe(a) ==
    /\ phase[a] = "held"
    /\ locks' = [locks EXCEPT ![ProbedLock(a)] = {h \in @ : h[1] # a}]
    /\ NextTier(a, Found(a))
    /\ UNCHANGED <<exists, record, tries, tier, written, clash>>

Clashes_FaultyMachineOnly(p) ==
    LET r == record[ProbedLock(p)] IN look[p] = Machine /\ r # None /\ r.id = IdOf[p]

(* read_owner: is the live owner's identity ours? *)
Clashes(p) ==
    LET r == record[ProbedLock(p)] IN r # None /\ r.id = IdOf[p]

ReadOwner(a) ==
    /\ phase[a] = "read"
    /\ IF a \in Proc
         THEN /\ clash' = [clash EXCEPT ![a] = @ \/ Clashes(a)]
              /\ NextTier(a, clash[a] \/ Clashes(a))
         ELSE UNCHANGED clash /\ NextTier(a, FALSE)
    /\ UNCHANGED <<locks, exists, record, tries, tier, written>>

-----------------------------------------------------------------------------
(* The end of a run *)

Finish(p) ==
    /\ phase[p] = "running"
    /\ Goto(p, "drop")
    /\ UNCHANGED <<locks, exists, record, memory>>

(* RoleClaim's drop removes a record only while it names this process ... *)
RemoveOwn(p, l) ==
    record' = IF record[l] # None /\ record[l].proc = p
                THEN [record EXCEPT ![l] = None] ELSE record

DropRecord(p) ==
    /\ \/ /\ phase[p] = "drop"
          /\ RemoveOwn(p, UserLock(p))
          /\ Goto(p, IF tier[p] = "exclusive" THEN "drop_machine" ELSE "release")
       \/ /\ phase[p] = "drop_machine"
          /\ RemoveOwn(p, MachineLock(p))
          /\ Goto(p, "release")
    /\ UNCHANGED <<locks, exists, memory>>

(* ... and releases the locks after that. *)
Release(p) ==
    /\ phase[p] = "release"
    /\ End(p)
    /\ UNCHANGED <<exists, record>>

Crash(p) ==
    /\ phase[p] \in Claiming \cup Owning
    /\ End(p)
    /\ UNCHANGED <<exists, record>>

ProbeStep(a) == TestLock(a) \/ TestMissing(a) \/ ReleaseProbe(a) \/ ReadOwner(a)

ProcStep(p) ==
    \/ ClaimUser(p) \/ CreateMachine(p) \/ ClaimMachine(p)
    \/ ShareMachine(p) \/ WriteClaim(p) \/ Publish(p) \/ LoadFails(p)
    \/ Finish(p) \/ DropRecord(p) \/ Release(p) \/ Crash(p)

Next ==
    \/ \E p \in Proc : ProcStep(p)
    \/ \E a \in Actor : ProbeStep(a) \/ Probe(a)

Spec == Init /\ [][Next]_vars

-----------------------------------------------------------------------------
Owners == {p \in Proc : phase[p] \in {"record", "record_machine"} \cup Owning}

(* The state has its shape; a process that owns its role holds its user lock *)
(* exclusively and the machine lock as its tier says.                        *)
TypeOK ==
    /\ locks \in [LockName -> SUBSET (Actor \X Mode)]
    /\ exists \in [Role -> BOOLEAN]
    /\ record \in [LockName -> Record \cup {None}]
    /\ phase \in [Actor -> Phase]
    /\ tries \in [Proc -> 0 .. Attempts]
    /\ tier \in [Proc -> Tier]
    /\ written \in [Proc -> SUBSET Dir]
    /\ look \in [Actor -> Dir \cup {None}]
    /\ clash \in [Proc -> BOOLEAN]
    /\ \A p \in Owners :
         /\ <<p, "exclusive">> \in locks[UserLock(p)]
         /\ tier[p] \in Mode => <<p, tier[p]>> \in locks[MachineLock(p)]

(* One process per role and user, in any start order and through crashes,    *)
(* and an elevated one beside no other process of its role, except one that  *)
(* started before the machine lock file ever existed.                        *)
OneOwner ==
    \A p, q \in Owners :
        p # q /\ RoleOf[p] = RoleOf[q] =>
            /\ HomeOf[p] # HomeOf[q]
            /\ tier[p] = "exclusive" => tier[q] = "absent"

(* While a process owns its role, the records it has written stay its own:   *)
(* no refused start, crashed or ending process takes them away.              *)
RecordStays ==
    \A p \in Proc : phase[p] \in Publishing \cup {"running"} =>
        \A d \in written[p] :
            record[<<d, RoleOf[p]>>] # None /\ record[<<d, RoleOf[p]>>].proc = p

(* p's probe covers a directory in which q publishes. *)
Sees(p, q) == HomeOf[p] = HomeOf[q] \/ tier[q] = "exclusive"
Wrote(p) ==
    /\ HomeOf[p] \in written[p]
    /\ tier[p] = "exclusive" => Machine \in written[p]

(* "Two racing starts with one key can only both back off, never both run",  *)
(* when each probes a directory that the other publishes in and no record    *)
(* write failed.                                                             *)
NeverBothRun ==
    \A p, q \in Proc :
        /\ phase[p] = "running" /\ phase[q] = "running"
        /\ RoleOf[p] # RoleOf[q]
        /\ Sees(p, q) /\ Sees(q, p)
        /\ Wrote(p) /\ Wrote(q)
        => IdOf[p] # IdOf[q]

(* docs/how-it-works.md: "A Serve and an Access may run together, but not    *)
(* with the same NodeId."                                                    *)
DistinctIdentities ==
    \A p, q \in Proc :
        /\ phase[p] = "running" /\ phase[q] = "running"
        /\ RoleOf[p] # RoleOf[q]
        /\ Wrote(p) /\ Wrote(q)
        => IdOf[p] # IdOf[q]

(* Claims mean what they say: an owner holds the locks of its tier (TypeOK), *)
(* and no other process owns its role there.                                 *)
ClaimsHold == TypeOK /\ OneOwner

=============================================================================
