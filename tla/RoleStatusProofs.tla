-------------------------- MODULE RoleStatusProofs --------------------------
(***************************************************************************)
(* Proofs about RoleStatus for any finite set of processes and any set of  *)
(* pids, reused or not.  The invariant follows one process through its     *)
(* run: when a save of it may be under way, when its removal may be, and   *)
(* when the status file is surely not its own; and it follows the status   *)
(* command: whom its probe excludes, and whose record it can have read.    *)
(***************************************************************************)
EXTENDS RoleStatus, TLAPS

Reader == [at : {"idle", "probed", "owner", "judged"}, running : BOOLEAN,
           gone : SUBSET Proc, sound : BOOLEAN, owner : Proc \cup {None},
           snapshot : Proc \cup {None}, verdict : Verdict]

(* TypeOK, with the shape of the status command. *)
Shape == TypeOK /\ reader \in Reader

(* Before its first save a process has no writer, no removal and no file;    *)
(* when it is over, neither a writer nor a removal.                          *)
NotYetWriting ==
    \A p \in Proc :
        /\ main[p] \in {"new", "claimed", "starting"} =>
              flush[p] = "off" /\ ~saved[p] /\ status # p
        /\ main[p] \in {"new", "claimed", "starting", "over"} => ~save[p]
        /\ main[p] \in {"new", "claimed"} => ~recorded[p]
        /\ ended[p] # "none" => main[p] = "over"

(* The flush task and the saves, along the run: the task is at work between  *)
(* the initial save and stop_flush; and a task that sleeps, or was joined in *)
(* time, leaves no save behind.                                              *)
WriterPlace ==
    \A p \in Proc :
        /\ main[p] = "saving" => flush[p] = "off"
        /\ main[p] \in {"running", "draining"} => flush[p] \in {"sleeping", "saving"}
        /\ flush[p] = "sleeping" => ~save[p]
        /\ course[p] \in Graceful =>
              /\ flush[p] = "ended" => ~save[p]
              /\ main[p] \in {"closing", "removing", "drop", "release", "exiting"} =>
                    ~save[p] /\ flush[p] \in {"off", "ended"}

(* Removals, along the run: finish_run's before the claim is dropped, the    *)
(* forced exit's after that.                                                 *)
RemovalPlace ==
    \A p \in Proc :
        /\ rm[p]["pool"] # "none" =>
              main[p] \in {"removing", "drop", "release", "exiting", "forced_drop",
                           "forced_release", "forced"}
        /\ rm[p]["exit"] # "none" => main[p] \in {"forced", "exiting"} /\ course[p] = "forced"
        /\ main[p] \in {"forced_drop", "forced_release", "forced"} => course[p] = "forced"
        /\ course[p] \in Graceful /\ main[p] \in {"drop", "release", "exiting"} =>
              rm[p]["pool"] \in {"none", "finished"}

(* From the removal on, the status file is not this process's own. *)
RemovedStaysRemoved ==
    \A p \in Proc : course[p] = "normal" =>
        /\ main[p] \in {"drop", "release", "exiting"} => status # p
        /\ main[p] = "removing" /\ rm[p]["pool"] = "finished" => status # p
        /\ ended[p] = "exited" => status # p

(* As long as every shutdown is graceful, what the holder of the lock saved  *)
(* is in place until it removes it.                                          *)
SavedStays ==
    (\A q \in Proc : course[q] \in Graceful) =>
        \A p \in Proc :
            main[p] \in {"saving", "running", "draining", "flushing", "closing"} /\ saved[p]
                => status = p

(* Files name processes that have started, so their pids are settled; the    *)
(* holder's record, once written, is replaced by nobody's.                   *)
FilesOfStarted ==
    /\ \A p \in {record, status, reader.owner, reader.snapshot} \ {None} : main[p] # "new"
    /\ \A p \in Proc : lock = p /\ recorded[p] => record \in {p, None}

(* The status command: who was over at its probe stays over, and with a      *)
(* sound holder no record of those can be read.                              *)
ReaderExcludesGone ==
    /\ reader.at = "idle" => reader = Idle
    /\ reader.at # "judged" => reader.verdict = "none"
    /\ \A p \in reader.gone : main[p] = "over"
    /\ reader.running /\ reader.sound =>
          /\ reader.at = "probed" => record \notin reader.gone
          /\ reader.owner \notin reader.gone
    /\ reader.verdict = "current" =>
          /\ reader.running /\ reader.owner # None /\ reader.snapshot # None
          /\ pid[reader.snapshot] = pid[reader.owner]

Inv ==
    /\ Shape /\ NotYetWriting /\ WriterPlace /\ RemovalPlace
    /\ RemovedStaysRemoved /\ SavedStays /\ FilesOfStarted /\ ReaderExcludesGone

-----------------------------------------------------------------------------
(* Grouping the steps *)

(* Steps that only move a process along its run. *)
Move(p) ==
    StartFails(p) \/ ReadyFails(p) \/ Stop(p) \/ TasksJoined(p) \/ FlushJoined(p)
      \/ Removed(p) \/ ForcedRemoved(p)

(* Steps of the status command. *)
ReaderStep == Probe \/ ReadOwner \/ ReadStatus \/ Again

(* Steps of a process. *)
StepOf(p) ==
    \/ Claim(p) \/ Refused(p) \/ WriteOwner(p) \/ InitialSave(p) \/ Ready(p)
    \/ Tick(p) \/ SaveDone(p) \/ SaveAwaited(p) \/ FlushStops(p)
    \/ Move(p) \/ FlushTimeout(p) \/ FinishRun(p)
    \/ \E k \in By : RemovalRead(p, k) \/ RemovalUnlink(p, k)
    \/ DropRecord(p) \/ Release(p) \/ Forced(p) \/ Exit(p) \/ Crash(p)

(* Every step is one of a process or of the status command. *)
LEMMA NextCases ==
  ASSUME Next
  PROVE  (\E p \in Proc : StepOf(p)) \/ ReaderStep
BY DEF Next, Move, ReaderStep, StepOf

(* The status command changes nothing but itself. *)
LEMMA ReaderFrame ==
  ASSUME ReaderStep
  PROVE  UNCHANGED <<lock, record, status, runVars, writerVars, rm>>
BY DEF ReaderStep, Probe, ReadOwner, ReadStatus, Again, Read

(* A process ends from wherever it stands, but not before its claim. *)
LEMMA OverFrame ==
  ASSUME NEW p \in Proc, Exit(p) \/ Crash(p)
  PROVE  /\ main[p] \in Alive
         /\ \E how \in {"exited", "crashed"} :
              Over(p, how) /\ (how = "exited" => main[p] = "exiting")
BY DEF Exit, Crash, Alive

-----------------------------------------------------------------------------
(* The shape of the state *)

(* Initially nothing has started and nothing is on disk. *)
LEMMA InitInv == Init => Inv
<1> SUFFICES ASSUME Init PROVE Inv
  OBVIOUS
<1>1. Shape
  BY StatusAssumption
  DEF Init, Shape, TypeOK, Reader, Idle, Main, Alive, Stopping, Flush, Course, Graceful, Removal, By,
      Outcome, Verdict
<1>2. NotYetWriting /\ WriterPlace /\ RemovalPlace /\ RemovedStaysRemoved
  BY StatusAssumption DEF Init, NotYetWriting, WriterPlace, RemovalPlace, RemovedStaysRemoved, By
<1>3. SavedStays /\ FilesOfStarted /\ ReaderExcludesGone
  BY StatusAssumption DEF Init, SavedStays, FilesOfStarted, ReaderExcludesGone, Idle
<1>4. QED BY <1>1, <1>2, <1>3 DEF Inv

(* Where a process holds its claim. *)
Holding == Alive \ {"forced", "exiting"}

LockHeld == \A p \in Proc : main[p] \in Holding <=> lock = p

(* The shape has two parts: types, and the agreement of the lock with the runs. *)
Types ==
    /\ {lock, record, status} \subseteq Proc \cup {None}
    /\ pid \in [Proc -> Pid \cup {None}]
    /\ main \in [Proc -> Main]
    /\ recorded \in [Proc -> BOOLEAN]
    /\ flush \in [Proc -> Flush]
    /\ save \in [Proc -> BOOLEAN]
    /\ saved \in [Proc -> BOOLEAN]
    /\ course \in [Proc -> Course]
    /\ rm \in [Proc -> [By -> Removal]]
    /\ ended \in [Proc -> Outcome]
    /\ reader \in Reader

(* A well-shaped state is one with these two parts. *)
LEMMA ShapeParts == Shape <=> Types /\ LockHeld
BY DEF Shape, TypeOK, Types, LockHeld, Holding, Reader

(* A process that moves and keeps its claim, or has none before and after,   *)
(* leaves the lock in agreement.                                             *)
LEMMA KeepsClaim ==
  ASSUME Types, LockHeld, NEW p \in Proc, NEW s, Goto(p, s), lock' = lock,
         s \in Holding <=> main[p] \in Holding
  PROVE  LockHeld'
BY DEF Types, LockHeld, Goto

(* A removal that moves on keeps the type of the removals. *)
LEMMA RemovalTyped ==
  ASSUME Types, NEW p \in Proc, NEW k \in By, NEW s \in Removal
  PROVE  [rm EXCEPT ![p][k] = s] \in [Proc -> [By -> Removal]]
BY DEF Types

(* Claiming and starting. *)
LEMMA StartShape ==
  ASSUME Types, LockHeld, NEW p \in Proc,
         \/ Claim(p) \/ Refused(p) \/ WriteOwner(p) \/ InitialSave(p) \/ Ready(p)
  PROVE  Types' /\ LockHeld'
<1> USE StatusAssumption DEF runVars, writerVars
<1> "claimed" \in Holding /\ "starting" \in Holding /\ "saving" \in Holding
    /\ "running" \in Holding /\ "new" \notin Holding /\ "over" \notin Holding
    /\ Holding \subseteq Main /\ "over" \in Main
  BY DEF Holding, Alive, Stopping, Main
<1>1. CASE Claim(p)
  <2>1. LockHeld'
    BY <1>1 DEF Claim, Types, LockHeld, Goto
  <2>2. QED BY <1>1, <2>1 DEF Claim, Types, Goto
<1>2. CASE Refused(p)
  <2>1. LockHeld'
    BY <1>2, KeepsClaim DEF Refused
  <2>2. QED BY <1>2, <2>1 DEF Refused, Types, Goto, Outcome
<1>3. CASE WriteOwner(p)
  <2>1. LockHeld'
    BY <1>3, KeepsClaim DEF WriteOwner
  <2>2. QED BY <1>3, <2>1 DEF WriteOwner, Types, Goto
<1>4. CASE InitialSave(p)
  <2>1. LockHeld'
    BY <1>4, KeepsClaim DEF InitialSave
  <2>2. QED BY <1>4, <2>1 DEF InitialSave, Types, Goto
<1>5. CASE Ready(p)
  <2>1. LockHeld'
    BY <1>5, KeepsClaim DEF Ready
  <2>2. QED BY <1>5, <2>1 DEF Ready, Types, Goto, Flush
<1>6. QED BY <1>1, <1>2, <1>3, <1>4, <1>5

(* The flush task, its saves and the removals leave the runs alone. *)
LEMMA WriterShape ==
  ASSUME Types, LockHeld, NEW p \in Proc,
         \/ Tick(p) \/ SaveDone(p) \/ SaveAwaited(p) \/ FlushStops(p)
         \/ \E k \in By : RemovalRead(p, k) \/ RemovalUnlink(p, k)
  PROVE  Types' /\ LockHeld'
<1> USE DEF runVars, writerVars
<1>1. main' = main /\ lock' = lock
  BY DEF Tick, SaveDone, SaveAwaited, FlushStops, RemovalRead, RemovalUnlink
<1>2. LockHeld'
  BY <1>1 DEF LockHeld
<1>3. CASE Tick(p)
  BY <1>2, <1>3 DEF Types, Tick, Flush
<1>4. CASE SaveDone(p)
  BY <1>2, <1>4 DEF Types, SaveDone
<1>5. CASE SaveAwaited(p) \/ FlushStops(p)
  BY <1>2, <1>5 DEF Types, SaveAwaited, FlushStops, Flush
<1>6. ASSUME NEW k \in By, RemovalRead(p, k) PROVE Types'
  BY <1>6 DEF Types, RemovalRead, Removal
<1>7. ASSUME NEW k \in By, RemovalUnlink(p, k) PROVE Types'
  <2>1. \/ course' = course
        \/ course' = [course EXCEPT ![p] = "left"]
    BY <1>7 DEF RemovalUnlink, Types
  <2>2. course' \in [Proc -> Course]
    BY <2>1 DEF Types, Course, Graceful
  <2>3. rm' \in [Proc -> [By -> Removal]]
    BY <1>7 DEF Types, RemovalUnlink, Removal
  <2>4. status' \in Proc \cup {None}
    BY <1>7 DEF Types, RemovalUnlink
  <2> QED
    BY <1>7, <2>2, <2>3, <2>4 DEF Types, RemovalUnlink
<1>8. QED BY <1>2, <1>3, <1>4, <1>5, <1>6, <1>7

(* Ending a run: in order, or dropped. *)
LEMMA EndShape ==
  ASSUME Types, LockHeld, NEW p \in Proc,
         \/ Move(p) \/ FlushTimeout(p) \/ FinishRun(p) \/ DropRecord(p) \/ Release(p)
         \/ Forced(p) \/ Exit(p) \/ Crash(p)
  PROVE  Types' /\ LockHeld'
<1> USE StatusAssumption DEF runVars, writerVars
<1> DEFINE On == {"starting", "drop", "closing", "running", "draining", "flushing", "removing",
                  "release", "forced_drop", "forced_release"}
<1> On \subseteq Holding /\ Stopping \subseteq Holding /\ Holding \subseteq Main
    /\ {"forced", "exiting", "over"} \subseteq Main \ Holding
  BY DEF Holding, Alive, Stopping, Main
<1>1. CASE Move(p)
  <2>1. PICK s \in Main : Goto(p, s) /\ (s \in Holding <=> main[p] \in Holding)
    BY <1>1 DEF Move, StartFails, ReadyFails, Stop, TasksJoined, FlushJoined, Removed,
                ForcedRemoved, Step
  <2>2. UNCHANGED <<pid, lock, record, status, recorded, course, ended, writerVars, rm, reader>>
    BY <1>1 DEF Move, StartFails, ReadyFails, Stop, TasksJoined, FlushJoined, Removed,
                ForcedRemoved, Step
  <2>3. LockHeld'
    BY <2>1, <2>2, KeepsClaim
  <2>4. QED BY <2>1, <2>2, <2>3 DEF Types, Goto
<1>2. CASE FlushTimeout(p)
  <2>1. LockHeld'
    BY <1>2, KeepsClaim DEF FlushTimeout
  <2>2. QED BY <1>2, <2>1 DEF FlushTimeout, Types, Goto, Flush, Course, Graceful
<1>3. CASE FinishRun(p)
  <2>1. PICK s \in {"removing", "drop"} : Goto(p, s)
    BY <1>3 DEF FinishRun
  <2>2. main[p] \in Holding /\ UNCHANGED <<lock, record, status, pid, recorded, course, ended,
                                          writerVars, reader>>
    BY <1>3 DEF FinishRun
  <2>3. rm' \in [Proc -> [By -> Removal]]
    <3>1. "pool" \in By /\ "read" \in Removal
      BY DEF By, Removal
    <3>2. [rm EXCEPT ![p]["pool"] = "read"] \in [Proc -> [By -> Removal]]
      BY <3>1, RemovalTyped
    <3>3. rm' = rm \/ rm' = [rm EXCEPT ![p]["pool"] = "read"]
      BY <1>3 DEF FinishRun
    <3>4. QED BY <3>2, <3>3 DEF Types
  <2>4. LockHeld'
    BY <2>1, <2>2, KeepsClaim
  <2>5. QED BY <2>1, <2>2, <2>3, <2>4 DEF Types, Goto
<1>4. CASE DropRecord(p)
  <2>1. PICK s \in {"release", "forced_release"} : Goto(p, s)
    BY <1>4 DEF DropRecord
  <2>2. LockHeld'
    BY <1>4, <2>1, KeepsClaim DEF DropRecord
  <2>3. QED BY <1>4, <2>1, <2>2 DEF DropRecord, Types, Goto
<1>5. CASE Release(p)
  <2>1. PICK s \in {"exiting", "forced"} : Goto(p, s)
    BY <1>5 DEF Release
  <2>2. lock = p /\ lock' = None
    BY <1>5 DEF Release, LockHeld
  <2>3. LockHeld'
    BY <2>1, <2>2 DEF LockHeld, Goto, Types
  <2>4. rm' \in [Proc -> [By -> Removal]]
    <3>1. "exit" \in By /\ "read" \in Removal
      BY DEF By, Removal
    <3>2. [rm EXCEPT ![p]["exit"] = "read"] \in [Proc -> [By -> Removal]]
      BY <3>1, RemovalTyped
    <3>3. rm' = rm \/ rm' = [rm EXCEPT ![p]["exit"] = "read"]
      BY <1>5 DEF Release
    <3>4. QED BY <3>2, <3>3 DEF Types
  <2>5. QED BY <1>5, <2>1, <2>2, <2>3, <2>4 DEF Release, Types, Goto
<1>6. CASE Forced(p)
  <2>1. LockHeld'
    BY <1>6, KeepsClaim DEF Forced
  <2>2. QED BY <1>6, <2>1 DEF Forced, Types, Goto, Course, Graceful
<1>7. CASE Exit(p) \/ Crash(p)
  <2>1. PICK how \in {"exited", "crashed"} : Over(p, how)
    BY <1>7, OverFrame
  <2>2. LockHeld'
    BY <2>1 DEF Over, LockHeld, Goto, Types
  <2>3. rm' \in [Proc -> [By -> Removal]]
    BY <2>1 DEF Over, Types, Removal
  <2>4. QED BY <2>1, <2>2, <2>3 DEF Over, Types, Goto, Outcome, Flush
<1>8. QED BY <1>1, <1>2, <1>3, <1>4, <1>5, <1>6, <1>7

(* The status command's records have their shape. *)
LEMMA ReaderShape ==
  ASSUME Types, LockHeld, ReaderStep
  PROVE  Types' /\ LockHeld'
<1>1. UNCHANGED <<lock, record, status, runVars, writerVars, rm>>
  BY ReaderFrame
<1>2. reader' \in Reader
  <2>1. CASE Probe
    BY <2>1 DEF Probe, Read, Reader, Types
  <2>2. CASE ReadOwner
    BY <2>2 DEF ReadOwner, Read, Reader, Types
  <2>3. CASE ReadStatus
    <3>1. Freshness(status, reader.running, reader.owner) \in Verdict
      BY DEF Freshness, Verdict
    <3>2. QED BY <2>3, <3>1 DEF ReadStatus, Read, Reader, Types
  <2>4. CASE Again
    BY <2>4 DEF Again, Read, Reader, Types, Idle, Verdict
  <2>5. QED BY <2>1, <2>2, <2>3, <2>4 DEF ReaderStep
<1>3. QED BY <1>1, <1>2 DEF Types, LockHeld, runVars, writerVars

(* Each step keeps the shape, and the agreement of the lock with the runs. *)
LEMMA NextShape ==
  ASSUME Shape, Next
  PROVE  Shape'
<1>1. Types /\ LockHeld
  BY ShapeParts
<1>2. Types' /\ LockHeld'
  BY <1>1, NextCases, StartShape, WriterShape, EndShape, ReaderShape DEF StepOf
<1>3. QED
  BY <1>2 DEF Shape, TypeOK, Types, LockHeld, Holding, Reader

-----------------------------------------------------------------------------
(* The life of one process *)

Life(p) ==
    /\ main[p] \in {"new", "claimed", "starting"} =>
          flush[p] = "off" /\ ~saved[p] /\ status # p
    /\ main[p] \in {"new", "claimed", "starting", "over"} => ~save[p]
    /\ main[p] \in {"new", "claimed"} => ~recorded[p]
    /\ ended[p] # "none" => main[p] = "over"
    /\ main[p] = "saving" => flush[p] = "off"
    /\ main[p] \in {"running", "draining"} => flush[p] \in {"sleeping", "saving"}
    /\ flush[p] = "sleeping" => ~save[p]
    /\ course[p] \in Graceful =>
          /\ flush[p] = "ended" => ~save[p]
          /\ main[p] \in {"closing", "removing", "drop", "release", "exiting"} =>
                ~save[p] /\ flush[p] \in {"off", "ended"}
    /\ rm[p]["pool"] # "none" =>
          main[p] \in {"removing", "drop", "release", "exiting", "forced_drop",
                       "forced_release", "forced"}
    /\ rm[p]["exit"] # "none" => main[p] \in {"forced", "exiting"} /\ course[p] = "forced"
    /\ main[p] \in {"forced_drop", "forced_release", "forced"} => course[p] = "forced"
    /\ course[p] \in Graceful /\ main[p] \in {"drop", "release", "exiting"} =>
          rm[p]["pool"] \in {"none", "finished"}
    /\ course[p] = "normal" =>
          /\ main[p] \in {"drop", "release", "exiting"} => status # p
          /\ main[p] = "removing" /\ rm[p]["pool"] = "finished" => status # p
          /\ ended[p] = "exited" => status # p

(* Four parts of the invariant speak of one process at a time. *)
LEMMA LifeParts ==
  (\A p \in Proc : Life(p))
    <=> NotYetWriting /\ WriterPlace /\ RemovalPlace /\ RemovedStaysRemoved
BY DEF Life, NotYetWriting, WriterPlace, RemovalPlace, RemovedStaysRemoved

(* What a step of one process leaves alone of another. *)
SameOf(q) ==
    /\ main'[q] = main[q] /\ recorded'[q] = recorded[q]
    /\ flush'[q] = flush[q] /\ save'[q] = save[q] /\ saved'[q] = saved[q]
    /\ course'[q] = course[q] /\ rm'[q] = rm[q] /\ ended'[q] = ended[q]
    /\ status' = status \/ status' # q

(* A process that is left alone lives on. *)
LEMMA SameLives ==
  ASSUME NEW q \in Proc, Life(q), SameOf(q)
  PROVE  Life(q)'
BY DEF Life, SameOf

(* A step of p leaves every other process alone. *)
LEMMA OthersSame ==
  ASSUME Types, NEW p \in Proc, NEW q \in Proc, p # q, StepOf(p)
  PROVE  SameOf(q)
<1> USE StatusAssumption DEF SameOf, Goto, runVars, writerVars, Types
<1>1. CASE Claim(p) \/ Refused(p) \/ WriteOwner(p)
  BY <1>1 DEF Claim, Refused, WriteOwner
<1>2. CASE InitialSave(p) \/ Ready(p) \/ Tick(p)
  BY <1>2 DEF InitialSave, Ready, Tick
<1>3. CASE SaveDone(p) \/ SaveAwaited(p) \/ FlushStops(p)
  BY <1>3 DEF SaveDone, SaveAwaited, FlushStops
<1>4. CASE Move(p)
  BY <1>4 DEF Move, StartFails, ReadyFails, Stop, TasksJoined, FlushJoined, Removed,
              ForcedRemoved, Step
<1>5. CASE FlushTimeout(p) \/ Forced(p)
  BY <1>5 DEF FlushTimeout, Forced
<1>6. CASE FinishRun(p)
  BY <1>6 DEF FinishRun
<1>7. CASE \E k \in By : RemovalRead(p, k) \/ RemovalUnlink(p, k)
  BY <1>7 DEF RemovalRead, RemovalUnlink
<1>8. CASE DropRecord(p) \/ Release(p)
  BY <1>8 DEF DropRecord, Release
<1>9. CASE Exit(p) \/ Crash(p)
  BY <1>9, OverFrame DEF Over
<1>10. QED BY <1>1, <1>2, <1>3, <1>4, <1>5, <1>6, <1>7, <1>8, <1>9 DEF StepOf

(* A process that claims, records itself and starts. *)
LEMMA StartLives ==
  ASSUME Types, NEW p \in Proc, Life(p),
         \/ Claim(p) \/ Refused(p) \/ WriteOwner(p) \/ InitialSave(p) \/ Ready(p)
  PROVE  Life(p)'
<1> USE StatusAssumption DEF Goto, writerVars, Types
<1>1. CASE Claim(p)
  BY <1>1 DEF Claim, Life
<1>2. CASE Refused(p)
  BY <1>2 DEF Refused, Life
<1>3. CASE WriteOwner(p)
  BY <1>3 DEF WriteOwner, Life
<1>4. CASE InitialSave(p)
  BY <1>4 DEF InitialSave, Life
<1>5. CASE Ready(p)
  BY <1>5 DEF Ready, Life
<1>6. QED BY <1>1, <1>2, <1>3, <1>4, <1>5

(* Its flush task, its saves and its removals: a save that ends late ends    *)
(* before the removal or in a run that gave up on it; a removal finishes     *)
(* with the file gone or another's.                                          *)
LEMMA WriterLives ==
  ASSUME Types, NEW p \in Proc, Life(p),
         \/ Tick(p) \/ SaveDone(p) \/ SaveAwaited(p) \/ FlushStops(p)
         \/ \E k \in By : RemovalRead(p, k) \/ RemovalUnlink(p, k)
  PROVE  Life(p)'
<1> USE StatusAssumption DEF runVars, writerVars, Types, Graceful
<1>1. CASE Tick(p)
  BY <1>1 DEF Tick, StopSent, Life
<1>2. CASE SaveDone(p)
  BY <1>2 DEF SaveDone, Life
<1>3. CASE SaveAwaited(p)
  BY <1>3 DEF SaveAwaited, Life
<1>4. CASE FlushStops(p)
  BY <1>4 DEF FlushStops, StopSent, Life
<1>5. ASSUME NEW k \in By, RemovalRead(p, k) PROVE Life(p)'
  <2>1. /\ rm'[p][k] \in {"unlink", "finished"} /\ rm[p][k] = "read"
        /\ \A j \in By \ {k} : rm'[p][j] = rm[p][j]
    BY <1>5 DEF RemovalRead
  <2>2. rm'[p][k] = "finished" => status # p
    BY <1>5 DEF RemovalRead, Names
  <2>3. QED BY <1>5, <2>1, <2>2 DEF RemovalRead, Life, By
<1>6. ASSUME NEW k \in By, RemovalUnlink(p, k) PROVE Life(p)'
  <2>1. /\ rm'[p][k] = "finished" /\ rm[p][k] = "unlink"
        /\ \A j \in By \ {k} : rm'[p][j] = rm[p][j]
    BY <1>6 DEF RemovalUnlink
  <2>2. CASE status' = None /\ course' = course
    BY <1>6, <2>1, <2>2 DEF RemovalUnlink, Life, By
  <2>3. CASE /\ status' = status
             /\ course' = [course EXCEPT ![p] = IF @ = "normal" THEN "left" ELSE @]
    <3>1. course'[p] = (IF course[p] = "normal" THEN "left" ELSE course[p])
      BY <2>3
    <3>2. CASE course[p] = "normal"
      <4>1. course'[p] = "left"
        BY <3>1, <3>2
      <4> QED
        BY <1>6, <2>1, <2>3, <3>2, <4>1 DEF RemovalUnlink, Life, By
    <3>3. CASE course[p] # "normal"
      <4>1. course'[p] = course[p]
        BY <3>1, <3>3
      <4> QED
        BY <1>6, <2>1, <2>3, <3>3, <4>1 DEF RemovalUnlink, Life, By
    <3> QED
      BY <3>2, <3>3
  <2>4. QED BY <1>6, <2>2, <2>3 DEF RemovalUnlink
<1>7. QED BY <1>1, <1>2, <1>3, <1>4, <1>5, <1>6

(* Ending a run, in order or not. *)
LEMMA EndLives ==
  ASSUME Types, NEW p \in Proc, Life(p),
         \/ Move(p) \/ FlushTimeout(p) \/ FinishRun(p) \/ DropRecord(p) \/ Release(p)
         \/ Forced(p) \/ Exit(p) \/ Crash(p)
  PROVE  Life(p)'
<1> USE StatusAssumption DEF Goto, writerVars, Types, Graceful
<1>1. CASE StartFails(p) \/ ReadyFails(p)
  BY <1>1 DEF StartFails, ReadyFails, Life
<1>2. CASE Stop(p) \/ TasksJoined(p) \/ FlushJoined(p)
  BY <1>2 DEF Stop, TasksJoined, FlushJoined, Step, Life
<1>3. CASE Removed(p) \/ ForcedRemoved(p)
  BY <1>3 DEF Removed, ForcedRemoved, Step, Life
<1>4. CASE FlushTimeout(p)
  BY <1>4 DEF FlushTimeout, Life
<1>5. CASE FinishRun(p)
  <2>1. /\ main[p] = "closing"
        /\ \/ course[p] = "normal" /\ main'[p] = "removing" /\ rm'[p]["pool"] = "read"
           \/ course[p] # "normal" /\ main'[p] = "drop" /\ rm'[p]["pool"] = rm[p]["pool"]
        /\ rm'[p]["exit"] = rm[p]["exit"]
    BY <1>5 DEF FinishRun, By
  <2>2. QED BY <1>5, <2>1 DEF FinishRun, Life
<1>6. CASE DropRecord(p)
  BY <1>6 DEF DropRecord, Life
<1>7. CASE Release(p)
  <2>1. /\ \/ main[p] = "release" /\ main'[p] = "exiting" /\ rm'[p]["exit"] = rm[p]["exit"]
           \/ main[p] = "forced_release" /\ main'[p] = "forced"
        /\ rm'[p]["pool"] = rm[p]["pool"]
    BY <1>7 DEF Release, By
  <2>2. QED BY <1>7, <2>1 DEF Release, Life
<1>8. CASE Forced(p)
  BY <1>8 DEF Forced, Stopping, Life
<1>9. CASE Exit(p) \/ Crash(p)
  <2>1. PICK how \in {"exited", "crashed"} :
          Over(p, how) /\ (how = "exited" => main[p] = "exiting")
    BY <1>9, OverFrame
  <2>2. rm'[p]["pool"] = "none" /\ rm'[p]["exit"] = "none"
    BY <2>1 DEF Over, By
  <2>3. QED BY <2>1, <2>2 DEF Over, Life
<1>10. QED
  BY <1>1, <1>2, <1>3, <1>4, <1>5, <1>6, <1>7, <1>8, <1>9 DEF Move

(* Each step keeps what is known of each process. *)
LEMMA NextLives ==
  ASSUME Types, \A p \in Proc : Life(p), Next
  PROVE  \A p \in Proc : Life(p)'
<1>1. ASSUME ReaderStep, NEW p \in Proc PROVE Life(p)'
  BY <1>1, ReaderFrame DEF Life, runVars, writerVars
<1>2. ASSUME NEW p \in Proc, NEW q \in Proc, StepOf(p)
      PROVE  Life(q)'
  <2>1. Life(p)'
    BY <1>2, StartLives, WriterLives, EndLives DEF StepOf
  <2>2. CASE p # q
    BY <1>2, <2>2, OthersSame, SameLives
  <2>3. QED BY <2>1, <2>2
<1>3. QED BY <1>1, <1>2, NextCases

-----------------------------------------------------------------------------
(* The files *)

(* The status file is written only by a process whose save is under way, and *)
(* removed only by one whose removal is at its unlink.                       *)
LEMMA StatusChanges ==
  ASSUME NEW p \in Proc, StepOf(p), status' # status
  PROVE  /\ main' = main
         /\ \/ status' = p /\ save[p]
            \/ status' = None /\ \E k \in By : rm[p][k] = "unlink"
<1>1. SaveDone(p) \/ \E k \in By : RemovalRead(p, k) \/ RemovalUnlink(p, k)
  BY OverFrame
  DEF StepOf, Claim, Refused, WriteOwner, InitialSave, Ready, Tick, SaveAwaited, FlushStops,
         Move, StartFails, ReadyFails, Stop, TasksJoined, FlushJoined, Removed, ForcedRemoved,
         Step, FlushTimeout, FinishRun, DropRecord, Release, Forced, Over, runVars, writerVars
<1>2. QED BY <1>1 DEF SaveDone, RemovalRead, RemovalUnlink, runVars

(* No course becomes graceful again. *)
LEMMA CourseStays ==
  ASSUME Types, Next, \A q \in Proc : course'[q] \in Graceful
  PROVE  \A q \in Proc : course[q] \in Graceful
<1>1. ASSUME NEW p \in Proc, StepOf(p)
      PROVE  \/ course' = course
             \/ \E c \in {"kept", "forced"} : course' = [course EXCEPT ![p] = c]
             \/ course' = [course EXCEPT ![p] = IF @ = "normal" THEN "left" ELSE @]
  BY <1>1, OverFrame
  DEF StepOf, Claim, Refused, WriteOwner, InitialSave, Ready, Tick, SaveDone, SaveAwaited,
         FlushStops, Move, StartFails, ReadyFails, Stop, TasksJoined, FlushJoined, Removed,
         ForcedRemoved, Step, FlushTimeout, FinishRun, RemovalRead, RemovalUnlink, DropRecord,
         Release, Forced, Over, runVars, writerVars
<1>2. ASSUME NEW p \in Proc, StepOf(p), NEW q \in Proc PROVE course[q] \in Graceful
  <2>1. CASE course' = course
    BY <2>1
  <2>2. ASSUME NEW c \in {"kept", "forced"}, course' = [course EXCEPT ![p] = c] PROVE FALSE
    <3>1. course'[p] = c
      BY <2>2 DEF Types
    <3> QED
      BY <2>2, <3>1 DEF Graceful
  <2>3. CASE course' = [course EXCEPT ![p] = IF @ = "normal" THEN "left" ELSE @]
    <3>1. q # p => course'[q] = course[q]
      BY <2>3
    <3>2. course[p] = "normal" \/ course'[p] = course[p]
      BY <2>3 DEF Types
    <3> QED
      BY <3>1, <3>2 DEF Graceful
  <2> QED
    BY <1>1, <1>2, <2>1, <2>2, <2>3
<1>3. ASSUME ReaderStep PROVE course' = course
  BY <1>3, ReaderFrame DEF runVars
<1>4. QED
  BY <1>2, <1>3, NextCases

Publishing == {"saving", "running", "draining", "flushing", "closing"}

(* A process comes to these states from its start, and counts as saved from  *)
(* the save that wrote the file.                                             *)
LEMMA PublishingBegins ==
  ASSUME Types, NEW p \in Proc, StepOf(p), main'[p] \in Publishing, saved'[p]
  PROVE  /\ main[p] \in Publishing \cup {"starting"}
         /\ saved[p] \/ status' = p
<1> USE DEF Types, Goto, runVars, writerVars
<1>1. CASE Claim(p) \/ Refused(p) \/ WriteOwner(p) \/ InitialSave(p) \/ Ready(p)
  BY <1>1 DEF Claim, Refused, WriteOwner, InitialSave, Ready, Publishing
<1>2. CASE Tick(p) \/ SaveDone(p) \/ SaveAwaited(p) \/ FlushStops(p)
  BY <1>2 DEF Tick, SaveDone, SaveAwaited, FlushStops
<1>3. CASE Move(p)
  BY <1>3 DEF Move, StartFails, ReadyFails, Stop, TasksJoined, FlushJoined, Removed,
              ForcedRemoved, Step, Publishing
<1>4. CASE FlushTimeout(p) \/ FinishRun(p) \/ Forced(p)
  BY <1>4 DEF FlushTimeout, FinishRun, Forced, Publishing
<1>5. CASE \E k \in By : RemovalRead(p, k) \/ RemovalUnlink(p, k)
  BY <1>5 DEF RemovalRead, RemovalUnlink
<1>6. CASE DropRecord(p) \/ Release(p)
  BY <1>6 DEF DropRecord, Release, Publishing
<1>7. CASE Exit(p) \/ Crash(p)
  BY <1>7, OverFrame DEF Over, Publishing
<1>8. QED BY <1>1, <1>2, <1>3, <1>4, <1>5, <1>6, <1>7 DEF StepOf

(* A process that holds a saved file holds the lock, so with graceful        *)
(* shutdowns only it can write or remove the file.                           *)
LEMMA NextSavedStays ==
  ASSUME Types, LockHeld, \A p \in Proc : Life(p), SavedStays, Next
  PROVE  SavedStays'
<1> SUFFICES ASSUME \A q \in Proc : course'[q] \in Graceful, NEW p \in Proc,
                    main'[p] \in Publishing, saved'[p]
             PROVE  status' = p
  BY DEF SavedStays, Publishing
<1>1. \A q \in Proc : course[q] \in Graceful
  BY CourseStays
<1>2. CASE ReaderStep
  BY <1>1, <1>2, ReaderFrame DEF SavedStays, Publishing, runVars, writerVars
<1>3. ASSUME NEW q \in Proc, StepOf(q), status' # status PROVE status' = p
  <2>1. main' = main /\ lock = p
    BY <1>3, StatusChanges DEF LockHeld, Holding, Alive, Stopping, Publishing
  <2>2. ASSUME status' = q, save[q] PROVE status' = p
    <3>1. main[q] \in {"saving", "running", "draining", "flushing"}
      BY <1>1, <2>2 DEF Life, Types, Main, Alive, Stopping, Graceful
    <3>2. lock = q
      BY <3>1 DEF LockHeld, Holding, Alive, Stopping
    <3>3. QED BY <2>1, <2>2, <3>2
  <2>3. ASSUME NEW k \in By, rm[q][k] = "unlink" PROVE FALSE
    <3>1. main[q] = "removing"
      BY <1>1, <2>3 DEF Life, By, Graceful
    <3>2. lock = q
      BY <3>1 DEF LockHeld, Holding, Alive, Stopping
    <3>3. QED BY <2>1, <3>1, <3>2 DEF Publishing
  <2>4. QED BY <1>3, <2>2, <2>3, StatusChanges
<1>4. ASSUME NEW q \in Proc, StepOf(q), status' = status PROVE status' = p
  <2>1. CASE p # q
    BY <1>1, <1>4, <2>1, OthersSame DEF SameOf, SavedStays, Publishing
  <2>2. CASE p = q
    <3>1. main[p] \in Publishing \cup {"starting"} /\ (saved[p] \/ status' = p)
      BY <1>4, <2>2, PublishingBegins
    <3>2. CASE saved[p]
      <4>1. main[p] \in Publishing
        BY <3>1, <3>2 DEF Life
      <4>2. QED BY <1>1, <1>4, <3>2, <4>1 DEF SavedStays, Publishing
    <3>3. QED BY <3>1, <3>2
  <2>3. QED BY <2>1, <2>2
<1>5. QED BY <1>2, <1>3, <1>4, NextCases

-----------------------------------------------------------------------------
(* Records, pids and the status command *)

(* A process starts once and ends once, and keeps the pid it started with. *)
LEMMA RunsOnce ==
  ASSUME Types, \A q \in Proc : Life(q), Next, NEW q \in Proc
  PROVE  /\ main[q] # "new" => main'[q] # "new" /\ pid'[q] = pid[q]
         /\ main[q] = "over" => main'[q] = "over"
<1> USE DEF Types, Goto, runVars, writerVars
<1>1. CASE ReaderStep
  BY <1>1, ReaderFrame
<1>2. ASSUME NEW p \in Proc, StepOf(p)
      PROVE  /\ main[q] # "new" => main'[q] # "new" /\ pid'[q] = pid[q]
             /\ main[q] = "over" => main'[q] = "over"
  <2>1. CASE Claim(p) \/ Refused(p) \/ WriteOwner(p) \/ InitialSave(p) \/ Ready(p)
    BY <2>1 DEF Claim, Refused, WriteOwner, InitialSave, Ready
  <2>2. CASE Tick(p) \/ SaveDone(p) \/ SaveAwaited(p) \/ FlushStops(p)
    BY <2>2 DEF Tick, SaveDone, SaveAwaited, FlushStops
  <2>3. CASE Move(p)
    BY <2>3 DEF Move, StartFails, ReadyFails, Stop, TasksJoined, FlushJoined, Removed,
                ForcedRemoved, Step
  <2>4. CASE FlushTimeout(p) \/ FinishRun(p) \/ Forced(p)
    BY <2>4 DEF FlushTimeout, FinishRun, Forced, Stopping
  <2>5. CASE \E k \in By : RemovalRead(p, k) \/ RemovalUnlink(p, k)
    BY <2>5 DEF RemovalRead, RemovalUnlink
  <2>6. CASE DropRecord(p) \/ Release(p)
    BY <2>6 DEF DropRecord, Release
  <2>7. CASE Exit(p) \/ Crash(p)
    BY <2>7, OverFrame DEF Over
  <2>8. QED BY <1>2, <2>1, <2>2, <2>3, <2>4, <2>5, <2>6, <2>7 DEF StepOf
<1>3. QED BY <1>1, <1>2, NextCases

(* The record is written by a claimant and removed by a process that drops   *)
(* its claim; who counts as recorded was so before, or wrote the record.     *)
LEMMA RecordChanges ==
  ASSUME Types, NEW p \in Proc, StepOf(p)
  PROVE  /\ \/ record' = record
            \/ record' = None
            \/ record' = p /\ main[p] = "claimed" /\ lock' = lock
         /\ \A q \in Proc : recorded'[q] /\ ~recorded[q] => q = p /\ record' = p
         /\ \/ lock' = lock
            \/ lock' = None
            \/ lock' = p /\ main[p] = "new" /\ recorded' = recorded
<1> USE DEF Types, runVars, writerVars
<1>1. CASE Claim(p)
  BY <1>1 DEF Claim
<1>2. CASE WriteOwner(p)
  BY <1>2 DEF WriteOwner
<1>3. CASE Refused(p) \/ InitialSave(p) \/ Ready(p)
  BY <1>3 DEF Refused, InitialSave, Ready
<1>4. CASE Tick(p) \/ SaveDone(p) \/ SaveAwaited(p) \/ FlushStops(p)
  BY <1>4 DEF Tick, SaveDone, SaveAwaited, FlushStops
<1>5. CASE Move(p)
  BY <1>5 DEF Move, StartFails, ReadyFails, Stop, TasksJoined, FlushJoined, Removed,
              ForcedRemoved, Step
<1>6. CASE FlushTimeout(p) \/ FinishRun(p) \/ Forced(p)
  BY <1>6 DEF FlushTimeout, FinishRun, Forced
<1>7. CASE \E k \in By : RemovalRead(p, k) \/ RemovalUnlink(p, k)
  BY <1>7 DEF RemovalRead, RemovalUnlink
<1>8. CASE DropRecord(p) \/ Release(p)
  BY <1>8 DEF DropRecord, Release
<1>9. CASE Exit(p) \/ Crash(p)
  BY <1>9, OverFrame DEF Over
<1>10. QED
  BY <1>1, <1>2, <1>3, <1>4, <1>5, <1>6, <1>7, <1>8, <1>9 DEF StepOf

(* A step of a process is nothing to the status command. *)
LEMMA ReaderWaits ==
  ASSUME NEW p \in Proc, StepOf(p)
  PROVE  reader' = reader
BY OverFrame
DEF StepOf, Claim, Refused, WriteOwner, InitialSave, Ready, Tick, SaveDone, SaveAwaited,
    FlushStops, Move, StartFails, ReadyFails, Stop, TasksJoined, FlushJoined, Removed,
    ForcedRemoved, Step, FlushTimeout, FinishRun, RemovalRead, RemovalUnlink, DropRecord,
    Release, Forced, Over

(* Files name processes that have started, and the holder's record is its    *)
(* own or gone.                                                              *)
LEMMA NextFiles ==
  ASSUME Types, LockHeld, \A p \in Proc : Life(p), FilesOfStarted, Next
  PROVE  FilesOfStarted'
<1>1. \A q \in Proc : main[q] # "new" => main'[q] # "new"
  BY RunsOnce
<1>2. CASE ReaderStep
  <2>1. UNCHANGED <<lock, record, status, main, recorded>>
    BY <1>2, ReaderFrame DEF runVars
  <2>2. reader'.owner \in {reader.owner, record, None}
        /\ reader'.snapshot \in {reader.snapshot, status, None}
    <3>1. CASE Probe
      BY <3>1 DEF Probe, Read, Types, Reader
    <3>2. CASE ReadOwner
      BY <3>2 DEF ReadOwner, Read, Types, Reader
    <3>3. CASE ReadStatus
      BY <3>3 DEF ReadStatus, Read, Types, Reader
    <3>4. CASE Again
      BY <3>4 DEF Again, Read, Idle
    <3>5. QED BY <1>2, <3>1, <3>2, <3>3, <3>4 DEF ReaderStep
  <2>3. QED BY <2>1, <2>2 DEF FilesOfStarted
<1>3. ASSUME NEW p \in Proc, StepOf(p) PROVE FilesOfStarted'
  <2>1. reader' = reader
    BY <1>3, ReaderWaits
  <2>2. record' \in {record, None} \/ (record' = p /\ main[p] = "claimed" /\ lock' = lock)
    BY <1>3, RecordChanges
  <2>3. status' \in {status, None} \/ (status' = p /\ main[p] # "new")
    BY <1>3, StatusChanges DEF Life
  <2>4. \A q \in {record, status, reader.owner, reader.snapshot} \ {None} : q \in Proc
    BY DEF Types, Reader
  <2>5. \A q \in {record, status, reader.owner, reader.snapshot}' \ {None} : main'[q] # "new"
    BY <1>1, <2>1, <2>2, <2>3, <2>4 DEF FilesOfStarted
  <2>6. ASSUME NEW q \in Proc, lock' = q, recorded'[q] PROVE record' \in {q, None}
    <3>1. CASE ~recorded[q]
      BY <1>3, <2>6, <3>1, RecordChanges
    <3>2. CASE recorded[q]
      <4>1. lock = q
        BY <1>3, <2>6, <3>2, RecordChanges, StatusAssumption DEF Life
      <4>2. main[p] = "claimed" => lock = p
        BY DEF LockHeld, Holding, Alive
      <4>3. QED BY <2>2, <3>2, <4>1, <4>2 DEF FilesOfStarted
    <3>3. QED BY <3>1, <3>2
  <2>7. QED BY <2>5, <2>6 DEF FilesOfStarted
<1>4. QED BY <1>2, <1>3, NextCases

(* The status command's probe excludes for good whom it found over. *)
LEMMA NextReader ==
  ASSUME Types, LockHeld, \A p \in Proc : Life(p), FilesOfStarted, ReaderExcludesGone, Next
  PROVE  ReaderExcludesGone'
<1> USE DEF Types, Reader
<1>1. \A q \in Proc : main[q] = "over" => main'[q] = "over"
  BY RunsOnce
<1>2. ASSUME NEW p \in Proc, StepOf(p) PROVE ReaderExcludesGone'
  <2>1. reader' = reader
    BY <1>2, ReaderWaits
  <2>2. record' \in {record, None} \/ (record' = p /\ main[p] = "claimed")
    BY <1>2, RecordChanges
  <2>3. p \in reader.gone => main[p] = "over"
    BY DEF ReaderExcludesGone
  <2>4. reader.gone \subseteq Proc
    OBVIOUS
  <2>5. record \notin reader.gone => record' \notin reader.gone
    BY <2>2, <2>3, <2>4, StatusAssumption
  <2>6. reader.verdict = "current" => pid'[reader.snapshot] = pid[reader.snapshot]
                                      /\ pid'[reader.owner] = pid[reader.owner]
    BY RunsOnce DEF FilesOfStarted, ReaderExcludesGone
  <2>7. QED BY <1>1, <2>1, <2>4, <2>5, <2>6 DEF ReaderExcludesGone
<1>3. ASSUME ReaderStep PROVE ReaderExcludesGone'
  <2>1. UNCHANGED <<lock, record, status, main, pid>>
    BY <1>3, ReaderFrame DEF runVars
  <2>2. CASE Probe
    <3>1. lock # None /\ recorded[lock] => record \notin {p \in Proc : main[p] = "over"}
      BY StatusAssumption DEF FilesOfStarted, LockHeld, Holding, Alive, Stopping
    <3>2. /\ reader'.at = "probed" /\ reader'.gone = {p \in Proc : main[p] = "over"}
          /\ reader'.running = (lock # None) /\ reader'.owner = None
          /\ reader'.sound = (lock # None => recorded[lock]) /\ reader'.verdict = "none"
      BY <2>2 DEF Probe, Read, ReaderExcludesGone, Idle
    <3>3. QED BY <2>1, <3>1, <3>2, StatusAssumption DEF ReaderExcludesGone
  <2>3. CASE ReadOwner
    <3>1. /\ reader.at = "probed" /\ reader'.at = "owner" /\ reader'.verdict = reader.verdict
          /\ reader'.gone = reader.gone /\ reader'.running = reader.running
          /\ reader'.sound = reader.sound
          /\ reader'.owner = IF reader.running THEN record ELSE None
      BY <2>3 DEF ReadOwner, Read
    <3>2. QED BY <2>1, <3>1 DEF ReaderExcludesGone
  <2>4. CASE ReadStatus
    <3>1. Freshness(status, reader.running, reader.owner) = "current" =>
            /\ reader.running /\ reader.owner # None /\ status # None
            /\ pid[status] = pid[reader.owner]
      BY DEF Freshness, Names
    <3>2. QED BY <2>1, <2>4, <3>1 DEF ReadStatus, Read, ReaderExcludesGone
  <2>5. CASE Again
    BY <2>1, <2>5 DEF Again, Read, ReaderExcludesGone, Idle
  <2>6. QED BY <1>3, <2>2, <2>3, <2>4, <2>5 DEF ReaderStep
<1>4. QED BY <1>2, <1>3, NextCases

-----------------------------------------------------------------------------
(* The theorems *)

(* The invariant is inductive. *)
LEMMA NextInv == Inv /\ [Next]_vars => Inv'
<1> SUFFICES ASSUME Inv, [Next]_vars PROVE Inv'
  OBVIOUS
<1>1. CASE Next
  <2>1. Types /\ LockHeld /\ (\A p \in Proc : Life(p)) /\ SavedStays
          /\ FilesOfStarted /\ ReaderExcludesGone
    BY ShapeParts, LifeParts DEF Inv
  <2>2. Shape'
    BY <1>1, NextShape DEF Inv
  <2>3. \A p \in Proc : Life(p)'
    BY <1>1, <2>1, NextLives
  <2>4. (NotYetWriting /\ WriterPlace /\ RemovalPlace /\ RemovedStaysRemoved)'
    BY <2>3 DEF Life, NotYetWriting, WriterPlace, RemovalPlace, RemovedStaysRemoved
  <2>5. (SavedStays /\ FilesOfStarted /\ ReaderExcludesGone)'
    BY <1>1, <2>1, NextSavedStays, NextFiles, NextReader
  <2>6. QED BY <2>2, <2>4, <2>5 DEF Inv
<1>2. CASE UNCHANGED vars
  BY <1>2
  DEF vars, runVars, writerVars, Inv, Shape, TypeOK, NotYetWriting, WriterPlace, RemovalPlace,
      RemovedStaysRemoved, SavedStays, FilesOfStarted, ReaderExcludesGone
<1>3. QED BY <1>1, <1>2

(* The invariant holds in every state that the processes reach. *)
THEOREM InvAlways == Spec => []Inv
BY InitInv, NextInv, PTL DEF Spec

(* finish_run and the lock: the status file of a run is there while the run  *)
(* goes on and shutdowns are graceful, and gone when the run ended in order, *)
(* for any number of processes and however pids are reused.                  *)
THEOREM SnapshotOwnedAlways == Spec => []SnapshotOwned
<1>1. Inv => SnapshotOwned
  BY DEF Inv, Shape, RemovedStaysRemoved, SavedStays, SnapshotOwned, CleanExitLeavesNothing,
         OwnSnapshotStays
<1>2. QED BY <1>1, InvAlways, PTL

(* read_role_status: a snapshot called current is of a pid that was not over *)
(* when the command began, given a holder with its own record.               *)
THEOREM CurrentIsLiveAlways == Spec => []CurrentIsLive
<1>1. Inv => CurrentIsLive
  <2> SUFFICES ASSUME Inv, reader.verdict = "current", reader.sound
               PROVE  \E q \in Proc \ reader.gone : pid[q] = pid[reader.snapshot]
    BY DEF CurrentIsLive
  <2>1. reader.owner \in Proc \ reader.gone
    BY DEF Inv, Shape, Reader, ReaderExcludesGone
  <2>2. pid[reader.owner] = pid[reader.snapshot]
    BY DEF Inv, ReaderExcludesGone
  <2>3. QED BY <2>1, <2>2
<1>2. QED BY <1>1, InvAlways, PTL

=============================================================================
