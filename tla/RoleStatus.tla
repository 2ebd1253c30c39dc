----------------------------- MODULE RoleStatus -----------------------------
(***************************************************************************)
(* The life of a role's process and of its status file: the claim, the     *)
(* owner record, the saves of the flush task, graceful shutdown, the       *)
(* forced exit, and the status command that judges the file.               *)
(*                                                                         *)
(* All processes run one role for one user, one after another as far as    *)
(* the lock makes them.  A save is a call on the blocking pool: it runs on *)
(* when the task that awaits it is aborted, and ends with its process.     *)
(* Draining, fsync and closing the endpoint may take for ever.             *)
(***************************************************************************)
EXTENDS FiniteSets

CONSTANTS
    Proc,    \* processes that run the role, each once
    None,    \* nobody, no file
    Pid      \* process ids, given again once their process is over

ASSUME StatusAssumption ==
    /\ IsFiniteSet(Proc)
    /\ None \notin Proc \cup Pid

VARIABLES
    lock,      \* the process that holds the role's lock
    record,    \* the process that wrote the owner record
    status,    \* the process that wrote the status file
    pid,       \* pid[p]: p's process id
    main,      \* main[p]: where p's run stands
    recorded,  \* recorded[p]: p has written its owner record
    flush,     \* flush[p]: where p's flush task stands
    save,      \* save[p]: a save of p is under way on the blocking pool
    saved,     \* saved[p]: some save of p has succeeded
    course,    \* course[p]: "kept": stop_flush gave up; "forced": forced exit;
               \* "left": finish_run could not remove the status file
    rm,        \* rm[p][k]: where the removal of p's status file stands
    ended,     \* ended[p]: how p ended
    reader     \* the status command and what it has read

runVars == <<pid, main, recorded, course, ended>>
writerVars == <<flush, save, saved>>
vars == <<lock, record, status, runVars, writerVars, rm, reader>>

(* In the order of a run. "saving": awaiting the initial save; "flushing":   *)
(* in stop_flush; "forced": the run was dropped by the forced exit.          *)
Stopping == {"draining", "flushing", "closing", "removing"}
Alive == {"claimed", "starting", "saving", "running", "drop", "release",
          "forced_drop", "forced_release", "forced", "exiting"} \cup Stopping
Main == {"new", "over"} \cup Alive
Flush == {"off", "sleeping", "saving", "ended"}
Removal == {"none", "read", "unlink", "finished"}
By == {"pool", "exit"}    \* finish_run's removal, and that of the forced exit
Graceful == {"normal", "left"}
Course == Graceful \cup {"kept", "forced"}
Outcome == {"none", "refused", "exited", "crashed"}
Verdict == {"none", "current", "stale", "unknown", "without", "absent"}
Idle == [at |-> "idle", running |-> FALSE, gone |-> {}, sound |-> FALSE,
         owner |-> None, snapshot |-> None, verdict |-> "none"]

Init ==
    /\ lock = None
    /\ record = None
    /\ status = None
    /\ pid = [p \in Proc |-> None]
    /\ main = [p \in Proc |-> "new"]
    /\ recorded = [p \in Proc |-> FALSE]
    /\ flush = [p \in Proc |-> "off"]
    /\ save = [p \in Proc |-> FALSE]
    /\ saved = [p \in Proc |-> FALSE]
    /\ course = [p \in Proc |-> "normal"]
    /\ rm = [p \in Proc |-> [k \in By |-> "none"]]
    /\ ended = [p \in Proc |-> "none"]
    /\ reader = Idle

Goto(p, s) == main' = [main EXCEPT ![p] = s]
Names(file, p) == file # None /\ pid[file] = pid[p]

-----------------------------------------------------------------------------
(* Start *)

(* ownership::claim takes the lock.  The system gives no pid twice at once.  *)
Claim(p) ==
    /\ main[p] = "new"
    /\ \E n \in Pid \ {pid[q] : q \in {r \in Proc : main[r] \in Alive}} :
         pid' = [pid EXCEPT ![p] = n]
    /\ lock = None
    /\ lock' = p
    /\ Goto(p, "claimed")
    /\ UNCHANGED <<record, status, recorded, course, ended, writerVars, rm, reader>>

Refused(p) ==
    /\ main[p] = "new"
    /\ lock # None
    /\ Goto(p, "over")
    /\ ended' = [ended EXCEPT ![p] = "refused"]
    /\ UNCHANGED <<pid, lock, record, status, recorded, course, writerVars, rm, reader>>

(* write_owner, at the end of claim; a failed write does not stop the role. *)
WriteOwner(p) ==
    /\ main[p] = "claimed"
    /\ \/ record' = p /\ recorded' = [recorded EXCEPT ![p] = TRUE]
       \/ UNCHANGED <<record, recorded>>
    /\ Goto(p, "starting")
    /\ UNCHANGED <<pid, lock, status, course, ended, writerVars, rm, reader>>

(* An error up to and including bind drops the claim. *)
StartFails(p) ==
    /\ main[p] = "starting"
    /\ Goto(p, "drop")
    /\ UNCHANGED <<pid, lock, record, status, recorded, course, ended, writerVars, rm, reader>>

(* on_ready fails: the endpoint is closed, the writer counts as quiesced. *)
ReadyFails(p) ==
    /\ main[p] = "starting"
    /\ Goto(p, "closing")
    /\ UNCHANGED <<pid, lock, record, status, recorded, course, ended, writerVars, rm, reader>>

InitialSave(p) ==
    /\ main[p] = "starting"
    /\ Goto(p, "saving")
    /\ save' = [save EXCEPT ![p] = TRUE]
    /\ UNCHANGED <<pid, lock, record, status, recorded, course, ended, flush, saved, rm, reader>>

(* The initial save has been awaited: the flush task is spawned. *)
Ready(p) ==
    /\ main[p] = "saving" /\ ~save[p]
    /\ Goto(p, "running")
    /\ flush' = [flush EXCEPT ![p] = "sleeping"]
    /\ UNCHANGED <<pid, lock, record, status, recorded, course, ended, save, saved, rm, reader>>

-----------------------------------------------------------------------------
(* The flush task and its saves *)

(* The stop channel has a message, or its sender was dropped with the run. *)
StopSent(p) == main[p] \notin {"running", "draining"}

(* A tick finds the observation changed. *)
Tick(p) ==
    /\ flush[p] = "sleeping" /\ ~StopSent(p)
    /\ flush' = [flush EXCEPT ![p] = "saving"]
    /\ save' = [save EXCEPT ![p] = TRUE]
    /\ UNCHANGED <<lock, record, status, runVars, saved, rm, reader>>

(* save_to: the rename succeeds, or the save fails and changes nothing. *)
SaveDone(p) ==
    /\ save[p]
    /\ save' = [save EXCEPT ![p] = FALSE]
    /\ \/ status' = p /\ saved' = [saved EXCEPT ![p] = TRUE]
       \/ UNCHANGED <<status, saved>>
    /\ UNCHANGED <<lock, record, runVars, flush, rm, reader>>

SaveAwaited(p) ==
    /\ flush[p] = "saving" /\ ~save[p]
    /\ flush' = [flush EXCEPT ![p] = "sleeping"]
    /\ UNCHANGED <<lock, record, status, runVars, save, saved, rm, reader>>

FlushStops(p) ==
    /\ flush[p] = "sleeping" /\ StopSent(p)
    /\ flush' = [flush EXCEPT ![p] = "ended"]
    /\ UNCHANGED <<lock, record, status, runVars, save, saved, rm, reader>>

-----------------------------------------------------------------------------
(* Graceful shutdown *)

Step(p, from, to) ==
    /\ main[p] = from
    /\ Goto(p, to)
    /\ UNCHANGED <<pid, lock, record, status, recorded, course, ended, writerVars, rm, reader>>

Stop(p) == Step(p, "running", "draining")

(* The role's tasks have been joined: stop_flush begins. *)
TasksJoined(p) == Step(p, "draining", "flushing")

FlushJoined(p) == flush[p] = "ended" /\ Step(p, "flushing", "closing")

(* The join bound passes: the flush task is aborted, its save runs on. *)
FlushTimeout(p) ==
    /\ main[p] = "flushing" /\ flush[p] = "saving"
    /\ flush' = [flush EXCEPT ![p] = "ended"]
    /\ course' = [course EXCEPT ![p] = "kept"]
    /\ Goto(p, "closing")
    /\ UNCHANGED <<pid, lock, record, status, recorded, ended, save, saved, rm, reader>>

FinishRun_FaultyDropFirst(p) ==
    /\ main[p] = "closing"
    /\ IF course[p] = "normal"
         THEN Goto(p, "removing") /\ rm' = [rm EXCEPT ![p]["pool"] = "read"]
         ELSE Goto(p, "drop") /\ UNCHANGED rm
    /\ lock' = None
    /\ UNCHANGED <<pid, record, status, recorded, course, ended, writerVars, reader>>

(* The endpoint is closed; finish_run removes the file if the writer quiesced. *)
FinishRun(p) ==
    /\ main[p] = "closing"
    /\ IF course[p] = "normal"
         THEN Goto(p, "removing") /\ rm' = [rm EXCEPT ![p]["pool"] = "read"]
         ELSE Goto(p, "drop") /\ UNCHANGED rm
    /\ UNCHANGED <<pid, lock, record, status, recorded, course, ended, writerVars, reader>>

(* remove_own_status_file_blocking: look whose file it is, then remove it. A *)
(* removal that fails is logged, and the file stays.                         *)
RemovalRead(p, k) ==
    /\ rm[p][k] = "read"
    /\ rm' = [rm EXCEPT ![p][k] = IF Names(status, p) THEN "unlink" ELSE "finished"]
    /\ UNCHANGED <<lock, record, status, runVars, writerVars, reader>>

RemovalUnlink(p, k) ==
    /\ rm[p][k] = "unlink"
    /\ rm' = [rm EXCEPT ![p][k] = "finished"]
    /\ \/ status' = None /\ UNCHANGED course
       \/ /\ UNCHANGED status
          /\ course' = [course EXCEPT ![p] = IF @ = "normal" THEN "left" ELSE @]
    /\ UNCHANGED <<lock, record, pid, main, recorded, ended, writerVars, reader>>

Removed(p) == rm[p]["pool"] = "finished" /\ Step(p, "removing", "drop")

(* RoleClaim's drop removes its own record, then releases the lock. *)
DropRecord(p) ==
    /\ main[p] \in {"drop", "forced_drop"}
    /\ record' = IF Names(record, p) THEN None ELSE record
    /\ Goto(p, IF main[p] = "drop" THEN "release" ELSE "forced_release")
    /\ UNCHANGED <<pid, lock, status, recorded, course, ended, writerVars, rm, reader>>

Release(p) ==
    /\ main[p] \in {"release", "forced_release"}
    /\ lock' = IF lock = p THEN None ELSE lock
    /\ IF main[p] = "release"
         THEN Goto(p, "exiting") /\ UNCHANGED rm
         ELSE Goto(p, "forced") /\ rm' = [rm EXCEPT ![p]["exit"] = "read"]
    /\ UNCHANGED <<pid, record, status, recorded, course, ended, writerVars, reader>>

-----------------------------------------------------------------------------
(* Forced exit *)

Forced_FaultyDrainOnly(p) ==
    /\ main[p] = "draining"
    /\ Goto(p, "forced_drop")
    /\ course' = [course EXCEPT ![p] = "forced"]
    /\ UNCHANGED <<pid, lock, record, status, recorded, ended, writerVars, rm, reader>>

(* A drain has begun, and a signal after the grace or the watchdog abandons  *)
(* it: the run is dropped where it stands, and its claim with it.            *)
Forced(p) ==
    /\ main[p] \in Stopping /\ flush[p] # "off"
    /\ Goto(p, "forced_drop")
    /\ course' = [course EXCEPT ![p] = "forced"]
    /\ UNCHANGED <<pid, lock, record, status, recorded, ended, writerVars, rm, reader>>

(* remove_own_status_file_for_exit has returned. *)
ForcedRemoved(p) == rm[p]["exit"] = "finished" /\ Step(p, "forced", "exiting")

(* The process ends, with whatever was still running in it. *)
Over(p, how) ==
    /\ Goto(p, "over")
    /\ ended' = [ended EXCEPT ![p] = how]
    /\ flush' = [flush EXCEPT ![p] = "off"]
    /\ save' = [save EXCEPT ![p] = FALSE]
    /\ rm' = [rm EXCEPT ![p] = [k \in By |-> "none"]]
    /\ lock' = IF lock = p THEN None ELSE lock
    /\ saved' = [saved EXCEPT ![p] = FALSE]
    /\ recorded' = [recorded EXCEPT ![p] = FALSE]
    /\ UNCHANGED <<pid, record, status, course, reader>>

Exit(p) == main[p] = "exiting" /\ Over(p, "exited")

Crash(p) == main[p] \in Alive /\ Over(p, "crashed")

-----------------------------------------------------------------------------
(* read_role_status: probe the lock, read the record, read the file *)

Read(r) ==
    /\ reader' = r
    /\ UNCHANGED <<lock, record, status, runVars, writerVars, rm>>

(* "gone" and "sound" are what the properties compare with: who was over at  *)
(* the probe, and whether the holder had its own record in place.            *)
Probe ==
    /\ reader.at = "idle"
    /\ Read([reader EXCEPT !.at = "probed", !.running = lock # None,
                           !.gone = {p \in Proc : main[p] = "over"},
                           !.sound = lock # None => recorded[lock]])

ReadOwner ==
    /\ reader.at = "probed"
    /\ Read([reader EXCEPT !.at = "owner", !.owner = IF reader.running THEN record ELSE None])

Freshness_FaultyNoPid(file, running, owner) ==
    IF file = None THEN IF running THEN "without" ELSE "absent"
    ELSE IF ~running THEN "stale"
    ELSE IF owner = None THEN "unknown" ELSE "current"

(* RoleStatus::freshness. *)
Freshness(file, running, owner) ==
    IF file = None THEN IF running THEN "without" ELSE "absent"
    ELSE IF ~running THEN "stale"
    ELSE IF owner = None THEN "unknown"
    ELSE IF Names(file, owner) THEN "current" ELSE "stale"

ReadStatus ==
    /\ reader.at = "owner"
    /\ Read([reader EXCEPT !.at = "judged", !.snapshot = status,
                           !.verdict = Freshness(status, reader.running, reader.owner)])

Again == reader.at = "judged" /\ Read(Idle)

ForcedStep(p) ==
    \/ main[p] \in {"forced_drop", "forced_release"} /\ (DropRecord(p) \/ Release(p))
    \/ main[p] = "forced" /\ (RemovalRead(p, "exit") \/ RemovalUnlink(p, "exit"))
    \/ ForcedRemoved(p)

Next ==
    \/ \E p \in Proc :
         \/ Claim(p) \/ Refused(p) \/ WriteOwner(p) \/ StartFails(p) \/ ReadyFails(p)
         \/ InitialSave(p) \/ Ready(p)
         \/ Tick(p) \/ SaveDone(p) \/ SaveAwaited(p) \/ FlushStops(p)
         \/ Stop(p) \/ TasksJoined(p) \/ FlushJoined(p) \/ FlushTimeout(p) \/ FinishRun(p)
         \/ \E k \in By : RemovalRead(p, k) \/ RemovalUnlink(p, k)
         \/ Removed(p) \/ DropRecord(p) \/ Release(p)
         \/ Forced(p) \/ ForcedRemoved(p) \/ Exit(p) \/ Crash(p)
    \/ Probe \/ ReadOwner \/ ReadStatus \/ Again

(* The watchdog is a timer.  Dropping the claim, looking at the file,        *)
(* unlinking it and exiting are short calls that return.                     *)
Fairness ==
    \A p \in Proc :
        WF_vars(Forced(p)) /\ WF_vars(ForcedStep(p)) /\ WF_vars(Exit(p))
        /\ WF_vars(main[p] \in {"drop", "release"} /\ (DropRecord(p) \/ Release(p)))

Spec == Init /\ [][Next]_vars
FairSpec == Spec /\ Fairness

-----------------------------------------------------------------------------
(* The state has its shape; a process that has claimed its role holds the    *)
(* lock until it releases its claim.                                         *)
TypeOK ==
    /\ {lock, record, status} \subseteq Proc \cup {None}
    /\ pid \in [Proc -> Pid \cup {None}]
    /\ main \in [Proc -> Main]
    /\ recorded \in [Proc -> BOOLEAN]
    /\ flush \in [Proc -> Flush]
    /\ save \in [Proc -> BOOLEAN]
    /\ saved \in [Proc -> BOOLEAN]
    /\ course \in [Proc -> Course]
    /\ rm \in [Proc -> [By -> Removal]]
    /\ ended \in [Proc -> Outcome]
    /\ reader.verdict \in Verdict
    /\ \A p \in Proc : main[p] \in Alive \ {"forced", "exiting"} <=> lock = p

(* A run that ends by itself, its writer joined and its removal done, leaves *)
(* no status file: no save of it is left to recreate the file after it.      *)
CleanExitLeavesNothing ==
    \A p \in Proc : ended[p] = "exited" /\ course[p] = "normal" => status # p

(* As long as every shutdown is graceful and every writer is joined, a role  *)
(* that has published its status keeps it until it removes it itself: no     *)
(* ending predecessor overwrites or removes the file of its successor.       *)
OwnSnapshotStays ==
    (\A q \in Proc : course[q] \in Graceful)
      => \A p \in Proc :
           main[p] \in {"running", "draining", "flushing", "closing"} /\ saved[p]
             => status = p

(* The status command calls a snapshot current only if a process of its pid  *)
(* was not over when the command began, provided the holder it met had its   *)
(* own record in place: leftovers of a crash are not read as live.           *)
CurrentIsLive ==
    reader.verdict = "current" /\ reader.sound
      => \E q \in Proc \ reader.gone : pid[q] = pid[reader.snapshot]

(* A process that has begun to drain ends, however stuck its shutdown is.    *)
WatchdogExits == \A p \in Proc : main[p] = "draining" ~> main[p] = "over"

(* The status file is that of the run that published it: there while the     *)
(* run goes on, gone when it has ended in order.                             *)
SnapshotOwned == TypeOK /\ CleanExitLeavesNothing /\ OwnSnapshotStays

=============================================================================
