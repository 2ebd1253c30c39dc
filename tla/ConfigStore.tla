---------------------------- MODULE ConfigStore ----------------------------
(***************************************************************************)
(* The writers of one role's configuration file: `config set`, `rm`,       *)
(* `keygen`, `edit` and a `run` that stores the key it generated.          *)
(*                                                                         *)
(* Each is a process. It looks at the file without the lock (to refuse, to *)
(* ask, to copy it for the editor or to load it), takes the writer lock or *)
(* gives up, reads the file again, decides, and replaces the file by       *)
(* renaming a complete temporary file over it. A process can be killed at  *)
(* any step, and the machine can lose power.                               *)
(***************************************************************************)
EXTENDS ConfigDoc, FiniteSets

CONSTANTS
    Proc,       \* the processes; each runs one command
    NoProc,     \* the lock is free
    role,       \* the role whose file this is
    InitText,   \* the texts the file may start with
    Op,         \* the commands users give, as records [kind |-> ...]
    EditText,   \* the texts an editor may leave in its copy
    KeyOf       \* KeyOf[p]: the key p generates

(* What `config set` passes; a field that was not given is Absent. *)
Request ==
    [name : Name \cup {"Bad"}, host : Host \cup {Absent}, port : (0 .. MaxPort) \cup {Absent},
     protocol : {"tcp", "udp", Absent}, node_id : NodeId \cup {"bad", Absent}]

(* The commands that write the file. *)
Given ==
    [kind : {"set"}, req : Request]
        \cup [kind : {"rm"}, name : Name \cup {"Bad"}]
        \cup [kind : {"keygen"}, yes : BOOLEAN]
        \cup [kind : {"run", "edit"}]

ASSUME StoreAssumption ==
    /\ IsFiniteSet(Proc) /\ NoProc \notin Proc
    /\ role \in {"serve", "access"}
    /\ Op \subseteq Given
    /\ KeyOf \in [Proc -> Key]
    /\ InitText \subseteq Text /\ EditText \subseteq Text \ {NoFile}

VARIABLES
    file,      \* the text of the configuration file
    disk,      \* the texts a power loss may leave in it
    lock,      \* the holder of `<file>.lock`
    rejected,  \* the text of `<file>.rejected`
    op,        \* op[p]: the command p was given
    pc,        \* pc[p]: where p is
    seen,      \* seen[p]: the text p read before it took the lock
    text,      \* text[p]: p's edited copy, or the text p is about to write
    consent,   \* consent[p]: the user agreed to replace the key
    key        \* key[p]: the identity a `run` goes on with

shared == <<file, disk, lock, rejected>>
locals == <<seen, text, consent, key>>
vars == <<shared, locals, op, pc>>

At == {"start", "ask", "editor", "commit", "lock", "read", "write", "sync"}
End == {"saved", "kept", "failed", "rejected", "lost", "dead"}

TypeOK ==
    /\ file \in Text /\ disk \subseteq Text
    /\ lock \in Proc \cup {NoProc}
    /\ rejected \in Text
    /\ op \in [Proc -> Op]
    /\ pc \in [Proc -> At \cup End]
    /\ seen \in [Proc -> Text] /\ text \in [Proc -> Text]
    /\ consent \in [Proc -> BOOLEAN]
    /\ key \in [Proc -> Key \cup {NoKey}]

Init ==
    /\ file \in InitText /\ disk = {file}
    /\ lock = NoProc
    /\ rejected = NoFile
    /\ op \in [Proc -> Op]
    /\ pc = [p \in Proc |-> "start"]
    /\ seen = [p \in Proc |-> NoFile] /\ text = [p \in Proc |-> NoFile]
    /\ consent = [p \in Proc |-> FALSE]
    /\ key = [p \in Proc |-> NoKey]

Goto(p, where) == pc' = [pc EXCEPT ![p] = where]

(* p ends, and drops the lock if it holds it. *)
Finish(p, how) ==
    /\ Goto(p, how)
    /\ lock' = IF lock = p THEN NoProc ELSE lock

(* The command of p as the store applies it. *)
CommandOf(p) ==
    CASE op[p].kind = "keygen" -> [kind |-> "keygen", key |-> KeyOf[p], consent |-> consent[p]]
      [] op[p].kind = "run" -> [kind |-> "run", key |-> KeyOf[p]]
      [] op[p].kind = "edit" -> [kind |-> "edit", base |-> seen[p], text |-> text[p]]
      [] OTHER -> op[p]

----------------------------------------------------------------------------
(* Before the lock. *)

StartSet(p) ==
    /\ op[p].kind = "set" /\ pc[p] = "start"
    /\ Goto(p, "lock")
    /\ UNCHANGED <<shared, locals, op>>

(* require_existing: nothing to remove from a missing file. *)
StartRm(p) ==
    /\ op[p].kind = "rm" /\ pc[p] = "start"
    /\ Goto(p, IF file = NoFile THEN "failed" ELSE "lock")
    /\ UNCHANGED <<shared, locals, op>>

(* identity_state: an unlocked look; a missing or unparsable file has no key. *)
IdentityState == HasKey(file)

(* keygen_cli: with `--yes` no question; otherwise a key that the unlocked   *)
(* look finds must be given up first.                                       *)
StartKeygen(p) ==
    /\ op[p].kind = "keygen" /\ pc[p] = "start"
    /\ consent' = [consent EXCEPT ![p] = op[p].yes]
    /\ Goto(p, IF ~op[p].yes /\ IdentityState THEN "ask" ELSE "lock")
    /\ UNCHANGED <<shared, seen, text, key, op>>

(* confirm_rotation: no terminal, or an answer other than yes, is a refusal. *)
ConfirmRotation(p) ==
    /\ pc[p] = "ask"
    /\ \E answer \in BOOLEAN :
           /\ consent' = [consent EXCEPT ![p] = answer]
           /\ Goto(p, IF answer THEN "lock" ELSE "failed")
    /\ UNCHANGED <<shared, seen, text, key, op>>

(* RoleDoc::load: the text at hand is the role's schema and valid. *)
Loads == Valid(role, file)

(* Load and validate the file; a stored key must decode and is used as it   *)
(* is. An empty one is generated, and has to be stored first.               *)
StartRun(p) ==
    /\ op[p].kind = "run" /\ pc[p] = "start"
    /\ seen' = [seen EXCEPT ![p] = file]
    /\ IF ~Loads \/ (HasKey(file) /\ ~Decodes(file))
       THEN Goto(p, "failed") /\ key' = key
       ELSE IF HasKey(file)
       THEN Goto(p, "kept") /\ key' = [key EXCEPT ![p] = file.secret_key]
       ELSE Goto(p, "lock") /\ key' = key
    /\ UNCHANGED <<shared, text, consent, op>>

(* prepare_edit: copy the file, missing or not, for the editor. *)
PrepareEdit(p) ==
    /\ op[p].kind = "edit" /\ pc[p] = "start"
    /\ seen' = [seen EXCEPT ![p] = file]
    /\ text' = [text EXCEPT ![p] = OrEmpty(file)]
    /\ Goto(p, "editor")
    /\ UNCHANGED <<shared, consent, key, op>>

(* The editor saves its copy and exits, or fails. *)
Editor(p) ==
    /\ pc[p] = "editor"
    /\ \/ /\ \E t \in EditText \cup {text[p]} : text' = [text EXCEPT ![p] = t]
          /\ Goto(p, "commit")
       \/ text' = text /\ Goto(p, "failed")
    /\ UNCHANGED <<shared, seen, consent, key, op>>

(* EditAttempt::commit reads the copy and removes it, then compares. *)
Commit(p) ==
    /\ pc[p] = "commit"
    /\ Goto(p, IF text[p] = OrEmpty(seen[p]) THEN "kept" ELSE "lock")
    /\ UNCHANGED <<shared, locals, op>>

----------------------------------------------------------------------------
(* The lock. *)

(* ConfigLock::acquire: try_lock succeeds. *)
Acquire(p) ==
    /\ pc[p] = "lock" /\ lock = NoProc
    /\ lock' = p
    /\ Goto(p, "read")
    /\ UNCHANGED <<file, disk, rejected, locals, op>>

(* Another writer still has it when the deadline passes. What an edit had    *)
(* is gone: its copy was removed.                                           *)
Busy(p) ==
    /\ pc[p] = "lock" /\ lock # NoProc
    /\ Goto(p, IF op[p].kind = "edit" THEN "lost" ELSE "failed")
    /\ UNCHANGED <<shared, locals, op>>

----------------------------------------------------------------------------
(* Under the lock. *)

Decide_StaleKey(p) ==
    /\ pc[p] = "read"
    /\ \E t \in Result(role, CommandOf(p), IF op[p].kind = "run" THEN seen[p] ELSE file) :
           text' = [text EXCEPT ![p] = t]
    /\ Goto(p, "write")
    /\ UNCHANGED <<shared, seen, consent, key, op>>

Decide_NoConflict(p) ==
    /\ pc[p] = "read"
    /\ \E t \in Result(role, IF op[p].kind = "edit" THEN [CommandOf(p) EXCEPT !.base = file]
                              ELSE CommandOf(p), file) :
           text' = [text EXCEPT ![p] = t]
    /\ Goto(p, "write")
    /\ UNCHANGED <<shared, seen, consent, key, op>>

Decide_AsksOnce(p) ==
    /\ pc[p] = "read"
    /\ \E t \in Result(role, IF op[p].kind = "keygen" THEN [CommandOf(p) EXCEPT !.consent = TRUE]
                              ELSE CommandOf(p), file) :
           text' = [text EXCEPT ![p] = t]
    /\ Goto(p, "write")
    /\ UNCHANGED <<shared, seen, consent, key, op>>

(* The command reads the file again and is to write a new text. *)
Decide(p) ==
    /\ pc[p] = "read"
    /\ \E t \in Result(role, CommandOf(p), file) : text' = [text EXCEPT ![p] = t]
    /\ Goto(p, "write")
    /\ UNCHANGED <<shared, seen, consent, key, op>>

(* Nothing to write: a refusal, an error, or nothing to change. A `run`      *)
(* adopts the key another writer stored first, if it decodes.               *)
KeepFile(p) ==
    /\ pc[p] = "read" /\ op[p].kind # "edit"
    /\ Result(role, CommandOf(p), file) = {}
    /\ LET adopts == op[p].kind = "run" /\ HasKey(file) /\ Decodes(file)
       IN  /\ key' = IF adopts THEN [key EXCEPT ![p] = file.secret_key] ELSE key
           /\ Finish(p, IF adopts THEN "kept" ELSE "failed")
    /\ UNCHANGED <<file, disk, rejected, seen, text, consent, op>>

(* A conflict or an invalid edit: the text goes to `<file>.rejected`,        *)
(* unless that cannot be written either.                                    *)
RejectEdit(p) ==
    /\ pc[p] = "read" /\ op[p].kind = "edit"
    /\ Result(role, CommandOf(p), file) = {}
    /\ \/ rejected' = text[p] /\ Finish(p, "rejected")
       \/ rejected' = rejected /\ Finish(p, "lost")
    /\ UNCHANGED <<file, disk, locals, op>>

(* write_atomic fails before the rename: the file is read-only, or the       *)
(* temporary file cannot be made. It is removed.                            *)
WriteFails(p) ==
    /\ pc[p] = "write"
    /\ Finish(p, IF op[p].kind = "edit" THEN "lost" ELSE "failed")
    /\ UNCHANGED <<file, disk, rejected, locals, op>>

Rename_Unsynced(p) ==
    /\ pc[p] = "write"
    /\ file' = text[p] /\ disk' = disk \cup {text[p], Garbage}
    /\ Goto(p, "sync")
    /\ UNCHANGED <<lock, rejected, locals, op>>

(* The temporary file is complete and on disk; the rename puts it in place. *)
Rename(p) ==
    /\ pc[p] = "write"
    /\ file' = text[p] /\ disk' = disk \cup {text[p]}
    /\ Goto(p, "sync")
    /\ UNCHANGED <<lock, rejected, locals, op>>

(* The directory is synced, or that fails and is only logged. *)
SyncDir(p) ==
    /\ pc[p] = "sync"
    /\ disk' \in {{file}, disk}
    /\ key' = IF op[p].kind = "run" THEN [key EXCEPT ![p] = KeyOf[p]] ELSE key
    /\ Finish(p, "saved")
    /\ UNCHANGED <<file, rejected, seen, text, consent, op>>

----------------------------------------------------------------------------
(* Faults. *)

(* p is killed; the system drops its lock. A process killed while it holds   *)
(* nothing is one that takes no further step.                               *)
Kill(p) ==
    /\ lock = p
    /\ Finish(p, "dead")
    /\ UNCHANGED <<file, disk, rejected, locals, op>>

PowerLoss ==
    /\ \E t \in disk : file' = t /\ disk' = {t}
    /\ lock' = NoProc
    /\ pc' = [p \in Proc |-> "dead"]
    /\ UNCHANGED <<rejected, locals, op>>

----------------------------------------------------------------------------
Step(p) ==
    \/ StartSet(p) \/ StartRm(p) \/ StartKeygen(p) \/ StartRun(p) \/ PrepareEdit(p)
    \/ Commit(p) \/ Acquire(p) \/ Busy(p) \/ Decide(p) \/ KeepFile(p) \/ RejectEdit(p)
    \/ WriteFails(p) \/ Rename(p) \/ SyncDir(p)

Next ==
    \/ \E p \in Proc : Step(p) \/ ConfirmRotation(p) \/ Editor(p) \/ Kill(p)
    \/ PowerLoss

Spec == Init /\ [][Next]_vars

----------------------------------------------------------------------------
(* Properties. *)

(* The commands, other than edits, that the processes may give. *)
Commands ==
    {o \in Op : o.kind \in {"set", "rm"}}
        \cup [kind : {"keygen"}, key : Key, consent : BOOLEAN]
        \cup [kind : {"run"}, key : Key]

Register == INSTANCE ConfigSpec WITH text <- file, durable <- disk, Command <- Commands

(* CFG-04: with any interleaving of writers, kills and power losses the      *)
(* file is a register: each command takes effect once, whole, on the text    *)
(* that is there at that moment, and a power loss leaves an old or a new     *)
(* complete text (store.rs).                                                *)
ActsAsRegister == Register!Spec

(* p is putting its text in place in this step. *)
Replaces(p) == pc[p] = "write" /\ pc'[p] = "sync"

(* An edit is put in place only over the very text it was made from: what    *)
(* another writer stored while the editor was open is not overwritten        *)
(* (EditAttempt::commit).                                                   *)
EditOverItsBase ==
    [][\A p \in Proc : op[p].kind = "edit" /\ Replaces(p) => file = seen[p]]_vars

(* A stored identity is replaced only by an edit or by a keygen whose user   *)
(* agreed, never by a `run` or by a keygen that first saw no key             *)
(* (persist_generated_key, keygen).                                         *)
RotationByConsent ==
    [][\A p \in Proc :
           Replaces(p) /\ HasKey(file) /\ file'.secret_key # file.secret_key
               => op[p].kind = "edit" \/ (op[p].kind = "keygen" /\ consent[p])]_vars

(* p may have replaced the identity on purpose. *)
MayHaveRotated(p) ==
    op[p].kind \in {"keygen", "edit"} /\ pc[p] \in {"sync", "saved", "dead"}

(* Racing first starts agree: every `run` that went on has the key that is   *)
(* in the file, unless somebody rotated it (persist_generated_key).         *)
RunsShareStoredKey ==
    \A p \in Proc : key[p] # NoKey /\ pc[p] # "dead" =>
        \/ HasKey(file) /\ file.secret_key = key[p]
        \/ \E q \in Proc : MayHaveRotated(q)

(* The places of the entries not named n. *)
Others(entries, n) == {i \in DOMAIN entries : entries[i].name # n}

(* The two lists have the same entries not named n, in the same order: each  *)
(* of the one has its place in the other, later ones later, and no place is  *)
(* left over.                                                               *)
SameOthers(before, after, n) ==
    \E place \in [Others(before, n) -> Others(after, n)] :
        /\ \A i \in Others(before, n) : after[place[i]] = before[i]
        /\ \A i, j \in Others(before, n) : i < j => place[i] < place[j]
        /\ \A k \in Others(after, n) : \E i \in Others(before, n) : place[i] = k

(* The entries of a text, without the retired field that any write drops. *)
EntriesOf(t) == StripRetired(OrEmpty(t)).entries

(* The settings of the node other than its identity: relay, token, limit.    *)
SameNode(before, after) ==
    /\ after.https = before.https /\ after.token = before.token
    /\ after.streams = before.streams

(* `set` and `rm` touch the entry they name, `keygen` and `run` the identity *)
(* of the node: the other entries, in their order, the relay, the token and  *)
(* the stream limit stay as other writers stored them (set_service,          *)
(* remove_service, keygen, persist_generated_key).                           *)
WritesOnlyItsPart ==
    [][\A p \in Proc : Replaces(p) /\ op[p].kind # "edit" =>
           LET n == CASE op[p].kind = "set" -> op[p].req.name
                      [] op[p].kind = "rm" -> op[p].name
                      [] OTHER -> "none"
           IN  /\ SameOthers(EntriesOf(file), EntriesOf(file'), n)
               /\ SameNode(OrEmpty(file), file')
               /\ op[p].kind \in {"set", "rm"} =>
                      file'.secret_key = OrEmpty(file).secret_key]_vars

(* The limits every running UDP service gets can work: no queue or flow      *)
(* table is empty or beyond the schema's maximum, and the cap per peer is    *)
(* within the cap of the service (UdpSettings::validate, from_overrides).   *)
EffectiveLimitsWork ==
    \A p \in Proc : op[p].kind = "run" /\ key[p] # NoKey =>
        \A i \in DOMAIN seen[p].entries :
            LET service == Settings(seen[p])[i]
            IN  service.protocol = "udp" =>
                    /\ \A f \in UdpField : service.udp[f] \in 1 .. MaxOf(f)
                    /\ service.udp.max_flows_per_peer <= service.udp.max_flows

(* What a `run` goes on with is sound: the stored identity, and limits that  *)
(* can work (RoleDoc::resolve_and_save_key, to_settings).                    *)
RunsSound == TypeOK /\ RunsShareStoredKey /\ EffectiveLimitsWork

============================================================================
