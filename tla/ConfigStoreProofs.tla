-------------------------- MODULE ConfigStoreProofs --------------------------
(***************************************************************************)
(* Proofs about ConfigStore: for any set of processes, any commands, texts *)
(* and keys, the configuration file acts as the register of ConfigSpec,    *)
(* edits and rotations replace only what they may, and a run goes on with  *)
(* the stored identity and with limits that work.                          *)
(*                                                                         *)
(* The invariant says what a process knows at each of its steps: that it   *)
(* holds the lock from its second reading to the end, and that what it is  *)
(* about to write is a result of its command on the text in the file now.  *)
(***************************************************************************)
EXTENDS ConfigStore, SequenceTheorems, WellFoundedInduction, TLAPS

(* A process holds the lock from its reading of the file to its end. *)
LockHeld == \A p \in Proc : pc[p] \in {"read", "write", "sync"} => lock = p

(* Only keygen asks and only an edit opens an editor; the copy is the text   *)
(* that was read, then also what the editor may leave, and from the lock on  *)
(* the latter.                                                               *)
EditsMade ==
    \A p \in Proc :
        /\ pc[p] = "ask" => op[p].kind = "keygen"
        /\ pc[p] \in {"editor", "commit"} => op[p].kind = "edit"
        /\ pc[p] = "editor" => text[p] = OrEmpty(seen[p])
        /\ pc[p] = "commit" => text[p] \in EditText \cup {OrEmpty(seen[p])}
        /\ op[p].kind = "edit" /\ pc[p] \in {"lock", "read"} => text[p] \in EditText

EditOf(t) == [kind |-> "edit", base |-> file, text |-> t]

(* What a process is about to write is a result on the text that is there;   *)
(* for an edit, on the very text that it started from.                       *)
DecidedOn(p) ==
    IF op[p].kind = "edit"
    THEN seen[p] = file /\ \E t \in EditText : text[p] \in Result(role, EditOf(t), file)
    ELSE text[p] \in Result(role, CommandOf(p), file)

Decided == \A p \in Proc : pc[p] = "write" => DecidedOn(p)

(* A run has no key before it has loaded the file; one that looks for its    *)
(* key or has one has loaded a valid document; and the key that it has just  *)
(* stored is the one in the file.                                            *)
RunsLoaded ==
    \A p \in Proc : op[p].kind = "run" =>
        /\ pc[p] = "start" => key[p] = NoKey
        /\ pc[p] \in {"lock", "read", "write", "sync"} \/ key[p] # NoKey => Valid(role, seen[p])
        /\ pc[p] = "sync" => HasKey(file) /\ file.secret_key = KeyOf[p]

Inv == TypeOK /\ LockHeld /\ EditsMade /\ Decided /\ RunsLoaded /\ RunsShareStoredKey

-----------------------------------------------------------------------------
(* Documents *)

(* The empty document is a document without a key. *)
LEMMA EmptyIsDoc == EmptyDoc \in Doc /\ ~HasKey(EmptyDoc)
BY DEF EmptyDoc, Doc, HasKey

(* A text that is no garbage reads as a document. *)
LEMMA ReadsAsDoc ==
  ASSUME NEW t \in Text, t # Garbage
  PROVE  OrEmpty(t) \in Doc /\ (HasKey(t) => OrEmpty(t) = t) /\ (HasKey(OrEmpty(t)) => HasKey(t))
<1>1. CASE t = NoFile
  BY <1>1, EmptyIsDoc DEF OrEmpty, HasKey
<1>2. CASE t # NoFile
  BY <1>2 DEF OrEmpty, Text
<1>3. QED BY <1>1, <1>2

(* strip_retired_fields touches only the entries, and leaves entries. *)
LEMMA StripKeeps ==
  ASSUME NEW d \in Doc
  PROVE  /\ StripRetired(d) \in Doc
         /\ StripRetired(d).node = d.node /\ StripRetired(d).secret_key = d.secret_key
<1> DEFINE es == [i \in DOMAIN d.entries |-> [d.entries[i] EXCEPT !.multiplex = FALSE]]
<1>1. d.entries \in Seq(Entry)
  BY DEF Doc
<1>2. \A i \in DOMAIN d.entries : [d.entries[i] EXCEPT !.multiplex = FALSE] \in Entry
  <2>1. \A i \in DOMAIN d.entries : d.entries[i] \in Entry
    BY <1>1
  <2>2. QED BY <2>1 DEF Entry
<1>3. DOMAIN d.entries = 1 .. Len(d.entries) /\ Len(d.entries) \in Nat
  BY <1>1
<1>4. es \in Seq(Entry)
  BY <1>2, <1>3
<1>5. QED BY <1>4 DEF StripRetired, Doc

(* A new key goes into the [node] table and changes nothing else. *)
LEMMA WithKeyKeeps ==
  ASSUME NEW d \in Doc, NEW k \in Key, NEW u \in WithKey(d, k)
  PROVE  u \in Doc /\ u.node = "table" /\ u.secret_key = k /\ u.entries = d.entries
BY DEF WithKey, Doc

(* set_service leaves a document with the old identity: a created entry ... *)
LEMMA CreatedKeeps ==
  ASSUME NEW d \in Doc, NEW req \in Request, NEW u \in Created(role, req, d)
  PROVE  u \in Doc /\ u.node = d.node /\ u.secret_key = d.secret_key
<1> DEFINE e == [name |-> req.name,
                 protocol |-> IF req.protocol = Absent THEN "tcp" ELSE req.protocol,
                 host |-> IF req.host = Absent THEN DefaultHost ELSE req.host,
                 port |-> req.port,
                 node_id |-> IF role = "access" THEN req.node_id ELSE Absent,
                 https |-> TRUE, udp |-> NoUdp, multiplex |-> FALSE]
<1>1. NoUdp \in [UdpField -> Nat \cup {Absent}]
  BY DEF NoUdp
<1>2. req.port \in 0 .. MaxPort + 1 \cup {Absent}
  BY DocAssumption DEF Request
<1>3. e \in Entry
  BY <1>1, <1>2, DocAssumption DEF Entry, Request
<1>4. Append(d.entries, e) \in Seq(Entry)
  BY <1>3 DEF Doc
<1> HIDE DEF e
<1>5. u = [d EXCEPT !.services = "tables", !.entries = Append(@, e)]
  BY DEF Created, e
<1>6. QED BY <1>4, <1>5 DEF Doc

(* ... or an updated one. *)
LEMMA UpdatedKeeps ==
  ASSUME NEW d \in Doc, NEW req \in Request, NEW i \in DOMAIN d.entries,
         NEW u \in Updated(req, d, i)
  PROVE  u \in Doc /\ u.node = d.node /\ u.secret_key = d.secret_key
<1>1. d.entries \in Seq(Entry) /\ d.entries[i] \in Entry
  BY DEF Doc
<1>2. req.port \in 0 .. MaxPort + 1 \cup {Absent}
  BY DocAssumption DEF Request
<1>3. UpdatedEntry(req, d.entries[i]) \in Entry
  <2> DEFINE e == d.entries[i]
         old == IF e.host = Absent THEN DefaultHost ELSE e.host
         h == IF req.port = Absent \/ req.host \in {Absent, old} THEN e.host ELSE req.host
         r == IF req.protocol \in {Absent, IF e.protocol = Absent THEN "tcp" ELSE e.protocol}
              THEN e.protocol ELSE req.protocol
         o == IF req.port = Absent THEN e.port ELSE req.port
         n == IF req.node_id = Absent THEN e.node_id ELSE req.node_id
  <2>1. h \in Host \cup {Absent} /\ r \in {"tcp", "udp", "bad", Absent}
    BY <1>1 DEF Entry, Request
  <2>2. o \in 0 .. MaxPort + 1 \cup {Absent} /\ n \in NodeId \cup {"bad", Absent}
    BY <1>1, <1>2 DEF Entry, Request
  <2>3. UpdatedEntry(req, e) = [e EXCEPT !.host = h, !.port = o, !.protocol = r, !.node_id = n]
    BY DEF UpdatedEntry
  <2> HIDE DEF h, r, o, n
  <2>4. QED BY <1>1, <2>1, <2>2, <2>3 DEF Entry
<1>4. [d.entries EXCEPT ![i] = UpdatedEntry(req, d.entries[i])] \in Seq(Entry)
  BY <1>1, <1>3
<1>5. u = [d EXCEPT !.entries = [d.entries EXCEPT ![i] = UpdatedEntry(req, d.entries[i])]]
  BY DEF Updated, Doc
<1>6. QED BY <1>4, <1>5 DEF Doc

(* Naturals have a least one among them. *)
LEMMA Least ==
  ASSUME NEW T \in SUBSET Nat, T # {}
  PROVE  \E x \in T : \A y \in T : x <= y
<1> DEFINE R == OpToRel(<, Nat)
<1>1. IsWellFoundedOn(R, Nat)
  BY NatLessThanWellFounded
<1>2. \A x, y \in Nat : x < y => <<x, y>> \in R
  BY DEF OpToRel
<1> HIDE DEF R
<1>3. PICK x \in T : \A y \in T : ~ (<<y, x>> \in R)
  BY <1>1, WFMin
<1>4. \A y \in T : ~ (y < x)
  BY <1>2, <1>3
<1>5. \A y \in T : x <= y
  <2> SUFFICES ASSUME NEW y \in T PROVE x <= y
    OBVIOUS
  <2>1. x \in Nat /\ y \in Nat /\ ~ (y < x)
    BY <1>4
  <2>2. QED BY <2>1
<1>6. QED BY <1>5

(* The first entry of a name has that name ... *)
LEMMA FirstNamed ==
  ASSUME NEW d \in Doc, NEW name, IndexOfName(d, name) # {}
  PROVE  (CHOOSE i \in IndexOfName(d, name) : \A j \in IndexOfName(d, name) : i <= j)
            \in IndexOfName(d, name)
<1>1. d.entries \in Seq(Entry)
  BY DEF Doc
<1>2. IndexOfName(d, name) \in SUBSET Nat
  BY <1>1 DEF IndexOfName
<1>3. \E i \in IndexOfName(d, name) : \A j \in IndexOfName(d, name) : i <= j
  BY <1>2, Least
<1>4. QED BY <1>3

(* ... and is one of the entries. *)
LEMMA FirstFound ==
  ASSUME NEW d \in Doc, NEW name, IndexOfName(d, name) # {}
  PROVE  (CHOOSE i \in IndexOfName(d, name) : \A j \in IndexOfName(d, name) : i <= j)
            \in DOMAIN d.entries
<1>1. IndexOfName(d, name) \subseteq DOMAIN d.entries
  BY DEF IndexOfName
<1>2. QED BY <1>1, FirstNamed

(* remove_service leaves a document with the old identity. *)
LEMMA RemovedKeeps ==
  ASSUME NEW d \in Doc, NEW name, NEW u \in RemoveService(name, d)
  PROVE  u \in Doc /\ u.node = d.node /\ u.secret_key = d.secret_key
<1>1. IndexOfName(d, name) # {}
  BY DEF RemoveService
<1>2. PICK i \in DOMAIN d.entries : u = [d EXCEPT !.entries = RemoveAt(d.entries, i)]
  BY <1>1, FirstFound DEF RemoveService, Doc
<1>3. d.entries \in Seq(Entry) /\ i \in 1 .. Len(d.entries)
  BY DEF Doc
<1>4. /\ SubSeq(d.entries, 1, i - 1) \in Seq(Entry)
      /\ SubSeq(d.entries, i + 1, Len(d.entries)) \in Seq(Entry)
  <2>1. \A j \in 1 .. i - 1 : d.entries[j] \in Entry
    BY <1>3
  <2>2. \A j \in i + 1 .. Len(d.entries) : d.entries[j] \in Entry
    BY <1>3
  <2>3. QED BY <1>3, <2>1, <2>2, SubSeqProperties
<1>5. RemoveAt(d.entries, i) \in Seq(Entry)
  BY <1>4, ConcatProperties DEF RemoveAt
<1>6. QED BY <1>2, <1>5 DEF Doc

(* set_service as a whole. *)
LEMMA SetKeeps ==
  ASSUME NEW d \in Doc, NEW req \in Request, NEW u \in SetService(role, req, d)
  PROVE  u \in Doc /\ u.node = d.node /\ u.secret_key = d.secret_key
<1>1. CASE d.services \in {"inline", "malformed"}
  BY <1>1 DEF SetService
<1>2. CASE d.services \notin {"inline", "malformed"}
            /\ (d.services = "absent" \/ IndexOfName(d, req.name) = {})
  BY <1>2, CreatedKeeps DEF SetService
<1>3. CASE d.services \notin {"inline", "malformed"}
            /\ ~ (d.services = "absent" \/ IndexOfName(d, req.name) = {})
  <2>1. PICK i \in DOMAIN d.entries : u \in Updated(req, d, i)
    BY <1>3, FirstFound DEF SetService
  <2>2. QED BY <2>1, UpdatedKeeps
<1>4. QED BY <1>1, <1>2, <1>3

-----------------------------------------------------------------------------
(* Results of commands *)

(* What a command can be, by its kind. *)
LEMMA CommandKinds ==
  ASSUME NEW c \in Commands
  PROVE  /\ c.kind \in {"set", "rm", "keygen", "run"}
         /\ c.kind = "set" => c.req \in Request
         /\ c.kind \in {"keygen", "run"} => c.key \in Key
<1>1. CASE c \in Op /\ c.kind \in {"set", "rm"}
  <2>1. c \in Given
    BY <1>1, StoreAssumption
  <2>2. c.kind = "set" => c.req \in Request
    BY <1>1, <2>1 DEF Given
  <2>3. QED BY <1>1, <2>2
<1>2. CASE c \in [kind : {"keygen"}, key : Key, consent : BOOLEAN]
  BY <1>2
<1>3. CASE c \in [kind : {"run"}, key : Key]
  BY <1>3
<1>4. QED BY <1>1, <1>2, <1>3 DEF Commands

(* What a command other than an edit makes of a text before it is stripped.  *)
LEMMA EditedKeeps ==
  ASSUME NEW c \in Commands, NEW t \in Text, t # Garbage, NEW d \in Edited(role, c, t)
  PROVE  /\ d \in Doc
         /\ c.kind \in {"set", "rm"} =>
               d.node = OrEmpty(t).node /\ d.secret_key = OrEmpty(t).secret_key
         /\ c.kind \in {"keygen", "run"} => d.node = "table" /\ d.secret_key = c.key
         /\ c.kind = "run" => ~HasKey(OrEmpty(t))
         /\ c.kind = "keygen" /\ HasKey(OrEmpty(t)) => c.consent
<1>1. OrEmpty(t) \in Doc
  BY ReadsAsDoc
<1>2. CASE c.kind = "set"
  <2>1. Edited(role, c, t) = SetService(role, c.req, OrEmpty(t)) \ {OrEmpty(t)}
    BY <1>2 DEF Edited
  <2>2. c.req \in Request
    BY <1>2, CommandKinds
  <2>3. QED BY <1>1, <1>2, <2>1, <2>2, SetKeeps
<1>3. CASE c.kind = "rm"
  <2>1. Edited(role, c, t) = RemoveService(c.name, OrEmpty(t))
    BY <1>3 DEF Edited
  <2>2. QED BY <1>1, <1>3, <2>1, RemovedKeeps
<1>4. CASE c.kind = "keygen"
  <2>1. Edited(role, c, t) =
          IF HasKey(OrEmpty(t)) /\ ~c.consent THEN {} ELSE WithKey(OrEmpty(t), c.key)
    BY <1>4 DEF Edited
  <2>2. c.key \in Key
    BY <1>4, CommandKinds
  <2>3. d \in WithKey(OrEmpty(t), c.key) /\ (HasKey(OrEmpty(t)) => c.consent)
    BY <2>1
  <2>4. QED BY <1>1, <1>4, <2>2, <2>3, WithKeyKeeps
<1>5. CASE c.kind = "run"
  <2>1. Edited(role, c, t) = IF HasKey(OrEmpty(t)) THEN {} ELSE WithKey(OrEmpty(t), c.key)
    BY <1>5 DEF Edited
  <2>2. c.key \in Key
    BY <1>5, CommandKinds
  <2>3. d \in WithKey(OrEmpty(t), c.key) /\ ~HasKey(OrEmpty(t))
    BY <2>1
  <2>4. QED BY <1>1, <1>5, <2>2, <2>3, WithKeyKeeps
<1>6. QED BY <1>2, <1>3, <1>4, <1>5, CommandKinds

(* A command other than an edit writes a valid document; `set` and `rm` keep *)
(* the stored identity, `run` stores its own where there is none, `keygen`   *)
(* replaces one by consent.                                                  *)
LEMMA ResultSound ==
  ASSUME NEW c \in Commands, NEW t \in Text, NEW u \in Result(role, c, t)
  PROVE  /\ u \in Doc /\ Valid(role, u)
         /\ c.kind \in {"set", "rm"} /\ HasKey(t) => HasKey(u) /\ u.secret_key = t.secret_key
         /\ c.kind \in {"keygen", "run"} => HasKey(u) /\ u.secret_key = c.key
         /\ c.kind = "run" => ~HasKey(t)
         /\ c.kind = "keygen" /\ HasKey(t) => c.consent
<1>1. c.kind # "edit"
  BY CommandKinds
<1>2. t # Garbage /\ Valid(role, u) /\ \E d \in Edited(role, c, t) : u = StripRetired(d)
  BY <1>1 DEF Result
<1>3. PICK d \in Edited(role, c, t) : u = StripRetired(d)
  BY <1>2
<1>4. /\ d \in Doc
      /\ c.kind \in {"set", "rm"} =>
            d.node = OrEmpty(t).node /\ d.secret_key = OrEmpty(t).secret_key
      /\ c.kind \in {"keygen", "run"} => d.node = "table" /\ d.secret_key = c.key
      /\ c.kind = "run" => ~HasKey(OrEmpty(t))
      /\ c.kind = "keygen" /\ HasKey(OrEmpty(t)) => c.consent
  BY <1>2, EditedKeeps
<1>5. u \in Doc /\ u.node = d.node /\ u.secret_key = d.secret_key
  BY <1>3, <1>4, StripKeeps
<1>6. u \notin {NoFile, Garbage}
  BY <1>2 DEF Valid
<1>7. HasKey(t) => OrEmpty(t) = t
  BY <1>2, ReadsAsDoc
<1>8. c.kind \in {"set", "rm"} /\ HasKey(t) => HasKey(u) /\ u.secret_key = t.secret_key
  BY <1>4, <1>5, <1>6, <1>7 DEF HasKey
<1>9. c.kind \in {"keygen", "run"} => HasKey(u) /\ u.secret_key = c.key
  BY <1>4, <1>5, <1>6, CommandKinds, DocAssumption DEF HasKey
<1>10. QED BY <1>2, <1>4, <1>5, <1>7, <1>8, <1>9

(* An edit writes a valid document, over the text it is based on. *)
LEMMA EditSound ==
  ASSUME NEW b, NEW e \in Text, NEW t,
         NEW u \in Result(role, [kind |-> "edit", base |-> b, text |-> e], t)
  PROVE  u \in Doc /\ b = t
<1>1. t = b /\ e # Garbage /\ u = StripRetired(OrEmpty(e))
  BY DEF Result
<1>2. QED BY <1>1, ReadsAsDoc, StripKeeps

(* The command of a process that is no edit is one of the commands. *)
LEMMA CommandOfKinds ==
  ASSUME TypeOK, NEW p \in Proc
  PROVE  /\ op[p].kind \in {"set", "rm", "keygen", "run", "edit"}
         /\ op[p].kind # "edit" => CommandOf(p) \in Commands /\ CommandOf(p).kind = op[p].kind
         /\ op[p].kind = "edit" =>
               CommandOf(p) = [kind |-> "edit", base |-> seen[p], text |-> text[p]]
         /\ op[p].kind \in {"keygen", "run"} => CommandOf(p).key = KeyOf[p]
         /\ op[p].kind = "keygen" => CommandOf(p).consent = consent[p] /\ op[p].yes \in BOOLEAN
<1>1. op[p] \in Op /\ op[p] \in Given /\ consent[p] \in BOOLEAN /\ KeyOf[p] \in Key
  BY StoreAssumption DEF TypeOK
<1>2. /\ op[p].kind \in {"set", "rm", "keygen", "run", "edit"}
      /\ op[p].kind = "keygen" => op[p].yes \in BOOLEAN
  BY <1>1 DEF Given
<1>3. CASE op[p].kind = "keygen"
  <2>1. CommandOf(p) = [kind |-> "keygen", key |-> KeyOf[p], consent |-> consent[p]]
    BY <1>3 DEF CommandOf
  <2>2. QED BY <1>1, <1>2, <1>3, <2>1 DEF Commands
<1>4. CASE op[p].kind = "run"
  <2>1. CommandOf(p) = [kind |-> "run", key |-> KeyOf[p]]
    BY <1>4 DEF CommandOf
  <2>2. QED BY <1>1, <1>2, <1>4, <2>1 DEF Commands
<1>5. CASE op[p].kind = "edit"
  BY <1>2, <1>5 DEF CommandOf
<1>6. CASE op[p].kind \in {"set", "rm"}
  <2>1. CommandOf(p) = op[p]
    BY <1>6 DEF CommandOf
  <2>2. QED BY <1>1, <1>2, <1>6, <2>1 DEF Commands
<1>7. QED BY <1>2, <1>3, <1>4, <1>5, <1>6

-----------------------------------------------------------------------------
(* The type *)

StepOf(p) == Step(p) \/ ConfirmRotation(p) \/ Editor(p) \/ Kill(p)

(* Initially nobody has begun. *)
LEMMA InitInv == Init => Inv
<1> SUFFICES ASSUME Init PROVE Inv
  OBVIOUS
<1>1. TypeOK
  BY StoreAssumption DEF Init, TypeOK, Text, At
<1>2. LockHeld /\ EditsMade /\ Decided /\ RunsLoaded /\ RunsShareStoredKey
  BY DEF Init, LockHeld, EditsMade, Decided, RunsLoaded, RunsShareStoredKey
<1>3. QED BY <1>1, <1>2 DEF Inv

(* What a process may write is a text of a document. *)
LEMMA DecidedTyped ==
  ASSUME TypeOK, NEW p \in Proc, NEW t \in Result(role, CommandOf(p), file)
  PROVE  t \in Text
<1>1. file \in Text /\ text[p] \in Text
  BY DEF TypeOK
<1>2. CASE op[p].kind = "edit"
  BY <1>1, <1>2, CommandOfKinds, EditSound DEF Text
<1>3. CASE op[p].kind # "edit"
  BY <1>1, <1>3, CommandOfKinds, ResultSound DEF Text
<1>4. QED BY <1>2, <1>3

(* Before the lock. *)
LEMMA BeforeTyped ==
  ASSUME TypeOK, NEW p \in Proc,
         \/ StartSet(p) \/ StartRm(p) \/ StartKeygen(p) \/ ConfirmRotation(p) \/ StartRun(p)
         \/ PrepareEdit(p) \/ Editor(p) \/ Commit(p)
  PROVE  TypeOK'
<1> USE DEF TypeOK, Goto, shared, locals, At, End
<1>1. CASE StartSet(p) \/ StartRm(p) \/ Commit(p)
  BY <1>1 DEF StartSet, StartRm, Commit
<1>2. CASE StartKeygen(p)
  <2>1. op[p].yes \in BOOLEAN
    BY <1>2, CommandOfKinds DEF StartKeygen
  <2>2. QED BY <1>2, <2>1 DEF StartKeygen
<1>3. CASE ConfirmRotation(p)
  BY <1>3 DEF ConfirmRotation
<1>4. CASE StartRun(p)
  <2>1. key' \in [Proc -> Key \cup {NoKey}]
    BY <1>4 DEF StartRun, Decodes
  <2>2. pc' \in [Proc -> At \cup End]
    BY <1>4 DEF StartRun
  <2>3. QED BY <1>4, <2>1, <2>2 DEF StartRun
<1>5. CASE PrepareEdit(p)
  <2>1. OrEmpty(file) \in Text
    BY EmptyIsDoc DEF OrEmpty, Text
  <2>2. QED BY <1>5, <2>1 DEF PrepareEdit
<1>6. CASE Editor(p)
  BY <1>6, StoreAssumption DEF Editor
<1>7. QED BY <1>1, <1>2, <1>3, <1>4, <1>5, <1>6

(* At the lock and under it. *)
LEMMA UnderTyped ==
  ASSUME TypeOK, NEW p \in Proc,
         \/ Acquire(p) \/ Busy(p) \/ Decide(p) \/ KeepFile(p) \/ RejectEdit(p)
         \/ WriteFails(p) \/ Rename(p) \/ SyncDir(p) \/ Kill(p)
  PROVE  TypeOK'
<1> USE DEF TypeOK, Goto, Finish, shared, locals, At, End
<1>1. CASE Acquire(p) \/ Busy(p)
  BY <1>1 DEF Acquire, Busy
<1>2. CASE Decide(p)
  BY <1>2, DecidedTyped DEF Decide
<1>3. CASE KeepFile(p)
  <2>1. key' \in [Proc -> Key \cup {NoKey}]
    BY <1>3 DEF KeepFile, Decodes
  <2>2. lock' \in Proc \cup {NoProc} /\ pc' \in [Proc -> At \cup End]
    BY <1>3 DEF KeepFile
  <2>3. QED BY <1>3, <2>1, <2>2 DEF KeepFile
<1>4. CASE RejectEdit(p)
  BY <1>4 DEF RejectEdit
<1>5. CASE WriteFails(p) \/ Kill(p)
  BY <1>5 DEF WriteFails, Kill
<1>6. CASE Rename(p)
  BY <1>6 DEF Rename
<1>7. CASE SyncDir(p)
  BY <1>7, StoreAssumption DEF SyncDir
<1>8. QED BY <1>1, <1>2, <1>3, <1>4, <1>5, <1>6, <1>7

(* Each step keeps the type. *)
LEMMA NextTyped ==
  ASSUME TypeOK, Next
  PROVE  TypeOK'
<1>1. CASE PowerLoss
  BY <1>1 DEF PowerLoss, TypeOK, locals, End
<1>2. ASSUME NEW p \in Proc, StepOf(p) PROVE TypeOK'
  BY <1>2, BeforeTyped, UnderTyped DEF StepOf, Step
<1>3. QED BY <1>1, <1>2 DEF Next, StepOf

-----------------------------------------------------------------------------
(* The lock and what a process knows *)

(* What is known of one process. *)
Knows(p) ==
    /\ pc[p] \in {"read", "write", "sync"} => lock = p
    /\ pc[p] = "ask" => op[p].kind = "keygen"
    /\ pc[p] \in {"editor", "commit"} => op[p].kind = "edit"
    /\ pc[p] = "editor" => text[p] = OrEmpty(seen[p])
    /\ pc[p] = "commit" => text[p] \in EditText \cup {OrEmpty(seen[p])}
    /\ op[p].kind = "edit" /\ pc[p] \in {"lock", "read"} => text[p] \in EditText
    /\ pc[p] = "write" => DecidedOn(p)
    /\ op[p].kind = "run" =>
        /\ pc[p] = "start" => key[p] = NoKey
        /\ pc[p] \in {"lock", "read", "write", "sync"} \/ key[p] # NoKey => Valid(role, seen[p])
        /\ pc[p] = "sync" => HasKey(file) /\ file.secret_key = KeyOf[p]

(* Four parts of the invariant speak of one process at a time. *)
LEMMA KnowsParts ==
  (\A p \in Proc : Knows(p)) <=> LockHeld /\ EditsMade /\ Decided /\ RunsLoaded
BY DEF Knows, LockHeld, EditsMade, Decided, RunsLoaded

(* What a step of another leaves alone of q. *)
SameOf(q) ==
    /\ op'[q] = op[q] /\ pc'[q] = pc[q] /\ seen'[q] = seen[q] /\ text'[q] = text[q]
    /\ consent'[q] = consent[q] /\ key'[q] = key[q]

(* A step of p leaves every other process alone, takes only a free lock and  *)
(* drops only its own, and replaces the file only when it is to write.       *)
LEMMA OthersSame ==
  ASSUME TypeOK, NEW p \in Proc, StepOf(p)
  PROVE  /\ \A q \in Proc \ {p} : SameOf(q) /\ (lock = q => lock' = q)
         /\ op' = op
         /\ file' = file \/ Rename(p)
<1> USE DEF TypeOK, SameOf, Goto, Finish, shared, locals
<1>1. CASE StartSet(p) \/ StartRm(p) \/ Commit(p) \/ Busy(p)
  BY <1>1 DEF StartSet, StartRm, Commit, Busy
<1>2. CASE StartKeygen(p) \/ ConfirmRotation(p) \/ PrepareEdit(p) \/ Editor(p)
  BY <1>2 DEF StartKeygen, ConfirmRotation, PrepareEdit, Editor
<1>3. CASE StartRun(p)
  BY <1>3 DEF StartRun
<1>4. CASE Acquire(p)
  BY <1>4, StoreAssumption DEF Acquire
<1>5. CASE Decide(p) \/ Rename(p)
  BY <1>5 DEF Decide, Rename
<1>6. CASE KeepFile(p)
  BY <1>6 DEF KeepFile
<1>7. CASE RejectEdit(p) \/ WriteFails(p) \/ SyncDir(p) \/ Kill(p)
  BY <1>7 DEF RejectEdit, WriteFails, SyncDir, Kill
<1>8. QED BY <1>1, <1>2, <1>3, <1>4, <1>5, <1>6, <1>7 DEF StepOf, Step

(* A process that is left alone, over the same file unless it waits, knows   *)
(* what it knew.                                                             *)
LEMMA SameKnows ==
  ASSUME NEW q \in Proc, Knows(q), SameOf(q), lock = q => lock' = q,
         file' = file \/ pc[q] \notin {"read", "write", "sync"}
  PROVE  Knows(q)'
<1>1. CommandOf(q)' = CommandOf(q)
  BY DEF CommandOf, SameOf
<1>2. file' = file => (DecidedOn(q)' <=> DecidedOn(q))
  BY <1>1 DEF DecidedOn, EditOf, SameOf
<1>3. QED BY <1>2 DEF Knows, SameOf

(* Before the lock. *)
LEMMA BeforeKnows ==
  ASSUME TypeOK, NEW p \in Proc, Knows(p),
         \/ StartSet(p) \/ StartRm(p) \/ StartKeygen(p) \/ ConfirmRotation(p) \/ StartRun(p)
         \/ PrepareEdit(p) \/ Editor(p) \/ Commit(p)
  PROVE  Knows(p)'
<1> USE DEF TypeOK, Goto, shared, locals, Knows
<1>1. CASE StartSet(p) \/ StartRm(p)
  BY <1>1 DEF StartSet, StartRm
<1>2. CASE StartKeygen(p) \/ ConfirmRotation(p)
  BY <1>2 DEF StartKeygen, ConfirmRotation
<1>3. CASE StartRun(p)
  <2>1. /\ pc[p] = "start" /\ op[p].kind = "run" /\ seen'[p] = file /\ UNCHANGED <<op, lock>>
        /\ \/ pc'[p] = "failed" /\ key'[p] = NoKey
           \/ pc'[p] \in {"kept", "lock"} /\ Valid(role, file)
    BY <1>3 DEF StartRun, Loads
  <2>2. QED BY <2>1
<1>4. CASE PrepareEdit(p)
  BY <1>4 DEF PrepareEdit
<1>5. CASE Editor(p)
  BY <1>5 DEF Editor
<1>6. CASE Commit(p)
  BY <1>6 DEF Commit
<1>7. QED BY <1>1, <1>2, <1>3, <1>4, <1>5, <1>6

(* At the lock and under it. *)
LEMMA UnderKnows ==
  ASSUME TypeOK, NEW p \in Proc, Knows(p),
         \/ Acquire(p) \/ Busy(p) \/ Decide(p) \/ KeepFile(p) \/ RejectEdit(p)
         \/ WriteFails(p) \/ Rename(p) \/ SyncDir(p) \/ Kill(p)
  PROVE  Knows(p)'
<1> USE DEF TypeOK, Goto, Finish, shared, locals
<1>1. CASE Acquire(p) \/ Busy(p)
  BY <1>1 DEF Acquire, Busy, Knows
<1>2. CASE Decide(p)
  <2>1. PICK t \in Result(role, CommandOf(p), file) : text' = [text EXCEPT ![p] = t]
    BY <1>2 DEF Decide
  <2>2. /\ pc[p] = "read" /\ pc'[p] = "write" /\ lock = p /\ lock' = p /\ text'[p] = t
        /\ UNCHANGED <<file, op, seen, consent, key>>
    BY <1>2, <2>1 DEF Decide, Knows
  <2>3. CASE op[p].kind = "edit"
    <3>1. CommandOf(p) = [kind |-> "edit", base |-> seen[p], text |-> text[p]]
      BY <2>3, CommandOfKinds
    <3>2. seen[p] = file /\ text[p] \in EditText
      BY <2>2, <2>3, <3>1, EditSound DEF Knows
    <3>3. DecidedOn(p)'
      BY <2>1, <2>2, <2>3, <3>1, <3>2 DEF DecidedOn, EditOf
    <3>4. QED BY <2>2, <2>3, <3>3 DEF Knows
  <2>4. CASE op[p].kind # "edit"
    <3>1. CommandOf(p)' = CommandOf(p)
      BY <2>2, <2>4 DEF CommandOf
    <3>2. DecidedOn(p)'
      BY <2>1, <2>2, <2>4, <3>1 DEF DecidedOn
    <3>3. QED BY <2>2, <2>4, <3>2 DEF Knows
  <2>5. QED BY <2>3, <2>4
<1>3. CASE KeepFile(p)
  BY <1>3 DEF KeepFile, Knows
<1>4. CASE RejectEdit(p)
  BY <1>4 DEF RejectEdit, Knows
<1>5. CASE WriteFails(p) \/ Kill(p)
  BY <1>5 DEF WriteFails, Kill, Knows
<1>6. CASE Rename(p)
  <2>1. /\ pc[p] = "write" /\ pc'[p] = "sync" /\ lock' = p /\ file' = text[p]
        /\ UNCHANGED <<op, seen, key>>
    BY <1>6 DEF Rename, Knows
  <2>2. op[p].kind = "run" => HasKey(file') /\ file'.secret_key = KeyOf[p]
    <3>1. op[p].kind = "run" => text[p] \in Result(role, CommandOf(p), file)
      BY <2>1 DEF Knows, DecidedOn
    <3>2. QED BY <2>1, <3>1, CommandOfKinds, ResultSound
  <2>3. QED BY <2>1, <2>2 DEF Knows
<1>7. CASE SyncDir(p)
  BY <1>7 DEF SyncDir, Knows
<1>8. QED BY <1>1, <1>2, <1>3, <1>4, <1>5, <1>6, <1>7

(* Each step keeps what is known of every process. *)
LEMMA NextKnows ==
  ASSUME TypeOK, \A p \in Proc : Knows(p), Next
  PROVE  \A p \in Proc : Knows(p)'
<1>1. ASSUME PowerLoss, NEW p \in Proc PROVE Knows(p)'
  BY <1>1 DEF PowerLoss, Knows, locals
<1>2. ASSUME NEW p \in Proc, NEW q \in Proc, StepOf(p) PROVE Knows(q)'
  <2>1. Knows(p)'
    BY <1>2, BeforeKnows, UnderKnows DEF StepOf, Step
  <2>2. CASE q # p
    <3>1. SameOf(q) /\ (lock = q => lock' = q) /\ (file' = file \/ Rename(p))
      BY <1>2, <2>2, OthersSame
    <3>2. Rename(p) => pc[q] \notin {"read", "write", "sync"}
      BY <2>2 DEF Rename, Knows
    <3>3. QED BY <3>1, <3>2, SameKnows
  <2>3. QED BY <2>1, <2>2
<1>3. QED BY <1>1, <1>2 DEF Next, StepOf

-----------------------------------------------------------------------------
(* The stored identity *)

(* Death and a possible rotation are for good. *)
LEMMA EndsStay ==
  ASSUME TypeOK, NEW q \in Proc, StepOf(q), NEW p \in Proc
  PROVE  /\ pc[p] = "dead" => pc'[p] = "dead"
         /\ MayHaveRotated(p) => MayHaveRotated(p)'
<1>1. CASE p # q
  BY <1>1, OthersSame DEF SameOf, MayHaveRotated
<1>2. CASE p = q
  <2>1. op' = op
    BY OthersSame
  <2>2. ASSUME pc[p] \in {"sync", "saved", "dead"}
        PROVE  pc'[p] \in {"saved", "dead"} /\ (pc[p] = "dead" => pc'[p] = "dead")
    BY <1>2, <2>2
    DEF TypeOK, StepOf, Step, StartSet, StartRm, StartKeygen, StartRun, PrepareEdit, Commit,
        Acquire, Busy, Decide, KeepFile, RejectEdit, WriteFails, Rename, SyncDir,
        ConfirmRotation, Editor, Kill, Finish, Goto
  <2>3. QED BY <2>1, <2>2 DEF MayHaveRotated
<1>3. QED BY <1>1, <1>2

(* A key that a run gets is the one in the file. *)
LEMMA KeysFromFile ==
  ASSUME TypeOK, NEW p \in Proc, Knows(p), StepOf(p), key'[p] # key[p]
  PROVE  HasKey(file) /\ key'[p] = file.secret_key /\ file' = file
<1> USE DEF TypeOK
<1>1. StartRun(p) \/ KeepFile(p) \/ SyncDir(p)
  BY DEF StepOf, Step, StartSet, StartRm, StartKeygen, PrepareEdit, Commit, Acquire, Busy,
         Decide, RejectEdit, WriteFails, Rename, ConfirmRotation, Editor, Kill, locals
<1>2. CASE StartRun(p)
  BY <1>2 DEF StartRun, shared
<1>3. CASE KeepFile(p)
  BY <1>3 DEF KeepFile
<1>4. CASE SyncDir(p)
  BY <1>4 DEF SyncDir, Knows
<1>5. QED BY <1>1, <1>2, <1>3, <1>4

(* A write that is neither an edit nor a keygen keeps a stored identity, and *)
(* a keygen replaces one only by consent.                                    *)
LEMMA RenameKeepsIdentity ==
  ASSUME TypeOK, NEW p \in Proc, Knows(p), Rename(p), HasKey(file), op[p].kind # "edit"
  PROVE  /\ op[p].kind # "keygen" => HasKey(file') /\ file'.secret_key = file.secret_key
         /\ op[p].kind = "keygen" => consent[p]
<1>1. file' \in Result(role, CommandOf(p), file) /\ file \in Text
  BY DEF Rename, Knows, DecidedOn, TypeOK
<1>2. CommandOf(p) \in Commands /\ CommandOf(p).kind = op[p].kind
      /\ op[p].kind \in {"set", "rm", "keygen", "run"}
      /\ (op[p].kind = "keygen" => CommandOf(p).consent = consent[p])
  BY CommandOfKinds
<1>3. QED BY <1>1, <1>2, ResultSound

(* Each step keeps the agreement of the runs, unless somebody rotates. *)
LEMMA NextShares ==
  ASSUME TypeOK, \A p \in Proc : Knows(p), RunsShareStoredKey, Next
  PROVE  RunsShareStoredKey'
<1> SUFFICES ASSUME NEW p \in Proc, key'[p] # NoKey, pc'[p] # "dead",
                    \A q \in Proc : ~MayHaveRotated(q)'
             PROVE  HasKey(file') /\ file'.secret_key = key'[p]
  BY DEF RunsShareStoredKey
<1>1. CASE PowerLoss
  BY <1>1 DEF PowerLoss
<1>2. ASSUME NEW q \in Proc, StepOf(q) PROVE HasKey(file') /\ file'.secret_key = key'[p]
  <2>1. \A r \in Proc : ~MayHaveRotated(r)
    BY <1>2, EndsStay
  <2>2. pc[p] # "dead"
    BY <1>2, EndsStay
  <2>3. key[p] # NoKey => HasKey(file) /\ file.secret_key = key[p]
    BY <2>1, <2>2 DEF RunsShareStoredKey
  <2>4. CASE key'[p] # key[p]
    <3>1. p = q
      BY <1>2, <2>4, OthersSame DEF SameOf
    <3>2. QED BY <1>2, <2>4, <3>1, KeysFromFile
  <2>5. CASE key'[p] = key[p] /\ file' = file
    BY <2>3, <2>5
  <2>6. CASE key'[p] = key[p] /\ Rename(q)
    <3>1. op[q].kind \notin {"keygen", "edit"}
      BY <2>6 DEF MayHaveRotated, Rename, Goto, TypeOK
    <3>2. HasKey(file) /\ file.secret_key = key[p]
      BY <2>3, <2>6
    <3>3. QED BY <2>6, <3>1, <3>2, RenameKeepsIdentity
  <2>7. QED BY <1>2, <2>4, <2>5, <2>6, OthersSame
<1>3. QED BY <1>1, <1>2 DEF Next, StepOf

(* The invariant is inductive. *)
LEMMA NextInv == Inv /\ [Next]_vars => Inv'
<1> SUFFICES ASSUME Inv, [Next]_vars PROVE Inv'
  OBVIOUS
<1>1. CASE Next
  <2>1. TypeOK /\ (\A p \in Proc : Knows(p)) /\ RunsShareStoredKey
    BY KnowsParts DEF Inv
  <2>2. TypeOK' /\ RunsShareStoredKey' /\ \A p \in Proc : Knows(p)'
    BY <1>1, <2>1, NextTyped, NextKnows, NextShares
  <2>3. (LockHeld /\ EditsMade /\ Decided /\ RunsLoaded)'
    BY <2>2 DEF Knows, LockHeld, EditsMade, Decided, RunsLoaded
  <2>4. QED BY <2>2, <2>3 DEF Inv
<1>2. CASE UNCHANGED vars
  <2>1. \A p \in Proc : CommandOf(p)' = CommandOf(p)
    BY <1>2 DEF vars, locals, CommandOf
  <2>2. \A p \in Proc : DecidedOn(p)' <=> DecidedOn(p)
    BY <1>2, <2>1 DEF vars, shared, locals, DecidedOn, EditOf
  <2>3. QED
    BY <1>2, <2>2
    DEF vars, shared, locals, Inv, TypeOK, LockHeld, EditsMade, Decided, RunsLoaded,
        RunsShareStoredKey, MayHaveRotated
<1>3. QED BY <1>1, <1>2

(* The invariant holds in every state that the writers reach. *)
THEOREM InvAlways == Spec => []Inv
BY InitInv, NextInv, PTL DEF Spec

-----------------------------------------------------------------------------
(* What a run goes on with *)

(* from_overrides on a valid document: every limit is at least one and       *)
(* within the schema, and the cap per peer is within the cap of the service. *)
LEMMA LimitsWork ==
  ASSUME NEW d, Valid(role, d), NEW i \in DOMAIN d.entries, Settings(d)[i].protocol = "udp"
  PROVE  /\ \A f \in UdpField : Settings(d)[i].udp[f] \in 1 .. MaxOf(f)
         /\ Settings(d)[i].udp.max_flows_per_peer <= Settings(d)[i].udp.max_flows
<1> DEFINE udp == d.entries[i].udp
           Or(f, default) == IF udp[f] = Absent THEN default ELSE udp[f]
           flows == Or("max_flows", DefaultFlows)
           peer == Or("max_flows_per_peer", DefaultPerPeer)
<1>1. Settings(d)[i].udp = Resolve(udp) /\ d.entries[i].protocol = "udp"
  BY DEF Settings
<1>2. \A f \in UdpField : udp[f] # Absent => udp[f] \in 1 .. MaxOf(f)
  BY <1>1 DEF Valid, Validate, EntryValid, UdpValid
<1>3. /\ MaxOf("idle_timeout") = MaxIdle /\ MaxOf("queue_depth") = MaxQueue
      /\ MaxOf("max_flows") = MaxUdpFlows /\ MaxOf("max_flows_per_peer") = MaxUdpFlows
  BY DEF MaxOf
<1>4. flows \in 1 .. MaxUdpFlows /\ peer \in 1 .. MaxUdpFlows
  BY <1>2, <1>3, DocAssumption DEF UdpField
<1>5. /\ Or("idle_timeout", DefaultIdle) \in 1 .. MaxIdle
      /\ Or("queue_depth", DefaultQueue) \in 1 .. MaxQueue
  BY <1>2, <1>3, DocAssumption DEF UdpField
<1>6. Resolve(udp) = [idle_timeout |-> Or("idle_timeout", DefaultIdle),
                      max_flows |-> flows,
                      max_flows_per_peer |-> IF peer > flows THEN flows ELSE peer,
                      queue_depth |-> Or("queue_depth", DefaultQueue)]
  BY DEF Resolve
<1> HIDE DEF udp, Or, flows, peer
<1>7. QED BY <1>1, <1>3, <1>4, <1>5, <1>6, DocAssumption DEF UdpField

(* resolve_and_save_key and to_settings: every run that went on, however     *)
(* many start at once, has the identity that is in the file unless somebody  *)
(* rotated it, and limits that work.                                         *)
THEOREM RunsSoundAlways == Spec => []RunsSound
<1>1. Inv => RunsSound
  <2> SUFFICES ASSUME Inv PROVE EffectiveLimitsWork
    BY DEF Inv, RunsSound
  <2>1. \A p \in Proc : op[p].kind = "run" /\ key[p] # NoKey => Valid(role, seen[p])
    BY DEF Inv, RunsLoaded
  <2>2. QED BY <2>1, LimitsWork DEF EffectiveLimitsWork
<1>2. QED BY <1>1, InvAlways, PTL

-----------------------------------------------------------------------------
(* What a write replaces *)

(* A process puts its text in place by its rename. *)
LEMMA ReplacesRenames ==
  ASSUME TypeOK, Next, NEW p \in Proc, Replaces(p)
  PROVE  Rename(p)
<1>1. ~PowerLoss
  BY DEF PowerLoss, Replaces
<1>2. PICK q \in Proc : StepOf(q)
  BY <1>1 DEF Next, StepOf
<1>3. q = p
  BY <1>2, OthersSame DEF SameOf, Replaces
<1>4. QED
  BY <1>2, <1>3
  DEF TypeOK, Replaces, StepOf, Step, StartSet, StartRm, StartKeygen, StartRun, PrepareEdit,
      Commit, Acquire, Busy, Decide, KeepFile, RejectEdit, WriteFails, SyncDir,
      ConfirmRotation, Editor, Kill, Finish, Goto

(* EditAttempt::commit: whoever writes while an editor is open, the edit     *)
(* replaces only the text that it was made from.                             *)
THEOREM EditOverItsBaseAlways == Spec => EditOverItsBase
<1>1. Inv /\ [Next]_vars =>
        [\A p \in Proc : op[p].kind = "edit" /\ Replaces(p) => file = seen[p]]_vars
  <2> SUFFICES ASSUME Inv, Next, NEW p \in Proc, op[p].kind = "edit", Replaces(p)
               PROVE  file = seen[p]
    OBVIOUS
  <2>1. Rename(p)
    BY ReplacesRenames DEF Inv
  <2>2. QED BY <2>1 DEF Inv, Decided, DecidedOn, Rename
<1>2. QED BY <1>1, InvAlways, PTL DEF Spec, EditOverItsBase

(* persist_generated_key and keygen: whatever happened between the unlocked  *)
(* look and the write, a stored identity is replaced only by an edit or by a *)
(* keygen whose user agreed.                                                 *)
THEOREM RotationByConsentAlways == Spec => RotationByConsent
<1>1. Inv /\ [Next]_vars =>
        [\A p \in Proc :
            Replaces(p) /\ HasKey(file) /\ file'.secret_key # file.secret_key
                => op[p].kind = "edit" \/ (op[p].kind = "keygen" /\ consent[p])]_vars
  <2> SUFFICES ASSUME Inv, Next, NEW p \in Proc, Replaces(p), HasKey(file),
                      file'.secret_key # file.secret_key, op[p].kind # "edit"
               PROVE  op[p].kind = "keygen" /\ consent[p]
    OBVIOUS
  <2>1. Rename(p)
    BY ReplacesRenames DEF Inv
  <2>2. TypeOK /\ Knows(p)
    BY KnowsParts DEF Inv
  <2>3. QED BY <2>1, <2>2, RenameKeepsIdentity
<1>2. QED BY <1>1, InvAlways, PTL DEF Spec, RotationByConsent

-----------------------------------------------------------------------------
(* The other entries *)

(* Entries at the same places, those not named n unchanged. *)
LEMMA SamePlaces ==
  ASSUME NEW es \in Seq(Entry), NEW fs \in Seq(Entry), NEW n, Len(fs) = Len(es),
         \A i \in DOMAIN es : fs[i] = es[i] \/ (es[i].name = n /\ fs[i].name = n)
  PROVE  SameOthers(es, fs, n)
<1> DEFINE place == [i \in Others(es, n) |-> i]
<1>1. DOMAIN es = DOMAIN fs
  OBVIOUS
<1>2. Others(es, n) = Others(fs, n)
  BY <1>1 DEF Others
<1>3. place \in [Others(es, n) -> Others(fs, n)]
  BY <1>2
<1>4. \A i \in Others(es, n) : fs[place[i]] = es[i]
  BY DEF Others
<1>5. \A i, j \in Others(es, n) : i < j => place[i] < place[j]
  OBVIOUS
<1>6. \A k \in Others(fs, n) : \E i \in Others(es, n) : place[i] = k
  BY <1>2
<1> QED
  BY <1>3, <1>4, <1>5, <1>6 DEF SameOthers

(* An entry named n at the end. *)
LEMMA AppendedOther ==
  ASSUME NEW es \in Seq(Entry), NEW e \in Entry, NEW n, e.name = n
  PROVE  SameOthers(es, Append(es, e), n)
<1> DEFINE place == [i \in Others(es, n) |-> i]
<1>1. PICK fs : fs = Append(es, e)
  OBVIOUS
<1>2. /\ DOMAIN es = 1 .. Len(es) /\ Len(es) \in Nat /\ DOMAIN fs = 1 .. Len(es) + 1
      /\ \A i \in 1 .. Len(es) : fs[i] = es[i]
      /\ fs[Len(es) + 1] = e
  BY <1>1
<1>3. Others(es, n) = Others(fs, n)
  <2>1. \A i : i \in DOMAIN fs <=> i \in DOMAIN es \/ i = Len(es) + 1
    BY <1>2
  <2>2. ASSUME NEW i PROVE i \in Others(es, n) <=> i \in Others(fs, n)
    BY <1>2, <2>1 DEF Others
  <2> QED
    BY <2>2
<1>4. \A i \in Others(es, n) : fs[i] = es[i]
  BY <1>2 DEF Others
<1> HIDE <1>1, <1>2
<1>5. place \in [Others(es, n) -> Others(fs, n)]
  BY <1>3
<1>6. \A i \in Others(es, n) : fs[place[i]] = es[i]
  BY <1>4
<1>7. \A i, j \in Others(es, n) : i < j => place[i] < place[j]
  OBVIOUS
<1>8. \A k \in Others(fs, n) : \E i \in Others(es, n) : place[i] = k
  BY <1>3
<1>9. SameOthers(es, fs, n)
  BY <1>5, <1>6, <1>7, <1>8 DEF SameOthers
<1> QED
  BY <1>1, <1>9

(* What RemoveAt leaves at each place. *)
LEMMA RemovedPlaces ==
  ASSUME NEW es \in Seq(Entry), NEW k \in 1 .. Len(es), NEW fs, fs = RemoveAt(es, k)
  PROVE  /\ DOMAIN fs = 1 .. Len(es) - 1
         /\ \A i \in 1 .. k - 1 : fs[i] = es[i]
         /\ \A i \in k .. Len(es) - 1 : fs[i] = es[i + 1]
<1> DEFINE a == SubSeq(es, 1, k - 1)
           b == SubSeq(es, k + 1, Len(es))
<1>0. Len(es) \in Nat /\ k \in Int /\ 1 <= k /\ k <= Len(es)
  OBVIOUS
<1>1. a \in Seq(Entry) /\ Len(a) = k - 1 /\ \A i \in 1 .. k - 1 : a[i] = es[i]
  <2>1. \A j \in 1 .. k - 1 : es[j] \in Entry
    BY <1>0
  <2> QED
    BY <1>0, <2>1, SubSeqProperties
<1>2. /\ b \in Seq(Entry) /\ Len(b) = Len(es) - k
      /\ \A i \in 1 .. Len(es) - k : b[i] = es[k + i]
  <2>1. \A j \in k + 1 .. Len(es) : es[j] \in Entry
    BY <1>0
  <2>2. /\ b \in Seq(Entry)
        /\ Len(b) = (IF k + 1 <= Len(es) THEN Len(es) - (k + 1) + 1 ELSE 0)
        /\ \A i \in 1 .. Len(es) - (k + 1) + 1 : b[i] = es[(k + 1) + i - 1]
    BY <1>0, <2>1, SubSeqProperties
  <2> QED
    BY <1>0, <2>2
<1> HIDE DEF a, b
<1>3. fs = a \o b
  BY DEF RemoveAt, a, b
<1>4. /\ Len(fs) = Len(es) - 1 /\ DOMAIN fs = 1 .. Len(fs)
      /\ \A i \in 1 .. Len(fs) : fs[i] = IF i <= k - 1 THEN a[i] ELSE b[i - (k - 1)]
  BY <1>0, <1>1, <1>2, <1>3, ConcatProperties
<1>5. ASSUME NEW i \in 1 .. k - 1 PROVE fs[i] = es[i]
  BY <1>0, <1>1, <1>4
<1>6. ASSUME NEW i \in k .. Len(es) - 1 PROVE fs[i] = es[i + 1]
  <2>1. fs[i] = b[i - (k - 1)]
    BY <1>0, <1>4
  <2>2. PICK j \in Int : j = i - (k - 1)
    BY <1>0
  <2>3. j \in 1 .. Len(es) - k /\ k + j = i + 1
    BY <1>0, <2>2
  <2>4. b[j] = es[k + j]
    BY <1>2, <2>3
  <2> QED
    BY <2>1, <2>2, <2>3, <2>4
<1> QED
  BY <1>4, <1>5, <1>6

(* Without one of the entries named n, the later ones move up. *)
LEMMA RemovedOther ==
  ASSUME NEW es \in Seq(Entry), NEW n, NEW k \in 1 .. Len(es), es[k].name = n
  PROVE  SameOthers(es, RemoveAt(es, k), n)
<1> DEFINE place == [i \in Others(es, n) |-> IF i < k THEN i ELSE i - 1]
<1>1. PICK fs : fs = RemoveAt(es, k)
  OBVIOUS
<1>2. /\ DOMAIN fs = 1 .. Len(es) - 1
      /\ \A i \in 1 .. k - 1 : fs[i] = es[i]
      /\ \A i \in k .. Len(es) - 1 : fs[i] = es[i + 1]
  BY <1>1, RemovedPlaces
<1>3. Len(es) \in Nat /\ k \in Int /\ 1 <= k /\ k <= Len(es) /\ DOMAIN es = 1 .. Len(es)
  OBVIOUS
<1>4. \A i \in Others(es, n) : i \in Int /\ 1 <= i /\ i <= Len(es) /\ i # k /\ es[i].name # n
  BY <1>3 DEF Others
<1>5. \A i \in Others(fs, n) : i \in Int /\ 1 <= i /\ i <= Len(es) - 1 /\ fs[i].name # n
  BY <1>2, <1>3 DEF Others
<1>6. ASSUME NEW i \in Others(es, n) PROVE place[i] \in Others(fs, n) /\ fs[place[i]] = es[i]
  <2>1. CASE i < k
    BY <1>2, <1>3, <1>4, <2>1 DEF Others
  <2>2. CASE ~(i < k)
    <3>1. i - 1 \in k .. Len(es) - 1 /\ (i - 1) + 1 = i
      BY <1>3, <1>4, <2>2
    <3>2. fs[i - 1] = es[i] /\ i - 1 \in DOMAIN fs
      BY <1>2, <1>3, <3>1
    <3> QED
      BY <1>4, <2>2, <3>2 DEF Others
  <2> QED
    BY <2>1, <2>2
<1>7. ASSUME NEW i \in Others(es, n), NEW j \in Others(es, n), i < j PROVE place[i] < place[j]
  BY <1>3, <1>4, <1>7
<1>8. ASSUME NEW m \in Others(fs, n) PROVE \E i \in Others(es, n) : place[i] = m
  <2>1. CASE m < k
    <3>1. m \in Others(es, n)
      BY <1>2, <1>3, <1>5, <2>1 DEF Others
    <3> QED
      BY <2>1, <3>1
  <2>2. CASE ~(m < k)
    <3>1. m + 1 \in DOMAIN es /\ fs[m] = es[m + 1]
      BY <1>2, <1>3, <1>5, <2>2
    <3>2. m + 1 \in Others(es, n) /\ ~(m + 1 < k) /\ (m + 1) - 1 = m
      BY <1>3, <1>5, <2>2, <3>1 DEF Others
    <3> QED
      BY <3>2
  <2> QED
    BY <2>1, <2>2
<1>9. place \in [Others(es, n) -> Others(fs, n)]
  BY <1>6
<1> HIDE DEF place
<1>10. SameOthers(es, fs, n)
  BY <1>6, <1>7, <1>8, <1>9 DEF SameOthers
<1> QED
  BY <1>1, <1>10

(* What strip_retired_fields leaves at each place. *)
LEMMA StrippedPlaces ==
  ASSUME NEW d \in Doc
  PROVE  /\ DOMAIN StripRetired(d).entries = DOMAIN d.entries
         /\ \A i \in DOMAIN d.entries :
               /\ StripRetired(d).entries[i] = [d.entries[i] EXCEPT !.multiplex = FALSE]
               /\ StripRetired(d).entries[i].name = d.entries[i].name
               /\ [StripRetired(d).entries[i] EXCEPT !.multiplex = FALSE]
                     = StripRetired(d).entries[i]
<1> DEFINE es == [i \in DOMAIN d.entries |-> [d.entries[i] EXCEPT !.multiplex = FALSE]]
<1>1. StripRetired(d).entries = es
  BY DEF StripRetired, Doc
<1>2. \A i \in DOMAIN d.entries : d.entries[i] \in Entry
  BY DEF Doc
<1>3. ASSUME NEW e \in Entry, NEW f, f = [e EXCEPT !.multiplex = FALSE]
      PROVE  f.name = e.name /\ [f EXCEPT !.multiplex = FALSE] = f
  BY <1>3 DEF Entry
<1>4. DOMAIN es = DOMAIN d.entries
  OBVIOUS
<1>5. ASSUME NEW i \in DOMAIN d.entries
      PROVE  /\ es[i] = [d.entries[i] EXCEPT !.multiplex = FALSE]
             /\ es[i].name = d.entries[i].name
             /\ [es[i] EXCEPT !.multiplex = FALSE] = es[i]
  <2>1. PICK e, f : e = d.entries[i] /\ f = [e EXCEPT !.multiplex = FALSE]
    OBVIOUS
  <2>2. es[i] = f
    BY <2>1
  <2>3. e \in Entry
    BY <1>2, <2>1
  <2>4. f.name = e.name /\ [f EXCEPT !.multiplex = FALSE] = f
    BY <1>3, <2>1, <2>3
  <2> HIDE DEF es
  <2> QED
    BY <2>1, <2>2, <2>4
<1> HIDE DEF es
<1> QED
  BY <1>1, <1>4, <1>5

(* Dropping the retired field keeps the others the same ... *)
LEMMA StrippedOthers ==
  ASSUME NEW d \in Doc, NEW u \in Doc, NEW n, SameOthers(d.entries, u.entries, n)
  PROVE  SameOthers(StripRetired(d).entries, StripRetired(u).entries, n)
<1>1. PICK es, fs : es = StripRetired(d).entries /\ fs = StripRetired(u).entries
  OBVIOUS
<1>2. /\ DOMAIN es = DOMAIN d.entries
      /\ \A i \in DOMAIN d.entries : /\ es[i] = [d.entries[i] EXCEPT !.multiplex = FALSE]
                                     /\ es[i].name = d.entries[i].name
  BY <1>1, StrippedPlaces
<1>3. /\ DOMAIN fs = DOMAIN u.entries
      /\ \A i \in DOMAIN u.entries : /\ fs[i] = [u.entries[i] EXCEPT !.multiplex = FALSE]
                                     /\ fs[i].name = u.entries[i].name
  BY <1>1, StrippedPlaces
<1>4. Others(es, n) = Others(d.entries, n) /\ Others(fs, n) = Others(u.entries, n)
  BY <1>2, <1>3 DEF Others
<1>5. PICK place \in [Others(d.entries, n) -> Others(u.entries, n)] :
        /\ \A i \in Others(d.entries, n) : u.entries[place[i]] = d.entries[i]
        /\ \A i, j \in Others(d.entries, n) : i < j => place[i] < place[j]
        /\ \A k \in Others(u.entries, n) : \E i \in Others(d.entries, n) : place[i] = k
  BY DEF SameOthers
<1>6. ASSUME NEW i \in Others(d.entries, n) PROVE fs[place[i]] = es[i]
  <2>1. i \in DOMAIN d.entries /\ place[i] \in DOMAIN u.entries
    BY <1>5 DEF Others
  <2>2. fs[place[i]] = [u.entries[place[i]] EXCEPT !.multiplex = FALSE]
    BY <1>3, <2>1
  <2>3. es[i] = [d.entries[i] EXCEPT !.multiplex = FALSE]
    BY <1>2, <2>1
  <2>4. u.entries[place[i]] = d.entries[i]
    BY <1>5
  <2> QED
    BY <2>2, <2>3, <2>4
<1>7. SameOthers(es, fs, n)
  BY <1>4, <1>5, <1>6 DEF SameOthers
<1> QED
  BY <1>1, <1>7

(* ... and dropping it twice is dropping it once. *)
LEMMA StrippedTwice ==
  ASSUME NEW d \in Doc
  PROVE  StripRetired(StripRetired(d)).entries = StripRetired(d).entries
<1>1. PICK u : u = StripRetired(d)
  OBVIOUS
<1>2. u \in Doc
  BY <1>1, StripKeeps
<1>3. u.entries \in Seq(Entry) /\ \A i \in DOMAIN u.entries :
        [u.entries[i] EXCEPT !.multiplex = FALSE] = u.entries[i]
  BY <1>1, <1>2, StrippedPlaces DEF Doc
<1>4. StripRetired(u).entries = [i \in DOMAIN u.entries |->
                                    [u.entries[i] EXCEPT !.multiplex = FALSE]]
  BY <1>2 DEF StripRetired, Doc
<1>5. StripRetired(u).entries = [i \in DOMAIN u.entries |-> u.entries[i]]
  BY <1>3, <1>4
<1>6. u.entries = [i \in DOMAIN u.entries |-> u.entries[i]]
  BY <1>3
<1> QED
  BY <1>1, <1>5, <1>6

(* set_service leaves the entries of other names. *)
LEMMA SetOthers ==
  ASSUME NEW d \in Doc, NEW req \in Request, NEW u \in SetService(role, req, d)
  PROVE  SameOthers(d.entries, u.entries, req.name)
<1>0. d.entries \in Seq(Entry) /\ u \in Doc
  BY SetKeeps DEF Doc
<1>1. CASE u \in Created(role, req, d)
  <2> DEFINE e == [name |-> req.name,
                   protocol |-> IF req.protocol = Absent THEN "tcp" ELSE req.protocol,
                   host |-> IF req.host = Absent THEN DefaultHost ELSE req.host,
                   port |-> req.port,
                   node_id |-> IF role = "access" THEN req.node_id ELSE Absent,
                   https |-> TRUE, udp |-> NoUdp, multiplex |-> FALSE]
  <2>1. e.name = req.name
    OBVIOUS
  <2>2. u.entries = Append(d.entries, e)
    <3> HIDE DEF e
    <3>1. u = [d EXCEPT !.services = "tables", !.entries = Append(@, e)]
      BY <1>1 DEF Created, e
    <3> QED
      BY <3>1 DEF Doc
  <2>3. e \in Entry
    <3>1. NoUdp \in [UdpField -> Nat \cup {Absent}]
      BY DEF NoUdp
    <3>2. req.port \in 0 .. MaxPort + 1 \cup {Absent}
      BY DocAssumption DEF Request
    <3> QED
      BY <3>1, <3>2, DocAssumption DEF Entry, Request
  <2> HIDE DEF e
  <2> QED
    BY <1>0, <2>1, <2>2, <2>3, AppendedOther
<1>2. CASE u \notin Created(role, req, d)
  <2>1. PICK i \in DOMAIN d.entries : d.entries[i].name = req.name /\ u \in Updated(req, d, i)
    <3>1. PICK i : i = CHOOSE x \in IndexOfName(d, req.name) :
                             \A j \in IndexOfName(d, req.name) : x <= j
      OBVIOUS
    <3>2. IndexOfName(d, req.name) # {} /\ u \in Updated(req, d, i)
      BY <1>2, <3>1 DEF SetService
    <3>3. i \in IndexOfName(d, req.name)
      BY <3>1, <3>2, FirstNamed
    <3> QED
      BY <3>2, <3>3 DEF IndexOfName
  <2>2. PICK e : e = UpdatedEntry(req, d.entries[i])
    OBVIOUS
  <2>3. e.name = req.name
    BY <1>0, <2>1, <2>2 DEF UpdatedEntry, Entry
  <2>4. u = [d EXCEPT !.entries = [d.entries EXCEPT ![i] = e]]
    BY <2>1, <2>2 DEF Updated, Doc
  <2>5. u.entries = [d.entries EXCEPT ![i] = e]
    BY <2>4 DEF Doc
  <2>6. u.entries \in Seq(Entry) /\ Len(u.entries) = Len(d.entries)
    <3>1. DOMAIN u.entries = DOMAIN d.entries
      BY <2>5
    <3>2. u.entries \in Seq(Entry)
      BY <1>0 DEF Doc
    <3> QED
      BY <1>0, <3>1, <3>2
  <2>7. \A j \in DOMAIN d.entries :
           u.entries[j] = d.entries[j]
             \/ (d.entries[j].name = req.name /\ u.entries[j].name = req.name)
    BY <2>1, <2>3, <2>5
  <2> QED
    BY <1>0, <2>6, <2>7, SamePlaces
<1> QED
  BY <1>1, <1>2

(* remove_service leaves the entries of other names. *)
LEMMA RemoveOthers ==
  ASSUME NEW d \in Doc, NEW name, NEW u \in RemoveService(name, d)
  PROVE  SameOthers(d.entries, u.entries, name)
<1>1. PICK i \in DOMAIN d.entries :
        d.entries[i].name = name /\ u = [d EXCEPT !.entries = RemoveAt(d.entries, i)]
  BY FirstNamed DEF RemoveService, IndexOfName, Doc
<1>2. d.entries \in Seq(Entry) /\ i \in 1 .. Len(d.entries)
  BY DEF Doc
<1>3. u.entries = RemoveAt(d.entries, i)
  BY <1>1 DEF Doc
<1> QED
  BY <1>1, <1>2, <1>3, RemovedOther

(* What a command other than an edit makes of a text keeps the entries that  *)
(* it does not name.                                                         *)
LEMMA ResultOthers ==
  ASSUME NEW c \in Commands, NEW t \in Text, NEW u \in Result(role, c, t), NEW n,
         c.kind = "set" => n = c.req.name, c.kind = "rm" => n = c.name
  PROVE  SameOthers(EntriesOf(t), EntriesOf(u), n)
<1>1. c.kind # "edit"
  BY CommandKinds
<1>2. t # Garbage /\ Valid(role, u) /\ \E d \in Edited(role, c, t) : u = StripRetired(d)
  BY <1>1 DEF Result
<1>3. PICK d \in Edited(role, c, t) : u = StripRetired(d)
  BY <1>2
<1>4. OrEmpty(t) \in Doc /\ d \in Doc
  BY <1>2, ReadsAsDoc, EditedKeeps
<1>5. SameOthers(OrEmpty(t).entries, d.entries, n)
  <2>1. CASE c.kind = "set"
    <3>1. d \in SetService(role, c.req, OrEmpty(t)) /\ c.req \in Request
      BY <2>1, CommandKinds DEF Edited
    <3> QED
      BY <1>4, <2>1, <3>1, SetOthers
  <2>2. CASE c.kind = "rm"
    <3>1. d \in RemoveService(c.name, OrEmpty(t))
      BY <2>2 DEF Edited
    <3> QED
      BY <1>4, <2>2, <3>1, RemoveOthers
  <2>3. CASE c.kind \in {"keygen", "run"}
    <3>1. d \in WithKey(OrEmpty(t), c.key) /\ c.key \in Key
      BY <2>3, CommandKinds DEF Edited
    <3>2. d.entries = OrEmpty(t).entries /\ OrEmpty(t).entries \in Seq(Entry)
      BY <1>4, <3>1, WithKeyKeeps DEF Doc
    <3> QED
      BY <3>2, SamePlaces
  <2> QED
    BY <2>1, <2>2, <2>3, CommandKinds
<1>6. SameOthers(StripRetired(OrEmpty(t)).entries, StripRetired(d).entries, n)
  BY <1>4, <1>5, StrippedOthers
<1>7. OrEmpty(u) = u
  BY <1>2 DEF OrEmpty, Valid
<1> QED
  BY <1>3, <1>4, <1>6, <1>7, StrippedTwice DEF EntriesOf

(* No command other than an edit touches the settings of the node besides    *)
(* its identity.                                                             *)
LEMMA ResultSameNode ==
  ASSUME NEW c \in Commands, NEW t \in Text, NEW u \in Result(role, c, t)
  PROVE  SameNode(OrEmpty(t), u)
<1>1. c.kind # "edit"
  BY CommandKinds
<1>2. t # Garbage /\ \E x \in Edited(role, c, t) : u = StripRetired(x)
  BY <1>1 DEF Result
<1>3. PICK d \in Edited(role, c, t) : u = StripRetired(d)
  BY <1>2
<1>4. PICK b \in Doc : b = OrEmpty(t)
  BY <1>2, ReadsAsDoc
<1>5. d \in Doc
  BY <1>2, EditedKeeps
<1>6. SameNode(b, d)
  <2>1. CASE c.kind = "set"
    <3>1. d \in SetService(role, c.req, b)
      BY <1>4, <2>1 DEF Edited
    <3>2. CASE d \in Created(role, c.req, b)
      <4>1. PICK es : d = [b EXCEPT !.services = "tables", !.entries = es]
        BY <3>2 DEF Created
      <4> QED
        BY <4>1 DEF SameNode, Doc
    <3>3. CASE d \notin Created(role, c.req, b)
      <4>1. PICK i : d \in Updated(c.req, b, i)
        BY <3>1, <3>3 DEF SetService
      <4>2. PICK es : d = [b EXCEPT !.entries = es]
        BY <4>1 DEF Updated
      <4> QED
        BY <4>2 DEF SameNode, Doc
    <3> QED
      BY <3>2, <3>3
  <2>2. CASE c.kind = "rm"
    <3>1. d \in RemoveService(c.name, b)
      BY <1>4, <2>2 DEF Edited
    <3>2. PICK es : d = [b EXCEPT !.entries = es]
      BY <3>1 DEF RemoveService
    <3> QED
      BY <3>2 DEF SameNode, Doc
  <2>3. CASE c.kind \in {"keygen", "run"}
    <3>1. d \in WithKey(b, c.key)
      BY <1>4, <2>3 DEF Edited
    <3> QED
      BY <3>1 DEF WithKey, SameNode, Doc
  <2> QED
    BY <2>1, <2>2, <2>3, CommandKinds
<1>7. SameNode(d, u)
  BY <1>3, <1>5 DEF StripRetired, SameNode, Doc
<1> QED
  BY <1>4, <1>6, <1>7 DEF SameNode

(* set_service, remove_service, keygen and persist_generated_key: whoever    *)
(* wrote in between, a command touches its own entry or the identity, and    *)
(* what others stored stays, in its order.                                   *)
THEOREM WritesOnlyItsPartAlways == Spec => WritesOnlyItsPart
<1> DEFINE name(p) == CASE op[p].kind = "set" -> op[p].req.name
                        [] op[p].kind = "rm" -> op[p].name
                        [] OTHER -> "none"
           Part(p) == /\ SameOthers(EntriesOf(file), EntriesOf(file'), name(p))
                      /\ SameNode(OrEmpty(file), file')
                      /\ op[p].kind \in {"set", "rm"} =>
                             file'.secret_key = OrEmpty(file).secret_key
<1>1. Inv /\ [Next]_vars => [\A p \in Proc : Replaces(p) /\ op[p].kind # "edit" => Part(p)]_vars
  <2> SUFFICES ASSUME Inv, Next, NEW p \in Proc, Replaces(p), op[p].kind # "edit"
               PROVE  Part(p)
    OBVIOUS
  <2>1. Rename(p) /\ DecidedOn(p)
    BY ReplacesRenames DEF Inv, Decided, Replaces
  <2>2. CommandOf(p) \in Commands /\ file \in Text
    BY CommandOfKinds DEF Inv, TypeOK
  <2>3. file' \in Result(role, CommandOf(p), file)
    BY <2>1 DEF DecidedOn, Rename
  <2>4. PICK c, n : c = CommandOf(p) /\ n = name(p)
    OBVIOUS
  <2>5. /\ c.kind = op[p].kind
        /\ c.kind = "set" => n = c.req.name
        /\ c.kind = "rm" => n = c.name
    BY <2>4 DEF CommandOf
  <2>6. SameOthers(EntriesOf(file), EntriesOf(file'), n)
    BY <2>2, <2>3, <2>4, <2>5, ResultOthers
  <2>7. ASSUME c.kind \in {"set", "rm"} PROVE file'.secret_key = OrEmpty(file).secret_key
    <3>1. file # Garbage /\ \E d \in Edited(role, c, file) : file' = StripRetired(d)
      BY <2>3, <2>4, <2>7 DEF Result
    <3>2. PICK d \in Edited(role, c, file) : file' = StripRetired(d)
      BY <3>1
    <3>3. d \in Doc /\ d.secret_key = OrEmpty(file).secret_key
      BY <2>2, <2>4, <2>7, <3>1, EditedKeeps
    <3> QED
      BY <3>2, <3>3, StripKeeps
  <2>8. SameNode(OrEmpty(file), file')
    BY <2>2, <2>3, ResultSameNode
  <2> QED
    BY <2>4, <2>5, <2>6, <2>7, <2>8
<1>2. QED BY <1>1, InvAlways, PTL DEF Spec, WritesOnlyItsPart

-----------------------------------------------------------------------------
(* The register *)

(* The abstract module's results are those of the commands here. *)
LEMMA SameResult ==
  ASSUME NEW c, NEW t
  PROVE  Register!Result(role, c, t) = Result(role, c, t)
BY Zenon
DEF Register!Result, Result, Register!Edited, Edited, Register!OrEmpty, OrEmpty,
    Register!EmptyDoc, EmptyDoc, Register!StripRetired, StripRetired, Register!Valid, Valid,
    Register!Validate, Validate, Register!NodeValid, NodeValid, Register!EntryValid,
    EntryValid, Register!EntryTyped, EntryTyped, Register!UdpValid, UdpValid,
    Register!UdpField, UdpField, Register!MaxOf, MaxOf, Register!NoUdp, NoUdp,
    Register!HasKey, HasKey, Register!WithKey, WithKey, Register!SetService, SetService,
    Register!IndexOfName, IndexOfName, Register!Created, Created, Register!Updated, Updated,
    Register!UpdatedEntry, UpdatedEntry, Register!RemoveService, RemoveService,
    Register!RemoveAt, RemoveAt

(* CFG-04: the file is a register.  A rename is the application of its       *)
(* command to the text that is there, because the writer has held the lock   *)
(* since it decided; every other step changes neither the text nor what a    *)
(* power loss may leave, or is the sync or the power loss itself.            *)
THEOREM ActsAsRegisterAlways == Spec => ActsAsRegister
<1>1. Init => Register!Init
  BY DEF Init, Register!Init
<1>2. Inv /\ [Next]_vars => [Register!Next]_<<file, disk>>
  <2> SUFFICES ASSUME Inv, [Next]_vars PROVE Register!Next \/ UNCHANGED <<file, disk>>
    OBVIOUS
  <2>1. CASE UNCHANGED vars
    BY <2>1 DEF vars, shared
  <2>2. CASE PowerLoss
    BY <2>2 DEF PowerLoss, Register!Next, Register!PowerLoss
  <2>3. ASSUME NEW p \in Proc, SyncDir(p) PROVE Register!Next \/ UNCHANGED <<file, disk>>
    BY <2>3 DEF SyncDir, Register!Next, Register!Sync
  <2>4. ASSUME NEW p \in Proc, Rename(p) PROVE Register!Next
    <3>1. DecidedOn(p) /\ file' = text[p] /\ disk' = disk \cup {file'}
      BY <2>4 DEF Inv, Decided, Rename
    <3>2. CASE op[p].kind = "edit"
      <4>1. PICK t \in EditText : file' \in Result(role, EditOf(t), file)
        BY <3>1, <3>2 DEF DecidedOn
      <4>2. Register!Edit(t)
        BY <3>1, <4>1, SameResult DEF Register!Edit, Register!Apply, EditOf
      <4>3. QED BY <4>2 DEF Register!Next
    <3>3. CASE op[p].kind # "edit"
      <4>1. CommandOf(p) \in Commands
        BY <3>3, CommandOfKinds DEF Inv
      <4>2. Register!Apply(CommandOf(p))
        BY <3>1, <3>3, SameResult DEF Register!Apply, DecidedOn
      <4>3. QED BY <4>1, <4>2 DEF Register!Next
    <3>4. QED BY <3>2, <3>3
  <2>5. ASSUME NEW p \in Proc, StepOf(p), ~Rename(p), ~SyncDir(p) PROVE UNCHANGED <<file, disk>>
    BY <2>5
    DEF StepOf, Step, StartSet, StartRm, StartKeygen, StartRun, PrepareEdit, Commit, Acquire,
        Busy, Decide, KeepFile, RejectEdit, WriteFails, ConfirmRotation, Editor, Kill, shared
  <2>6. QED BY <2>1, <2>2, <2>3, <2>4, <2>5 DEF Next, StepOf
<1>3. QED BY <1>1, <1>2, InvAlways, PTL DEF Spec, ActsAsRegister, Register!Spec

=============================================================================
