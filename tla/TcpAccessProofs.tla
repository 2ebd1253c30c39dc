-------------------------- MODULE TcpAccessProofs ---------------------------
(***************************************************************************)
(* Proofs about TcpAccess for any finite set of clients and any number of  *)
(* connections.  Between two awaits a client's task relies on the dial     *)
(* lock, and on the numbering of connections for what it remembers of one  *)
(* that failed: nobody else can have taken or cached a connection that is  *)
(* still being stored, and a connection that failed never returns.         *)
(***************************************************************************)
EXTENDS TcpAccess, AccessReport, TLAPS, FiniteSetTheorems, SequenceTheorems,
        WellFoundedInduction

(* A connection between its dial and its store is the latest, and its dialer *)
(* alone has it: no other task holds it, and nobody saw it fail.             *)
LatestIsPrivate ==
    /\ \A c \in Client : hold[c] <= dialled /\ failed[c] <= dialled
    /\ \A d \in Client : phase[d] = "store" =>
          /\ hold[d] = dialled
          /\ \A c \in Client : failed[c] < dialled /\ (c # d => hold[c] < dialled)

(* What open_bi failed on is dead for good, and is what the task evicts; a   *)
(* task that was not accepted has seen no failure.                           *)
FailedIsDead ==
    \A c \in Client :
        /\ phase[c] = "idle" => failed[c] = NoConn
        /\ failed[c] # NoConn => failed[c] \notin alive
        /\ phase[c] = "evict" => hold[c] = failed[c] /\ failed[c] # NoConn

(* After the eviction the failed connection is not cached again, and the     *)
(* task does not get it again.                                               *)
FailedIsGone ==
    \A c \in Client : failed[c] # NoConn =>
        /\ phase[c] \in {"lock", "dial", "store", "report", "open"} \cup Channel =>
              cached # failed[c]
        /\ phase[c] \in {"store", "report", "open"} \cup Channel => hold[c] # failed[c]

(* Client tasks run from the bind of the listener until it has been joined,  *)
(* and the auxiliary tasks not past its end.                                 *)
TasksOfListener ==
    /\ listener = "binding" => \A c \in Client : phase[c] = "idle"
    /\ listener \in {"joined", "ended"} => \A c \in Client : phase[c] \in {"idle", "ended"}
    /\ listener = "ended" => aux = {}

(* A task that has not ended has no result. *)
ResultAtEnd == \A c \in Client : phase[c] # "ended" => result[c] = "none"

Inv ==
    /\ TypeOK /\ OneConnection /\ AuxOfOneConnection
    /\ LatestIsPrivate /\ FailedIsDead /\ FailedIsGone
    /\ TasksOfListener /\ ResultAtEnd

-----------------------------------------------------------------------------
(* Initially no task runs and no connection exists. *)
LEMMA InitInv == Init => Inv
<1> SUFFICES ASSUME Init PROVE Inv
  OBVIOUS
<1>0. 0 \in 0 .. MaxConn
  BY AccessAssumption
<1>1. TypeOK
  <2>1. /\ listener \in ListenerState /\ phase \in [Client -> Phase]
        /\ hold \in [Client -> 0 .. MaxConn] /\ failed \in [Client -> 0 .. MaxConn]
        /\ result \in [Client -> Result]
    BY <1>0 DEF Init, ListenerState, Phase, Result, NoConn
  <2>2. /\ dial_lock \in Client \cup {NoClient} /\ rendering \in BOOLEAN
        /\ stop \in BOOLEAN /\ expired \in BOOLEAN
        /\ aux \subseteq Task /\ alive \subseteq 1 .. dialled
    BY DEF Init
  <2>3. dialled \in 0 .. MaxConn /\ cached \in 0 .. dialled
    BY <1>0 DEF Init, NoConn
  <2>4. \A c \in Client : phase[c] = "idle" /\ dial_lock # c
    BY AccessAssumption DEF Init
  <2>5. QED BY <2>1, <2>2, <2>3, <2>4 DEF TypeOK
<1>2. OneConnection /\ AuxOfOneConnection /\ TasksOfListener /\ ResultAtEnd
  BY DEF Init, OneConnection, AuxOfOneConnection, TasksOfListener, ResultAtEnd, NoConn
<1>3. LatestIsPrivate /\ FailedIsDead /\ FailedIsGone
  BY DEF Init, LatestIsPrivate, FailedIsDead, FailedIsGone, NoConn, Channel
<1>4. QED BY <1>1, <1>2, <1>3 DEF Inv

(* Only one task at a time is between taking the dial lock and releasing it. *)
LEMMA OneDialer ==
  ASSUME TypeOK, NEW c \in Client, NEW d \in Client,
         phase[c] \in {"dial", "store", "report"}, phase[d] \in {"dial", "store", "report"}
  PROVE  c = d
BY DEF TypeOK

(* A task that ends at one of its awaits ends with an answer or an error. *)
EndStep(c) ==
    \/ OpenFailsAgain(c) \/ Deadline(c) \/ StopClient(c)
    \/ PipeFails(c) \/ Acknowledged(c) \/ NotAcknowledged(c)

(* A move of a task that touches nothing but its place. *)
MoveStep(c) == Accept(c) \/ OpenSucceeds(c) \/ PipeEnds(c)

(* The listener's own moves. *)
ListenStep == Bind \/ BindFails \/ StopListening \/ Drained

(* The steps that end a client's connection have this in common. *)
LEMMA EndStepEnds ==
  ASSUME NEW c \in Client, EndStep(c)
  PROVE  /\ phase[c] \in Connecting \cup Channel
         /\ \E r \in {"ok", "error"} : End(c, r)
BY DEF EndStep, OpenFailsAgain, Deadline, StopClient, PipeFails, Acknowledged,
       NotAcknowledged, Running, Connecting, Channel

(* The steps of Next, grouped by what they touch. *)
LEMMA NextCases ==
  ASSUME Next
  PROVE  \/ \E c \in Client : \/ MoveStep(c) \/ EndStep(c) \/ TakeLock(c) \/ DialSucceeds(c)
                              \/ Store(c) \/ Report(c) \/ OpenFails(c) \/ Evict(c)
         \/ ListenStep \/ (expired /\ AbortAll) \/ StopAuxiliary
         \/ \E k \in ConnId : ConnLost(k)
         \/ \E t \in Task : AuxEnds(t)
         \/ Render \/ Stop \/ GraceOver
BY DEF Next, ClientStep, ListenerStep, DrainTimeout, MoveStep, EndStep, ListenStep

(* Each step keeps the types and the meaning of the dial lock. *)
LEMMA NextType ==
  ASSUME TypeOK, Next
  PROVE  TypeOK'
<1> USE AccessAssumption DEF TypeOK, Goto, Running
<1>1. ASSUME NEW c \in Client, MoveStep(c) PROVE TypeOK'
  BY <1>1 DEF MoveStep, Accept, OpenSucceeds, PipeEnds, taskVars, dialVars, Phase, Connecting,
              Channel
<1>2. ASSUME NEW c \in Client, EndStep(c) PROVE TypeOK'
  <2>1. PICK r \in {"ok", "error"} : End(c, r)
    BY <1>2, EndStepEnds
  <2>2. phase' = [phase EXCEPT ![c] = "ended"] /\ result' \in [Client -> Result]
    BY <2>1 DEF End, Result
  <2>3. dial_lock' = IF dial_lock = c THEN NoClient ELSE dial_lock
    BY <2>1 DEF End
  <2>4. alive' \subseteq alive
    BY <2>1 DEF End
  <2>5. UNCHANGED <<listener, rendering, stop, expired, hold, failed, cached, aux, dialled>>
    BY <2>1 DEF End
  <2>6. QED BY <2>2, <2>3, <2>4, <2>5 DEF Phase
<1>3. ASSUME NEW c \in Client, TakeLock(c) PROVE TypeOK'
  <2>1. cached \in 0 .. MaxConn
    OBVIOUS
  <2>2. QED BY <1>3, <2>1 DEF TakeLock, dialVars, Phase, Connecting, NoConn
<1>4. ASSUME NEW c \in Client, DialSucceeds(c) PROVE TypeOK'
  BY <1>4 DEF DialSucceeds, Phase, Connecting
<1>5. ASSUME NEW c \in Client, Store(c) PROVE TypeOK'
  <2>1. hold[c] \in 1 .. dialled /\ hold[c] \in ConnId
    BY <1>5 DEF Store, ConnId
  <2>2. QED BY <1>5, <2>1 DEF Store, Phase, Connecting, Task
<1>6. ASSUME NEW c \in Client, Report(c) PROVE TypeOK'
  <2>1. hold[c] \in 1 .. dialled /\ hold[c] \in ConnId
    BY <1>6 DEF Report, ConnId
  <2>2. aux' \subseteq Task
    BY <1>6, <2>1 DEF Report, Task
  <2>3. QED BY <1>6, <2>1, <2>2 DEF Report, Phase, Connecting
<1>7. ASSUME NEW c \in Client, OpenFails(c) PROVE TypeOK'
  BY <1>7 DEF OpenFails, dialVars, Phase, Connecting
<1>8. ASSUME NEW c \in Client, Evict(c) PROVE TypeOK'
  BY <1>8 DEF Evict, Invalidate, Phase, Connecting, NoConn
<1>9. ASSUME ListenStep PROVE TypeOK'
  BY <1>9 DEF ListenStep, Bind, BindFails, StopListening, Drained, Listen, ListenerState,
              taskVars, dialVars
<1>10. ASSUME AbortAll PROVE TypeOK'
  BY <1>10 DEF AbortAll, ListenerState, Phase, Result
<1>11. ASSUME StopAuxiliary PROVE TypeOK'
  BY <1>11 DEF StopAuxiliary, ListenerState, taskVars
<1>12. ASSUME NEW k \in ConnId, ConnLost(k) PROVE TypeOK'
  BY <1>12 DEF ConnLost, taskVars
<1>13. ASSUME NEW t \in Task, AuxEnds(t) PROVE TypeOK'
  BY <1>13 DEF AuxEnds, taskVars
<1>14. ASSUME Render \/ Stop \/ GraceOver PROVE TypeOK'
  BY <1>14 DEF Render, Stop, GraceOver, taskVars, dialVars
<1>15. QED
  BY <1>1, <1>2, <1>3, <1>4, <1>5, <1>6, <1>7, <1>8, <1>9, <1>10, <1>11, <1>12, <1>13,
     <1>14, NextCases

(* Each step keeps one connection for all clients, and its tasks only. *)
LEMMA NextOneConnection ==
  ASSUME TypeOK, OneConnection, AuxOfOneConnection, FailedIsDead, Next
  PROVE  OneConnection' /\ AuxOfOneConnection'
<1> USE AccessAssumption DEF TypeOK, OneConnection, AuxOfOneConnection, Goto, Running, NoConn
<1>1. ASSUME NEW c \in Client, MoveStep(c) PROVE OneConnection' /\ AuxOfOneConnection'
  <2>1. UNCHANGED <<hold, cached, aux, alive>>
    BY <1>1 DEF MoveStep, Accept, OpenSucceeds, PipeEnds, dialVars
  <2>2. \A d \in Client : phase'[d] \in {"dial", "store"} \/ phase[d] \in {"dial", "store"} =>
          phase'[d] = phase[d]
    BY <1>1 DEF MoveStep, Accept, OpenSucceeds, PipeEnds
  <2>3. QED BY <2>1, <2>2
<1>2. ASSUME NEW c \in Client, EndStep(c) PROVE OneConnection' /\ AuxOfOneConnection'
  <2>1. PICK r \in {"ok", "error"} : End(c, r)
    BY <1>2, EndStepEnds
  <2>2. /\ phase' = [phase EXCEPT ![c] = "ended"]
        /\ alive' = IF phase[c] = "store" THEN alive \ {hold[c]} ELSE alive
        /\ UNCHANGED <<hold, cached, aux>>
    BY <2>1 DEF End
  <2>3. QED BY <2>2
<1>3. ASSUME NEW c \in Client, TakeLock(c) PROVE OneConnection' /\ AuxOfOneConnection'
  <2>1. /\ UNCHANGED <<cached, aux, alive>>
        /\ phase' = [phase EXCEPT ![c] = IF cached = NoConn THEN "dial" ELSE "open"]
        /\ \A d \in Client : d # c => hold'[d] = hold[d]
        /\ phase[c] = "lock"
    BY <1>3 DEF TakeLock, dialVars
  <2>2. \A d \in Client : phase[d] = "store" => phase'[d] = "store" /\ hold'[d] = hold[d]
    BY <2>1
  <2>3. \A d \in Client : phase'[d] \in {"dial", "store"} => cached = NoConn
    BY <2>1
  <2>4. OneConnection'
    <3>1. \A k \in alive' : k = cached' \/ \E d \in Client : phase'[d] = "store" /\ hold'[d] = k
      BY <2>1, <2>2
    <3> QED
      BY <2>1, <2>3, <3>1
  <2>5. AuxOfOneConnection'
    BY <2>1
  <2>6. QED BY <2>4, <2>5
<1>4. ASSUME NEW c \in Client, DialSucceeds(c) PROVE OneConnection' /\ AuxOfOneConnection'
  <2>1. \A d \in Client : d # c => phase[d] # "store"
    BY <1>4 DEF DialSucceeds
  <2>2. QED BY <1>4, <2>1 DEF DialSucceeds
<1>5. ASSUME NEW c \in Client, Store(c) PROVE OneConnection' /\ AuxOfOneConnection'
  <2>1. \A d \in Client : d # c => phase[d] \notin {"dial", "store"}
    BY <1>5 DEF Store
  <2>2. cached = NoConn /\ \A k \in alive : k = hold[c]
    BY <1>5, <2>1 DEF Store
  <2>3. OneConnection'
    BY <1>5, <2>1, <2>2 DEF Store
  <2>4. AuxOfOneConnection'
    BY <1>5 DEF Store
  <2>5. QED BY <2>3, <2>4
<1>6. ASSUME NEW c \in Client, Report(c) PROVE OneConnection' /\ AuxOfOneConnection'
  BY <1>6 DEF Report
<1>7. ASSUME NEW c \in Client, OpenFails(c) PROVE OneConnection' /\ AuxOfOneConnection'
  BY <1>7 DEF OpenFails, dialVars
<1>8. ASSUME NEW c \in Client, Evict(c) PROVE OneConnection' /\ AuxOfOneConnection'
  <2>1. hold[c] \notin alive
    BY <1>8 DEF Evict, FailedIsDead
  <2>2. QED BY <1>8, <2>1 DEF Evict, Invalidate
<1>9. ASSUME ListenStep \/ Render \/ Stop \/ GraceOver PROVE OneConnection' /\ AuxOfOneConnection'
  BY <1>9 DEF ListenStep, Bind, BindFails, StopListening, Drained, Listen, Render, Stop,
              GraceOver, taskVars, dialVars
<1>10. ASSUME AbortAll PROVE OneConnection' /\ AuxOfOneConnection'
  BY <1>10 DEF AbortAll
<1>11. ASSUME StopAuxiliary PROVE OneConnection' /\ AuxOfOneConnection'
  BY <1>11 DEF StopAuxiliary, taskVars
<1>12. ASSUME NEW k \in ConnId, ConnLost(k) PROVE OneConnection' /\ AuxOfOneConnection'
  BY <1>12 DEF ConnLost, taskVars
<1>13. ASSUME NEW t \in Task, AuxEnds(t) PROVE OneConnection' /\ AuxOfOneConnection'
  BY <1>13 DEF AuxEnds, taskVars
<1>14. QED
  BY <1>1, <1>2, <1>3, <1>4, <1>5, <1>6, <1>7, <1>8, <1>9, <1>10, <1>11, <1>12, <1>13, NextCases

(* Each step keeps the latest connection private until it is stored. *)
LEMMA NextLatestIsPrivate ==
  ASSUME TypeOK, LatestIsPrivate, Next
  PROVE  LatestIsPrivate'
<1> USE AccessAssumption DEF TypeOK, LatestIsPrivate, Goto, Running, NoConn
<1>1. ASSUME NEW c \in Client, MoveStep(c) \/ Store(c) \/ Report(c) \/ Evict(c)
      PROVE  LatestIsPrivate'
  BY <1>1 DEF MoveStep, Accept, OpenSucceeds, PipeEnds, Store, Report, Evict, dialVars
<1>2. ASSUME NEW c \in Client, EndStep(c) PROVE LatestIsPrivate'
  <2>1. phase' = [phase EXCEPT ![c] = "ended"] /\ UNCHANGED <<hold, failed, dialled>>
    BY <1>2, EndStepEnds DEF End
  <2>2. QED BY <2>1
<1>3. ASSUME NEW c \in Client, TakeLock(c) PROVE LatestIsPrivate'
  <2>1. \A d \in Client : phase[d] # "store"
    BY <1>3 DEF TakeLock
  <2>2. QED BY <1>3, <2>1 DEF TakeLock, dialVars
<1>4. ASSUME NEW c \in Client, DialSucceeds(c) PROVE LatestIsPrivate'
  <2>1. \A d \in Client : d # c => phase[d] # "store"
    BY <1>4 DEF DialSucceeds
  <2>2. QED BY <1>4, <2>1 DEF DialSucceeds
<1>5. ASSUME NEW c \in Client, OpenFails(c) PROVE LatestIsPrivate'
  BY <1>5 DEF OpenFails, dialVars
<1>6. ASSUME ListenStep \/ Render \/ Stop \/ GraceOver PROVE LatestIsPrivate'
  BY <1>6 DEF ListenStep, Bind, BindFails, StopListening, Drained, Listen, Render, Stop,
              GraceOver, taskVars, dialVars
<1>7. ASSUME AbortAll \/ StopAuxiliary PROVE LatestIsPrivate'
  BY <1>7 DEF AbortAll, StopAuxiliary, taskVars
<1>8. ASSUME \/ \E k \in ConnId : ConnLost(k)
             \/ \E t \in Task : AuxEnds(t)
      PROVE  LatestIsPrivate'
  BY <1>8 DEF ConnLost, AuxEnds, taskVars
<1>9. QED
  BY <1>1, <1>2, <1>3, <1>4, <1>5, <1>6, <1>7, <1>8, NextCases

(* Each step leaves a failed connection dead, and uncached once evicted. *)
LEMMA NextFailed ==
  ASSUME TypeOK, LatestIsPrivate, FailedIsDead, FailedIsGone, Next
  PROVE  FailedIsDead' /\ FailedIsGone'
<1> USE AccessAssumption DEF TypeOK, FailedIsDead, FailedIsGone, Goto, Running, NoConn, Channel
<1>1. ASSUME NEW c \in Client, MoveStep(c) PROVE FailedIsDead' /\ FailedIsGone'
  <2>1. ASSUME Accept(c) PROVE failed[c] # NoConn => cached # failed[c]
    BY <2>1 DEF Accept
  <2>2. QED
    BY <1>1, <2>1 DEF MoveStep, Accept, OpenSucceeds, PipeEnds, dialVars
<1>2. ASSUME NEW c \in Client, EndStep(c) PROVE FailedIsDead' /\ FailedIsGone'
  <2>1. /\ phase' = [phase EXCEPT ![c] = "ended"]
        /\ alive' \subseteq alive
        /\ UNCHANGED <<hold, failed, cached>>
    BY <1>2, EndStepEnds DEF End
  <2>2. QED BY <2>1
<1>3. ASSUME NEW c \in Client, TakeLock(c) PROVE FailedIsDead' /\ FailedIsGone'
  BY <1>3 DEF TakeLock, dialVars
<1>4. ASSUME NEW c \in Client, DialSucceeds(c) PROVE FailedIsDead' /\ FailedIsGone'
  BY <1>4 DEF DialSucceeds, LatestIsPrivate
<1>5. ASSUME NEW c \in Client, Store(c) PROVE FailedIsDead' /\ FailedIsGone'
  BY <1>5 DEF Store, LatestIsPrivate
<1>6. ASSUME NEW c \in Client, Report(c) PROVE FailedIsDead' /\ FailedIsGone'
  BY <1>6 DEF Report
<1>7. ASSUME NEW c \in Client, OpenFails(c) PROVE FailedIsDead' /\ FailedIsGone'
  BY <1>7 DEF OpenFails, dialVars
<1>8. ASSUME NEW c \in Client, Evict(c) PROVE FailedIsDead' /\ FailedIsGone'
  BY <1>8 DEF Evict, Invalidate
<1>9. ASSUME ListenStep \/ Render \/ Stop \/ GraceOver PROVE FailedIsDead' /\ FailedIsGone'
  BY <1>9 DEF ListenStep, Bind, BindFails, StopListening, Drained, Listen, Render, Stop,
              GraceOver, taskVars, dialVars
<1>10. ASSUME AbortAll \/ StopAuxiliary PROVE FailedIsDead' /\ FailedIsGone'
  BY <1>10 DEF AbortAll, StopAuxiliary, taskVars
<1>11. ASSUME \/ \E k \in ConnId : ConnLost(k)
              \/ \E t \in Task : AuxEnds(t)
       PROVE  FailedIsDead' /\ FailedIsGone'
  BY <1>11 DEF ConnLost, AuxEnds, taskVars
<1>12. QED
  BY <1>1, <1>2, <1>3, <1>4, <1>5, <1>6, <1>7, <1>8, <1>9, <1>10, <1>11, NextCases

(* Each step leaves client tasks only to a listener that is there for them,  *)
(* and a result only to a task that has ended.                               *)
LEMMA NextTasksOfListener ==
  ASSUME TypeOK, TasksOfListener, ResultAtEnd, Next
  PROVE  TasksOfListener' /\ ResultAtEnd'
<1> USE AccessAssumption DEF TypeOK, TasksOfListener, ResultAtEnd, Goto, Running, NoConn
<1>1. ASSUME NEW c \in Client, Accept(c) PROVE TasksOfListener' /\ ResultAtEnd'
  BY <1>1 DEF Accept, dialVars
<1>2. ASSUME NEW c \in Client, OpenSucceeds(c) \/ PipeEnds(c) \/ TakeLock(c) \/ DialSucceeds(c)
                               \/ OpenFails(c) \/ Evict(c)
      PROVE  TasksOfListener' /\ ResultAtEnd'
  <2>1. phase[c] \notin {"idle", "ended"} /\ UNCHANGED <<listener, result, aux>>
        /\ \A d \in Client : d # c => phase'[d] = phase[d]
    BY <1>2 DEF OpenSucceeds, PipeEnds, TakeLock, DialSucceeds, OpenFails, Evict, dialVars
  <2>2. QED BY <2>1
<1>3. ASSUME NEW c \in Client, Store(c) \/ Report(c) PROVE TasksOfListener' /\ ResultAtEnd'
  <2>1. phase[c] \notin {"idle", "ended"} /\ UNCHANGED <<listener, result>>
        /\ \A d \in Client : d # c => phase'[d] = phase[d]
    BY <1>3 DEF Store, Report
  <2>2. QED BY <2>1
<1>4. ASSUME NEW c \in Client, EndStep(c) PROVE TasksOfListener' /\ ResultAtEnd'
  <2>1. /\ phase' = [phase EXCEPT ![c] = "ended"] /\ UNCHANGED <<listener, aux>>
        /\ \A d \in Client : d # c => result'[d] = result[d]
    BY <1>4, EndStepEnds DEF End
  <2>2. phase[c] # "idle"
    BY <1>4, EndStepEnds DEF Connecting, Channel
  <2>3. QED BY <2>1, <2>2
<1>5. ASSUME ListenStep PROVE TasksOfListener' /\ ResultAtEnd'
  BY <1>5 DEF ListenStep, Bind, BindFails, StopListening, Drained, Listen, taskVars, dialVars
<1>6. ASSUME AbortAll PROVE TasksOfListener' /\ ResultAtEnd'
  BY <1>6 DEF AbortAll
<1>7. ASSUME StopAuxiliary \/ Render \/ Stop \/ GraceOver PROVE TasksOfListener' /\ ResultAtEnd'
  BY <1>7 DEF StopAuxiliary, Render, Stop, GraceOver, taskVars, dialVars
<1>8. ASSUME \/ \E k \in ConnId : ConnLost(k)
             \/ \E t \in Task : AuxEnds(t)
      PROVE  TasksOfListener' /\ ResultAtEnd'
  BY <1>8 DEF ConnLost, AuxEnds, taskVars
<1>9. QED
  BY <1>1, <1>2, <1>3, <1>4, <1>5, <1>6, <1>7, <1>8, NextCases DEF MoveStep

-----------------------------------------------------------------------------
(* The inductive invariant and the theorems *)

(* Every step keeps the inductive invariant. *)
LEMMA NextInv == Inv /\ [Next]_vars => Inv'
<1> SUFFICES ASSUME Inv, [Next]_vars PROVE Inv'
  OBVIOUS
<1>1. CASE Next
  BY <1>1, NextType, NextOneConnection, NextLatestIsPrivate, NextFailed, NextTasksOfListener
  DEF Inv
<1>2. CASE UNCHANGED vars
  <2> USE <1>2 DEF vars, taskVars, dialVars
  <2>1. TypeOK' /\ TasksOfListener' /\ ResultAtEnd'
    BY DEF Inv, TypeOK, TasksOfListener, ResultAtEnd
  <2>2. OneConnection' /\ AuxOfOneConnection'
    BY DEF Inv, OneConnection, AuxOfOneConnection
  <2>3. LatestIsPrivate' /\ FailedIsDead' /\ FailedIsGone'
    BY DEF Inv, LatestIsPrivate, FailedIsDead, FailedIsGone
  <2>4. QED BY <2>1, <2>2, <2>3 DEF Inv
<1>3. QED BY <1>1, <1>2

(* The invariant holds in every reachable state. *)
THEOREM InvAlways == Spec => []Inv
BY InitInv, NextInv, PTL DEF Spec

(* The clients of a service share one connection and its tasks through every *)
(* loss, redial, deadline and cancellation, and nothing of them outlives the *)
(* listener.                                                                 *)
THEOREM NothingOrphanedAlways == Spec => []NothingOrphaned
<1>1. Inv => NothingOrphaned
  <2> SUFFICES ASSUME Inv PROVE NothingOrphaned
    OBVIOUS
  <2>1. EndedIsQuiet
    BY AccessAssumption DEF Inv, TasksOfListener, EndedIsQuiet, TypeOK
  <2>2. QED BY <2>1 DEF Inv, NothingOrphaned
<1>2. QED BY <1>1, InvAlways, PTL

(* The retry of a failed open_bi is on another connection, and the failed    *)
(* one is dead.                                                              *)
THEOREM RetryOnFreshAlways == Spec => []RetryOnFresh
<1>1. Inv => RetryOnFresh
  BY DEF Inv, FailedIsGone, FailedIsDead, RetryOnFresh
<1>2. QED BY <1>1, InvAlways, PTL

(* What leaves the dialer's cache is dead: a client that comes late with a   *)
(* connection that failed never evicts its healthy successor.                *)
THEOREM HealthyNotEvictedAlways == Spec => HealthyNotEvicted
<1> DEFINE Kept == cached # NoConn /\ cached' # cached => cached \notin alive
<1>1. Inv /\ [Next]_vars => [Kept]_vars
  <2> SUFFICES ASSUME Inv, Next PROVE Kept
    OBVIOUS
  <2>1. ASSUME NEW c \in Client, Evict(c) PROVE Kept
    <3>1. phase[c] = "evict" /\ (cached' # cached => cached = hold[c])
      BY <2>1 DEF Evict, Invalidate, Running
    <3>2. hold[c] \notin alive
      BY <3>1 DEF Inv, FailedIsDead
    <3>3. QED BY <3>1, <3>2
  <2>2. ASSUME NEW c \in Client, Store(c) PROVE Kept
    BY <2>2 DEF Store, Running, Inv, OneConnection
  <2>3. ASSUME NEW c \in Client, EndStep(c) PROVE cached' = cached
    BY <2>3, EndStepEnds DEF End
  <2>4. ASSUME NEW c \in Client, \/ MoveStep(c) \/ TakeLock(c) \/ DialSucceeds(c)
                                 \/ Report(c) \/ OpenFails(c)
        PROVE  cached' = cached
    BY <2>4 DEF MoveStep, Accept, OpenSucceeds, PipeEnds, TakeLock, DialSucceeds, Report,
                OpenFails, dialVars
  <2>5. ASSUME \/ ListenStep \/ AbortAll \/ StopAuxiliary \/ Render \/ Stop \/ GraceOver
               \/ \E k \in ConnId : ConnLost(k)
               \/ \E t \in Task : AuxEnds(t)
        PROVE  cached' = cached
    BY <2>5 DEF ListenStep, Bind, BindFails, StopListening, Drained, Listen, AbortAll,
                StopAuxiliary, Render, Stop, GraceOver, ConnLost, AuxEnds, dialVars
  <2>6. QED BY <2>1, <2>2, <2>3, <2>4, <2>5, NextCases
<1>2. QED BY <1>1, InvAlways, PTL DEF Spec, HealthyNotEvicted

-----------------------------------------------------------------------------
(***************************************************************************)
(* What the service tells of its connection: proofs about AccessReport for *)
(* any paths iroh may know, any times at which an attempt may fail and any *)
(* number of moves, dials and failed saves. A row of a report is in the    *)
(* strict total order of the sort, so its paths decide it; where the dial  *)
(* is decides when it can be there.                                        *)
(***************************************************************************)
(* The kind of a known path is one of three, and its address a number. *)
LEMMA KnownPath ==
    ASSUME ReportConstants, NEW S \in SUBSET Cand, NEW x \in Known(S)
    PROVE  /\ x.kind \in {"relay", "direct", "custom"} /\ x.addr \in Nat /\ x.active \in BOOLEAN
           /\ x = [kind |-> x.kind, addr |-> x.addr, active |-> x.active]
           /\ [kind |-> x.kind, addr |-> x.addr] \in S
<1>1. PICK c \in S, used \in BOOLEAN : x = Path(c, used)
  BY DEF Known
<1>2. c \in [kind : {"relay", "direct", "custom"}, addr : Nat]
  BY DEF ReportConstants
<1>3. c = [kind |-> c.kind, addr |-> c.addr]
  BY <1>2
<1> QED
  BY <1>1, <1>2, <1>3 DEF Path

(* The comparator of the sort is a strict total order on reportable paths. *)
LEMMA BeforeOrders ==
    ASSUME ReportConstants,
           NEW a \in Known({c \in Cand : Reportable(c)}),
           NEW b \in Known({c \in Cand : Reportable(c)})
    PROVE  /\ a # b => Before(a, b) \/ Before(b, a)
           /\ ~(Before(a, b) /\ Before(b, a))
<1> DEFINE S == {c \in Cand : Reportable(c)}
<1>0. S \in SUBSET Cand /\ \A c \in S : c.kind \in {"relay", "direct"}
  BY DEF Reportable
<1>1. /\ a.kind \in {"relay", "direct"} /\ a.addr \in Nat /\ a.active \in BOOLEAN
      /\ a = [kind |-> a.kind, addr |-> a.addr, active |-> a.active]
  <2>1. [kind |-> a.kind, addr |-> a.addr] \in S
    BY <1>0, KnownPath
  <2> QED
    BY <1>0, <2>1, KnownPath
<1>2. /\ b.kind \in {"relay", "direct"} /\ b.addr \in Nat /\ b.active \in BOOLEAN
      /\ b = [kind |-> b.kind, addr |-> b.addr, active |-> b.active]
  <2>1. [kind |-> b.kind, addr |-> b.addr] \in S
    BY <1>0, KnownPath
  <2> QED
    BY <1>0, <2>1, KnownPath
<1>3. KindOrder("relay") = 1 /\ KindOrder("direct") = 2
  BY DEF KindOrder
<1>4. a.kind = b.kind \/ KindOrder(a.kind) < KindOrder(b.kind)
                      \/ KindOrder(b.kind) < KindOrder(a.kind)
  BY <1>1, <1>2, <1>3
<1>5. a # b => a.kind # b.kind \/ a.addr # b.addr \/ a.active # b.active
  BY <1>1, <1>2
<1>6. KindOrder(a.kind) \in Nat /\ KindOrder(b.kind) \in Nat
  BY <1>1, <1>2, <1>3
<1>7. a # b => Before(a, b) \/ Before(b, a)
  BY <1>1, <1>2, <1>4, <1>5 DEF Before
<1>8. ~(Before(a, b) /\ Before(b, a))
  BY <1>1, <1>2, <1>6 DEF Before
<1> QED
  BY <1>7, <1>8

(* A path of a row has one place in it. *)
LEMMA RowPlaces ==
    ASSUME ReportConstants, NEW row \in Rows, NEW m \in DOMAIN row, NEW n \in DOMAIN row,
           row[m] = row[n]
    PROVE  m = n
<1> DEFINE K == Known({c \in Cand : Reportable(c)})
<1>1. row \in Seq(K) /\ \A i, j \in DOMAIN row : i < j => Before(row[i], row[j])
  BY DEF Rows
<1>2. DOMAIN row = 1 .. Len(row) /\ Len(row) \in Nat /\ row[m] \in K
  BY <1>1, LenProperties, ElementOfSeq
<1>3. ~Before(row[m], row[m])
  BY <1>2, BeforeOrders
<1> QED
  BY <1>1, <1>2, <1>3

(* A nonempty set of numbers has a least one. *)
LEMMA LeastNumber ==
    ASSUME NEW T \in SUBSET Nat, T # {}
    PROVE  \E x \in T : \A y \in T : x <= y
<1>1. PICK x \in T : \A y \in T : ~(<<y, x>> \in OpToRel(<, Nat))
  BY NatLessThanWellFounded, WFMin
<1>2. \A y \in T : ~(y < x)
  BY <1>1 DEF OpToRel
<1> QED
  BY <1>2

(* A sequence in the order R of its elements, and what R has to be. *)
Chain(row, R) == \A m, n \in DOMAIN row : m < n => <<row[m], row[n]>> \in R
Asymmetric(R, K) == \A a, b \in K : <<a, b>> \in R => <<b, a>> \notin R

(* An element of an ordered sequence has one place in it. *)
LEMMA ChainPlaces ==
    ASSUME NEW K, NEW R, Asymmetric(R, K), NEW row \in Seq(K), Chain(row, R),
           NEW m \in DOMAIN row, NEW n \in DOMAIN row, row[m] = row[n]
    PROVE  m = n
<1>1. DOMAIN row = 1 .. Len(row) /\ Len(row) \in Nat /\ row[m] \in K
  BY LenProperties, ElementOfSeq
<1>2. <<row[m], row[m]>> \notin R
  BY <1>1 DEF Asymmetric
<1>3. ~(m < n) /\ ~(n < m)
  BY <1>2 DEF Chain
<1>4. m \in Nat /\ n \in Nat
  BY <1>1
<1> QED
  BY <1>3, <1>4

(* Ordered sequences of the same elements agree wherever both have a place,  *)
(* since the first place where they differ would put each of two elements    *)
(* before the other.                                                         *)
LEMMA ChainsAgree ==
    ASSUME NEW K, NEW R, Asymmetric(R, K), NEW r \in Seq(K), NEW s \in Seq(K),
           Chain(r, R), Chain(s, R), ToSet(r) = ToSet(s)
    PROVE  \A n \in DOMAIN r \cap DOMAIN s : r[n] = s[n]
<1> DEFINE T == {n \in DOMAIN r \cap DOMAIN s : r[n] # s[n]}
<1>2. /\ DOMAIN r = 1 .. Len(r) /\ Len(r) \in Nat /\ \A i \in DOMAIN r : r[i] \in K
      /\ DOMAIN s = 1 .. Len(s) /\ Len(s) \in Nat /\ \A i \in DOMAIN s : s[i] \in K
  BY LenProperties, ElementOfSeq
<1>3. SUFFICES ASSUME T # {} PROVE FALSE
  OBVIOUS
<1>4. T \in SUBSET Nat
  BY <1>2
<1>5. PICK n \in T : \A y \in T : n <= y
  BY <1>3, <1>4, LeastNumber
<1>6. \A i \in 1 .. n - 1 : i \in DOMAIN r /\ i \in DOMAIN s /\ r[i] = s[i]
  BY <1>2, <1>5
<1>7. <<s[n], r[n]>> \in R
  <2>1. PICK i \in DOMAIN s : s[i] = r[n]
    BY <1>5 DEF ToSet
  <2>2. i # n /\ i \notin 1 .. n - 1
    <3>1. i # n
      BY <2>1, <1>5
    <3>2. ASSUME i \in 1 .. n - 1 PROVE FALSE
      BY <3>1, <3>2, <2>1, <1>5, <1>6, ChainPlaces
    <3> QED
      BY <3>1, <3>2
  <2> QED
    BY <1>2, <1>5, <2>1, <2>2 DEF Chain
<1>8. <<r[n], s[n]>> \in R
  <2>1. PICK i \in DOMAIN r : r[i] = s[n]
    BY <1>5 DEF ToSet
  <2>2. i # n /\ i \notin 1 .. n - 1
    <3>1. i # n
      BY <2>1, <1>5
    <3>2. ASSUME i \in 1 .. n - 1 PROVE FALSE
      BY <3>1, <3>2, <2>1, <1>5, <1>6, ChainPlaces
    <3> QED
      BY <3>1, <3>2
  <2> QED
    BY <1>2, <1>5, <2>1, <2>2 DEF Chain
<1> QED
  BY <1>2, <1>5, <1>7, <1>8 DEF Asymmetric

(* The elements decide an ordered sequence. *)
LEMMA ChainDecided ==
    ASSUME NEW K, NEW R, Asymmetric(R, K), NEW r \in Seq(K), NEW s \in Seq(K),
           Chain(r, R), Chain(s, R), ToSet(r) = ToSet(s)
    PROVE  r = s
<1>2. /\ DOMAIN r = 1 .. Len(r) /\ Len(r) \in Nat
      /\ DOMAIN s = 1 .. Len(s) /\ Len(s) \in Nat
  BY LenProperties
<1>3. ~(Len(r) < Len(s))
  <2>1. SUFFICES ASSUME Len(r) < Len(s) PROVE FALSE
    OBVIOUS
  <2>2. Len(r) + 1 \in DOMAIN s
    BY <1>2, <2>1
  <2>3. PICK i \in DOMAIN r : r[i] = s[Len(r) + 1]
    BY <2>2 DEF ToSet
  <2>4. i \in DOMAIN s /\ s[i] = s[Len(r) + 1] /\ i # Len(r) + 1
    BY <1>2, <2>1, <2>3, ChainsAgree
  <2> QED
    BY <2>2, <2>4, ChainPlaces
<1>4. ~(Len(s) < Len(r))
  <2>1. SUFFICES ASSUME Len(s) < Len(r) PROVE FALSE
    OBVIOUS
  <2>2. Len(s) + 1 \in DOMAIN r
    BY <1>2, <2>1
  <2>3. PICK i \in DOMAIN s : s[i] = r[Len(s) + 1]
    BY <2>2 DEF ToSet
  <2>4. i \in DOMAIN r /\ r[i] = r[Len(s) + 1] /\ i # Len(s) + 1
    BY <1>2, <2>1, <2>3, ChainsAgree
  <2> QED
    BY <2>2, <2>4, ChainPlaces
<1>5. Len(r) = Len(s)
  <2>1. Len(r) \in Nat /\ Len(s) \in Nat
    BY <1>2
  <2> QED
    BY <2>1, <1>3, <1>4
<1>6. \A i \in 1 .. Len(r) : r[i] = s[i]
  BY <1>2, <1>5, ChainsAgree
<1> QED
  BY <1>5, <1>6, SeqEqual

(* The paths decide the row: two reports of the same paths are equal. *)
LEMMA RowDecided ==
    ASSUME ReportConstants, NEW r \in Rows, NEW s \in Rows,
           ToSet(r) = ToSet(s)
    PROVE  r = s
<1> DEFINE K == Known({c \in Cand : Reportable(c)})
           R == {w \in K \X K : Before(w[1], w[2])}
<1>1. /\ r \in Seq(K) /\ \A i, j \in DOMAIN r : i < j => Before(r[i], r[j])
      /\ s \in Seq(K) /\ \A i, j \in DOMAIN s : i < j => Before(s[i], s[j])
  BY DEF Rows
<1>2. /\ \A i \in DOMAIN r : r[i] \in K
      /\ \A i \in DOMAIN s : s[i] \in K
  BY <1>1, LenProperties, ElementOfSeq
<1>3. \A a, b \in K : <<a, b>> \in R <=> Before(a, b)
  OBVIOUS
<1>4. Asymmetric(R, K)
  <2>1. \A a, b \in K : ~(Before(a, b) /\ Before(b, a))
    BY BeforeOrders
  <2> HIDE DEF R, K
  <2> QED
    BY <1>3, <2>1 DEF Asymmetric
<1>5. Chain(r, R) /\ Chain(s, R)
  <2> HIDE DEF R, K
  <2> QED
    BY <1>1, <1>2, <1>3 DEF Chain
<1> HIDE DEF R, K
<1> QED
  BY <1>1, <1>4, <1>5, ChainDecided

(* The bound addresses decide their row. *)
LEMMA BoundDecided ==
    ASSUME NEW r \in BoundRows, NEW s \in BoundRows, ToSet(r) = ToSet(s)
    PROVE  r = s
<1> DEFINE R == {w \in Nat \X Nat : w[1] < w[2]}
<1>1. /\ r \in Seq(Nat) /\ \A i, j \in DOMAIN r : i < j => r[i] < r[j]
      /\ s \in Seq(Nat) /\ \A i, j \in DOMAIN s : i < j => s[i] < s[j]
  BY DEF BoundRows
<1>2. /\ \A i \in DOMAIN r : r[i] \in Nat
      /\ \A i \in DOMAIN s : s[i] \in Nat
  BY <1>1, LenProperties, ElementOfSeq
<1>3. \A a, b \in Nat : <<a, b>> \in R <=> a < b
  OBVIOUS
<1> HIDE DEF R
<1>4. Asymmetric(R, Nat)
  BY <1>3 DEF Asymmetric
<1>5. Chain(r, R) /\ Chain(s, R)
  BY <1>1, <1>2, <1>3 DEF Chain
<1> QED
  BY <1>1, <1>4, <1>5, ChainDecided

(* A sorted list of the sockets is such a row. *)
LEMMA SortedIsRow ==
    ASSUME ReportConstants, NEW S \in Bindings, NEW row \in Sorted(S)
    PROVE  row \in BoundRows
<1>1. S \subseteq Nat /\ IsFiniteSet(S)
  BY DEF ReportConstants
<1>2. Cardinality(S) \in Nat
  BY <1>1, FS_CardinalityType
<1>3. /\ row \in [1 .. Cardinality(S) -> Nat]
      /\ \A m, n \in DOMAIN row : m < n => row[m] < row[n]
  BY <1>1 DEF Sorted
<1>4. row \in Seq(Nat)
  BY <1>2, <1>3, SeqDef
<1> QED
  BY <1>3, <1>4 DEF BoundRows

(* iroh's list names finitely many paths, all of them known. *)
LEMMA ListItems ==
    ASSUME ReportConstants, NEW list \in Seq(Known(Cand))
    PROVE  /\ IsFiniteSet(Items(list)) /\ Cardinality(Items(list)) \in Nat
           /\ Items(list) \subseteq Known({c \in Cand : Reportable(c)})
<1> DEFINE P == {j \in DOMAIN list : Reportable(list[j])}
           f == [i \in P |-> list[i]]
<1>1. DOMAIN list = 1 .. Len(list) /\ Len(list) \in Nat
  BY LenProperties
<1>2. IsFiniteSet(P)
  <2>1. IsFiniteSet(1 .. Len(list))
    BY <1>1, FS_Interval
  <2>2. P \in SUBSET (1 .. Len(list))
    BY <1>1
  <2> QED
    BY <2>1, <2>2, FS_Subset
<1>3. Items(list) = {list[i] : i \in P}
  BY DEF Items
<1>4. f \in Surjection(P, Items(list))
  BY <1>3 DEF Surjection
<1>5. IsFiniteSet(Items(list))
  BY <1>2, <1>4, FS_Surjection
<1>6. ASSUME NEW x \in Items(list) PROVE x \in Known({c \in Cand : Reportable(c)})
  <2>1. PICK i \in P : x = list[i]
    BY <1>3
  <2>2. x \in Known(Cand) /\ Reportable(x)
    BY <2>1, <1>1, ElementOfSeq
  <2>3. PICK c \in Cand, used \in BOOLEAN : x = Path(c, used)
    BY <2>2 DEF Known
  <2>4. Reportable(c)
    BY <2>2, <2>3 DEF Reportable, Path
  <2> QED
    BY <2>3, <2>4 DEF Known
<1> QED
  BY <1>5, <1>6, FS_CardinalityType

(* What peer_path_report returns is a row of exactly the reportable paths. *)
LEMMA ReportsAreRows ==
    ASSUME ReportConstants, NEW list \in Seq(Known(Cand)), NEW row \in Reports(list)
    PROVE  row \in Rows /\ ToSet(row) = Items(list)
<1> DEFINE K == Known({c \in Cand : Reportable(c)})
           k == Cardinality(Items(list))
<1>1. /\ row \in [1 .. k -> Items(list)]
      /\ \A m, n \in DOMAIN row : m < n => row[m] # row[n] /\ ~Before(row[n], row[m])
  BY DEF Reports
<1>2. k \in Nat /\ IsFiniteSet(Items(list)) /\ Items(list) \subseteq K
  BY ListItems
<1>3. DOMAIN row = 1 .. k
  BY <1>1
<1>4. row \in [1 .. k -> K]
  BY <1>1, <1>2
<1>5. row \in Seq(K)
  BY <1>2, <1>4, SeqDef
<1>6. ASSUME NEW m \in DOMAIN row, NEW n \in DOMAIN row, m < n
      PROVE  Before(row[m], row[n])
  <2>1. row[m] \in K /\ row[n] \in K
    BY <1>4
  <2>2. row[m] # row[n] /\ ~Before(row[n], row[m])
    BY <1>1, <1>6
  <2> QED
    BY <2>1, <2>2, BeforeOrders
<1>7. row \in Rows
  BY <1>5, <1>6 DEF Rows
<1>8. row \in Injection(1 .. k, Items(list))
  <2>1. \A m, n \in 1 .. k : row[m] = row[n] => m = n
    BY <1>3, <1>7, RowPlaces
  <2> QED
    BY <1>1, <2>1 DEF Injection, IsInjective
<1>9. Cardinality(1 .. k) = k
  BY <1>2, FS_Interval
<1>10. row \in Surjection(1 .. k, Items(list))
  BY <1>2, <1>8, <1>9, FS_Injection
<1>11. ToSet(row) = Items(list)
  BY <1>3, <1>10 DEF Surjection, ToSet
<1> QED
  BY <1>7, <1>11

(* The active paths of a row are addresses iroh may know. *)
LEMMA ActiveKnown ==
    ASSUME ReportConstants, NEW row \in Rows
    PROVE  ActiveSet(row) \in SUBSET Cand
<1> DEFINE S == {c \in Cand : Reportable(c)}
<1>1. row \in Seq(Known(S)) /\ S \in SUBSET Cand
  BY DEF Rows
<1>2. \A i \in DOMAIN row : [kind |-> row[i].kind, addr |-> row[i].addr] \in S
  BY <1>1, LenProperties, ElementOfSeq, KnownPath
<1> QED
  BY <1>1, <1>2 DEF ActiveSet

(* The row of a service without a connection. *)
LEMMA UnconnectedRow == ASSUME NEW udp \in Stats PROVE Unconnected(udp) \in Observed
<1>1. <<>> \in Seq(Known({c \in Cand : Reportable(c)})) /\ DOMAIN <<>> = {}
  OBVIOUS
<1>2. <<>> \in Rows
  BY <1>1 DEF Rows
<1>3. <<>> \in Seq(Nat)
  OBVIOUS
<1>4. <<>> \in BoundRows
  BY <1>1, <1>3 DEF BoundRows
<1> QED
  BY <1>2, <1>4 DEF Unconnected, Observed

(* The comparator is transitive. *)
LEMMA BeforeTransitive ==
    ASSUME ReportConstants,
           NEW a \in Known({c \in Cand : Reportable(c)}),
           NEW b \in Known({c \in Cand : Reportable(c)}),
           NEW d \in Known({c \in Cand : Reportable(c)}),
           Before(a, b), Before(b, d)
    PROVE  Before(a, d)
<1> DEFINE S == {c \in Cand : Reportable(c)}
<1>1. S \in SUBSET Cand
  OBVIOUS
<1>2. \A x \in Known(S) : /\ x.addr \in Nat /\ x.active \in BOOLEAN
                          /\ KindOrder(x.kind) \in Nat
  <2>1. \A k : KindOrder(k) \in Nat
    BY DEF KindOrder
  <2> QED
    BY <1>1, <2>1, KnownPath
<1> QED
  BY <1>2 DEF Before

(* Of two paths of a list, fewer come before the earlier one. *)
LEMMA FewerBefore ==
    ASSUME ReportConstants, NEW S \in SUBSET Known({c \in Cand : Reportable(c)}),
           IsFiniteSet(S), NEW x \in S, NEW y \in S, Before(x, y)
    PROVE  /\ Cardinality({z \in S : Before(z, x)}) \in Nat
           /\ Cardinality({z \in S : Before(z, y)}) \in Nat
           /\ Cardinality({z \in S : Before(z, x)})
                 < Cardinality({z \in S : Before(z, y)})
<1> DEFINE A == {z \in S : Before(z, x)}
           B == {z \in S : Before(z, y)}
<1>1. A \in SUBSET S /\ B \in SUBSET S
  OBVIOUS
<1>2. IsFiniteSet(A) /\ IsFiniteSet(B)
  BY <1>1, FS_Subset
<1>3. Cardinality(A) \in Nat /\ Cardinality(B) \in Nat
  BY <1>2, FS_CardinalityType
<1>4. A \in SUBSET B
  BY BeforeTransitive
<1>5. x \in B /\ x \notin A
  BY BeforeOrders
<1>6. Cardinality(A) <= Cardinality(B) /\ Cardinality(B) # Cardinality(A)
  BY <1>2, <1>4, <1>5, FS_Subset
<1> QED
  BY <1>3, <1>6

(* There is a report of every list. *)
LEMMA ReportExists ==
    ASSUME ReportConstants, NEW list \in Seq(Known(Cand))
    PROVE  Reports(list) # {}
<1> DEFINE S == Items(list)
           k == Cardinality(S)
           rank == [x \in S |-> Cardinality({z \in S : Before(z, x)}) + 1]
           row == [n \in 1 .. k |-> CHOOSE x \in S : rank[x] = n]
<1>1. k \in Nat /\ IsFiniteSet(S) /\ S \in SUBSET Known({c \in Cand : Reportable(c)})
  BY ListItems
<1>2. ASSUME NEW x \in S PROVE rank[x] \in 1 .. k
  <2> DEFINE A == {z \in S : Before(z, x)}
  <2>1. A \in SUBSET S /\ x \notin A
    BY <1>1, BeforeOrders
  <2>2. IsFiniteSet(A) /\ Cardinality(A) <= k /\ Cardinality(A) # k
    BY <1>1, <2>1, FS_Subset
  <2>3. Cardinality(A) \in Nat
    BY <2>2, FS_CardinalityType
  <2>4. Cardinality(A) + 1 \in 1 .. k
    <3> HIDE DEF A, k
    <3> QED
      BY <1>1, <2>2, <2>3
  <2> QED
    BY <2>4
<1>3. \A x, y \in S : Before(x, y) => rank[x] < rank[y]
  <2> SUFFICES ASSUME NEW x \in S, NEW y \in S, Before(x, y) PROVE rank[x] < rank[y]
    OBVIOUS
  <2> DEFINE a == Cardinality({z \in S : Before(z, x)})
             b == Cardinality({z \in S : Before(z, y)})
  <2>1. a \in Nat /\ b \in Nat /\ a < b
    BY <1>1, FewerBefore
  <2>2. rank[x] = a + 1 /\ rank[y] = b + 1
    OBVIOUS
  <2> HIDE DEF rank, a, b
  <2> QED
    BY <2>1, <2>2
<1> HIDE DEF rank
<1>4. rank \in [S -> 1 .. k]
  <2>1. rank = [x \in S |-> rank[x]]
    BY DEF rank
  <2> QED
    BY <1>2, <2>1
<1>5. \A x, y \in S : rank[x] = rank[y] => x = y
  <2>1. \A x, y \in S : x # y => Before(x, y) \/ Before(y, x)
    BY <1>1, BeforeOrders
  <2>2. \A x \in S : rank[x] \in Nat
    BY <1>2
  <2> QED
    BY <2>1, <2>2, <1>3
<1>6. rank \in Injection(S, 1 .. k)
  BY <1>4, <1>5 DEF Injection, IsInjective
<1>7. IsFiniteSet(1 .. k) /\ Cardinality(1 .. k) = k
  BY <1>1, FS_Interval
<1>8. rank \in Surjection(S, 1 .. k)
  BY <1>6, <1>7, FS_Injection
<1>9. \A n \in 1 .. k : row[n] \in S /\ rank[row[n]] = n
  BY <1>8 DEF Surjection
<1>10. row \in [1 .. k -> S]
  BY <1>9
<1>11. \A m, n \in DOMAIN row : m < n => row[m] # row[n] /\ ~Before(row[n], row[m])
  <2>1. DOMAIN row = 1 .. k
    OBVIOUS
  <2> HIDE DEF row
  <2> SUFFICES ASSUME NEW m \in 1 .. k, NEW n \in 1 .. k, m < n
               PROVE  row[m] # row[n] /\ ~Before(row[n], row[m])
    BY <2>1
  <2>2. row[m] \in S /\ row[n] \in S /\ rank[row[m]] = m /\ rank[row[n]] = n
    BY <1>9
  <2> QED
    BY <1>3, <2>2
<1>12. row \in Reports(list)
  <2> HIDE DEF row
  <2> QED
    BY <1>10, <1>11 DEF Reports
<1> QED
  BY <1>12

(* peer_path_report is a function of the set of reportable paths: every list *)
(* has exactly one report, and lists of the same paths, in whatever order    *)
(* and however often they name them, have the same one.                      *)
THEOREM ReportOfThePaths ==
    ASSUME NEW list \in Seq(Known(Cand)), NEW other \in Seq(Known(Cand)),
           Items(list) = Items(other)
    PROVE  \E row \in Rows : Reports(list) = {row} /\ Reports(other) = {row}
<1>1. PICK row : row \in Reports(list)
  BY ReportExists, ReportAssumption
<1>2. row \in Rows /\ ToSet(row) = Items(list)
  BY <1>1, ReportsAreRows, ReportAssumption
<1>3. ASSUME NEW r \in Reports(list) PROVE r = row
  BY <1>2, ReportsAreRows, RowDecided, ReportAssumption
<1>4. Reports(other) = Reports(list)
  BY DEF Reports
<1> QED
  BY <1>1, <1>2, <1>3, <1>4

-----------------------------------------------------------------------------
(* Initially there is nothing to report. *)
LEMMA ReportInitInv == ASSUME ReportConstants PROVE ReportInit => ReportInv
<1> SUFFICES ASSUME ReportInit PROVE ReportInv
  OBVIOUS
<1>1. stats \in Stats /\ sockets \in Bindings /\ Unconnected(stats) \in Observed
  BY UnconnectedRow DEF ReportInit, ReportConstants
<1>2. dial = NoDial /\ flush = Asleep
  BY DEF ReportInit
<1>3. 0 \in 0 .. MaxMoves /\ 0 \in 0 .. MaxDials /\ fails \in 0 .. MaxFails
  BY DEF ReportConstants, ReportInit
<1>4. last \in Observed \cup {None} /\ file \in Observed \cup {None}
  BY <1>1 DEF ReportInit
<1>5. flush \in [at : {"sleep", "query", "save"}, row : Observed \cup {None}] /\ flush.at # "save"
  BY <1>2 DEF Asleep
<1>6. dial \in DialState /\ dial.at = "none" /\ dial.start = 0
  BY <1>2 DEF NoDial, DialState, CLIENT_CONNECT_DEADLINE, MAX_BACKOFF
<1>7. DialSchedule
  BY <1>6 DEF DialSchedule
<1> QED
  BY <1>1, <1>3, <1>4, <1>5, <1>6, <1>7 DEF ReportInit, ReportInv, LogChains

(* The paths move: iroh's list still names known paths. *)
LEMMA PathsStayKnown ==
    ASSUME ReportConstants, ReportInv, PathMoves
    PROVE  remote' = None \/ remote' \in Seq(Known(Cand))
<1> DEFINE L == Listed(remote)
<1>1. L \in Seq(Known(Cand)) /\ (remote # None => remote = L)
  BY DEF ReportInv, Listed
<1>2. DOMAIN L = 1 .. Len(L) /\ Len(L) \in Nat
  BY <1>1, LenProperties
<1>3. ASSUME NEW c \in Cand, NEW used \in BOOLEAN,
             remote' = Append(L, Path(c, used))
      PROVE  remote' \in Seq(Known(Cand))
  <2>1. Path(c, used) \in Known(Cand)
    BY DEF Known
  <2> QED
    BY <1>1, <1>3, <2>1
<1>4. ASSUME NEW i \in DOMAIN L
      PROVE  remote = L /\ i \in 1 .. Len(L)
  <2>1. remote # None
    BY DEF Listed
  <2> QED
    BY <1>1, <1>2, <2>1
<1>5. ASSUME NEW i \in DOMAIN L, remote' = RemoveAt(remote, i)
      PROVE  remote' \in Seq(Known(Cand))
  <2>1. remote = L /\ i \in 1 .. Len(L)
    BY <1>4
  <2>2. SubSeq(L, 1, i - 1) \in Seq(Known(Cand))
    <3>1. \A j \in 1 .. i - 1 : L[j] \in Known(Cand)
      BY <1>1, <1>2, <2>1, ElementOfSeq
    <3> HIDE DEF L
    <3> QED
      BY <2>1, <3>1, <1>2, SubSeqProperties
  <2>3. SubSeq(L, i + 1, Len(L)) \in Seq(Known(Cand))
    <3>1. \A j \in i + 1 .. Len(L) : L[j] \in Known(Cand)
      BY <1>1, <1>2, <2>1, ElementOfSeq
    <3> HIDE DEF L
    <3> QED
      BY <2>1, <3>1, <1>2, SubSeqProperties
  <2> QED
    BY <1>5, <2>1, <2>2, <2>3, ConcatProperties DEF RemoveAt
<1>6. ASSUME NEW i \in DOMAIN L, remote' = [remote EXCEPT ![i].active = ~@]
      PROVE  remote' \in Seq(Known(Cand))
  <2>1. remote = L /\ i \in 1 .. Len(L)
    BY <1>4
  <2>2. PICK c \in Cand, used \in BOOLEAN : L[i] = Path(c, used)
    BY <1>1, <2>1, ElementOfSeq DEF Known
  <2>3. PICK other \in BOOLEAN : other = (~used)
    OBVIOUS
  <2>4. [L[i] EXCEPT !.active = ~@] = Path(c, other)
    BY <2>2, <2>3 DEF Path
  <2>5. Path(c, other) \in Known(Cand)
    BY DEF Known
  <2>6. remote' = [L EXCEPT ![i] = Path(c, other)]
    BY <1>6, <2>1, <2>4
  <2> QED
    BY <1>1, <2>1, <2>5, <2>6, ExceptSeq
<1>7. ASSUME Len(L) > 1, remote' = Append(Tail(remote), Head(remote))
      PROVE  remote' \in Seq(Known(Cand))
  <2>1. remote = L /\ L # <<>>
    BY <1>2, <1>4, <1>7
  <2>2. Tail(L) \in Seq(Known(Cand)) /\ Head(L) \in Known(Cand)
    BY <1>1, <2>1, HeadTailProperties
  <2> QED
    BY <1>7, <2>1, <2>2
<1> QED
  BY <1>3, <1>5, <1>6, <1>7 DEF PathMoves

(* What a dial may look like on its way: its fields one by one. *)
LEMMA DialFields ==
    ASSUME dial \in DialState, DialSchedule, dial.at = "attempt"
    PROVE  /\ dial.start \in 0 .. 29 /\ dial.now \in dial.start .. 29
           /\ dial.attempt \in 1 .. 5 /\ dial.backoff \in 1 .. 16
           /\ \/ dial.attempt = 1 /\ dial.backoff = 1 /\ dial.now = dial.start
              \/ dial.attempt = 2 /\ dial.backoff = 2 /\ dial.now \in dial.start + 1 .. dial.start + 6
              \/ dial.attempt = 3 /\ dial.backoff = 4 /\ dial.now \in dial.start + 3 .. dial.start + 18
              \/ dial.attempt = 4 /\ dial.backoff = 8 /\ dial.start + 7 <= dial.now
              \/ dial.attempt = 5 /\ dial.backoff = 16 /\ dial.start + 15 <= dial.now
<1>1. dial.start \in 0 .. 30 /\ dial.now \in 0 .. 30 /\ dial.start <= dial.now /\ dial.now < 30
  BY DEF DialState, DialSchedule, CLIENT_CONNECT_DEADLINE
<1> QED
  BY <1>1 DEF DialSchedule

(* A failing dial keeps to the schedule of connect_with_retry. *)
LEMMA DialKeepsSchedule ==
    ASSUME ReportConstants, ReportInv, DialFails
    PROVE  dial' \in DialState /\ DialSchedule' /\ dial'.at \in {"attempt", "expired"}
<1> USE DEF CLIENT_CONNECT_DEADLINE, MAX_BACKOFF
<1>1. dial \in DialState /\ dial.at = "attempt" /\ DialSchedule
  BY DEF ReportInv, DialFails
<1>2. PICK t \in {Limit(dial)}
                 \cup {Earlier(dial.now + d, Limit(dial)) : d \in FailAfter} :
         LET wake == Earlier(t + dial.backoff, CLIENT_CONNECT_DEADLINE)
         IN dial' = IF wake = CLIENT_CONNECT_DEADLINE
                    THEN [dial EXCEPT !.at = "expired", !.now = wake]
                    ELSE [dial EXCEPT !.now = wake, !.attempt = @ + 1,
                                      !.backoff = NextBackoff(@)]
  BY DEF DialFails
<1>3. /\ dial.start \in 0 .. 29 /\ dial.now \in dial.start .. 29
      /\ dial.attempt \in 1 .. 5 /\ dial.backoff \in 1 .. 16
      /\ \/ dial.attempt = 1 /\ dial.backoff = 1 /\ dial.now = dial.start
         \/ dial.attempt = 2 /\ dial.backoff = 2 /\ dial.now \in dial.start + 1 .. dial.start + 6
         \/ dial.attempt = 3 /\ dial.backoff = 4 /\ dial.now \in dial.start + 3 .. dial.start + 18
         \/ dial.attempt = 4 /\ dial.backoff = 8 /\ dial.start + 7 <= dial.now
         \/ dial.attempt = 5 /\ dial.backoff = 16 /\ dial.start + 15 <= dial.now
  BY <1>1, DialFields
<1>4. /\ Limit(dial) \in dial.now .. 30
      /\ Limit(dial) <= dial.now + 5 * dial.attempt
  BY <1>3 DEF Limit, Earlier, AttemptTimeout, DIAL_ATTEMPT_STEP,
     DIAL_ATTEMPT_MAX
<1>5. t \in dial.now .. 30 /\ t <= dial.now + 5 * dial.attempt
  BY <1>2, <1>3, <1>4 DEF Earlier, ReportConstants
<1> DEFINE wake == Earlier(t + dial.backoff, 30)
<1>6. /\ wake \in 0 .. 30
      /\ wake # 30 => wake = t + dial.backoff
      /\ wake = 30 => t + dial.backoff >= 30
  BY <1>3, <1>5 DEF Earlier
<1>7. \/ wake = 30 /\ dial' = [dial EXCEPT !.at = "expired", !.now = 30]
      \/ wake # 30 /\ dial' = [dial EXCEPT !.now = wake, !.attempt = @ + 1,
                                            !.backoff = NextBackoff(@)]
  BY <1>2
<1> HIDE DEF wake
<1>8. CASE wake = 30 /\ dial' = [dial EXCEPT !.at = "expired", !.now = 30]
  <2>1. /\ dial.attempt = 1 => 30 - dial.start <= 6
        /\ dial.attempt = 2 => 30 - dial.start <= 18
    BY <1>3, <1>5, <1>6, <1>8
  <2>2. dial.attempt \in LeastAttempts(30 - dial.start) .. 5
    BY <1>3, <2>1 DEF LeastAttempts
  <2>4. /\ dial'.at = "expired" /\ dial'.now = 30 /\ dial'.attempt = dial.attempt
        /\ dial'.start = dial.start
        /\ dial' = [at |-> "expired", start |-> dial.start, now |-> 30,
                    attempt |-> dial.attempt, backoff |-> dial.backoff]
    BY <1>1, <1>8 DEF DialState
  <2>3. dial' \in DialState
    <3>1. dial.attempt \in 0 .. 5 /\ dial.start \in 0 .. 30 /\ dial.backoff \in 0 .. 30
      BY <1>3
    <3> QED
      BY <2>4, <3>1 DEF DialState
  <2> QED
    BY <2>2, <2>3, <2>4 DEF DialSchedule
<1>9. CASE wake # 30 /\ dial' = [dial EXCEPT !.now = wake, !.attempt = @ + 1,
                                            !.backoff = NextBackoff(@)]
  <2>1. NextBackoff(dial.backoff) = 2 * dial.backoff \/ dial.backoff = 16
    BY <1>3 DEF NextBackoff
  <2>2. /\ dial'.at = "attempt" /\ dial'.now = wake /\ dial'.attempt = dial.attempt + 1
        /\ dial'.backoff = NextBackoff(dial.backoff) /\ dial'.start = dial.start
        /\ dial' = [at |-> "attempt", start |-> dial.start, now |-> wake,
                    attempt |-> dial.attempt + 1, backoff |-> NextBackoff(dial.backoff)]
    BY <1>1, <1>9 DEF DialState
  <2>3. /\ dial.start <= wake /\ wake < 30
        /\ \/ dial.attempt = 1 /\ NextBackoff(dial.backoff) = 2
              /\ wake \in dial.start + 1 .. dial.start + 6
           \/ dial.attempt = 2 /\ NextBackoff(dial.backoff) = 4
              /\ wake \in dial.start + 3 .. dial.start + 18
           \/ dial.attempt = 3 /\ NextBackoff(dial.backoff) = 8 /\ dial.start + 7 <= wake
           \/ dial.attempt = 4 /\ NextBackoff(dial.backoff) = 16 /\ dial.start + 15 <= wake
    BY <1>3, <1>5, <1>6, <1>9, <2>1
  <2>4. dial' \in DialState
    <3>1. /\ dial.attempt + 1 \in 0 .. 5 /\ wake \in 0 .. 30 /\ dial.start \in 0 .. 30
          /\ NextBackoff(dial.backoff) \in 0 .. 30
      BY <1>3, <1>6, <2>3
    <3> QED
      BY <2>2, <3>1 DEF DialState
  <2>5. DialSchedule'
    BY <2>2, <2>3 DEF DialSchedule
  <2> QED
    BY <2>2, <2>4, <2>5
<1> QED
  BY <1>7, <1>8, <1>9

(* The log's lines follow on one another through a look at the paths. *)
LEMMA LookChains ==
    ASSUME ReportConstants, ReportInv, Poll
    PROVE  /\ poller' \in Rows /\ LogChains'
           /\ shown' \in {None, Pending} \cup SUBSET Cand
<1>1. /\ poller # None /\ poller \in Rows /\ remote \in Seq(Known(Cand)) /\ LogChains
      /\ shown \in {None, Pending} \cup SUBSET Cand
  BY DEF ReportInv, Poll
<1>2. PICK row \in Reports(remote) :
          /\ poller' = PollerStep(poller, row).next
          /\ shown' = IF PollerStep(poller, row).line
                      THEN ActiveSet(PollerStep(poller, row).next) ELSE shown
  BY DEF Poll
<1>3. row \in Rows /\ ActiveSet(row) \in SUBSET Cand
  BY <1>1, ReportsAreRows, ActiveKnown
<1>4. CASE ~HasActive(poller)
  <2>1. poller' = row /\ shown' = shown
    BY <1>2, <1>4 DEF PollerStep
  <2>2. shown = Pending
    BY <1>1, <1>4 DEF LogChains, HasActive
  <2> QED
    BY <1>1, <1>3, <2>1, <2>2 DEF LogChains
<1>5. CASE HasActive(poller) /\ ~HasActive(row)
  <2>1. poller' = poller /\ shown' = shown
    BY <1>2, <1>5 DEF PollerStep
  <2> QED
    BY <1>1, <2>1 DEF LogChains, ActiveSet
<1>6. CASE HasActive(poller) /\ HasActive(row)
  <2>1. /\ poller' = row
        /\ shown' = IF ActiveSet(poller) # ActiveSet(row)
                    THEN ActiveSet(row) ELSE shown
    BY <1>2, <1>6 DEF PollerStep, Changed
  <2>2. ActiveSet(row) # {} /\ ActiveSet(poller') = ActiveSet(row)
    BY <1>6, <2>1 DEF HasActive
  <2>3. shown' # Pending => shown' # {} /\ shown' = ActiveSet(row)
    BY <1>1, <2>1, <2>2 DEF LogChains
  <2>4. shown' \in {None, Pending} \cup SUBSET Cand
    BY <1>1, <1>3, <2>1
  <2>5. LogChains'
    BY <2>2, <2>3 DEF LogChains
  <2> QED
    BY <1>3, <2>1, <2>4, <2>5
<1> QED
  BY <1>4, <1>5, <1>6

(* Every step of the service, of its tasks and of iroh keeps the invariant. *)
LEMMA ReportStep ==
    ASSUME ReportConstants, ReportInv, [ReportNext]_reportVars
    PROVE  ReportInv'
<1> USE DEF CLIENT_CONNECT_DEADLINE, MAX_BACKOFF
<1>1. CASE StartDial
  <2>1. PICK t \in 0 .. 30 :
          \/ t < 30 /\ dial' = [at |-> "attempt", start |-> t, now |-> t, attempt |-> 1,
                                backoff |-> 1]
          \/ t = 30 /\ dial' = [at |-> "expired", start |-> t, now |-> t, attempt |-> 0,
                                backoff |-> 0]
    <3>1. PICK t \in Waited :
            dial' = IF t < 30
                    THEN [at |-> "attempt", start |-> t, now |-> t, attempt |-> 1, backoff |-> 1]
                    ELSE [[at |-> "none", start |-> 0, now |-> 0, attempt |-> 0, backoff |-> 0]
                             EXCEPT !.at = "expired", !.start = t, !.now = t]
      BY <1>1 DEF StartDial, INITIAL_BACKOFF, NoDial
    <3>2. t \in 0 .. 30 /\ (~(t < 30) => t = 30)
      BY DEF ReportConstants
    <3> QED
      BY <3>1, <3>2
  <2>2. dial' \in DialState /\ dial'.at \in {"attempt", "expired"}
    BY <2>1 DEF DialState
  <2>3. DialSchedule'
    BY <2>1 DEF DialSchedule, LeastAttempts
  <2>4. LogChains'
    BY <1>1 DEF StartDial, ReportInv, LogChains
  <2> QED
    BY <1>1, <2>2, <2>3, <2>4 DEF StartDial, ReportInv, env, flushVars
<1>2. CASE AttemptSucceeds
  <2>1. dial' = [at |-> "report", start |-> 0, now |-> 0, attempt |-> 0, backoff |-> 0]
    BY <1>2 DEF AttemptSucceeds, NoDial
  <2>2. DialSchedule' /\ LogChains'
    BY <1>2, <2>1 DEF DialSchedule, LogChains, AttemptSucceeds
  <2>3. dials' \in 0 .. MaxDials
    BY <1>2 DEF AttemptSucceeds, ReportInv, ReportConstants
  <2>4. dial' \in DialState /\ dial'.at = "report"
    BY <2>1 DEF DialState
  <2>5. conn' = "live" /\ poller' = None /\ shown' = None
    BY <1>2 DEF AttemptSucceeds
  <2> QED
    BY <1>2, <2>2, <2>3, <2>4, <2>5 DEF AttemptSucceeds, ReportInv, env, flushVars
<1>3. CASE DialFails
  <2>1. LogChains'
    BY <1>3 DEF DialFails, ReportInv, LogChains
  <2>2. dial' \in DialState /\ DialSchedule' /\ dial'.at \in {"attempt", "expired"}
    BY <1>3, DialKeepsSchedule
  <2> QED
    BY <1>3, <2>1, <2>2 DEF DialFails, ReportInv, env, flushVars
<1>4. CASE DialDropped
  <2>1. dial' = [at |-> "none", start |-> 0, now |-> 0, attempt |-> 0, backoff |-> 0]
    BY <1>4 DEF DialDropped, NoDial
  <2>2. DialSchedule' /\ LogChains'
    BY <1>4, <2>1 DEF DialSchedule, LogChains, DialDropped, ReportInv
  <2>3. dial' \in DialState /\ dial'.at = "none"
    BY <2>1 DEF DialState
  <2> QED
    BY <1>4, <2>2, <2>3 DEF DialDropped, ReportInv, env, flushVars
<1>5. CASE Established
  <2>1. dial' = [at |-> "none", start |-> 0, now |-> 0, attempt |-> 0, backoff |-> 0]
    BY <1>5 DEF Established, NoDial
  <2>2. Listed(remote) \in Seq(Known(Cand)) /\ poller = None
    BY <1>5 DEF Listed, ReportInv, Established
  <2>3. PICK row \in Reports(Listed(remote)) :
            poller' = (IF conn # None THEN row ELSE poller) /\ shown' = Told(row)
    BY <1>5 DEF Established
  <2>4. row \in Rows /\ ActiveSet(row) \in SUBSET Cand
    BY <2>2, ReportsAreRows, ActiveKnown
  <2>5. poller' = None \/ (poller' = row /\ poller' \in Rows)
    BY <2>2, <2>3, <2>4
  <2>6. \/ shown' = Pending
        \/ shown' = ActiveSet(row) /\ shown' # {} /\ shown' \in SUBSET Cand
    BY <2>3, <2>4 DEF Told, HasActive
  <2>7. DialSchedule' /\ LogChains'
    BY <2>1, <2>5, <2>6 DEF DialSchedule, LogChains
  <2>8. dial' \in DialState /\ dial'.at = "none"
    BY <2>1 DEF DialState
  <2> QED
    BY <1>5, <2>8, <2>5, <2>6, <2>7 DEF Established, ReportInv, env, flushVars
<1>6. CASE ConnCloses \/ InvalidateLink
  <2>1. DialSchedule' /\ LogChains'
    BY <1>6 DEF ConnCloses, InvalidateLink, ReportInv, DialSchedule, LogChains
  <2> QED
    BY <1>6, <2>1 DEF ConnCloses, InvalidateLink, ReportInv, env, flushVars
<1>7. CASE Poll
  <2>1. /\ poller' \in Rows /\ LogChains'
        /\ shown' \in {None, Pending} \cup SUBSET Cand
    BY <1>7, LookChains
  <2>2. DialSchedule' /\ dial.at # "report"
    BY <1>7 DEF Poll, ReportInv, DialSchedule
  <2> QED
    BY <1>7, <2>1, <2>2 DEF Poll, ReportInv, env, flushVars
<1>8. CASE PollerEnds
  <2>1. DialSchedule' /\ LogChains'
    BY <1>8 DEF PollerEnds, ReportInv, DialSchedule, LogChains
  <2> QED
    BY <1>8, <2>1 DEF PollerEnds, ReportInv, env, flushVars
<1>9. CASE Flushing
  <2>1. DialSchedule' /\ LogChains'
    BY <1>9 DEF Flushing, FlushTick, FlushQuery, FlushSave, linkVars,
       ReportInv,
       DialSchedule, LogChains
  <2>2. Unconnected(stats) \in Observed
    BY UnconnectedRow DEF ReportInv
  <2>3. ASSUME NEW row \in Observed, Rendered(row)
        PROVE  /\ flush' \in [at : {"sleep", "query", "save"}, row : Observed \cup {None}]
               /\ flush'.row \in Observed
    BY <2>3 DEF Rendered
  <2>4. CASE FlushTick
    <3>1. /\ flush' \in [at : {"sleep", "query", "save"}, row : Observed \cup {None}]
          /\ flush'.at = "save" => flush'.row \in Observed
      <4>1. CASE conn = None
        BY <2>2, <2>3, <2>4, <4>1 DEF FlushTick
      <4>2. CASE conn # None
        BY <2>4, <4>2 DEF FlushTick
      <4> QED
        BY <4>1, <4>2
    <3> QED
      BY <2>1, <2>4, <3>1 DEF FlushTick, ReportInv, env, linkVars
  <2>5. CASE FlushQuery
    <3>1. ASSUME remote # None, NEW paths \in Reports(remote), NEW addrs \in Sorted(sockets)
          PROVE  [transports |-> paths, bound |-> addrs, udp |-> stats] \in Observed
      <4>1. remote \in Seq(Known(Cand)) /\ sockets \in Bindings /\ stats \in Stats
        BY <3>1 DEF ReportInv
      <4>2. paths \in Rows /\ addrs \in BoundRows
        BY <4>1, ReportsAreRows, SortedIsRow
      <4> QED
        BY <4>1, <4>2 DEF Observed
    <3>2. PICK row \in Observed : Rendered(row)
      BY <2>2, <2>5, <3>1 DEF FlushQuery
    <3> QED
      BY <2>1, <2>3, <2>5, <3>2 DEF FlushQuery, ReportInv, env, linkVars
  <2>6. CASE FlushSave
    <3>1. flush' = [at |-> "sleep", row |-> None] /\ flush.row \in Observed
      BY <2>6 DEF FlushSave, ReportInv, Asleep
    <3>2. /\ last' \in Observed \cup {None} /\ file' \in Observed \cup {None}
          /\ fails' \in 0 .. MaxFails
      BY <2>6, <3>1 DEF FlushSave, ReportInv, ReportConstants
    <3> QED
      BY <2>1, <2>6, <3>1, <3>2 DEF FlushSave, ReportInv, env, linkVars
  <2> QED
    BY <1>9, <2>4, <2>5, <2>6 DEF Flushing
<1>10. CASE PathMoves
  <2>1. remote' = None \/ remote' \in Seq(Known(Cand))
    BY <1>10, PathsStayKnown
  <2>2. DialSchedule' /\ LogChains'
    BY <1>10 DEF PathMoves, flushVars, linkVars, ReportInv, DialSchedule,
       LogChains
  <2>3. moves' \in 0 .. MaxMoves
    BY <1>10 DEF PathMoves, ReportInv, ReportConstants
  <2> QED
    BY <1>10, <2>1, <2>2, <2>3 DEF PathMoves, ReportInv, flushVars, linkVars
<1>11. CASE Rebind \/ StatsMove
  <2>1. DialSchedule' /\ LogChains'
    BY <1>11 DEF Rebind, StatsMove, flushVars, linkVars, ReportInv, DialSchedule, LogChains
  <2>2. /\ moves' \in 0 .. MaxMoves
        /\ sockets' \in Bindings /\ stats' \in Stats
    BY <1>11 DEF Rebind, StatsMove, ReportInv, ReportConstants
  <2> QED
    BY <1>11, <2>1, <2>2 DEF Rebind, StatsMove, ReportInv, flushVars, linkVars
<1>12. CASE UNCHANGED reportVars
  BY <1>12 DEF reportVars, env, flushVars, linkVars, ReportInv, DialSchedule,
     LogChains
<1> QED
  BY <1>1, <1>2, <1>3, <1>4, <1>5, <1>6, <1>7, <1>8, <1>9, <1>10, <1>11,
     <1>12 DEF ReportNext, Dialling

(* The invariant holds in every state. *)
THEOREM ReportInvHolds == ReportSpec => []ReportInv
<1>1. ReportInit => ReportInv
  BY ReportInitInv, ReportAssumption
<1>2. ReportInv /\ [ReportNext]_reportVars => ReportInv'
  BY ReportStep, ReportAssumption
<1> QED
  BY <1>1, <1>2, PTL DEF ReportSpec

-----------------------------------------------------------------------------
(* What the invariant says of the dial's clock. *)
LEMMA InvBudget == ASSUME ReportConstants, ReportInv PROVE DialWithinBudget
<1> USE DEF CLIENT_CONNECT_DEADLINE, MAX_BACKOFF
<1>1. ASSUME dial.at = "attempt"
      PROVE  /\ dial.attempt \in 1 .. 5 /\ dial.now \in 0 .. 29
  <2>1. dial \in DialState /\ DialSchedule
    BY DEF ReportInv
  <2> QED
    BY <1>1, <2>1, DialFields
<1>2. ASSUME dial.at = "attempt"
      PROVE  dial.now < Limit(dial) /\ Limit(dial) <= CLIENT_CONNECT_DEADLINE
  BY <1>1, <1>2 DEF Limit, Earlier, AttemptTimeout, DIAL_ATTEMPT_STEP,
     DIAL_ATTEMPT_MAX
<1> QED
  BY <1>1, <1>2 DEF ReportInv, DialSchedule, DialWithinBudget

(* What it says of the rows: only relay and direct paths. *)
LEMMA InvSound == ASSUME ReportConstants, ReportInv PROVE ReportsSound
<1> DEFINE S == {c \in Cand : Reportable(c)}
<1>1. Known(Cand) \subseteq
         [kind : {"relay", "direct", "custom"}, addr : Nat, active : BOOLEAN]
  <2> SUFFICES ASSUME NEW x \in Known(Cand)
               PROVE  x \in [kind : {"relay", "direct", "custom"}, addr : Nat, active : BOOLEAN]
    OBVIOUS
  <2>1. Cand \in SUBSET Cand
    OBVIOUS
  <2>2. /\ x.kind \in {"relay", "direct", "custom"} /\ x.addr \in Nat /\ x.active \in BOOLEAN
        /\ x = [kind |-> x.kind, addr |-> x.addr, active |-> x.active]
    BY <2>1, KnownPath
  <2> QED
    BY <2>2
<1>2. Known(S) \subseteq [kind : {"relay", "direct"}, addr : Nat, active : BOOLEAN]
  <2> SUFFICES ASSUME NEW x \in Known(S)
               PROVE  x \in [kind : {"relay", "direct"}, addr : Nat, active : BOOLEAN]
    OBVIOUS
  <2>1. S \in SUBSET Cand
    OBVIOUS
  <2>2. [kind |-> x.kind, addr |-> x.addr] \in S
    BY <2>1, KnownPath
  <2>3. x.kind \in {"relay", "direct"}
    BY <2>2 DEF Reportable
  <2>4. /\ x.addr \in Nat /\ x.active \in BOOLEAN
        /\ x = [kind |-> x.kind, addr |-> x.addr, active |-> x.active]
    BY <2>1, KnownPath
  <2> QED
    BY <2>3, <2>4
<1>3. \A row \in Rows : row \in Row
  BY <1>2, SeqMonotonic DEF Rows, Row
<1>4. remote = None \/ remote \in Listing
  BY <1>1, SeqMonotonic DEF ReportInv, Listing
<1>5. \A o \in Observed : o \in Observation
  BY <1>3 DEF Observed, Observation, BoundRows
<1>6. {flush.row, last, file} \subseteq Observation \cup {None}
  BY <1>5 DEF ReportInv
<1>7. dial.start \in 0 .. dial.now
  <2>1. dial.start \in 0 .. 30 /\ dial.now \in 0 .. 30
    BY DEF ReportInv, DialState, CLIENT_CONNECT_DEADLINE
  <2>2. dial.start <= dial.now
    <3>1. dial.at \in {"none", "attempt", "report", "expired"} /\ DialSchedule
      BY DEF ReportInv, DialState
    <3>2. CASE dial.at = "attempt"
      BY <3>1, <3>2 DEF DialSchedule
    <3>3. CASE dial.at = "expired"
      BY <2>1, <3>1, <3>3 DEF DialSchedule, CLIENT_CONNECT_DEADLINE
    <3>4. CASE dial.at \in {"none", "report"}
      BY <2>1, <3>1, <3>4 DEF DialSchedule
    <3> QED
      BY <3>1, <3>2, <3>3, <3>4
  <2> QED
    BY <2>1, <2>2
<1>8. /\ dial.at \in {"none", "attempt", "report", "expired"}
      /\ dial.now \in 0 .. CLIENT_CONNECT_DEADLINE /\ dial.backoff \in 0 .. MAX_BACKOFF
  BY DEF ReportInv, DialState
<1> QED
  BY <1>3, <1>4, <1>6, <1>7, <1>8 DEF ReportInv, ReportsSound, ReportTypeOK

(* A file that is rewritten gets a row that tells something else. *)
LEMMA InvRewrites == ASSUME ReportConstants, ReportInv, [ReportNext]_reportVars
    PROVE  file # file' /\ file # None => Shows(file) # Shows(file')
<1> SUFFICES ASSUME file # file', file # None, Shows(file) = Shows(file') PROVE FALSE
  OBVIOUS
<1>1. FlushSave
  BY DEF ReportNext, Dialling, Flushing, StartDial, AttemptSucceeds, DialFails, DialDropped,
     Established, ConnCloses, InvalidateLink, Poll, PollerEnds, FlushTick, FlushQuery,
     PathMoves, Rebind, StatsMove, reportVars, flushVars
<1>2. file \in Observed /\ file' \in Observed
  BY <1>1 DEF FlushSave, ReportInv
<1>3. /\ file.transports \in Rows /\ file'.transports \in Rows
      /\ file.bound \in BoundRows /\ file'.bound \in BoundRows
      /\ file = [transports |-> file.transports, bound |-> file.bound, udp |-> file.udp]
      /\ file' = [transports |-> file'.transports, bound |-> file'.bound, udp |-> file'.udp]
  BY <1>2 DEF Observed
<1>4. /\ ToSet(file.transports) = ToSet(file'.transports)
      /\ ToSet(file.bound) = ToSet(file'.bound) /\ file.udp = file'.udp
  BY DEF Shows
<1>5. file.transports = file'.transports /\ file.bound = file'.bound
  BY <1>3, <1>4, RowDecided, BoundDecided
<1> QED
  BY <1>3, <1>4, <1>5

(* A dial never outlives its caller's budget, however much of it the wait    *)
(* for the dial lock has used: whatever time each attempt takes to fail,     *)
(* connect_with_retry gives up exactly at the deadline, after at most five   *)
(* attempts and as many as what was left of the budget allows at least.      *)
THEOREM DialWithinBudgetHolds == ReportSpec => []DialWithinBudget
<1>1. ReportSpec => []ReportInv
  BY ReportInvHolds
<1>2. ReportInv => DialWithinBudget
  BY InvBudget, ReportAssumption
<1> QED
  BY <1>1, <1>2, PTL

(* Rows name relay and direct paths only, and the poller compares with what  *)
(* the log told last, so its lines follow on one another.                    *)
THEOREM ReportsSoundHolds == ReportSpec => []ReportsSound
<1>1. ReportSpec => []ReportInv
  BY ReportInvHolds
<1>2. ReportInv => ReportsSound
  BY InvSound, ReportAssumption
<1> QED
  BY <1>1, <1>2, PTL

(* The status file is rewritten only when the service's paths, the sockets   *)
(* or the statistics it tells of changed, in whatever order and however      *)
(* often iroh lists them.                                                    *)
THEOREM NoIdleRewriteHolds == ReportSpec => NoIdleRewrite
<1>1. ReportSpec => []ReportInv
  BY ReportInvHolds
<1>2. ReportInv /\ [ReportNext]_reportVars
         => [file # file' /\ file # None => Shows(file) # Shows(file')]_reportVars
  BY InvRewrites, ReportAssumption
<1> QED
  BY <1>1, <1>2, PTL DEF ReportSpec, NoIdleRewrite

=============================================================================
