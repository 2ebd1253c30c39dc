------------------------------ MODULE TcpAccess -----------------------------
(***************************************************************************)
(* The Access side of a TCP service: the listener (listen_loop), one task  *)
(* per local client (handle_local_connection, open_client_stream), the     *)
(* dialer they share (ServiceDialer) and its auxiliary tasks.              *)
(*                                                                         *)
(* Connections are numbered in the order they are dialled.  The retries of *)
(* connect_with_retry stay inside the phase "dial"; the copying of bytes   *)
(* stays inside the phase "pipe".  Every await of a client task is a       *)
(* phase, at which the task can be cancelled by its own deadline or by     *)
(* stop.  The dialer's state lock is only held within synchronous          *)
(* sections; the status render is the holder that others may meet.         *)
(***************************************************************************)
EXTENDS Integers, FiniteSets

CONSTANTS
    Client,      \* local TCP clients, each accepted once
    NoClient,
    MaxConn      \* bound: connections dialled in a behaviour

ASSUME AccessAssumption ==
    /\ IsFiniteSet(Client)
    /\ NoClient \notin Client
    /\ MaxConn \in Nat

ConnId == 1 .. MaxConn
NoConn == 0

VARIABLES
    listener,   \* where listen_loop stands
    phase,      \* phase[c]: where the task of client c stands
    hold,       \* hold[c]: the connection c's task has got
    failed,     \* failed[c]: the connection on which c's first open_bi failed
    result,     \* result[c]: how c's task ended
    dial_lock,  \* holder of ServiceDialer.dial
    rendering,  \* the status render holds ServiceDialer.state
    cached,     \* ConnState.conn
    aux,        \* ConnState.tasks not aborted: <<kind, connection>>
    dialled,    \* connections dialled so far
    alive,      \* connections not closed
    stop,       \* the stop signal has been published
    expired     \* the drain deadline has passed

dialVars == <<cached, aux, dialled, alive>>
taskVars == <<phase, hold, failed, result, dial_lock>>
vars == <<listener, rendering, stop, expired, taskVars, dialVars>>

ListenerState == {"binding", "listening", "draining", "joined", "ended"}

(***************************************************************************)
(* "lock": waiting for the dial lock; "dial": in connect_with_retry;       *)
(* "store": waiting for the state lock with the new connection; "report":  *)
(* querying the paths; "open": in open_bi; "evict": waiting for the state  *)
(* lock in invalidate; "pipe": copying; "ack": awaiting the delivery       *)
(* acknowledgement.                                                        *)
(***************************************************************************)
Connecting == {"lock", "dial", "store", "report", "open", "evict"}
Channel == {"pipe", "ack"}
Phase == {"idle", "ended"} \cup Connecting \cup Channel
Result == {"none", "ok", "error", "aborted"}
Task == {"watcher", "poller"} \X ConnId

Init ==
    /\ listener = "binding"
    /\ phase = [c \in Client |-> "idle"]
    /\ hold = [c \in Client |-> NoConn]
    /\ failed = [c \in Client |-> NoConn]
    /\ result = [c \in Client |-> "none"]
    /\ dial_lock = NoClient
    /\ rendering = FALSE
    /\ cached = NoConn
    /\ aux = {}
    /\ dialled = 0
    /\ alive = {}
    /\ stop = FALSE
    /\ expired = FALSE

-----------------------------------------------------------------------------
(* The dialer *)

(* Stop is polled before the task's own future. *)
Running(c, p) == ~stop /\ phase[c] = p

Goto(c, p) == phase' = [phase EXCEPT ![c] = p]

TakeLock_FaultyNoLock(c) ==
    /\ Running(c, "lock")
    /\ ~rendering
    /\ IF cached = NoConn
         THEN Goto(c, "dial") /\ dial_lock' = c /\ UNCHANGED hold
         ELSE /\ Goto(c, "open")
              /\ hold' = [hold EXCEPT ![c] = cached]
              /\ UNCHANGED dial_lock
    /\ UNCHANGED <<listener, rendering, stop, expired, failed, result, dialVars>>

(* get_or_dial takes the dial lock, then either returns the cached           *)
(* connection, dead or alive, or starts to dial, keeping the lock.           *)
TakeLock(c) ==
    /\ Running(c, "lock")
    /\ dial_lock = NoClient
    /\ ~rendering
    /\ IF cached = NoConn
         THEN Goto(c, "dial") /\ dial_lock' = c /\ UNCHANGED hold
         ELSE /\ Goto(c, "open")
              /\ hold' = [hold EXCEPT ![c] = cached]
              /\ UNCHANGED dial_lock
    /\ UNCHANGED <<listener, rendering, stop, expired, failed, result, dialVars>>

(* Some attempt of connect_with_retry succeeds. *)
DialSucceeds(c) ==
    /\ Running(c, "dial")
    /\ dialled < MaxConn
    /\ dialled' = dialled + 1
    /\ alive' = alive \cup {dialled + 1}
    /\ hold' = [hold EXCEPT ![c] = dialled + 1]
    /\ Goto(c, "store")
    /\ UNCHANGED <<listener, rendering, stop, expired, failed, result, dial_lock,
                   cached, aux>>

(* The connection is cached, the tasks of the replaced one are aborted, and  *)
(* a disconnect watcher is spawned.                                          *)
Store(c) ==
    /\ Running(c, "store")
    /\ ~rendering
    /\ cached' = hold[c]
    /\ aux' = {<<"watcher", hold[c]>>}
    /\ Goto(c, "report")
    /\ UNCHANGED <<listener, rendering, stop, expired, hold, failed, result,
                   dial_lock, dialled, alive>>

(* The paths are known: a poller is spawned if the connection is still the   *)
(* cached one, and get_or_dial returns, releasing the dial lock.             *)
Report(c) ==
    /\ Running(c, "report")
    /\ ~rendering
    /\ aux' = IF cached = hold[c] THEN aux \cup {<<"poller", hold[c]>>} ELSE aux
    /\ dial_lock' = NoClient
    /\ Goto(c, "open")
    /\ UNCHANGED <<listener, rendering, stop, expired, hold, failed, result,
                   cached, dialled, alive>>

(* ServiceDialer.invalidate: only the failed connection itself is evicted. *)
Invalidate_FaultyAny(k) == cached' = NoConn
Invalidate_FaultyNever(k) == cached' = cached

Invalidate(k) == cached' = IF cached = k THEN NoConn ELSE cached

-----------------------------------------------------------------------------
(* A client's task *)

(* The task of c ends: its guard on the dial lock is dropped, and with it a  *)
(* connection that was dialled and not yet stored.                           *)
End(c, r) ==
    /\ Goto(c, "ended")
    /\ result' = [result EXCEPT ![c] = r]
    /\ dial_lock' = IF dial_lock = c THEN NoClient ELSE dial_lock
    /\ alive' = IF phase[c] = "store" THEN alive \ {hold[c]} ELSE alive
    /\ UNCHANGED <<listener, rendering, stop, expired, hold, failed, cached, aux,
                   dialled>>

(* listen_loop accepts a client and spawns its task. *)
Accept(c) ==
    /\ listener = "listening"
    /\ Running(c, "idle")
    /\ Goto(c, "lock")
    /\ UNCHANGED <<listener, rendering, stop, expired, hold, failed, result,
                   dial_lock, dialVars>>

(* open_bi succeeds: the client has its stream. *)
OpenSucceeds(c) ==
    /\ Running(c, "open")
    /\ hold[c] \in alive
    /\ Goto(c, "pipe")
    /\ UNCHANGED <<listener, rendering, stop, expired, hold, failed, result,
                   dial_lock, dialVars>>

(* open_bi fails for the first time: the connection is to be evicted. *)
OpenFails(c) ==
    /\ Running(c, "open")
    /\ hold[c] \notin alive
    /\ failed[c] = NoConn
    /\ failed' = [failed EXCEPT ![c] = hold[c]]
    /\ Goto(c, "evict")
    /\ UNCHANGED <<listener, rendering, stop, expired, hold, result, dial_lock,
                   dialVars>>

(* The eviction, after which get_or_dial is called once more. *)
Evict(c) ==
    /\ Running(c, "evict")
    /\ ~rendering
    /\ Invalidate(hold[c])
    /\ Goto(c, "lock")
    /\ UNCHANGED <<listener, rendering, stop, expired, hold, failed, result,
                   dial_lock, aux, dialled, alive>>

(* open_bi fails again after the redial: the channel is given up. *)
OpenFailsAgain(c) ==
    /\ Running(c, "open")
    /\ hold[c] \notin alive
    /\ failed[c] # NoConn
    /\ End(c, "error")

Deadline_FaultyDialOnly(c) ==
    /\ phase[c] = "dial"
    /\ ~stop
    /\ End(c, "error")

(* The client's 30 seconds pass while its task is at an await.  A task       *)
(* waiting for the state lock alone is only found waiting while another      *)
(* holds it.                                                                 *)
Deadline(c) ==
    /\ phase[c] \in Connecting
    /\ phase[c] \in {"store", "evict"} => rendering
    /\ ~stop
    /\ End(c, "error")

(* Stop cancels a client that has no stream yet. *)
StopClient(c) ==
    /\ stop
    /\ phase[c] \in Connecting
    /\ End(c, "error")

(* Both directions were copied to their end; the FIN is queued. *)
PipeEnds(c) ==
    /\ phase[c] = "pipe"
    /\ Goto(c, "ack")
    /\ UNCHANGED <<listener, rendering, stop, expired, hold, failed, result,
                   dial_lock, dialVars>>

(* A copy failed: the local socket, the stream or the connection broke. *)
PipeFails(c) ==
    /\ phase[c] = "pipe"
    /\ End(c, "error")

(* Delivery::Acknowledged. *)
Acknowledged(c) ==
    /\ phase[c] = "ack"
    /\ hold[c] \in alive
    /\ End(c, "ok")

(* Delivery::PeerStopped, Unconfirmed or Lost. *)
NotAcknowledged(c) ==
    /\ phase[c] = "ack"
    /\ End(c, "error")

-----------------------------------------------------------------------------
(* The listener and shutdown *)

Listen(from, to) ==
    /\ listener = from
    /\ listener' = to
    /\ UNCHANGED <<rendering, stop, expired, taskVars, dialVars>>

Bind == ~stop /\ Listen("binding", "listening")

(* The address cannot be bound, or stop comes first. *)
BindFails == Listen("binding", "joined")

(* Stop seals admission. *)

StopListening == stop /\ Listen("listening", "draining")

(* drain: every client task has ended and was joined ... *)
Drained ==
    /\ \A c \in Client : phase[c] \in {"idle", "ended"}
    /\ Listen("draining", "joined")

(* ... or the deadline passed, and the rest is aborted and joined. *)
AbortAll ==
    LET rest == {c \in Client : phase[c] \notin {"idle", "ended"}} IN
    /\ listener = "draining"
    /\ listener' = "joined"
    /\ phase' = [c \in Client |-> IF c \in rest THEN "ended" ELSE phase[c]]
    /\ result' = [c \in Client |-> IF c \in rest THEN "aborted" ELSE result[c]]
    /\ dial_lock' = NoClient
    /\ alive' = alive \ {hold[c] : c \in {d \in rest : phase[d] = "store"}}
    /\ UNCHANGED <<rendering, stop, expired, hold, failed, cached, aux, dialled>>

DrainTimeout_FaultyNever == FALSE /\ AbortAll

DrainTimeout == expired /\ AbortAll

(* stop_auxiliary_tasks, once every listener has been joined. *)
StopAuxiliary ==
    /\ stop
    /\ ~rendering
    /\ listener = "joined"
    /\ listener' = "ended"
    /\ aux' = {}
    /\ UNCHANGED <<rendering, stop, expired, taskVars, cached, dialled, alive>>

-----------------------------------------------------------------------------
(* The environment *)

(* path_report takes the state lock and drops it before it queries. *)
Render ==
    /\ rendering' = ~rendering
    /\ UNCHANGED <<listener, stop, expired, taskVars, dialVars>>

(* The peer or the network ends connection k. *)
ConnLost(k) ==
    /\ k \in alive
    /\ alive' = alive \ {k}
    /\ UNCHANGED <<listener, rendering, stop, expired, taskVars, cached, aux, dialled>>

(* A watcher or poller ends with its connection. *)
AuxEnds(t) ==
    /\ t \in aux
    /\ t[2] \notin alive
    /\ aux' = aux \ {t}
    /\ UNCHANGED <<listener, rendering, stop, expired, taskVars, cached, dialled, alive>>

Stop ==
    /\ ~stop
    /\ stop' = TRUE
    /\ UNCHANGED <<listener, rendering, expired, taskVars, dialVars>>

(* The drain grace, counted from stop, is over. *)
GraceOver ==
    /\ stop /\ ~expired
    /\ expired' = TRUE
    /\ UNCHANGED <<listener, rendering, stop, taskVars, dialVars>>

ClientStep(c) ==
    \/ Accept(c) \/ TakeLock(c) \/ DialSucceeds(c) \/ Store(c) \/ Report(c)
    \/ OpenSucceeds(c) \/ OpenFails(c) \/ Evict(c) \/ OpenFailsAgain(c)
    \/ Deadline(c) \/ StopClient(c)
    \/ PipeEnds(c) \/ PipeFails(c) \/ Acknowledged(c) \/ NotAcknowledged(c)

ListenerStep ==
    Bind \/ BindFails \/ StopListening \/ Drained \/ DrainTimeout \/ StopAuxiliary

Next ==
    \/ \E c \in Client : ClientStep(c)
    \/ ListenerStep
    \/ \E k \in ConnId : ConnLost(k)
    \/ \E t \in Task : AuxEnds(t)
    \/ Render \/ Stop \/ GraceOver

(* Spawned tasks keep running; the grace and a client's budget are timers.   *)
(* The state lock is FIFO and its holders never wait, so whoever waits for   *)
(* it gets it. The dial lock, the peer and the channels owe nothing: a dial  *)
(* or open_bi may hang, and a client may keep its stream for ever.           *)
Fairness ==
    /\ WF_vars(GraceOver)
    /\ SF_vars(ListenerStep)
    /\ \A c \in Client :
          /\ WF_vars(StopClient(c)) /\ WF_vars(Deadline(c))
          /\ SF_vars(Store(c) \/ Report(c) \/ Evict(c))
    /\ WF_vars(rendering /\ Render)

Spec == Init /\ [][Next]_vars
FairSpec == Spec /\ Fairness

-----------------------------------------------------------------------------
(* The state has its shape: the dial lock is held by the one task that dials *)
(* or reports, and a task that opens a stream has a connection to open it on.*)
TypeOK ==
    /\ listener \in ListenerState
    /\ phase \in [Client -> Phase]
    /\ hold \in [Client -> 0 .. MaxConn]
    /\ failed \in [Client -> 0 .. MaxConn]
    /\ result \in [Client -> Result]
    /\ dial_lock \in Client \cup {NoClient}
    /\ rendering \in BOOLEAN
    /\ dialled \in 0 .. MaxConn
    /\ cached \in 0 .. dialled
    /\ aux \subseteq Task
    /\ alive \subseteq 1 .. dialled
    /\ stop \in BOOLEAN
    /\ expired \in BOOLEAN
    /\ \A c \in Client : phase[c] \in {"dial", "store", "report"} <=> dial_lock = c
    /\ \A c \in Client :
         phase[c] \in {"store", "report", "open", "evict", "pipe", "ack"}
            => hold[c] \in 1 .. dialled

(* However many clients arrive at once, they share one connection: every     *)
(* connection still alive is the cached one or the one about to be cached,   *)
(* and none is dialled while a cached one exists.                            *)
OneConnection ==
    /\ \A k \in alive : k = cached \/ \E c \in Client : phase[c] = "store" /\ hold[c] = k
    /\ \A c \in Client : phase[c] \in {"dial", "store"} => cached = NoConn

(* A client holding a stale connection never evicts the healthy one that     *)
(* another client has dialled since: what leaves the cache is dead.          *)
HealthyNotEvicted ==
    [][cached # NoConn /\ cached' # cached => cached \notin alive]_vars

(* The retry after a failed open_bi is on another connection, so one lost    *)
(* connection never costs a client its channel.                              *)
RetryOnFresh ==
    \A c \in Client :
        phase[c] \in {"open"} \cup Channel /\ failed[c] # NoConn
            => hold[c] # failed[c] /\ failed[c] \notin alive

(* All watchers and pollers belong to one connection, the cached one if      *)
(* there is one: a replaced connection leaves no task behind.                *)
AuxOfOneConnection ==
    /\ \A t, u \in aux : t[2] = u[2]
    /\ cached # NoConn => \A t \in aux : t[2] = cached

(* The role leaves nothing behind: once the dialer is stopped no client task *)
(* runs, no auxiliary task runs and the dial lock is free.                   *)
EndedIsQuiet ==
    listener = "ended" =>
        /\ \A c \in Client : phase[c] \in {"idle", "ended"}
        /\ aux = {}
        /\ dial_lock = NoClient

(* Every accepted client gets its stream or is told that it cannot have one, *)
(* whatever it is waiting for: another client's dial, a peer that does not   *)
(* answer, or a connection that opens no more streams. One budget covers     *)
(* them all.                                                                 *)
ClientAnswered ==
    \A c \in Client : phase[c] = "lock" ~> phase[c] \in Channel \cup {"ended"}

(* Stop ends the listener, the clients and the dialer, although a client may *)
(* hold its channel open for ever.                                           *)
StopTerminates == stop ~> listener = "ended"

(* Nothing is orphaned: one connection for all clients, its tasks and no     *)
(* others, and nothing at all once the listener has ended.                   *)
NothingOrphaned == TypeOK /\ OneConnection /\ AuxOfOneConnection /\ EndedIsQuiet

=============================================================================
