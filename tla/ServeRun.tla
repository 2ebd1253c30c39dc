------------------------------ MODULE ServeRun ------------------------------
(***************************************************************************)
(* The life of a Serve role: the accept loop, one supervisor per           *)
(* connection (handle_connection), one task per TCP stream, the counters   *)
(* and the peer registry shown in the status, and the order in which       *)
(* run_serve takes everything down.                                        *)
(*                                                                         *)
(* What happens inside a UDP connection is UdpServe's matter: here it may  *)
(* leave quarantine sinks behind when it ends.  The copying of bytes stays *)
(* inside the state "pipe".  The status file belongs to the host and is    *)
(* not modelled here.                                                      *)
(***************************************************************************)
EXTENDS Integers, FiniteSets

CONSTANTS
    Conn,         \* connections that peers attempt
    NoConn,
    Peer,         \* remote NodeIds
    Service,      \* the configured services
    UdpService,   \* those of them that forward UDP
    Unknown,      \* an ALPN that no service has
    MaxStreams    \* bound: streams a peer opens on one connection

ASSUME ServeRunAssumption ==
    /\ IsFiniteSet(Conn)
    /\ NoConn \notin Conn
    /\ UdpService \subseteq Service
    /\ Unknown \notin Service
    /\ MaxStreams \in Nat

Stream == Conn \X (1 .. MaxStreams)

VARIABLES
    role,      \* where run_serve stands
    accept,    \* where accept_loop stands
    incoming,  \* the connection in its handshake or path query
    conn,      \* conn[k]: where the supervisor of connection k stands
    peer,      \* peer[k]: the NodeId at the other end of k
    service,   \* service[k]: the service k's ALPN names
    alive,     \* connections established and not closed
    stream,    \* stream[s]: where the task of stream s stands
    active,    \* active[v]: ServiceTarget.active_streams of service v
    peers,     \* peers[p][v]: PeerTracker, 0 for no entry
    sinks,     \* connections whose quarantine sinks still run
    stop,      \* the drain deadline has been published
    expired    \* the drain deadline has passed

envVars == <<alive, stop, expired>>
serveVars == <<role, accept, incoming, conn, peer, service, stream, active, peers, sinks,
               envVars>>

(* "running": waiting for the shutdown future; then what it joins next. *)
RoleState == {"starting", "running", "accept", "sinks", "closing", "closed"}
AcceptState == {"off", "select", "handshake", "paths", "joining", "ended"}

(* "spawned": not polled yet; "draining": stopped, joining its streams. *)
ConnState == {"none", "spawned", "serving", "draining", "ended"}

(* "connecting": to the local target; "ack": awaiting the acknowledgement. *)
StreamState == {"none", "connecting", "pipe", "ack", "ended"}
Open == {"connecting", "pipe", "ack"}

StreamsOf(k) == {s \in Stream : s[1] = k /\ stream[s] \in Open}
OnService(v) == {s \in Stream : service[s[1]] = v /\ stream[s] \in Open}

ServeInit ==
    /\ role = "starting"
    /\ accept = "off"
    /\ incoming = NoConn
    /\ conn = [k \in Conn |-> "none"]
    /\ peer \in [Conn -> Peer]
    /\ service \in [Conn -> Service \cup {Unknown}]
    /\ alive = {}
    /\ stream = [s \in Stream |-> "none"]
    /\ active = [v \in Service |-> 0]
    /\ peers = [p \in Peer |-> [v \in Service |-> 0]]
    /\ sinks = {}
    /\ stop = FALSE
    /\ expired = FALSE

-----------------------------------------------------------------------------
(* run_serve *)

(* on_ready succeeds and the accept loop is spawned ... *)
Ready ==
    /\ role = "starting"
    /\ role' = "running"
    /\ accept' = "select"
    /\ UNCHANGED <<incoming, conn, peer, service, stream, active, peers, sinks, envVars>>

(* ... or fails, and the endpoint is closed. *)
ReadyFails ==
    /\ role = "starting"
    /\ role' = "closed"
    /\ UNCHANGED <<accept, incoming, conn, peer, service, stream, active, peers, sinks,
                   envVars>>

(* The shutdown future resolves: begin publishes the deadline. *)
Shutdown ==
    /\ role = "running"
    /\ role' = "accept"
    /\ stop' = TRUE
    /\ UNCHANGED <<accept, incoming, conn, peer, service, stream, active, peers, sinks,
                   alive, expired>>

AcceptJoined_FaultyNoJoin ==
    /\ role = "accept"
    /\ role' = "sinks"
    /\ UNCHANGED <<accept, incoming, conn, peer, service, stream, active, peers, sinks,
                   envVars>>

(* The accept supervisor has been joined. *)
AcceptJoined ==
    /\ role = "accept"
    /\ accept = "ended"
    /\ role' = "sinks"
    /\ UNCHANGED <<accept, incoming, conn, peer, service, stream, active, peers, sinks,
                   envVars>>

(* sinks.shutdown: every sink ended, or was aborted at the deadline. *)
SinksJoined ==
    /\ role = "sinks"
    /\ sinks = {} \/ expired
    /\ sinks' = {}
    /\ role' = "closing"
    /\ UNCHANGED <<accept, incoming, conn, peer, service, stream, active, peers, envVars>>

(* The endpoint is closed, and with it every connection. *)
Close ==
    /\ role = "closing"
    /\ role' = "closed"
    /\ alive' = {}
    /\ UNCHANGED <<accept, incoming, conn, peer, service, stream, active, peers, sinks,
                   stop, expired>>

-----------------------------------------------------------------------------
(* accept_loop: stop is polled first at each of its awaits. *)

Incoming(k) ==
    /\ ~stop /\ accept = "select"
    /\ conn[k] = "none" /\ k \notin alive
    /\ accept' = "handshake"
    /\ incoming' = k
    /\ UNCHANGED <<role, conn, peer, service, stream, active, peers, sinks, envVars>>

(* The handshake fails: the attempt is over. *)
HandshakeFails ==
    /\ ~stop /\ accept = "handshake"
    /\ accept' = "select"
    /\ incoming' = NoConn
    /\ conn' = [conn EXCEPT ![incoming] = "ended"]
    /\ UNCHANGED <<role, peer, service, stream, active, peers, sinks, envVars>>

(* The handshake succeeds and the ALPN names a service: query the paths. *)
Established ==
    /\ ~stop /\ accept = "handshake"
    /\ service[incoming] \in Service
    /\ accept' = "paths"
    /\ alive' = alive \cup {incoming}
    /\ UNCHANGED <<role, incoming, conn, peer, service, stream, active, peers, sinks,
                   stop, expired>>

(* No service has the ALPN: the connection is dropped. *)
UnknownAlpn ==
    /\ ~stop /\ accept = "handshake"
    /\ service[incoming] \notin Service
    /\ accept' = "select"
    /\ incoming' = NoConn
    /\ conn' = [conn EXCEPT ![incoming] = "ended"]
    /\ UNCHANGED <<role, peer, service, stream, active, peers, sinks, envVars>>

(* The connection's supervisor is spawned. *)
SpawnConnection ==
    /\ ~stop /\ accept = "paths"
    /\ accept' = "select"
    /\ incoming' = NoConn
    /\ conn' = [conn EXCEPT ![incoming] = "spawned"]
    /\ UNCHANGED <<role, peer, service, stream, active, peers, sinks, envVars>>

(* Stop: the pending handshake or connection is dropped, supervisors are     *)
(* joined, never aborted.                                                    *)
StopAccepting ==
    /\ stop /\ accept \in {"select", "handshake", "paths"}
    /\ accept' = "joining"
    /\ alive' = alive \ {incoming}
    /\ conn' = [k \in Conn |-> IF k = incoming THEN "ended" ELSE conn[k]]
    /\ incoming' = NoConn
    /\ UNCHANGED <<role, peer, service, stream, active, peers, sinks, stop, expired>>

ConnectionsJoined ==
    /\ accept = "joining"
    /\ \A k \in Conn : conn[k] \in {"none", "ended"}
    /\ accept' = "ended"
    /\ UNCHANGED <<role, incoming, conn, peer, service, stream, active, peers, sinks,
                   envVars>>

-----------------------------------------------------------------------------
(* PeerTracker *)

Track(p, v) == peers' = [peers EXCEPT ![p][v] = @ + 1]

Untrack_FaultyRemoves(p, v) == peers' = [peers EXCEPT ![p][v] = 0]

Untrack(p, v) == peers' = [peers EXCEPT ![p][v] = @ - 1]

(* ActiveStream's drop, of several streams of one service at once. *)

DropCounters(v, n) == active' = [active EXCEPT ![v] = @ - n]

-----------------------------------------------------------------------------
(* handle_connection *)

(* The supervisor is first polled: the peer is registered. *)
Supervise(k) ==
    /\ conn[k] = "spawned"
    /\ conn' = [conn EXCEPT ![k] = "serving"]
    /\ Track(peer[k], service[k])
    /\ UNCHANGED <<role, accept, incoming, peer, service, stream, active, sinks, envVars>>

(* accept_bi: the stream is counted before its task is spawned. *)
AcceptStream(s) ==
    LET k == s[1] IN
    /\ ~stop /\ conn[k] = "serving" /\ k \in alive
    /\ service[k] \notin UdpService
    /\ stream[s] = "none"
    /\ stream' = [stream EXCEPT ![s] = "connecting"]
    /\ active' = [active EXCEPT ![service[k]] = @ + 1]
    /\ UNCHANGED <<role, accept, incoming, conn, peer, service, peers, sinks, envVars>>

(* The connection is done: it is untracked and closed; a UDP connection may  *)
(* leave sinks.                                                              *)
Done(k) ==
    /\ conn' = [conn EXCEPT ![k] = "ended"]
    /\ Untrack(peer[k], service[k])
    /\ alive' = alive \ {k}
    /\ \/ UNCHANGED sinks
       \/ service[k] \in UdpService /\ sinks' = sinks \cup {k}

PeerLost_FaultyNoAbort(k) ==
    /\ ~stop /\ conn[k] = "serving" /\ k \notin alive
    /\ StreamsOf(k) = {}
    /\ Done(k)
    /\ UNCHANGED <<role, accept, incoming, peer, service, stream, active, stop, expired>>

(* Peer loss: nothing can drain, the streams are aborted and joined. *)
PeerLost(k) ==
    /\ ~stop /\ conn[k] = "serving" /\ k \notin alive
    /\ stream' = [s \in Stream |-> IF s \in StreamsOf(k) THEN "ended" ELSE stream[s]]
    /\ DropCounters(service[k], Cardinality(StreamsOf(k)))
    /\ Done(k)
    /\ UNCHANGED <<role, accept, incoming, peer, service, stop, expired>>

(* Stop seals stream admission. *)
StopConnection(k) ==
    /\ stop /\ conn[k] = "serving"
    /\ conn' = [conn EXCEPT ![k] = "draining"]
    /\ UNCHANGED <<role, accept, incoming, peer, service, stream, active, peers, sinks,
                   envVars>>

(* drain: the streams ended by themselves ... *)
Drained(k) ==
    /\ conn[k] = "draining"
    /\ StreamsOf(k) = {}
    /\ Done(k)
    /\ UNCHANGED <<role, accept, incoming, peer, service, stream, active, stop, expired>>

DrainTimeout_FaultyEarly(k) ==
    /\ conn[k] = "draining"
    /\ StreamsOf(k) # {}
    /\ stream' = [s \in Stream |-> IF s \in StreamsOf(k) THEN "ended" ELSE stream[s]]
    /\ DropCounters(service[k], Cardinality(StreamsOf(k)))
    /\ Done(k)
    /\ UNCHANGED <<role, accept, incoming, peer, service, stop, expired>>

(* ... or are aborted at the shared deadline. *)
DrainTimeout(k) ==
    /\ conn[k] = "draining"
    /\ expired /\ StreamsOf(k) # {}
    /\ stream' = [s \in Stream |-> IF s \in StreamsOf(k) THEN "ended" ELSE stream[s]]
    /\ DropCounters(service[k], Cardinality(StreamsOf(k)))
    /\ Done(k)
    /\ UNCHANGED <<role, accept, incoming, peer, service, stop, expired>>

-----------------------------------------------------------------------------
(* A stream's task *)

StreamTo(s, from, to) ==
    /\ stream[s] = from
    /\ stream' = [stream EXCEPT ![s] = to]

ConnectTarget(s) ==
    /\ StreamTo(s, "connecting", "pipe")
    /\ UNCHANGED <<role, accept, incoming, conn, peer, service, active, peers, sinks,
                   envVars>>

(* Both directions were copied to their end. *)
PipeEnds(s) ==
    /\ StreamTo(s, "pipe", "ack")
    /\ UNCHANGED <<role, accept, incoming, conn, peer, service, active, peers, sinks,
                   envVars>>

(* The target refused or timed out, a copy failed, or the delivery wait is   *)
(* over, whatever its outcome: the task ends.                                *)
StreamEnds(s) ==
    /\ \E from \in Open : StreamTo(s, from, "ended")
    /\ DropCounters(service[s[1]], 1)
    /\ UNCHANGED <<role, accept, incoming, conn, peer, service, peers, sinks, envVars>>

-----------------------------------------------------------------------------
(* The environment *)

ConnLost(k) ==
    /\ k \in alive
    /\ alive' = alive \ {k}
    /\ UNCHANGED <<role, accept, incoming, conn, peer, service, stream, active, peers,
                   sinks, stop, expired>>

(* The sinks of connection k end: quarantine is over, or stop. *)
SinksEnd(k) ==
    /\ k \in sinks
    /\ sinks' = sinks \ {k}
    /\ UNCHANGED <<role, accept, incoming, conn, peer, service, stream, active, peers,
                   envVars>>

(* The drain grace, counted from stop, is over. *)
GraceOver ==
    /\ stop /\ ~expired
    /\ expired' = TRUE
    /\ UNCHANGED <<role, accept, incoming, conn, peer, service, stream, active, peers,
                   sinks, alive, stop>>

RoleStep == Ready \/ ReadyFails \/ AcceptJoined \/ SinksJoined \/ Close
AcceptStep ==
    \/ HandshakeFails \/ Established \/ UnknownAlpn \/ SpawnConnection
    \/ StopAccepting \/ ConnectionsJoined
ConnStep(k) ==
    Supervise(k) \/ PeerLost(k) \/ StopConnection(k) \/ Drained(k) \/ DrainTimeout(k)

ServeNext ==
    \/ RoleStep \/ Shutdown
    \/ AcceptStep \/ \E k \in Conn : Incoming(k)
    \/ \E k \in Conn : ConnStep(k) \/ ConnLost(k) \/ SinksEnd(k)
    \/ \E s \in Stream : AcceptStream(s) \/ ConnectTarget(s) \/ PipeEnds(s) \/ StreamEnds(s)
    \/ GraceOver

(* Spawned tasks keep running, handshakes time out, and the grace is a       *)
(* timer.  Peers, targets and streams owe nothing.                           *)
ServeFairness ==
    /\ WF_serveVars(RoleStep)
    /\ WF_serveVars(AcceptStep)
    /\ \A k \in Conn : WF_serveVars(ConnStep(k))
    /\ WF_serveVars(GraceOver)

ServeSpec == ServeInit /\ [][ServeNext]_serveVars
ServeFairSpec == ServeSpec /\ ServeFairness

-----------------------------------------------------------------------------
Supervised == {k \in Conn : conn[k] \in {"serving", "draining"}}

(* The state has its shape; only the accept loop's own connection is pending,*)
(* and every served connection is of a configured service.                   *)
ServeTypeOK ==
    /\ role \in RoleState
    /\ accept \in AcceptState
    /\ incoming \in Conn \cup {NoConn}
    /\ conn \in [Conn -> ConnState]
    /\ peer \in [Conn -> Peer]
    /\ service \in [Conn -> Service \cup {Unknown}]
    /\ alive \subseteq Conn
    /\ stream \in [Stream -> StreamState]
    /\ active \in [Service -> Nat]
    /\ peers \in [Peer -> [Service -> Nat]]
    /\ sinks \subseteq Conn
    /\ stop \in BOOLEAN
    /\ expired \in BOOLEAN
    /\ incoming # NoConn <=> accept \in {"handshake", "paths"}
    /\ \A k \in Conn : conn[k] \notin {"none", "ended"} => service[k] \in Service

(* active_streams counts exactly the streams whose task has not ended, also  *)
(* when tasks are aborted before their first poll.                           *)
ActiveExact == \A v \in Service : active[v] = Cardinality(OnService(v))

(* The peer registry counts exactly the supervised connections of each peer  *)
(* and service, so a peer is listed while any connection of it is left.      *)
PeersExact ==
    \A p \in Peer, v \in Service :
        peers[p][v] = Cardinality({k \in Supervised : peer[k] = p /\ service[k] = v})

(* No task outlives its supervisor: a stream runs only under a supervised    *)
(* connection, a connection only under the accept loop, and the endpoint is  *)
(* closed after all of them and after the sinks.                             *)
NoOrphans ==
    /\ \A s \in Stream : stream[s] \in Open => s[1] \in Supervised
    /\ accept \in {"off", "ended"} => \A k \in Conn : conn[k] \in {"none", "ended"}
    /\ role \in {"closing", "closed"} => accept \in {"off", "ended"} /\ sinks = {}

(* A supervisor leaves with streams still open only if its connection is     *)
(* lost or the shared drain deadline has passed: an open channel is never    *)
(* cut off because another channel ended, or early in the grace.             *)
GraceRespected ==
    [][\A s \in Stream :
         stream[s] \in Open /\ s[1] \in Supervised /\ conn'[s[1]] = "ended"
            => expired \/ s[1] \notin alive]_serveVars

(* Stop takes the whole role down although streams may never end. *)
StopTerminates == stop ~> role = "closed"

(* A lost peer's channels are closed and the peer leaves the registry. *)
LostPeerCleared ==
    \A k \in Conn : (conn[k] = "serving" /\ k \notin alive) ~> conn[k] = "ended"

(* What the status tells of the role is exact at every instant: the streams  *)
(* of each service and the connections of each peer.                         *)
CountsExact == ServeTypeOK /\ ActiveExact /\ PeersExact

(* Tasks do end: all of them after stop, and a lost peer's at any time.      *)
TasksEnd == StopTerminates /\ LostPeerCleared

=============================================================================
