------------------------------ MODULE UdpAccess -----------------------------
(***************************************************************************)
(* The Access side of a UDP service: the loop that receives datagrams of   *)
(* local clients (udp_listen_loop), the table of their flows               *)
(* (ClientFlows), the one connection the dialer caches for the service,    *)
(* and the task that relays the peer's replies (relay_peer_replies).       *)
(*                                                                         *)
(* Connections are numbered in the order they are dialled; each is one     *)
(* session incarnation.  Only this loop uses the service's dialer, so the  *)
(* dialer is its cached connection.  Timers are two-valued, as in          *)
(* UdpServe.  The payload limit is a choice: a datagram may be dropped     *)
(* before it gets a flow.                                                  *)
(***************************************************************************)
EXTENDS Integers, FiniteSets

CONSTANTS
    Client,       \* local client addresses
    NoClient,
    MaxFlowId,    \* u32::MAX
    MaxFlows,     \* limits.max_flows
    MaxConn       \* bound: connections dialled in a behaviour

ASSUME AccessAssumption ==
    /\ IsFiniteSet(Client)
    /\ NoClient \notin Client
    /\ MaxFlowId \in Nat
    /\ MaxFlows \in Nat
    /\ MaxConn \in Nat

FlowId == 0 .. MaxFlowId
NoFlow == -1
ConnId == 1 .. MaxConn
NoConn == 0

VARIABLES
    loop,        \* where the listen loop stands
    client,      \* the client whose datagram the loop handles
    conn,        \* the connection get_or_dial returned for it
    dialled,     \* connections dialled so far
    alive,       \* connections not lost
    cached,      \* the dialer's cached connection
    current,     \* the loop's current: the incarnation of the flow table
    by_client,   \* ClientFlows.by_client
    by_flow,     \* ClientFlows.by_flow, without the instants
    idle_flows,  \* live flows whose idle timeout has elapsed
    next,        \* ClientFlows.next
    active,      \* the flow count last stored by set_active_flows
    relay,       \* the connection the relay task reads, NoConn if none runs
    reply,       \* the reply the relay is handing to its client, if any
    stop,        \* the role's stop signal has been published
    owner        \* history: the client flow f of incarnation k was given to

tableVars == <<by_client, by_flow, idle_flows, next, active, owner>>
dialVars == <<dialled, alive, cached>>
vars == <<loop, client, conn, current, relay, reply, stop, dialVars, tableVars>>

(***************************************************************************)
(* "select": waiting for an event; "dial": in get_or_dial; "join": waiting *)
(* for the previous incarnation's relay to end; "send": the synchronous    *)
(* rest of the iteration; "ended": loop left, relay joined.                *)
(***************************************************************************)
LoopState == {"select", "dial", "join", "send", "ended"}

Reply == [client : Client, conn : ConnId, flow : FlowId]
NoReply == [client |-> NoClient, conn |-> NoConn, flow |-> NoFlow]

Live == {f \in FlowId : by_flow[f] # NoClient}
EmptyByClient == [c \in Client |-> NoFlow]
EmptyByFlow == [f \in FlowId |-> NoClient]

Init ==
    /\ loop = "select"
    /\ client = NoClient
    /\ conn = NoConn
    /\ dialled = 0
    /\ alive = {}
    /\ cached = NoConn
    /\ current = NoConn
    /\ by_client = EmptyByClient
    /\ by_flow = EmptyByFlow
    /\ idle_flows = {}
    /\ next = 0
    /\ active = 0
    /\ relay = NoConn
    /\ reply = NoReply
    /\ stop = FALSE
    /\ owner = [x \in ConnId \X FlowId |-> NoClient]

-----------------------------------------------------------------------------
(* The loop *)

(* A client's datagram arrives. *)
Recv(c) ==
    /\ ~stop
    /\ loop = "select"
    /\ loop' = "dial"
    /\ client' = c
    /\ UNCHANGED <<conn, current, relay, reply, stop, dialVars, tableVars>>

(* get_or_dial returned connection k: a connection other than the table's    *)
(* starts an incarnation.                                                    *)
Dialled(k) ==
    /\ conn' = k
    /\ loop' = IF k = current THEN "send" ELSE "join"
    /\ UNCHANGED <<client, current, relay, reply, stop, tableVars>>

(* The cached connection is returned, dead or alive. *)
DialCached ==
    /\ ~stop
    /\ loop = "dial"
    /\ cached # NoConn
    /\ Dialled(cached)
    /\ UNCHANGED dialVars

(* None is cached: a dial succeeds and its connection is cached. *)
DialNew ==
    /\ ~stop
    /\ loop = "dial"
    /\ cached = NoConn
    /\ dialled < MaxConn
    /\ dialled' = dialled + 1
    /\ alive' = alive \cup {dialled + 1}
    /\ cached' = dialled + 1
    /\ Dialled(dialled + 1)

(* The dial deadline passed: the datagram is dropped. *)
DialFailed ==
    /\ ~stop
    /\ loop = "dial"
    /\ cached = NoConn
    /\ loop' = "select"
    /\ client' = NoClient
    /\ UNCHANGED <<conn, current, relay, reply, stop, dialVars, tableVars>>

NewIncarnation_FaultyNoJoin ==
    /\ loop = "join"
    /\ loop' = "send"
    /\ current' = conn
    /\ by_client' = EmptyByClient
    /\ by_flow' = EmptyByFlow
    /\ idle_flows' = {}
    /\ next' = 0
    /\ active' = 0
    /\ relay' = IF relay = NoConn THEN conn ELSE relay
    /\ UNCHANGED <<client, conn, reply, stop, dialVars, owner>>

(* The aborted relay has been joined, whatever it still did until then: the  *)
(* table starts empty and a relay for the new connection is spawned.         *)
NewIncarnation ==
    /\ loop = "join"
    /\ loop' = "send"
    /\ current' = conn
    /\ by_client' = EmptyByClient
    /\ by_flow' = EmptyByFlow
    /\ idle_flows' = {}
    /\ next' = 0
    /\ active' = 0
    /\ relay' = conn
    /\ reply' = NoReply
    /\ UNCHANGED <<client, conn, stop, dialVars, owner>>

(* ServiceDialer.invalidate: only the failed connection itself is evicted. *)
Invalidate_FaultyKeeps(k) == cached' = cached

Invalidate(k) == cached' = IF cached = k THEN NoConn ELSE cached

(* The iteration is over. *)
Continue ==
    /\ loop = "send"
    /\ loop' = "select"
    /\ client' = NoClient
    /\ UNCHANGED <<conn, current, relay, reply, stop, dialled, alive>>

(* Datagrams are unusable or the payload exceeds their limit. *)
DropOversize ==
    /\ Continue
    /\ UNCHANGED <<cached, tableVars>>

(* ClientFlows.touch's checked_add: the last identifier is never given out. *)
TakeId_FaultyWrap == next' = IF next = MaxFlowId THEN 0 ELSE next + 1

TakeId == next < MaxFlowId /\ next' = next + 1

(* send_datagram on the table's connection; a lost connection is evicted. *)
SendOn(k) == IF k \in alive THEN UNCHANGED cached ELSE Invalidate(k)

(* A known client's datagram refreshes its flow and is sent on it. *)
SendKnown ==
    /\ Continue
    /\ by_client[client] # NoFlow
    /\ idle_flows' = idle_flows \ {by_client[client]}
    /\ active' = Cardinality(Live)
    /\ SendOn(conn)
    /\ UNCHANGED <<by_client, by_flow, next, owner>>

(* A new client gets the next identifier and its datagram is sent on it. *)
SendNew ==
    /\ Continue
    /\ by_client[client] = NoFlow
    /\ Cardinality(Live) < MaxFlows
    /\ TakeId
    /\ by_client' = [by_client EXCEPT ![client] = next]
    /\ by_flow' = [by_flow EXCEPT ![next] = client]
    /\ owner' = [owner EXCEPT ![<<current, next>>] = client]
    /\ idle_flows' = idle_flows \ {next}
    /\ active' = Cardinality(Live')
    /\ SendOn(conn)

(* Refused::Cap: a new client is dropped, nothing running is evicted. *)
RefuseCap ==
    /\ Continue
    /\ by_client[client] = NoFlow
    /\ Cardinality(Live) >= MaxFlows
    /\ UNCHANGED <<cached, tableVars>>

(* Refused::Exhausted: the connection is evicted, so that the next datagram  *)
(* starts a new incarnation.                                                 *)
RefuseExhausted ==
    /\ Continue
    /\ by_client[client] = NoFlow
    /\ Cardinality(Live) < MaxFlows
    /\ next = MaxFlowId
    /\ Invalidate(conn)
    /\ UNCHANGED tableVars

(* ClientFlows.expire of the flows in ended. *)
Expire_FaultyByFlowOnly(ended) ==
    /\ by_flow' = [f \in FlowId |-> IF f \in ended THEN NoClient ELSE by_flow[f]]
    /\ by_client' = by_client

Expire(ended) ==
    /\ by_flow' = [f \in FlowId |-> IF f \in ended THEN NoClient ELSE by_flow[f]]
    /\ by_client' = [c \in Client |-> IF \E f \in ended : by_flow[f] = c
                                      THEN NoFlow ELSE by_client[c]]

(* The sweep ends every flow idle for its timeout. *)
Sweep ==
    /\ ~stop
    /\ loop = "select"
    /\ idle_flows # {}
    /\ Expire(idle_flows)
    /\ idle_flows' = {}
    /\ active' = Cardinality(Live')
    /\ UNCHANGED <<loop, client, conn, current, relay, reply, stop, dialVars,
                   next, owner>>

(* Stop is seen at the two awaits that watch for it; the relay is aborted    *)
(* and joined.                                                               *)
StopSeen ==
    /\ stop
    /\ loop \in {"select", "dial"}
    /\ loop' = "ended"
    /\ client' = NoClient
    /\ relay' = NoConn
    /\ reply' = NoReply
    /\ UNCHANGED <<conn, current, stop, dialVars, tableVars>>

-----------------------------------------------------------------------------
(* The relay *)

(* A datagram of flow f arrives on the relay's connection: its client is     *)
(* looked up, which refreshes the flow.  Unknown flows are dropped.          *)
RelayRecv(f) ==
    /\ relay \in alive
    /\ reply = NoReply
    /\ by_flow[f] # NoClient
    /\ reply' = [client |-> by_flow[f], conn |-> relay, flow |-> f]
    /\ idle_flows' = idle_flows \ {f}
    /\ UNCHANGED <<loop, client, conn, current, relay, stop, dialVars,
                   by_client, by_flow, next, active, owner>>

(* The payload is handed to the client's socket. *)
RelaySend ==
    /\ reply # NoReply
    /\ reply' = NoReply
    /\ UNCHANGED <<loop, client, conn, current, relay, stop, dialVars, tableVars>>

(* The relay's connection is gone: the task ends. *)
RelayEnds ==
    /\ relay # NoConn
    /\ relay \notin alive
    /\ reply = NoReply
    /\ relay' = NoConn
    /\ UNCHANGED <<loop, client, conn, current, reply, stop, dialVars, tableVars>>

-----------------------------------------------------------------------------
(* The environment *)

(* The peer or the network ends connection k. *)
ConnLost(k) ==
    /\ k \in alive
    /\ alive' = alive \ {k}
    /\ UNCHANGED <<loop, client, conn, current, relay, reply, stop, dialled,
                   cached, tableVars>>

(* The idle timeout of a live flow elapses. *)
IdleElapses(f) ==
    /\ f \in Live \ idle_flows
    /\ idle_flows' = idle_flows \cup {f}
    /\ UNCHANGED <<loop, client, conn, current, relay, reply, stop, dialVars,
                   by_client, by_flow, next, active, owner>>

Stop ==
    /\ ~stop
    /\ stop' = TRUE
    /\ UNCHANGED <<loop, client, conn, current, relay, reply, dialVars, tableVars>>

LoopStep ==
    \/ DialCached \/ DialNew \/ DialFailed \/ NewIncarnation
    \/ DropOversize \/ SendKnown \/ SendNew \/ RefuseCap \/ RefuseExhausted
    \/ Sweep \/ StopSeen

Next ==
    \/ LoopStep
    \/ \E c \in Client : Recv(c)
    \/ \E f \in FlowId : RelayRecv(f) \/ IdleElapses(f)
    \/ RelaySend \/ RelayEnds
    \/ \E k \in ConnId : ConnLost(k)
    \/ Stop

(* The spawned loop keeps running, and every await in it is bounded (the     *)
(* dial by its deadline, the join by an aborted task); its select is biased  *)
(* and polls the sweep timer before the socket.  Clients keep sending, and   *)
(* of what they send again and again some datagram fits.  On a lost          *)
(* connection no reply refreshes a flow, so its idle timeout elapses.        *)
Fairness ==
    /\ WF_vars(LoopStep)
    /\ SF_vars(Sweep)
    /\ WF_vars(\E c \in Client : Recv(c))
    /\ SF_vars(SendKnown \/ SendNew \/ RefuseExhausted)
    /\ \A f \in FlowId : WF_vars(current \notin alive /\ IdleElapses(f))

Spec == Init /\ [][Next]_vars
FairSpec == Spec /\ Fairness

-----------------------------------------------------------------------------
(* The state has its shape, in particular next never passes u32::MAX. *)
TypeOK ==
    /\ loop \in LoopState
    /\ client \in Client \cup {NoClient}
    /\ conn \in 0 .. MaxConn
    /\ dialled \in 0 .. MaxConn
    /\ alive \subseteq 1 .. dialled
    /\ cached \in 0 .. dialled
    /\ current \in 0 .. MaxConn
    /\ by_client \in [Client -> FlowId \cup {NoFlow}]
    /\ by_flow \in [FlowId -> Client \cup {NoClient}]
    /\ idle_flows \subseteq Live
    /\ next \in FlowId
    /\ active \in Nat
    /\ relay \in 0 .. MaxConn
    /\ reply \in Reply \cup {NoReply}
    /\ stop \in BOOLEAN
    /\ owner \in [ConnId \X FlowId -> Client \cup {NoClient}]
    /\ loop \in {"dial", "join", "send"} => client \in Client
    /\ loop \in {"join", "send"} => conn \in ConnId
    /\ loop = "send" => conn = current

(* The two maps of ClientFlows stay inverse to each other through touch,     *)
(* refusal, expiry and replacement, and within max_flows.                    *)
TableConsistent ==
    /\ \A c \in Client, f \in FlowId : by_client[c] = f <=> by_flow[f] = c
    /\ Cardinality(Live) <= MaxFlows

(* No flow survives its incarnation: whatever the table holds was given out  *)
(* on the connection the loop currently sends on.                            *)
TableOfIncarnation ==
    \A f \in Live : current \in ConnId /\ owner[<<current, f>>] = by_flow[f]

(* A reply is only ever handed to the client that its flow was given to, in  *)
(* the incarnation whose connection carried the reply.                       *)
ReplyAttribution ==
    reply # NoReply => owner[<<reply.conn, reply.flow>>] = reply.client

(* Within an incarnation an identifier is never given to a second client. *)
IdsNeverReused ==
    [][\A x \in ConnId \X FlowId :
         owner[x] # NoClient => owner'[x] = owner[x]]_vars

(* The flow count in the status is the table's size at every instant. *)
ActiveFlowsExact == active = Cardinality(Live)

(* A lost connection does not stay cached while clients keep sending: it is  *)
(* evicted, or the loop stops.                                               *)
DeadConnectionEvicted ==
    (cached # NoConn /\ cached \notin alive)
        ~> (cached = NoConn \/ cached \in alive \/ loop = "ended")

(* The client table is sound through refusals, expiry and redials: its maps  *)
(* are inverse, within the cap, of one incarnation, and counted exactly.     *)
TableSound == TypeOK /\ TableConsistent /\ TableOfIncarnation /\ ActiveFlowsExact

=============================================================================
