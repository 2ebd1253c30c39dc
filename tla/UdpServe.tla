------------------------------ MODULE UdpServe ------------------------------
(***************************************************************************)
(* The Serve side of a UDP service: one receive loop per peer connection   *)
(* (handle_udp_connection), the table of its flows (PeerFlows), the slot   *)
(* counters shared by every connection of the service (UdpStats), and the  *)
(* sinks that hold an ended flow's socket in quarantine.                   *)
(*                                                                         *)
(* A flow is named by its connection and its 32-bit identifier.  The peer  *)
(* is not trusted: datagrams carry any identifier in any order.  Timers    *)
(* are two-valued: a flow is in idle_flows once its idle timeout has       *)
(* elapsed since its last traffic.  A payload is an abstract value.  The   *)
(* payload limit, malformed datagrams and the drop counters are left out:  *)
(* they never guard a transition of a flow.                                *)
(***************************************************************************)
EXTENDS Integers, FiniteSets, Sequences

CONSTANTS
    Conn,             \* the peer connections of the service
    Payload,          \* what a datagram carries besides its flow identifier
    MaxFlowId,        \* largest flow identifier a datagram can carry
    MaxFlows,         \* limits.max_flows: slots of the service
    MaxFlowsPerPeer,  \* limits.max_flows_per_peer
    QueueDepth        \* limits.queue_depth

ASSUME ServeAssumption ==
    /\ IsFiniteSet(Conn)
    /\ MaxFlowId \in Nat
    /\ MaxFlows \in Nat
    /\ MaxFlowsPerPeer \in Nat
    /\ QueueDepth \in Nat

FlowId == 0 .. MaxFlowId
NoFlow == -1
Flow == Conn \X FlowId

VARIABLES
    loop,         \* loop[c]: where the receive loop of connection c stands
    opening,      \* opening[c]: the flow whose upstream socket c is opening
    in_hand,      \* in_hand[c]: <<p>> while datagram p waits for that socket
    highest,      \* highest[c]: PeerFlows.highest, NoFlow for None
    socket,       \* socket[x]: what became of flow x's slot and socket
    idle_flows,   \* live flows whose idle timeout has elapsed
    queue,        \* queue[x]: payloads waiting in x's FlowQueue, oldest first
    held,         \* UdpStats.held_flows
    quarantined,  \* UdpStats.quarantined_flows
    stop          \* the role's stop signal has been published

vars == <<loop, opening, in_hand, highest, socket, idle_flows, queue, held,
          quarantined, stop>>

(***************************************************************************)
(* "absent": not connected yet; "receiving": at the select of the loop;    *)
(* "opening": suspended in open_upstream; "ended": loop left, flows        *)
(* drained, readers joined.                                                *)
(***************************************************************************)
LoopState == {"absent", "receiving", "opening", "ended"}

(***************************************************************************)
(* "unused": no socket; "reserved": slot taken, socket being opened;       *)
(* "live": in the flow table; "sink": quarantined; "releasing": the sink   *)
(* ended and quarantine_ended is between its two decrements; "closed": the *)
(* slot was given back.                                                    *)
(***************************************************************************)
SocketState == {"unused", "reserved", "live", "sink", "releasing", "closed"}

Capacity == IF QueueDepth = 0 THEN 1 ELSE QueueDepth

LiveFlows(c) == {x \in Flow : x[1] = c /\ socket[x] = "live"}
OpenFlows(c) == {x \in Flow : x[1] = c /\ socket[x] \in {"reserved", "live"}}
Slots == {x \in Flow : socket[x] \in {"reserved", "live", "sink", "releasing"}}
Sinks == {x \in Flow : socket[x] = "sink"}

Init ==
    /\ loop = [c \in Conn |-> "absent"]
    /\ opening = [c \in Conn |-> NoFlow]
    /\ in_hand = [c \in Conn |-> <<>>]
    /\ highest = [c \in Conn |-> NoFlow]
    /\ socket = [x \in Flow |-> "unused"]
    /\ idle_flows = {}
    /\ queue = [x \in Flow |-> <<>>]
    /\ held = 0
    /\ quarantined = 0
    /\ stop = FALSE

-----------------------------------------------------------------------------
(* The slot counters, each one atomic read-modify-write. *)

(* Faulty variants (suffix _Faulty...) are never used by the specification:  *)
(* each is what a plausible slip in the code would make of the definition    *)
(* that follows it, and some property must fail once it takes its place.     *)

TryOpenFlow_FaultyBound == held <= MaxFlows /\ held' = held + 1

TryOpenFlow == held < MaxFlows /\ held' = held + 1

SubSaturating(value, n) == IF value < n THEN 0 ELSE value - n

FlowsClosed_FaultyLeak == held' = held

FlowsClosed == held' = SubSaturating(held, 1)

(* PeerFlows.refuse and PeerFlows.insert raise the mark of seen identifiers. *)
Spend(c, f) ==
    highest' = [highest EXCEPT ![c] = IF f > @ THEN f ELSE @]

(* End the flows in ended: relay and writer are aborted, what was queued is  *)
(* discarded, and each socket becomes a sink that keeps its slot.            *)
Quarantine(ended) ==
    /\ socket' = [x \in Flow |-> IF x \in ended THEN "sink" ELSE socket[x]]
    /\ queue' = [x \in Flow |-> IF x \in ended THEN <<>> ELSE queue[x]]
    /\ idle_flows' = idle_flows \ ended
    /\ quarantined' = quarantined + Cardinality(ended)

(* FlowQueue.push of a datagram (a sequence of one): a full queue drops the  *)
(* newest.                                                                   *)
Push(x, datagram) ==
    queue' = [queue EXCEPT ![x] = IF Len(@) < Capacity THEN @ \o datagram ELSE @]

-----------------------------------------------------------------------------
(* accept_loop hands a new connection to its own receive loop. *)
Accept(c) ==
    /\ ~stop
    /\ loop[c] = "absent"
    /\ loop' = [loop EXCEPT ![c] = "receiving"]
    /\ UNCHANGED <<opening, in_hand, highest, socket, idle_flows, queue, held,
                   quarantined, stop>>

(* A receive loop can handle an event only if stop, polled first, is unset.  *)
(* A malformed datagram, or one for a flow that is neither live nor new, is  *)
(* counted and dropped, which changes nothing here.                          *)
Receiving(c) == ~stop /\ loop[c] = "receiving"

(* Admission::Live: the datagram refreshes the flow and joins its queue. *)
RecvLive(c, f, p) ==
    /\ Receiving(c)
    /\ socket[<<c, f>>] = "live"
    /\ idle_flows' = idle_flows \ {<<c, f>>}
    /\ Push(<<c, f>>, <<p>>)
    /\ UNCHANGED <<loop, opening, in_hand, highest, socket, held, quarantined, stop>>

AdmitsNew_FaultyNoMark(c, f) == Receiving(c) /\ socket[<<c, f>>] # "live"

(* Admission::New: not live and above every identifier seen. *)
AdmitsNew(c, f) ==
    /\ Receiving(c)
    /\ socket[<<c, f>>] # "live"
    /\ f > highest[c]

UnderPeerCap(c) == Cardinality(LiveFlows(c)) < MaxFlowsPerPeer

(* A cap is reached: the flow is refused and its identifier spent. *)
RecvOverCap(c, f) ==
    /\ AdmitsNew(c, f)
    /\ ~UnderPeerCap(c) \/ held >= MaxFlows
    /\ Spend(c, f)
    /\ UNCHANGED <<loop, opening, in_hand, socket, idle_flows, queue, held,
                   quarantined, stop>>

(* Under both caps: a slot is reserved and the loop waits for the socket. *)
RecvNew(c, f, p) ==
    /\ AdmitsNew(c, f)
    /\ UnderPeerCap(c)
    /\ TryOpenFlow
    /\ loop' = [loop EXCEPT ![c] = "opening"]
    /\ opening' = [opening EXCEPT ![c] = f]
    /\ in_hand' = [in_hand EXCEPT ![c] = <<p>>]
    /\ socket' = [socket EXCEPT ![<<c, f>>] = "reserved"]
    /\ UNCHANGED <<highest, idle_flows, queue, quarantined, stop>>

(* The socket is open: the flow is inserted and its first datagram queued. *)
OpenDone(c) ==
    LET x == <<c, opening[c]>> IN
    /\ ~stop
    /\ loop[c] = "opening"
    /\ loop' = [loop EXCEPT ![c] = "receiving"]
    /\ opening' = [opening EXCEPT ![c] = NoFlow]
    /\ in_hand' = [in_hand EXCEPT ![c] = <<>>]
    /\ socket' = [socket EXCEPT ![x] = "live"]
    /\ Spend(c, opening[c])
    /\ Push(x, in_hand[c])
    /\ UNCHANGED <<idle_flows, held, quarantined, stop>>

(* Resolution, bind or connect failed or timed out: the slot is given back   *)
(* and the flow refused.                                                     *)
OpenFailed(c) ==
    /\ ~stop
    /\ loop[c] = "opening"
    /\ loop' = [loop EXCEPT ![c] = "receiving"]
    /\ opening' = [opening EXCEPT ![c] = NoFlow]
    /\ in_hand' = [in_hand EXCEPT ![c] = <<>>]
    /\ socket' = [socket EXCEPT ![<<c, opening[c]>>] = "closed"]
    /\ FlowsClosed
    /\ Spend(c, opening[c])
    /\ UNCHANGED <<idle_flows, queue, quarantined, stop>>

(* Stop arrives while the socket is being opened: the slot is given back and *)
(* the loop leaves, quarantining the connection's flows.                     *)
OpenStopped(c) ==
    LET ended == LiveFlows(c) IN
    /\ stop
    /\ loop[c] = "opening"
    /\ loop' = [loop EXCEPT ![c] = "ended"]
    /\ opening' = [opening EXCEPT ![c] = NoFlow]
    /\ in_hand' = [in_hand EXCEPT ![c] = <<>>]
    /\ socket' = [x \in Flow |-> IF x = <<c, opening[c]>> THEN "closed"
                                 ELSE IF x \in ended THEN "sink"
                                 ELSE socket[x]]
    /\ queue' = [x \in Flow |-> IF x \in ended THEN <<>> ELSE queue[x]]
    /\ idle_flows' = idle_flows \ ended
    /\ quarantined' = quarantined + Cardinality(ended)
    /\ FlowsClosed
    /\ UNCHANGED <<highest, stop>>

Sweep_FaultyEndsAll(c) ==
    /\ Receiving(c)
    /\ LiveFlows(c) \cap idle_flows # {}
    /\ Quarantine(LiveFlows(c))
    /\ UNCHANGED <<loop, opening, in_hand, highest, held, stop>>

Sweep_FaultyOnlyWhenFull(c) ==
    /\ Receiving(c)
    /\ Cardinality(LiveFlows(c)) >= MaxFlowsPerPeer
    /\ LiveFlows(c) \cap idle_flows # {}
    /\ Quarantine(LiveFlows(c) \cap idle_flows)
    /\ UNCHANGED <<loop, opening, in_hand, highest, held, stop>>

(* The sweep ends every flow of the connection that has been idle too long. *)
Sweep(c) ==
    /\ Receiving(c)
    /\ LiveFlows(c) \cap idle_flows # {}
    /\ Quarantine(LiveFlows(c) \cap idle_flows)
    /\ UNCHANGED <<loop, opening, in_hand, highest, held, stop>>

(* The loop leaves on stop or when the peer's connection is gone; the flows  *)
(* end with it and their sockets are quarantined.                            *)
EndConnection(c) ==
    /\ loop[c] = "receiving"
    /\ loop' = [loop EXCEPT ![c] = "ended"]
    /\ Quarantine(LiveFlows(c))
    /\ UNCHANGED <<opening, in_hand, highest, held, stop>>

(* A flow's writer hands the oldest queued datagram to the upstream socket; *)
(* a send error is counted and the writer goes on.                          *)
WriterSend(x) ==
    /\ socket[x] = "live"
    /\ queue[x] # <<>>
    /\ queue' = [queue EXCEPT ![x] = Tail(@)]
    /\ UNCHANGED <<loop, opening, in_hand, highest, socket, idle_flows, held,
                   quarantined, stop>>

(* The relay forwards a reply of the target, which refreshes the flow. *)
RelayReply(x) ==
    /\ socket[x] = "live"
    /\ idle_flows' = idle_flows \ {x}
    /\ UNCHANGED <<loop, opening, in_hand, highest, socket, queue, held, quarantined,
                   stop>>

(* The idle timeout of a live flow elapses. *)
IdleElapses(x) ==
    /\ socket[x] = "live"
    /\ x \notin idle_flows
    /\ idle_flows' = idle_flows \cup {x}
    /\ UNCHANGED <<loop, opening, in_hand, highest, socket, queue, held, quarantined,
                   stop>>

(* A sink ends (quarantine over, stop, unreadable socket or abort): its slot *)
(* guard runs quarantine_ended, first quarantined_flows ...                  *)
SinkEnds(x) ==
    /\ socket[x] = "sink"
    /\ socket' = [socket EXCEPT ![x] = "releasing"]
    /\ quarantined' = SubSaturating(quarantined, 1)
    /\ UNCHANGED <<loop, opening, in_hand, highest, idle_flows, queue, held, stop>>

(* ... then held_flows. *)
SinkReleases(x) ==
    /\ socket[x] = "releasing"
    /\ socket' = [socket EXCEPT ![x] = "closed"]
    /\ FlowsClosed
    /\ UNCHANGED <<loop, opening, in_hand, highest, idle_flows, queue, quarantined,
                   stop>>

(* The role stops: the drain deadline is published once. *)
Stop ==
    /\ ~stop
    /\ stop' = TRUE
    /\ UNCHANGED <<loop, opening, in_hand, highest, socket, idle_flows, queue, held,
                   quarantined>>

Next ==
    \/ \E c \in Conn :
        \/ Accept(c) \/ OpenDone(c) \/ OpenFailed(c) \/ OpenStopped(c)
        \/ Sweep(c) \/ EndConnection(c)
    \/ \E c \in Conn, f \in FlowId :
        \/ RecvOverCap(c, f)
        \/ \E p \in Payload : RecvLive(c, f, p) \/ RecvNew(c, f, p)
    \/ \E x \in Flow :
        \/ WriterSend(x) \/ RelayReply(x) \/ IdleElapses(x)
        \/ SinkEnds(x) \/ SinkReleases(x)
    \/ Stop

(* Every spawned task keeps running: the loop's own timers and its stop      *)
(* branch, the bounded open_upstream, and each sink, whose wait is bounded   *)
(* by QUARANTINE and whose slot guard runs in the same drop.  Peers,         *)
(* targets and the operator owe nothing.                                     *)
Fairness ==
    /\ \A c \in Conn : WF_vars(Sweep(c))
    /\ \A c \in Conn : WF_vars(stop /\ EndConnection(c))
    /\ \A c \in Conn : WF_vars(OpenDone(c) \/ OpenFailed(c) \/ OpenStopped(c))
    /\ \A x \in Flow : WF_vars(SinkEnds(x)) /\ WF_vars(SinkReleases(x))

Spec == Init /\ [][Next]_vars
FairSpec == Spec /\ Fairness

-----------------------------------------------------------------------------
DatagramsOK ==
    /\ in_hand \in [Conn -> Seq(Payload)]
    /\ queue \in [Flow -> Seq(Payload)]
    /\ \A c \in Conn : loop[c] = "opening" => Len(in_hand[c]) = 1
    /\ \A x \in Flow : Len(queue[x]) <= Capacity

(* The state has its shape: the queues stay within their capacity, idle      *)
(* timers belong to live flows, and a loop waits for a socket exactly when   *)
(* it names the flow it opens.                                               *)
TypeOK ==
    /\ loop \in [Conn -> LoopState]
    /\ opening \in [Conn -> FlowId \cup {NoFlow}]
    /\ highest \in [Conn -> FlowId \cup {NoFlow}]
    /\ socket \in [Flow -> SocketState]
    /\ idle_flows \subseteq {x \in Flow : socket[x] = "live"}
    /\ held \in Nat
    /\ quarantined \in Nat
    /\ stop \in BOOLEAN
    /\ \A c \in Conn : loop[c] = "opening" <=> opening[c] # NoFlow
    /\ DatagramsOK

(* The shared counters count what they are meant to count at every instant:  *)
(* held_flows the sockets being opened, live, quarantined or being released, *)
(* quarantined_flows the sinks.  So no early return, failed open, stop in    *)
(* mid-open or aborted sink leaks a slot or gives one back twice, and the    *)
(* saturating subtractions of UdpStats never saturate.                       *)
SlotAccounting ==
    /\ held = Cardinality(Slots)
    /\ quarantined = Cardinality(Sinks)

(* The service never has more upstream sockets than max_flows, whatever the  *)
(* peers send and however their loops interleave on the last slot.           *)
ServiceCap == Cardinality(Slots) <= MaxFlows

(* No connection has more than max_flows_per_peer live or opening flows: the *)
(* check on the table's length is still valid when the awaited socket comes. *)
PeerCap ==
    \A c \in Conn : Cardinality(OpenFlows(c)) <= MaxFlowsPerPeer

(* A flow once ended, expired or refused is never opened again: late and     *)
(* reordered datagrams cannot rebind an identifier to a new socket.          *)
NeverRebound ==
    [][\A x \in Flow :
         /\ socket[x] \in {"sink", "releasing", "closed"}
                => socket'[x] \in {"sink", "releasing", "closed"}
         /\ socket[x] = "unused" /\ x[2] <= highest[x[1]]
                => socket'[x] = "unused"]_vars

(* Nothing running is evicted: a live flow ends only because it was idle for *)
(* its whole timeout or because its connection's loop has ended.             *)
NoEviction ==
    [][\A x \in Flow :
         socket[x] = "live" /\ socket'[x] # "live"
            => x \in idle_flows \/ loop'[x[1]] = "ended"]_vars

(* After stop every slot is given back: each loop leaves, each socket it had *)
(* becomes a sink, each sink ends, and held_flows returns to zero.           *)
StopReleasesAll == stop ~> (held = 0 /\ Slots = {})

(* A flow whose idle timeout elapsed is swept unless traffic refreshes it,   *)
(* also while its connection keeps opening other flows.                      *)
IdleFlowEnds == \A x \in Flow : (x \in idle_flows) ~> (x \notin idle_flows)

(* Every resource stays in its bounds together: the queue of each flow       *)
(* (TypeOK), the sockets of the service and the flows of each peer.          *)
FlowBounds == TypeOK /\ ServiceCap /\ PeerCap

(* Flows do end: at stop all of them, and each once it has been idle.        *)
FlowsEnd == StopReleasesAll /\ IdleFlowEnds

=============================================================================
