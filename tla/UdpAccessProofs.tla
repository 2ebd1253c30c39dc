-------------------------- MODULE UdpAccessProofs ---------------------------
(***************************************************************************)
(* Proofs about UdpAccess for any finite set of clients, any flow limit,   *)
(* any range of identifiers and any number of connections.  That a flow    *)
(* belongs to one client in one incarnation rests on two orders: the       *)
(* connections, of which the table has seen none beyond its current one,   *)
(* and the identifiers of the current one, of which none from next on has  *)
(* been given out.                                                         *)
(***************************************************************************)
EXTENDS UdpAccess, FiniteSetTheorems, TLAPS

(* The dialer caches only the latest connection; the loop replaces its       *)
(* table's connection by a later one; the relay reads the table's.           *)
LaterConnections ==
    /\ cached \in {NoConn, dialled}
    /\ current <= dialled
    /\ loop = "join" => current < conn /\ conn <= dialled
    /\ relay \in {NoConn, current}

(* No identifier of a later connection, nor one from next on of the current  *)
(* one, has been given to a client.                                          *)
GivenInOrder ==
    \A k \in ConnId, f \in FlowId :
        owner[<<k, f>>] # NoClient => k < current \/ (k = current /\ f < next)

Inv ==
    /\ TypeOK /\ TableConsistent /\ TableOfIncarnation /\ ActiveFlowsExact
    /\ LaterConnections /\ GivenInOrder /\ ReplyAttribution

-----------------------------------------------------------------------------
(* Facts about the table *)

(* Any set of flow identifiers is finite. *)
LEMMA FlowsFinite ==
  ASSUME NEW S \in SUBSET FlowId
  PROVE  IsFiniteSet(S) /\ Cardinality(S) \in Nat
<1>1. IsFiniteSet(FlowId)
  BY FS_Interval, AccessAssumption DEF FlowId
<1>2. QED
  BY <1>1, FS_Subset, FS_CardinalityType

(* An empty table is consistent with any history and counts no flow. *)
LEMMA EmptyTable ==
  ASSUME by_client' = EmptyByClient, by_flow' = EmptyByFlow, active' = 0
  PROVE  Live' = {} /\ TableConsistent' /\ TableOfIncarnation' /\ ActiveFlowsExact'
<1>1. Live' = {}
  BY DEF Live, EmptyByFlow
<1>2. Cardinality(Live') = 0
  BY <1>1, FS_EmptySet
<1>3. \A c \in Client, f \in FlowId : by_client'[c] # f /\ by_flow'[f] # c
  BY AccessAssumption DEF EmptyByClient, EmptyByFlow, NoFlow, FlowId
<1>4. QED
  BY <1>1, <1>2, <1>3, AccessAssumption DEF TableConsistent, TableOfIncarnation, ActiveFlowsExact

(* Initially the table is empty and nothing was given out. *)
LEMMA InitInv == Init => Inv
<1> SUFFICES ASSUME Init PROVE Inv
  OBVIOUS
<1>0. Live = {} /\ Cardinality(Live) = 0 /\ 0 \in FlowId
  <2>1. Live = {}
    BY DEF Init, Live, EmptyByFlow
  <2>2. 0 \in FlowId
    BY AccessAssumption DEF FlowId
  <2>3. QED BY <2>1, <2>2, FS_EmptySet
<1>1. TypeOK
  <2>1. /\ by_client \in [Client -> FlowId \cup {NoFlow}]
        /\ by_flow \in [FlowId -> Client \cup {NoClient}]
        /\ owner \in [ConnId \X FlowId -> Client \cup {NoClient}]
    BY DEF Init, EmptyByClient, EmptyByFlow
  <2>2. /\ conn \in 0 .. MaxConn /\ dialled \in 0 .. MaxConn /\ current \in 0 .. MaxConn
        /\ relay \in 0 .. MaxConn /\ cached \in 0 .. dialled
    BY AccessAssumption DEF Init, NoConn
  <2>3. QED
    BY <1>0, <2>1, <2>2 DEF Init, TypeOK, LoopState
<1>2. TableConsistent /\ TableOfIncarnation /\ ActiveFlowsExact
  BY <1>0, AccessAssumption
  DEF Init, TableConsistent, TableOfIncarnation, ActiveFlowsExact, EmptyByClient, EmptyByFlow,
      NoFlow, FlowId
<1>3. LaterConnections /\ GivenInOrder /\ ReplyAttribution
  BY DEF Init, LaterConnections, GivenInOrder, ReplyAttribution, NoConn
<1>4. QED BY <1>1, <1>2, <1>3 DEF Inv

-----------------------------------------------------------------------------
(* The steps that give out and take back flows *)

(* A step that leaves the table leaves what is known of it. *)
LEMMA SameTable ==
  ASSUME TableConsistent, TableOfIncarnation, ActiveFlowsExact,
         UNCHANGED <<by_client, by_flow, active, owner, current>>
  PROVE  Live' = Live /\ TableConsistent' /\ TableOfIncarnation' /\ ActiveFlowsExact'
<1>1. Live' = Live
  BY DEF Live
<1>2. QED
  BY <1>1 DEF TableConsistent, TableOfIncarnation, ActiveFlowsExact

(* A new client gets an identifier that nobody had on this connection: its   *)
(* slot is empty, and so is its history.                                     *)
LEMMA NextIsUnused ==
  ASSUME Inv, loop = "send"
  PROVE  /\ current \in ConnId /\ next \in FlowId /\ client \in Client
         /\ <<current, next>> \in ConnId \X FlowId
         /\ owner[<<current, next>>] = NoClient
         /\ by_flow[next] = NoClient /\ next \notin Live
<1>1. current \in ConnId /\ next \in FlowId /\ client \in Client
  BY DEF Inv, TypeOK
<1>2. owner[<<current, next>>] = NoClient
  BY <1>1, AccessAssumption DEF Inv, GivenInOrder, FlowId, ConnId
<1>3. next \notin Live
  BY <1>1, <1>2 DEF Inv, TableOfIncarnation, Live
<1>4. QED
  BY <1>1, <1>2, <1>3 DEF Live

(* Giving a flow to a new client keeps the invariant. *)
LEMMA SendNewInv ==
  ASSUME Inv, SendNew
  PROVE  Inv'
<1> USE AccessAssumption DEF Inv
<1> DEFINE x == <<current, next>>
<1>1. /\ loop = "send" /\ loop' = "select" /\ client' = NoClient
      /\ UNCHANGED <<conn, current, relay, reply, stop, dialled, alive>>
      /\ by_client[client] = NoFlow /\ Cardinality(Live) < MaxFlows
      /\ next < MaxFlowId /\ next' = next + 1
      /\ by_client' = [by_client EXCEPT ![client] = next]
      /\ by_flow' = [by_flow EXCEPT ![next] = client]
      /\ owner' = [owner EXCEPT ![x] = client]
      /\ idle_flows' = idle_flows \ {next}
      /\ active' = Cardinality(Live')
      /\ cached' = cached \/ cached' = NoConn
  BY DEF SendNew, Continue, TakeId, SendOn, Invalidate
<1>2. /\ current \in ConnId /\ next \in FlowId /\ client \in Client
      /\ x \in ConnId \X FlowId
      /\ owner[x] = NoClient /\ by_flow[next] = NoClient /\ next \notin Live
  BY <1>1, NextIsUnused
<1>3. Live' = Live \cup {next}
  BY <1>1, <1>2 DEF Live, TypeOK
<1>4. Cardinality(Live') = Cardinality(Live) + 1 /\ Cardinality(Live) \in Nat
  <2>1. IsFiniteSet(Live) /\ Cardinality(Live) \in Nat
    BY FlowsFinite DEF Live
  <2>2. Cardinality(Live \cup {next}) = Cardinality(Live) + 1
    BY <1>2, <2>1, FS_AddElement
  <2>3. QED BY <1>3, <2>1, <2>2
<1>5. TypeOK'
  <2>1. /\ by_client' \in [Client -> FlowId \cup {NoFlow}]
        /\ by_flow' \in [FlowId -> Client \cup {NoClient}]
        /\ owner' \in [ConnId \X FlowId -> Client \cup {NoClient}]
    BY <1>1, <1>2 DEF TypeOK
  <2>2. idle_flows' \subseteq Live' /\ active' \in Nat
    BY <1>1, <1>3, <1>4 DEF TypeOK
  <2>3. next' \in FlowId
    BY <1>1, <1>2 DEF FlowId
  <2>4. cached' \in 0 .. dialled
    BY <1>1 DEF TypeOK, NoConn
  <2>5. QED BY <1>1, <2>1, <2>2, <2>3, <2>4 DEF TypeOK, LoopState
<1>6. TableConsistent'
  <2>1. ASSUME NEW c \in Client, NEW f \in FlowId PROVE by_client'[c] = f <=> by_flow'[f] = c
    BY <1>1, <1>2, <2>1 DEF TableConsistent, TypeOK, NoFlow, FlowId
  <2>2. QED BY <1>1, <1>4, <2>1 DEF TableConsistent
<1>7. TableOfIncarnation'
  <2>1. ASSUME NEW f \in Live' PROVE owner'[<<current, f>>] = by_flow'[f]
    <3>1. f \in FlowId /\ <<current, f>> \in ConnId \X FlowId
      BY <1>2 DEF Live
    <3>2. CASE f = next
      BY <1>1, <1>2, <3>2 DEF TypeOK
    <3>3. CASE f # next
      BY <1>1, <1>2, <1>3, <3>1, <3>3 DEF TypeOK, TableOfIncarnation
    <3>4. QED BY <3>2, <3>3
  <2>2. QED BY <1>1, <1>2, <2>1 DEF TableOfIncarnation
<1>8. ActiveFlowsExact'
  BY <1>1 DEF ActiveFlowsExact
<1>9. LaterConnections'
  BY <1>1 DEF LaterConnections
<1>10. GivenInOrder'
  <2>1. ASSUME NEW k \in ConnId, NEW f \in FlowId, owner'[<<k, f>>] # NoClient
        PROVE  k < current \/ (k = current /\ f < next + 1)
    <3>1. CASE <<k, f>> = x
      BY <1>2, <3>1 DEF FlowId
    <3>2. CASE <<k, f>> # x
      <4>1. owner[<<k, f>>] # NoClient
        BY <1>1, <1>2, <2>1, <3>2 DEF TypeOK
      <4>2. k < current \/ (k = current /\ f < next)
        BY <4>1 DEF GivenInOrder
      <4>3. QED BY <1>2, <4>2 DEF FlowId
    <3>3. QED BY <3>1, <3>2
  <2>2. QED BY <1>1, <2>1 DEF GivenInOrder
<1>11. ReplyAttribution'
  <2>1. SUFFICES ASSUME reply # NoReply PROVE owner'[<<reply.conn, reply.flow>>] = reply.client
    BY <1>1 DEF ReplyAttribution
  <2>2. reply \in Reply /\ owner[<<reply.conn, reply.flow>>] = reply.client
    BY <2>1 DEF TypeOK, ReplyAttribution
  <2>3. reply.client # NoClient /\ <<reply.conn, reply.flow>> \in ConnId \X FlowId
    BY <2>2 DEF Reply
  <2>4. <<reply.conn, reply.flow>> # x
    BY <1>2, <2>2, <2>3
  <2>5. QED BY <1>1, <2>2, <2>3, <2>4 DEF TypeOK
<1>12. QED
  BY <1>5, <1>6, <1>7, <1>8, <1>9, <1>10, <1>11

(* Expiring idle flows keeps the two maps inverse and the count exact. *)
LEMMA SweepInv ==
  ASSUME Inv, Sweep
  PROVE  Inv'
<1> USE AccessAssumption DEF Inv
<1>1. /\ Expire(idle_flows) /\ idle_flows' = {} /\ active' = Cardinality(Live')
      /\ UNCHANGED <<loop, client, conn, current, relay, reply, stop, dialVars, next, owner>>
  BY DEF Sweep
<1>2. /\ by_flow' = [f \in FlowId |-> IF f \in idle_flows THEN NoClient ELSE by_flow[f]]
      /\ by_client' = [c \in Client |-> IF \E f \in idle_flows : by_flow[f] = c
                                        THEN NoFlow ELSE by_client[c]]
  BY <1>1 DEF Expire
<1>3. Live' = Live \ idle_flows /\ Live' \subseteq Live
  BY <1>2 DEF Live
<1>4. Cardinality(Live') \in Nat /\ Cardinality(Live') <= Cardinality(Live)
  <2>1. IsFiniteSet(Live)
    BY FlowsFinite DEF Live
  <2>2. Live \ idle_flows \in SUBSET Live
    OBVIOUS
  <2>3. Cardinality(Live \ idle_flows) \in Nat
        /\ Cardinality(Live \ idle_flows) <= Cardinality(Live)
    BY <2>1, <2>2, FS_Subset, FS_CardinalityType
  <2>4. QED BY <1>3, <2>3
<1>5. /\ by_client' \in [Client -> FlowId \cup {NoFlow}]
      /\ by_flow' \in [FlowId -> Client \cup {NoClient}]
  BY <1>2 DEF TypeOK
<1>6. TypeOK'
  BY <1>1, <1>3, <1>4, <1>5 DEF TypeOK, dialVars
<1>7. TableConsistent'
  <2>1. ASSUME NEW c \in Client, NEW f \in FlowId PROVE by_client'[c] = f <=> by_flow'[f] = c
    <3>1. by_client[c] = f <=> by_flow[f] = c
      BY DEF TableConsistent
    <3>2. idle_flows \subseteq FlowId /\ NoFlow # f /\ NoClient # c
      BY DEF TypeOK, Live, NoFlow, FlowId
    <3>3. \A g \in idle_flows : by_flow[g] = c => by_client[c] = g
      BY <3>2 DEF TableConsistent
    <3>4. CASE \E g \in idle_flows : by_flow[g] = c
      <4>1. by_client'[c] = NoFlow
        BY <1>2, <3>4
      <4>2. by_flow'[f] # c
        BY <1>2, <3>1, <3>2, <3>3, <3>4
      <4>3. QED BY <3>2, <4>1, <4>2
    <3>5. CASE ~\E g \in idle_flows : by_flow[g] = c
      BY <1>2, <3>1, <3>2, <3>5
    <3>6. QED BY <3>4, <3>5
  <2>2. Cardinality(Live') <= MaxFlows
    <3>1. Cardinality(Live) <= MaxFlows /\ Cardinality(Live) \in Nat
      BY DEF TableConsistent, TypeOK, ActiveFlowsExact
    <3>2. QED BY <1>4, <3>1
  <2>3. QED BY <2>1, <2>2 DEF TableConsistent
<1>8. TableOfIncarnation'
  <2>1. \A f \in Live' : f \in Live /\ f \in FlowId /\ by_flow'[f] = by_flow[f]
    BY <1>2, <1>3 DEF Live
  <2>2. QED BY <1>1, <2>1 DEF TableOfIncarnation
<1>9. ActiveFlowsExact' /\ LaterConnections' /\ GivenInOrder' /\ ReplyAttribution'
  BY <1>1 DEF ActiveFlowsExact, LaterConnections, GivenInOrder, ReplyAttribution, dialVars
<1>10. QED
  BY <1>6, <1>7, <1>8, <1>9

(* A new incarnation starts with an empty table on a later connection. *)
LEMMA NewIncarnationInv ==
  ASSUME Inv, NewIncarnation
  PROVE  Inv'
<1> USE AccessAssumption DEF Inv
<1>1. /\ loop = "join" /\ loop' = "send" /\ current' = conn
      /\ by_client' = EmptyByClient /\ by_flow' = EmptyByFlow /\ idle_flows' = {}
      /\ next' = 0 /\ active' = 0 /\ relay' = conn /\ reply' = NoReply
      /\ UNCHANGED <<client, conn, stop, dialVars, owner>>
  BY DEF NewIncarnation
<1>2. Live' = {} /\ TableConsistent' /\ TableOfIncarnation' /\ ActiveFlowsExact'
  BY <1>1, EmptyTable
<1>3. TypeOK'
  <2>1. /\ by_client' \in [Client -> FlowId \cup {NoFlow}]
        /\ by_flow' \in [FlowId -> Client \cup {NoClient}]
    BY <1>1 DEF EmptyByClient, EmptyByFlow
  <2>2. next' \in FlowId
    BY <1>1 DEF FlowId
  <2>3. conn \in ConnId /\ client \in Client
    BY <1>1 DEF TypeOK
  <2>4. QED BY <1>1, <1>2, <2>1, <2>2, <2>3 DEF TypeOK, LoopState, dialVars, ConnId
<1>4. LaterConnections'
  BY <1>1 DEF LaterConnections, TypeOK, dialVars
<1>5. GivenInOrder'
  <2>1. ASSUME NEW k \in ConnId, NEW f \in FlowId, owner[<<k, f>>] # NoClient PROVE k < conn
    <3>1. k <= current /\ current < conn /\ current \in Int /\ conn \in Int /\ k \in Int
      BY <1>1, <2>1 DEF GivenInOrder, LaterConnections, TypeOK, ConnId
    <3>2. QED BY <3>1
  <2>2. QED BY <1>1, <2>1 DEF GivenInOrder
<1>6. ReplyAttribution'
  BY <1>1 DEF ReplyAttribution
<1>7. QED
  BY <1>2, <1>3, <1>4, <1>5, <1>6

-----------------------------------------------------------------------------
(* The other steps *)

(* The steps of the loop that leave the table: receiving, dialling, dropping *)
(* a datagram, refreshing a known client's flow, and stopping.               *)
LEMMA LoopInv ==
  ASSUME Inv,
         \/ DialCached \/ DialNew \/ DialFailed \/ DropOversize \/ SendKnown \/ RefuseCap
         \/ RefuseExhausted \/ StopSeen
         \/ \E c \in Client : Recv(c)
  PROVE  Inv'
<1> USE AccessAssumption DEF Inv
<1>1. /\ UNCHANGED <<by_client, by_flow, next, owner, current, stop>>
      /\ reply' \in {reply, NoReply}
      /\ relay' \in {relay, NoConn}
      /\ idle_flows' \subseteq idle_flows
      /\ active' \in {active, Cardinality(Live)}
  BY DEF DialCached, DialNew, DialFailed, Dialled, DropOversize, SendKnown, RefuseCap,
         RefuseExhausted, StopSeen, Recv, Continue, tableVars
<1>2. active' = active
  BY <1>1 DEF ActiveFlowsExact
<1>3. Live' = Live /\ TableConsistent' /\ TableOfIncarnation' /\ ActiveFlowsExact'
  BY <1>1, <1>2, SameTable
<1>4. GivenInOrder' /\ ReplyAttribution'
  BY <1>1 DEF GivenInOrder, ReplyAttribution
<1>5. /\ dialled' \in 0 .. MaxConn /\ dialled <= dialled'
      /\ alive' \subseteq 1 .. dialled'
      /\ cached' \in 0 .. dialled' /\ cached' \in {NoConn, dialled'}
  <2>1. CASE DialNew
    BY <2>1 DEF DialNew, TypeOK
  <2>2. CASE ~DialNew
    <3>1. UNCHANGED <<dialled, alive>> /\ cached' \in {cached, NoConn}
      BY <2>2 DEF DialCached, DialFailed, Dialled, DropOversize, SendKnown, RefuseCap,
                  RefuseExhausted, StopSeen, Recv, Continue, SendOn, Invalidate, dialVars
    <3>2. QED BY <3>1 DEF TypeOK, LaterConnections, NoConn
  <2>3. QED BY <2>1, <2>2
<1>6. /\ loop' \in LoopState /\ client' \in Client \cup {NoClient} /\ conn' \in 0 .. MaxConn
      /\ loop' \in {"dial", "join", "send"} => client' \in Client
      /\ loop' \in {"join", "send"} => conn' \in ConnId
      /\ loop' = "send" => conn' = current
      /\ loop' = "join" => current < conn' /\ conn' <= dialled'
  <2>1. CASE DialCached \/ DialNew
    <3>1. /\ conn' \in {cached, dialled + 1} /\ conn' = cached' /\ conn' \in ConnId
          /\ loop' = (IF conn' = current THEN "send" ELSE "join")
          /\ client' = client /\ client \in Client
      BY <2>1 DEF DialCached, DialNew, Dialled, TypeOK, ConnId, NoConn, dialVars
    <3>2. conn' = dialled' /\ current <= dialled'
      BY <1>5, <3>1 DEF LaterConnections, TypeOK, NoConn, ConnId
    <3>3. QED BY <3>1, <3>2 DEF TypeOK, LoopState, ConnId
  <2>2. CASE \E c \in Client : Recv(c)
    BY <2>2 DEF Recv, TypeOK, LoopState
  <2>3. CASE DialFailed \/ DropOversize \/ SendKnown \/ RefuseCap \/ RefuseExhausted \/ StopSeen
    BY <2>3 DEF DialFailed, DropOversize, SendKnown, RefuseCap, RefuseExhausted, StopSeen,
                Continue, TypeOK, LoopState
  <2>4. QED BY <2>1, <2>2, <2>3
<1>7. TypeOK'
  BY <1>1, <1>2, <1>3, <1>5, <1>6 DEF TypeOK, NoConn
<1>8. LaterConnections'
  BY <1>1, <1>5, <1>6 DEF LaterConnections, TypeOK
<1>9. QED
  BY <1>3, <1>4, <1>7, <1>8

(* A reply that the relay takes from the table's connection is for the       *)
(* client to whom its flow was given.                                        *)
LEMMA RelayRecvInv ==
  ASSUME Inv, NEW f \in FlowId, RelayRecv(f)
  PROVE  Inv'
<1> USE AccessAssumption DEF Inv
<1>1. /\ relay \in alive /\ by_flow[f] # NoClient
      /\ reply' = [client |-> by_flow[f], conn |-> relay, flow |-> f]
      /\ idle_flows' = idle_flows \ {f}
      /\ UNCHANGED <<loop, client, conn, current, relay, stop, dialVars, by_client, by_flow,
                     next, active, owner>>
  BY DEF RelayRecv
<1>2. Live' = Live /\ TableConsistent' /\ TableOfIncarnation' /\ ActiveFlowsExact'
  BY <1>1, SameTable
<1>3. relay = current /\ relay \in ConnId /\ f \in Live
  BY <1>1 DEF LaterConnections, TypeOK, NoConn, ConnId, Live
<1>4. reply' \in Reply
  BY <1>1, <1>3 DEF TypeOK, Reply
<1>5. ReplyAttribution'
  BY <1>1, <1>3 DEF ReplyAttribution, TableOfIncarnation
<1>6. TypeOK'
  BY <1>1, <1>2, <1>4 DEF TypeOK, dialVars
<1>7. LaterConnections' /\ GivenInOrder'
  BY <1>1 DEF LaterConnections, GivenInOrder, dialVars
<1>8. QED
  BY <1>2, <1>5, <1>6, <1>7

(* The rest of the relay, the timers and the environment. *)
LEMMA EnvironmentInv ==
  ASSUME Inv,
         \/ RelaySend \/ RelayEnds \/ Stop
         \/ \E f \in FlowId : IdleElapses(f)
         \/ \E k \in ConnId : ConnLost(k)
         \/ UNCHANGED vars
  PROVE  Inv'
<1> USE DEF Inv
<1>1. /\ UNCHANGED <<by_client, by_flow, next, active, owner, current, loop, client, conn,
                     dialled, cached>>
      /\ reply' \in {reply, NoReply}
      /\ relay' \in {relay, NoConn}
      /\ alive' \subseteq alive
      /\ idle_flows' \subseteq Live
      /\ stop' \in BOOLEAN
  BY DEF RelaySend, RelayEnds, Stop, IdleElapses, ConnLost, vars, dialVars, tableVars, TypeOK
<1>2. Live' = Live /\ TableConsistent' /\ TableOfIncarnation' /\ ActiveFlowsExact'
  BY <1>1, SameTable
<1>3. TypeOK'
  <2>1. relay' \in 0 .. MaxConn
    BY <1>1, AccessAssumption DEF TypeOK, NoConn
  <2>2. QED BY <1>1, <1>2, <2>1 DEF TypeOK
<1>4. LaterConnections' /\ GivenInOrder' /\ ReplyAttribution'
  BY <1>1 DEF LaterConnections, GivenInOrder, ReplyAttribution
<1>5. QED
  BY <1>2, <1>3, <1>4

-----------------------------------------------------------------------------
(* The theorems *)

(* Every step keeps the inductive invariant. *)
LEMMA NextInv == Inv /\ [Next]_vars => Inv'
BY SendNewInv, SweepInv, NewIncarnationInv, LoopInv, RelayRecvInv, EnvironmentInv
DEF Next, LoopStep

(* The invariant holds in every reachable state. *)
THEOREM InvAlways == Spec => []Inv
BY InitInv, NextInv, PTL DEF Spec

(* The client table is sound: its maps are inverse, within the cap, of the   *)
(* current incarnation only, and counted exactly, through refusals, expiry   *)
(* and redials.                                                              *)
THEOREM TableSoundAlways == Spec => []TableSound
<1>1. Inv => TableSound
  BY DEF Inv, TableSound
<1>2. QED BY <1>1, InvAlways, PTL

(* A reply in the relay's hands, whatever happened to the table since it was *)
(* looked up, is for the client to whom its flow was given.                  *)
THEOREM ReplyAttributionAlways == Spec => []ReplyAttribution
<1>1. Inv => ReplyAttribution
  BY DEF Inv
<1>2. QED BY <1>1, InvAlways, PTL

(* Within an incarnation no identifier is given to a second client: the      *)
(* relay's late replies cannot reach a stranger.                             *)
THEOREM IdsNeverReusedAlways == Spec => IdsNeverReused
<1> DEFINE Kept == \A x \in ConnId \X FlowId : owner[x] # NoClient => owner'[x] = owner[x]
<1>1. Inv /\ [Next]_vars => [Kept]_vars
  <2> SUFFICES ASSUME Inv, Next PROVE Kept
    OBVIOUS
  <2>1. CASE SendNew
    <3>1. loop = "send" /\ owner' = [owner EXCEPT ![<<current, next>>] = client]
      BY <2>1 DEF SendNew, Continue
    <3>2. owner[<<current, next>>] = NoClient
      BY <3>1, NextIsUnused
    <3>3. QED BY <3>1, <3>2 DEF Inv, TypeOK
  <2>2. CASE ~SendNew
    <3>1. owner' = owner
      BY <2>2 DEF Next, LoopStep, DialCached, DialNew, DialFailed, Dialled, NewIncarnation,
                  DropOversize, SendKnown, RefuseCap, RefuseExhausted, Sweep, StopSeen, Recv,
                  RelayRecv, IdleElapses, RelaySend, RelayEnds, ConnLost, Stop, tableVars
    <3>2. QED BY <3>1
  <2>3. QED BY <2>1, <2>2
<1>2. QED BY <1>1, InvAlways, PTL DEF Spec, IdsNeverReused

=============================================================================
