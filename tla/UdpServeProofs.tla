--------------------------- MODULE UdpServeProofs ---------------------------
(***************************************************************************)
(* Proofs about UdpServe for any set of connections, any limits and any    *)
(* range of identifiers.  The inductive invariant adds to the type and the *)
(* slot accounting what the receive loop knows between two awaits: the     *)
(* flow it is opening is the only reserved one, and the mark of seen       *)
(* identifiers covers every flow that ever got a socket.                   *)
(***************************************************************************)
EXTENDS UdpServe, FiniteSetTheorems, SequenceTheorems, TLAPS

(* A slot is reserved exactly while its connection's loop is opening it. *)
OpeningReserved ==
    \A x \in Flow :
        socket[x] = "reserved" <=> loop[x[1]] = "opening" /\ opening[x[1]] = x[2]

(* While a connection lasts, its mark is at or above every flow that had a   *)
(* socket.                                                                   *)
MarkCoversUsed ==
    \A x \in Flow :
        socket[x] \in {"live", "sink", "releasing", "closed"}
            /\ loop[x[1]] # "ended"
            => x[2] <= highest[x[1]]

Shape == TypeOK /\ OpeningReserved /\ MarkCoversUsed

-----------------------------------------------------------------------------
(* Facts about the constants *)

(* The flows of a service are finitely many. *)
LEMMA FlowFinite == IsFiniteSet(Flow)
<1>1. IsFiniteSet(FlowId)
  BY FS_Interval, ServeAssumption DEF FlowId
<1>2. QED
  BY <1>1, FS_Product, ServeAssumption DEF Flow

(* A flow is the pair of its connection and its identifier. *)
LEMMA FlowPair ==
  ASSUME NEW x \in Flow
  PROVE  x[1] \in Conn /\ x[2] \in FlowId /\ x = <<x[1], x[2]>>
BY DEF Flow

(* Connection and identifier make a flow. *)
LEMMA PairIsFlow ==
  ASSUME NEW c \in Conn, NEW f \in FlowId
  PROVE  <<c, f>> \in Flow
BY DEF Flow

(* Queues hold a positive, natural number of datagrams. *)
LEMMA CapacityPositive == Capacity \in Nat /\ Capacity >= 1
BY ServeAssumption DEF Capacity

(* Any set of flows is finite and has a natural cardinality. *)
LEMMA FlowSubset ==
  ASSUME NEW S \in SUBSET Flow
  PROVE  IsFiniteSet(S) /\ Cardinality(S) \in Nat
BY FlowFinite, FS_Subset, FS_CardinalityType

-----------------------------------------------------------------------------
(* Type and loop structure *)

(* Initially no loop runs and nothing is reserved or seen. *)
LEMMA InitShape == Init => Shape
<1> SUFFICES ASSUME Init PROVE Shape
  OBVIOUS
<1>1. TypeOK
  <2>1. DatagramsOK
    BY CapacityPositive DEF Init, DatagramsOK
  <2>2. idle_flows \subseteq {x \in Flow : socket[x] = "live"}
    BY DEF Init
  <2>3. QED
    BY <2>1, <2>2 DEF Init, TypeOK, LoopState, SocketState
<1>2. OpeningReserved
  BY FlowPair DEF Init, OpeningReserved
<1>3. MarkCoversUsed
  BY DEF Init, MarkCoversUsed
<1>4. QED
  BY <1>1, <1>2, <1>3 DEF Shape

(* Pushing one datagram keeps a queue within its capacity. *)
LEMMA PushBounded ==
  ASSUME DatagramsOK, NEW x \in Flow, NEW d \in Seq(Payload), Len(d) = 1, Push(x, d)
  PROVE  /\ queue' \in [Flow -> Seq(Payload)]
         /\ \A y \in Flow : Len(queue'[y]) <= Capacity
<1> DEFINE q == queue[x]
<1>1. q \in Seq(Payload) /\ Len(q) \in Nat /\ Len(q) <= Capacity
  BY DEF DatagramsOK
<1>2. q \o d \in Seq(Payload) /\ Len(q \o d) = Len(q) + Len(d)
  <2> HIDE DEF q
  <2>1. QED
    BY <1>1, ConcatProperties, Zenon
<1>3. queue' = [queue EXCEPT ![x] = IF Len(q) < Capacity THEN q \o d ELSE q]
  BY DEF Push
<1> HIDE DEF q
<1>4. QED
  BY <1>1, <1>2, <1>3, CapacityPositive DEF DatagramsOK

(* Each step keeps the datagrams it touches within the queues' capacity. *)
LEMMA NextDatagrams ==
  DatagramsOK /\ loop \in [Conn -> LoopState] /\ [Next]_vars => DatagramsOK'
<1> SUFFICES ASSUME DatagramsOK, loop \in [Conn -> LoopState], [Next]_vars
             PROVE  DatagramsOK'
  OBVIOUS
<1>0. <<>> \in Seq(Payload) /\ Len(<<>>) = 0
  BY EmptySeq
<1> USE CapacityPositive
<1>1. ASSUME NEW c \in Conn, OpenDone(c) PROVE DatagramsOK'
  <2>1. CASE <<c, opening[c]>> \in Flow
    <3>1. in_hand[c] \in Seq(Payload) /\ Len(in_hand[c]) = 1
      BY <1>1 DEF OpenDone, DatagramsOK
    <3>2. Push(<<c, opening[c]>>, in_hand[c])
      BY <1>1 DEF OpenDone
    <3>3. /\ queue' \in [Flow -> Seq(Payload)]
          /\ \A y \in Flow : Len(queue'[y]) <= Capacity
      BY <2>1, <3>1, <3>2, PushBounded
    <3>4. in_hand' = [in_hand EXCEPT ![c] = <<>>]
          /\ loop' = [loop EXCEPT ![c] = "receiving"]
      BY <1>1 DEF OpenDone
    <3>5. QED
      BY <1>0, <3>3, <3>4 DEF DatagramsOK
  <2>2. CASE <<c, opening[c]>> \notin Flow
    <3>1. queue' = queue
      BY <1>1, <2>2 DEF OpenDone, Push, DatagramsOK
    <3>2. QED
      BY <1>0, <1>1, <3>1 DEF OpenDone, DatagramsOK
  <2>3. QED BY <2>1, <2>2
<1>2. ASSUME NEW c \in Conn, Accept(c) \/ OpenFailed(c) PROVE DatagramsOK'
  BY <1>0, <1>2 DEF Accept, OpenFailed, DatagramsOK
<1>3. ASSUME NEW c \in Conn, OpenStopped(c) PROVE DatagramsOK'
  BY <1>0, <1>3 DEF OpenStopped, DatagramsOK
<1>4. ASSUME NEW c \in Conn, Sweep(c) \/ EndConnection(c) PROVE DatagramsOK'
  <2>1. \E ended : Quarantine(ended)
    BY <1>4 DEF Sweep, EndConnection
  <2>2. /\ queue' \in [Flow -> Seq(Payload)]
        /\ \A x \in Flow : Len(queue'[x]) <= Capacity
    BY <1>0, <2>1 DEF Quarantine, DatagramsOK
  <2>3. QED
    BY <1>4, <2>2 DEF Sweep, EndConnection, DatagramsOK
<1>5. ASSUME NEW c \in Conn, NEW f \in FlowId, NEW p \in Payload,
             RecvLive(c, f, p)
      PROVE  DatagramsOK'
  <2>1. <<p>> \in Seq(Payload) /\ Len(<<p>>) = 1
    OBVIOUS
  <2>2. /\ queue' \in [Flow -> Seq(Payload)]
        /\ \A y \in Flow : Len(queue'[y]) <= Capacity
    BY <1>5, <2>1, PairIsFlow, PushBounded DEF RecvLive
  <2>3. QED
    BY <1>5, <2>2 DEF RecvLive, DatagramsOK
<1>6. ASSUME NEW c \in Conn, NEW f \in FlowId, NEW p \in Payload,
             RecvNew(c, f, p)
      PROVE  DatagramsOK'
  <2>1. <<p>> \in Seq(Payload) /\ Len(<<p>>) = 1
    OBVIOUS
  <2>2. in_hand' = [in_hand EXCEPT ![c] = <<p>>] /\ queue' = queue
        /\ loop' = [loop EXCEPT ![c] = "opening"]
    BY <1>6 DEF RecvNew
  <2>3. QED
    BY <2>1, <2>2 DEF DatagramsOK
<1>7. ASSUME NEW x \in Flow, WriterSend(x) PROVE DatagramsOK'
  <2> DEFINE q == queue[x]
  <2>1. q \in Seq(Payload) /\ q # <<>> /\ Len(q) <= Capacity
    BY <1>7 DEF WriterSend, DatagramsOK
  <2>2. Tail(q) \in Seq(Payload) /\ Len(Tail(q)) = Len(q) - 1 /\ Len(q) \in Nat
    BY <2>1
  <2>3. queue' = [queue EXCEPT ![x] = Tail(q)] /\ UNCHANGED <<in_hand, loop>>
    BY <1>7 DEF WriterSend
  <2> HIDE DEF q
  <2>4. QED
    BY <2>1, <2>2, <2>3 DEF DatagramsOK
<1>8. ASSUME UNCHANGED <<loop, in_hand, queue>> PROVE DatagramsOK'
  BY <1>8 DEF DatagramsOK
<1>9. QED
  BY <1>1, <1>2, <1>3, <1>4, <1>5, <1>6, <1>7, <1>8
  DEF Next, vars, RecvOverCap, RelayReply, IdleElapses, SinkEnds, SinkReleases,
      Stop

(* Ending a set of live flows of one connection keeps the types. *)
LEMMA QuarantineType ==
  ASSUME TypeOK, NEW ended \in SUBSET Flow, Quarantine(ended)
  PROVE  /\ socket' \in [Flow -> SocketState]
         /\ idle_flows' \subseteq {x \in Flow : socket'[x] = "live"}
         /\ quarantined' \in Nat
BY FlowSubset DEF TypeOK, Quarantine, SocketState

(* Each step keeps the type and the structure of the loops. *)
LEMMA NextShape == Shape /\ [Next]_vars => Shape'
<1> SUFFICES ASSUME Shape, [Next]_vars PROVE Shape'
  OBVIOUS
<1> USE DEF Shape
<1>0. DatagramsOK'
  BY NextDatagrams DEF TypeOK
<1>1. ASSUME NEW c \in Conn, Accept(c) PROVE Shape'
  <2>1. TypeOK'
    BY <1>0, <1>1 DEF Accept, TypeOK, LoopState
  <2>2. OpeningReserved' /\ MarkCoversUsed'
    BY <1>1, FlowPair DEF Accept, TypeOK, OpeningReserved, MarkCoversUsed
  <2>3. QED BY <2>1, <2>2
<1>2. ASSUME NEW c \in Conn, OpenDone(c) PROVE Shape'
  <2>1. opening[c] \in FlowId /\ <<c, opening[c]>> \in Flow
        /\ socket[<<c, opening[c]>>] = "reserved"
    BY <1>2, PairIsFlow DEF OpenDone, TypeOK, OpeningReserved, NoFlow
  <2>2. TypeOK'
    BY <1>0, <1>2, <2>1 DEF OpenDone, TypeOK, LoopState, SocketState, Spend,
                            FlowId, NoFlow
  <2>3. OpeningReserved'
    BY <1>2, <2>1, FlowPair DEF OpenDone, TypeOK, OpeningReserved, FlowId, NoFlow
  <2>4. MarkCoversUsed'
    BY <1>2, <2>1, FlowPair, ServeAssumption
    DEF OpenDone, TypeOK, MarkCoversUsed, Spend, FlowId, NoFlow
  <2>5. QED BY <2>2, <2>3, <2>4
<1>3. ASSUME NEW c \in Conn, OpenFailed(c) PROVE Shape'
  <2>1. opening[c] \in FlowId /\ <<c, opening[c]>> \in Flow
        /\ socket[<<c, opening[c]>>] = "reserved"
    BY <1>3, PairIsFlow DEF OpenFailed, TypeOK, OpeningReserved, NoFlow
  <2>2. TypeOK'
    BY <1>0, <1>3, <2>1 DEF OpenFailed, TypeOK, LoopState, SocketState, Spend,
                      FlowsClosed, SubSaturating, FlowId, NoFlow
  <2>3. OpeningReserved'
    BY <1>3, <2>1, FlowPair DEF OpenFailed, TypeOK, OpeningReserved, FlowId, NoFlow
  <2>4. MarkCoversUsed'
    BY <1>3, <2>1, FlowPair, ServeAssumption
    DEF OpenFailed, TypeOK, MarkCoversUsed, Spend, FlowId, NoFlow
  <2>5. QED BY <2>2, <2>3, <2>4
<1>4. ASSUME NEW c \in Conn, OpenStopped(c) PROVE Shape'
  <2>1. opening[c] \in FlowId /\ <<c, opening[c]>> \in Flow
        /\ socket[<<c, opening[c]>>] = "reserved"
    BY <1>4, PairIsFlow DEF OpenStopped, TypeOK, OpeningReserved, NoFlow
  <2>2. Cardinality(LiveFlows(c)) \in Nat
    BY FlowSubset DEF LiveFlows
  <2>3. TypeOK'
    BY <1>0, <1>4, <2>1, <2>2 DEF OpenStopped, TypeOK, LoopState, SocketState,
                      FlowsClosed, SubSaturating, FlowId, NoFlow, LiveFlows
  <2>4. OpeningReserved'
    BY <1>4, <2>1, FlowPair DEF OpenStopped, TypeOK, OpeningReserved, FlowId,
                                NoFlow, LiveFlows
  <2>5. MarkCoversUsed'
    BY <1>4, <2>1, FlowPair DEF OpenStopped, TypeOK, MarkCoversUsed, LiveFlows
  <2>6. QED BY <2>3, <2>4, <2>5
<1>5. ASSUME NEW c \in Conn, Sweep(c) PROVE Shape'
  <2>1. LiveFlows(c) \cap idle_flows \in SUBSET Flow
    BY DEF LiveFlows
  <2>2. TypeOK'
    BY <1>0, <1>5, <2>1, QuarantineType DEF Sweep, TypeOK
  <2>3. OpeningReserved' /\ MarkCoversUsed'
    BY <1>5, <2>1, FlowPair
    DEF Sweep, Quarantine, TypeOK, OpeningReserved, MarkCoversUsed, LiveFlows
  <2>4. QED BY <2>2, <2>3
<1>6. ASSUME NEW c \in Conn, EndConnection(c) PROVE Shape'
  <2>1. LiveFlows(c) \in SUBSET Flow
    BY DEF LiveFlows
  <2>2. TypeOK'
    BY <1>0, <1>6, <2>1, QuarantineType DEF EndConnection, TypeOK, LoopState
  <2>3. OpeningReserved' /\ MarkCoversUsed'
    BY <1>6, <2>1, FlowPair
    DEF EndConnection, Quarantine, TypeOK, OpeningReserved, MarkCoversUsed,
        LiveFlows
  <2>4. QED BY <2>2, <2>3
<1>7. ASSUME NEW c \in Conn, NEW f \in FlowId, NEW p \in Payload,
             RecvLive(c, f, p)
      PROVE  Shape'
  <2>1. TypeOK'
    BY <1>0, <1>7 DEF RecvLive, TypeOK
  <2>2. OpeningReserved' /\ MarkCoversUsed'
    BY <1>7 DEF RecvLive, OpeningReserved, MarkCoversUsed
  <2>3. QED BY <2>1, <2>2
<1>8. ASSUME NEW c \in Conn, NEW f \in FlowId, RecvOverCap(c, f) PROVE Shape'
  <2>1. TypeOK'
    BY <1>0, <1>8 DEF RecvOverCap, Spend, TypeOK
  <2>2. OpeningReserved'
    BY <1>8 DEF RecvOverCap, OpeningReserved
  <2>3. MarkCoversUsed'
    BY <1>8, FlowPair, ServeAssumption
    DEF RecvOverCap, Spend, TypeOK, MarkCoversUsed, FlowId, NoFlow
  <2>4. QED BY <2>1, <2>2, <2>3
<1>9. ASSUME NEW c \in Conn, NEW f \in FlowId, NEW p \in Payload,
             RecvNew(c, f, p)
      PROVE  Shape'
  <2>1. <<c, f>> \in Flow
    BY PairIsFlow
  <2>2. TypeOK'
    BY <1>0, <1>9, <2>1 DEF RecvNew, AdmitsNew, Receiving, TryOpenFlow, TypeOK,
                      LoopState, SocketState, FlowId, NoFlow
  <2>3. OpeningReserved'
    BY <1>9, <2>1, FlowPair DEF RecvNew, AdmitsNew, Receiving, TypeOK,
                                OpeningReserved
  <2>4. MarkCoversUsed'
    BY <1>9, <2>1, FlowPair DEF RecvNew, TypeOK, MarkCoversUsed, AdmitsNew,
                                Receiving
  <2>5. QED BY <2>2, <2>3, <2>4
<1>10. ASSUME NEW x \in Flow, WriterSend(x) PROVE Shape'
  BY <1>0, <1>10 DEF WriterSend, TypeOK, OpeningReserved, MarkCoversUsed
<1>11. ASSUME NEW x \in Flow, RelayReply(x) PROVE Shape'
  BY <1>0, <1>11 DEF RelayReply, TypeOK, OpeningReserved, MarkCoversUsed
<1>12. ASSUME NEW x \in Flow, IdleElapses(x) PROVE Shape'
  BY <1>0, <1>12 DEF IdleElapses, TypeOK, OpeningReserved, MarkCoversUsed
<1>13. ASSUME NEW x \in Flow, SinkEnds(x) PROVE Shape'
  <2>1. TypeOK'
    BY <1>0, <1>13 DEF SinkEnds, SubSaturating, TypeOK, SocketState
  <2>2. OpeningReserved' /\ MarkCoversUsed'
    BY <1>13 DEF SinkEnds, TypeOK, OpeningReserved, MarkCoversUsed
  <2>3. QED BY <2>1, <2>2
<1>14. ASSUME NEW x \in Flow, SinkReleases(x) PROVE Shape'
  <2>1. TypeOK'
    BY <1>0, <1>14 DEF SinkReleases, FlowsClosed, SubSaturating, TypeOK, SocketState
  <2>2. OpeningReserved' /\ MarkCoversUsed'
    BY <1>14 DEF SinkReleases, TypeOK, OpeningReserved, MarkCoversUsed
  <2>3. QED BY <2>1, <2>2
<1>15. CASE Stop
  BY <1>0, <1>15 DEF Stop, TypeOK, OpeningReserved, MarkCoversUsed
<1>16. CASE UNCHANGED vars
  BY <1>0, <1>16 DEF vars, TypeOK, OpeningReserved, MarkCoversUsed
<1>17. QED
  BY <1>1, <1>2, <1>3, <1>4, <1>5, <1>6, <1>7, <1>8, <1>9, <1>10, <1>11,
     <1>12, <1>13, <1>14, <1>15, <1>16 DEF Next

(* The structure of the loops holds throughout. *)
LEMMA ShapeAlways == Spec => []Shape
<1>1. QED
  BY InitShape, NextShape, PTL DEF Spec

(* TypeOK holds in every reachable state. *)
THEOREM TypeCorrect == Spec => []TypeOK
<1>1. Shape => TypeOK
  BY DEF Shape
<1>2. QED
  BY <1>1, ShapeAlways, PTL

-----------------------------------------------------------------------------
(* Slot accounting *)

(* No slot is held initially. *)
LEMMA InitAccounting == Init => SlotAccounting
<1> SUFFICES ASSUME Init PROVE SlotAccounting
  OBVIOUS
<1>1. Slots = {} /\ Sinks = {}
  BY DEF Init, Slots, Sinks
<1>2. QED
  BY <1>1, FS_EmptySet DEF Init, SlotAccounting

(* A slot given back is subtracted exactly: the counter is positive. *)
LEMMA ReleaseExact ==
  ASSUME SlotAccounting, FlowsClosed, NEW x \in Slots
  PROVE  held' = Cardinality(Slots \ {x})
<1>1. IsFiniteSet(Slots) /\ Cardinality(Slots) \in Nat
  BY FlowSubset DEF Slots
<1>2. Cardinality(Slots) # 0
  BY <1>1, FS_EmptySet
<1>3. Cardinality(Slots \ {x}) = Cardinality(Slots) - 1
  BY <1>1, FS_RemoveElement
<1>4. QED
  BY <1>1, <1>2, <1>3 DEF SlotAccounting, FlowsClosed, SubSaturating

(* Sinks that were live before are counted once each. *)
LEMMA QuarantineExact ==
  ASSUME SlotAccounting, NEW ended \in SUBSET Flow,
         \A x \in ended : socket[x] = "live"
  PROVE  quarantined + Cardinality(ended) = Cardinality(Sinks \cup ended)
<1>1. IsFiniteSet(ended) /\ Cardinality(ended) \in Nat
      /\ IsFiniteSet(Sinks) /\ Cardinality(Sinks) \in Nat
  BY FlowSubset DEF Sinks
<1>2. Sinks \cap ended = {}
  BY DEF Sinks
<1>3. Cardinality(Sinks \cup ended) = Cardinality(Sinks) + Cardinality(ended)
  BY <1>1, <1>2, FS_Union, FS_EmptySet
<1>4. QED
  BY <1>3 DEF SlotAccounting

(* Each step keeps both counters exact. *)
LEMMA NextAccounting ==
  Shape /\ SlotAccounting /\ [Next]_vars => SlotAccounting'
<1> SUFFICES ASSUME Shape, SlotAccounting, [Next]_vars PROVE SlotAccounting'
  OBVIOUS
<1> USE DEF Shape
<1>1. ASSUME UNCHANGED <<socket, held, quarantined>> PROVE SlotAccounting'
  BY <1>1 DEF SlotAccounting, Slots, Sinks
<1>2. ASSUME NEW c \in Conn, OpenDone(c) PROVE SlotAccounting'
  <2>1. <<c, opening[c]>> \in Flow /\ socket[<<c, opening[c]>>] = "reserved"
    BY <1>2, PairIsFlow DEF OpenDone, TypeOK, OpeningReserved, NoFlow
  <2>2. Slots' = Slots /\ Sinks' = Sinks
    BY <1>2, <2>1 DEF OpenDone, TypeOK, Slots, Sinks
  <2>3. QED
    BY <1>2, <2>2 DEF OpenDone, SlotAccounting
<1>3. ASSUME NEW c \in Conn, OpenFailed(c) PROVE SlotAccounting'
  <2> DEFINE x == <<c, opening[c]>>
  <2>1. x \in Flow /\ socket[x] = "reserved"
    BY <1>3, PairIsFlow DEF OpenFailed, TypeOK, OpeningReserved, NoFlow
  <2>2. Slots' = Slots \ {x} /\ Sinks' = Sinks /\ x \in Slots
    BY <1>3, <2>1 DEF OpenFailed, TypeOK, Slots, Sinks
  <2>3. held' = Cardinality(Slots \ {x})
    BY <1>3, <2>2, ReleaseExact DEF OpenFailed
  <2>4. QED
    BY <1>3, <2>2, <2>3 DEF OpenFailed, SlotAccounting
<1>4. ASSUME NEW c \in Conn, OpenStopped(c) PROVE SlotAccounting'
  <2> DEFINE x == <<c, opening[c]>>
  <2>1. x \in Flow /\ socket[x] = "reserved"
    BY <1>4, PairIsFlow DEF OpenStopped, TypeOK, OpeningReserved, NoFlow
  <2>2. Slots' = Slots \ {x} /\ Sinks' = Sinks \cup LiveFlows(c) /\ x \in Slots
    BY <1>4, <2>1 DEF OpenStopped, TypeOK, Slots, Sinks, LiveFlows
  <2>3. held' = Cardinality(Slots \ {x})
    BY <1>4, <2>2, ReleaseExact DEF OpenStopped
  <2>4. quarantined + Cardinality(LiveFlows(c)) = Cardinality(Sinks \cup LiveFlows(c))
    BY QuarantineExact DEF LiveFlows
  <2>5. QED
    BY <1>4, <2>2, <2>3, <2>4 DEF OpenStopped, SlotAccounting
<1>5. ASSUME NEW ended \in SUBSET Flow, \A x \in ended : socket[x] = "live",
             Quarantine(ended), UNCHANGED held
      PROVE  SlotAccounting'
  <2>1. Slots' = Slots /\ Sinks' = Sinks \cup ended
    BY <1>5 DEF Quarantine, TypeOK, Slots, Sinks
  <2>2. quarantined + Cardinality(ended) = Cardinality(Sinks \cup ended)
    BY <1>5, QuarantineExact
  <2>3. QED
    BY <1>5, <2>1, <2>2 DEF Quarantine, SlotAccounting
<1>6. ASSUME NEW c \in Conn, Sweep(c) \/ EndConnection(c) PROVE SlotAccounting'
  <2>1. LiveFlows(c) \in SUBSET Flow /\ LiveFlows(c) \cap idle_flows \in SUBSET Flow
        /\ \A x \in LiveFlows(c) : socket[x] = "live"
    BY DEF LiveFlows
  <2>2. CASE Sweep(c)
    BY <2>1, <2>2, <1>5 DEF Sweep
  <2>3. CASE EndConnection(c)
    BY <2>1, <2>3, <1>5 DEF EndConnection
  <2>4. QED
    BY <1>6, <2>2, <2>3
<1>7. ASSUME NEW c \in Conn, NEW f \in FlowId, NEW p \in Payload,
             RecvNew(c, f, p)
      PROVE  SlotAccounting'
  <2> DEFINE x == <<c, f>>
  <2>1. x \in Flow /\ x[1] = c /\ x[2] = f
    BY PairIsFlow
  <2>2. socket[x] = "unused"
    BY <1>7, <2>1 DEF RecvNew, AdmitsNew, Receiving, TypeOK, SocketState,
         OpeningReserved, MarkCoversUsed, FlowId, NoFlow
  <2>3. Slots' = Slots \cup {x} /\ Sinks' = Sinks /\ x \notin Slots
    BY <1>7, <2>1, <2>2 DEF RecvNew, TypeOK, Slots, Sinks
  <2>4. IsFiniteSet(Slots)
    BY FlowSubset DEF Slots
  <2>5. Cardinality(Slots \cup {x}) = Cardinality(Slots) + 1
    BY <2>3, <2>4, FS_AddElement
  <2>6. QED
    BY <1>7, <2>3, <2>5 DEF RecvNew, TryOpenFlow, SlotAccounting
<1>8. ASSUME NEW x \in Flow, SinkEnds(x) PROVE SlotAccounting'
  <2>1. Slots' = Slots /\ Sinks' = Sinks \ {x} /\ x \in Sinks
    BY <1>8 DEF SinkEnds, TypeOK, Slots, Sinks
  <2>2. IsFiniteSet(Sinks) /\ Cardinality(Sinks) \in Nat
    BY FlowSubset DEF Sinks
  <2>3. Cardinality(Sinks) # 0 /\ Cardinality(Sinks \ {x}) = Cardinality(Sinks) - 1
    BY <2>1, <2>2, FS_EmptySet, FS_RemoveElement
  <2>4. QED
    BY <1>8, <2>1, <2>2, <2>3 DEF SinkEnds, SubSaturating, SlotAccounting
<1>9. ASSUME NEW x \in Flow, SinkReleases(x) PROVE SlotAccounting'
  <2>1. Slots' = Slots \ {x} /\ Sinks' = Sinks /\ x \in Slots
    BY <1>9 DEF SinkReleases, TypeOK, Slots, Sinks
  <2>2. held' = Cardinality(Slots \ {x})
    BY <1>9, <2>1, ReleaseExact DEF SinkReleases
  <2>3. QED
    BY <1>9, <2>1, <2>2 DEF SinkReleases, SlotAccounting
<1>10. QED
  BY <1>1, <1>2, <1>3, <1>4, <1>6, <1>7, <1>8, <1>9
  DEF Next, vars, Accept, RecvLive, RecvOverCap, WriterSend, RelayReply,
      IdleElapses, Stop

(* The counters of UdpStats are exact in every reachable state. *)
THEOREM SlotAccountingHolds == Spec => []SlotAccounting
<1>1. QED
  BY InitAccounting, NextAccounting, ShapeAlways, PTL DEF Spec

-----------------------------------------------------------------------------
(* The caps *)

(* The counter is only raised below max_flows, so the sockets it counts stay *)
(* within max_flows.                                                         *)
THEOREM ServiceCapHolds == Spec => []ServiceCap
<1>1. Init => held <= MaxFlows
  BY ServeAssumption DEF Init
<1>2. Shape /\ held <= MaxFlows /\ [Next]_vars => (held <= MaxFlows)'
  <2> SUFFICES ASSUME Shape, held <= MaxFlows, [Next]_vars
               PROVE  held' <= MaxFlows
    OBVIOUS
  <2>1. held' = held \/ TryOpenFlow \/ FlowsClosed
    BY DEF Next, vars, Accept, OpenDone, OpenFailed, OpenStopped, Sweep,
       EndConnection, RecvLive, RecvOverCap, RecvNew, WriterSend, RelayReply,
       IdleElapses, SinkEnds, SinkReleases, Stop
  <2>2. QED
    BY <2>1, ServeAssumption DEF TryOpenFlow, FlowsClosed, SubSaturating,
       Shape, TypeOK
<1>3. SlotAccounting /\ held <= MaxFlows => ServiceCap
  BY DEF SlotAccounting, ServiceCap
<1>4. QED
  BY <1>1, <1>2, <1>3, ShapeAlways, SlotAccountingHolds, PTL DEF Spec

(* Each step keeps every connection within its cap. *)
LEMMA NextPeerCap == Shape /\ PeerCap /\ [Next]_vars => PeerCap'
<1> SUFFICES ASSUME Shape, PeerCap, [Next]_vars,
                    NEW d \in Conn
             PROVE  Cardinality(OpenFlows(d)') <= MaxFlowsPerPeer
  BY DEF PeerCap, OpenFlows
<1> USE DEF Shape
<1>1. IsFiniteSet(OpenFlows(d)) /\ Cardinality(OpenFlows(d)) \in Nat
      /\ OpenFlows(d)' \in SUBSET Flow
  BY FlowSubset DEF OpenFlows
<1>2. Cardinality(OpenFlows(d)) <= MaxFlowsPerPeer
  BY DEF PeerCap
<1>3. ASSUME OpenFlows(d)' \subseteq OpenFlows(d)
      PROVE  Cardinality(OpenFlows(d)') <= MaxFlowsPerPeer
  <2>1. Cardinality(OpenFlows(d)') <= Cardinality(OpenFlows(d))
    BY <1>1, <1>3, FS_Subset
  <2>2. Cardinality(OpenFlows(d)') \in Nat
    BY <1>1, FlowSubset
  <2>3. QED
    BY <1>1, <1>2, <2>1, <2>2, ServeAssumption
<1>4. ASSUME NEW c \in Conn, NEW f \in FlowId, NEW p \in Payload,
             RecvNew(c, f, p)
      PROVE  Cardinality(OpenFlows(d)') <= MaxFlowsPerPeer
  <2>1. <<c, f>> \in Flow /\ <<c, f>>[1] = c
    BY PairIsFlow
  <2>2. CASE c = d
    <3>1. OpenFlows(d) = LiveFlows(d)
      BY <1>4, <2>2, FlowPair
      DEF RecvNew, AdmitsNew, Receiving, OpeningReserved, OpenFlows, LiveFlows
    <3>2. OpenFlows(d)' = OpenFlows(d) \cup {<<c, f>>}
      BY <1>4, <2>1, <2>2 DEF RecvNew, TypeOK, OpenFlows
    <3>3. Cardinality(OpenFlows(d) \cup {<<c, f>>}) = Cardinality(OpenFlows(d)) + 1
      <4>1. <<c, f>> \notin OpenFlows(d)
        BY <1>4, <3>1 DEF RecvNew, AdmitsNew, LiveFlows
      <4>2. QED
        BY <1>1, <4>1, FS_AddElement
    <3>4. Cardinality(OpenFlows(d)) < MaxFlowsPerPeer
      BY <1>4, <2>2, <3>1 DEF RecvNew, UnderPeerCap
    <3>5. Cardinality(OpenFlows(d)') \in Nat
      BY <1>1, FlowSubset
    <3>6. QED
      BY <1>1, <3>2, <3>3, <3>4, <3>5, ServeAssumption
  <2>3. CASE c # d
    <3>1. OpenFlows(d)' \subseteq OpenFlows(d)
      BY <1>4, <2>1, <2>3 DEF RecvNew, TypeOK, OpenFlows
    <3>2. QED BY <3>1, <1>3
  <2>4. QED BY <2>2, <2>3
<1>5. ASSUME NEW c \in Conn, OpenDone(c)
      PROVE  OpenFlows(d)' \subseteq OpenFlows(d)
  <2>1. <<c, opening[c]>> \in Flow /\ socket[<<c, opening[c]>>] = "reserved"
    BY <1>5, PairIsFlow DEF OpenDone, TypeOK, OpeningReserved, NoFlow
  <2>2. QED
    BY <1>5, <2>1 DEF OpenDone, TypeOK, OpenFlows
<1>6. ASSUME NEW c \in Conn, OpenFailed(c) \/ OpenStopped(c)
      PROVE  OpenFlows(d)' \subseteq OpenFlows(d)
  BY <1>6 DEF OpenFailed, OpenStopped, TypeOK, OpenFlows
<1>7. ASSUME NEW c \in Conn, Sweep(c) \/ EndConnection(c)
      PROVE  OpenFlows(d)' \subseteq OpenFlows(d)
  BY <1>7 DEF Sweep, EndConnection, Quarantine, TypeOK, OpenFlows
<1>8. ASSUME NEW x \in Flow, SinkEnds(x) \/ SinkReleases(x)
      PROVE  OpenFlows(d)' \subseteq OpenFlows(d)
  BY <1>8 DEF SinkEnds, SinkReleases, TypeOK, OpenFlows
<1>9. ASSUME UNCHANGED socket PROVE OpenFlows(d)' \subseteq OpenFlows(d)
  BY <1>9 DEF OpenFlows
<1>10. QED
  BY <1>3, <1>4, <1>5, <1>6, <1>7, <1>8, <1>9
  DEF Next, vars, Accept, RecvLive, RecvOverCap, WriterSend, RelayReply,
      IdleElapses, Stop

(* No connection ever exceeds max_flows_per_peer. *)
THEOREM PeerCapHolds == Spec => []PeerCap
<1>1. Init => PeerCap
  <2> SUFFICES ASSUME Init, NEW c \in Conn
               PROVE  Cardinality(OpenFlows(c)) <= MaxFlowsPerPeer
    BY DEF PeerCap
  <2>1. OpenFlows(c) = {}
    BY DEF Init, OpenFlows
  <2>2. QED
    BY <2>1, FS_EmptySet, ServeAssumption
<1>2. QED
  BY <1>1, NextPeerCap, ShapeAlways, PTL DEF Spec

(* Every bound of a UDP Serve holds in every reachable state: the types with *)
(* the capacity of a writer's queue, max_flows upstream sockets per service, *)
(* and max_flows_per_peer live or opening flows per connection.              *)
THEOREM FlowBoundsHold == Spec => []FlowBounds
<1>1. TypeOK /\ ServiceCap /\ PeerCap => FlowBounds
  BY DEF FlowBounds
<1>2. QED
  BY <1>1, TypeCorrect, ServiceCapHolds, PeerCapHolds, PTL

-----------------------------------------------------------------------------
(* What a step may never do *)

(* A flow that is neither unused nor being opened keeps out of the states    *)
(* unused and reserved, and a spent identifier never gets a socket.          *)
THEOREM NeverReboundHolds == Spec => NeverRebound
<1> DEFINE Over == {"sink", "releasing", "closed"}
           Kept(x) == /\ socket[x] \in Over => socket'[x] \in Over
                      /\ socket[x] = "unused" /\ x[2] <= highest[x[1]]
                            => socket'[x] = "unused"
<1>1. Shape /\ [Next]_vars => [\A x \in Flow : Kept(x)]_vars
  <2> SUFFICES ASSUME Shape, Next, NEW x \in Flow PROVE Kept(x)
    OBVIOUS
  <2> USE DEF Shape
  <2>1. ASSUME UNCHANGED socket PROVE Kept(x)
    BY <2>1
  <2>2. ASSUME NEW c \in Conn, OpenDone(c) \/ OpenFailed(c) PROVE Kept(x)
    <3>1. <<c, opening[c]>> \in Flow /\ socket[<<c, opening[c]>>] = "reserved"
      BY <2>2, PairIsFlow DEF OpenDone, OpenFailed, TypeOK, OpeningReserved, NoFlow
    <3>2. QED
      BY <2>2, <3>1 DEF OpenDone, OpenFailed, TypeOK
  <2>3. ASSUME NEW c \in Conn, OpenStopped(c) PROVE Kept(x)
    <3>1. <<c, opening[c]>> \in Flow /\ socket[<<c, opening[c]>>] = "reserved"
      BY <2>3, PairIsFlow DEF OpenStopped, TypeOK, OpeningReserved, NoFlow
    <3>2. QED
      BY <2>3, <3>1 DEF OpenStopped, TypeOK, LiveFlows
  <2>4. ASSUME NEW c \in Conn, Sweep(c) \/ EndConnection(c) PROVE Kept(x)
    BY <2>4 DEF Sweep, EndConnection, Quarantine, LiveFlows, TypeOK
  <2>5. ASSUME NEW c \in Conn, NEW f \in FlowId, NEW p \in Payload,
             RecvNew(c, f, p)
      PROVE  Kept(x)
    <3>1. <<c, f>> \in Flow /\ <<c, f>>[1] = c /\ <<c, f>>[2] = f
      BY PairIsFlow
    <3>2. socket[<<c, f>>] = "unused" /\ ~(f <= highest[c])
      BY <2>5, <3>1 DEF RecvNew, AdmitsNew, Receiving, TypeOK, SocketState,
           OpeningReserved, MarkCoversUsed, FlowId, NoFlow
    <3>3. QED
      BY <2>5, <3>1, <3>2 DEF RecvNew, TypeOK
  <2>6. ASSUME NEW y \in Flow, SinkEnds(y) \/ SinkReleases(y) PROVE Kept(x)
    BY <2>6 DEF SinkEnds, SinkReleases, TypeOK
  <2>7. QED
    BY <2>1, <2>2, <2>3, <2>4, <2>5, <2>6
    DEF Next, Accept, RecvLive, RecvOverCap, WriterSend, RelayReply,
        IdleElapses, Stop
<1>2. QED
  BY <1>1, ShapeAlways, PTL DEF Spec, NeverRebound

(* Only idleness or the end of its connection ends a live flow. *)
THEOREM NoEvictionHolds == Spec => NoEviction
<1> DEFINE Fair(x) == socket[x] = "live" /\ socket'[x] # "live"
                          => x \in idle_flows \/ loop'[x[1]] = "ended"
<1>1. Shape /\ [Next]_vars => [\A x \in Flow : Fair(x)]_vars
  <2> SUFFICES ASSUME Shape, Next, NEW x \in Flow PROVE Fair(x)
    OBVIOUS
  <2> USE DEF Shape
  <2>1. ASSUME UNCHANGED socket PROVE Fair(x)
    BY <2>1
  <2>2. ASSUME NEW c \in Conn, OpenDone(c) \/ OpenFailed(c) PROVE Fair(x)
    <3>1. <<c, opening[c]>> \in Flow /\ socket[<<c, opening[c]>>] = "reserved"
      BY <2>2, PairIsFlow DEF OpenDone, OpenFailed, TypeOK, OpeningReserved, NoFlow
    <3>2. QED
      BY <2>2, <3>1 DEF OpenDone, OpenFailed, TypeOK
  <2>3. ASSUME NEW c \in Conn, OpenStopped(c) PROVE Fair(x)
    <3>1. <<c, opening[c]>> \in Flow /\ socket[<<c, opening[c]>>] = "reserved"
      BY <2>3, PairIsFlow DEF OpenStopped, TypeOK, OpeningReserved, NoFlow
    <3>2. QED
      BY <2>3, <3>1, FlowPair DEF OpenStopped, TypeOK, LiveFlows
  <2>4. ASSUME NEW c \in Conn, Sweep(c) PROVE Fair(x)
    BY <2>4 DEF Sweep, Quarantine, LiveFlows, TypeOK
  <2>5. ASSUME NEW c \in Conn, EndConnection(c) PROVE Fair(x)
    BY <2>5, FlowPair DEF EndConnection, Quarantine, LiveFlows, TypeOK
  <2>6. ASSUME NEW c \in Conn, NEW f \in FlowId, NEW p \in Payload,
             RecvNew(c, f, p)
      PROVE  Fair(x)
    <3>1. <<c, f>> \in Flow
      BY PairIsFlow
    <3>2. QED
      BY <2>6, <3>1 DEF RecvNew, AdmitsNew, TypeOK
  <2>7. ASSUME NEW y \in Flow, SinkEnds(y) \/ SinkReleases(y) PROVE Fair(x)
    BY <2>7 DEF SinkEnds, SinkReleases, TypeOK
  <2>8. QED
    BY <2>1, <2>2, <2>3, <2>4, <2>5, <2>6, <2>7
    DEF Next, Accept, RecvLive, RecvOverCap, WriterSend, RelayReply,
        IdleElapses, Stop
<1>2. QED
  BY <1>1, ShapeAlways, PTL DEF Spec, NoEviction

=============================================================================
