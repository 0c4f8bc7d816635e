---------------------------- MODULE BufferProofs ----------------------------
(***************************************************************************)
(* The buffers of a controller with any number of ports, lines and         *)
(* requests: they do not overflow and keep their order.                    *)
(***************************************************************************)
EXTENDS ControllerProofs

\* The size of the buffers, and the size a sender sees.
SizeRight(b, t) ==
    /\ b.stall_map_size = Len(AllStalled(b.stall_map))
    /\ MaxSize = 0 \/ Cardinality(b.heap) + b.stall_map_size <= MaxSize
    /\ b.time_last_pop <= t /\ b.time_last_enqueue <= t
    /\ Cardinality(b.heap) <= current_size(b, t)

SizeInv ==
    /\ \A p \in InPorts : SizeRight(bufs[p], now)
    /\ \A p \in InPorts \ {ResponsePort} :
          bufs[p].time_last_pop = now => NoneReady(bufs[ResponsePort], now)

\* Messages arrive in the order in which they are sent: by the options of the
\* buffer, or because they all take as long.
OrderedArrivals == (StrictFifo /\ Randomization) \/ \E d : Delays = {d}

\* The messages of port p are in order, and come after those that were handled.
LineRight(p) ==
    /\ (StrictFifo /\ Randomization) \/ \A d \in Delays : bufs[p].last_arrival_time <= now + d
    /\ \A m \in bufs[p].heap : m.time <= bufs[p].last_arrival_time /\ m.id <= requested[p]
    /\ \A m, n \in bufs[p].heap : m.counter < n.counter => m.time <= n.time /\ m.id <= n.id

HandledRight(k) ==
    /\ done[k][3] <= requested[done[k][1]]
    /\ \A m \in bufs[done[k][1]].heap : done[k][3] <= m.id

FifoInv ==
    /\ put_back \subseteq InPorts
    /\ done \in Seq((InPorts \ {ResponsePort}) \X Addrs \X Nat)
    /\ \A p \in InPorts \ {ResponsePort} :
          p \notin put_back => LineRight(p) /\ \A a \in Addrs : p \notin waiting[a]
    /\ \A k \in DOMAIN done : done[k][1] \notin put_back => HandledRight(k)
    /\ FifoOrder
-----------------------------------------------------------------------------
\* The size a sender sees, by the times of the last pop and enqueue.
LEMMA CurrentSize ==
    ASSUME NEW b \in Buffers, NEW t \in Nat
    PROVE  /\ b.time_last_pop < t => current_size(b, t) = Cardinality(b.heap)
           /\ b.time_last_pop = t /\ b.time_last_enqueue < t => current_size(b, t) = b.size_at_cycle_start
           /\ b.time_last_pop = t /\ b.time_last_enqueue = t =>
                current_size(b, t) = b.size_at_cycle_start + b.msgs_this_cycle
<1>1. b.time_last_pop \in Nat /\ b.time_last_enqueue \in Nat
  BY DEF Buffers
<1>2. ASSUME b.time_last_pop < t PROVE current_size(b, t) = Cardinality(b.heap)
  <2>1. ~(b.time_last_pop >= t)
    BY <1>1, <1>2
  <2> QED BY <1>2, <2>1, Zenon DEF current_size
<1>3. ASSUME b.time_last_pop = t, b.time_last_enqueue < t PROVE current_size(b, t) = b.size_at_cycle_start
  <2>1. ~(b.time_last_pop < t) /\ b.time_last_pop >= t
    BY <1>1, <1>3
  <2> QED BY <1>3, <2>1, Zenon DEF current_size
<1>4. ASSUME b.time_last_pop = t, b.time_last_enqueue = t
      PROVE  current_size(b, t) = b.size_at_cycle_start + b.msgs_this_cycle
  <2>1. ~(b.time_last_pop < t) /\ ~(b.time_last_enqueue < t)
    BY <1>1, <1>4
  <2> QED BY <2>1, Zenon DEF current_size
<1> QED BY <1>2, <1>3, <1>4, Zenon

\* Numbers of a buffer.
LEMMA SizeTypes ==
    ASSUME NEW b, HeapRight(b)
    PROVE  /\ b \in Buffers /\ Cardinality(b.heap) \in Nat
           /\ b.stall_map_size \in Int /\ b.time_last_pop \in Nat /\ b.time_last_enqueue \in Nat
           /\ b.size_at_cycle_start \in Nat /\ b.msgs_this_cycle \in Nat
  BY FS_CardinalityType DEF HeapRight, Buffers

\* A sender that finds a slot does not overfill the buffer.
LEMMA SizeEnqueued ==
    ASSUME MaxSize \in Nat, NEW b, HeapRight(b), NEW t \in Nat, SizeRight(b, t), NEW e, HeapRight(e),
           NEW n, NEW arrival, IsEnqueued(e, b, n, t, arrival), areNSlotsAvailable(b, 1, t)
    PROVE  SizeRight(e, t)
<1> DEFINE cb == Cardinality(b.heap)
           ce == Cardinality(e.heap)
           sb == current_size(b, t)
           se == current_size(e, t)
<1>1. /\ cb \in Nat /\ ce \in Nat /\ b \in Buffers /\ e \in Buffers
      /\ b.stall_map_size \in Int /\ b.time_last_pop \in Nat /\ b.time_last_enqueue \in Nat
      /\ b.size_at_cycle_start \in Nat /\ b.msgs_this_cycle \in Nat
  BY SizeTypes
<1>2. /\ b.stall_map_size = Len(AllStalled(b.stall_map))
      /\ MaxSize = 0 \/ cb + b.stall_map_size <= MaxSize
      /\ b.time_last_pop <= t /\ b.time_last_enqueue <= t /\ cb <= sb
  BY DEF SizeRight
<1>3. /\ e.heap = b.heap \cup {n} /\ e.stall_map = b.stall_map /\ e.stall_map_size = b.stall_map_size
      /\ e.time_last_pop = b.time_last_pop /\ e.size_at_cycle_start = b.size_at_cycle_start
      /\ e.time_last_enqueue = t
      /\ e.msgs_this_cycle = (IF b.time_last_enqueue < t THEN 0 ELSE b.msgs_this_cycle) + 1
  BY DEF IsEnqueued
<1>4. ce <= cb + 1
  <2>1. ce = IF n \in b.heap THEN cb ELSE cb + 1
    BY <1>3, FS_AddElement, Zenon DEF HeapRight
  <2> QED BY <1>1, <2>1
<1>5. MaxSize = 0 \/ sb + b.stall_map_size + 1 <= MaxSize
  BY DEF areNSlotsAvailable
<1>6. /\ b.time_last_pop < t => sb = cb
      /\ b.time_last_pop = t /\ b.time_last_enqueue < t => sb = b.size_at_cycle_start
      /\ b.time_last_pop = t /\ b.time_last_enqueue = t => sb = b.size_at_cycle_start + b.msgs_this_cycle
  BY <1>1, CurrentSize, Zenon
<1>7. /\ e.time_last_pop < t => se = ce
      /\ e.time_last_pop = t /\ e.time_last_enqueue = t => se = e.size_at_cycle_start + e.msgs_this_cycle
  BY <1>1, CurrentSize, Zenon
<1> HIDE DEF cb, ce, sb, se
<1>8. sb \in Nat
  BY <1>1, <1>2, <1>6
<1>9. MaxSize = 0 \/ ce + e.stall_map_size <= MaxSize
  BY <1>1, <1>2, <1>3, <1>4, <1>5, <1>8
<1>10. ce <= se
  BY <1>1, <1>2, <1>3, <1>4, <1>6, <1>7
<1>11. e.stall_map_size = Len(AllStalled(e.stall_map)) /\ e.time_last_pop <= t /\ e.time_last_enqueue <= t
  BY <1>2, <1>3
<1> QED BY <1>9, <1>10, <1>11, Zenon DEF SizeRight, ce, se

\* A message that leaves the heap still counts in this cycle.
LEMMA SizeLeft ==
    ASSUME MaxSize \in Nat, NEW b, HeapRight(b), b.heap # {}, NEW t \in Nat, SizeRight(b, t), NEW e, HeapRight(e),
           e.heap = b.heap \ {peek(b)}, e.time_last_pop = t,
           e.time_last_enqueue = b.time_last_enqueue, e.msgs_this_cycle = b.msgs_this_cycle,
           e.size_at_cycle_start = (IF b.time_last_pop < t THEN Cardinality(b.heap) ELSE b.size_at_cycle_start),
           e.stall_map_size = Len(AllStalled(e.stall_map)),
           e.stall_map_size <= b.stall_map_size + 1
    PROVE  SizeRight(e, t)
<1> DEFINE cb == Cardinality(b.heap)
           ce == Cardinality(e.heap)
           sb == current_size(b, t)
           se == current_size(e, t)
<1>1. /\ cb \in Nat /\ ce \in Nat /\ b \in Buffers /\ e \in Buffers
      /\ b.stall_map_size \in Int /\ b.time_last_pop \in Nat /\ b.time_last_enqueue \in Nat
      /\ b.size_at_cycle_start \in Nat /\ b.msgs_this_cycle \in Nat /\ e.stall_map_size \in Int
  BY SizeTypes, Zenon
<1>2. /\ MaxSize = 0 \/ cb + b.stall_map_size <= MaxSize
      /\ b.time_last_pop <= t /\ b.time_last_enqueue <= t /\ cb <= sb
  BY DEF SizeRight
<1>3. ce = cb - 1
  <2>1. peek(b) \in b.heap
    BY PeekFacts
  <2> QED BY <2>1, FS_RemoveElement, Zenon DEF HeapRight
<1>4. /\ b.time_last_pop < t => sb = cb
      /\ b.time_last_pop = t /\ b.time_last_enqueue < t => sb = b.size_at_cycle_start
      /\ b.time_last_pop = t /\ b.time_last_enqueue = t => sb = b.size_at_cycle_start + b.msgs_this_cycle
  BY <1>1, CurrentSize, Zenon
<1>5. /\ e.time_last_pop = t /\ e.time_last_enqueue < t => se = e.size_at_cycle_start
      /\ e.time_last_pop = t /\ e.time_last_enqueue = t => se = e.size_at_cycle_start + e.msgs_this_cycle
  BY <1>1, CurrentSize, Zenon
<1>6. e.size_at_cycle_start = IF b.time_last_pop < t THEN cb ELSE b.size_at_cycle_start
  OBVIOUS
<1> HIDE DEF cb, ce, sb, se
<1>7. MaxSize = 0 \/ ce + e.stall_map_size <= MaxSize
  BY <1>1, <1>2, <1>3
<1>8. ce <= se
  BY <1>1, <1>2, <1>3, <1>4, <1>5, <1>6
<1>9. e.time_last_pop <= t /\ e.time_last_enqueue <= t
  BY <1>2
<1> QED BY <1>7, <1>8, <1>9, Zenon DEF SizeRight, ce, se

\* A message that gets another time takes the slot it had.
LEMMA SizeSame ==
    ASSUME MaxSize \in Nat, NEW b, HeapRight(b), b.heap # {}, NEW t \in Nat, SizeRight(b, t), NEW e, HeapRight(e),
           NEW n, e.heap = (b.heap \ {peek(b)}) \cup {n}, e.time_last_pop = b.time_last_pop,
           e.stall_map = b.stall_map, e.stall_map_size = b.stall_map_size,
           e.size_at_cycle_start = b.size_at_cycle_start,
           \/ e.time_last_enqueue = b.time_last_enqueue /\ e.msgs_this_cycle = b.msgs_this_cycle
           \/ /\ e.time_last_enqueue = t
              /\ e.msgs_this_cycle = (IF b.time_last_enqueue < t THEN 0 ELSE b.msgs_this_cycle) + 1
    PROVE  SizeRight(e, t)
<1> DEFINE cb == Cardinality(b.heap)
           ce == Cardinality(e.heap)
           sb == current_size(b, t)
           se == current_size(e, t)
<1>1. /\ cb \in Nat /\ ce \in Nat /\ b \in Buffers /\ e \in Buffers
      /\ b.stall_map_size \in Int /\ b.time_last_pop \in Nat /\ b.time_last_enqueue \in Nat
      /\ b.size_at_cycle_start \in Nat /\ b.msgs_this_cycle \in Nat
  BY SizeTypes, Zenon
<1>2. /\ b.stall_map_size = Len(AllStalled(b.stall_map))
      /\ MaxSize = 0 \/ cb + b.stall_map_size <= MaxSize
      /\ b.time_last_pop <= t /\ b.time_last_enqueue <= t /\ cb <= sb
  BY Zenon DEF SizeRight
<1>3. ce <= cb
  <2>1. peek(b) \in b.heap
    BY PeekFacts, Zenon
  <2>2. IsFiniteSet(b.heap \ {peek(b)}) /\ Cardinality(b.heap \ {peek(b)}) = cb - 1
    BY <2>1, FS_RemoveElement, Zenon DEF HeapRight
  <2>3. ce = IF n \in b.heap \ {peek(b)} THEN cb - 1 ELSE (cb - 1) + 1
    BY <2>2, FS_AddElement
  <2> QED BY <1>1, <2>3
<1>4. /\ b.time_last_pop < t => sb = cb
      /\ b.time_last_pop = t /\ b.time_last_enqueue < t => sb = b.size_at_cycle_start
      /\ b.time_last_pop = t /\ b.time_last_enqueue = t => sb = b.size_at_cycle_start + b.msgs_this_cycle
  BY <1>1, CurrentSize, Zenon
<1>5. /\ e.time_last_pop < t => se = ce
      /\ e.time_last_pop = t /\ e.time_last_enqueue < t => se = e.size_at_cycle_start
      /\ e.time_last_pop = t /\ e.time_last_enqueue = t => se = e.size_at_cycle_start + e.msgs_this_cycle
  BY <1>1, CurrentSize, Zenon
<1> HIDE DEF cb, ce, sb, se
<1>6. MaxSize = 0 \/ ce + e.stall_map_size <= MaxSize
  BY <1>1, <1>2, <1>3
<1>7. ce <= se
  BY <1>1, <1>2, <1>3, <1>4, <1>5
<1>8. e.stall_map_size = Len(AllStalled(e.stall_map)) /\ e.time_last_pop <= t /\ e.time_last_enqueue <= t
  BY <1>1, <1>2
<1> QED BY <1>6, <1>7, <1>8, Zenon DEF SizeRight, ce, se
\* A message that moves to the stall map is counted there.
LEMMA SizeStalled ==
    ASSUME NumAddrs \in Nat \ {0}, NEW b, HeapRight(b), b.heap # {}, NEW t \in Nat, SizeRight(b, t),
           NEW a \in Addrs, NEW e, IsStalled(e, b, a, t)
    PROVE  e.stall_map_size = Len(AllStalled(e.stall_map)) /\ e.stall_map_size <= b.stall_map_size + 1
<1> DEFINE s == Append(b.stall_map[a], peek(b))
<1>1. b.stall_map \in StallMaps /\ b.stall_map_size \in Int /\ b.stall_map[a] \in Seq(Messages) /\ peek(b) \in Messages
  BY PeekFacts, Zenon DEF HeapRight, Buffers, StallMaps
<1>2. s \in Seq(Messages) /\ Len(s) = Len(b.stall_map[a]) + 1 /\ Len(b.stall_map[a]) \in Nat
  BY <1>1, AppendFacts, LengthFacts
<1>3. e.stall_map = [b.stall_map EXCEPT ![a] = s] /\ e.stall_map_size = b.stall_map_size + 1
  BY Zenon DEF IsStalled
<1>4. b.stall_map_size = Len(AllStalled(b.stall_map))
  BY DEF SizeRight
<1> HIDE DEF s
<1>5. Len(AllStalled([b.stall_map EXCEPT ![a] = s])) = (Len(AllStalled(b.stall_map)) - Len(b.stall_map[a])) + Len(s)
  BY <1>1, <1>2, AllStalledLength, Zenon
<1> DEFINE new == Len(AllStalled(e.stall_map))
           ls  == Len(s)
           lb  == Len(b.stall_map[a])
<1>6. new = (b.stall_map_size - lb) + ls /\ ls = lb + 1 /\ lb \in Nat
  BY <1>2, <1>3, <1>4, <1>5, Zenon
<1> HIDE DEF new, ls, lb
<1>7. e.stall_map_size = new /\ e.stall_map_size <= b.stall_map_size + 1
  BY <1>1, <1>3, <1>6
<1> QED BY <1>7, Zenon DEF new

\* A buffer that nothing was popped from in this cycle takes its stalled
\* messages back.
LEMMA SizeWoken ==
    ASSUME NumAddrs \in Nat \ {0}, MaxSize \in Nat, NEW b, HeapRight(b), NEW t \in Nat, SizeRight(b, t),
           NEW a \in Addrs, NEW e, IsWoken(e, b, a, t), b.time_last_pop # t
    PROVE  SizeRight(e, t)
<1> DEFINE cb == Cardinality(b.heap)
           ce == Cardinality(e.heap)
<1>1. /\ HeapRight(e) /\ ce + e.stall_map_size <= cb + b.stall_map_size
      /\ b.stall_map_size = Len(AllStalled(b.stall_map)) => e.stall_map_size = Len(AllStalled(e.stall_map))
      /\ e.time_last_pop = b.time_last_pop /\ e.time_last_enqueue = b.time_last_enqueue
  <2>1. HeapRight(e) /\ KeepsSize(e, b)
    BY WokenKeeps, Zenon
  <2> QED BY <2>1, Zenon DEF KeepsSize
<1>2. /\ cb \in Nat /\ ce \in Nat /\ e \in Buffers /\ b.stall_map_size \in Int /\ e.stall_map_size \in Int
      /\ b.time_last_pop \in Nat
  BY <1>1, SizeTypes, Zenon
<1>3. /\ b.stall_map_size = Len(AllStalled(b.stall_map))
      /\ MaxSize = 0 \/ cb + b.stall_map_size <= MaxSize
      /\ b.time_last_pop <= t /\ b.time_last_enqueue <= t
  BY DEF SizeRight
<1>4. e.time_last_pop < t
  BY <1>1, <1>2, <1>3
<1>5. current_size(e, t) = ce
  BY <1>2, <1>4, CurrentSize, Zenon
<1> HIDE DEF cb, ce
<1>6. MaxSize = 0 \/ ce + e.stall_map_size <= MaxSize
  BY <1>1, <1>2, <1>3
<1>7. e.time_last_pop <= t /\ e.time_last_enqueue <= t /\ ce <= current_size(e, t)
  BY <1>1, <1>2, <1>3, <1>5
<1> QED BY <1>1, <1>3, <1>6, <1>7, Zenon DEF SizeRight, ce

\* In the next cycle the size is the number of messages.
LEMMA SizeLater ==
    ASSUME NEW b, HeapRight(b), NEW t \in Nat, SizeRight(b, t)
    PROVE  SizeRight(b, t + 1) /\ b.time_last_pop # t + 1
<1>1. /\ b \in Buffers /\ Cardinality(b.heap) \in Nat /\ b.time_last_pop \in Nat /\ b.time_last_enqueue \in Nat
  BY SizeTypes, Zenon
<1>2. b.time_last_pop <= t /\ b.time_last_enqueue <= t
  BY DEF SizeRight
<1>3. /\ b.time_last_pop < t + 1 /\ b.time_last_pop <= t + 1 /\ b.time_last_enqueue <= t + 1
      /\ b.time_last_pop # t + 1 /\ t + 1 \in Nat
  BY <1>1, <1>2
<1>4. current_size(b, t + 1) = Cardinality(b.heap)
  BY <1>1, <1>3, CurrentSize, Zenon
<1>5. Cardinality(b.heap) <= current_size(b, t + 1)
  BY <1>1, <1>4
<1> QED BY <1>3, <1>5, Zenon DEF SizeRight

\* A step that changes the buffer of one port.
LEMMA SizeChanged ==
    ASSUME SizeInv, ResponsePort \in InPorts, NEW p \in InPorts, Changed(p), UNCHANGED now, SizeRight(bufs'[p], now),
           p # ResponsePort => bufs'[p].time_last_pop = bufs[p].time_last_pop \/ NoneReady(bufs[ResponsePort], now),
           p = ResponsePort => \A m \in bufs'[p].heap : m \in bufs[p].heap \/ m.time > now
    PROVE  SizeInv'
<1>1. \A q \in InPorts : SizeRight(bufs'[q], now)
  BY Zenon DEF SizeInv, Changed
<1>2. ASSUME NEW q \in InPorts \ {ResponsePort}, bufs'[q].time_last_pop = now
      PROVE  NoneReady(bufs'[ResponsePort], now)
  <2>1. NoneReady(bufs[ResponsePort], now)
    <3>1. bufs[q].time_last_pop = now => NoneReady(bufs[ResponsePort], now)
      BY DEF SizeInv
    <3>2. q # p => bufs'[q] = bufs[q]
      BY DEF Changed
    <3> QED BY <1>2, <3>1, <3>2, Zenon
  <2>2. CASE p = ResponsePort
    BY <2>1, <2>2, Zenon DEF NoneReady
  <2>3. CASE p # ResponsePort
    BY <1>2, <2>1, <2>3, Zenon DEF Changed
  <2> QED BY <2>2, <2>3, Zenon
<1> QED BY <1>1, <1>2, Zenon DEF SizeInv
\* Every step keeps SizeInv, when responses come at the port of highest rank.
LEMMA SizeNext ==
    ASSUME ControllerConstants, ResponsePort = NumPorts - 1, StallInv, SizeInv, [ControllerNext]_controllerVars
    PROVE  SizeInv'
<1>0. /\ ResponsePort \in InPorts /\ MaxSize \in Nat /\ NumAddrs \in Nat \ {0} /\ now \in Nat
      /\ \A p \in InPorts : HeapRight(bufs[p]) /\ SizeRight(bufs[p], now)
      /\ \A p \in InPorts \ {ResponsePort} : ResponsePort > p
  BY SMTT(30) DEF ControllerConstants, StallInv, SizeInv, InPorts
<1>1. ASSUME NEW p \in InPorts, NEW n, NEW arrival, NEW id, Enqueues(p, id, n, arrival),
             areNSlotsAvailable(bufs[p], 1, now), UNCHANGED now
      PROVE  SizeInv'
  <2>1. /\ Changed(p) /\ IsEnqueued(bufs'[p], bufs[p], n, now, arrival) /\ n.time > now
    BY <1>1, Zenon DEF Enqueues
  <2>2. HeapRight(bufs'[p])
    BY <2>1 DEF Changed
  <2>3. SizeRight(bufs'[p], now)
    BY <1>0, <1>1, <2>1, <2>2, SizeEnqueued, Zenon
  <2>4. /\ bufs'[p].time_last_pop = bufs[p].time_last_pop
        /\ \A m \in bufs'[p].heap : m \in bufs[p].heap \/ m.time > now
    BY <2>1, Zenon DEF IsEnqueued
  <2> QED BY <1>0, <1>1, <2>1, <2>3, <2>4, SizeChanged, Zenon
<1>2. ASSUME NEW p \in InPorts, send_request(p) PROVE SizeInv'
  <2>1. PICK n, arrival : Enqueues(p, requested[p] + 1, n, arrival)
    BY <1>2, SendEffect, Zenon
  <2>2. areNSlotsAvailable(bufs[p], 1, now) /\ UNCHANGED now
    BY <1>2, Zenon DEF send_request
  <2> QED BY <1>1, <2>1, <2>2, Zenon
<1>3. ASSUME NEW a \in Addrs, respond(a) PROVE SizeInv'
  <2>1. PICK n, arrival : Enqueues(ResponsePort, 0, n, arrival)
    BY <1>3, RespondEffect, Zenon
  <2>2. areNSlotsAvailable(bufs[ResponsePort], 1, now) /\ UNCHANGED now
    BY <1>3, Zenon DEF respond
  <2> QED BY <1>0, <1>1, <2>1, <2>2, Zenon
<1>4. CASE response
  <2> DEFINE a == peek(bufs[ResponsePort]).addr
  <2>1. Responds(a)
    BY <1>4, RespondsFacts, Zenon
  <2>2. Turn(ResponsePort) /\ UNCHANGED now
    BY <1>4 DEF response
  <2>3. bufs[ResponsePort].heap # {} /\ ~NoneReady(bufs[ResponsePort], now)
    BY <1>0, <2>2, TurnFacts, Zenon
  <2>4. \A q \in InPorts \ {ResponsePort} : bufs[q].time_last_pop # now
    BY <2>3, Zenon DEF SizeInv
  <2> HIDE DEF a
  <2>5. SizeRight(bufs'[ResponsePort], now)
    <3> DEFINE b == bufs[ResponsePort]
               e == bufs'[ResponsePort]
    <3>1. IsDequeued(e, b, now) /\ HeapRight(e) /\ HeapRight(b) /\ SizeRight(b, now)
      BY <1>0, <2>1, Zenon DEF Responds
    <3>2. b.stall_map_size = Len(AllStalled(b.stall_map)) /\ b.stall_map_size \in Int
      BY <3>1, SizeTypes, Zenon DEF SizeRight
    <3> HIDE DEF b, e
    <3>3. /\ e.heap = b.heap \ {peek(b)} /\ e.time_last_pop = now
          /\ e.time_last_enqueue = b.time_last_enqueue /\ e.msgs_this_cycle = b.msgs_this_cycle
          /\ e.size_at_cycle_start = (IF b.time_last_pop < now THEN Cardinality(b.heap) ELSE b.size_at_cycle_start)
          /\ e.stall_map = b.stall_map /\ e.stall_map_size = b.stall_map_size
      BY <3>1, Zenon DEF IsDequeued
    <3>4. e.stall_map_size = Len(AllStalled(e.stall_map))
      BY <3>2, <3>3, Zenon
    <3>5. e.stall_map_size <= b.stall_map_size + 1 /\ b.heap # {}
      BY <2>3, <3>2, <3>3 DEF b
    <3>6. SizeRight(e, now)
      BY <1>0, <3>1, <3>3, <3>4, <3>5, SizeLeft, Zenon
    <3> QED BY <3>6, Zenon DEF e
  <2>6. ASSUME NEW q \in InPorts \ {ResponsePort}
        PROVE  SizeRight(bufs'[q], now) /\ bufs'[q].time_last_pop # now
    <3>1. CASE q \notin WokenPorts(ResponsePort, a)
      BY <1>0, <2>1, <2>4, <3>1, Zenon DEF Responds
    <3>2. CASE q \in WokenPorts(ResponsePort, a)
      <4>1. IsWoken(bufs'[q], bufs[q], a, now) /\ a \in Addrs
        BY <2>1, <3>2, Zenon DEF Responds
      <4>2. SizeRight(bufs'[q], now)
        <5>1. HeapRight(bufs[q]) /\ SizeRight(bufs[q], now) /\ bufs[q].time_last_pop # now
          BY <1>0, <2>4, Zenon
        <5> QED BY <1>0, <4>1, <5>1, SizeWoken, Zenon
      <4>3. KeepsSize(bufs'[q], bufs[q])
        BY <1>0, <4>1, WokenKeeps, Zenon
      <4> QED BY <2>4, <4>2, <4>3, Zenon DEF KeepsSize
    <3> QED BY <3>1, <3>2, Zenon
  <2> QED BY <1>0, <2>2, <2>5, <2>6, Zenon DEF SizeInv
<1>5. ASSUME NEW p \in InPorts, handle(p) PROVE SizeInv'
  <2> DEFINE b == bufs[p]
             e == bufs'[p]
  <2>1. /\ Turn(p) /\ p # ResponsePort /\ bufs' = [bufs EXCEPT ![p] = dequeue(@, now)] /\ UNCHANGED now
    BY <1>5, Zenon DEF handle
  <2>2. Changed(p) /\ IsDequeued(e, b, now)
    BY <2>1, DequeuesFacts, Zenon DEF Dequeues
  <2>3. NoneReady(bufs[ResponsePort], now) /\ b.heap # {}
    BY <1>0, <2>1, TurnFacts, Zenon
  <2>4. HeapRight(e) /\ HeapRight(b) /\ SizeRight(b, now)
    BY <1>0, <2>2, Zenon DEF Changed
  <2>5. b.stall_map_size = Len(AllStalled(b.stall_map)) /\ b.stall_map_size \in Int
    BY <2>4, SizeTypes, Zenon DEF SizeRight
  <2> HIDE DEF b, e
  <2>6. /\ e.heap = b.heap \ {peek(b)} /\ e.time_last_pop = now
        /\ e.time_last_enqueue = b.time_last_enqueue /\ e.msgs_this_cycle = b.msgs_this_cycle
        /\ e.size_at_cycle_start = (IF b.time_last_pop < now THEN Cardinality(b.heap) ELSE b.size_at_cycle_start)
        /\ e.stall_map = b.stall_map /\ e.stall_map_size = b.stall_map_size
    BY <2>2, Zenon DEF IsDequeued
  <2>7. e.stall_map_size = Len(AllStalled(e.stall_map))
    BY <2>5, <2>6, Zenon
  <2>8. e.stall_map_size <= b.stall_map_size + 1
    BY <2>5, <2>6
  <2>9. SizeRight(e, now)
    BY <1>0, <2>3, <2>4, <2>6, <2>7, <2>8, SizeLeft, Zenon
  <2> QED BY <1>0, <2>1, <2>2, <2>3, <2>9, SizeChanged, Zenon DEF e
<1>6. ASSUME NEW p \in InPorts, stall_and_wait(p) PROVE SizeInv'
  <2> DEFINE b == bufs[p]
             e == bufs'[p]
             a == peek(bufs[p]).addr
  <2>1. Turn(p) /\ p # ResponsePort /\ UNCHANGED now
    BY <1>6, Zenon DEF stall_and_wait
  <2>2. a \in Addrs /\ Changed(p) /\ IsStalled(e, b, a, now)
    BY <1>6, StallEffect, Zenon DEF Stalls
  <2>3. NoneReady(bufs[ResponsePort], now) /\ b.heap # {}
    BY <1>0, <2>1, TurnFacts, Zenon
  <2>4. HeapRight(e) /\ HeapRight(b) /\ SizeRight(b, now)
    BY <1>0, <2>2, Zenon DEF Changed
  <2> HIDE DEF b, e, a
  <2>5. e.stall_map_size = Len(AllStalled(e.stall_map)) /\ e.stall_map_size <= b.stall_map_size + 1
    BY <1>0, <2>2, <2>3, <2>4, SizeStalled, Zenon
  <2>6. /\ e.heap = b.heap \ {peek(b)} /\ e.time_last_pop = now
        /\ e.time_last_enqueue = b.time_last_enqueue /\ e.msgs_this_cycle = b.msgs_this_cycle
        /\ e.size_at_cycle_start = (IF b.time_last_pop < now THEN Cardinality(b.heap) ELSE b.size_at_cycle_start)
    BY <2>2, Zenon DEF IsStalled
  <2>7. SizeRight(e, now)
    BY <1>0, <2>3, <2>4, <2>5, <2>6, SizeLeft, Zenon
  <2> QED BY <1>0, <2>1, <2>2, <2>3, <2>7, SizeChanged, Zenon DEF e
<1>7. ASSUME NEW p \in InPorts, recycle_request(p) \/ block_on(p) PROVE SizeInv'
  <2> DEFINE b == bufs[p]
             e == bufs'[p]
  <2>1. Turn(p) /\ p # ResponsePort /\ UNCHANGED now
    BY <1>7, Zenon DEF recycle_request, block_on
  <2>2. b.heap # {}
    BY <2>1, TurnFacts, Zenon
  <2>3. PICK n :
          /\ Changed(p) /\ e.heap = (b.heap \ {peek(b)}) \cup {n} /\ e.time_last_pop = b.time_last_pop
          /\ e.stall_map = b.stall_map /\ e.stall_map_size = b.stall_map_size
          /\ e.size_at_cycle_start = b.size_at_cycle_start
          /\ \/ e.time_last_enqueue = b.time_last_enqueue /\ e.msgs_this_cycle = b.msgs_this_cycle
             \/ /\ e.time_last_enqueue = now
                /\ e.msgs_this_cycle = (IF b.time_last_enqueue < now THEN 0 ELSE b.msgs_this_cycle) + 1
    <3>1. CASE recycle_request(p)
      <4>1. PICK n, t : Recycles(p, n, t)
        BY <3>1, RecycleEffect, Zenon
      <4> QED BY <4>1, Zenon DEF Recycles, IsRecycled
    <3>2. CASE block_on(p)
      <4>1. PICK n : DelaysHead(p, n)
        BY <3>2, BlockEffect, Zenon
      <4> QED BY <4>1, Zenon DEF DelaysHead, IsDelayed
    <3> QED BY <1>7, <3>1, <3>2, Zenon
  <2>4. HeapRight(e) /\ HeapRight(b) /\ SizeRight(b, now)
    BY <1>0, <2>3, Zenon DEF Changed
  <2> HIDE DEF b, e
  <2>5. SizeRight(e, now)
    BY <1>0, <2>2, <2>3, <2>4, SizeSame, Zenon
  <2> QED BY <1>0, <2>1, <2>3, <2>5, SizeChanged, Zenon DEF b, e
<1>8. CASE start_wakeup \/ end_wakeup \/ UNCHANGED controllerVars
  <2>1. UNCHANGED <<now, bufs>>
    BY <1>8, Zenon DEF start_wakeup, end_wakeup, controllerVars
  <2> QED BY <2>1, Zenon DEF SizeInv
<1>9. CASE EndCycle
  <2>1. UNCHANGED bufs /\ now' = now + 1
    BY <1>9 DEF EndCycle
  <2>2. \A p \in InPorts : SizeRight(bufs[p], now + 1) /\ bufs[p].time_last_pop # now + 1
    BY <1>0, SizeLater, Zenon
  <2> QED BY <2>1, <2>2, Zenon DEF SizeInv
<1> QED BY <1>2, <1>3, <1>4, <1>5, <1>6, <1>7, <1>8, <1>9, Zenon DEF ControllerNext, Step

\* For every controller whose responses come at the port of highest rank: no
\* buffer ever holds more than m_max_size messages, though a sender is told
\* the size at the start of the cycle and messages come back from the stall
\* map without asking for a slot.
THEOREM BuffersHaveRoom ==
    ASSUME ControllerConstants, ResponsePort = NumPorts - 1
    PROVE  ControllerSpec => []Capacity
<1>1. ControllerInit => StallInv /\ SizeInv
  <2> SUFFICES ASSUME ControllerInit PROVE SizeInv
    BY StallInit, Zenon
  <2> DEFINE b == EmptyBuffer
  <2>1. /\ b \in Buffers /\ b.heap = {} /\ b.stall_map \in StallMaps /\ \A a \in Addrs : b.stall_map[a] = <<>>
        /\ b.stall_map_size = 0 /\ b.time_last_pop = 0 /\ b.time_last_enqueue = 0
        /\ NumAddrs \in Nat \ {0} /\ MaxSize \in Nat /\ HeapRight(b) /\ ResponsePort \in InPorts
    BY EmptyFacts, Zenon DEF ControllerConstants
  <2>2. now = 0 /\ \A p \in InPorts : bufs[p] = b
    BY DEF ControllerInit
  <2> HIDE DEF b
  <2>3. Len(AllStalled(b.stall_map)) = 0
    <3>1. AllStalled(b.stall_map) = <<>>
      BY <2>1, AllStalledType, Zenon
    <3> QED BY <3>1
  <2>4. Cardinality(b.heap) = 0
    BY <2>1, FS_EmptySet, Zenon
  <2>5. 0 <= current_size(b, 0)
    <3>1. b.size_at_cycle_start \in Nat /\ b.msgs_this_cycle \in Nat
      BY <2>1, SizeTypes, Zenon
    <3>2. current_size(b, 0) = b.size_at_cycle_start + b.msgs_this_cycle
      BY <2>1, CurrentSize, Zenon
    <3> QED BY <3>1, <3>2
  <2>6. SizeRight(b, 0)
    BY <2>1, <2>3, <2>4, <2>5 DEF SizeRight
  <2>7. NoneReady(b, 0)
    BY <2>1, Zenon DEF NoneReady
  <2> QED BY <2>1, <2>2, <2>6, <2>7, Zenon DEF SizeInv
<1>2. StallInv /\ SizeInv /\ [ControllerNext]_controllerVars => StallInv' /\ SizeInv'
  BY StallNext, SizeNext, Zenon
<1>3. SizeInv => Capacity
  BY Zenon DEF SizeInv, SizeRight, Capacity, Stored
<1> QED BY <1>1, <1>2, <1>3, PTL DEF ControllerSpec
-----------------------------------------------------------------------------
\* A message arrives after those that were sent before it.
LEMMA ArrivalOrder ==
    ASSUME ControllerConstants, OrderedArrivals, StallInv, NEW p \in InPorts, LineRight(p),
           NEW arrival \in ArrivalTimes(bufs[p], now)
    PROVE  /\ bufs[p].last_arrival_time <= arrival
           /\ (StrictFifo /\ Randomization) \/ \A d \in Delays : arrival <= now + d
<1> DEFINE last == bufs[p].last_arrival_time
<1>1. PICK d \in Delays :
        arrival = (IF Randomization /\ StrictFifo /\ last > now THEN last ELSE now) + d
  BY Zenon DEF ArrivalTimes
<1>2. d \in Nat /\ last \in Nat /\ now \in Nat
  BY DEF ControllerConstants, StallInv, Buffers
<1>3. CASE StrictFifo /\ Randomization
  <2>1. arrival = (IF last > now THEN last ELSE now) + d
    BY <1>1, <1>3, Zenon
  <2> QED BY <1>2, <1>3, <2>1
<1>4. CASE ~(StrictFifo /\ Randomization)
  <2>1. arrival = now + d
    BY <1>1, <1>4, Zenon
  <2>2. \A c \in Delays : c = d
    BY <1>4 DEF OrderedArrivals
  <2>3. last <= now + d
    BY <1>4, Zenon DEF LineRight
  <2> QED BY <1>2, <2>1, <2>2, <2>3
<1> QED BY <1>3, <1>4, Zenon

\* A request that is handled.
LEMMA DoneFacts ==
    ASSUME FifoInv, NEW k \in DOMAIN done
    PROVE  done[k][1] \in InPorts \ {ResponsePort} /\ done[k][3] \in Nat
<1>1. done \in Seq((InPorts \ {ResponsePort}) \X Addrs \X Nat)
  BY Zenon DEF FifoInv
<1>2. done[k] \in (InPorts \ {ResponsePort}) \X Addrs \X Nat
  BY <1>1, ElementFacts, LengthFacts
<1> QED BY <1>2, Zenon

\* A step in which nothing is handled keeps FifoInv when the buffers it adds
\* to, or whose messages it reanalyzes, are those of ports that have put
\* messages back or of the port for responses.
LEMMA FifoKept ==
    ASSUME ControllerConstants, StallInv, FifoInv,
           UNCHANGED <<requested, done>>, now' = now \/ now' = now + 1,
           put_back \subseteq put_back', put_back' \subseteq InPorts,
           \A q \in InPorts \ {ResponsePort} : q \notin put_back' =>
              /\ bufs'[q] = bufs[q]
              /\ \A a \in Addrs : q \notin waiting[a] => q \notin waiting'[a]
    PROVE  FifoInv'
<1>1. /\ \A p \in InPorts \ {ResponsePort} :
            p \notin put_back => LineRight(p) /\ \A a \in Addrs : p \notin waiting[a]
      /\ \A k \in DOMAIN done : done[k][1] \notin put_back => HandledRight(k)
      /\ FifoOrder /\ done \in Seq((InPorts \ {ResponsePort}) \X Addrs \X Nat)
  BY Zenon DEF FifoInv
<1>2. now \in Nat /\ \A q \in InPorts : bufs[q] \in Buffers /\ bufs[q].last_arrival_time \in Nat
  BY Zenon DEF StallInv, Buffers
<1>3. ASSUME NEW q \in InPorts \ {ResponsePort}, q \notin put_back' PROVE LineRight(q)'
  <2>1. LineRight(q) /\ bufs'[q] = bufs[q] /\ bufs[q].last_arrival_time \in Nat
    BY <1>1, <1>2, <1>3, Zenon
  <2>2. \A d \in Delays : d \in Nat
    BY Zenon DEF ControllerConstants
  <2>3. (\A d \in Delays : bufs[q].last_arrival_time <= now + d)
           => \A d \in Delays : bufs[q].last_arrival_time <= now' + d
    BY <1>2, <2>1, <2>2
  <2> QED BY <2>1, <2>3, Zenon DEF LineRight
<1>4. \A q \in InPorts \ {ResponsePort} : q \notin put_back' => \A a \in Addrs : q \notin waiting'[a]
  BY <1>1, Zenon
<1>5. ASSUME NEW k \in DOMAIN done, done[k][1] \notin put_back' PROVE HandledRight(k)'
  <2>1. done[k][1] \in InPorts \ {ResponsePort} /\ HandledRight(k)
    BY <1>1, <1>5, DoneFacts, Zenon
  <2>2. bufs'[done[k][1]] = bufs[done[k][1]]
    BY <1>5, <2>1, Zenon
  <2> QED BY <2>1, <2>2, Zenon DEF HandledRight
<1>6. FifoOrder'
  BY <1>1, Zenon DEF FifoOrder
<1> QED BY <1>1, <1>3, <1>4, <1>5, <1>6, Zenon DEF FifoInv

\* A request that is sent.
LEMMA FifoSend ==
    ASSUME ControllerConstants, OrderedArrivals, StallInv, FifoInv, NEW p \in InPorts, send_request(p)
    PROVE  FifoInv'
<1>0. /\ put_back \subseteq InPorts /\ done \in Seq((InPorts \ {ResponsePort}) \X Addrs \X Nat)
      /\ \A q \in InPorts \ {ResponsePort} :
            q \notin put_back => LineRight(q) /\ \A a \in Addrs : q \notin waiting[a]
      /\ \A k \in DOMAIN done : done[k][1] \notin put_back => HandledRight(k)
      /\ FifoOrder
  BY Zenon DEF FifoInv
<1>1. /\ now \in Nat /\ requested \in [InPorts -> Nat]
      /\ \A q \in InPorts : bufs[q] \in Buffers /\ HeapRight(bufs[q])
      /\ \A q \in InPorts : \A m \in bufs[q].heap : m.time \in Nat /\ m.counter \in Nat /\ m.id \in Nat
  BY TimesFacts, Zenon DEF StallInv
<1>2. PICK n, arrival : Enqueues(p, requested[p] + 1, n, arrival)
  BY SendEffect
<1>3. /\ UNCHANGED <<now, waiting, done, put_back>> /\ requested' = [requested EXCEPT ![p] = @ + 1]
  BY Zenon DEF send_request
<1>4. /\ requested'[p] = requested[p] + 1 /\ requested[p] \in Nat
      /\ \A q \in InPorts \ {p} : requested'[q] = requested[q]
  BY <1>1, <1>3, Zenon
<1>5. /\ bufs'[p].heap = bufs[p].heap \cup {n} /\ bufs'[p].last_arrival_time = arrival
      /\ n.id = requested[p] + 1 /\ n.time = arrival /\ n.counter = bufs[p].msg_counter + 1
      /\ arrival \in Nat /\ arrival \in ArrivalTimes(bufs[p], now)
      /\ \A q \in InPorts \ {p} : bufs'[q] = bufs[q]
  BY <1>2, Zenon DEF Enqueues, IsEnqueued, Changed
<1>6. ASSUME LineRight(p) PROVE LineRight(p)'
  <2>5. /\ bufs[p].last_arrival_time <= arrival
        /\ (StrictFifo /\ Randomization) \/ \A d \in Delays : arrival <= now + d
    BY <1>5, <1>6, ArrivalOrder, Zenon
  <2>6. /\ \A m \in bufs[p].heap : m.time <= arrival /\ m.id <= requested[p] + 1 /\ m.counter < n.counter
    <3>1. \A m \in bufs[p].heap : m.time <= bufs[p].last_arrival_time /\ m.id <= requested[p]
      BY <1>6, Zenon DEF LineRight
    <3>2. bufs[p].msg_counter \in Nat /\ \A m \in bufs[p].heap : m.counter <= bufs[p].msg_counter
      BY <1>1, Zenon DEF HeapRight, Buffers
    <3>3. bufs[p].last_arrival_time \in Nat
      BY <1>1 DEF Buffers
    <3> QED BY <1>1, <1>4, <1>5, <2>5, <3>1, <3>2, <3>3
  <2>7. /\ \A m \in bufs'[p].heap : m.time <= arrival /\ m.id <= requested[p] + 1
        /\ \A m, x \in bufs'[p].heap : m.counter < x.counter => m.time <= x.time /\ m.id <= x.id
    <3>1. \A m, x \in bufs[p].heap : m.counter < x.counter => m.time <= x.time /\ m.id <= x.id
      BY <1>6, Zenon DEF LineRight
    <3>2. n.counter \in Nat /\ n.time <= arrival /\ n.id <= requested[p] + 1
      <4>1. bufs[p].msg_counter \in Nat
        BY <1>1, Zenon DEF Buffers
      <4> QED BY <1>4, <1>5, <4>1
    <3>3. ASSUME NEW m \in bufs'[p].heap, NEW x \in bufs'[p].heap, m.counter < x.counter
          PROVE  m.time <= x.time /\ m.id <= x.id
      <4>1. m # n
        BY <1>1, <1>5, <2>6, <3>2, <3>3
      <4>2. CASE x = n
        BY <1>5, <2>6, <4>1, <4>2, Zenon
      <4>3. CASE x # n
        BY <1>5, <3>1, <3>3, <4>1, <4>3, Zenon
      <4> QED BY <4>2, <4>3, Zenon
    <3> QED BY <1>5, <2>6, <3>2, <3>3, Zenon
  <2> QED BY <1>3, <1>4, <1>5, <2>5, <2>7, Zenon DEF LineRight
<1>7. ASSUME NEW q \in InPorts \ {ResponsePort}, q \notin put_back PROVE LineRight(q)'
  <2>1. LineRight(q)
    BY <1>0, <1>7, Zenon
  <2>2. CASE q = p
    BY <1>6, <2>1, <2>2, Zenon
  <2>3. CASE q # p
    BY <1>3, <1>4, <1>5, <2>1, <2>3, Zenon DEF LineRight
  <2> QED BY <2>2, <2>3, Zenon
<1>8. ASSUME NEW k \in DOMAIN done, done[k][1] \notin put_back PROVE HandledRight(k)'
  <2>1. /\ done[k][1] \in InPorts /\ done[k][3] \in Nat /\ done[k][3] <= requested[done[k][1]]
        /\ \A m \in bufs[done[k][1]].heap : done[k][3] <= m.id
    BY <1>0, <1>8, DoneFacts, Zenon DEF HandledRight
  <2>2. CASE done[k][1] = p
    BY <1>3, <1>4, <1>5, <2>1, <2>2, SMTT(30) DEF HandledRight
  <2>3. CASE done[k][1] # p
    BY <1>3, <1>4, <1>5, <2>1, <2>3, Zenon DEF HandledRight
  <2> QED BY <2>2, <2>3, Zenon
<1>9. FifoOrder'
  BY <1>0, <1>3, Zenon DEF FifoOrder
<1> QED BY <1>0, <1>3, <1>7, <1>8, <1>9, Zenon DEF FifoInv

\* A request that is handled is the oldest of its port.
LEMMA FifoHandle ==
    ASSUME ControllerConstants, StallInv, FifoInv, NEW p \in InPorts, handle(p)
    PROVE  FifoInv'
<1> DEFINE m == peek(bufs[p])
           r == <<p, m.addr, m.id>>
           l == Len(done)
           Handled == (InPorts \ {ResponsePort}) \X Addrs \X Nat
<1>0. /\ put_back \subseteq InPorts /\ done \in Seq(Handled)
      /\ \A q \in InPorts \ {ResponsePort} :
            q \notin put_back => LineRight(q) /\ \A a \in Addrs : q \notin waiting[a]
      /\ \A k \in DOMAIN done : done[k][1] \notin put_back => HandledRight(k)
      /\ FifoOrder
  BY Zenon DEF FifoInv
<1>1. \A q \in InPorts : HeapRight(bufs[q])
  BY Zenon DEF StallInv
<1>2. /\ Turn(p) /\ p # ResponsePort /\ bufs' = [bufs EXCEPT ![p] = dequeue(@, now)]
      /\ UNCHANGED <<now, requested, waiting, put_back>> /\ done' = Append(done, r)
  BY DEF handle
<1>3. /\ bufs'[p].heap = bufs[p].heap \ {m} /\ bufs'[p].last_arrival_time = bufs[p].last_arrival_time
      /\ \A q \in InPorts \ {p} : bufs'[q] = bufs[q]
  BY <1>2, DequeuesFacts, Zenon DEF Dequeues, IsDequeued, Changed
<1>4. \A q \in InPorts : bufs'[q].heap \subseteq bufs[q].heap /\ bufs'[q].last_arrival_time = bufs[q].last_arrival_time
  BY <1>3, Zenon
<1>5. m \in bufs[p].heap /\ m \in Messages /\ m.addr \in Addrs /\ m.id \in Nat
  BY <1>2, TimesFacts, TurnFacts, Zenon
<1>6. ASSUME LineRight(p)
      PROVE  m.id <= requested[p] /\ \A n \in bufs'[p].heap : m.id <= n.id
  <2>1. m.id <= requested[p]
    BY <1>5, <1>6, Zenon DEF LineRight
  <2>2. ASSUME NEW n \in bufs'[p].heap PROVE m.id <= n.id
    <3>1. n \in bufs[p].heap /\ n # m
      BY <1>3, <2>2, Zenon
    <3>2. Before(m, n)
      BY <1>1, <1>5, <3>1, PeekFacts, Zenon
    <3>3. m.counter # n.counter
      BY <1>1, <1>5, <3>1, Zenon DEF HeapRight
    <3>4. /\ m.counter < n.counter => m.id <= n.id
          /\ n.counter < m.counter => n.time <= m.time /\ n.id <= m.id
      BY <1>5, <1>6, <3>1, Zenon DEF LineRight
    <3>5. m.counter \in Nat /\ n.counter \in Nat /\ m.time \in Nat /\ n.time \in Nat
      BY <1>5, <3>1, TimesFacts, Zenon
    <3> QED BY <3>2, <3>3, <3>4, <3>5 DEF Before
  <2> QED BY <2>1, <2>2, Zenon
<1>7. r \in Handled /\ r[1] = p /\ r[3] = m.id
  BY <1>2, <1>5, Zenon
<1> HIDE DEF m, r, Handled
<1>8. /\ done' \in Seq(Handled) /\ l \in Nat /\ DOMAIN done = 1 .. l
      /\ DOMAIN done' = 1 .. (l + 1) /\ done'[l + 1] = r
      /\ \A k \in 1 .. l : done'[k] = done[k]
  BY <1>0, <1>2, <1>7, SMTT(30)
<1> HIDE DEF l
<1>9. ASSUME NEW q \in InPorts \ {ResponsePort}, q \notin put_back PROVE LineRight(q)'
  <2>1. LineRight(q)
    BY <1>0, <1>9, Zenon
  <2> QED BY <1>2, <1>4, <2>1, Zenon DEF LineRight
<1>10. ASSUME NEW k \in DOMAIN done', done'[k][1] \notin put_back PROVE HandledRight(k)'
  <2>1. CASE k = l + 1
    <3>1. done'[k] = r /\ p \notin put_back
      BY <1>7, <1>8, <1>10, <2>1, Zenon
    <3>2. m.id <= requested[p] /\ \A n \in bufs'[p].heap : m.id <= n.id
      BY <1>0, <1>2, <1>6, <3>1, Zenon
    <3> QED BY <1>2, <1>7, <3>1, <3>2, Zenon DEF HandledRight
  <2>2. CASE k # l + 1
    <3>1. k \in DOMAIN done /\ done'[k] = done[k]
      BY <1>8, <1>10, <2>2
    <3>2. HandledRight(k) /\ done[k][1] \in InPorts
      BY <1>0, <1>10, <3>1, DoneFacts, Zenon
    <3> QED BY <1>2, <1>4, <3>1, <3>2, Zenon DEF HandledRight
  <2> QED BY <2>1, <2>2, Zenon
<1>11. FifoOrder'
  <2> SUFFICES ASSUME NEW j \in DOMAIN done', NEW i \in 1 .. j, done'[i][1] = done'[j][1],
                      done'[j][1] \notin put_back
               PROVE  done'[i][3] <= done'[j][3]
    BY <1>2, Zenon DEF FifoOrder
  <2>1. CASE j \in 1 .. l
    <3>1. i \in 1 .. l /\ done'[i] = done[i] /\ done'[j] = done[j] /\ j \in DOMAIN done
      BY <1>8, <2>1
    <3> QED BY <1>0, <3>1, Zenon DEF FifoOrder
  <2>2. CASE j = l + 1 /\ i = l + 1
    BY <1>5, <1>7, <1>8, <2>2
  <2>3. CASE j = l + 1 /\ i # l + 1
    <3>1. i \in DOMAIN done /\ done'[i] = done[i] /\ done'[j] = r
      BY <1>8, <2>3
    <3>2. \A n \in bufs[done[i][1]].heap : done[i][3] <= n.id
      BY <1>0, <3>1, Zenon DEF HandledRight
    <3> QED BY <1>5, <1>7, <3>1, <3>2, Zenon
  <2> QED BY <1>8, <2>1, <2>2, <2>3
<1> QED BY <1>0, <1>2, <1>8, <1>9, <1>10, <1>11, Zenon DEF FifoInv, Handled

\* Every step keeps FifoInv.
LEMMA FifoNext ==
    ASSUME ControllerConstants, OrderedArrivals, StallInv, FifoInv, [ControllerNext]_controllerVars
    PROVE  FifoInv'
<1>0. /\ put_back \subseteq InPorts /\ ResponsePort \in InPorts /\ DOMAIN waiting = Addrs
      /\ \A p \in InPorts \ {ResponsePort} : p \notin put_back => \A a \in Addrs : p \notin waiting[a]
  BY Zenon DEF FifoInv, ControllerConstants, StallInv
<1>1. ASSUME NEW p \in InPorts, send_request(p) PROVE FifoInv'
  BY <1>1, FifoSend, Zenon
<1>2. ASSUME NEW p \in InPorts, handle(p) PROVE FifoInv'
  BY <1>2, FifoHandle
<1>3. ASSUME NEW a \in Addrs, respond(a) PROVE FifoInv'
  <2>1. PICK n, arrival : Enqueues(ResponsePort, 0, n, arrival)
    BY <1>3, RespondEffect
  <2>2. \A q \in InPorts \ {ResponsePort} : bufs'[q] = bufs[q]
    BY <2>1 DEF Enqueues, Changed
  <2>3. UNCHANGED <<now, requested, done, waiting, put_back>>
    BY <1>3, SMTT(30) DEF respond
  <2> QED BY <1>0, <2>2, <2>3, FifoKept
<1>4. CASE response
  <2> DEFINE a == peek(bufs[ResponsePort]).addr
  <2>1. Responds(a)
    BY <1>4, RespondsFacts
  <2>2. UNCHANGED <<now, requested, done, put_back>> /\ waiting' = WaitingLeft(a)
    BY <1>4 DEF response
  <2> HIDE DEF a
  <2>3. a \in Addrs /\ \A q \in InPorts \ {ResponsePort} : q \notin WokenPorts(ResponsePort, a) => bufs'[q] = bufs[q]
    BY <2>1, Zenon DEF Responds
  <2>4. ASSUME NEW q \in InPorts \ {ResponsePort}, q \notin put_back
        PROVE  bufs'[q] = bufs[q] /\ \A c \in Addrs : q \notin waiting'[c]
    <3>1. \A c \in Addrs : q \notin waiting[c]
      BY <1>0, <2>4
    <3>2. q \notin WokenPorts(ResponsePort, a)
      BY <2>3, <3>1, WokenPortsFacts
    <3>3. \A c \in Addrs : q \notin waiting'[c]
      BY <1>0, <2>2, <3>1 DEF WaitingLeft
    <3> QED BY <2>3, <3>2, <3>3
  <2> QED BY <1>0, <2>2, <2>4, FifoKept
<1>5. ASSUME NEW p \in InPorts, stall_and_wait(p) PROVE FifoInv'
  <2>1. /\ peek(bufs[p]).addr \in Addrs /\ Stalls(p, peek(bufs[p]).addr)
        /\ waiting' = [waiting EXCEPT ![peek(bufs[p]).addr] = @ \cup {p}]
    BY <1>5, StallEffect
  <2>2. UNCHANGED <<now, requested, done>> /\ put_back' = put_back \cup {p}
    BY <1>5 DEF stall_and_wait
  <2>3. \A q \in InPorts \ {p} : bufs'[q] = bufs[q] /\ \A a \in Addrs : q \notin waiting[a] => q \notin waiting'[a]
    BY <1>0, <2>1 DEF Stalls, Changed
  <2> QED BY <1>0, <2>2, <2>3, FifoKept
<1>6. ASSUME NEW p \in InPorts, recycle_request(p) \/ block_on(p) PROVE FifoInv'
  <2>1. UNCHANGED <<now, requested, done, waiting>> /\ put_back' = put_back \cup {p}
    BY <1>6 DEF recycle_request, block_on
  <2>2. Changed(p)
    <3>1. CASE recycle_request(p)
      BY <3>1, RecycleEffect, Zenon DEF Recycles
    <3>2. CASE block_on(p)
      BY <3>2, BlockEffect DEF DelaysHead
    <3> QED BY <1>6, <3>1, <3>2
  <2>3. \A q \in InPorts \ {p} : bufs'[q] = bufs[q]
    BY <2>2, SMTT(30) DEF Changed
  <2> QED BY <1>0, <2>1, <2>3, FifoKept
<1>7. CASE start_wakeup \/ end_wakeup \/ EndCycle \/ UNCHANGED controllerVars
  <2>1. UNCHANGED <<bufs, waiting, requested, done, put_back>> /\ (now' = now \/ now' = now + 1)
    BY <1>7 DEF start_wakeup, end_wakeup, EndCycle, controllerVars
  <2> QED BY <1>0, <2>1, FifoKept, SMTT(30)
<1> QED BY <1>1, <1>2, <1>3, <1>4, <1>5, <1>6, <1>7, Zenon DEF ControllerNext, Step

\* For every controller whose buffers keep the order of arrival: the requests
\* of a port are handled in the order in which they were sent, although the
\* heap orders them by time, as long as none of them is put back.
THEOREM RequestsInOrder ==
    ASSUME ControllerConstants, OrderedArrivals
    PROVE  ControllerSpec => []FifoOrder
<1>1. ControllerInit => StallInv /\ FifoInv
  <2> SUFFICES ASSUME ControllerInit PROVE FifoInv
    BY StallInit
  <2>1. /\ now = 0 /\ done = <<>> /\ put_back = {} /\ \A a \in Addrs : waiting[a] = {}
        /\ \A p \in InPorts : bufs[p] = EmptyBuffer
    BY DEF ControllerInit
  <2>2. EmptyBuffer.heap = {} /\ EmptyBuffer.last_arrival_time = 0
    BY EmptyFacts, SMTT(30) DEF ControllerConstants
  <2>3. ASSUME NEW p \in InPorts PROVE LineRight(p)
    <3>1. bufs[p].heap = {} /\ bufs[p].last_arrival_time = 0
      BY <2>1, <2>2
    <3>2. \A d \in Delays : 0 <= now + d
      BY <2>1 DEF ControllerConstants
    <3> QED BY <3>1, <3>2, Zenon DEF LineRight
  <2>4. done \in Seq((InPorts \ {ResponsePort}) \X Addrs \X Nat) /\ DOMAIN done = {}
    BY <2>1
  <2> QED BY <2>1, <2>3, <2>4, Zenon DEF FifoInv, FifoOrder
<1>2. StallInv /\ FifoInv /\ [ControllerNext]_controllerVars => StallInv' /\ FifoInv'
  BY StallNext, FifoNext
<1>3. FifoInv => FifoOrder
  BY DEF FifoInv
<1> QED BY <1>1, <1>2, <1>3, PTL DEF ControllerSpec
=============================================================================
