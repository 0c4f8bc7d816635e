-------------------------- MODULE ControllerProofs --------------------------
(***************************************************************************)
(* A controller with any number of ports, lines and requests: it knows of  *)
(* the messages that are stalled, and wakes up for the others.             *)
(***************************************************************************)
EXTENDS Controller, FiniteSetTheorems, WellFoundedInduction, TLAPS

\* The length of a sequence is a number, and counts its elements.
LEMMA LengthFacts ==
    ASSUME NEW S, NEW seq \in Seq(S)
    PROVE  Len(seq) \in Nat /\ DOMAIN seq = 1 .. Len(seq)
OBVIOUS

\* The elements of a sequence.
LEMMA ElementFacts ==
    ASSUME NEW S, NEW seq \in Seq(S), NEW k \in 1 .. Len(seq)
    PROVE  seq[k] \in S
OBVIOUS

\* A sequence with one more element.
LEMMA AppendFacts ==
    ASSUME NEW S, NEW seq \in Seq(S), NEW x \in S
    PROVE  /\ Append(seq, x) \in Seq(S) /\ Append(seq, x) # <<>>
           /\ Len(Append(seq, x)) = Len(seq) + 1
<1>1. /\ Append(seq, x) \in Seq(S) /\ Len(Append(seq, x)) = Len(seq) + 1
      /\ Len(seq) \in Nat /\ Len(<<>>) = 0
  OBVIOUS
<1>2. Append(seq, x) # <<>>
  BY ONLY <1>1
<1> QED
  BY <1>1, <1>2, Zenon

\* What a message takes a cycle at least, and the controller does a transition
\* per cycle at least.  wakeUpBuffers, which goes through the ports of lower
\* rank only, is called from the port of highest rank.
ControllerConstants ==
    /\ NumPorts \in Nat \ {0} /\ ResponsePort \in InPorts
    /\ NumAddrs \in Nat \ {0} /\ MaxSize \in Nat
    /\ Delays \subseteq Nat \ {0} /\ TransitionsPerCycle \in Nat
    /\ MayMiss \in BOOLEAN /\ StrictFifo \in BOOLEAN /\ Randomization \in BOOLEAN
    /\ WakeUp \in {"wakeUpBuffers", "wakeUpAllBuffers_addr", "wakeUpAllBuffers"}
    /\ WakeUp = "wakeUpBuffers" => ResponsePort = NumPorts - 1

Messages == [id : Nat, addr : Addrs, time : Nat, counter : Nat]
Buffers  == [heap : SUBSET Messages, stall_map : [Addrs -> Seq(Messages)], stall_map_size : Int,
             time_last_pop : Nat, time_last_enqueue : Nat, last_arrival_time : Nat,
             size_at_cycle_start : Nat, msgs_this_cycle : Nat, msg_counter : Nat]

\* The messages of a heap have numbers of their own.
HeapRight(b) ==
    /\ b \in Buffers /\ IsFiniteSet(b.heap)
    /\ \A m \in b.heap : m.counter <= b.msg_counter
    /\ \A m, n \in b.heap : m.counter = n.counter => m = n

\* The types, and the messages that are stalled.
StallInv ==
    /\ now \in Nat /\ running \in BOOLEAN /\ busy \subseteq Addrs
    /\ bufs \in [InPorts -> Buffers] /\ \A p \in InPorts : HeapRight(bufs[p])
    /\ waiting \in [Addrs -> SUBSET (InPorts \ {ResponsePort})]
    /\ requested \in [InPorts -> Nat]
    /\ StalledAreAwaited

\* The wakeups to come, also while one runs.
WakeupInv ==
    /\ \A p \in InPorts : \A m \in bufs[p].heap : m.time > now => m.time \in scheduled
    /\ ~running => \A p \in InPorts : \A m \in bufs[p].heap :
          m.time <= now => (now \in scheduled /\ ~ran) \/ now + 1 \in scheduled

NoneReady(b, t) == \A m \in b.heap : m.time > t

-----------------------------------------------------------------------------
\* Every set of numbers has a least one; it stands for induction below.
LEMMA LeastNumber ==
    ASSUME NEW S, S \subseteq Nat, S # {}
    PROVE  \E m \in S : \A k \in S : m <= k
<1>1. IsWellFoundedOn(OpToRel(<, Nat), Nat)
  BY NatLessThanWellFounded, Zenon
<1>2. PICK m \in S : \A k \in S : ~(<<k, m>> \in OpToRel(<, Nat))
  BY <1>1, WFMin, Zenon
<1>3. \A k \in S : ~(k < m)
  BY <1>2, Zenon DEF OpToRel
<1> QED BY <1>3

\* The head of a heap is a message of it that comes before all the others.
LEMMA PeekFacts ==
    ASSUME NEW b, HeapRight(b), b.heap # {}
    PROVE  /\ peek(b) \in b.heap /\ peek(b) \in Messages
           /\ \A n \in b.heap : peek(b).time <= n.time
           /\ \A n \in b.heap \ {peek(b)} : Before(peek(b), n)
<1>0. b.heap \subseteq Messages
  BY DEF HeapRight, Buffers
<1>1. \A m \in b.heap : m.time \in Nat /\ m.counter \in Nat
  BY <1>0 DEF Messages
<1>2. PICK m1 \in b.heap : \A n \in b.heap : m1.time <= n.time
  <2> DEFINE T == {m.time : m \in b.heap}
  <2>1. T \subseteq Nat /\ T # {}
    BY <1>1
  <2>2. PICK t \in T : \A k \in T : t <= k
    <3> HIDE DEF T
    <3> QED BY <2>1, LeastNumber, Zenon
  <2> QED BY <2>2
<1>3. PICK m \in b.heap : m.time = m1.time /\ \A n \in b.heap : n.time = m1.time => m.counter <= n.counter
  <2> DEFINE F == {n \in b.heap : n.time = m1.time}
             C == {n.counter : n \in F}
  <2>1. C \subseteq Nat /\ C # {}
    BY <1>1
  <2>2. PICK c \in C : \A k \in C : c <= k
    <3> HIDE DEF C
    <3> QED BY <2>1, LeastNumber, Zenon
  <2> QED BY <2>2
<1>4. \A n \in b.heap \ {m} : Before(m, n)
  <2> SUFFICES ASSUME NEW n \in b.heap, n # m PROVE Before(m, n)
    OBVIOUS
  <2>1. m.time <= n.time /\ m.counter # n.counter
    BY <1>2, <1>3 DEF HeapRight
  <2> QED BY <1>1, <1>3, <2>1 DEF Before
<1>5. peek(b) \in b.heap /\ \A n \in b.heap \ {peek(b)} : Before(peek(b), n)
  BY <1>4, Zenon DEF peek
<1>6. \A n \in b.heap : peek(b).time <= n.time
  BY <1>1, <1>5 DEF Before
<1> QED BY <1>0, <1>5, <1>6

\* A heap has a message that is ready exactly when its head is.
LEMMA ReadyFacts ==
    ASSUME NEW b, HeapRight(b), NEW t \in Nat
    PROVE  isReady(b, t) <=> ~NoneReady(b, t)
<1>1. \A m \in b.heap : m.time \in Nat
  BY DEF HeapRight, Buffers, Messages
<1>2. CASE b.heap = {}
  BY <1>2 DEF isReady, NoneReady
<1>3. CASE b.heap # {}
  <2>1. peek(b) \in b.heap /\ \A n \in b.heap : peek(b).time <= n.time
    BY <1>3, PeekFacts
  <2>2. isReady(b, t) <=> peek(b).time <= t
    BY <1>3 DEF isReady
  <2> QED BY <1>1, <2>1, <2>2 DEF NoneReady
<1> QED BY <1>2, <1>3
-----------------------------------------------------------------------------
\* The operations on a buffer, field by field.
Stamped(m, t, c) == [m EXCEPT !.time = t, !.counter = c]

IsStamped(n, m, t, c) ==
    n \in Messages /\ n.id = m.id /\ n.addr = m.addr /\ n.time = t /\ n.counter = c

IsEnqueued(e, b, n, t, arrival) ==
    /\ e \in Buffers
    /\ e.heap = b.heap \cup {n} /\ e.msg_counter = b.msg_counter + 1
    /\ e.stall_map = b.stall_map /\ e.stall_map_size = b.stall_map_size
    /\ e.time_last_pop = b.time_last_pop /\ e.size_at_cycle_start = b.size_at_cycle_start
    /\ e.time_last_enqueue = t /\ e.last_arrival_time = arrival
    /\ e.msgs_this_cycle = (IF b.time_last_enqueue < t THEN 0 ELSE b.msgs_this_cycle) + 1

\* enqueue adds the message with the next number.
LEMMA EnqueueFields ==
    ASSUME NEW b \in Buffers, NEW m \in Messages, NEW t \in Nat, NEW arrival \in Nat
    PROVE  /\ IsStamped(Stamped(m, arrival, b.msg_counter + 1), m, arrival, b.msg_counter + 1)
           /\ IsEnqueued(enqueue(b, m, t, arrival), b, Stamped(m, arrival, b.msg_counter + 1), t, arrival)
<1> DEFINE n == Stamped(m, arrival, b.msg_counter + 1)
           e == enqueue(b, m, t, arrival)
<1>1. IsStamped(n, m, arrival, b.msg_counter + 1)
  <2>1. b.msg_counter + 1 \in Nat
    BY DEF Buffers
  <2> QED BY <2>1, Zenon DEF Messages, Stamped, IsStamped
<1>2. /\ e.heap = b.heap \cup {n} /\ e.msg_counter = b.msg_counter + 1
      /\ e.stall_map = b.stall_map /\ e.stall_map_size = b.stall_map_size
      /\ e.time_last_pop = b.time_last_pop /\ e.size_at_cycle_start = b.size_at_cycle_start
      /\ e.time_last_enqueue = t /\ e.last_arrival_time = arrival
      /\ e.msgs_this_cycle = (IF b.time_last_enqueue < t THEN 0 ELSE b.msgs_this_cycle) + 1
  BY DEF enqueue, Buffers, Messages, Stamped
<1>3. e \in Buffers
  <2>1. /\ b.heap \cup {n} \in SUBSET Messages /\ b.msg_counter + 1 \in Nat
        /\ (IF b.time_last_enqueue < t THEN 0 ELSE b.msgs_this_cycle) + 1 \in Nat
    BY <1>1 DEF Buffers, IsStamped
  <2> QED BY <2>1, Zenon DEF Buffers, enqueue, Stamped
<1> QED BY <1>1, <1>2, <1>3, Zenon DEF IsEnqueued

IsDequeued(e, b, t) ==
    /\ e \in Buffers
    /\ e.heap = b.heap \ {peek(b)} /\ e.msg_counter = b.msg_counter
    /\ e.stall_map = b.stall_map /\ e.stall_map_size = b.stall_map_size
    /\ e.time_last_pop = t
    /\ e.size_at_cycle_start = (IF b.time_last_pop < t THEN Cardinality(b.heap) ELSE b.size_at_cycle_start)
    /\ e.time_last_enqueue = b.time_last_enqueue /\ e.last_arrival_time = b.last_arrival_time
    /\ e.msgs_this_cycle = b.msgs_this_cycle

\* dequeue takes the head out.
LEMMA DequeueFields ==
    ASSUME NEW b \in Buffers, IsFiniteSet(b.heap), NEW t \in Nat
    PROVE  IsDequeued(dequeue(b, t), b, t)
<1> DEFINE e == dequeue(b, t)
<1>1. /\ e.heap = b.heap \ {peek(b)} /\ e.msg_counter = b.msg_counter
      /\ e.stall_map = b.stall_map /\ e.stall_map_size = b.stall_map_size
      /\ e.time_last_pop = t
      /\ e.size_at_cycle_start = (IF b.time_last_pop < t THEN Cardinality(b.heap) ELSE b.size_at_cycle_start)
      /\ e.time_last_enqueue = b.time_last_enqueue /\ e.last_arrival_time = b.last_arrival_time
      /\ e.msgs_this_cycle = b.msgs_this_cycle
  BY DEF dequeue, Buffers
<1>2. e \in Buffers
  <2>1. Cardinality(b.heap) \in Nat
    BY FS_CardinalityType
  <2>2. /\ b.heap \ {peek(b)} \in SUBSET Messages
        /\ (IF b.time_last_pop < t THEN Cardinality(b.heap) ELSE b.size_at_cycle_start) \in Nat
    BY <2>1 DEF Buffers
  <2> QED BY <2>2, Zenon DEF Buffers, dequeue
<1> QED BY <1>1, <1>2, Zenon DEF IsDequeued

IsRecycled(e, b, n) ==
    /\ e \in Buffers
    /\ e.heap = (b.heap \ {peek(b)}) \cup {n} /\ e.msg_counter = b.msg_counter
    /\ e.stall_map = b.stall_map /\ e.stall_map_size = b.stall_map_size
    /\ e.time_last_pop = b.time_last_pop /\ e.size_at_cycle_start = b.size_at_cycle_start
    /\ e.time_last_enqueue = b.time_last_enqueue /\ e.last_arrival_time = b.last_arrival_time
    /\ e.msgs_this_cycle = b.msgs_this_cycle

\* recycle changes the time of the head.
LEMMA RecycleFields ==
    ASSUME NEW b \in Buffers, peek(b) \in Messages, NEW t \in Nat
    PROVE  /\ IsStamped([peek(b) EXCEPT !.time = t], peek(b), t, peek(b).counter)
           /\ IsRecycled(recycle(b, t), b, [peek(b) EXCEPT !.time = t])
<1> DEFINE n == [peek(b) EXCEPT !.time = t]
           e == recycle(b, t)
<1>1. IsStamped(n, peek(b), t, peek(b).counter)
  BY DEF Messages, IsStamped
<1>2. /\ e.heap = (b.heap \ {peek(b)}) \cup {n} /\ e.msg_counter = b.msg_counter
      /\ e.stall_map = b.stall_map /\ e.stall_map_size = b.stall_map_size
      /\ e.time_last_pop = b.time_last_pop /\ e.size_at_cycle_start = b.size_at_cycle_start
      /\ e.time_last_enqueue = b.time_last_enqueue /\ e.last_arrival_time = b.last_arrival_time
      /\ e.msgs_this_cycle = b.msgs_this_cycle
  BY DEF recycle, Buffers
<1>3. e \in Buffers
  <2>1. (b.heap \ {peek(b)}) \cup {n} \in SUBSET Messages
    BY <1>1 DEF Buffers, IsStamped
  <2> QED BY <2>1, Zenon DEF Buffers, recycle
<1> QED BY <1>1, <1>2, <1>3, Zenon DEF IsRecycled
IsDelayed(e, b, n, t, arrival) ==
    /\ e \in Buffers
    /\ e.heap = (b.heap \ {peek(b)}) \cup {n} /\ e.msg_counter = b.msg_counter + 1
    /\ e.stall_map = b.stall_map /\ e.stall_map_size = b.stall_map_size
    /\ e.time_last_pop = b.time_last_pop /\ e.size_at_cycle_start = b.size_at_cycle_start
    /\ e.time_last_enqueue = t /\ e.last_arrival_time = arrival
    /\ e.msgs_this_cycle = (IF b.time_last_enqueue < t THEN 0 ELSE b.msgs_this_cycle) + 1

\* delayHead gives the head another time and the next number.
LEMMA DelayFields ==
    ASSUME NEW b \in Buffers, peek(b) \in Messages, NEW t \in Nat, NEW arrival \in Nat
    PROVE  /\ IsStamped(Stamped(peek(b), arrival, b.msg_counter + 1), peek(b), arrival, b.msg_counter + 1)
           /\ IsDelayed(delayHead(b, t, arrival), b,
                        Stamped(peek(b), arrival, b.msg_counter + 1), t, arrival)
<1> DEFINE out == [b EXCEPT !.heap = @ \ {peek(b)}]
           n   == Stamped(peek(b), arrival, b.msg_counter + 1)
<1>1. /\ out.heap = b.heap \ {peek(b)} /\ out.msg_counter = b.msg_counter
      /\ out.stall_map = b.stall_map /\ out.stall_map_size = b.stall_map_size
      /\ out.time_last_pop = b.time_last_pop /\ out.size_at_cycle_start = b.size_at_cycle_start
      /\ out.time_last_enqueue = b.time_last_enqueue /\ out.msgs_this_cycle = b.msgs_this_cycle
  BY DEF Buffers
<1>2. out \in Buffers
  BY DEF Buffers
<1>3. delayHead(b, t, arrival) = enqueue(out, peek(b), t, arrival)
  BY Zenon DEF delayHead
<1> HIDE DEF out
<1>4. /\ IsStamped(Stamped(peek(b), arrival, out.msg_counter + 1), peek(b), arrival, out.msg_counter + 1)
      /\ IsEnqueued(enqueue(out, peek(b), t, arrival), out,
                    Stamped(peek(b), arrival, out.msg_counter + 1), t, arrival)
  BY <1>2, EnqueueFields
<1>5. IsStamped(n, peek(b), arrival, b.msg_counter + 1)
  BY <1>1, <1>4
<1>6. IsEnqueued(delayHead(b, t, arrival), out, n, t, arrival)
  BY <1>1, <1>3, <1>4
<1> HIDE DEF n
<1>7. IsDelayed(delayHead(b, t, arrival), b, n, t, arrival)
  BY <1>1, <1>6 DEF IsEnqueued, IsDelayed
<1> QED BY <1>5, <1>7 DEF n

IsStalled(e, b, a, t) ==
    /\ e \in Buffers
    /\ e.heap = b.heap \ {peek(b)} /\ e.msg_counter = b.msg_counter
    /\ e.stall_map = [b.stall_map EXCEPT ![a] = Append(@, peek(b))]
    /\ e.stall_map_size = b.stall_map_size + 1
    /\ e.time_last_pop = t
    /\ e.size_at_cycle_start = (IF b.time_last_pop < t THEN Cardinality(b.heap) ELSE b.size_at_cycle_start)
    /\ e.time_last_enqueue = b.time_last_enqueue /\ e.last_arrival_time = b.last_arrival_time
    /\ e.msgs_this_cycle = b.msgs_this_cycle

\* stallMessage dequeues the head and puts it behind the others of its line.
LEMMA StallFields ==
    ASSUME NEW b \in Buffers, IsFiniteSet(b.heap), peek(b) \in Messages,
           NEW a \in Addrs, NEW t \in Nat
    PROVE  IsStalled(stallMessage(b, a, t), b, a, t)
<1> DEFINE d == dequeue(b, t)
           m == peek(b)
           e == [d EXCEPT !.stall_map[a] = Append(@, m), !.stall_map_size = @ + 1]
<1>1. IsDequeued(d, b, t)
  BY DequeueFields
<1>2. stallMessage(b, a, t) = e
  BY Zenon DEF stallMessage
<1>3. d \in Buffers
  BY <1>1 DEF IsDequeued
<1> HIDE DEF d, m
<1>4. /\ e.heap = d.heap /\ e.msg_counter = d.msg_counter
      /\ e.stall_map = [d.stall_map EXCEPT ![a] = Append(@, m)]
      /\ e.stall_map_size = d.stall_map_size + 1 /\ e.time_last_pop = d.time_last_pop
      /\ e.size_at_cycle_start = d.size_at_cycle_start
      /\ e.time_last_enqueue = d.time_last_enqueue /\ e.last_arrival_time = d.last_arrival_time
      /\ e.msgs_this_cycle = d.msgs_this_cycle
  BY <1>3 DEF Buffers
<1>5. e \in Buffers
  <2>1. d.stall_map \in [Addrs -> Seq(Messages)] /\ d.stall_map_size + 1 \in Int
    <3>1. d.stall_map \in [Addrs -> Seq(Messages)] /\ d.stall_map_size \in Int
      BY ONLY <1>3 DEF Buffers
    <3>2. d.stall_map_size + 1 \in Int
      BY ONLY <3>1
    <3> QED
      BY <3>1, <3>2, Zenon
  <2>2. m \in Messages
    BY DEF m
  <2>3. [d.stall_map EXCEPT ![a] = Append(@, m)] \in [Addrs -> Seq(Messages)]
    BY <2>1, <2>2
  <2> QED BY <1>3, <2>1, <2>3, Zenon DEF Buffers
<1> HIDE DEF e
<1> QED BY <1>1, <1>2, <1>4, <1>5 DEF IsDequeued, IsStalled, m
-----------------------------------------------------------------------------
StallMaps == [Addrs -> Seq(Messages)]

\* AllStalled goes through the lines one after the other.
GoesThrough(f, sm) ==
    /\ AllStalled(sm) = f[NumAddrs] /\ f[1] = sm[1]
    /\ \A i \in 2 .. NumAddrs : f[i] = f[i - 1] \o sm[i]

\* There is a function that does it.
LEMMA GoesThroughFunction ==
    ASSUME NumAddrs \in Nat \ {0}, NEW sm \in StallMaps
    PROVE  \E f : GoesThrough(f, sm)
<1> DEFINE Body(f, m) == f = [i \in 1 .. m |-> IF i = 1 THEN sm[i] ELSE f[i - 1] \o sm[i]]
           Stuck      == {m \in Nat : ~\E f : Body(f, m)}
<1>1. Stuck = {}
  <2> SUFFICES ASSUME Stuck # {} PROVE FALSE
    BY Zenon
  <2>1. PICK m \in Stuck : \A k \in Stuck : m <= k
    BY LeastNumber, Zenon
  <2>2. m \in Nat /\ ~\E f : Body(f, m)
    BY <2>1, Zenon
  <2>3. m # 0
    <3>1. Body([i \in 1 .. 0 |-> sm], 0)
      OBVIOUS
    <3> QED BY <2>2, <3>1, Zenon
  <2>4. PICK g : Body(g, m - 1)
    <3>1. m - 1 \in Nat /\ ~(m <= m - 1)
      BY <2>2, <2>3
    <3>2. m - 1 \notin Stuck
      BY <2>1, <3>1, Zenon
    <3> QED BY <3>1, <3>2, Zenon
  <2> DEFINE h == [i \in 1 .. m |-> IF i = m THEN (IF m = 1 THEN sm[m] ELSE g[m - 1] \o sm[m]) ELSE g[i]]
  <2>5. \A i \in 1 .. (m - 1) : g[i] = IF i = 1 THEN sm[i] ELSE g[i - 1] \o sm[i]
    BY <2>4, Zenon
  <2>6. \A i \in 1 .. m : h[i] = IF i = 1 THEN sm[i] ELSE h[i - 1] \o sm[i]
    BY <2>2, <2>3, <2>5
  <2>7. Body(h, m)
    BY <2>6, Zenon
  <2> QED BY <2>2, <2>7, Zenon
<1>2. NumAddrs \in Nat
  OBVIOUS
<1> DEFINE flat == CHOOSE f : Body(f, NumAddrs)
<1>3. Body(flat, NumAddrs)
  <2>1. \E f : Body(f, NumAddrs)
    BY <1>1, <1>2, Zenon
  <2> HIDE DEF Body
  <2> QED BY <2>1, Zenon
<1>4. AllStalled(sm) = flat[NumAddrs]
  BY Zenon DEF AllStalled, Addrs
<1> HIDE DEF flat
<1>5. \A i \in 1 .. NumAddrs : flat[i] = IF i = 1 THEN sm[i] ELSE flat[i - 1] \o sm[i]
  BY <1>2, <1>3, Zenon
<1>6. flat[1] = sm[1] /\ \A i \in 2 .. NumAddrs : flat[i] = flat[i - 1] \o sm[i]
  <2> DEFINE Join(i) == flat[i - 1] \o sm[i]
  <2>1. \A i \in 1 .. NumAddrs : flat[i] = IF i = 1 THEN sm[i] ELSE Join(i)
    BY <1>5
  <2> HIDE DEF Join
  <2>2. flat[1] = sm[1] /\ \A i \in 2 .. NumAddrs : flat[i] = Join(i)
    BY <2>1
  <2> QED BY <2>2, Zenon DEF Join
<1> QED BY <1>2, <1>4, <1>6, Zenon DEF GoesThrough

\* The result is a sequence of messages, and empty when nothing is stalled.
LEMMA AllStalledType ==
    ASSUME NumAddrs \in Nat \ {0}, NEW sm \in StallMaps
    PROVE  /\ AllStalled(sm) \in Seq(Messages)
           /\ (\A a \in Addrs : sm[a] = <<>>) => AllStalled(sm) = <<>>
<1>1. PICK f : GoesThrough(f, sm)
  BY GoesThroughFunction
<1>2. /\ AllStalled(sm) = f[NumAddrs] /\ f[1] = sm[1]
      /\ \A i \in 2 .. NumAddrs : f[i] = f[i - 1] \o sm[i]
  BY <1>1, Zenon DEF GoesThrough
<1> DEFINE Good(i) == f[i] \in Seq(Messages) /\ ((\A a \in Addrs : sm[a] = <<>>) => f[i] = <<>>)
           Bad     == {i \in 1 .. NumAddrs : ~Good(i)}
<1>3. Bad = {}
  <2> SUFFICES ASSUME Bad # {} PROVE FALSE
    OBVIOUS
  <2>1. PICK i \in Bad : \A k \in Bad : i <= k
    <3>1. Bad \subseteq Nat
      OBVIOUS
    <3> HIDE DEF Bad
    <3> QED BY <3>1, LeastNumber, Zenon
  <2>2. i # 1
    BY <1>2 DEF StallMaps, Addrs
  <2>3. i \in 2 .. NumAddrs /\ i - 1 \in 1 .. NumAddrs /\ ~(i <= i - 1)
    BY <2>2
  <2>4. Good(i - 1)
    BY <2>1, <2>3
  <2>5. f[i] = f[i - 1] \o sm[i] /\ sm[i] \in Seq(Messages)
    BY <1>2, <2>3, Zenon DEF StallMaps, Addrs
  <2>6. f[i] \in Seq(Messages)
    BY <2>4, <2>5
  <2>7. ASSUME \A a \in Addrs : sm[a] = <<>> PROVE f[i] = <<>>
    <3>1. f[i - 1] = <<>> /\ sm[i] = <<>>
      BY <2>3, <2>4, <2>7 DEF Addrs
    <3> QED BY <2>5, <3>1
  <2> QED BY <2>6, <2>7
<1>4. Good(NumAddrs)
  BY <1>3
<1> QED BY <1>2, <1>4

\* The length of two sequences together.
LEMMA JoinFacts ==
    ASSUME NEW x \in Seq(Messages), NEW y \in Seq(Messages)
    PROVE  x \o y \in Seq(Messages) /\ Len(x \o y) = Len(x) + Len(y) /\ Len(x) \in Nat
  OBVIOUS

\* Its length follows that of the messages of a line.
LEMMA AllStalledLength ==
    ASSUME NumAddrs \in Nat \ {0}, NEW sm \in StallMaps, NEW a \in Addrs, NEW s \in Seq(Messages)
    PROVE  Len(AllStalled([sm EXCEPT ![a] = s])) = (Len(AllStalled(sm)) - Len(sm[a])) + Len(s)
<1> DEFINE tm == [sm EXCEPT ![a] = s]
<1>0. /\ tm \in StallMaps /\ tm[a] = s /\ \A i \in Addrs : i # a => tm[i] = sm[i]
  BY DEF StallMaps
<1> HIDE DEF tm
<1>1. PICK f : GoesThrough(f, sm)
  BY GoesThroughFunction
<1>2. PICK g : GoesThrough(g, tm)
  BY <1>0, GoesThroughFunction
<1>3. /\ AllStalled(sm) = f[NumAddrs] /\ f[1] = sm[1]
      /\ \A i \in 2 .. NumAddrs : f[i] = f[i - 1] \o sm[i]
  BY <1>1, Zenon DEF GoesThrough
<1>4. /\ AllStalled(tm) = g[NumAddrs] /\ g[1] = tm[1]
      /\ \A i \in 2 .. NumAddrs : g[i] = g[i - 1] \o tm[i]
  BY <1>2, Zenon DEF GoesThrough
<1> DEFINE Grown(i) == IF a <= i THEN Len(s) - Len(sm[a]) ELSE 0
           Good(i)  == /\ f[i] \in Seq(Messages) /\ g[i] \in Seq(Messages)
                       /\ Len(g[i]) = Len(f[i]) + Grown(i)
           Bad      == {i \in 1 .. NumAddrs : ~Good(i)}
<1>a. a \in 1 .. NumAddrs /\ Addrs = 1 .. NumAddrs
  BY DEF Addrs
<1>b. \A k \in Addrs : /\ sm[k] \in Seq(Messages) /\ tm[k] \in Seq(Messages)
                       /\ Len(sm[k]) \in Nat /\ Len(tm[k]) \in Nat
  BY <1>0 DEF StallMaps
<1>c. Len(s) \in Nat /\ Len(sm[a]) \in Nat
  BY <1>b
<1>d. \A i \in Addrs : Len(tm[i]) = Len(sm[i]) + IF a = i THEN Len(s) - Len(sm[a]) ELSE 0
  <2> DEFINE N(x) == Len(x)
  <2>1. \A i \in Addrs : N(sm[i]) \in Nat /\ N(s) \in Nat /\ (a = i => N(tm[i]) = N(s))
                         /\ (a # i => N(tm[i]) = N(sm[i]))
    BY <1>0, <1>b, <1>c
  <2> HIDE DEF N
  <2>2. \A i \in Addrs : N(tm[i]) = N(sm[i]) + IF a = i THEN N(s) - N(sm[a]) ELSE 0
    BY <2>1
  <2> QED BY <2>2, Zenon DEF N
<1>5. Good(1)
  <2>1. f[1] = sm[1] /\ g[1] = tm[1] /\ 1 \in Addrs /\ (a <= 1 <=> a = 1)
    BY <1>3, <1>4, <1>a
  <2>2. Len(g[1]) = Len(f[1]) + Grown(1)
    BY <1>d, <2>1, Zenon
  <2> QED BY <1>b, <2>1, <2>2, Zenon
<1>6. ASSUME NEW i \in 2 .. NumAddrs, Good(i - 1) PROVE Good(i)
  <2>1. /\ f[i] = f[i - 1] \o sm[i] /\ g[i] = g[i - 1] \o tm[i] /\ i \in Addrs
        /\ sm[i] \in Seq(Messages) /\ tm[i] \in Seq(Messages)
    <3>1. i \in Addrs
      BY <1>a
    <3> QED BY <1>3, <1>4, <1>b, <3>1, Zenon
  <2>2. /\ f[i - 1] \in Seq(Messages) /\ g[i - 1] \in Seq(Messages)
        /\ Len(g[i - 1]) = Len(f[i - 1]) + Grown(i - 1)
    BY <1>6, Zenon
  <2>3. /\ f[i] \in Seq(Messages) /\ g[i] \in Seq(Messages)
        /\ Len(f[i]) = Len(f[i - 1]) + Len(sm[i]) /\ Len(g[i]) = Len(g[i - 1]) + Len(tm[i])
        /\ Len(f[i - 1]) \in Nat /\ Len(sm[i]) \in Nat
    <3>1. /\ f[i - 1] \o sm[i] \in Seq(Messages) /\ Len(f[i - 1]) \in Nat
          /\ Len(f[i - 1] \o sm[i]) = Len(f[i - 1]) + Len(sm[i])
      BY <2>1, <2>2, JoinFacts, Zenon
    <3>2. /\ g[i - 1] \o tm[i] \in Seq(Messages)
          /\ Len(g[i - 1] \o tm[i]) = Len(g[i - 1]) + Len(tm[i])
      BY <2>1, <2>2, JoinFacts, Zenon
    <3>3. Len(sm[i]) \in Nat
      BY <1>b, <2>1, Zenon
    <3> QED BY <2>1, <3>1, <3>2, <3>3, Zenon
  <2> DEFINE N(x) == Len(x)
             fi == f[i]
             fj == f[i - 1]
             gi == g[i]
             gj == g[i - 1]
             si == sm[i]
             ti == tm[i]
             sa == sm[a]
  <2>4. /\ N(gj) = N(fj) + IF a <= i - 1 THEN N(s) - N(sa) ELSE 0
        /\ N(fi) = N(fj) + N(si) /\ N(gi) = N(gj) + N(ti) /\ N(fj) \in Nat /\ N(si) \in Nat
        /\ N(ti) = N(si) + IF a = i THEN N(s) - N(sa) ELSE 0
        /\ N(s) \in Nat /\ N(sa) \in Nat
    BY <1>c, <1>d, <2>1, <2>2, <2>3, Zenon
  <2> HIDE DEF N, fi, fj, gi, gj, si, ti, sa
  <2>5. N(gi) = N(fi) + IF a <= i THEN N(s) - N(sa) ELSE 0
    BY <1>a, <2>4
  <2>6. Len(g[i]) = Len(f[i]) + Grown(i)
    BY <2>5, Zenon DEF N, gi, fi, sa
  <2> QED BY <2>3, <2>6, Zenon
<1> HIDE DEF Good
<1>7. Bad = {}
  <2> SUFFICES ASSUME Bad # {} PROVE FALSE
    OBVIOUS
  <2>1. PICK i \in Bad : \A k \in Bad : i <= k
    <3>1. Bad \subseteq Nat
      OBVIOUS
    <3> HIDE DEF Bad
    <3> QED BY <3>1, LeastNumber, Zenon
  <2>2. i # 1 /\ ~Good(i)
    BY <1>5
  <2>3. i \in 2 .. NumAddrs /\ i - 1 \in 1 .. NumAddrs /\ ~(i <= i - 1)
    BY <2>2
  <2>4. Good(i - 1)
    BY <2>1, <2>3
  <2> QED BY <1>6, <2>2, <2>3, <2>4
<1>8. Good(NumAddrs) /\ a <= NumAddrs
  BY <1>7, <1>a
<1>9. /\ Len(g[NumAddrs]) = Len(f[NumAddrs]) + (Len(s) - Len(sm[a])) /\ Len(f[NumAddrs]) \in Nat
  <2>1. f[NumAddrs] \in Seq(Messages)
    BY <1>8 DEF Good
  <2> QED BY <1>8, <2>1, JoinFacts, Zenon DEF Good
<1>10. /\ Len(AllStalled(tm)) = Len(AllStalled(sm)) + (Len(s) - Len(sm[a]))
       /\ Len(AllStalled(sm)) \in Nat
  BY <1>3, <1>4, <1>9, Zenon
<1> DEFINE old  == Len(AllStalled(sm))
           new  == Len(AllStalled(tm))
           less == Len(sm[a])
           more == Len(s)
<1>11. new = old + (more - less) /\ old \in Nat /\ less \in Nat /\ more \in Nat
  BY <1>10, <1>c, Zenon
<1> HIDE DEF old, new, less, more
<1>12. new = (old - less) + more
  BY <1>11
<1> QED BY <1>12, Zenon DEF old, new, less, more, tm
-----------------------------------------------------------------------------
\* The messages of a list, with the time t and the numbers after c.
Restamped(lt, t, c) == {Stamped(lt[i], t, c + i) : i \in DOMAIN lt}

IsReanalyzed(e, b, lt, sm, t) ==
    /\ e \in Buffers /\ lt \in Seq(Messages) /\ sm \in StallMaps
    /\ e.heap = b.heap \cup Restamped(lt, t, b.msg_counter)
    /\ e.msg_counter = b.msg_counter + Len(lt)
    /\ e.stall_map = sm /\ e.stall_map_size = b.stall_map_size - Len(lt)
    /\ e.time_last_pop = b.time_last_pop /\ e.size_at_cycle_start = b.size_at_cycle_start
    /\ e.time_last_enqueue = b.time_last_enqueue /\ e.last_arrival_time = b.last_arrival_time
    /\ e.msgs_this_cycle = b.msgs_this_cycle

\* Every one of them is a message, ready at once.
LEMMA RestampedFacts ==
    ASSUME NEW lt \in Seq(Messages), NEW t \in Nat, NEW c \in Nat
    PROVE  /\ \A i \in DOMAIN lt : IsStamped(Stamped(lt[i], t, c + i), lt[i], t, c + i)
           /\ Restamped(lt, t, c) \subseteq Messages
           /\ \A n \in Restamped(lt, t, c) :
                n.time = t /\ \E i \in 1 .. Len(lt) : n = Stamped(lt[i], t, c + i) /\ n.counter = c + i
<1>1. ASSUME NEW i \in DOMAIN lt PROVE IsStamped(Stamped(lt[i], t, c + i), lt[i], t, c + i)
  <2> DEFINE m == lt[i]
             k == c + i
  <2>1. m \in Messages /\ k \in Nat
    OBVIOUS
  <2> HIDE DEF m, k
  <2>2. IsStamped(Stamped(m, t, k), m, t, k)
    BY <2>1, Zenon DEF Messages, Stamped, IsStamped
  <2> QED BY <2>2 DEF m, k
<1>2. DOMAIN lt = 1 .. Len(lt)
  OBVIOUS
<1>3. ASSUME NEW n \in Restamped(lt, t, c)
      PROVE  /\ n \in Messages
             /\ n.time = t /\ \E i \in 1 .. Len(lt) : n = Stamped(lt[i], t, c + i) /\ n.counter = c + i
  <2>1. PICK i \in DOMAIN lt : n = Stamped(lt[i], t, c + i)
    BY Zenon DEF Restamped
  <2>2. IsStamped(n, lt[i], t, c + i)
    BY <1>1, <2>1, Zenon
  <2> QED BY <1>2, <2>1, <2>2, Zenon DEF IsStamped
<1> QED BY <1>1, <1>3, Zenon

\* reanalyzeList, and the stall map that its caller leaves.
LEMMA ReanalyzeFields ==
    ASSUME NEW b \in Buffers, NEW lt \in Seq(Messages), NEW sm \in StallMaps, NEW t \in Nat
    PROVE  IsReanalyzed([reanalyzeList(b, lt, t) EXCEPT !.stall_map = sm], b, lt, sm, t)
<1> DEFINE R == Restamped(lt, t, b.msg_counter)
           l == Len(lt)
           d == [b EXCEPT !.heap = @ \cup R, !.msg_counter = @ + l, !.stall_map_size = @ - l]
           e == [d EXCEPT !.stall_map = sm]
<1>1. b.msg_counter \in Nat
  BY DEF Buffers
<1>2. R \subseteq Messages /\ l \in Nat
  BY <1>1, RestampedFacts
<1>3. reanalyzeList(b, lt, t) = d
  BY Zenon DEF reanalyzeList, Restamped, Stamped
<1> HIDE DEF R, l
<1>4. /\ d.heap = b.heap \cup R /\ d.msg_counter = b.msg_counter + l
      /\ d.stall_map_size = b.stall_map_size - l
      /\ d.time_last_pop = b.time_last_pop /\ d.size_at_cycle_start = b.size_at_cycle_start
      /\ d.time_last_enqueue = b.time_last_enqueue /\ d.last_arrival_time = b.last_arrival_time
      /\ d.msgs_this_cycle = b.msgs_this_cycle
  BY DEF Buffers
<1>5. d \in Buffers
  <2>1. b.heap \cup R \in SUBSET Messages /\ b.msg_counter + l \in Nat /\ b.stall_map_size - l \in Int
    BY <1>2 DEF Buffers
  <2> QED BY <2>1, Zenon DEF Buffers
<1> HIDE DEF d
<1>6. /\ e.heap = d.heap /\ e.msg_counter = d.msg_counter /\ e.stall_map = sm
      /\ e.stall_map_size = d.stall_map_size
      /\ e.time_last_pop = d.time_last_pop /\ e.size_at_cycle_start = d.size_at_cycle_start
      /\ e.time_last_enqueue = d.time_last_enqueue /\ e.last_arrival_time = d.last_arrival_time
      /\ e.msgs_this_cycle = d.msgs_this_cycle
  BY <1>5 DEF Buffers
<1>7. e \in Buffers
  BY <1>5, Zenon DEF Buffers, StallMaps
<1> HIDE DEF e
<1>8. IsReanalyzed(e, b, lt, sm, t)
  BY <1>4, <1>6, <1>7 DEF IsReanalyzed, R, l
<1> QED BY <1>3, <1>8, Zenon DEF e
NothingStalled == [a \in Addrs |-> <<>>]

\* reanalyzeMessages takes the messages of a line.
LEMMA ReanalyzeLine ==
    ASSUME NEW b \in Buffers, NEW a \in Addrs, NEW t \in Nat
    PROVE  IsReanalyzed(reanalyzeMessages(b, a, t), b, b.stall_map[a],
                        [b.stall_map EXCEPT ![a] = <<>>], t)
<1> DEFINE lt == b.stall_map[a]
           sm == [b.stall_map EXCEPT ![a] = <<>>]
           d  == reanalyzeList(b, lt, t)
<1>1. lt \in Seq(Messages) /\ sm \in StallMaps /\ b.stall_map \in StallMaps
  BY DEF Buffers, StallMaps
<1>2. d.stall_map = b.stall_map
  BY DEF reanalyzeList, Buffers
<1>3. reanalyzeMessages(b, a, t) = [d EXCEPT !.stall_map[a] = <<>>]
  BY Zenon DEF reanalyzeMessages
<1>4. [d EXCEPT !.stall_map[a] = <<>>] = [d EXCEPT !.stall_map = sm]
  <2> HIDE DEF d
  <2>1. [d EXCEPT !.stall_map[a] = <<>>] = [d EXCEPT !.stall_map = [d.stall_map EXCEPT ![a] = <<>>]]
    OBVIOUS
  <2> QED BY <1>2, <2>1
<1> HIDE DEF lt, sm
<1>5. IsReanalyzed([d EXCEPT !.stall_map = sm], b, lt, sm, t)
  BY <1>1, ReanalyzeFields, Zenon
<1> HIDE DEF d
<1> QED BY <1>3, <1>4, <1>5, Zenon DEF lt, sm

\* reanalyzeAllMessages takes those of all lines.
LEMMA ReanalyzeAll ==
    ASSUME NumAddrs \in Nat \ {0}, NEW b \in Buffers, NEW t \in Nat
    PROVE  IsReanalyzed(reanalyzeAllMessages(b, t), b, AllStalled(b.stall_map), NothingStalled, t)
<1> DEFINE lt == AllStalled(b.stall_map)
<1>1. b.stall_map \in StallMaps /\ NothingStalled \in StallMaps
  BY DEF Buffers, StallMaps, NothingStalled
<1>2. lt \in Seq(Messages)
  BY <1>1, AllStalledType
<1>3. reanalyzeAllMessages(b, t) = [reanalyzeList(b, lt, t) EXCEPT !.stall_map = NothingStalled]
  BY Zenon DEF reanalyzeAllMessages, NothingStalled
<1> HIDE DEF lt
<1>4. IsReanalyzed([reanalyzeList(b, lt, t) EXCEPT !.stall_map = NothingStalled], b, lt, NothingStalled, t)
  BY <1>1, <1>2, ReanalyzeFields, Zenon
<1> QED BY <1>3, <1>4, Zenon DEF lt
-----------------------------------------------------------------------------
\* Every operation keeps the numbers of the messages apart.
LEMMA HeapEnqueued ==
    ASSUME NEW b, HeapRight(b), NEW e, NEW m, NEW n, NEW t, NEW arrival,
           IsStamped(n, m, arrival, b.msg_counter + 1), IsEnqueued(e, b, n, t, arrival)
    PROVE  HeapRight(e)
<1>1. /\ e \in Buffers /\ e.heap = b.heap \cup {n} /\ e.msg_counter = b.msg_counter + 1
      /\ n.counter = b.msg_counter + 1
  BY DEF IsEnqueued, IsStamped
<1>2. /\ IsFiniteSet(b.heap) /\ b.msg_counter \in Nat
      /\ \A x \in b.heap : x.counter \in Nat /\ x.counter <= b.msg_counter
      /\ \A x, y \in b.heap : x.counter = y.counter => x = y
  BY DEF HeapRight, Buffers, Messages
<1>3. IsFiniteSet(e.heap)
  BY <1>1, <1>2, FS_AddElement
<1> QED BY <1>1, <1>2, <1>3 DEF HeapRight

\* The same for a message that leaves the heap.
LEMMA HeapSmaller ==
    ASSUME NEW b, HeapRight(b), NEW e \in Buffers, e.heap \subseteq b.heap, e.msg_counter = b.msg_counter
    PROVE  HeapRight(e)
<1>1. IsFiniteSet(e.heap)
  BY FS_Subset DEF HeapRight
<1> QED BY <1>1 DEF HeapRight

\* The same for a message that gets another time.
LEMMA HeapRecycled ==
    ASSUME NEW b, HeapRight(b), b.heap # {}, NEW e, NEW n, NEW t,
           IsStamped(n, peek(b), t, peek(b).counter), IsRecycled(e, b, n)
    PROVE  HeapRight(e)
<1>1. /\ e \in Buffers /\ e.heap = (b.heap \ {peek(b)}) \cup {n} /\ e.msg_counter = b.msg_counter
      /\ n.counter = peek(b).counter
  BY DEF IsRecycled, IsStamped
<1>2. /\ IsFiniteSet(b.heap)
      /\ \A x \in b.heap : x.counter <= b.msg_counter
      /\ \A x, y \in b.heap : x.counter = y.counter => x = y
  BY DEF HeapRight
<1>3. peek(b) \in b.heap
  BY PeekFacts, Zenon
<1>4. IsFiniteSet(e.heap)
  <2>1. IsFiniteSet(b.heap \ {peek(b)})
    BY <1>2, FS_RemoveElement, Zenon
  <2> QED BY <1>1, <2>1, FS_AddElement
<1> QED BY <1>1, <1>2, <1>3, <1>4, Zenon DEF HeapRight

\* The same for one that gets another time and number.
LEMMA HeapDelayed ==
    ASSUME NEW b, HeapRight(b), NEW e, NEW n, NEW t, NEW arrival,
           IsStamped(n, peek(b), arrival, b.msg_counter + 1), IsDelayed(e, b, n, t, arrival)
    PROVE  HeapRight(e)
<1>1. /\ e \in Buffers /\ e.heap = (b.heap \ {peek(b)}) \cup {n} /\ e.msg_counter = b.msg_counter + 1
      /\ n.counter = b.msg_counter + 1
  BY DEF IsDelayed, IsStamped
<1>2. /\ IsFiniteSet(b.heap) /\ b.msg_counter \in Nat
      /\ \A x \in b.heap : x.counter \in Nat /\ x.counter <= b.msg_counter
      /\ \A x, y \in b.heap : x.counter = y.counter => x = y
  BY Zenon DEF HeapRight, Buffers, Messages
<1>3. IsFiniteSet(e.heap)
  <2>1. IsFiniteSet(b.heap \ {peek(b)})
    BY <1>2, FS_RemoveElement, Zenon
  <2> QED BY <1>1, <2>1, FS_AddElement
<1> QED BY <1>1, <1>2, <1>3 DEF HeapRight

\* The same for messages that come back from the stall map, and there are no
\* more of them in the heap than there were in the list.
LEMMA HeapReanalyzed ==
    ASSUME NEW b, HeapRight(b), NEW e, NEW lt, NEW sm, NEW t \in Nat, IsReanalyzed(e, b, lt, sm, t)
    PROVE  /\ HeapRight(e) /\ Cardinality(e.heap) <= Cardinality(b.heap) + Len(lt)
           /\ \A m \in e.heap : m \in b.heap \/ m.time = t
<1> DEFINE R == Restamped(lt, t, b.msg_counter)
           l == Len(lt)
<1>1. /\ e \in Buffers /\ e.heap = b.heap \cup R /\ e.msg_counter = b.msg_counter + l
      /\ lt \in Seq(Messages)
  BY DEF IsReanalyzed
<1>2. /\ IsFiniteSet(b.heap) /\ b.msg_counter \in Nat
      /\ \A x \in b.heap : x.counter \in Nat /\ x.counter <= b.msg_counter
      /\ \A x, y \in b.heap : x.counter = y.counter => x = y
  BY Zenon DEF HeapRight, Buffers, Messages
<1>3. l \in Nat
  BY <1>1
<1>4. \A n \in R : n.time = t /\ \E i \in 1 .. l : n = Stamped(lt[i], t, b.msg_counter + i) /\ n.counter = b.msg_counter + i
  <2> DEFINE c == b.msg_counter
  <2>1. c \in Nat /\ lt \in Seq(Messages)
    BY <1>1, <1>2, Zenon
  <2> HIDE DEF c
  <2>2. ASSUME NEW n \in Restamped(lt, t, c)
        PROVE  n.time = t /\ \E i \in 1 .. Len(lt) : n = Stamped(lt[i], t, c + i) /\ n.counter = c + i
    BY <2>1, RestampedFacts
  <2> QED BY <2>2 DEF c
<1>5. IsFiniteSet(R) /\ Cardinality(R) <= l
  <2> DEFINE g == [i \in 1 .. l |-> Stamped(lt[i], t, b.msg_counter + i)]
  <2>1. DOMAIN lt = 1 .. l
    BY <1>1
  <2>2. R = {Stamped(lt[i], t, b.msg_counter + i) : i \in 1 .. l}
    BY <2>1, Zenon DEF Restamped
  <2> HIDE DEF R, l
  <2>3. IsFiniteSet(1 .. l) /\ Cardinality(1 .. l) = l
    BY <1>3, FS_Interval
  <2>4. g \in Surjection(1 .. l, R)
    BY <2>2, Zenon DEF Surjection
  <2> QED BY <2>3, <2>4, FS_Surjection
<1> HIDE DEF R, l
<1>6. IsFiniteSet(e.heap) /\ Cardinality(e.heap) <= Cardinality(b.heap) + l
  <2>1. /\ IsFiniteSet(b.heap \cup R)
        /\ Cardinality(b.heap \cup R) = Cardinality(b.heap) + Cardinality(R) - Cardinality(b.heap \cap R)
    BY <1>2, <1>5, FS_Union
  <2>2. /\ Cardinality(b.heap) \in Nat /\ Cardinality(R) \in Nat /\ Cardinality(b.heap \cap R) \in Nat
    BY <1>2, <1>5, FS_CardinalityType, FS_Intersection, Zenon
  <2> QED BY <1>1, <1>3, <1>5, <2>1, <2>2
<1>7. \A x \in R : x.counter > b.msg_counter /\ x.counter <= b.msg_counter + l
  BY <1>2, <1>3, <1>4
<1>8. \A x, y \in R : x.counter = y.counter => x = y
  BY <1>2, <1>3, <1>4
<1>9. HeapRight(e)
  <2>1. \A x, y \in e.heap : x.counter = y.counter => x = y
    BY <1>1, <1>2, <1>7, <1>8
  <2>2. \A x \in e.heap : x.counter <= e.msg_counter
    BY <1>1, <1>2, <1>3, <1>7
  <2> QED BY <1>1, <1>6, <2>1, <2>2, Zenon DEF HeapRight
<1> QED BY <1>1, <1>4, <1>6, <1>9, Zenon DEF l
-----------------------------------------------------------------------------
\* The ports that are woken up are those that wait for the line, or for any.
LEMMA WokenPortsFacts ==
    ASSUME ControllerConstants, StallInv, NEW a \in Addrs
    PROVE  /\ WokenPorts(ResponsePort, a) \subseteq InPorts \ {ResponsePort}
           /\ WakeUp # "wakeUpAllBuffers" => WokenPorts(ResponsePort, a) = waiting[a]
           /\ WakeUp = "wakeUpAllBuffers" => WokenPorts(ResponsePort, a) = UNION {waiting[c] : c \in Addrs}
<1>1. /\ "wakeUpBuffers" # "wakeUpAllBuffers_addr" /\ "wakeUpBuffers" # "wakeUpAllBuffers"
      /\ "wakeUpAllBuffers" # "wakeUpAllBuffers_addr"
  OBVIOUS
<1>2. \A c \in Addrs : waiting[c] \subseteq InPorts \ {ResponsePort}
  BY DEF StallInv
<1>3. CASE WakeUp = "wakeUpBuffers"
  <2>1. WokenPorts(ResponsePort, a) = {q \in waiting[a] : q < ResponsePort}
    BY <1>1, <1>3, Zenon DEF WokenPorts
  <2>2. \A q \in waiting[a] : q < ResponsePort
    BY <1>2, <1>3 DEF ControllerConstants, InPorts
  <2>3. WokenPorts(ResponsePort, a) = waiting[a]
    BY <2>1, <2>2
  <2> QED BY <1>1, <1>2, <1>3, <2>3, Zenon
<1>4. CASE WakeUp = "wakeUpAllBuffers_addr"
  <2>1. WokenPorts(ResponsePort, a) = waiting[a]
    BY <1>1, <1>4, Zenon DEF WokenPorts
  <2> QED BY <1>1, <1>2, <1>4, <2>1, Zenon
<1>5. CASE WakeUp = "wakeUpAllBuffers"
  <2>1. WokenPorts(ResponsePort, a) = UNION {waiting[c] : c \in Addrs}
    BY <1>1, <1>5, Zenon DEF WokenPorts
  <2>2. WokenPorts(ResponsePort, a) \subseteq InPorts \ {ResponsePort}
    BY <1>2, <2>1
  <2> QED BY <1>1, <1>5, <2>1, <2>2, Zenon
<1> QED BY <1>3, <1>4, <1>5, Zenon DEF ControllerConstants

IsWoken(w, b, a, t) ==
    \/ WakeUp = "wakeUpAllBuffers" /\ IsReanalyzed(w, b, AllStalled(b.stall_map), NothingStalled, t)
    \/ WakeUp # "wakeUpAllBuffers" /\ IsReanalyzed(w, b, b.stall_map[a], [b.stall_map EXCEPT ![a] = <<>>], t)

\* The buffers of these ports reanalyze, and the others are left alone.
LEMMA WokenFacts ==
    ASSUME ControllerConstants, StallInv, NEW a \in Addrs
    PROVE  /\ DOMAIN WokenBuffers(ResponsePort, a) = InPorts
           /\ \A q \in InPorts \ WokenPorts(ResponsePort, a) : WokenBuffers(ResponsePort, a)[q] = bufs[q]
           /\ \A q \in WokenPorts(ResponsePort, a) :
                q \in InPorts /\ IsWoken(WokenBuffers(ResponsePort, a)[q], bufs[q], a, now)
<1> DEFINE W == WokenBuffers(ResponsePort, a)
           P == WokenPorts(ResponsePort, a)
<1>1. P \subseteq InPorts
  BY WokenPortsFacts
<1>2. /\ \A q \in InPorts : bufs[q] \in Buffers /\ HeapRight(bufs[q])
      /\ now \in Nat /\ NumAddrs \in Nat \ {0}
  BY DEF StallInv, ControllerConstants
<1>3. W = Reanalyzed(P, a)
  BY Zenon DEF WokenBuffers
<1> HIDE DEF W, P
<1>4. DOMAIN W = InPorts
  BY <1>3, Zenon DEF Reanalyzed
<1>5. ASSUME NEW q \in InPorts, q \notin P PROVE W[q] = bufs[q]
  BY <1>3, <1>5, Zenon DEF Reanalyzed
<1>6. ASSUME NEW q \in P, q \in InPorts PROVE IsWoken(W[q], bufs[q], a, now)
  <2>1. CASE WakeUp = "wakeUpAllBuffers"
    <3>1. W[q] = reanalyzeAllMessages(bufs[q], now)
      BY <1>3, <1>6, <2>1, Zenon DEF Reanalyzed
    <3> QED BY <1>2, <1>6, <2>1, <3>1, ReanalyzeAll, Zenon DEF IsWoken
  <2>2. CASE WakeUp # "wakeUpAllBuffers"
    <3>1. W[q] = reanalyzeMessages(bufs[q], a, now)
      BY <1>3, <1>6, <2>2, Zenon DEF Reanalyzed
    <3> QED BY <1>2, <1>6, <2>2, <3>1, ReanalyzeLine, Zenon DEF IsWoken
  <2> QED BY <2>1, <2>2
<1> QED BY <1>1, <1>4, <1>5, <1>6, Zenon DEF W, P

NewAreReady(w, b, t) == \A m \in w.heap : m \in b.heap \/ m.time = t

KeepsSize(w, b) ==
    /\ Cardinality(w.heap) + w.stall_map_size <= Cardinality(b.heap) + b.stall_map_size
    /\ b.stall_map_size = Len(AllStalled(b.stall_map)) => w.stall_map_size = Len(AllStalled(w.stall_map))
    /\ w.time_last_pop = b.time_last_pop /\ w.time_last_enqueue = b.time_last_enqueue

Unstalls(w, b, a) ==
    /\ WakeUp = "wakeUpAllBuffers" => \A c \in Addrs : w.stall_map[c] = <<>>
    /\ WakeUp # "wakeUpAllBuffers" =>
         w.stall_map[a] = <<>> /\ \A c \in Addrs : c # a => w.stall_map[c] = b.stall_map[c]

\* What they hold afterwards.
LEMMA WokenKeeps ==
    ASSUME NumAddrs \in Nat \ {0}, NEW b, HeapRight(b), NEW a \in Addrs, NEW t \in Nat,
           NEW w, IsWoken(w, b, a, t)
    PROVE  /\ w \in Buffers /\ HeapRight(w) /\ NewAreReady(w, b, t)
           /\ KeepsSize(w, b) /\ Unstalls(w, b, a)
<1>0. b.stall_map \in StallMaps /\ b.stall_map_size \in Int /\ b \in Buffers /\ IsFiniteSet(b.heap)
  BY Zenon DEF HeapRight, Buffers, StallMaps
<1>1. ASSUME NEW lt, NEW sm, IsReanalyzed(w, b, lt, sm, t)
      PROVE  /\ w \in Buffers /\ HeapRight(w) /\ \A m \in w.heap : m \in b.heap \/ m.time = t
             /\ Cardinality(w.heap) + w.stall_map_size <= Cardinality(b.heap) + b.stall_map_size
             /\ w.stall_map_size = b.stall_map_size - Len(lt) /\ w.stall_map = sm
             /\ w.time_last_pop = b.time_last_pop /\ w.time_last_enqueue = b.time_last_enqueue
  <2>1. /\ HeapRight(w) /\ Cardinality(w.heap) <= Cardinality(b.heap) + Len(lt)
        /\ \A m \in w.heap : m \in b.heap \/ m.time = t
    BY <1>1, HeapReanalyzed, Zenon
  <2>2. /\ w \in Buffers /\ w.stall_map_size = b.stall_map_size - Len(lt) /\ w.stall_map = sm
        /\ w.time_last_pop = b.time_last_pop /\ w.time_last_enqueue = b.time_last_enqueue
        /\ lt \in Seq(Messages)
    BY <1>1, Zenon DEF IsReanalyzed
  <2>3. Cardinality(b.heap) \in Nat /\ Cardinality(w.heap) \in Nat /\ Len(lt) \in Nat
    BY <1>0, <2>1, <2>2, FS_CardinalityType, LengthFacts, Zenon DEF HeapRight
  <2> DEFINE l == Len(lt)
  <2> HIDE DEF l
  <2>4. Cardinality(w.heap) + w.stall_map_size <= Cardinality(b.heap) + b.stall_map_size
    BY <1>0, <2>1, <2>2, <2>3 DEF l
  <2> QED BY <2>1, <2>2, <2>4, Zenon
<1>2. CASE WakeUp = "wakeUpAllBuffers" /\ IsReanalyzed(w, b, AllStalled(b.stall_map), NothingStalled, t)
  <2> DEFINE sm == NothingStalled
  <2>1. /\ sm \in StallMaps /\ \A c \in Addrs : sm[c] = <<>>
    BY DEF StallMaps, NothingStalled
  <2> HIDE DEF sm
  <2>2. AllStalled(sm) = <<>>
    BY <2>1, AllStalledType, Zenon
  <2>3. w.stall_map_size = b.stall_map_size - Len(AllStalled(b.stall_map)) /\ w.stall_map = sm
    BY <1>1, <1>2, Zenon DEF sm
  <2>4. b.stall_map_size = Len(AllStalled(b.stall_map)) => w.stall_map_size = Len(AllStalled(w.stall_map))
    <3>1. Len(AllStalled(w.stall_map)) = 0
      BY <2>2, <2>3
    <3> QED BY <1>0, <2>3, <3>1
  <2>5. /\ w \in Buffers /\ HeapRight(w) /\ \A m \in w.heap : m \in b.heap \/ m.time = t
        /\ Cardinality(w.heap) + w.stall_map_size <= Cardinality(b.heap) + b.stall_map_size
        /\ w.time_last_pop = b.time_last_pop /\ w.time_last_enqueue = b.time_last_enqueue
    BY <1>1, <1>2, Zenon
  <2> QED BY <1>2, <2>1, <2>3, <2>4, <2>5, Zenon DEF Unstalls, NewAreReady, KeepsSize
<1>3. CASE /\ WakeUp # "wakeUpAllBuffers"
           /\ IsReanalyzed(w, b, b.stall_map[a], [b.stall_map EXCEPT ![a] = <<>>], t)
  <2> DEFINE sm == [b.stall_map EXCEPT ![a] = <<>>]
  <2>1. sm[a] = <<>> /\ \A c \in Addrs : c # a => sm[c] = b.stall_map[c]
    BY <1>0 DEF StallMaps
  <2>2. Len(AllStalled(sm)) = Len(AllStalled(b.stall_map)) - Len(b.stall_map[a])
    <3>1. Len(AllStalled(sm)) = (Len(AllStalled(b.stall_map)) - Len(b.stall_map[a])) + Len(<<>>)
      <4>1. <<>> \in Seq(Messages)
        OBVIOUS
      <4> QED BY <1>0, <4>1, AllStalledLength, Zenon
    <3>2. Len(AllStalled(b.stall_map)) \in Nat /\ Len(b.stall_map[a]) \in Nat
      <4>1. AllStalled(b.stall_map) \in Seq(Messages) /\ b.stall_map[a] \in Seq(Messages)
        BY <1>0, AllStalledType, Zenon DEF StallMaps
      <4> QED BY <4>1, LengthFacts, Zenon
    <3> HIDE DEF sm
    <3> QED BY <3>1, <3>2
  <2>3. w.stall_map_size = b.stall_map_size - Len(b.stall_map[a]) /\ w.stall_map = sm
    BY <1>1, <1>3, Zenon
  <2> HIDE DEF sm
  <2>4. b.stall_map_size = Len(AllStalled(b.stall_map)) => w.stall_map_size = Len(AllStalled(w.stall_map))
    BY <2>2, <2>3, Zenon
  <2>5. /\ w \in Buffers /\ HeapRight(w) /\ \A m \in w.heap : m \in b.heap \/ m.time = t
        /\ Cardinality(w.heap) + w.stall_map_size <= Cardinality(b.heap) + b.stall_map_size
        /\ w.time_last_pop = b.time_last_pop /\ w.time_last_enqueue = b.time_last_enqueue
    BY <1>1, <1>3, Zenon
  <2> QED BY <1>3, <2>1, <2>3, <2>4, <2>5, Zenon DEF Unstalls, NewAreReady, KeepsSize
<1> QED BY <1>2, <1>3, Zenon DEF IsWoken
-----------------------------------------------------------------------------
\* What the steps do to the buffers: all but one stay, and that one changes
\* by an operation.
Changed(p) ==
    /\ bufs' \in [InPorts -> Buffers] /\ \A q \in InPorts : HeapRight(bufs'[q])
    /\ \A q \in InPorts \ {p} : bufs'[q] = bufs[q]

Enqueues(p, id, n, arrival) ==
    /\ Changed(p) /\ IsEnqueued(bufs'[p], bufs[p], n, now, arrival)
    /\ n \in Messages /\ n.id = id /\ n.time = arrival /\ n.counter = bufs[p].msg_counter + 1
    /\ arrival \in Nat /\ arrival > now /\ arrival \in ArrivalTimes(bufs[p], now)
    /\ scheduled' = {t \in scheduled \cup {arrival} : t >= now}

Dequeues(p) == Changed(p) /\ IsDequeued(bufs'[p], bufs[p], now)

Stalls(p, a) == Changed(p) /\ IsStalled(bufs'[p], bufs[p], a, now)

Recycles(p, n, t) ==
    /\ Changed(p) /\ IsRecycled(bufs'[p], bufs[p], n)
    /\ n.id = peek(bufs[p]).id /\ n.time = t /\ t \in Nat /\ t > now
    /\ scheduled' = {u \in scheduled \cup {t} : u >= now}

DelaysHead(p, n) ==
    /\ Changed(p) /\ IsDelayed(bufs'[p], bufs[p], n, now, now + 1)
    /\ n.id = peek(bufs[p]).id /\ n.time = now + 1
    /\ scheduled' = {t \in scheduled \cup {now + 1} : t >= now}

\* A buffer of the function is replaced.
LEMMA ChangedFacts ==
    ASSUME StallInv, NEW p \in InPorts, NEW e, e \in Buffers, HeapRight(e), bufs' = [bufs EXCEPT ![p] = e]
    PROVE  Changed(p) /\ bufs'[p] = e
<1>1. bufs \in [InPorts -> Buffers] /\ \A q \in InPorts : HeapRight(bufs[q])
  BY DEF StallInv
<1>2. bufs' \in [InPorts -> Buffers] /\ bufs'[p] = e /\ \A q \in InPorts \ {p} : bufs'[q] = bufs[q]
  BY <1>1
<1> QED BY <1>1, <1>2, Zenon DEF Changed

\* Messages arrive later than they are sent.
LEMMA ArrivalFacts ==
    ASSUME ControllerConstants, NEW b \in Buffers, NEW t \in Nat, NEW arrival \in ArrivalTimes(b, t)
    PROVE  arrival \in Nat /\ arrival > t
<1>1. PICK d \in Delays :
        arrival = (IF Randomization /\ StrictFifo /\ b.last_arrival_time > t
                   THEN b.last_arrival_time ELSE t) + d
  BY DEF ArrivalTimes
<1>2. d \in Nat /\ d > 0 /\ b.last_arrival_time \in Nat
  BY DEF ControllerConstants, Buffers
<1> QED BY <1>1, <1>2

\* A message is put in a buffer.
LEMMA EnqueuesFacts ==
    ASSUME ControllerConstants, StallInv, NEW p \in InPorts, NEW m \in Messages,
           NEW arrival \in ArrivalTimes(bufs[p], now),
           bufs' = [bufs EXCEPT ![p] = enqueue(@, m, now, arrival)], scheduleEventAbsolute(arrival)
    PROVE  \E n : Enqueues(p, m.id, n, arrival)
<1> DEFINE b == bufs[p]
           e == enqueue(b, m, now, arrival)
           n == Stamped(m, arrival, b.msg_counter + 1)
<1>1. b \in Buffers /\ HeapRight(b) /\ now \in Nat
  BY DEF StallInv
<1>2. arrival \in Nat /\ arrival > now
  BY <1>1, ArrivalFacts
<1>3. bufs' = [bufs EXCEPT ![p] = e]
  OBVIOUS
<1>4. scheduled' = {t \in scheduled \cup {arrival} : t >= now}
  BY DEF scheduleEventAbsolute
<1> HIDE DEF b
<1>5. IsStamped(n, m, arrival, b.msg_counter + 1) /\ IsEnqueued(e, b, n, now, arrival)
  BY <1>1, <1>2, EnqueueFields, Zenon
<1> HIDE DEF e, n
<1>6. HeapRight(e) /\ e \in Buffers
  BY <1>1, <1>5, HeapEnqueued, Zenon DEF IsEnqueued
<1>7. Changed(p) /\ bufs'[p] = e
  BY <1>3, <1>6, ChangedFacts, Zenon
<1>8. n \in Messages /\ n.id = m.id /\ n.time = arrival /\ n.counter = b.msg_counter + 1
  BY <1>5 DEF IsStamped
<1>9. Enqueues(p, m.id, n, arrival)
  BY <1>2, <1>4, <1>5, <1>7, <1>8, Zenon DEF Enqueues, b
<1> QED BY <1>9

\* The message of a port whose turn it is.
LEMMA TurnFacts ==
    ASSUME StallInv, NEW p \in InPorts, Turn(p)
    PROVE  /\ running /\ now \in Nat
           /\ bufs[p] \in Buffers /\ HeapRight(bufs[p]) /\ IsFiniteSet(bufs[p].heap) /\ bufs[p].heap # {}
           /\ peek(bufs[p]) \in bufs[p].heap /\ peek(bufs[p]) \in Messages /\ peek(bufs[p]).addr \in Addrs
           /\ ~NoneReady(bufs[p], now)
           /\ \A q \in InPorts : q > p => NoneReady(bufs[q], now)
<1>1. now \in Nat /\ \A q \in InPorts : bufs[q] \in Buffers /\ HeapRight(bufs[q])
  BY DEF StallInv
<1>2. running /\ isReady(bufs[p], now) /\ \A q \in InPorts : q > p => ~isReady(bufs[q], now)
  BY Zenon DEF Turn
<1>3. bufs[p].heap # {}
  BY <1>2, Zenon DEF isReady
<1>4. peek(bufs[p]) \in bufs[p].heap /\ peek(bufs[p]) \in Messages
  BY <1>1, <1>3, PeekFacts, Zenon
<1>5. peek(bufs[p]).addr \in Addrs
  BY <1>4 DEF Messages
<1>6. \A q \in InPorts : isReady(bufs[q], now) <=> ~NoneReady(bufs[q], now)
  BY <1>1, ReadyFacts, Zenon
<1>7. IsFiniteSet(bufs[p].heap)
  BY <1>1 DEF HeapRight
<1> QED BY <1>1, <1>2, <1>3, <1>4, <1>5, <1>6, <1>7, Zenon

\* A message is taken out of a buffer.
LEMMA DequeuesFacts ==
    ASSUME StallInv, NEW p \in InPorts, Turn(p), bufs' = [bufs EXCEPT ![p] = dequeue(@, now)]
    PROVE  Dequeues(p)
<1> DEFINE b == bufs[p]
           e == dequeue(b, now)
<1>1. b \in Buffers /\ HeapRight(b) /\ IsFiniteSet(b.heap) /\ now \in Nat
  BY TurnFacts
<1>2. bufs' = [bufs EXCEPT ![p] = e]
  OBVIOUS
<1> HIDE DEF b
<1>3. IsDequeued(e, b, now)
  BY <1>1, DequeueFields, Zenon
<1> HIDE DEF e
<1>4. HeapRight(e) /\ e \in Buffers
  <2>1. e \in Buffers /\ e.heap \subseteq b.heap /\ e.msg_counter = b.msg_counter
    BY <1>3 DEF IsDequeued
  <2> QED BY <1>1, <2>1, HeapSmaller, Zenon
<1>5. Changed(p) /\ bufs'[p] = e
  BY <1>2, <1>4, ChangedFacts, Zenon
<1> QED BY <1>3, <1>5, Zenon DEF Dequeues, b

\* A message is stalled.
LEMMA StallsFacts ==
    ASSUME StallInv, NEW p \in InPorts, Turn(p), NEW a \in Addrs,
           bufs' = [bufs EXCEPT ![p] = stallMessage(@, a, now)]
    PROVE  Stalls(p, a)
<1> DEFINE b == bufs[p]
           e == stallMessage(b, a, now)
<1>1. b \in Buffers /\ HeapRight(b) /\ IsFiniteSet(b.heap) /\ now \in Nat /\ peek(b) \in Messages
  BY TurnFacts
<1>2. bufs' = [bufs EXCEPT ![p] = e]
  OBVIOUS
<1> HIDE DEF b
<1>3. IsStalled(e, b, a, now)
  BY <1>1, StallFields, Zenon
<1> HIDE DEF e
<1>4. HeapRight(e) /\ e \in Buffers
  <2>1. e \in Buffers /\ e.heap \subseteq b.heap /\ e.msg_counter = b.msg_counter
    BY <1>3 DEF IsStalled
  <2> QED BY <1>1, <2>1, HeapSmaller, Zenon
<1>5. Changed(p) /\ bufs'[p] = e
  BY <1>2, <1>4, ChangedFacts, Zenon
<1> QED BY <1>3, <1>5, Zenon DEF Stalls, b

\* A message is recycled.
LEMMA RecyclesFacts ==
    ASSUME StallInv, NEW p \in InPorts, Turn(p), NEW t \in Nat, t > now,
           bufs' = [bufs EXCEPT ![p] = recycle(@, t)], scheduleEventAbsolute(t)
    PROVE  \E n : Recycles(p, n, t)
<1> DEFINE b == bufs[p]
           e == recycle(b, t)
           n == [peek(b) EXCEPT !.time = t]
<1>1. b \in Buffers /\ HeapRight(b) /\ b.heap # {} /\ peek(b) \in Messages
  BY TurnFacts
<1>2. bufs' = [bufs EXCEPT ![p] = e]
  OBVIOUS
<1>3. scheduled' = {u \in scheduled \cup {t} : u >= now}
  BY DEF scheduleEventAbsolute
<1> HIDE DEF b
<1>4. IsStamped(n, peek(b), t, peek(b).counter) /\ IsRecycled(e, b, n)
  BY <1>1, RecycleFields, Zenon
<1> HIDE DEF e, n
<1>5. HeapRight(e) /\ e \in Buffers
  BY <1>1, <1>4, HeapRecycled, Zenon DEF IsRecycled
<1>6. Changed(p) /\ bufs'[p] = e
  BY <1>2, <1>5, ChangedFacts, Zenon
<1>7. n.id = peek(b).id /\ n.time = t
  BY <1>4 DEF IsStamped
<1>8. Recycles(p, n, t)
  BY <1>3, <1>4, <1>6, <1>7, Zenon DEF Recycles, b
<1> QED BY <1>8, Zenon

\* A message is delayed.
LEMMA DelaysHeadFacts ==
    ASSUME StallInv, NEW p \in InPorts, Turn(p),
           bufs' = [bufs EXCEPT ![p] = delayHead(@, now, now + 1)], scheduleEventAbsolute(now + 1)
    PROVE  \E n : DelaysHead(p, n)
<1> DEFINE b == bufs[p]
           u == now + 1
           e == delayHead(b, now, u)
           n == Stamped(peek(b), u, b.msg_counter + 1)
<1>1. b \in Buffers /\ HeapRight(b) /\ peek(b) \in Messages /\ now \in Nat /\ u \in Nat
  BY TurnFacts
<1>2. bufs' = [bufs EXCEPT ![p] = e]
  OBVIOUS
<1>3. scheduled' = {t \in scheduled \cup {u} : t >= now}
  BY DEF scheduleEventAbsolute
<1> HIDE DEF b, u
<1>4. IsStamped(n, peek(b), u, b.msg_counter + 1) /\ IsDelayed(e, b, n, now, u)
  BY <1>1, DelayFields, Zenon
<1> HIDE DEF e, n
<1>5. HeapRight(e) /\ e \in Buffers
  BY <1>1, <1>4, HeapDelayed, Zenon DEF IsDelayed
<1>6. Changed(p) /\ bufs'[p] = e
  BY <1>2, <1>5, ChangedFacts, Zenon
<1>7. n.id = peek(b).id /\ n.time = u
  BY <1>4 DEF IsStamped
<1>8. DelaysHead(p, n)
  BY <1>3, <1>4, <1>6, <1>7, Zenon DEF DelaysHead, b, u
<1> QED BY <1>8, Zenon
Responds(a) ==
    /\ a \in Addrs /\ bufs' \in [InPorts -> Buffers] /\ \A q \in InPorts : HeapRight(bufs'[q])
    /\ IsDequeued(bufs'[ResponsePort], bufs[ResponsePort], now)
    /\ \A q \in InPorts \ {ResponsePort} :
         /\ q \notin WokenPorts(ResponsePort, a) => bufs'[q] = bufs[q]
         /\ q \in WokenPorts(ResponsePort, a) => IsWoken(bufs'[q], bufs[q], a, now)

\* A response is taken out of its buffer, and other buffers reanalyze.
LEMMA RespondsFacts ==
    ASSUME ControllerConstants, StallInv, response
    PROVE  Responds(peek(bufs[ResponsePort]).addr)
<1> DEFINE a == peek(bufs[ResponsePort]).addr
           W == WokenBuffers(ResponsePort, a)
           P == WokenPorts(ResponsePort, a)
           b == bufs[ResponsePort]
<1>1. ResponsePort \in InPorts /\ NumAddrs \in Nat \ {0}
  BY Zenon DEF ControllerConstants
<1>2. Turn(ResponsePort) /\ bufs' = [W EXCEPT ![ResponsePort] = dequeue(@, now)]
  BY Zenon DEF response
<1>3. b \in Buffers /\ HeapRight(b) /\ IsFiniteSet(b.heap) /\ now \in Nat /\ a \in Addrs
  BY <1>1, <1>2, TurnFacts, Zenon
<1> HIDE DEF a
<1>4. /\ DOMAIN W = InPorts /\ \A q \in InPorts \ P : W[q] = bufs[q]
      /\ \A q \in P : q \in InPorts /\ IsWoken(W[q], bufs[q], a, now)
  BY <1>3, WokenFacts, Zenon
<1>5. P \subseteq InPorts \ {ResponsePort}
  BY <1>3, WokenPortsFacts, Zenon
<1>6. W[ResponsePort] = b
  BY <1>1, <1>4, <1>5, Zenon
<1> HIDE DEF W, P, b
<1>7. /\ bufs'[ResponsePort] = dequeue(b, now) /\ DOMAIN bufs' = InPorts
      /\ \A q \in InPorts \ {ResponsePort} : bufs'[q] = W[q]
  BY <1>1, <1>2, <1>4, <1>6, Zenon
<1>7a. bufs' = [q \in InPorts |-> bufs'[q]]
  BY <1>2, <1>4, Zenon
<1>8. IsDequeued(dequeue(b, now), b, now)
  BY <1>3, DequeueFields, Zenon
<1>9. HeapRight(dequeue(b, now)) /\ dequeue(b, now) \in Buffers
  <2> DEFINE e == dequeue(b, now)
  <2> HIDE DEF e
  <2>1. e \in Buffers /\ e.heap \subseteq b.heap /\ e.msg_counter = b.msg_counter
    BY <1>8, Zenon DEF IsDequeued, e
  <2>2. HeapRight(e)
    BY <1>3, <2>1, HeapSmaller, Zenon
  <2> QED BY <2>1, <2>2, Zenon DEF e
<1>10. ASSUME NEW q \in InPorts, q # ResponsePort
       PROVE  bufs'[q] \in Buffers /\ HeapRight(bufs'[q])
  <2>1. HeapRight(bufs[q]) /\ bufs[q] \in Buffers
    BY Zenon DEF StallInv
  <2>2. CASE q \notin P
    BY <1>4, <1>7, <1>10, <2>1, <2>2, Zenon
  <2>3. CASE q \in P
    <3>1. IsWoken(bufs'[q], bufs[q], a, now)
      BY <1>4, <1>7, <1>10, <2>3, Zenon
    <3> QED BY <1>1, <1>3, <2>1, <3>1, WokenKeeps, Zenon
  <2> QED BY <2>2, <2>3, Zenon
<1>11. \A q \in InPorts : bufs'[q] \in Buffers /\ HeapRight(bufs'[q])
  BY <1>7, <1>9, <1>10, Zenon
<1>12. bufs' \in [InPorts -> Buffers]
  BY <1>7a, <1>11, Zenon
<1>13. \A q \in InPorts \ {ResponsePort} : /\ q \notin P => bufs'[q] = bufs[q]
                                           /\ q \in P => IsWoken(bufs'[q], bufs[q], a, now)
  BY <1>4, <1>7, Zenon
<1>14. IsDequeued(bufs'[ResponsePort], bufs[ResponsePort], now)
  BY <1>7, <1>8, Zenon DEF b
<1>15. Responds(a)
  BY <1>3, <1>11, <1>12, <1>13, <1>14, Zenon DEF Responds, P
<1> QED BY <1>15, Zenon DEF a
-----------------------------------------------------------------------------
\* The messages that are stalled do not change.
LEMMA SameStalls ==
    ASSUME StallInv, NEW p \in InPorts, Changed(p), bufs'[p].stall_map = bufs[p].stall_map, UNCHANGED waiting
    PROVE  StalledAreAwaited'
<1>1. \A q \in InPorts : bufs'[q].stall_map = bufs[q].stall_map
  BY Zenon DEF Changed
<1> QED BY <1>1, Zenon DEF StallInv, StalledAreAwaited

\* A message is stalled, and its line knows of its port.
LEMMA StallKeeps ==
    ASSUME StallInv, NEW p \in InPorts, NEW a \in Addrs, Turn(p), Stalls(p, a),
           waiting' = [waiting EXCEPT ![a] = @ \cup {p}]
    PROVE  StalledAreAwaited'
<1>1. /\ \A q \in InPorts \ {p} : bufs'[q] = bufs[q]
      /\ bufs'[p].stall_map = [bufs[p].stall_map EXCEPT ![a] = Append(@, peek(bufs[p]))]
  BY SMTT(30) DEF Stalls, Changed, IsStalled
<1>2. /\ bufs[p].stall_map \in [Addrs -> Seq(Messages)] /\ peek(bufs[p]) \in Messages
      /\ waiting \in [Addrs -> SUBSET (InPorts \ {ResponsePort})]
      /\ \A q \in InPorts, c \in Addrs : (bufs[q].stall_map[c] # <<>>) <=> (q \in waiting[c])
  BY TurnFacts, Zenon DEF StallInv, StalledAreAwaited, Buffers
<1>3. Append(bufs[p].stall_map[a], peek(bufs[p])) # <<>>
  <2>1. bufs[p].stall_map[a] \in Seq(Messages)
    BY <1>2, Zenon
  <2> QED BY <1>2, <2>1, AppendFacts
<1>4. /\ bufs'[p].stall_map[a] = Append(bufs[p].stall_map[a], peek(bufs[p]))
      /\ \A c \in Addrs \ {a} : bufs'[p].stall_map[c] = bufs[p].stall_map[c]
  BY <1>1, <1>2, Zenon
<1>5. waiting'[a] = waiting[a] \cup {p} /\ \A c \in Addrs \ {a} : waiting'[c] = waiting[c]
  BY <1>2
<1> SUFFICES ASSUME NEW q \in InPorts, NEW c \in Addrs
             PROVE  (bufs'[q].stall_map[c] # <<>>) <=> (q \in waiting'[c])
  BY Zenon DEF StalledAreAwaited
<1>6. CASE q = p /\ c = a
  BY <1>3, <1>4, <1>5, <1>6, Zenon
<1>7. CASE q # p \/ c # a
  <2>1. bufs'[q].stall_map[c] = bufs[q].stall_map[c]
    BY <1>1, <1>4, <1>7, Zenon
  <2>2. q \in waiting'[c] <=> q \in waiting[c]
    BY <1>5, <1>7, Zenon
  <2> QED BY <1>2, <2>1, <2>2, Zenon
<1> QED BY <1>6, <1>7, Zenon

\* Messages come back from the stall maps, and are not awaited any more.
LEMMA ResponseKeeps ==
    ASSUME ControllerConstants, StallInv, NEW a, Responds(a), waiting' = WaitingLeft(a)
    PROVE  StalledAreAwaited' /\ waiting' \in [Addrs -> SUBSET (InPorts \ {ResponsePort})]
<1> DEFINE P == WokenPorts(ResponsePort, a)
<1>1. /\ a \in Addrs /\ NumAddrs \in Nat \ {0} /\ now \in Nat
      /\ waiting \in [Addrs -> SUBSET (InPorts \ {ResponsePort})]
      /\ \A q \in InPorts : HeapRight(bufs[q])
      /\ \A q \in InPorts, c \in Addrs : (bufs[q].stall_map[c] # <<>>) <=> (q \in waiting[c])
  BY DEF Responds, ControllerConstants, StallInv, StalledAreAwaited
<1>2. /\ P \subseteq InPorts \ {ResponsePort}
      /\ WakeUp # "wakeUpAllBuffers" => P = waiting[a]
      /\ WakeUp = "wakeUpAllBuffers" => P = UNION {waiting[c] : c \in Addrs}
  BY <1>1, WokenPortsFacts
<1> HIDE DEF P
<1>3. /\ bufs'[ResponsePort].stall_map = bufs[ResponsePort].stall_map
      /\ \A q \in InPorts \ {ResponsePort} : /\ q \notin P => bufs'[q] = bufs[q]
                                             /\ q \in P => IsWoken(bufs'[q], bufs[q], a, now)
  BY Zenon DEF Responds, IsDequeued, P
<1>4. ASSUME NEW q \in InPorts, q \notin P PROVE bufs'[q].stall_map = bufs[q].stall_map
  <2>1. CASE q = ResponsePort
    BY <1>3, <2>1, Zenon
  <2>2. CASE q # ResponsePort
    <3>1. bufs'[q] = bufs[q]
      BY <1>3, <1>4, <2>2, Zenon
    <3> QED BY <3>1, Zenon
  <2> QED BY <2>1, <2>2, Zenon
<1>5. ASSUME NEW q \in P
      PROVE  /\ WakeUp = "wakeUpAllBuffers" => \A c \in Addrs : bufs'[q].stall_map[c] = <<>>
             /\ WakeUp # "wakeUpAllBuffers" =>
                  bufs'[q].stall_map[a] = <<>> /\ \A c \in Addrs : c # a => bufs'[q].stall_map[c] = bufs[q].stall_map[c]
  <2>1. q \in InPorts /\ IsWoken(bufs'[q], bufs[q], a, now)
    BY <1>2, <1>3
  <2>2. Unstalls(bufs'[q], bufs[q], a)
    BY <1>1, <2>1, WokenKeeps, Zenon
  <2> QED BY <2>2, Zenon DEF Unstalls
<1>6. CASE WakeUp = "wakeUpAllBuffers"
  <2>1. waiting' = [c \in Addrs |-> {}]
    BY <1>6, Zenon DEF WaitingLeft
  <2>2. ASSUME NEW q \in InPorts, NEW c \in Addrs PROVE bufs'[q].stall_map[c] = <<>>
    <3>1. CASE q \in P
      BY <1>5, <1>6, <3>1, Zenon
    <3>2. CASE q \notin P
      <4>1. q \notin waiting[c]
        BY <1>2, <1>6, <3>2, Zenon
      <4> QED BY <1>1, <1>4, <3>2, <4>1, Zenon
    <3> QED BY <3>1, <3>2, Zenon
  <2> QED BY <2>1, <2>2, Zenon DEF StalledAreAwaited
<1>7. CASE WakeUp # "wakeUpAllBuffers"
  <2>1. waiting' = [waiting EXCEPT ![a] = {}]
    BY <1>7, Zenon DEF WaitingLeft
  <2>2. waiting' \in [Addrs -> SUBSET (InPorts \ {ResponsePort})]
    BY <1>1, <2>1, Zenon
  <2>3. waiting'[a] = {} /\ \A c \in Addrs : c # a => waiting'[c] = waiting[c]
    BY <1>1, <2>1, Zenon
  <2>4. ASSUME NEW q \in InPorts, NEW c \in Addrs
        PROVE  (bufs'[q].stall_map[c] # <<>>) <=> (q \in waiting'[c])
    <3>1. CASE q \in P
      <4>1. /\ bufs'[q].stall_map[a] = <<>> /\ (c # a => bufs'[q].stall_map[c] = bufs[q].stall_map[c])
            /\ (bufs[q].stall_map[c] # <<>>) <=> (q \in waiting[c])
        BY <1>1, <1>5, <1>7, <3>1, Zenon
      <4> QED BY <2>3, <4>1, Zenon
    <3>2. CASE q \notin P
      <4>1. /\ bufs'[q].stall_map = bufs[q].stall_map /\ q \notin waiting[a]
            /\ (bufs[q].stall_map[c] # <<>>) <=> (q \in waiting[c])
        BY <1>1, <1>2, <1>4, <1>7, <3>2, Zenon
      <4> QED BY <2>3, <4>1, Zenon
    <3> QED BY <3>1, <3>2, Zenon
  <2> QED BY <2>2, <2>4, Zenon DEF StalledAreAwaited
<1> QED BY <1>6, <1>7, Zenon
\* A request is sent.
LEMMA SendEffect ==
    ASSUME ControllerConstants, StallInv, NEW p \in InPorts, send_request(p)
    PROVE  \E n, arrival : Enqueues(p, requested[p] + 1, n, arrival)
<1> DEFINE id == requested[p] + 1
<1>1. PICK a \in Addrs, arrival \in ArrivalTimes(bufs[p], now) :
        /\ bufs' = [bufs EXCEPT ![p] = enqueue(@, [id |-> id, addr |-> a, time |-> 0, counter |-> 0], now, arrival)]
        /\ scheduleEventAbsolute(arrival)
  BY Zenon DEF send_request
<1>2. id \in Nat
  BY DEF StallInv
<1> DEFINE m == [id |-> id, addr |-> a, time |-> 0, counter |-> 0]
<1> HIDE DEF id
<1>3. m \in Messages /\ m.id = id
  BY <1>2 DEF Messages
<1> HIDE DEF m
<1>4. bufs' = [bufs EXCEPT ![p] = enqueue(@, m, now, arrival)]
  BY <1>1, Zenon DEF m
<1>5. \E n : Enqueues(p, m.id, n, arrival)
  BY <1>1, <1>3, <1>4, EnqueuesFacts, Zenon
<1> QED BY <1>3, <1>5, Zenon DEF id

\* A response is sent.
LEMMA RespondEffect ==
    ASSUME ControllerConstants, StallInv, NEW a \in Addrs, respond(a)
    PROVE  \E n, arrival : Enqueues(ResponsePort, 0, n, arrival)
<1> DEFINE m == [id |-> 0, addr |-> a, time |-> 0, counter |-> 0]
<1>0. ResponsePort \in InPorts
  BY DEF ControllerConstants
<1>1. PICK arrival \in ArrivalTimes(bufs[ResponsePort], now) :
        /\ bufs' = [bufs EXCEPT ![ResponsePort] = enqueue(@, m, now, arrival)]
        /\ scheduleEventAbsolute(arrival)
  BY Zenon DEF respond
<1>2. m \in Messages /\ m.id = 0
  BY DEF Messages
<1> HIDE DEF m
<1>3. \E n : Enqueues(ResponsePort, m.id, n, arrival)
  BY <1>0, <1>1, <1>2, EnqueuesFacts, Zenon
<1> QED BY <1>2, <1>3, Zenon

\* A request to a busy line is recycled.
LEMMA RecycleEffect ==
    ASSUME ControllerConstants, StallInv, NEW p \in InPorts, recycle_request(p)
    PROVE  \E n, t : Recycles(p, n, t)
<1>1. PICK d \in Delays : bufs' = [bufs EXCEPT ![p] = recycle(@, now + d)] /\ scheduleEventAbsolute(now + d)
  BY Zenon DEF recycle_request
<1>2. now + d \in Nat /\ now + d > now
  BY DEF ControllerConstants, StallInv
<1>3. Turn(p)
  BY DEF recycle_request
<1> QED BY <1>1, <1>2, <1>3, RecyclesFacts, Zenon

\* A request to a busy line is delayed.
LEMMA BlockEffect ==
    ASSUME StallInv, NEW p \in InPorts, block_on(p)
    PROVE  \E n : DelaysHead(p, n)
  BY DelaysHeadFacts, Zenon DEF block_on

\* A request to a busy line is stalled.
LEMMA StallEffect ==
    ASSUME StallInv, NEW p \in InPorts, stall_and_wait(p)
    PROVE  /\ peek(bufs[p]).addr \in Addrs /\ Stalls(p, peek(bufs[p]).addr)
           /\ waiting' = [waiting EXCEPT ![peek(bufs[p]).addr] = @ \cup {p}]
<1>1. /\ Turn(p) /\ waiting' = [waiting EXCEPT ![peek(bufs[p]).addr] = @ \cup {p}]
      /\ bufs' = [bufs EXCEPT ![p] = stallMessage(@, peek(bufs[p]).addr, now)]
  BY SMTT(30) DEF stall_and_wait
<1>2. peek(bufs[p]).addr \in Addrs
  BY <1>1, TurnFacts, Zenon
<1> QED BY <1>1, <1>2, StallsFacts, Zenon
-----------------------------------------------------------------------------
\* Initially the buffers are empty.
LEMMA EmptyFacts ==
    ASSUME NumAddrs \in Nat \ {0}
    PROVE  /\ EmptyBuffer \in Buffers /\ EmptyBuffer.heap = {} /\ HeapRight(EmptyBuffer)
           /\ EmptyBuffer.stall_map \in StallMaps /\ \A a \in Addrs : EmptyBuffer.stall_map[a] = <<>>
           /\ EmptyBuffer.stall_map_size = 0 /\ EmptyBuffer.time_last_pop = 0
           /\ EmptyBuffer.time_last_enqueue = 0 /\ EmptyBuffer.last_arrival_time = 0
<1>1. EmptyBuffer \in Buffers
  BY DEF EmptyBuffer, Buffers
<1>2. /\ EmptyBuffer.heap = {} /\ EmptyBuffer.stall_map = [a \in Addrs |-> <<>>]
      /\ EmptyBuffer.stall_map_size = 0 /\ EmptyBuffer.time_last_pop = 0
      /\ EmptyBuffer.time_last_enqueue = 0 /\ EmptyBuffer.last_arrival_time = 0
  BY DEF EmptyBuffer
<1>3. EmptyBuffer.stall_map \in StallMaps /\ \A a \in Addrs : EmptyBuffer.stall_map[a] = <<>>
  BY <1>2 DEF StallMaps
<1>4. HeapRight(EmptyBuffer)
  BY <1>1, <1>2, FS_EmptySet, Zenon DEF HeapRight
<1> QED BY <1>1, <1>2, <1>3, <1>4, Zenon

\* StallInv holds at first.
LEMMA StallInit ==
    ASSUME ControllerConstants, ControllerInit
    PROVE  StallInv
<1>1. /\ now = 0 /\ running = FALSE /\ bufs = [p \in InPorts |-> EmptyBuffer]
      /\ waiting = [a \in Addrs |-> {}] /\ busy = {} /\ requested = [p \in InPorts |-> 0]
  BY Zenon DEF ControllerInit
<1>2. /\ EmptyBuffer \in Buffers /\ HeapRight(EmptyBuffer)
      /\ \A a \in Addrs : EmptyBuffer.stall_map[a] = <<>>
  BY EmptyFacts, Zenon DEF ControllerConstants
<1>3. /\ bufs \in [InPorts -> Buffers] /\ \A p \in InPorts : bufs[p] = EmptyBuffer
  BY <1>1, <1>2, Zenon
<1>4. waiting \in [Addrs -> SUBSET (InPorts \ {ResponsePort})] /\ \A a \in Addrs : waiting[a] = {}
  BY <1>1
<1>5. requested \in [InPorts -> Nat]
  BY <1>1, Zenon
<1>6. \A p \in InPorts, a \in Addrs : (bufs[p].stall_map[a] # <<>>) <=> (p \in waiting[a])
  BY <1>2, <1>3, <1>4, Zenon
<1> QED BY <1>1, <1>2, <1>3, <1>4, <1>5, <1>6, Zenon DEF StallInv, StalledAreAwaited

\* Every step keeps StallInv.
LEMMA StallNext ==
    ASSUME ControllerConstants, StallInv, [ControllerNext]_controllerVars
    PROVE  StallInv'
<1>0. /\ now \in Nat /\ running \in BOOLEAN /\ busy \subseteq Addrs
      /\ bufs \in [InPorts -> Buffers] /\ \A p \in InPorts : HeapRight(bufs[p])
      /\ waiting \in [Addrs -> SUBSET (InPorts \ {ResponsePort})] /\ requested \in [InPorts -> Nat]
      /\ StalledAreAwaited
  BY Zenon DEF StallInv
<1>1. ASSUME NEW p \in InPorts, send_request(p) PROVE StallInv'
  <2>1. PICK n, arrival : Enqueues(p, requested[p] + 1, n, arrival)
    BY <1>1, SendEffect, Zenon
  <2>2. Changed(p) /\ bufs'[p].stall_map = bufs[p].stall_map
    BY <2>1, SMTT(30) DEF Enqueues, IsEnqueued
  <2>3. /\ UNCHANGED <<now, running, busy, waiting>> /\ requested' = [requested EXCEPT ![p] = @ + 1]
    BY <1>1, Zenon DEF send_request
  <2>4. StalledAreAwaited'
    BY <2>2, <2>3, SameStalls, Zenon
  <2>5. requested' \in [InPorts -> Nat]
    BY <1>0, <2>3
  <2> QED BY <1>0, <2>2, <2>3, <2>4, <2>5, Zenon DEF StallInv, Changed
<1>2. ASSUME NEW a \in Addrs, respond(a) PROVE StallInv'
  <2>1. PICK n, arrival : Enqueues(ResponsePort, 0, n, arrival)
    BY <1>2, RespondEffect, Zenon
  <2>2. Changed(ResponsePort) /\ bufs'[ResponsePort].stall_map = bufs[ResponsePort].stall_map
    BY <2>1, Zenon DEF Enqueues, IsEnqueued
  <2>3. UNCHANGED <<now, running, busy, waiting, requested>>
    BY <1>2, SMTT(30) DEF respond
  <2>4. StalledAreAwaited'
    BY <2>2, <2>3, SameStalls, Zenon DEF ControllerConstants
  <2> QED BY <1>0, <2>2, <2>3, <2>4, Zenon DEF StallInv, Changed
<1>3. CASE response
  <2> DEFINE a == peek(bufs[ResponsePort]).addr
  <2>1. Responds(a)
    BY <1>3, RespondsFacts, Zenon
  <2>2. /\ UNCHANGED <<now, running, requested>> /\ busy' = busy \ {a} /\ waiting' = WaitingLeft(a)
    BY <1>3, Zenon DEF response
  <2> HIDE DEF a
  <2>3. StalledAreAwaited' /\ waiting' \in [Addrs -> SUBSET (InPorts \ {ResponsePort})]
    BY <2>1, <2>2, ResponseKeeps, Zenon
  <2> QED BY <1>0, <2>1, <2>2, <2>3, Zenon DEF StallInv, Responds
<1>4. ASSUME NEW p \in InPorts, handle(p) PROVE StallInv'
  <2>1. Turn(p) /\ bufs' = [bufs EXCEPT ![p] = dequeue(@, now)] /\ UNCHANGED <<now, running, waiting, requested>>
    BY <1>4 DEF handle
  <2>2. Dequeues(p)
    BY <2>1, DequeuesFacts, Zenon
  <2>3. busy' \in {busy} \cup (IF MayMiss THEN {busy \cup {peek(bufs[p]).addr}} ELSE {})
    BY <1>4, Zenon DEF handle
  <2>4. busy' \subseteq Addrs
    BY <1>0, <2>1, <2>3, TurnFacts, SMTT(30)
  <2>5. Changed(p) /\ bufs'[p].stall_map = bufs[p].stall_map
    BY <2>2, Zenon DEF Dequeues, IsDequeued
  <2>6. StalledAreAwaited'
    BY <2>1, <2>5, SameStalls, Zenon
  <2> QED BY <1>0, <2>1, <2>4, <2>5, <2>6, Zenon DEF StallInv, Changed
<1>5. ASSUME NEW p \in InPorts, stall_and_wait(p) PROVE StallInv'
  <2> DEFINE a == peek(bufs[p]).addr
  <2>1. a \in Addrs /\ Stalls(p, a) /\ waiting' = [waiting EXCEPT ![a] = @ \cup {p}]
    BY <1>5, StallEffect, Zenon
  <2>2. Turn(p) /\ p # ResponsePort /\ UNCHANGED <<now, running, busy, requested>>
    BY <1>5 DEF stall_and_wait
  <2> HIDE DEF a
  <2>3. StalledAreAwaited'
    BY <2>1, <2>2, StallKeeps, Zenon
  <2>4. waiting' \in [Addrs -> SUBSET (InPorts \ {ResponsePort})]
    BY <1>0, <2>1, <2>2, Zenon
  <2> QED BY <1>0, <2>1, <2>2, <2>3, <2>4, Zenon DEF StallInv, Stalls, Changed
<1>6. ASSUME NEW p \in InPorts, recycle_request(p) PROVE StallInv'
  <2>1. PICK n, t : Recycles(p, n, t)
    BY <1>6, RecycleEffect, Zenon
  <2>2. Changed(p) /\ bufs'[p].stall_map = bufs[p].stall_map
    BY <2>1, Zenon DEF Recycles, IsRecycled
  <2>3. UNCHANGED <<now, running, busy, waiting, requested>>
    BY <1>6, Zenon DEF recycle_request
  <2>4. StalledAreAwaited'
    BY <2>2, <2>3, SameStalls, Zenon
  <2> QED BY <1>0, <2>2, <2>3, <2>4, Zenon DEF StallInv, Changed
<1>7. ASSUME NEW p \in InPorts, block_on(p) PROVE StallInv'
  <2>1. PICK n : DelaysHead(p, n)
    BY <1>7, BlockEffect, Zenon
  <2>2. Changed(p) /\ bufs'[p].stall_map = bufs[p].stall_map
    BY <2>1, Zenon DEF DelaysHead, IsDelayed
  <2>3. UNCHANGED <<now, running, busy, waiting, requested>>
    BY <1>7, Zenon DEF block_on
  <2>4. StalledAreAwaited'
    BY <2>2, <2>3, SameStalls
  <2> QED BY <1>0, <2>2, <2>3, <2>4, Zenon DEF StallInv, Changed
<1>8. CASE start_wakeup \/ end_wakeup \/ EndCycle \/ UNCHANGED controllerVars
  <2>1. /\ UNCHANGED <<bufs, waiting, busy, requested>>
        /\ now' = now \/ now' = now + 1
        /\ running' = TRUE \/ running' = FALSE \/ running' = running
    BY <1>8, Zenon DEF start_wakeup, end_wakeup, EndCycle, controllerVars
  <2>2. StalledAreAwaited' 
    BY <1>0, <2>1, Zenon DEF StalledAreAwaited
  <2>3. now' \in Nat
    BY <1>0, <2>1
  <2>4. running' \in BOOLEAN
    BY <1>0, <2>1, Zenon
  <2> QED BY <1>0, <2>1, <2>2, <2>3, <2>4, Zenon DEF StallInv
<1> QED BY <1>1, <1>2, <1>3, <1>4, <1>5, <1>6, <1>7, <1>8, Zenon DEF ControllerNext, Step

\* StallInv is an invariant.
LEMMA StallInvariant ==
    ASSUME ControllerConstants
    PROVE  ControllerSpec => []StallInv
<1>1. ControllerInit => StallInv
  BY StallInit
<1>2. StallInv /\ [ControllerNext]_controllerVars => StallInv'
  BY StallNext
<1> QED BY <1>1, <1>2, PTL DEF ControllerSpec

\* For every controller, whichever of the three calls ends its transactions:
\* m_waiting_buffers holds a port for a line exactly when the port has a
\* message for the line in its stall map.
THEOREM StallsAreAwaited ==
    ASSUME ControllerConstants
    PROVE  ControllerSpec => []StalledAreAwaited
<1>1. StallInv => StalledAreAwaited
  BY DEF StallInv
<1> QED BY <1>1, StallInvariant, PTL
-----------------------------------------------------------------------------
\* The times of the messages are numbers.
LEMMA TimesFacts ==
    ASSUME StallInv
    PROVE  now \in Nat /\ \A p \in InPorts : \A m \in bufs[p].heap : m.time \in Nat /\ m.counter \in Nat /\ m.id \in Nat
<1>1. now \in Nat /\ \A p \in InPorts : bufs[p] \in Buffers
  BY DEF StallInv
<1>2. \A p \in InPorts : bufs[p].heap \subseteq Messages
  BY <1>1, Zenon DEF Buffers
<1> QED BY <1>1, <1>2, Zenon DEF Messages

\* One message more is in the heaps, and it has a wakeup.
LEMMA OneMore ==
    ASSUME StallInv, WakeupInv, NEW p \in InPorts, Changed(p), NEW n, NEW t \in Nat, t > now, n.time = t,
           \A m \in bufs'[p].heap : m \in bufs[p].heap \/ m = n,
           scheduled' = {u \in scheduled \cup {t} : u >= now},
           UNCHANGED <<now, ran, running>>
    PROVE  WakeupInv'
<1>1. now \in Nat /\ \A q \in InPorts : \A m \in bufs[q].heap : m.time \in Nat
  BY TimesFacts, Zenon
<1>2. ASSUME NEW q \in InPorts, NEW m \in bufs'[q].heap PROVE m \in bufs[q].heap \/ m = n
  BY SMTT(30) DEF Changed
<1>3. now \in scheduled => now \in scheduled'
  BY <1>1
<1>4. now + 1 \in scheduled => now + 1 \in scheduled'
  BY <1>1
<1>5. t \in scheduled' /\ \A u \in scheduled : u \in Nat /\ u > now => u \in scheduled'
  BY <1>1, SMTT(30)
<1>6. \A q \in InPorts : \A m \in bufs'[q].heap : m.time > now => m.time \in scheduled'
  BY <1>1, <1>2, <1>5, Zenon DEF WakeupInv
<1>7. ASSUME ~running, NEW q \in InPorts, NEW m \in bufs'[q].heap, m.time <= now
      PROVE  (now \in scheduled' /\ ~ran) \/ now + 1 \in scheduled'
  <2>1. m # n
    BY <1>1, <1>7, SMTT(30)
  <2>2. m \in bufs[q].heap
    BY <1>2, <2>1
  <2>3. (now \in scheduled /\ ~ran) \/ now + 1 \in scheduled
    BY <1>7, <2>2, Zenon DEF WakeupInv
  <2> QED BY <1>3, <1>4, <2>3, Zenon
<1>8. now' = now /\ ran' = ran /\ running' = running
  OBVIOUS
<1>9. ~running => \A q \in InPorts : \A m \in bufs'[q].heap :
        m.time <= now => (now \in scheduled' /\ ~ran) \/ now + 1 \in scheduled'
  BY <1>7, Zenon
<1> QED BY <1>6, <1>8, <1>9 DEF WakeupInv

\* While a wakeup runs it is enough that no message of a later time is new.
LEMMA NoneMore ==
    ASSUME StallInv, WakeupInv, running, UNCHANGED <<now, ran, running>>,
           \A q \in InPorts : \A m \in bufs'[q].heap : m \in bufs[q].heap \/ m.time = now,
           UNCHANGED scheduled \/ scheduled' = {u \in scheduled \cup {now} : u >= now}
    PROVE  WakeupInv'
<1>1. now \in Nat /\ \A q \in InPorts : \A m \in bufs[q].heap : m.time \in Nat
  BY TimesFacts
<1>2. ASSUME NEW q \in InPorts, NEW m \in bufs'[q].heap, m.time > now PROVE m.time \in scheduled'
  <2>1. m \in bufs[q].heap
    BY <1>1, <1>2
  <2>2. m.time \in scheduled
    BY <1>2, <2>1, Zenon DEF WakeupInv
  <2>3. m.time >= now
    BY <1>1, <1>2, <2>1
  <2> QED BY <2>2, <2>3, Zenon
<1>3. now' = now /\ running'
  BY Zenon
<1> QED BY <1>2, <1>3, Zenon DEF WakeupInv

\* Every step keeps WakeupInv.
LEMMA WakeupNext ==
    ASSUME ControllerConstants, StallInv, WakeupInv, [ControllerNext]_controllerVars
    PROVE  WakeupInv'
<1>0. now \in Nat /\ \A q \in InPorts : \A m \in bufs[q].heap : m.time \in Nat
  BY TimesFacts, Zenon
<1>1. ASSUME NEW p \in InPorts, send_request(p) PROVE WakeupInv'
  <2>1. PICK n, arrival : Enqueues(p, requested[p] + 1, n, arrival)
    BY <1>1, SendEffect, Zenon
  <2>2. UNCHANGED <<now, ran, running>>
    BY <1>1, Zenon DEF send_request
  <2>3. /\ Changed(p) /\ arrival \in Nat /\ arrival > now /\ n.time = arrival
        /\ scheduled' = {u \in scheduled \cup {arrival} : u >= now}
        /\ \A m \in bufs'[p].heap : m \in bufs[p].heap \/ m = n
    BY <2>1, SMTT(30) DEF Enqueues, IsEnqueued
  <2> QED BY <2>2, <2>3, OneMore, Zenon
<1>2. ASSUME NEW a \in Addrs, respond(a) PROVE WakeupInv'
  <2>1. PICK n, arrival : Enqueues(ResponsePort, 0, n, arrival)
    BY <1>2, RespondEffect, Zenon
  <2>2. UNCHANGED <<now, ran, running>> /\ ResponsePort \in InPorts
    BY <1>2, Zenon DEF respond, ControllerConstants
  <2>3. /\ Changed(ResponsePort) /\ arrival \in Nat /\ arrival > now /\ n.time = arrival
        /\ scheduled' = {u \in scheduled \cup {arrival} : u >= now}
        /\ \A m \in bufs'[ResponsePort].heap : m \in bufs[ResponsePort].heap \/ m = n
    BY <2>1 DEF Enqueues, IsEnqueued
  <2> QED BY <2>2, <2>3, OneMore, Zenon
<1>3. CASE response
  <2> DEFINE a == peek(bufs[ResponsePort]).addr
  <2>1. Responds(a)
    BY <1>3, RespondsFacts, Zenon
  <2>2. /\ UNCHANGED <<now, ran, running>> /\ Turn(ResponsePort) /\ ResponsePort \in InPorts
        /\ UNCHANGED scheduled \/ scheduleEventAbsolute(now)
    BY <1>3 DEF response, ControllerConstants
  <2>3. running
    BY <2>2, Zenon DEF Turn
  <2> HIDE DEF a
  <2>4. ASSUME NEW q \in InPorts, NEW m \in bufs'[q].heap PROVE m \in bufs[q].heap \/ m.time = now
    <3>1. CASE q = ResponsePort
      BY <2>1, <3>1, Zenon DEF Responds, IsDequeued
    <3>2. CASE q # ResponsePort /\ q \notin WokenPorts(ResponsePort, a)
      BY <2>1, <3>2, Zenon DEF Responds
    <3>3. CASE q # ResponsePort /\ q \in WokenPorts(ResponsePort, a)
      <4>1. /\ IsWoken(bufs'[q], bufs[q], a, now) /\ a \in Addrs /\ HeapRight(bufs[q]) /\ NumAddrs \in Nat \ {0}
        BY <2>1, <3>3, Zenon DEF Responds, StallInv, ControllerConstants
      <4>2. NewAreReady(bufs'[q], bufs[q], now)
        BY <1>0, <4>1, WokenKeeps, Zenon
      <4> QED BY <4>2, Zenon DEF NewAreReady
    <3> QED BY <3>1, <3>2, <3>3, Zenon
  <2>5. UNCHANGED scheduled \/ scheduled' = {u \in scheduled \cup {now} : u >= now}
    BY <2>2, Zenon DEF scheduleEventAbsolute
  <2> QED BY <2>2, <2>3, <2>4, <2>5, NoneMore, Zenon
<1>4. ASSUME NEW p \in InPorts, handle(p) PROVE WakeupInv'
  <2>1. Turn(p) /\ bufs' = [bufs EXCEPT ![p] = dequeue(@, now)] /\ UNCHANGED <<now, ran, running, scheduled>>
    BY <1>4 DEF handle
  <2>2. Dequeues(p)
    BY <2>1, DequeuesFacts, Zenon
  <2>3. \A q \in InPorts : \A m \in bufs'[q].heap : m \in bufs[q].heap
    BY <2>2, Zenon DEF Dequeues, IsDequeued, Changed
  <2>4. running
    BY <2>1, Zenon DEF Turn
  <2> QED BY <2>1, <2>3, <2>4, NoneMore, Zenon
<1>5. ASSUME NEW p \in InPorts, stall_and_wait(p) PROVE WakeupInv'
  <2>1. Turn(p) /\ UNCHANGED <<now, ran, running, scheduled>>
    BY <1>5, Zenon DEF stall_and_wait
  <2>2. Stalls(p, peek(bufs[p]).addr)
    BY <1>5, StallEffect, Zenon
  <2>3. \A q \in InPorts : \A m \in bufs'[q].heap : m \in bufs[q].heap
    BY <2>2, Zenon DEF Stalls, IsStalled, Changed
  <2>4. running
    BY <2>1, Zenon DEF Turn
  <2> QED BY <2>1, <2>3, <2>4, NoneMore, Zenon
<1>6. ASSUME NEW p \in InPorts, recycle_request(p) PROVE WakeupInv'
  <2>1. PICK n, t : Recycles(p, n, t)
    BY <1>6, RecycleEffect, Zenon
  <2>2. UNCHANGED <<now, ran, running>>
    BY <1>6, Zenon DEF recycle_request
  <2>3. /\ Changed(p) /\ t \in Nat /\ t > now /\ n.time = t
        /\ scheduled' = {u \in scheduled \cup {t} : u >= now}
        /\ \A m \in bufs'[p].heap : m \in bufs[p].heap \/ m = n
    BY <2>1 DEF Recycles, IsRecycled
  <2> QED BY <2>2, <2>3, OneMore
<1>7. ASSUME NEW p \in InPorts, block_on(p) PROVE WakeupInv'
  <2>1. PICK n : DelaysHead(p, n)
    BY <1>7, BlockEffect, Zenon
  <2>2. UNCHANGED <<now, ran, running>>
    BY <1>7, Zenon DEF block_on
  <2>3. /\ Changed(p) /\ now + 1 \in Nat /\ now + 1 > now /\ n.time = now + 1
        /\ scheduled' = {u \in scheduled \cup {now + 1} : u >= now}
        /\ \A m \in bufs'[p].heap : m \in bufs[p].heap \/ m = n
    BY <1>0, <2>1 DEF DelaysHead, IsDelayed
  <2> QED BY <2>2, <2>3, OneMore, Zenon
<1>8. CASE start_wakeup
  BY <1>8, Zenon DEF start_wakeup, WakeupInv
<1>9. CASE end_wakeup
  <2>1. /\ UNCHANGED <<now, ran, bufs>> /\ GoOnLater
        /\ counter = TransitionsPerCycle \/ \A p \in InPorts : ~isReady(bufs[p], now)
    BY <1>9, Zenon DEF end_wakeup
  <2>2. CASE counter = TransitionsPerCycle
    <3>1. scheduled' = {t \in scheduled \cup {now + 1} : t >= now}
      BY <2>1, <2>2, Zenon DEF GoOnLater, scheduleEventAbsolute
    <3>2. now + 1 \in scheduled' /\ \A u \in scheduled : u \in Nat /\ u > now => u \in scheduled'
      BY <1>0, <3>1
    <3>3. \A p \in InPorts : \A m \in bufs[p].heap : m.time > now => m.time \in scheduled'
      BY <1>0, <3>2, Zenon DEF WakeupInv
    <3> QED BY <2>1, <3>2, <3>3, Zenon DEF WakeupInv
  <2>3. CASE counter # TransitionsPerCycle
    <3>1. \A p \in InPorts : NoneReady(bufs[p], now)
      <4>1. \A p \in InPorts : HeapRight(bufs[p])
        BY DEF StallInv
      <4> QED BY <1>0, <2>1, <2>3, <4>1, ReadyFacts, Zenon
    <3>2. scheduled' = scheduled
      BY <2>1, <2>3, Zenon DEF GoOnLater
    <3>3. \A p \in InPorts : \A m \in bufs[p].heap : m.time > now /\ ~(m.time <= now)
      BY <1>0, <3>1 DEF NoneReady
    <3> QED BY <2>1, <3>2, <3>3, Zenon DEF WakeupInv
  <2> QED BY <2>2, <2>3, Zenon
<1>10. CASE EndCycle
  <2>1. /\ now' = now + 1 /\ ran' = FALSE /\ UNCHANGED <<scheduled, running, bufs>> /\ ~running
        /\ now \in scheduled => ran
    BY <1>10 DEF EndCycle
  <2>2. ASSUME NEW p \in InPorts, NEW m \in bufs[p].heap
        PROVE  /\ m.time > now + 1 => m.time \in scheduled
               /\ m.time <= now + 1 => now + 1 \in scheduled
    <3>1. /\ m.time > now => m.time \in scheduled
          /\ m.time <= now => (now \in scheduled /\ ~ran) \/ now + 1 \in scheduled
      BY <2>1, Zenon DEF WakeupInv
    <3>2. m.time \in Nat
      BY <1>0
    <3> QED BY <1>0, <2>1, <3>1, <3>2
  <2> QED BY <2>1, <2>2, Zenon DEF WakeupInv
<1>11. CASE UNCHANGED controllerVars
  BY <1>11 DEF controllerVars, WakeupInv
<1> QED BY <1>1, <1>2, <1>3, <1>4, <1>5, <1>6, <1>7, <1>8, <1>9, <1>10, <1>11, Zenon DEF ControllerNext, Step

\* For every controller: a message in a heap is never forgotten.  There is a
\* wakeup for the time it is ready or, when that has passed, for this cycle
\* or the next.
THEOREM MessagesHaveWakeups ==
    ASSUME ControllerConstants
    PROVE  ControllerSpec => []MessageHasWakeup
<1>1. ControllerInit => StallInv /\ WakeupInv
  <2> SUFFICES ASSUME ControllerInit PROVE StallInv /\ WakeupInv
    BY SMTT(30)
  <2>1. \A p \in InPorts : bufs[p].heap = {}
    BY EmptyFacts DEF ControllerInit, ControllerConstants
  <2> QED BY <2>1, StallInit DEF WakeupInv
<1>2. StallInv /\ WakeupInv /\ [ControllerNext]_controllerVars => StallInv' /\ WakeupInv'
  BY StallNext, WakeupNext
<1>3. StallInv /\ WakeupInv => MessageHasWakeup
  <2> SUFFICES ASSUME StallInv, WakeupInv, ~running, NEW p \in InPorts, NEW m \in bufs[p].heap
               PROVE  \/ m.time > now /\ m.time \in scheduled
                      \/ m.time <= now /\ now \in scheduled /\ ~ran
                      \/ m.time <= now /\ now + 1 \in scheduled
    BY Zenon DEF MessageHasWakeup
  <2>1. m.time > now \/ m.time <= now
    BY TimesFacts
  <2> QED BY <2>1, Zenon DEF WakeupInv
<1> QED BY <1>1, <1>2, <1>3, PTL DEF ControllerSpec
=============================================================================
