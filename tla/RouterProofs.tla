------------------------- MODULE RouterProofs ----------------------------
(***************************************************************************)
(* Routers with a latency of at most five cycles are awake whenever a flit *)
(* in them is ready for switch allocation, for any routers, ports and      *)
(* period of the bubbles; the switch allocator of a router with any ports  *)
(* and VCs is fair and keeps the order of ordered vnets; and routing in    *)
(* every mesh: the table that extend_shortest_path computes holds the      *)
(* shortest distances, and every algorithm takes an existing link towards  *)
(* the destination and none of the turns it forbids.                       *)
(***************************************************************************)
EXTENDS RouterWakeup, SwitchAllocator, RoutingWalk, WellFoundedInduction, TLAPS

Delays == {f \in [time : Int, stage : Int] : f = EmptySlot \/ (f.time >= 0 /\ f.stage >= 0)}

\* Cycles until a flit is ready.
ReadyIn(f) == IF f.time >= f.stage THEN f.time ELSE f.stage

Shape ==
    /\ slot \in [Ports -> Delays]
    /\ scheduled \in [Routers -> SUBSET Nat]
    /\ on_link \subseteq Ports /\ sent \subseteq Ports /\ bubble \in Ports

\* A wakeup of the current cycle is pending only in a router that has not
\* woken up.
Served == \A r \in awake : 0 \notin scheduled[r]

\* The stage of a flit lies at most PipeStages - 1 cycles ahead, and less
\* before its router wakes up, because the flit came in an earlier cycle.
StageBound ==
    \A p \in Ports : slot[p].stage > 0 =>
        slot[p].stage <= IF p[1] \in awake THEN PipeStages - 1 ELSE PipeStages - 2

\* The router of a flit wakes up when the flit is ready or one cycle before,
\* and goes on while it is ready.
Cover(f, r) ==
    \/ ReadyIn(f) \in scheduled[r]
    \/ ReadyIn(f) >= 1 /\ ReadyIn(f) - 1 \in scheduled[r]
    \/ ReadyIn(f) = 0 /\ r \in awake /\ 1 \in scheduled[r]
Covered == \A p \in Ports : slot[p] # EmptySlot => Cover(slot[p], p[1])

WakeupInv == Shape /\ Served /\ StageBound /\ Covered
-----------------------------------------------------------------------------
\* The invariant implies the property: wakeups of this cycle are pending or
\* served (Router::wakeup).
LEMMA InvImplies == WakeupInv => AwakeForSA
<1> SUFFICES ASSUME WakeupInv, NEW p \in Ports, need_stage_in(slot[p], 0)
             PROVE  p[1] \in awake \cup WakingUp
  BY DEF AwakeForSA
<1>1. slot[p] \in Delays /\ slot[p] # EmptySlot /\ p[1] \in Routers
  BY DEF WakeupInv, Shape, need_stage_in, Ports
<1>2. ReadyIn(slot[p]) = 0
  BY <1>1 DEF need_stage_in, Delays, ReadyIn
<1>3. Cover(slot[p], p[1])
  BY <1>1 DEF WakeupInv, Covered
<1>4. 0 \in scheduled[p[1]] \/ p[1] \in awake
  BY <1>2, <1>3 DEF Cover
<1> QED
  BY <1>1, <1>4, Zenon DEF WakingUp

\* The invariant holds in the empty network.
LEMMA InvInit == WakeupInit => WakeupInv
<1> SUFFICES ASSUME WakeupInit PROVE WakeupInv
  OBVIOUS
<1>1. EmptySlot \in Delays
  BY DEF EmptySlot, Delays
<1>2. Shape
  BY <1>1 DEF WakeupInit, Shape
<1>3. Served /\ StageBound /\ Covered
  BY DEF WakeupInit, Served, StageBound, Covered, EmptySlot
<1> QED
  BY <1>2, <1>3 DEF WakeupInv

\* NetworkLink::wakeup only adds a wakeup in the next cycle.
LEMMA InvLink ==
    ASSUME WakeupInv, NEW p \in Ports, link_wakeup(p)
    PROVE  WakeupInv'
<1> USE DEF WakeupInv
<1>1. p[1] \in Routers
  BY DEF Ports
<1>2. \A r \in Routers : /\ scheduled[r] \subseteq scheduled'[r]
                         /\ scheduled'[r] \subseteq scheduled[r] \cup {1}
  BY <1>1 DEF link_wakeup, Shape
<1>3. Shape'
  BY <1>1 DEF link_wakeup, Shape
<1>4. Served'
  BY <1>1 DEF link_wakeup, Served, Shape
<1>5. StageBound'
  BY DEF link_wakeup, StageBound
<1>6. Covered'
  BY <1>2 DEF link_wakeup, Covered, Cover, Ports
<1> QED
  BY <1>3, <1>4, <1>5, <1>6

\* move_intra_bubble keeps the flit in its router.
LEMMA InvIntra ==
    ASSUME WakeupInv, NEW inp \in Inports, move_intra_bubble(inp)
    PROVE  WakeupInv'
<1> USE WakeupAssumption DEF WakeupInv
<1> DEFINE p == <<bubble[1], inp>>
<1>1. p \in Ports /\ p[1] = bubble[1] /\ bubble[1] \in Routers /\ p # bubble /\ awake = {}
  BY DEF move_intra_bubble, Shape, Ports, MayMove
<1>2. awake' = {} /\ bubble' = p /\ on_link' = on_link /\ sent' = sent
  BY <1>1 DEF move_intra_bubble
<1>3. Served'
  BY <1>2 DEF Served
<1>4. CASE Free(p) /\ slot' = slot /\ \E d \in 0 .. InterPeriod :
               scheduled' = [scheduled EXCEPT ![p[1]] = IF d = 0 THEN @ ELSE @ \cup {d}]
  <2>1. Shape'
    BY <1>1, <1>2, <1>4 DEF Shape
  <2>2. \A r \in Routers : scheduled[r] \subseteq scheduled'[r]
    BY <1>1, <1>4 DEF Shape
  <2>3. StageBound'
    BY <1>1, <1>2, <1>4 DEF StageBound
  <2>4. Covered'
    BY <1>1, <1>2, <1>4, <2>2 DEF Covered, Cover, Ports
  <2> QED
    BY <1>3, <2>1, <2>3, <2>4
<1>5. CASE slot[p] # EmptySlot /\ scheduled' = scheduled
           /\ slot' = [slot EXCEPT ![p] = EmptySlot, ![bubble] = slot[p]]
  <2>0. slot \in [Ports -> Delays] /\ bubble \in Ports /\ EmptySlot \in Delays
    BY DEF Shape, EmptySlot, Delays
  <2> HIDE DEF p
  <2>1. /\ slot' \in [Ports -> Delays]
        /\ \A q \in Ports : slot'[q] = IF q = bubble THEN slot[p] ELSE
                                       IF q = p THEN EmptySlot ELSE slot[q]
    BY <1>1, <1>5, <2>0
  <2>2. Shape'
    BY <1>1, <1>2, <1>5, <2>1 DEF Shape
  <2>3. StageBound'
    BY <1>1, <1>2, <2>1 DEF StageBound, EmptySlot
  <2>4. Covered'
    BY <1>1, <1>2, <1>5, <2>1 DEF Covered, Cover
  <2> QED
    BY <1>3, <2>2, <2>3, <2>4
<1> QED
  BY <1>1, <1>4, <1>5, Zenon DEF move_intra_bubble

\* move_inter_bubble takes the flit to another router, where it is ready in
\* two or three cycles; that router wakes up in two.
LEMMA InvInter ==
    ASSUME PipeStages <= 5, WakeupInv, NEW p \in Ports, move_inter_bubble(p)
    PROVE  WakeupInv'
<1> USE WakeupAssumption DEF WakeupInv
<1>1. p[1] \in Routers /\ bubble \in Ports /\ bubble[1] \in Routers /\ p # bubble /\ awake = {}
  BY DEF move_inter_bubble, Shape, Ports, MayMove
<1>2. awake' = {} /\ bubble' = p /\ on_link' = on_link /\ sent' = sent
  BY <1>1 DEF move_inter_bubble
<1>3. /\ scheduled' \in [Routers -> SUBSET Nat]
      /\ \A r \in Routers : scheduled[r] \subseteq scheduled'[r]
      /\ 2 \in scheduled'[bubble[1]]
  BY <1>1 DEF move_inter_bubble, WakeBoth, Shape
<1>4. Served'
  BY <1>2 DEF Served
<1>5. CASE slot' = slot
  BY <1>1, <1>2, <1>3, <1>4, <1>5 DEF Shape, StageBound, Covered, Cover, Ports
<1>6. CASE /\ slot[p] # EmptySlot
           /\ slot' = [slot EXCEPT ![p] = EmptySlot,
                                   ![bubble] = [time |-> 2, stage |-> slot[p].stage]]
  <2>1. slot[p].stage \in Int /\ slot[p].stage >= 0 /\ slot[p].stage <= 3
    BY <1>1, <1>6 DEF Shape, Delays, StageBound
  <2>2. /\ slot' \in [Ports -> Delays]
        /\ \A q \in Ports : slot'[q] = IF q = bubble THEN [time |-> 2, stage |-> slot[p].stage]
                                       ELSE IF q = p THEN EmptySlot ELSE slot[q]
    <3> DEFINE f == [time |-> 2, stage |-> slot[p].stage]
    <3>1. f \in Delays /\ EmptySlot \in Delays
      BY ONLY <2>1 DEF Delays, EmptySlot
    <3>2. slot \in [Ports -> Delays] /\ slot' = [slot EXCEPT ![p] = EmptySlot, ![bubble] = f]
      BY <1>6, Zenon DEF Shape
    <3> HIDE DEF f
    <3>3. /\ slot' \in [Ports -> Delays]
          /\ \A q \in Ports : slot'[q] = IF q = bubble THEN f
                                         ELSE IF q = p THEN EmptySlot ELSE slot[q]
      BY ONLY <1>1, <3>1, <3>2, p \in Ports
    <3> QED
      BY <3>3, Zenon DEF f
  <2>3. Shape'
    BY <1>1, <1>2, <1>3, <2>2 DEF Shape
  <2>4. StageBound'
    BY <1>1, <1>2, <2>2 DEF StageBound, EmptySlot
  <2>5. ASSUME NEW q \in Ports, slot'[q] # EmptySlot
        PROVE  Cover(slot[q], q[1])'
    <3>1. CASE q = bubble
      <4>1. ReadyIn(slot'[q]) \in {2, 3}
        BY <2>1, <2>2, <3>1 DEF ReadyIn
      <4> QED
        BY <1>3, <3>1, <4>1 DEF Cover
    <3>2. CASE q # bubble
      BY <1>1, <1>2, <1>3, <2>2, <2>5, <3>2 DEF Covered, Cover, Ports
    <3> QED
      BY <3>1, <3>2
  <2> QED
    BY <1>4, <2>3, <2>4, <2>5 DEF Covered
<1> QED
  BY <1>5, <1>6 DEF move_inter_bubble

\* Router::wakeup schedules the cycle in which arriving flits are ready, and
\* check_for_wakeup the next one when some flit needs it.
LEMMA InvWakeup ==
    ASSUME WakeupInv, NEW r \in Routers, router_wakeup(r)
    PROVE  WakeupInv'
<1> USE WakeupAssumption DEF WakeupInv
<1> DEFINE arriving == {p \in on_link : p[1] = r}
           buffered == [p \in Ports |->
               IF p \in arriving THEN [time |-> 0, stage |-> PipeStages - 1] ELSE slot[p]]
           SAWakeup == {d \in {PipeStages - 1} : d > 0 /\ arriving # {}}
<1>1. PICK granted \in SUBSET {p \in Ports : p[1] = r /\ need_stage_in(buffered[p], 0)} :
          slot' = [p \in Ports |-> IF p \in granted THEN EmptySlot ELSE buffered[p]]
  BY Zenon DEF router_wakeup
<1>2. /\ scheduled' = [scheduled EXCEPT
            ![r] = (@ \ {0}) \cup SAWakeup \cup check_for_wakeup(slot', r)]
      /\ awake' = awake \cup {r} /\ on_link' = on_link \ arriving
      /\ sent' = sent /\ bubble' = bubble
  BY DEF router_wakeup
<1>3. check_for_wakeup(slot', r) \subseteq {1}
  BY DEF check_for_wakeup
<1>4. buffered \in [Ports -> Delays] /\ EmptySlot \in Delays
  BY DEF Shape, Delays, EmptySlot
<1>5. slot' \in [Ports -> Delays]
  BY <1>1, <1>4
<1>6. Shape'
  BY <1>2, <1>3, <1>5 DEF Shape
<1>7. /\ scheduled'[r] = (scheduled[r] \ {0}) \cup SAWakeup \cup check_for_wakeup(slot', r)
      /\ \A q \in Routers \ {r} : scheduled'[q] = scheduled[q]
  BY <1>2 DEF Shape
<1>8. Served'
  <2>1. 0 \notin scheduled'[r]
    BY <1>3, <1>7
  <2>2. \A q \in awake : q # r => scheduled'[q] = scheduled[q]
    BY <1>2
  <2> QED
    BY <1>2, <2>1, <2>2 DEF Served
<1>9. StageBound'
  BY <1>1, <1>2, <1>4 DEF StageBound, EmptySlot, Delays, Ports
<1>10. ASSUME NEW p \in Ports, slot'[p] # EmptySlot
       PROVE  Cover(slot[p], p[1])'
  <2>1. slot'[p] = buffered[p] /\ slot'[p] \in Delays
    BY <1>1, <1>5, <1>10, Zenon
  <2>2. CASE p[1] # r
    BY <1>2, <1>7, <1>10, <2>1, <2>2, Zenon DEF Covered, Cover, Ports
  <2>3. CASE p[1] = r
    <3>1. ReadyIn(slot'[p]) \in Nat
      BY <1>10, <2>1 DEF ReadyIn, Delays
    <3>2. CASE ReadyIn(slot'[p]) <= 1
      <4>1. need_stage_in(slot'[p], 1) /\ \E inp \in Inports : p = <<r, inp>>
        <5>1. slot'[p].time \in Int /\ slot'[p].stage \in Int
          BY ONLY <2>1 DEF Delays
        <5>2. slot'[p].time <= 1 /\ slot'[p].stage <= 1
          BY ONLY <3>2, <5>1 DEF ReadyIn
        <5>3. \E inp \in Inports : p = <<r, inp>>
          <6>1. p = <<p[1], p[2]>> /\ p[2] \in Inports
            BY ONLY <1>10 DEF Ports
          <6> QED
            BY <2>3, <6>1, Zenon
        <5> QED
          BY <1>10, <5>2, <5>3, Zenon DEF need_stage_in
      <4>2. 1 \in check_for_wakeup(slot', r)
        BY <4>1 DEF check_for_wakeup
      <4> QED
        <5>1. 1 \in scheduled'[r] /\ r \in awake'
          BY ONLY <1>2, <1>7, <4>2
        <5> QED
          BY ONLY <2>3, <3>1, <3>2, <5>1 DEF Cover
    <3>3. CASE ReadyIn(slot'[p]) > 1 /\ p \in arriving
      <4>1. ReadyIn(slot'[p]) = PipeStages - 1
        BY <2>1, <3>3 DEF ReadyIn
      <4> QED
        <5>1. arriving # {}
          BY <3>3, Zenon
        <5>a. PipeStages - 1 > 0
          BY ONLY <3>1, <3>3, <4>1
        <5>2. PipeStages - 1 \in scheduled'[r]
          BY ONLY <1>7, <5>1, <5>a
        <5> QED
          BY ONLY <2>3, <4>1, <5>2 DEF Cover
    <3>4. CASE ReadyIn(slot'[p]) > 1 /\ p \notin arriving
      <4>1. slot'[p] = slot[p]
        BY <2>1, <3>4, Zenon
      <4>2. Cover(slot[p], r)
        BY <1>10, <2>3, <4>1, Zenon DEF Covered
      <4> QED
        <5>1. \A d \in scheduled[r] : d # 0 => d \in scheduled'[r]
          BY ONLY <1>7
        <5>2. ReadyIn(slot[p]) > 1 /\ ReadyIn(slot[p]) \in Nat
          BY ONLY <3>1, <3>4, <4>1
        <5> QED
          BY ONLY <2>3, <4>1, <4>2, <5>1, <5>2 DEF Cover
    <3> QED
      BY <3>1, <3>2, <3>3, <3>4
  <2> QED
    BY <2>2, <2>3
<1> QED
  BY <1>6, <1>8, <1>9, <1>10 DEF Covered

\* A cycle ends when every wakeup of it was served.
LEMMA InvTick == ASSUME WakeupInv, Tick PROVE WakeupInv'
<1> USE WakeupAssumption DEF WakeupInv
<1> DEFINE Less(n) == IF n > 0 THEN n - 1 ELSE n
<1>1. ASSUME NEW p \in Ports
      PROVE  /\ slot'[p].time = Less(slot[p].time) /\ slot'[p].stage = Less(slot[p].stage)
             /\ slot'[p] = [time |-> slot'[p].time, stage |-> slot'[p].stage]
  <2>1. slot'[p] = [time |-> Less(slot[p].time), stage |-> Less(slot[p].stage)]
    BY DEF Tick
  <2> QED
    BY <2>1
<1>2. \A r \in Routers : scheduled'[r] = {d - 1 : d \in scheduled[r]}
  BY DEF Tick
<1>3. \A r \in Routers : 0 \notin scheduled[r] /\ scheduled[r] \subseteq Nat
  BY DEF Tick, WakingUp, Served, Shape
<1>4. awake' = {}
  BY DEF Tick
<1>5. ASSUME NEW p \in Ports
      PROVE  /\ slot[p] \in Delays
             /\ slot[p].time \in Int /\ slot[p].stage \in Int
             /\ slot[p] # EmptySlot => slot[p].time >= 0 /\ slot[p].stage >= 0
  BY DEF Shape, Delays
<1>6. ASSUME NEW p \in Ports PROVE slot'[p] \in Delays /\ (slot[p] = EmptySlot <=> slot'[p] = EmptySlot)
  <2>1. /\ slot'[p].time = Less(slot[p].time) /\ slot'[p].stage = Less(slot[p].stage)
        /\ slot'[p] = [time |-> slot'[p].time, stage |-> slot'[p].stage]
    BY <1>1
  <2>2. CASE slot[p] = EmptySlot
    <3>1. slot[p].time = -1 /\ slot[p].stage = -1
      BY <2>2 DEF EmptySlot
    <3>2. slot'[p].time = -1 /\ slot'[p].stage = -1
      BY <2>1, <3>1
    <3> QED
      BY <2>1, <2>2, <3>2 DEF Delays, EmptySlot
  <2>3. CASE slot[p] # EmptySlot
    <3>1. slot[p].time \in Nat /\ slot[p].stage \in Nat
      BY <1>5, <2>3
    <3>2. slot'[p].time \in Nat /\ slot'[p].stage \in Nat
      BY <2>1, <3>1
    <3> QED
      BY <2>1, <2>3, <3>2 DEF Delays, EmptySlot
  <2> QED
    BY <2>2, <2>3
<1>7. Shape'
  <2>1. slot' \in [Ports -> Delays]
    BY <1>6 DEF Tick
  <2>2. scheduled' \in [Routers -> SUBSET Nat]
    BY <1>3 DEF Tick
  <2> QED
    BY <2>1, <2>2, Zenon DEF Tick, Shape
<1>8. Served'
  BY <1>4 DEF Served
<1>9. StageBound'
  <2> SUFFICES ASSUME NEW p \in Ports, slot'[p].stage > 0
               PROVE  slot'[p].stage <= PipeStages - 2
    BY <1>4 DEF StageBound
  <2>1. slot[p].stage \in Int /\ slot'[p].stage = Less(slot[p].stage)
    BY <1>1, <1>5, Zenon
  <2> QED
    BY <2>1 DEF StageBound
<1>10. ASSUME NEW p \in Ports, slot'[p] # EmptySlot
       PROVE  Cover(slot[p], p[1])'
  <2>1. slot[p] # EmptySlot /\ Cover(slot[p], p[1]) /\ p[1] \in Routers
    BY <1>6, <1>10, Zenon DEF Covered, Ports
  <2>2. ReadyIn(slot[p]) \in Nat /\ ReadyIn(slot'[p]) = Less(ReadyIn(slot[p]))
    <3>1. slot[p].time \in Nat /\ slot[p].stage \in Nat
      BY <1>5, <2>1
    <3>2. slot'[p].time = Less(slot[p].time) /\ slot'[p].stage = Less(slot[p].stage)
      BY <1>1, Zenon
    <3> QED
      BY ONLY <3>1, <3>2 DEF ReadyIn
  <2>3. \A d \in scheduled[p[1]] : d - 1 \in scheduled'[p[1]]
    BY <1>2, <2>1
  <2>4. CASE ReadyIn(slot[p]) = 0
    BY <1>3, <2>1, <2>2, <2>3, <2>4 DEF Cover
  <2>5. CASE ReadyIn(slot[p]) > 0
    BY <1>3, <2>1, <2>2, <2>3, <2>5 DEF Cover
  <2> QED
    BY <2>2, <2>4, <2>5
<1> QED
  BY <1>7, <1>8, <1>9, <1>10, Zenon DEF Covered

\* With a router latency of at most five, no flit that is ready for switch
\* allocation is in a router that sleeps: the two cycles of move_inter_bubble
\* and the one of check_for_wakeup reach its SA stage.
THEOREM AwakeInTime ==
    ASSUME PipeStages <= 5
    PROVE  WakeupSpec => []AwakeForSA
<1>1. WakeupInv /\ [WakeupNext]_wakeupVars => WakeupInv'
  <2> SUFFICES ASSUME WakeupInv, [WakeupNext]_wakeupVars PROVE WakeupInv'
    OBVIOUS
  <2>1. CASE WakeupNext
    BY <2>1, InvLink, InvIntra, InvInter, InvWakeup, InvTick, Zenon DEF WakeupNext
  <2>2. CASE UNCHANGED wakeupVars
    BY <2>2 DEF wakeupVars, WakeupInv, Shape, Served, StageBound, Covered, Cover
  <2> QED
    BY <2>1, <2>2
<1> QED
  BY <1>1, InvInit, InvImplies, PTL DEF WakeupSpec
-----------------------------------------------------------------------------
\* Every set of numbers has a least one.
LEMMA LeastNumber ==
    ASSUME NEW S, S \subseteq Nat, S # {}
    PROVE  \E m \in S : \A k \in S : m <= k
<1>1. IsWellFoundedOn(OpToRel(<, Nat), Nat)
  BY NatLessThanWellFounded, Zenon
<1>2. PICK m \in S : \A k \in S : ~(<<k, m>> \in OpToRel(<, Nat))
  BY <1>1, WFMin, Zenon
<1>3. \A k \in S : ~(k < m)
  BY <1>2, Zenon DEF OpToRel
<1> QED BY <1>3

\* The remainder of a number less than n away from 0.
LEMMA SmallMod ==
    ASSUME NEW n \in Nat \ {0}, NEW a \in Int
    PROVE  /\ a % n \in 0 .. (n - 1)
           /\ a \in 0 .. (n - 1) => a % n = a
           /\ -n <= a /\ a < 0 => a % n = a + n
           /\ a = n => a % n = 0
<1> DEFINE q == a \div n
           r == a % n
<1>1. q \in Int /\ r \in 0 .. (n - 1) /\ a = (q * n) + r
  OBVIOUS
<1> HIDE DEF q, r
<1>2. CASE q = 0
  <2>1. a = r
    BY <1>1, <1>2
  <2> QED BY <1>1, <2>1 DEF r
<1>3. CASE q = -1
  <2>1. a = r - n
    BY <1>1, <1>3
  <2> QED BY <1>1, <2>1 DEF r
<1>4. CASE q = 1
  <2>1. a = r + n
    BY <1>1, <1>4
  <2> QED BY <1>1, <2>1 DEF r
<1>5. CASE q >= 2
  <2>1. q * n >= 2 * n
    BY <1>1, <1>5
  <2> QED BY <1>1, <2>1 DEF r
<1>6. CASE q <= -2
  <2>1. q * n <= -(2 * n)
    BY <1>1, <1>6
  <2> QED BY <1>1, <2>1 DEF r
<1>7. q = 0 \/ q = -1 \/ q = 1 \/ q >= 2 \/ q <= -2
  BY ONLY <1>1
<1> QED BY <1>2, <1>3, <1>4, <1>5, <1>6, <1>7, Zenon

\* The distance from one number below n to another, counting round.
LEMMA RoundDistance ==
    ASSUME NEW n \in Nat \ {0}, NEW x \in 0 .. (n - 1), NEW y \in 0 .. (n - 1)
    PROVE  /\ (x - y) % n = IF x >= y THEN x - y ELSE (x - y) + n
           /\ (x - y) % n \in 0 .. (n - 1)
<1> DEFINE a == x - y
<1>1. a \in Int /\ (x >= y => a \in 0 .. (n - 1)) /\ (~(x >= y) => -n <= a /\ a < 0)
  OBVIOUS
<1> HIDE DEF a
<1>2. a % n \in 0 .. (n - 1)
  BY <1>1, SmallMod, Zenon
<1>3. x >= y => a % n = a
  BY <1>1, SmallMod, Zenon
<1>4. ~(x >= y) => a % n = a + n
  BY <1>1, SmallMod, Zenon
<1>5. a % n = IF x >= y THEN a ELSE a + n
  BY <1>3, <1>4, Zenon
<1> QED BY <1>2, <1>5, Zenon DEF a

\* The number behind another one, counting round.
LEMMA RoundNext ==
    ASSUME NEW n \in Nat \ {0}, NEW g \in 0 .. (n - 1)
    PROVE  /\ (g + 1) % n \in 0 .. (n - 1)
           /\ (g + 1) % n = IF g = n - 1 THEN 0 ELSE g + 1
<1> DEFINE a == g + 1
<1>1. a \in Int /\ (g = n - 1 => a = n) /\ (g # n - 1 => a \in 0 .. (n - 1))
  OBVIOUS
<1> HIDE DEF a
<1>2. a % n \in 0 .. (n - 1)
  BY <1>1, SmallMod, Zenon
<1>3. (g = n - 1 => a % n = 0) /\ (g # n - 1 => a % n = a)
  BY <1>1, SmallMod, Zenon
<1>4. a % n = IF g = n - 1 THEN 0 ELSE a
  BY <1>3, Zenon
<1> QED BY <1>2, <1>4, Zenon DEF a

\* When g is granted before i, counting round from p, the next search starts
\* behind g and nearer to i.
LEMMA RoundRobin ==
    ASSUME NEW n \in Nat \ {0}, NEW inp \in 0 .. (n - 1), NEW p \in 0 .. (n - 1),
           NEW g \in 0 .. (n - 1), g # inp, (g - p) % n <= (inp - p) % n
    PROVE  (inp - ((g + 1) % n)) % n < (inp - p) % n
<1> DEFINE s == (g + 1) % n
<1>1. s \in 0 .. (n - 1) /\ s = IF g = n - 1 THEN 0 ELSE g + 1
  BY RoundNext, Zenon
<1>2. (g - p) % n = IF g >= p THEN g - p ELSE (g - p) + n
  BY RoundDistance, Zenon
<1>3. (inp - p) % n = IF inp >= p THEN inp - p ELSE (inp - p) + n
  BY RoundDistance, Zenon
<1> HIDE DEF s
<1>4. (inp - s) % n = IF inp >= s THEN inp - s ELSE (inp - s) + n
  <2>1. s \in 0 .. (n - 1)
    BY <1>1
  <2> QED BY <2>1, RoundDistance, Zenon
<1> DEFINE gp == (g - p) % n
           ip == (inp - p) % n
           is == (inp - s) % n
<1>5. gp <= ip
  OBVIOUS
<1> HIDE DEF gp, ip, is
<1>6. is < ip
  BY <1>1, <1>2, <1>3, <1>4, <1>5 DEF gp, ip, is
<1> QED BY <1>6 DEF s, is, ip

\* A search that counts round finds something unless there is nothing.
LEMMA FirstFound ==
    ASSUME NEW n \in Nat \ {0}, NEW S, S \subseteq 0 .. (n - 1), S # {}, NEW p \in 0 .. (n - 1)
    PROVE  FirstFrom(p, S, n) # {}
<1> DEFINE F(x) == (x - p) % n
           D == {F(x) : x \in S}
<1>1. \A x \in S : F(x) \in Nat
  <2> SUFFICES ASSUME NEW x \in 0 .. (n - 1) PROVE F(x) \in Nat
    OBVIOUS
  <2>1. (x - p) % n \in 0 .. (n - 1)
    BY RoundDistance, Zenon
  <2> DEFINE y == (x - p) % n
  <2> HIDE DEF y
  <2>2. y \in Nat
    BY <2>1 DEF y
  <2> QED BY <2>2, Zenon DEF y
<1>2. FirstFrom(p, S, n) = {x \in S : \A y \in S : F(x) <= F(y)}
  BY Zenon DEF FirstFrom
<1> HIDE DEF F
<1>3. D \subseteq Nat /\ D # {}
  BY <1>1, Zenon
<1>4. PICK m \in D : \A k \in D : m <= k
  <2> HIDE DEF D
  <2> QED BY <1>3, LeastNumber, Zenon
<1>5. PICK x \in S : m = F(x)
  OBVIOUS
<1>6. \A y \in S : F(x) <= F(y)
  BY <1>4, <1>5
<1> QED BY <1>2, <1>5, <1>6

\* The losses of an inport in a row and its distance from the pointer of the
\* outport stay below the number of inports: every loss brings the pointer
\* nearer.
AllocInv ==
    /\ round_robin_inport \in [Outports -> InUnits]
    /\ lost \in [InUnits -> [Outports -> Nat]]
    /\ \A inp \in InUnits, o \in Outports :
          lost[inp][o] + ((inp - round_robin_inport[o]) % NumInports) < NumInports

\* arbitrate_outports grants an outport to one of the inports that request it.
LEMMA GrantedFacts ==
    ASSUME AllocInv, NEW o \in Outports
    PROVE  /\ Granted(o) \subseteq Requesters(o) /\ Requesters(o) \subseteq InUnits
           /\ Requesters(o) # {} => Granted(o) # {}
           /\ \A g \in Granted(o) : \A inp \in Requesters(o) :
                 (g - round_robin_inport[o]) % NumInports <= (inp - round_robin_inport[o]) % NumInports
<1>1. NumInports \in Nat \ {0} /\ round_robin_inport[o] \in InUnits
  BY AllocatorAssumption DEF AllocInv
<1>2. Requesters(o) \subseteq InUnits
  BY DEF Requesters
<1>3. Requesters(o) # {} => Granted(o) # {}
  BY <1>1, <1>2, FirstFound, Zenon DEF Granted, InUnits
<1>4. Granted(o) \subseteq Requesters(o)
  BY DEF Granted, FirstFrom
<1>5. \A g \in Granted(o) : \A inp \in Requesters(o) :
         (g - round_robin_inport[o]) % NumInports <= (inp - round_robin_inport[o]) % NumInports
  BY DEF Granted, FirstFrom
<1> QED BY <1>2, <1>3, <1>4, <1>5

\* A cycle of the allocator.
LEMMA AllocWakeup ==
    ASSUME AllocInv, wakeup
    PROVE  AllocInv'
<1> DEFINE next(o) == IF Granted(o) = {} THEN round_robin_inport[o]
                      ELSE ((CHOOSE inp \in Granted(o) : TRUE) + 1) % NumInports
           losses(inp, o) == IF inp \in Requesters(o) \ Granted(o) THEN lost[inp][o] + 1 ELSE 0
<1>1. /\ round_robin_inport' = [o \in Outports |-> next(o)]
      /\ lost' = [inp \in InUnits |-> [o \in Outports |-> losses(inp, o)]]
  BY Zenon DEF wakeup
<1>2. NumInports \in Nat \ {0}
  BY AllocatorAssumption, Zenon
<1>3. ASSUME NEW o \in Outports
      PROVE  /\ next(o) \in InUnits
             /\ \A inp \in InUnits :
                   /\ losses(inp, o) \in Nat
                   /\ losses(inp, o) + ((inp - next(o)) % NumInports) < NumInports
  <2>1. round_robin_inport[o] \in InUnits /\ \A inp \in InUnits : lost[inp][o] \in Nat
    BY DEF AllocInv
  <2>2. CASE Granted(o) = {}
    <3>1. Requesters(o) = {}
      BY <2>2, GrantedFacts
    <3>2. next(o) = round_robin_inport[o] /\ \A inp \in InUnits : losses(inp, o) = 0
      BY <2>2, <3>1
    <3>3. \A inp \in InUnits : (inp - next(o)) % NumInports \in 0 .. (NumInports - 1)
      BY <1>2, <2>1, <3>2, RoundDistance, Zenon DEF InUnits
    <3> HIDE DEF next, losses
    <3> QED BY <1>2, <2>1, <3>2, <3>3
  <2>3. CASE Granted(o) # {}
    <3> DEFINE g == CHOOSE inp \in Granted(o) : TRUE
    <3>1. g \in Granted(o)
      BY <2>3
    <3>2. g \in InUnits /\ next(o) = (g + 1) % NumInports
      BY <2>3, <3>1, GrantedFacts
    <3> HIDE DEF g
    <3>3. next(o) \in InUnits
      BY <1>2, <3>2, RoundNext, Zenon DEF InUnits
    <3>4. ASSUME NEW inp \in InUnits, inp \in Requesters(o) \ Granted(o)
          PROVE  losses(inp, o) \in Nat /\ losses(inp, o) + ((inp - next(o)) % NumInports) < NumInports
      <4>1. losses(inp, o) = lost[inp][o] + 1 /\ lost[inp][o] \in Nat
        BY <2>1, <3>4, Zenon
      <4>2. (g - round_robin_inport[o]) % NumInports <= (inp - round_robin_inport[o]) % NumInports
        BY <3>1, <3>4, GrantedFacts
      <4>3. (inp - next(o)) % NumInports < (inp - round_robin_inport[o]) % NumInports
        BY <1>2, <2>1, <3>1, <3>2, <3>4, <4>2, RoundRobin, Zenon DEF InUnits
      <4>4. lost[inp][o] + ((inp - round_robin_inport[o]) % NumInports) < NumInports
        BY DEF AllocInv
      <4>5. /\ (inp - next(o)) % NumInports \in Int
            /\ (inp - round_robin_inport[o]) % NumInports \in Int
        <5>1. /\ (inp - next(o)) % NumInports \in 0 .. (NumInports - 1)
              /\ (inp - round_robin_inport[o]) % NumInports \in 0 .. (NumInports - 1)
          BY <1>2, <2>1, <3>3, RoundDistance, Zenon DEF InUnits
        <5> QED BY <5>1
      <4> HIDE DEF losses, next
      <4> QED BY <1>2, <4>1, <4>3, <4>4, <4>5
    <3>5. ASSUME NEW inp \in InUnits, inp \notin Requesters(o) \ Granted(o)
          PROVE  losses(inp, o) \in Nat /\ losses(inp, o) + ((inp - next(o)) % NumInports) < NumInports
      <4>1. losses(inp, o) = 0
        BY <3>5
      <4>2. (inp - next(o)) % NumInports \in 0 .. (NumInports - 1)
        BY <1>2, <3>3, RoundDistance, Zenon DEF InUnits
      <4> HIDE DEF losses, next
      <4> QED BY <1>2, <4>1, <4>2
    <3> HIDE DEF losses, next
    <3> QED BY <3>3, <3>4, <3>5
  <2> QED BY <2>2, <2>3
<1> HIDE DEF losses, next
<1> QED BY <1>1, <1>3 DEF AllocInv

\* Initially nothing is lost, and the other steps leave both alone.
LEMMA AllocSteps ==
    /\ Init => AllocInv
    /\ AllocInv /\ [Next]_vars => AllocInv'
<1>1. ASSUME Init PROVE AllocInv
  <2>1. NumInports \in Nat \ {0} /\ 0 \in InUnits
    BY AllocatorAssumption DEF InUnits
  <2>2. \A inp \in InUnits : (inp - 0) % NumInports \in 0 .. (NumInports - 1)
    BY <2>1, RoundDistance, Zenon DEF InUnits
  <2> DEFINE D(inp) == (inp - 0) % NumInports
  <2>3. /\ round_robin_inport = [o \in Outports |-> 0]
        /\ lost = [inp \in InUnits |-> [o \in Outports |-> 0]]
    BY <1>1 DEF Init
  <2>4. \A inp \in InUnits, o \in Outports : round_robin_inport[o] = 0 /\ lost[inp][o] = 0
    BY <2>3
  <2>5. \A inp \in InUnits : D(inp) \in 0 .. (NumInports - 1)
    BY <2>2, Zenon
  <2> HIDE DEF D
  <2>6. \A inp \in InUnits : 0 + D(inp) < NumInports
    BY <2>1, <2>5
  <2>7. \A inp \in InUnits, o \in Outports :
           lost[inp][o] + ((inp - round_robin_inport[o]) % NumInports) < NumInports
    BY <2>4, <2>6, Zenon DEF D
  <2> QED BY <2>1, <2>3, <2>7 DEF AllocInv
<1>2. ASSUME AllocInv, UNCHANGED <<round_robin_inport, lost>> PROVE AllocInv'
  BY <1>2 DEF AllocInv
<1>3. ASSUME AllocInv, [Next]_vars PROVE AllocInv'
  <2>1. CASE wakeup
    BY <1>3, <2>1, AllocWakeup
  <2>2. ASSUME NEW inp \in InUnits, NEW v \in VCs, NEW o \in Outports, arrive(inp, v, o)
        PROVE  AllocInv'
    BY <1>2, <1>3, <2>2 DEF arrive, allocVars
  <2>3. ASSUME NEW o \in Outports, NEW n \in Vnets, credit_arrives(o, n)
        PROVE  AllocInv'
    BY <1>2, <1>3, <2>3, Zenon DEF credit_arrives
  <2>4. ASSUME NEW inp \in InUnits, bubble_moves(inp) \/ bubble_enters(inp)
        PROVE  AllocInv'
    BY <1>2, <1>3, <2>4 DEF bubble_moves, bubble_enters, allocVars
  <2>5. ASSUME NEW o \in Outports, bubble_leaves(o)
        PROVE  AllocInv'
    BY <1>2, <1>3, <2>5 DEF bubble_leaves, allocVars
  <2>6. CASE UNCHANGED vars
    BY <1>2, <1>3, <2>6 DEF vars
  <2> QED BY <1>3, <2>1, <2>2, <2>3, <2>4, <2>5, <2>6 DEF Next
<1> QED BY <1>1, <1>3

\* arbitrate_outports is fair for any number of ports: an inport that keeps
\* requesting an outport is granted it after at most as many losses as there
\* are other inports, bubbles or not.
THEOREM LosesFewTimes == Spec => []LosesOnceToEach
<1>1. AllocInv => LosesOnceToEach
  <2> SUFFICES ASSUME AllocInv, NEW inp \in InUnits, NEW o \in Outports
               PROVE  lost[inp][o] < NumInports
    BY DEF AllocInv, LosesOnceToEach
  <2>1. NumInports \in Nat \ {0} /\ round_robin_inport[o] \in InUnits /\ lost[inp][o] \in Nat
    BY AllocatorAssumption DEF AllocInv
  <2>2. (inp - round_robin_inport[o]) % NumInports \in 0 .. (NumInports - 1)
    BY <2>1, RoundDistance, Zenon DEF InUnits
  <2>3. lost[inp][o] + ((inp - round_robin_inport[o]) % NumInports) < NumInports
    BY DEF AllocInv
  <2> DEFINE d == (inp - round_robin_inport[o]) % NumInports
  <2>4. d \in 0 .. (NumInports - 1) /\ lost[inp][o] + d < NumInports
    BY <2>2, <2>3
  <2> HIDE DEF d
  <2> QED BY <2>1, <2>4
<1> QED BY <1>1, AllocSteps, PTL DEF Spec
-----------------------------------------------------------------------------
\* Without bubbles a VC keeps the time and the output port of its flit.
TimesRight == arrived = enqueue_time /\ outport = flit

\* It is invariant, as only exchanges with a bubble move flits alone.
LEMMA TimesKept ==
    ASSUME Bubble = FALSE
    PROVE  /\ Init => TimesRight
           /\ TimesRight /\ [Next]_vars => TimesRight'
<1>1. ASSUME Init PROVE TimesRight
  BY <1>1 DEF Init, TimesRight
<1>2. ASSUME TimesRight, [Next]_vars PROVE TimesRight'
  <2>1. CASE wakeup
    BY <1>2, <2>1, Zenon DEF wakeup, TimesRight
  <2>2. ASSUME NEW inp \in InUnits, NEW v \in VCs, NEW o \in Outports, arrive(inp, v, o)
        PROVE  TimesRight'
    BY <1>2, <2>2, Zenon DEF arrive, TimesRight
  <2>3. ASSUME NEW o \in Outports, NEW n \in Vnets, credit_arrives(o, n)
        PROVE  TimesRight'
    BY <1>2, <2>3 DEF credit_arrives, vcVars, TimesRight
  <2>4. \A inp \in InUnits : ~(bubble_moves(inp) \/ bubble_enters(inp))
    BY DEF bubble_moves, bubble_enters, BubbleTime
  <2>5. \A o \in Outports : ~bubble_leaves(o)
    BY DEF bubble_leaves, BubbleTime
  <2>6. CASE UNCHANGED vars
    BY <1>2, <2>6 DEF vars, TimesRight
  <2> QED BY <1>2, <2>1, <2>2, <2>3, <2>4, <2>5, <2>6 DEF Next
<1> QED BY <1>1, <1>2

\* send_allowed keeps the order of ordered vnets, for any ports, VCs and
\* vnets: no flit leaves an input port before one that arrived there earlier
\* and is ready for the same output port.  Bubbles are excluded, as insertFlit
\* leaves a flit the time of the VC it is put into.
THEOREM OrderIsKept ==
    ASSUME Bubble = FALSE
    PROVE  Spec => [][KeepsOrder]_vars
<1>1. TimesRight => KeepsOrder
  <2> SUFFICES ASSUME TimesRight, NEW inp \in InUnits, NEW v \in VCs, NEW u \in VCs,
                      Sent(inp, v), get_vnet(v) \in Ordered, get_vnet(u) = get_vnet(v),
                      need_stage(inp, u), flit[inp][u] = flit[inp][v]
               PROVE  ~(arrived[inp][u] < arrived[inp][v])
    BY Zenon DEF KeepsOrder
  <2>1. send_allowed(inp, v)
    BY DEF Sent, Requests, FirstFrom
  <2> QED BY <2>1, Zenon DEF send_allowed, TimesRight
<1> QED BY <1>1, TimesKept, PTL DEF Spec
-----------------------------------------------------------------------------
\* A number is its quotient times the divisor and the remainder.
LEMMA DivMod ==
    ASSUME NEW n \in Nat \ {0}, NEW r \in Nat
    PROVE  r \div n \in Nat /\ r % n \in 0 .. (n - 1) /\ r = ((r \div n) * n) + (r % n)
OBVIOUS

\* There is no other quotient and remainder.
LEMMA DivModUnique ==
    ASSUME NEW n \in Nat \ {0}, NEW q \in Nat, NEW m \in 0 .. (n - 1)
    PROVE  ((q * n) + m) \div n = q /\ ((q * n) + m) % n = m
OBVIOUS

\* Routers are numbered row by row.
LEMMA RouterFacts ==
    ASSUME NEW r \in MeshRouters
    PROVE  /\ r \in Nat
           /\ Row(r) \in 0 .. (NumRows - 1) /\ Col(r) \in 0 .. (NumCols - 1)
           /\ r = (Row(r) * NumCols) + Col(r)
<1>1. NumRows \in Nat \ {0} /\ NumCols \in Nat \ {0}
  BY MeshAssumption
<1>2. r \in Nat /\ r < NumRows * NumCols
  BY <1>1 DEF MeshRouters
<1>3. Row(r) \in Nat /\ Col(r) \in 0 .. (NumCols - 1) /\ r = (Row(r) * NumCols) + Col(r)
  BY <1>1, <1>2, DivMod, Zenon DEF Row, Col
<1>4. Row(r) < NumRows
  BY <1>1, <1>2, <1>3
<1> QED BY <1>1, <1>2, <1>3, <1>4

\* Every place of the grid is that of a router.
LEMMA PlaceFacts ==
    ASSUME NEW y \in 0 .. (NumRows - 1), NEW x \in 0 .. (NumCols - 1),
           NEW r, r = (y * NumCols) + x
    PROVE  r \in MeshRouters /\ Row(r) = y /\ Col(r) = x
<1>1. NumRows \in Nat \ {0} /\ NumCols \in Nat \ {0}
  BY MeshAssumption
<1>2. Row(r) = y /\ Col(r) = x
  BY <1>1, DivModUnique DEF Row, Col
<1>3. y * NumCols <= (NumRows - 1) * NumCols
  BY <1>1
<1> QED BY <1>1, <1>2, <1>3 DEF MeshRouters

\* The links of a router, direction by direction.
LEMMA LinkCases ==
    ASSUME NEW r
    PROVE  /\ HasLink(r, "East") <=> Col(r) + 1 < NumCols
           /\ HasLink(r, "West") <=> Col(r) > 0
           /\ HasLink(r, "North") <=> Row(r) + 1 < NumRows
           /\ HasLink(r, "South") <=> Row(r) > 0
           /\ RouterInDirn(r, "East") = r + 1 /\ RouterInDirn(r, "West") = r - 1
           /\ RouterInDirn(r, "North") = r + NumCols /\ RouterInDirn(r, "South") = r - NumCols
BY Zenon DEF HasLink, RouterInDirn

\* The router at the other end of a link.
LEMMA NeighbourFacts ==
    ASSUME NEW r \in MeshRouters, NEW dirn \in Directions, HasLink(r, dirn),
           NEW q, q = RouterInDirn(r, dirn)
    PROVE  /\ q \in MeshRouters /\ <<r, q>> \in MeshLinks
           /\ Col(q) = IF dirn = "East" THEN Col(r) + 1 ELSE IF dirn = "West" THEN Col(r) - 1 ELSE Col(r)
           /\ Row(q) = IF dirn = "North" THEN Row(r) + 1 ELSE IF dirn = "South" THEN Row(r) - 1 ELSE Row(r)
<1> DEFINE x == IF dirn = "East" THEN Col(r) + 1 ELSE IF dirn = "West" THEN Col(r) - 1 ELSE Col(r)
           y == IF dirn = "North" THEN Row(r) + 1 ELSE IF dirn = "South" THEN Row(r) - 1 ELSE Row(r)
<1>1. NumRows \in Nat \ {0} /\ NumCols \in Nat \ {0}
  BY MeshAssumption
<1>2. /\ Row(r) \in 0 .. (NumRows - 1) /\ Col(r) \in 0 .. (NumCols - 1)
      /\ r = (Row(r) * NumCols) + Col(r)
  BY RouterFacts, Zenon
<1>3. x \in 0 .. (NumCols - 1) /\ y \in 0 .. (NumRows - 1) /\ q = (y * NumCols) + x
  BY <1>1, <1>2, LinkCases DEF Directions
<1>4. q \in MeshRouters /\ Row(q) = y /\ Col(q) = x
  BY <1>3, PlaceFacts, Zenon
<1>5. <<r, q>> \in MeshLinks
  <2>1. <<r, dirn>> \in {p \in MeshRouters \X Directions : HasLink(p[1], p[2])}
    OBVIOUS
  <2> QED BY <2>1 DEF MeshLinks
<1> QED BY <1>4, <1>5
-----------------------------------------------------------------------------
\* The weights of the links: in Mesh_XY.py those of a row are lighter, in
\* Mesh_westfirst.py those to the west.
LEMMA WeightCases ==
    ASSUME topology \in Topologies
    PROVE  /\ topology = "Mesh_XY" => /\ Weight("East") = 1 /\ Weight("West") = 1
                                      /\ Weight("North") = 2 /\ Weight("South") = 2
           /\ topology = "Mesh_westfirst" => /\ Weight("East") = 2 /\ Weight("West") = 1
                                             /\ Weight("North") = 2 /\ Weight("South") = 2
           /\ topology = "Mesh_XY" \/ topology = "Mesh_westfirst"
BY Zenon DEF Weight, Topologies

\* The weight of a path along the row and the column.
PathWeight(r, d) == x_hops(r, d) * Weight(x_dirn(r, d)) + y_hops(r, d) * Weight(y_dirn(r, d))

\* The directions that lead towards d.
Towards(r, d) ==
    {dirn \in Directions : \/ dirn = x_dirn(r, d) /\ x_hops(r, d) > 0
                           \/ dirn = y_dirn(r, d) /\ y_hops(r, d) > 0}

\* Hops are numbers, and a router is no hops from itself only.
LEMMA HopFacts ==
    ASSUME NEW r \in MeshRouters, NEW d \in MeshRouters
    PROVE  /\ x_hops(r, d) \in Nat /\ y_hops(r, d) \in Nat
           /\ x_dirn(r, d) \in {"East", "West"} /\ y_dirn(r, d) \in {"North", "South"}
           /\ r = d <=> x_hops(r, d) = 0 /\ y_hops(r, d) = 0
           /\ x_hops(r, d) = 0 => x_dirn(r, d) = "East"
<1>1. NumCols \in Nat \ {0}
  BY MeshAssumption
<1>2. /\ Row(r) \in Nat /\ Col(r) \in Nat /\ r = (Row(r) * NumCols) + Col(r)
      /\ Row(d) \in Nat /\ Col(d) \in Nat /\ d = (Row(d) * NumCols) + Col(d)
  BY RouterFacts
<1>3. /\ x_hops(r, d) \in Nat /\ y_hops(r, d) \in Nat
      /\ x_hops(r, d) = 0 <=> Col(r) = Col(d)
      /\ y_hops(r, d) = 0 <=> Row(r) = Row(d)
      /\ x_dirn(r, d) \in {"East", "West"} /\ y_dirn(r, d) \in {"North", "South"}
      /\ x_hops(r, d) = 0 => x_dirn(r, d) = "East"
  BY <1>2 DEF x_hops, y_hops, x_dirn, y_dirn, Abs
<1>4. r = d <=> Col(r) = Col(d) /\ Row(r) = Row(d)
  BY <1>1, <1>2, Zenon
<1> QED BY <1>3, <1>4

\* A hop towards d exists, and brings the flit one hop nearer.
LEMMA TowardsFacts ==
    ASSUME NEW r \in MeshRouters, NEW d \in MeshRouters, NEW dirn \in Towards(r, d),
           NEW q, q = RouterInDirn(r, dirn)
    PROVE  /\ HasLink(r, dirn) /\ q \in MeshRouters /\ <<r, q>> \in MeshLinks
           /\ Distance(q, d) = Distance(r, d) - 1 /\ Distance(q, d) \in Nat
<1>1. /\ Row(r) \in 0 .. (NumRows - 1) /\ Col(r) \in 0 .. (NumCols - 1)
      /\ Row(d) \in 0 .. (NumRows - 1) /\ Col(d) \in 0 .. (NumCols - 1)
  BY RouterFacts
<1>2. dirn \in Directions /\ NumRows \in Nat /\ NumCols \in Nat
  BY MeshAssumption, Zenon DEF Towards
<1>3. HasLink(r, dirn)
  BY <1>1, <1>2, LinkCases DEF Towards, x_hops, y_hops, x_dirn, y_dirn, Abs
<1>4. /\ q \in MeshRouters /\ <<r, q>> \in MeshLinks
      /\ Col(q) = IF dirn = "East" THEN Col(r) + 1 ELSE IF dirn = "West" THEN Col(r) - 1 ELSE Col(r)
      /\ Row(q) = IF dirn = "North" THEN Row(r) + 1 ELSE IF dirn = "South" THEN Row(r) - 1 ELSE Row(r)
  BY <1>2, <1>3, NeighbourFacts, Zenon
<1>5. Distance(q, d) = Distance(r, d) - 1 /\ Distance(q, d) \in Nat
  BY <1>1, <1>2, <1>4 DEF Distance, Directions, Towards, x_hops, y_hops, x_dirn, y_dirn, Abs
<1> QED BY <1>3, <1>4, <1>5

\* What remains of the row after a hop.
LEMMA TowardsTurns ==
    ASSUME NEW r \in MeshRouters, NEW d \in MeshRouters, NEW dirn \in Towards(r, d),
           NEW q, q = RouterInDirn(r, dirn)
    PROVE  /\ q \in MeshRouters
           /\ dirn \in {"North", "South"} =>
                x_hops(q, d) = x_hops(r, d) /\ x_dirn(q, d) = x_dirn(r, d)
           /\ dirn \in {"East", "West"} => (x_hops(q, d) > 0 => x_dirn(q, d) = dirn)
<1>1. Col(r) \in Int /\ Col(d) \in Int
  BY RouterFacts, MeshAssumption
<1>2. dirn \in Directions /\ HasLink(r, dirn)
  BY TowardsFacts, Zenon DEF Towards
<1>3. /\ q \in MeshRouters
      /\ Col(q) = IF dirn = "East" THEN Col(r) + 1 ELSE IF dirn = "West" THEN Col(r) - 1 ELSE Col(r)
  BY <1>2, NeighbourFacts, Zenon
<1> QED BY <1>1, <1>2, <1>3 DEF Directions, Towards, x_hops, y_hops, x_dirn, y_dirn, Abs

\* Before the destination some direction leads towards it.
LEMMA SomeTowards ==
    ASSUME NEW r \in MeshRouters, NEW d \in MeshRouters, r # d
    PROVE  /\ x_hops(r, d) > 0 => x_dirn(r, d) \in Towards(r, d)
           /\ y_hops(r, d) > 0 => y_dirn(r, d) \in Towards(r, d)
           /\ x_hops(r, d) > 0 \/ y_hops(r, d) > 0
BY HopFacts DEF Towards, Directions

\* The direction-based algorithms only return directions that lead towards
\* the destination.
LEMMA AlgorithmsTowards ==
    ASSUME NEW r \in MeshRouters, NEW d \in MeshRouters, r # d
    PROVE  /\ outportComputeXY(r, d) \subseteq Towards(r, d)
           /\ outportComputeRandom(r, d) \subseteq Towards(r, d)
           /\ outportComputeWestFirst(r, d) \subseteq Towards(r, d)
<1>1. /\ x_hops(r, d) \in Nat /\ y_hops(r, d) \in Nat
      /\ x_hops(r, d) # 0 => x_hops(r, d) > 0
      /\ y_hops(r, d) # 0 => y_hops(r, d) > 0
  BY HopFacts
<1>2. /\ x_hops(r, d) # 0 => x_dirn(r, d) \in Towards(r, d)
      /\ y_hops(r, d) # 0 => y_dirn(r, d) \in Towards(r, d)
      /\ x_hops(r, d) # 0 \/ y_hops(r, d) # 0
      /\ x_hops(r, d) = 0 => x_dirn(r, d) # "West"
  BY <1>1, SomeTowards, HopFacts, Zenon
<1>3. outportComputeXY(r, d) \subseteq Towards(r, d)
  BY <1>1, <1>2 DEF outportComputeXY
<1>4. outportComputeRandom(r, d) \subseteq Towards(r, d)
  BY <1>2, Zenon DEF outportComputeRandom
<1>5. outportComputeWestFirst(r, d) \subseteq Towards(r, d)
  BY <1>2, Zenon DEF outportComputeWestFirst
<1> QED BY <1>3, <1>4, <1>5, Zenon
-----------------------------------------------------------------------------
\* The weight of a path, from the rows and the columns of its ends.
LEMMA PathWeightForm ==
    ASSUME topology \in Topologies, NEW r \in MeshRouters, NEW d \in MeshRouters
    PROVE  PathWeight(r, d) =
             IF Col(d) >= Col(r)
             THEN IF Row(d) >= Row(r)
                  THEN Weight("East") * (Col(d) - Col(r)) + 2 * (Row(d) - Row(r))
                  ELSE Weight("East") * (Col(d) - Col(r)) + 2 * (Row(r) - Row(d))
             ELSE IF Row(d) >= Row(r)
                  THEN (Col(r) - Col(d)) + 2 * (Row(d) - Row(r))
                  ELSE (Col(r) - Col(d)) + 2 * (Row(r) - Row(d))
<1>1. Row(r) \in Int /\ Col(r) \in Int /\ Row(d) \in Int /\ Col(d) \in Int
  BY RouterFacts, MeshAssumption
<1>2. /\ Weight("East") \in {1, 2} /\ Weight("West") = 1
      /\ Weight("North") = 2 /\ Weight("South") = 2
  BY WeightCases, Zenon
<1> QED BY <1>1, <1>2 DEF PathWeight, x_hops, y_hops, x_dirn, y_dirn, Abs

\* No detour undercuts the path along the row and the column.
LEMMA PathWeightTriangle ==
    ASSUME topology \in Topologies,
           NEW r \in MeshRouters, NEW k \in MeshRouters, NEW d \in MeshRouters
    PROVE  /\ PathWeight(r, d) \in Nat
           /\ PathWeight(r, d) <= PathWeight(r, k) + PathWeight(k, d)
           /\ PathWeight(r, d) <= 2 * (NumRows + NumCols)
           /\ PathWeight(r, r) = 0
<1>1. /\ Row(r) \in 0 .. (NumRows - 1) /\ Col(r) \in 0 .. (NumCols - 1)
      /\ Row(d) \in 0 .. (NumRows - 1) /\ Col(d) \in 0 .. (NumCols - 1)
      /\ Row(k) \in 0 .. (NumRows - 1) /\ Col(k) \in 0 .. (NumCols - 1)
  BY RouterFacts
<1>2. Weight("East") \in {1, 2} /\ NumRows \in Nat /\ NumCols \in Nat
  BY WeightCases, MeshAssumption
<1> QED BY <1>1, <1>2, PathWeightForm

\* A link is the shortest path between its ends.
LEMMA LinkPathWeight ==
    ASSUME topology \in Topologies,
           NEW r \in MeshRouters, NEW dirn \in Directions, HasLink(r, dirn)
    PROVE  PathWeight(r, RouterInDirn(r, dirn)) = Weight(dirn) /\ Weight(dirn) \in {1, 2}
<1> DEFINE q == RouterInDirn(r, dirn)
<1>1. Row(r) \in Int /\ Col(r) \in Int
  BY RouterFacts, MeshAssumption
<1>2. /\ q \in MeshRouters
      /\ Col(q) = IF dirn = "East" THEN Col(r) + 1 ELSE IF dirn = "West" THEN Col(r) - 1 ELSE Col(r)
      /\ Row(q) = IF dirn = "North" THEN Row(r) + 1 ELSE IF dirn = "South" THEN Row(r) - 1 ELSE Row(r)
  BY NeighbourFacts, Zenon
<1>3. /\ Weight("East") \in {1, 2} /\ Weight("West") = 1
      /\ Weight("North") = 2 /\ Weight("South") = 2
  BY WeightCases, Zenon
<1> HIDE DEF q
<1>4. PathWeight(r, q) = Weight(dirn) /\ Weight(dirn) \in {1, 2}
  BY <1>1, <1>2, <1>3, PathWeightForm DEF Directions
<1> QED BY <1>4 DEF q

\* A link is on a shortest path exactly when it leads towards the destination.
LEMMA ShortestTowards ==
    ASSUME topology \in Topologies,
           NEW r \in MeshRouters, NEW d \in MeshRouters, NEW dirn \in Directions, HasLink(r, dirn)
    PROVE  Weight(dirn) + PathWeight(RouterInDirn(r, dirn), d) = PathWeight(r, d) <=> dirn \in Towards(r, d)
<1> DEFINE q == RouterInDirn(r, dirn)
<1>1. Row(r) \in Int /\ Col(r) \in Int /\ Row(d) \in Int /\ Col(d) \in Int
  BY RouterFacts, MeshAssumption
<1>2. /\ q \in MeshRouters
      /\ Col(q) = IF dirn = "East" THEN Col(r) + 1 ELSE IF dirn = "West" THEN Col(r) - 1 ELSE Col(r)
      /\ Row(q) = IF dirn = "North" THEN Row(r) + 1 ELSE IF dirn = "South" THEN Row(r) - 1 ELSE Row(r)
  BY NeighbourFacts, Zenon
<1>3. /\ Weight("East") \in {1, 2} /\ Weight("West") = 1
      /\ Weight("North") = 2 /\ Weight("South") = 2
  BY WeightCases, Zenon
<1> HIDE DEF q
<1>4. dirn \in Towards(r, d) <=>
        \/ dirn = "East" /\ Col(d) > Col(r)
        \/ dirn = "West" /\ Col(d) < Col(r)
        \/ dirn = "North" /\ Row(d) > Row(r)
        \/ dirn = "South" /\ Row(d) < Row(r)
  BY <1>1 DEF Towards, Directions, x_dirn, y_dirn, x_hops, y_hops, Abs
<1>5. Weight(dirn) + PathWeight(q, d) = PathWeight(r, d) <=>
        \/ dirn = "East" /\ Col(d) > Col(r)
        \/ dirn = "West" /\ Col(d) < Col(r)
        \/ dirn = "North" /\ Row(d) > Row(r)
        \/ dirn = "South" /\ Row(d) < Row(r)
  BY <1>1, <1>2, <1>3, PathWeightForm DEF Directions
<1> QED BY <1>4, <1>5 DEF q

\* The least member of a set of numbers.
LEMMA MinFacts ==
    ASSUME NEW S, S \subseteq Nat, S # {}
    PROVE  Min(S) \in S /\ \A k \in S : Min(S) <= k
<1>1. \E m \in S : \A k \in S : m <= k
  BY LeastNumber, Zenon
<1> QED BY <1>1, Zenon DEF Min
-----------------------------------------------------------------------------
\* The pairs of routers the current pass has been through.
Passed(a, b) == a < i \/ (a = i /\ b < j)

\* The inductive invariant of the loops of extend_shortest_path: a distance is
\* at least that of the shortest path and at most that of a link, and a pass
\* that has changed nothing leaves no shorter way behind it.
TableInv ==
    /\ topology \in Topologies
    /\ current_dist \in [MeshRouters -> [MeshRouters -> Nat]]
    /\ i \in 0 .. (NumRows * NumCols) /\ j \in MeshRouters /\ change \in BOOLEAN
    /\ HasLinks => j = 0 /\ ~change
    /\ \A a, b \in MeshRouters : PathWeight(a, b) <= current_dist[a][b]
    /\ \A a \in MeshRouters : current_dist[a][a] = 0
    /\ \A a \in MeshRouters, dirn \in Directions :
          HasLink(a, dirn) => current_dist[a][RouterInDirn(a, dirn)] <= Weight(dirn)
    /\ ~change => \A a, b, k \in MeshRouters :
          Passed(a, b) => current_dist[a][b] <= current_dist[a][k] + current_dist[k][b]

\* INFINITE_LATENCY is no less than any distance of the mesh.
DistancesFit == 2 * (NumRows + NumCols) <= INFINITE_LATENCY

\* The weights of the links alone.
LEMMA TableInit ==
    ASSUME DistancesFit, TopologyInit
    PROVE  TableInv
<1> DEFINE W(a, b) == {INFINITE_LATENCY} \cup LinkWeights(a, b)
<1>0. NumRows \in Nat \ {0} /\ NumCols \in Nat \ {0} /\ topology \in Topologies
  BY MeshAssumption, Zenon DEF TopologyInit
<1>1. ASSUME NEW a \in MeshRouters, NEW b \in MeshRouters
      PROVE  /\ Min(W(a, b)) \in Nat
             /\ PathWeight(a, b) <= Min(W(a, b))
             /\ \A dirn \in Directions :
                  HasLink(a, dirn) /\ RouterInDirn(a, dirn) = b => Min(W(a, b)) <= Weight(dirn)
  <2>1. \A w \in LinkWeights(a, b) : w \in Nat /\ PathWeight(a, b) <= w
    <3> SUFFICES ASSUME NEW dirn \in Directions, HasLink(a, dirn), RouterInDirn(a, dirn) = b
                 PROVE  Weight(dirn) \in Nat /\ PathWeight(a, b) <= Weight(dirn)
      BY DEF LinkWeights
    <3> QED BY <1>0, LinkPathWeight
  <2>2. INFINITE_LATENCY \in Nat /\ PathWeight(a, b) <= INFINITE_LATENCY
    <3>1. PathWeight(a, b) \in Nat /\ PathWeight(a, b) <= 2 * (NumRows + NumCols)
      BY <1>0, PathWeightTriangle
    <3> QED BY <1>0, <3>1 DEF DistancesFit, INFINITE_LATENCY
  <2>3. W(a, b) \subseteq Nat /\ W(a, b) # {}
    BY <2>1, <2>2
  <2>4. Min(W(a, b)) \in W(a, b) /\ \A w \in W(a, b) : Min(W(a, b)) <= w
    BY <2>3, MinFacts
  <2>5. \A dirn \in Directions : HasLink(a, dirn) /\ RouterInDirn(a, dirn) = b => Weight(dirn) \in W(a, b)
    BY DEF LinkWeights
  <2> HIDE DEF W
  <2>6. Min(W(a, b)) \in Nat /\ PathWeight(a, b) <= Min(W(a, b))
    BY <2>1, <2>2, <2>4 DEF W
  <2> QED BY <2>4, <2>5, <2>6
<1>2. \A a, b \in MeshRouters : current_dist[a][b] = IF a = b THEN 0 ELSE Min(W(a, b))
  BY DEF TopologyInit, topology_weights
<1>3. current_dist \in [MeshRouters -> [MeshRouters -> Nat]]
  <2>1. topology_weights = [a \in MeshRouters |-> [b \in MeshRouters |-> IF a = b THEN 0 ELSE Min(W(a, b))]]
    BY DEF topology_weights
  <2>2. current_dist = topology_weights
    BY Zenon DEF TopologyInit
  <2> HIDE DEF W
  <2> QED BY <1>1, <2>1, <2>2
<1> HIDE DEF W
<1>4. \A a, b \in MeshRouters : PathWeight(a, b) <= current_dist[a][b]
  <2>1. \A a \in MeshRouters : PathWeight(a, a) = 0
    BY <1>0, PathWeightTriangle, Zenon
  <2> QED BY <1>1, <1>2, <2>1
<1>5. \A a \in MeshRouters, dirn \in Directions :
          HasLink(a, dirn) => current_dist[a][RouterInDirn(a, dirn)] <= Weight(dirn)
  <2> SUFFICES ASSUME NEW a \in MeshRouters, NEW dirn \in Directions, HasLink(a, dirn)
               PROVE  current_dist[a][RouterInDirn(a, dirn)] <= Weight(dirn)
    OBVIOUS
  <2>1. RouterInDirn(a, dirn) \in MeshRouters
    BY NeighbourFacts, Zenon
  <2>2. Weight(dirn) \in {1, 2}
    BY <1>0, LinkPathWeight
  <2> QED BY <1>1, <1>2, <2>1, <2>2
<1>6. i = 0 /\ j = 0 /\ change = FALSE /\ ~HasLinks /\ NumRows * NumCols > 0
  BY <1>0 DEF TopologyInit, HasLinks
<1>7. /\ i \in 0 .. (NumRows * NumCols) /\ j \in MeshRouters /\ change \in BOOLEAN
      /\ \A a, b \in MeshRouters : ~Passed(a, b)
  <2>1. NumRows * NumCols \in Nat
    BY <1>0
  <2>2. i \in 0 .. (NumRows * NumCols) /\ j \in MeshRouters
    BY <1>6, <2>1 DEF MeshRouters
  <2>3. \A a, b \in MeshRouters : ~Passed(a, b)
    BY <1>6, RouterFacts DEF Passed
  <2> QED BY <1>6, <2>2, <2>3, Zenon
<1>8. \A a \in MeshRouters : current_dist[a][a] = 0
  BY <1>2
<1> QED BY <1>0, <1>3, <1>4, <1>5, <1>6, <1>7, <1>8, Zenon DEF TableInv

\* Where the loops go on after a pair of routers.
LEMMA LoopStep ==
    ASSUME TableInv, extend_shortest_path, NEW n, n = NumRows * NumCols,
           NEW changed, changed = (change \/ current_dist[i][j] # minimum)
    PROVE  /\ i \in MeshRouters /\ j \in MeshRouters /\ n \in Nat /\ n > 0
           /\ \/ j < n - 1 /\ i' = i /\ j' = j + 1 /\ change' = changed
              \/ j = n - 1 /\ i < n - 1 /\ i' = i + 1 /\ j' = 0 /\ change' = changed
              \/ j = n - 1 /\ i = n - 1 /\ changed /\ i' = 0 /\ j' = 0 /\ change' = FALSE
              \/ j = n - 1 /\ i = n - 1 /\ ~changed /\ i' = n /\ j' = 0 /\ change' = FALSE
<1>1. n \in Nat /\ n > 0
  BY MeshAssumption
<1>2. i \in Nat /\ i < n /\ j \in Nat /\ j < n
  BY <1>1 DEF TableInv, extend_shortest_path, HasLinks, MeshRouters
<1>3. j' = (j + 1) % n
  BY DEF extend_shortest_path
<1>4. change' = (changed /\ ~(i = n - 1 /\ j = n - 1))
  BY Zenon DEF extend_shortest_path
<1>5. CASE j < n - 1
  <2>1. ~(i = n - 1 /\ j = n - 1)
    BY <1>2, <1>5
  <2>2. i' = i
    BY <2>1, <1>5, Zenon DEF extend_shortest_path
  <2>3. j' = j + 1
    BY <1>1, <1>2, <1>3, <1>5
  <2>4. change' = changed
    BY <1>4, <2>1, Zenon
  <2> QED BY <1>1, <1>2, <1>5, <2>2, <2>3, <2>4 DEF MeshRouters
<1>6. CASE ~(j < n - 1) /\ i # n - 1
  <2>1. i' = i + 1
    BY <1>6, Zenon DEF extend_shortest_path
  <2>2. j = n - 1 /\ i < n - 1 /\ j' = 0
    BY <1>1, <1>2, <1>3, <1>6
  <2>3. change' = changed
    BY <1>4, <1>6, Zenon
  <2> QED BY <1>1, <1>2, <2>1, <2>2, <2>3 DEF MeshRouters
<1>7. CASE ~(j < n - 1) /\ i = n - 1
  <2>1. j = n - 1 /\ j' = 0 /\ i + 1 = n
    BY <1>1, <1>2, <1>3, <1>7
  <2>2. IF changed THEN i' = 0 ELSE i' = i + 1
    BY <1>7, <2>1, Zenon DEF extend_shortest_path
  <2>3. change' = FALSE
    BY <1>4, <1>7, <2>1, Zenon
  <2> QED BY <1>1, <1>2, <1>7, <2>1, <2>2, <2>3 DEF MeshRouters
<1> QED BY <1>5, <1>6, <1>7, Zenon

\* A round of the loops keeps the invariant.
LEMMA TableStep ==
    ASSUME TableInv, extend_shortest_path
    PROVE  TableInv'
<1> DEFINE n       == NumRows * NumCols
           changed == change \/ current_dist[i][j] # minimum
           ways    == {current_dist[i][j]} \cup {current_dist[i][k] + current_dist[k][j] : k \in MeshRouters}
<1>1. /\ i \in MeshRouters /\ j \in MeshRouters /\ n \in Nat /\ n > 0
      /\ \/ j < n - 1 /\ i' = i /\ j' = j + 1 /\ change' = changed
         \/ j = n - 1 /\ i < n - 1 /\ i' = i + 1 /\ j' = 0 /\ change' = changed
         \/ j = n - 1 /\ i = n - 1 /\ changed /\ i' = 0 /\ j' = 0 /\ change' = FALSE
         \/ j = n - 1 /\ i = n - 1 /\ ~changed /\ i' = n /\ j' = 0 /\ change' = FALSE
  BY LoopStep, Zenon
<1>2. topology' = topology /\ topology \in Topologies
  BY DEF extend_shortest_path, TableInv
<1>3. \A a, b \in MeshRouters : current_dist[a][b] \in Nat
  BY Zenon DEF TableInv
<1>4. /\ \A a, b \in MeshRouters : PathWeight(a, b) \in Nat /\ PathWeight(a, b) <= current_dist[a][b]
      /\ \A a, b, k \in MeshRouters : PathWeight(a, b) <= PathWeight(a, k) + PathWeight(k, b)
  BY <1>2, PathWeightTriangle, Zenon DEF TableInv
<1>5. /\ minimum \in Nat /\ PathWeight(i, j) <= minimum /\ minimum <= current_dist[i][j]
      /\ \A k \in MeshRouters : minimum <= current_dist[i][k] + current_dist[k][j]
  <2>1. ways \subseteq Nat /\ ways # {}
    BY <1>1, <1>3
  <2>2. minimum \in ways /\ \A w \in ways : minimum <= w
    BY <2>1, MinFacts, Zenon DEF minimum
  <2>3. \A w \in ways : PathWeight(i, j) <= w
    BY <1>1, <1>3, <1>4
  <2> QED BY <2>1, <2>2, <2>3, Zenon
<1>6. /\ current_dist' \in [MeshRouters -> [MeshRouters -> Nat]]
      /\ \A a, b \in MeshRouters :
            current_dist'[a][b] = IF a = i /\ b = j THEN minimum ELSE current_dist[a][b]
  <2>1. current_dist' = [current_dist EXCEPT ![i][j] = minimum]
    BY DEF extend_shortest_path
  <2> HIDE DEF n, changed, ways
  <2> QED BY <1>1, <1>5, <2>1 DEF TableInv
<1>7. /\ \A dirn : Weight(dirn)' = Weight(dirn)
      /\ \A a, b : PathWeight(a, b)' = PathWeight(a, b)
  <2>1. \A dirn : Weight(dirn)' = Weight(dirn)
    BY <1>2, Zenon DEF Weight
  <2> QED BY <2>1, Zenon DEF PathWeight
<1>8. (\A a, b \in MeshRouters : PathWeight(a, b) <= current_dist[a][b])'
  BY <1>4, <1>5, <1>6, <1>7, Zenon
<1>9. (\A a \in MeshRouters : current_dist[a][a] = 0)'
  <2>1. \A a \in MeshRouters : current_dist[a][a] = 0
    BY Zenon DEF TableInv
  <2> QED BY <1>1, <1>5, <1>6, <2>1
<1>10. (\A a \in MeshRouters, dirn \in Directions :
           HasLink(a, dirn) => current_dist[a][RouterInDirn(a, dirn)] <= Weight(dirn))'
  <2> SUFFICES ASSUME NEW a \in MeshRouters, NEW dirn \in Directions, HasLink(a, dirn)
               PROVE  current_dist'[a][RouterInDirn(a, dirn)] <= Weight(dirn)
    BY <1>7
  <2> DEFINE b == RouterInDirn(a, dirn)
  <2>1. b \in MeshRouters
    BY NeighbourFacts, Zenon
  <2>2. current_dist[a][b] <= Weight(dirn) /\ Weight(dirn) \in {1, 2}
    BY <1>2, LinkPathWeight DEF TableInv
  <2>3. /\ current_dist'[a][b] = IF a = i /\ b = j THEN minimum ELSE current_dist[a][b]
        /\ current_dist[a][b] \in Nat
    BY <1>3, <1>6, <2>1, Zenon
  <2> HIDE DEF b
  <2>4. current_dist'[a][b] <= Weight(dirn)
    BY ONLY <1>5, <2>2, <2>3
  <2> QED BY <2>4, Zenon DEF b
<1>11. i' \in 0 .. n /\ j' \in MeshRouters /\ change' \in BOOLEAN /\ (HasLinks' => j' = 0 /\ ~change')
  <2>1. i' \in 0 .. n /\ j' \in MeshRouters /\ (i' = n => j' = 0)
    <3> HIDE DEF changed
    <3> QED BY <1>1 DEF MeshRouters
  <2>2. i' = n => ~change'
    <3> HIDE DEF changed
    <3> QED BY <1>1 DEF MeshRouters
  <2>3. change' \in BOOLEAN
    <3>1. change \in BOOLEAN
      BY DEF TableInv
    <3> QED BY <1>1, <3>1, Zenon
  <2> QED BY <2>1, <2>2, <2>3, Zenon DEF HasLinks
<1>12. ~change' => \A a, b, k \in MeshRouters :
          Passed(a, b)' => current_dist'[a][b] <= current_dist'[a][k] + current_dist'[k][b]
  <2> SUFFICES ASSUME ~change', NEW a \in MeshRouters, NEW b \in MeshRouters, NEW k \in MeshRouters,
                      Passed(a, b)'
               PROVE  current_dist'[a][b] <= current_dist'[a][k] + current_dist'[k][b]
    BY Zenon
  <2>1. a \in Nat /\ b \in Nat /\ i \in Nat /\ j \in Nat /\ a < n /\ b < n
    BY <1>1 DEF MeshRouters
  <2>2. ~changed /\ (Passed(a, b) \/ (a = i /\ b = j))
    <3> HIDE DEF changed, n
    <3> QED BY <1>1, <2>1 DEF Passed
  <2>3. ~change /\ current_dist[i][j] = minimum
    BY <2>2, Zenon
  <2>4. \A e, f \in MeshRouters : current_dist'[e][f] = current_dist[e][f]
    BY <1>6, <2>3, Zenon
  <2>5. Passed(a, b) => current_dist[a][b] <= current_dist[a][k] + current_dist[k][b]
    BY <2>3, Zenon DEF TableInv
  <2> QED BY <1>5, <2>2, <2>3, <2>4, <2>5, Zenon
<1> QED BY <1>2, <1>6, <1>8, <1>9, <1>10, <1>11, <1>12, Zenon DEF TableInv

\* When the loops end, every distance is that of the shortest path.  Of the
\* pairs of routers with another distance take one the fewest hops apart: a
\* hop nearer the distance is right, and the last pass has looked at that way.
LEMMA TableDistances ==
    ASSUME TableInv, HasLinks
    PROVE  \A a, b \in MeshRouters : current_dist[a][b] = PathWeight(a, b)
<1> DEFINE Wrong == {p \in MeshRouters \X MeshRouters : current_dist[p[1]][p[2]] # PathWeight(p[1], p[2])}
           hops  == {Distance(p[1], p[2]) : p \in Wrong}
<1>1. topology \in Topologies
  BY Zenon DEF TableInv
<1>2. ASSUME Wrong # {}
      PROVE  FALSE
  <2>1. hops \subseteq Nat /\ hops # {}
    BY <1>2, HopFacts DEF Distance
  <2>2. PICK m \in hops : \A k \in hops : m <= k
    BY <2>1, LeastNumber, Zenon
  <2>3. PICK a \in MeshRouters, b \in MeshRouters :
            current_dist[a][b] # PathWeight(a, b) /\ m = Distance(a, b)
    <3>1. PICK p \in Wrong : m = Distance(p[1], p[2])
      BY <2>2
    <3> QED BY <3>1, Zenon
  <2>4. a # b
    <3>1. PathWeight(a, a) = 0 /\ current_dist[a][a] = 0
      BY <1>1, PathWeightTriangle, Zenon DEF TableInv
    <3> QED BY <2>3, <3>1, Zenon
  <2>5. PICK dirn \in Towards(a, b) : TRUE
    BY <2>4, SomeTowards
  <2> DEFINE q == RouterInDirn(a, dirn)
  <2>6. /\ dirn \in Directions /\ HasLink(a, dirn) /\ q \in MeshRouters
        /\ Distance(q, b) = Distance(a, b) - 1 /\ Distance(q, b) \in Nat
    <3>1. dirn \in Directions
      BY <2>5, Zenon DEF Towards
    <3> HIDE DEF Wrong, hops
    <3> QED BY <2>5, <3>1, TowardsFacts, Zenon
  <2>7. Weight(dirn) + PathWeight(q, b) = PathWeight(a, b)
    BY <1>1, <2>5, <2>6, ShortestTowards
  <2>8. current_dist[a][q] <= Weight(dirn) /\ Weight(dirn) \in {1, 2}
    BY <1>1, <2>6, LinkPathWeight, Zenon DEF TableInv
  <2>9. current_dist[a][b] <= current_dist[a][q] + current_dist[q][b]
    <3>1. ~change
      BY Zenon DEF TableInv
    <3>2. Passed(a, b)
      BY MeshAssumption DEF HasLinks, Passed, MeshRouters
    <3> QED BY <2>6, <3>1, <3>2, Zenon DEF TableInv
  <2> HIDE DEF q
  <2>10. Distance(q, b) < m
    BY <2>1, <2>2, <2>3, <2>6
  <2>11. current_dist[q][b] = PathWeight(q, b)
    <3>1. Distance(q, b) \in Nat /\ m \in Nat
      BY <2>1, <2>2, <2>6, HopFacts, Zenon DEF Distance
    <3>2. Distance(q, b) \notin hops
      BY ONLY <2>2, <2>10, <3>1
    <3>3. ASSUME current_dist[q][b] # PathWeight(q, b)
          PROVE  FALSE
      <4>1. <<q, b>> \in Wrong
        BY <2>6, <3>3, Zenon
      <4>2. Distance(<<q, b>>[1], <<q, b>>[2]) \in hops
        BY <4>1, Zenon
      <4> QED BY <3>2, <4>2, Zenon
    <3> QED BY <3>3
  <2>12. /\ current_dist[a][b] \in Nat /\ current_dist[a][q] \in Nat /\ PathWeight(q, b) \in Nat
         /\ PathWeight(a, b) \in Nat /\ PathWeight(a, b) <= current_dist[a][b]
    BY <1>1, <2>6, PathWeightTriangle DEF TableInv
  <2> QED BY <2>3, <2>7, <2>8, <2>9, <2>11, <2>12
<1> SUFFICES ASSUME NEW a \in MeshRouters, NEW b \in MeshRouters
             PROVE  current_dist[a][b] = PathWeight(a, b)
  BY Zenon
<1>3. <<a, b>> \notin Wrong
  BY <1>2, Zenon
<1> QED BY <1>3, Zenon
-----------------------------------------------------------------------------
\* The links the table names lead towards the destination, and of two such
\* directions only the lightest remain.
LEMMA TableTowards ==
    ASSUME TableInv, HasLinks, NEW r \in MeshRouters, NEW d \in MeshRouters, r # d
    PROVE  /\ output_link_candidates(r, d) \subseteq Towards(r, d)
           /\ \A dirn \in output_link_candidates(r, d), e \in Towards(r, d) : Weight(dirn) <= Weight(e)
<1>1. topology \in Topologies
  BY Zenon DEF TableInv
<1>2. \A dirn \in Directions :
          link_is_shortest_path_to_node(r, dirn, d) <=> dirn \in Towards(r, d)
  <2> SUFFICES ASSUME NEW dirn \in Directions
               PROVE  link_is_shortest_path_to_node(r, dirn, d) <=> dirn \in Towards(r, d)
    OBVIOUS
  <2>1. dirn \in Towards(r, d) => HasLink(r, dirn)
    BY TowardsFacts, Zenon
  <2>2. ASSUME HasLink(r, dirn)
        PROVE  link_is_shortest_path_to_node(r, dirn, d) <=> dirn \in Towards(r, d)
    <3>1. RouterInDirn(r, dirn) \in MeshRouters
      BY <2>2, NeighbourFacts, Zenon
    <3>2. /\ current_dist[RouterInDirn(r, dirn)][d] = PathWeight(RouterInDirn(r, dirn), d)
          /\ current_dist[r][d] = PathWeight(r, d)
      BY <3>1, TableDistances, Zenon
    <3>3. Weight(dirn) + PathWeight(RouterInDirn(r, dirn), d) = PathWeight(r, d) <=> dirn \in Towards(r, d)
      BY <1>1, <2>2, ShortestTowards
    <3> QED BY <2>2, <3>2, <3>3 DEF link_is_shortest_path_to_node
  <2> QED BY <2>1, <2>2 DEF link_is_shortest_path_to_node
<1>3. Towards(r, d) \subseteq Directions
  BY DEF Towards
<1>4. \A dirn \in output_link_candidates(r, d) :
          /\ dirn \in Directions /\ link_is_shortest_path_to_node(r, dirn, d)
          /\ \A e \in Directions : link_is_shortest_path_to_node(r, e, d) => Weight(dirn) <= Weight(e)
  BY Zenon DEF output_link_candidates
<1> QED BY <1>2, <1>3, <1>4, Zenon
-----------------------------------------------------------------------------
\* The inductive invariant of the walk: the table's, and what the forbidden
\* turns rest on.  A flit routed XY that has left its row is in the column of
\* its destination, and one routed west-first that has taken another direction
\* than West has no hop to the west left.
RouteInv ==
    /\ TableInv
    /\ my_id \in MeshRouters /\ dest_router \in MeshRouters
    /\ routing_algorithm \in Algorithms
    /\ last_dirn \in Directions \cup {"Local", "Unknown"}
    /\ last_dirn # "Unknown" => HasLinks
    /\ topology = "Mesh_westfirst" => routing_algorithm = "TABLE_"
    /\ RoutesXY /\ last_dirn \in {"North", "South"} => x_hops(my_id, dest_router) = 0
    /\ RoutesWestFirst /\ last_dirn \in {"East", "North", "South"} =>
          x_dirn(my_id, dest_router) = "East"

\* outportCompute, algorithm by algorithm.
LEMMA OutportCases ==
    ASSUME routing_algorithm \in Algorithms, NEW freeVC
    PROVE  /\ routing_algorithm = "TABLE_" => outportCompute(freeVC) = lookupRoutingTable(my_id, dest_router, freeVC)
           /\ routing_algorithm = "XY_" => outportCompute(freeVC) = outportComputeXY(my_id, dest_router)
           /\ routing_algorithm = "RANDOM_" => outportCompute(freeVC) = outportComputeRandom(my_id, dest_router)
           /\ routing_algorithm = "ADAPT_RAND_" =>
                outportCompute(freeVC) = outportComputeAdaptRand(my_id, dest_router, freeVC)
           /\ routing_algorithm = "WestFirst_" => outportCompute(freeVC) = outportComputeWestFirst(my_id, dest_router)
           /\ routing_algorithm = "ADAPT_WestFirst_" =>
                outportCompute(freeVC) = outportComputeAdaptWestFirst(my_id, dest_router, freeVC)
BY Zenon DEF outportCompute

\* West-first routing goes West while the destination is there.
LEMMA WestFirstWest ==
    ASSUME NEW r \in MeshRouters, NEW d \in MeshRouters, x_dirn(r, d) = "West"
    PROVE  outportComputeWestFirst(r, d) = {"West"}
<1>1. x_hops(r, d) # 0
  BY HopFacts, Zenon
<1> QED BY <1>1, Zenon DEF outportComputeWestFirst

\* Every algorithm returns a direction that leads towards the destination, one
\* along the row first when it routes XY, and West first when it routes
\* west-first.
LEMMA OutportTowards ==
    ASSUME RouteInv, last_dirn # "Unknown", my_id # dest_router,
           NEW freeVC, NEW dirn \in outportCompute(freeVC)
    PROVE  /\ dirn \in Towards(my_id, dest_router)
           /\ RoutesXY /\ x_hops(my_id, dest_router) > 0 => dirn \in {"East", "West"}
           /\ RoutesWestFirst /\ x_dirn(my_id, dest_router) = "West" => dirn = "West"
<1>1. /\ TableInv /\ HasLinks /\ my_id \in MeshRouters /\ dest_router \in MeshRouters
      /\ routing_algorithm \in Algorithms /\ topology \in Topologies
      /\ topology = "Mesh_westfirst" => routing_algorithm = "TABLE_"
  BY Zenon DEF RouteInv, TableInv
<1>2. /\ outportComputeXY(my_id, dest_router) \subseteq Towards(my_id, dest_router)
      /\ outportComputeRandom(my_id, dest_router) \subseteq Towards(my_id, dest_router)
      /\ outportComputeWestFirst(my_id, dest_router) \subseteq Towards(my_id, dest_router)
  BY <1>1, AlgorithmsTowards, Zenon
<1>3. /\ x_dirn(my_id, dest_router) \in {"East", "West"}
      /\ x_dirn(my_id, dest_router) = "West" => x_hops(my_id, dest_router) > 0
  BY <1>1, HopFacts
<1>4. CASE routing_algorithm = "TABLE_"
  <2>1. dirn \in output_link_candidates(my_id, dest_router)
    BY <1>1, <1>4, OutportCases, Zenon DEF lookupRoutingTable, MostFree
  <2>2. /\ dirn \in Towards(my_id, dest_router)
        /\ \A e \in Towards(my_id, dest_router) : Weight(dirn) <= Weight(e)
    BY <1>1, <2>1, TableTowards, Zenon
  <2>3. dirn \in Directions
    BY <2>2, Zenon DEF Towards
  <2>4. x_hops(my_id, dest_router) > 0 =>
          Weight(dirn) <= Weight(x_dirn(my_id, dest_router))
    BY <1>1, <2>2, SomeTowards, Zenon
  <2>5. CASE topology = "Mesh_XY"
    BY <1>1, <1>3, <1>4, <2>2, <2>3, <2>4, <2>5, WeightCases DEF Directions, RoutesXY, RoutesWestFirst
  <2>6. CASE topology = "Mesh_westfirst"
    BY <1>1, <1>3, <1>4, <2>2, <2>3, <2>4, <2>6, WeightCases DEF Directions, RoutesXY, RoutesWestFirst
  <2> QED BY <1>1, <2>5, <2>6 DEF Topologies
<1>5. CASE routing_algorithm = "XY_"
  <2>1. dirn \in outportComputeXY(my_id, dest_router)
    BY <1>1, <1>5, OutportCases, Zenon
  <2>2. x_hops(my_id, dest_router) > 0 => dirn = x_dirn(my_id, dest_router)
    BY <2>1, Zenon DEF outportComputeXY
  <2> QED BY <1>1, <1>2, <1>3, <1>5, <2>1, <2>2, Zenon DEF RoutesWestFirst
<1>6. CASE routing_algorithm \in {"RANDOM_", "ADAPT_RAND_"}
  <2>1. dirn \in outportComputeRandom(my_id, dest_router)
    BY <1>1, <1>6, OutportCases, Zenon DEF outportComputeAdaptRand, MostFree
  <2> QED BY <1>1, <1>2, <1>6, <2>1 DEF RoutesXY, RoutesWestFirst
<1>7. CASE routing_algorithm \in {"WestFirst_", "ADAPT_WestFirst_"}
  <2>1. dirn \in outportComputeWestFirst(my_id, dest_router)
    BY <1>1, <1>7, OutportCases, Zenon DEF outportComputeAdaptWestFirst, MostFree
  <2>2. x_dirn(my_id, dest_router) = "West" => dirn = "West"
    BY <1>1, <2>1, WestFirstWest, Zenon
  <2> QED BY <1>1, <1>2, <1>7, <2>1, <2>2, Zenon DEF RoutesXY
<1> QED BY <1>1, <1>4, <1>5, <1>6, <1>7, Zenon DEF Algorithms
-----------------------------------------------------------------------------
\* What a hop does, whichever algorithm chose it.
LEMMA HopTowards ==
    ASSUME RouteInv, Hop
    PROVE  /\ last_dirn' \in Towards(my_id, dest_router)
           /\ my_id' = RouterInDirn(my_id, last_dirn')
           /\ RoutesXY /\ x_hops(my_id, dest_router) > 0 => last_dirn' \in {"East", "West"}
           /\ RoutesWestFirst /\ x_dirn(my_id, dest_router) = "West" => last_dirn' = "West"
           /\ dest_router' = dest_router /\ routing_algorithm' = routing_algorithm
           /\ UNCHANGED topology_vars
<1>1. PICK freeVC \in [Directions -> 0 .. MaxFreeVC] :
          \E dirn \in outportCompute(freeVC) : last_dirn' = dirn /\ my_id' = RouterInDirn(my_id, dirn)
  BY DEF Hop
<1>2. last_dirn' \in outportCompute(freeVC) /\ my_id' = RouterInDirn(my_id, last_dirn')
  BY <1>1
<1>3. last_dirn # "Unknown" /\ my_id # dest_router
  BY Zenon DEF Hop
<1>4. /\ last_dirn' \in Towards(my_id, dest_router)
      /\ RoutesXY /\ x_hops(my_id, dest_router) > 0 => last_dirn' \in {"East", "West"}
      /\ RoutesWestFirst /\ x_dirn(my_id, dest_router) = "West" => last_dirn' = "West"
  BY <1>2, <1>3, OutportTowards
<1> QED BY <1>2, <1>4, Zenon DEF Hop

\* The table's invariant only depends on the table.
LEMMA TableStutter ==
    ASSUME TableInv, UNCHANGED topology_vars
    PROVE  TableInv' /\ HasLinks' = HasLinks
<1>1. topology' = topology /\ current_dist' = current_dist /\ i' = i /\ j' = j /\ change' = change
  BY DEF topology_vars
<1>2. \A dirn : Weight(dirn)' = Weight(dirn)
  BY <1>1, Zenon DEF Weight
<1>3. \A a, b : PathWeight(a, b)' = PathWeight(a, b)
  BY <1>2, Zenon DEF PathWeight
<1>4. \A a, b : Passed(a, b)' = Passed(a, b)
  BY <1>1, Zenon DEF Passed
<1>5. HasLinks' = HasLinks
  BY <1>1, Zenon DEF HasLinks
<1> QED BY <1>1, <1>2, <1>3, <1>4, <1>5, Zenon DEF TableInv

\* Every step keeps the invariant of the walk.
LEMMA RouteStep ==
    ASSUME RouteInv, [WalkNext]_walkVars
    PROVE  RouteInv'
<1>1. CASE ExtendShortestPath
  <2>1. TableInv'
    BY <1>1, TableStep DEF RouteInv, ExtendShortestPath
  <2>2. /\ my_id' = my_id /\ dest_router' = dest_router
        /\ routing_algorithm' = routing_algorithm /\ last_dirn' = last_dirn
        /\ topology' = topology /\ ~HasLinks
    BY <1>1, Zenon DEF ExtendShortestPath, extend_shortest_path, flit_vars
  <2>3. last_dirn = "Unknown"
    BY <2>2, Zenon DEF RouteInv
  <2> QED BY <2>1, <2>2, <2>3, Zenon DEF RouteInv
<1>2. CASE Inject
  <2>1. TableInv' /\ HasLinks' /\ topology' = topology
    BY <1>2, TableStutter DEF RouteInv, Inject, topology_vars
  <2>2. /\ my_id' \in MeshRouters /\ dest_router' \in MeshRouters /\ last_dirn' = "Local"
        /\ topology = "Mesh_westfirst" => routing_algorithm' = "TABLE_"
        /\ routing_algorithm' \in Algorithms
    BY <1>2, Zenon DEF Inject, Algorithms
  <2> QED BY <2>1, <2>2, Zenon DEF RouteInv
<1>3. CASE Hop
  <2>1. /\ last_dirn' \in Towards(my_id, dest_router)
        /\ my_id' = RouterInDirn(my_id, last_dirn')
        /\ RoutesXY /\ x_hops(my_id, dest_router) > 0 => last_dirn' \in {"East", "West"}
        /\ RoutesWestFirst /\ x_dirn(my_id, dest_router) = "West" => last_dirn' = "West"
        /\ dest_router' = dest_router /\ routing_algorithm' = routing_algorithm
        /\ UNCHANGED topology_vars
    BY <1>3, HopTowards, Zenon
  <2>2. TableInv' /\ HasLinks' /\ topology' = topology /\ last_dirn # "Unknown"
    BY <1>3, <2>1, TableStutter, Zenon DEF RouteInv, topology_vars, Hop
  <2>3. my_id \in MeshRouters /\ dest_router \in MeshRouters /\ last_dirn' \in Directions
    BY <2>1, Zenon DEF RouteInv, Towards
  <2>4. /\ my_id' \in MeshRouters
        /\ last_dirn' \in {"North", "South"} =>
             /\ x_hops(my_id', dest_router) = x_hops(my_id, dest_router)
             /\ x_dirn(my_id', dest_router) = x_dirn(my_id, dest_router)
        /\ last_dirn' \in {"East", "West"} =>
             (x_hops(my_id', dest_router) > 0 => x_dirn(my_id', dest_router) = last_dirn')
    <3>1. last_dirn' \in Towards(my_id, dest_router) /\ my_id' = RouterInDirn(my_id, last_dirn')
      BY <2>1, Zenon
    <3> QED BY <2>3, <3>1, TowardsTurns
  <2>5. /\ x_hops(my_id, dest_router) \in Nat /\ x_hops(my_id', dest_router) \in Nat
        /\ x_dirn(my_id, dest_router) \in {"East", "West"}
        /\ x_hops(my_id', dest_router) = 0 => x_dirn(my_id', dest_router) = "East"
    BY <2>3, <2>4, HopFacts, Zenon
  <2>6. RoutesXY /\ last_dirn' \in {"North", "South"} => x_hops(my_id', dest_router) = 0
    BY <2>1, <2>4, <2>5
  <2>7. RoutesWestFirst /\ last_dirn' \in {"East", "North", "South"} => x_dirn(my_id', dest_router) = "East"
    BY <2>1, <2>4, <2>5
  <2>8. /\ RoutesXY' = RoutesXY /\ RoutesWestFirst' = RoutesWestFirst
        /\ x_hops(my_id, dest_router)' = x_hops(my_id', dest_router)
        /\ x_dirn(my_id, dest_router)' = x_dirn(my_id', dest_router)
    BY <2>1, <2>2, Zenon DEF RoutesXY, RoutesWestFirst
  <2> QED BY <2>1, <2>2, <2>3, <2>4, <2>6, <2>7, <2>8, Zenon DEF RouteInv
<1>4. CASE UNCHANGED walkVars
  <2>1. UNCHANGED topology_vars /\ UNCHANGED flit_vars
    BY <1>4, Zenon DEF walkVars
  <2>2. TableInv' /\ HasLinks' = HasLinks
    BY <2>1, TableStutter, Zenon DEF RouteInv
  <2> QED BY <2>1, <2>2, Zenon DEF RouteInv, topology_vars, flit_vars, RoutesXY, RoutesWestFirst
<1> QED BY <1>1, <1>2, <1>3, <1>4, Zenon DEF WalkNext

\* The invariant holds initially.
LEMMA RouteInit ==
    ASSUME DistancesFit, WalkInit
    PROVE  RouteInv
<1>1. TableInv
  BY TableInit DEF WalkInit
<1>2. 0 \in MeshRouters
  BY MeshAssumption DEF MeshRouters
<1> QED BY <1>1, <1>2 DEF WalkInit, RouteInv, Algorithms

\* The routing tables of createLinks are right in every mesh whose distances
\* INFINITE_LATENCY is not below.
THEOREM TableShortest ==
    ASSUME DistancesFit
    PROVE  WalkSpec => []TableIsShortest
<1>1. WalkInit => RouteInv
  BY RouteInit
<1>2. RouteInv /\ [WalkNext]_walkVars => RouteInv'
  BY RouteStep, Zenon
<1>3. RouteInv => TableIsShortest
  BY TableDistances DEF RouteInv, TableIsShortest, PathWeight
<1> QED BY <1>1, <1>2, <1>3, PTL DEF WalkSpec

\* Every algorithm of RoutingUnit.cc takes an existing link one hop nearer, in
\* every mesh, from every router to every router.
THEOREM RoutingIsMinimal ==
    ASSUME DistancesFit
    PROVE  WalkSpec => MinimalRouting
<1>1. WalkInit => RouteInv
  BY RouteInit
<1>2. RouteInv /\ [WalkNext]_walkVars => RouteInv'
  BY RouteStep
<1>3. ASSUME RouteInv, [WalkNext]_walkVars, walkVars' # walkVars, last_dirn # "Unknown"
      PROVE  /\ <<my_id, my_id'>> \in MeshLinks
             /\ Distance(my_id', dest_router) = Distance(my_id, dest_router) - 1
  <2>1. Hop
    BY <1>3, Zenon DEF WalkNext, ExtendShortestPath, extend_shortest_path, Inject, RouteInv
  <2>2. last_dirn' \in Towards(my_id, dest_router) /\ my_id' = RouterInDirn(my_id, last_dirn')
    BY <1>3, <2>1, HopTowards, Zenon
  <2>3. my_id \in MeshRouters /\ dest_router \in MeshRouters
    BY <1>3 DEF RouteInv
  <2> QED BY <2>2, <2>3, TowardsFacts
<1>4. RouteInv /\ [WalkNext]_walkVars =>
        [last_dirn # "Unknown" => /\ <<my_id, my_id'>> \in MeshLinks
                                  /\ Distance(my_id', dest_router) = Distance(my_id, dest_router) - 1]_walkVars
  BY <1>3
<1> QED BY <1>1, <1>2, <1>4, PTL DEF WalkSpec, MinimalRouting

\* XY routing never turns from a column into a row and west-first routing
\* never turns into West, whether the directions or the weighted table do it.
THEOREM NoForbiddenTurn ==
    ASSUME DistancesFit
    PROVE  WalkSpec => TurnsForbidden
<1>1. WalkInit => RouteInv
  BY RouteInit
<1>2. RouteInv /\ [WalkNext]_walkVars => RouteInv'
  BY RouteStep
<1>3. ASSUME RouteInv, [WalkNext]_walkVars, walkVars' # walkVars
      PROVE  /\ RoutesXY /\ last_dirn \in {"North", "South"} => last_dirn' \in {"North", "South"}
             /\ RoutesWestFirst /\ last_dirn \notin {"Local", "West"} => last_dirn' # "West"
  <2>1. CASE last_dirn = "Unknown"
    <3>1. last_dirn' # "West"
      BY <1>3, <2>1, Zenon DEF WalkNext, ExtendShortestPath, Inject, Hop, flit_vars
    <3> QED BY <2>1, <3>1, Zenon
  <2>2. CASE last_dirn # "Unknown"
    <3>1. Hop
      BY <1>3, <2>2, Zenon DEF WalkNext, ExtendShortestPath, extend_shortest_path, Inject, RouteInv
    <3>2. last_dirn' \in Towards(my_id, dest_router)
      BY <1>3, <3>1, HopTowards, Zenon
    <3>3. /\ RoutesXY /\ last_dirn \in {"North", "South"} => x_hops(my_id, dest_router) = 0
          /\ RoutesWestFirst /\ last_dirn \in {"East", "North", "South"} => x_dirn(my_id, dest_router) = "East"
          /\ last_dirn \in Directions \cup {"Local"}
      BY <1>3, <2>2, Zenon DEF RouteInv
    <3>4. /\ x_hops(my_id, dest_router) \in Nat
          /\ x_dirn(my_id, dest_router) \in {"East", "West"} /\ y_dirn(my_id, dest_router) \in {"North", "South"}
      BY <1>3, HopFacts, Zenon DEF RouteInv
    <3>5. /\ x_hops(my_id, dest_router) = 0 => last_dirn' \in {"North", "South"}
          /\ x_dirn(my_id, dest_router) = "East" => last_dirn' # "West"
      BY <3>2, <3>4 DEF Towards
    <3> QED BY <3>3, <3>5 DEF Directions
  <2> QED BY <2>1, <2>2
<1>4. RouteInv /\ [WalkNext]_walkVars =>
        [/\ RoutesXY /\ last_dirn \in {"North", "South"} => last_dirn' \in {"North", "South"}
         /\ RoutesWestFirst /\ last_dirn \notin {"Local", "West"} => last_dirn' # "West"]_walkVars
  BY <1>3
<1> QED BY <1>1, <1>2, <1>4, PTL DEF WalkSpec, TurnsForbidden

\* In a mesh with no more rows than columns the border assertions of
\* get_RouterInDirn hold.  With more rows the North one fails.
THEOREM BorderChecksWide ==
    ASSUME DistancesFit, NumRows <= NumCols
    PROVE  WalkSpec => []BorderChecks
<1>1. WalkInit => RouteInv
  BY RouteInit
<1>2. RouteInv /\ [WalkNext]_walkVars => RouteInv'
  BY RouteStep, Zenon
<1>3. ASSUME RouteInv, my_id # dest_router, NEW dirn \in DirnsAsked
      PROVE  InsideBorder(dirn, my_id)
  <2>1. my_id \in MeshRouters /\ dest_router \in MeshRouters
    BY <1>3 DEF RouteInv
  <2>2. \/ dirn \in outportComputeRandom(my_id, dest_router)
        \/ dirn \in outportComputeWestFirst(my_id, dest_router)
    BY <1>3, Zenon DEF DirnsAsked
  <2>3. dirn \in Towards(my_id, dest_router)
    BY <1>3, <2>1, <2>2, AlgorithmsTowards
  <2>4. dirn \in Directions /\ HasLink(my_id, dirn) /\ RouterInDirn(my_id, dirn) \in MeshRouters
    BY <2>1, <2>3, TowardsFacts, Zenon DEF Towards
  <2>5. /\ Row(my_id) \in 0 .. (NumRows - 1) /\ Col(my_id) \in 0 .. (NumCols - 1)
        /\ my_id = (Row(my_id) * NumCols) + Col(my_id) /\ NumRows \in Nat /\ NumCols \in Nat \ {0}
    BY <2>1, RouterFacts, MeshAssumption
  <2>6. CASE dirn = "East"
    <3>1. Col(my_id) # NumCols - 1
      BY <2>4, <2>5, <2>6, LinkCases
    <3> QED BY <2>4, <2>6, <3>1, Zenon DEF InsideBorder
  <2>7. CASE dirn = "West"
    <3>1. Col(my_id) # 0
      BY <2>4, <2>5, <2>7, LinkCases
    <3> QED BY <2>4, <2>7, <3>1, Zenon DEF InsideBorder
  <2>8. CASE dirn = "North"
    <3>1. Row(my_id) + 1 <= NumCols - 1
      BY <2>4, <2>5, <2>8, LinkCases
    <3>2. (Row(my_id) + 1) * NumCols <= (NumCols - 1) * NumCols
      BY <2>5, <3>1
    <3>3. my_id < (NumCols - 1) * NumCols
      BY <2>5, <3>2
    <3> QED BY <2>4, <2>8, <3>3, Zenon DEF InsideBorder
  <2>9. CASE dirn = "South"
    <3>1. Row(my_id) >= 1
      BY <2>4, <2>5, <2>9, LinkCases
    <3>2. Row(my_id) * NumCols >= NumCols
      BY <2>5, <3>1
    <3>3. my_id >= NumCols
      BY <2>5, <3>2
    <3> QED BY <2>4, <2>9, <3>3, Zenon DEF InsideBorder
  <2> QED BY <2>4, <2>6, <2>7, <2>8, <2>9, Zenon DEF Directions
<1>4. RouteInv => BorderChecks
  BY <1>3 DEF BorderChecks
<1> QED BY <1>1, <1>2, <1>4, PTL DEF WalkSpec
=============================================================================
