--------------------------- MODULE BubbleNetProofs ---------------------------
(***************************************************************************)
(* Every packet of BubbleNet is in one slot, for every network, number of  *)
(* packets and number of bubbles.                                          *)
(***************************************************************************)
EXTENDS BubbleNet, TLAPS

\* Nothing is in the network at first.
LEMMA InitOneSlot == Init => OneSlotEach
BY NetAssumption DEF Init, OneSlotEach, TypeOK, SlotsOf

\* The placement of the bubbles (init_brownian_bubbles) takes free slots.
LEMMA PlaceOneSlot == OneSlotEach /\ Place => OneSlotEach'
BY NetAssumption DEF Place, OneSlotEach, TypeOK, SlotsOf

\* An injected flit was nowhere before (flitisizeMessage).
LEMMA InjectOneSlot ==
    ASSUME NEW f \in Flits, NEW s \in Slots, OneSlotEach, Inject(f, s)
    PROVE  OneSlotEach'
<1>1. TypeOK'
  BY DEF OneSlotEach, TypeOK, Inject
<1>2. SlotsOf(f) = {}
  BY DEF OneSlotEach, TypeOK, Inject
<1>3. \A t \in Slots : slot'[t] = IF t = s THEN {f} ELSE slot[t]
  BY DEF OneSlotEach, TypeOK, Inject
<1>4. \A g \in Flits : /\ g \in injected' \ received' <=> SlotsOf(g)' # {}
                       /\ \A t, u \in SlotsOf(g)' : t = u
  <2> TAKE g \in Flits
  <2>1. CASE g = f
    <3>1. SlotsOf(g)' = {s}
      BY <1>2, <1>3, <2>1 DEF SlotsOf
    <3>2. QED BY <3>1, <2>1 DEF Inject, OneSlotEach, TypeOK
  <2>2. CASE g # f
    <3>1. SlotsOf(g)' = SlotsOf(g)
      BY <1>3, <2>2 DEF SlotsOf, Inject, IsFree
    <3>2. QED BY <3>1, <2>2 DEF Inject, OneSlotEach
  <2>3. QED BY <2>1, <2>2
<1>5. \A t \in Slots : \A g, h \in slot'[t] : g = h
  BY <1>3 DEF OneSlotEach
<1>6. \A b \in Bubbles : hole'[b] # NoSlot => slot'[hole'[b]] = {}
  BY <1>3, NetAssumption DEF OneSlotEach, TypeOK, Inject, IsFree, IsHole
<1>7. QED
  BY <1>1, <1>4, <1>5, <1>6 DEF OneSlotEach, Inject

\* A flit that advances leaves its slot for an empty one (arbitrate_outports).
LEMMA ForwardOneSlot ==
    ASSUME NEW f \in Flits, NEW s \in Slots, NEW t \in Slots, OneSlotEach, Forward(f, s, t)
    PROVE  OneSlotEach'
<1>1. TypeOK'
  BY DEF OneSlotEach, TypeOK, Forward
<1>2. SlotsOf(f) = {s} /\ s # t
  BY DEF OneSlotEach, TypeOK, Forward, SlotsOf, IsFree
<1>3. \A u \in Slots : slot'[u] = IF u = t THEN {f} ELSE IF u = s THEN {} ELSE slot[u]
  <2>1. slot \in [Slots -> SUBSET Flits]
    BY DEF OneSlotEach, TypeOK
  <2>2. slot' = [slot EXCEPT ![s] = {}, ![t] = {f}]
    BY DEF Forward
  <2>3. QED BY <1>2, <2>1, <2>2
<1>4. \A g \in Flits : /\ g \in injected' \ received' <=> SlotsOf(g)' # {}
                       /\ \A u, v \in SlotsOf(g)' : u = v
  <2> TAKE g \in Flits
  <2>1. CASE g = f
    <3>1. SlotsOf(g)' = {t}
      BY <1>2, <1>3, <2>1 DEF SlotsOf
    <3>2. QED BY <1>2, <3>1, <2>1 DEF Forward, OneSlotEach, TypeOK
  <2>2. CASE g # f
    <3>1. SlotsOf(g)' = SlotsOf(g)
      BY <1>3, <2>2, ZenonT(40) DEF SlotsOf, Forward, IsFree
    <3>2. QED BY <3>1, <2>2 DEF Forward, OneSlotEach
  <2>3. QED BY <2>1, <2>2
<1>5. \A u \in Slots : \A g, h \in slot'[u] : g = h
  BY <1>3 DEF OneSlotEach
<1>6. \A b \in Bubbles : hole'[b] # NoSlot => slot'[hole'[b]] = {}
  BY <1>3, NetAssumption DEF OneSlotEach, TypeOK, Forward, IsFree, IsHole
<1>7. QED
  BY <1>1, <1>4, <1>5, <1>6, Zenon DEF OneSlotEach, Forward

\* A received flit leaves the network (NetworkInterface::wakeup).
LEMMA ReceiveOneSlot ==
    ASSUME NEW f \in Flits, NEW s \in Slots, OneSlotEach, Receive(f, s)
    PROVE  OneSlotEach'
<1>2. SlotsOf(f) = {s} /\ f \in injected
  BY DEF OneSlotEach, TypeOK, Receive, SlotsOf
<1>1. TypeOK'
  BY <1>2 DEF OneSlotEach, TypeOK, Receive
<1>3. \A u \in Slots : slot'[u] = IF u = s THEN {} ELSE slot[u]
  BY DEF OneSlotEach, TypeOK, Receive
<1>4. \A g \in Flits : /\ g \in injected' \ received' <=> SlotsOf(g)' # {}
                       /\ \A u, v \in SlotsOf(g)' : u = v
  <2> TAKE g \in Flits
  <2>1. CASE g = f
    <3>1. SlotsOf(g)' = {}
      BY <1>2, <1>3, <2>1 DEF SlotsOf
    <3>2. QED BY <3>1, <2>1 DEF Receive, OneSlotEach, TypeOK
  <2>2. CASE g # f
    <3>1. SlotsOf(g)' = SlotsOf(g)
      BY <1>3, <2>2 DEF SlotsOf, Receive
    <3>2. QED BY <3>1, <2>2 DEF Receive, OneSlotEach
  <2>3. QED BY <2>1, <2>2
<1>5. \A u \in Slots : \A g, h \in slot'[u] : g = h
  BY <1>3 DEF OneSlotEach
<1>6. \A b \in Bubbles : hole'[b] # NoSlot => slot'[hole'[b]] = {}
  BY <1>3, NetAssumption DEF OneSlotEach, TypeOK, Receive
<1>7. QED
  BY <1>1, <1>4, <1>5, <1>6 DEF OneSlotEach, Receive

\* A bubble and what is in the other slot change places (move_intra_bubble,
\* move_inter_bubble).
LEMMA ExchangeOneSlot ==
    ASSUME NEW b \in Bubbles, NEW s \in BubbleSlots, OneSlotEach, Exchange(b, s)
    PROVE  OneSlotEach'
<1> DEFINE o == hole[b]
<1>1. s \in Slots /\ o \in Slots /\ o \in BubbleSlots /\ o # s /\ slot[o] = {} /\ s # NoSlot
  BY NetAssumption DEF OneSlotEach, TypeOK, Exchange, IsHole
<1>2. \A u \in Slots : slot'[u] = IF u = o THEN slot[s] ELSE IF u = s THEN {} ELSE slot[u]
  <2>1. slot \in [Slots -> SUBSET Flits]
    BY DEF OneSlotEach, TypeOK
  <2>2. slot' = [slot EXCEPT ![s] = {}, ![o] = slot[s]]
    BY DEF Exchange
  <2>3. QED BY <1>1, <2>1, <2>2
<1>3. \A a \in Bubbles : hole'[a] = IF a = b THEN s ELSE hole[a]
  BY DEF OneSlotEach, TypeOK, Exchange
<1>4. TypeOK'
  BY <1>1 DEF OneSlotEach, TypeOK, Exchange
<1>5. \A g \in Flits : /\ g \in injected' \ received' <=> SlotsOf(g)' # {}
                       /\ \A u, v \in SlotsOf(g)' : u = v
  <2> TAKE g \in Flits
  <2>1. CASE g \in slot[s]
    <3>1. SlotsOf(g) = {s}
      BY <1>1, <2>1 DEF OneSlotEach, SlotsOf
    <3>2. SlotsOf(g)' = {o}
      <4> HIDE DEF o
      <4> QED BY <1>1, <1>2, <2>1, <3>1 DEF SlotsOf
    <3>3. QED BY <3>1, <3>2 DEF Exchange, OneSlotEach
  <2>2. CASE g \notin slot[s]
    <3>1. SlotsOf(g)' = SlotsOf(g)
      <4> HIDE DEF o
      <4> QED BY <1>1, <1>2, <2>2 DEF SlotsOf
    <3>2. QED BY <3>1 DEF Exchange, OneSlotEach
  <2>3. QED BY <2>1, <2>2
<1>6. \A u \in Slots : \A g, h \in slot'[u] : g = h
  BY <1>1, <1>2 DEF OneSlotEach
<1>7. \A a \in Bubbles : hole'[a] # NoSlot => slot'[hole'[a]] = {}
  <2> TAKE a \in Bubbles
  <2>1. CASE a = b
    BY <1>1, <1>2, <1>3, <2>1
  <2>2. CASE a # b
    <3>1. hole'[a] = hole[a] /\ hole[a] # s /\ (hole[a] = o => hole[a] = NoSlot)
      BY <1>3, <2>2 DEF OneSlotEach, Exchange, IsHole
    <3>2. hole[a] # NoSlot => hole[a] \in Slots /\ slot[hole[a]] = {}
      BY NetAssumption DEF OneSlotEach, TypeOK
    <3>3. QED BY <1>2, <3>1, <3>2
  <2>3. QED BY <2>1, <2>2
<1>8. \A a, c \in Bubbles : hole'[a] = hole'[c] => a = c \/ hole'[a] = NoSlot
  BY <1>1, <1>3 DEF OneSlotEach, Exchange, IsHole
<1>9. QED
  BY <1>4, <1>5, <1>6, <1>7, <1>8 DEF OneSlotEach

\* Every step of the network keeps each packet in one slot.
LEMMA NextOneSlot == OneSlotEach /\ [Next]_vars => OneSlotEach'
<1> SUFFICES ASSUME OneSlotEach, [Next]_vars PROVE OneSlotEach'
  OBVIOUS
<1>1. CASE Place
  BY <1>1, PlaceOneSlot
<1>2. CASE \E f \in Flits, s \in Slots : Inject(f, s)
  BY <1>2, InjectOneSlot
<1>3. CASE \E f \in Flits, s \in Slots : Receive(f, s)
  BY <1>3, ReceiveOneSlot
<1>4. CASE \E f \in Flits, s \in Slots, t \in Slots : Forward(f, s, t)
  BY <1>4, ForwardOneSlot
<1>5. CASE \E b \in Bubbles, s \in BubbleSlots : Exchange(b, s)
  BY <1>5, ExchangeOneSlot
<1>6. CASE UNCHANGED vars
  BY <1>6 DEF vars, OneSlotEach, TypeOK, SlotsOf
<1>7. QED BY <1>1, <1>2, <1>3, <1>4, <1>5, <1>6 DEF Next

\* A packet is in exactly one slot of the network, alone, from its injection
\* to its reception, however many bubbles trade places with the packets.
THEOREM EachInOneSlot == Spec => []OneSlotEach
BY InitOneSlot, NextOneSlot, PTL DEF Spec
=============================================================================
