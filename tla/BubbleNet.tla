------------------------------ MODULE BubbleNet ------------------------------
(***************************************************************************)
(* What a network with brownian bubbles promises, without its flow         *)
(* control: a network of slots, one packet to a slot, in which packets     *)
(* advance into empty slots and bubbles trade places with whatever is in   *)
(* another slot.  Credits, VC states, wires and queues are gone.           *)
(***************************************************************************)
EXTENDS Naturals, FiniteSets

CONSTANTS
    Flits,       \* the packets, of one flit each
    Bubbles,     \* the bubbles
    Slots,       \* the places of the network that hold one packet each
    BubbleSlots, \* the slots a bubble may occupy
    NoSlot,      \* where a bubble is before it is placed
    Entry,       \* the slots a flit is injected into
    Advance,     \* slot, flit: the slots the flit may go to from there
    Exit,        \* the slots a flit is received from
    Site,        \* the router at the end of a slot
    Walk,        \* the routers a bubble may go to from a router
    Home         \* the router a flit is to arrive at

ASSUME NetAssumption ==
    /\ BubbleSlots \subseteq Slots
    /\ NoSlot \notin Slots
    /\ Entry \in [Flits -> SUBSET Slots]
    /\ Advance \in [Slots -> [Flits -> SUBSET Slots]]
    /\ Exit \in [Flits -> SUBSET Slots]

VARIABLES
    slot,     \* the packets in each slot
    hole,     \* the slot each bubble keeps empty
    injected, \* the packets that have entered the network
    received  \* the packets that have left it

vars == <<slot, hole, injected, received>>

Init ==
    /\ slot = [s \in Slots |-> {}]
    /\ hole = [b \in Bubbles |-> NoSlot]
    /\ injected = {}
    /\ received = {}

IsHole(s) == \E b \in Bubbles : hole[b] = s
IsFree(s) == slot[s] = {} /\ ~IsHole(s)

\* All bubbles are placed together, each in a free slot of its own.
Place ==
    /\ \A b \in Bubbles : hole[b] = NoSlot
    /\ hole' \in [Bubbles -> BubbleSlots]
    /\ \A b \in Bubbles : slot[hole'[b]] = {}
    /\ \A a, b \in Bubbles : hole'[a] = hole'[b] => a = b
    /\ UNCHANGED <<slot, injected, received>>

Inject(f, s) ==
    /\ f \notin injected
    /\ s \in Entry[f]
    /\ IsFree(s)
    /\ slot' = [slot EXCEPT ![s] = {f}]
    /\ injected' = injected \cup {f}
    /\ UNCHANGED <<hole, received>>

Forward(f, s, t) ==
    /\ slot[s] = {f}
    /\ t \in Advance[s][f]
    /\ IsFree(t)
    /\ slot' = [slot EXCEPT ![s] = {}, ![t] = {f}]
    /\ UNCHANGED <<hole, injected, received>>

Receive(f, s) ==
    /\ slot[s] = {f}
    /\ s \in Exit[f]
    /\ slot' = [slot EXCEPT ![s] = {}]
    /\ received' = received \cup {f}
    /\ UNCHANGED <<hole, injected>>

\* Faulty variant: the packet is copied to the old slot of the bubble.
CopyingExchange(b, s) ==
    /\ hole[b] # NoSlot
    /\ s \in BubbleSlots
    /\ ~IsHole(s)
    /\ Site[s] = Site[hole[b]]
    /\ slot' = [slot EXCEPT ![hole[b]] = slot[s]]
    /\ UNCHANGED <<hole, injected, received>>

\* A bubble trades places with what is in slot s, a packet or nothing.  It
\* crosses to another router only along its walk, and then it brings back no
\* packet that had arrived.
Exchange(b, s) ==
    /\ hole[b] # NoSlot
    /\ s \in BubbleSlots
    /\ ~IsHole(s)
    /\ \/ Site[s] = Site[hole[b]]
       \/ /\ Site[s] \in Walk[Site[hole[b]]]
          /\ \A f \in slot[s] : Home[f] # Site[s]
    /\ slot' = [slot EXCEPT ![s] = {}, ![hole[b]] = slot[s]]
    /\ hole' = [hole EXCEPT ![b] = s]
    /\ UNCHANGED <<injected, received>>

Next ==
    \/ Place
    \/ \E f \in Flits, s \in Slots : \/ Inject(f, s)
                                     \/ Receive(f, s)
                                     \/ \E t \in Slots : Forward(f, s, t)
    \/ \E b \in Bubbles, s \in BubbleSlots : Exchange(b, s)

Spec == Init /\ [][Next]_vars
-----------------------------------------------------------------------------
TypeOK ==
    /\ slot \in [Slots -> SUBSET Flits]
    /\ hole \in [Bubbles -> BubbleSlots \cup {NoSlot}]
    /\ injected \subseteq Flits
    /\ received \subseteq injected

SlotsOf(f) == {s \in Slots : f \in slot[s]}

\* A packet is in exactly one slot from its injection to its reception, in
\* none before and after, and alone there; the slots of the bubbles are empty
\* and distinct.  Injection, advance and the exchanges of move_intra_bubble
\* and move_inter_bubble all keep it so.
OneSlotEach ==
    /\ TypeOK
    /\ \A f \in Flits : /\ f \in injected \ received <=> SlotsOf(f) # {}
                        /\ \A s, t \in SlotsOf(f) : s = t
    /\ \A s \in Slots : \A f, g \in slot[s] : f = g
    /\ \A b \in Bubbles : hole[b] # NoSlot => slot[hole[b]] = {}
    /\ \A a, b \in Bubbles : hole[a] = hole[b] => a = b \/ hole[a] = NoSlot
=============================================================================
