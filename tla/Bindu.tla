-------------------------------- MODULE Bindu --------------------------------
(***************************************************************************)
(* Credit-based flow control of a Garnet2.0 network whose VC 0 buffers are *)
(* disturbed by brownian bubbles (scheme "bn").                            *)
(*                                                                         *)
(* A channel is a pair <<link, vc>>: the OutVcState kept upstream, the     *)
(* wire, the VirtualChannel kept downstream and the credit wire back.      *)
(* Packets have one flit (NetworkInterface.cc:381), so a channel carries   *)
(* one flit at a time.  Every handler of a component is one action; which  *)
(* enabled handler runs next is left open, so the model covers every link  *)
(* latency, router latency, bubble period and arbitration outcome.         *)
(***************************************************************************)
EXTENDS Integers, FiniteSets

CONSTANTS
    NumRouters,   \* m_routers.size()
    IntLinks,     \* router to router links, pairs <<source, destination>>
    NIs,          \* network interfaces
    RouterOf,     \* the router each NI is attached to
    NumVnets,     \* m_virtual_networks
    VcsPerVnet,   \* m_vc_per_vnet
    BuffersPerVC, \* m_max_credit_count of each VC
    Flits,        \* the flits the NIs may inject
    SrcNI,        \* the NI that injects a flit
    DestNI,       \* route.dest_ni of a flit
    VnetOf,       \* route.vnet of a flit
    NumBubble,    \* m_num_bubble; 0 stands for enable_bn = 0
    RandBB,       \* rand_bb = 1
    Route,        \* outportCompute: router, NI to a set of output links
    NextHop       \* move_next_router: router, sense to <<router, sense>>

Routers == 0 .. (NumRouters - 1)
VCs     == 0 .. (NumVnets * VcsPerVnet - 1)
Bubbles == 0 .. (NumBubble - 1)

ExtInLink(n)  == <<n, RouterOf[n]>>
ExtOutLink(n) == <<RouterOf[n], n>>
ExtInLinks    == {ExtInLink(n) : n \in NIs}
ExtOutLinks   == {ExtOutLink(n) : n \in NIs}
Links         == IntLinks \cup ExtInLinks \cup ExtOutLinks
Channels      == Links \X VCs

\* The output units of a router, and its input units whose direction is not
\* "Local".
OutLinks(r)  == {l \in Links : l[1] = r}
Inports(r)   == {l \in IntLinks : l[2] = r}
VnetOfVc(v)  == v \div VcsPerVnet

\* Faulty variant: the VCs of every vnet.
AnyVc(vnet) == VCs
VcsOf(vnet) == {v \in VCs : VnetOfVc(v) = vnet}

\* Inports are numbered in the order of Topology::createLinks, by source.
FirstInport(r) ==
    CHOOSE l \in Inports(r) : \A m \in Inports(r) : l[1] <= m[1]

NoLink == <<>>

ASSUME SizeAssumption ==
    /\ NumRouters \in Nat \ {0}
    /\ NumVnets \in Nat \ {0}
    /\ VcsPerVnet \in Nat \ {0}
    /\ BuffersPerVC \in [VCs -> Nat \ {0}]
    /\ NumBubble \in Nat
    /\ RandBB \in BOOLEAN

ASSUME TopologyAssumption ==
    /\ IntLinks \subseteq Routers \X Routers
    /\ \A r \in Routers : \E l \in Inports(r) : \A m \in Inports(r) : l[1] <= m[1]
    /\ NIs \cap Routers = {}
    /\ RouterOf \in [NIs -> Routers]
    /\ NoLink \notin Links

ASSUME RouteAssumption ==
    /\ Route \in [Routers -> [NIs -> SUBSET Links]]
    /\ \A r \in Routers, n \in NIs : /\ Route[r][n] # {}
                                     /\ Route[r][n] \subseteq OutLinks(r)
                                     /\ RouterOf[n] = r => Route[r][n] = {ExtOutLink(n)}
                                     /\ RouterOf[n] # r => Route[r][n] \subseteq IntLinks

ASSUME FlitAssumption ==
    /\ SrcNI \in [Flits -> NIs]
    /\ DestNI \in [Flits -> NIs]
    /\ VnetOf \in [Flits -> 0 .. (NumVnets - 1)]

\* Bubbles are placed one to a router; with more bubbles than routers the
\* rand_bb loop never ends and the k % size placement takes a credit twice.
ASSUME BubbleAssumption ==
    /\ NumBubble <= NumRouters
    /\ NextHop \in [Routers -> [BOOLEAN -> Routers \X BOOLEAN]]

VARIABLES
    out_vc_state, \* OutVcState::m_vc_state, kept upstream of each channel
    credit,       \* OutVcState::m_credit_count
    ni_out_vcs,   \* flits waiting in NetworkInterface::m_ni_out_vcs
    link,         \* flits in the crossbar, the output buffer or on the wire
    vc_state,     \* VirtualChannel::m_vc_state, kept downstream
    buffer,       \* VirtualChannel::m_input_buffer
    credit_link,  \* credits in the credit queue or on the credit wire
    outport,      \* flit::m_outport as the output link, NoLink before routing
    bubble,       \* GarnetNetwork::bubble: the inport held and sense_inc
    bubble_init,  \* GarnetNetwork::m_bubble_init
    injected,     \* flits counted by increment_injected_flits
    received      \* flits counted by increment_received_flits

chanVars   == <<out_vc_state, credit, ni_out_vcs, link, vc_state, buffer, credit_link>>
bubbleVars == <<bubble, bubble_init>>
flitVars   == <<outport, injected, received>>
vars       == <<chanVars, bubbleVars, flitVars>>
-----------------------------------------------------------------------------
Init ==
    /\ out_vc_state = [c \in Channels |-> "IDLE_"]
    /\ credit       = [c \in Channels |-> BuffersPerVC[c[2]]]
    /\ ni_out_vcs   = [c \in Channels |-> {}]
    /\ link         = [c \in Channels |-> {}]
    /\ vc_state     = [c \in Channels |-> "IDLE_"]
    /\ buffer       = [c \in Channels |-> {}]
    /\ credit_link  = [c \in Channels |-> 0]
    /\ outport      = [f \in Flits |-> NoLink]
    /\ bubble       = [b \in Bubbles |-> [inport |-> NoLink, sense_inc |-> TRUE]]
    /\ bubble_init  = FALSE
    /\ injected     = {}
    /\ received     = {}

Vc0(l)      == <<l, 0>>
Router(b)   == bubble[b].inport[2]
IsIdle(c)   == out_vc_state[c] = "IDLE_"
IsEmpty(c)  == buffer[c] = {}

\* init_brownian_bubbles, run by the first router that wakes up, before
\* anything else in the network has moved.
Placements ==
    IF RandBB
    THEN {p \in [Bubbles -> Routers] : \A a, b \in Bubbles : p[a] = p[b] => a = b}
    ELSE {[k \in Bubbles |-> k % NumRouters]}

init_brownian_bubbles ==
    /\ ~bubble_init
    /\ \E l \in ExtInLinks, v \in VCs : link[<<l, v>>] # {}
    /\ \E place \in Placements :
          LET taken == {Vc0(FirstInport(place[k])) : k \in Bubbles}
          IN  /\ credit' = [c \in Channels |-> IF c \in taken THEN credit[c] - 1 ELSE credit[c]]
              /\ out_vc_state' = [c \in Channels |-> IF c \in taken THEN "ACTIVE_" ELSE out_vc_state[c]]
              /\ vc_state' = [c \in Channels |-> IF c \in taken THEN "ACTIVE_" ELSE vc_state[c]]
              /\ bubble' = [k \in Bubbles |-> [inport |-> FirstInport(place[k]), sense_inc |-> TRUE]]
    /\ bubble_init' = TRUE
    /\ UNCHANGED <<ni_out_vcs, link, buffer, credit_link, flitVars>>
-----------------------------------------------------------------------------
\* NetworkInterface::calculateVC returns an idle VC of the vnet, if there is
\* one: which one depends on a round-robin pointer and is left open.
calculateVC(n, vnet) == {v \in VcsOf(vnet) : IsIdle(<<ExtInLink(n), v>>)}

\* NetworkInterface::flitisizeMessage for one destination.
flitisizeMessage(f) ==
    /\ f \notin injected
    /\ \E v \in calculateVC(SrcNI[f], VnetOf[f]) :
          LET c == <<ExtInLink(SrcNI[f]), v>>
          IN  /\ ni_out_vcs' = [ni_out_vcs EXCEPT ![c] = @ \cup {f}]
              /\ out_vc_state' = [out_vc_state EXCEPT ![c] = "ACTIVE_"]
    /\ injected' = injected \cup {f}
    /\ UNCHANGED <<credit, link, vc_state, buffer, credit_link, bubbleVars, outport, received>>

\* NetworkInterface::scheduleOutputLink
scheduleOutputLink(c) ==
    /\ credit[c] > 0
    /\ \E f \in ni_out_vcs[c] :
          /\ ni_out_vcs' = [ni_out_vcs EXCEPT ![c] = @ \ {f}]
          /\ link' = [link EXCEPT ![c] = @ \cup {f}]
    /\ credit' = [credit EXCEPT ![c] = @ - 1]
    /\ UNCHANGED <<out_vc_state, vc_state, buffer, credit_link, bubbleVars, flitVars>>

\* Router::route_compute at router r, stored in the flit.
route_compute(r, f) ==
    \E out \in Route[r][DestNI[f]] : outport' = [outport EXCEPT ![f] = out]

\* InputUnit::wakeup: route computation and buffering of an arriving flit.
InputUnit_wakeup(c) ==
    /\ bubble_init
    /\ c[1] \notin ExtOutLinks
    /\ \E f \in link[c] :
          /\ link' = [link EXCEPT ![c] = @ \ {f}]
          /\ buffer' = [buffer EXCEPT ![c] = @ \cup {f}]
          /\ route_compute(c[1][2], f)
    /\ vc_state' = [vc_state EXCEPT ![c] = "ACTIVE_"]
    /\ UNCHANGED <<out_vc_state, credit, ni_out_vcs, credit_link, bubbleVars, injected, received>>

\* OutputUnit::select_free_vc: the lowest idle VC of the vnet.
select_free_vc(out, vnet, v) ==
    /\ v \in VcsOf(vnet)
    /\ IsIdle(<<out, v>>)
    /\ \A u \in VcsOf(vnet) : u < v => ~IsIdle(<<out, u>>)

\* SwitchAllocator::arbitrate_outports for a winner f in channel c, then
\* CrossbarSwitch::wakeup and NetworkLink::wakeup, which put it on the wire.
arbitrate_outports(c) ==
    /\ bubble_init
    /\ \E f \in buffer[c] : \E v \in VCs :
          LET d == <<outport[f], v>>
          IN  /\ select_free_vc(outport[f], VnetOfVc(c[2]), v)
              /\ out_vc_state' = [out_vc_state EXCEPT ![d] = "ACTIVE_"]
              /\ credit' = [credit EXCEPT ![d] = @ - 1]
              /\ link' = [link EXCEPT ![d] = @ \cup {f}]
              /\ buffer' = [buffer EXCEPT ![c] = @ \ {f}]
    /\ vc_state' = [vc_state EXCEPT ![c] = "IDLE_"]
    /\ credit_link' = [credit_link EXCEPT ![c] = @ + 1]
    /\ UNCHANGED <<ni_out_vcs, bubbleVars, flitVars>>

\* OutputUnit::wakeup, and the credit half of NetworkInterface::wakeup.
OutputUnit_wakeup(c) ==
    /\ credit_link[c] > 0
    /\ credit_link' = [credit_link EXCEPT ![c] = @ - 1]
    /\ credit' = [credit EXCEPT ![c] = @ + 1]
    /\ out_vc_state' = [out_vc_state EXCEPT ![c] = "IDLE_"]
    /\ UNCHANGED <<ni_out_vcs, link, vc_state, buffer, bubbleVars, flitVars>>

\* The flit half of NetworkInterface::wakeup, once the protocol buffer has
\* room: a stalled flit is one whose reception is still to come.
NI_receive(c) ==
    /\ c[1] \in ExtOutLinks
    /\ \E f \in link[c] :
          /\ link' = [link EXCEPT ![c] = @ \ {f}]
          /\ received' = received \cup {f}
    /\ credit_link' = [credit_link EXCEPT ![c] = @ + 1]
    /\ UNCHANGED <<out_vc_state, credit, ni_out_vcs, vc_state, buffer, bubbleVars, outport, injected>>
-----------------------------------------------------------------------------
\* Faulty variant: the upstream router is not asked.
OnlyEmpty(p) == IsEmpty(Vc0(p))

\* VC 0 of an inport a bubble may take as it is: empty, and idle upstream.
EmptyAndIdle(p) == IsEmpty(Vc0(p)) /\ IsIdle(Vc0(p))

\* VC 0 of an inport whose packet a bubble may displace.
HoldsPacket(p) == ~IsEmpty(Vc0(p)) /\ ~IsIdle(Vc0(p))

\* Faulty variants: the credit of the VC given back is not returned, or its
\* upstream state is not reset.
ExchangeKeepingCredit(o, p) ==
    /\ credit' = [credit EXCEPT ![Vc0(p)] = @ - 1]
    /\ out_vc_state' = [out_vc_state EXCEPT ![Vc0(p)] = "ACTIVE_", ![Vc0(o)] = "IDLE_"]
    /\ vc_state' = [vc_state EXCEPT ![Vc0(p)] = "ACTIVE_", ![Vc0(o)] = "IDLE_"]
    /\ UNCHANGED <<ni_out_vcs, link, buffer, credit_link, flitVars>>

ExchangeKeepingActive(o, p) ==
    /\ credit' = [credit EXCEPT ![Vc0(p)] = @ - 1, ![Vc0(o)] = @ + 1]
    /\ out_vc_state' = [out_vc_state EXCEPT ![Vc0(p)] = "ACTIVE_"]
    /\ vc_state' = [vc_state EXCEPT ![Vc0(p)] = "ACTIVE_", ![Vc0(o)] = "IDLE_"]
    /\ UNCHANGED <<ni_out_vcs, link, buffer, credit_link, flitVars>>

\* The credit management of an exchange with an empty, idle VC 0: the bubble
\* takes VC 0 of inport p and gives back VC 0 of inport o.
ExchangeWithEmpty(o, p) ==
    /\ credit' = [credit EXCEPT ![Vc0(p)] = @ - 1, ![Vc0(o)] = @ + 1]
    /\ out_vc_state' = [out_vc_state EXCEPT ![Vc0(p)] = "ACTIVE_", ![Vc0(o)] = "IDLE_"]
    /\ vc_state' = [vc_state EXCEPT ![Vc0(p)] = "ACTIVE_", ![Vc0(o)] = "IDLE_"]
    /\ UNCHANGED <<ni_out_vcs, link, buffer, credit_link, flitVars>>

\* Faulty variant: the flit is read and not taken out.
CopyFlit(o, p, f) ==
    /\ buffer' = [buffer EXCEPT ![Vc0(o)] = @ \cup {f}]
    /\ UNCHANGED <<out_vc_state, credit, ni_out_vcs, link, vc_state, credit_link, injected, received>>

\* The exchange with a packet: the flit f in VC 0 of inport p moves to VC 0
\* of inport o; no credit is touched.
ExchangeWithFlit(o, p, f) ==
    /\ buffer' = [buffer EXCEPT ![Vc0(p)] = @ \ {f}, ![Vc0(o)] = @ \cup {f}]
    /\ UNCHANGED <<out_vc_state, credit, ni_out_vcs, link, vc_state, credit_link, injected, received>>

\* move_intra_bubble for one inport drawn by random(); the draws that find
\* nothing to exchange with leave the state unchanged.
move_intra_bubble(b, p) ==
    /\ bubble_init
    /\ p \in Inports(Router(b))
    /\ \A a \in Bubbles \ {b} : bubble[a].inport # p
    /\ \/ /\ EmptyAndIdle(p)
          /\ ExchangeWithEmpty(bubble[b].inport, p)
       \/ /\ HoldsPacket(p)
          /\ \E f \in buffer[Vc0(p)] : ExchangeWithFlit(bubble[b].inport, p, f)
          /\ UNCHANGED outport
    /\ bubble' = [bubble EXCEPT ![b].inport = p]
    /\ UNCHANGED bubble_init

\* Faulty variants: no test for "Local", no new route.
AnyPacket(f)    == TRUE
KeepRoute(r, f) == UNCHANGED outport

\* A packet that is about to leave the network stays where it is; any other
\* one gets the route of the router the bubble brings it to.
NotEjecting(f) == outport[f] \notin ExtOutLinks
Reroute(r, f)  == route_compute(r, f)

\* move_inter_bubble: move_next_router first sets sense_inc; the bubble then
\* exchanges with an inport of the next router, or every draw fails.
move_inter_bubble(b) ==
    LET o   == bubble[b].inport
        hop == NextHop[Router(b)][bubble[b].sense_inc]
    IN  /\ bubble_init
        /\ \/ /\ bubble' = [bubble EXCEPT ![b].sense_inc = hop[2]]
              /\ UNCHANGED <<chanVars, flitVars>>
           \/ \E p \in Inports(hop[1]) :
                 /\ \/ /\ EmptyAndIdle(p)
                       /\ ExchangeWithEmpty(o, p)
                    \/ /\ HoldsPacket(p)
                       /\ \E f \in buffer[Vc0(p)] : /\ NotEjecting(f)
                                                    /\ ExchangeWithFlit(o, p, f)
                                                    /\ Reroute(o[2], f)
                 /\ bubble' = [bubble EXCEPT ![b] = [inport |-> p, sense_inc |-> hop[2]]]
        /\ UNCHANGED bubble_init

Next ==
    \/ init_brownian_bubbles
    \/ \E f \in Flits : flitisizeMessage(f)
    \/ \E c \in Channels : \/ scheduleOutputLink(c)
                           \/ InputUnit_wakeup(c)
                           \/ arbitrate_outports(c)
                           \/ OutputUnit_wakeup(c)
                           \/ NI_receive(c)
    \/ \E b \in Bubbles : \/ \E p \in IntLinks : move_intra_bubble(b, p)
                          \/ move_inter_bubble(b)

Spec == Init /\ [][Next]_vars

\* Handlers that have work are run: every unit schedules a wakeup for what it
\* puts in a queue.  Switch allocation is retried in every cycle
\* (check_for_wakeup) and served round robin, and bubbles move at random, so
\* a router whose allocator can grant again and again does grant.  Every
\* inter period tries to move every bubble, and random() finds an inport it
\* can exchange with if one stays available.
switch_allocation(r) == \E c \in Channels : c[1][2] = r /\ arbitrate_outports(c)
inter_exchange(b)    == move_inter_bubble(b) /\ bubble'[b].inport # bubble[b].inport

Fairness ==
    /\ WF_vars(init_brownian_bubbles)
    /\ \A c \in Channels : /\ WF_vars(scheduleOutputLink(c))
                           /\ WF_vars(InputUnit_wakeup(c))
                           /\ WF_vars(OutputUnit_wakeup(c))
                           /\ WF_vars(NI_receive(c))
    /\ \A r \in Routers : SF_vars(switch_allocation(r))
    /\ \A b \in Bubbles : WF_vars(inter_exchange(b))

FairSpec == Spec /\ Fairness
-----------------------------------------------------------------------------
VcStates == {"IDLE_", "ACTIVE_"}

ChannelTypes ==
    /\ out_vc_state \in [Channels -> VcStates]
    /\ credit \in [Channels -> Int]
    /\ ni_out_vcs \in [Channels -> SUBSET Flits]
    /\ link \in [Channels -> SUBSET Flits]
    /\ vc_state \in [Channels -> VcStates]
    /\ buffer \in [Channels -> SUBSET Flits]
    /\ credit_link \in [Channels -> Int]

BubbleTypes ==
    /\ bubble \in [Bubbles -> [inport : IntLinks \cup {NoLink}, sense_inc : BOOLEAN]]
    /\ bubble_init \in BOOLEAN

FlitTypes ==
    /\ outport \in [Flits -> Links \cup {NoLink}]
    /\ injected \subseteq Flits
    /\ received \subseteq Flits

\* Every variable keeps its type, and credit counts stay within the bounds
\* that OutVcState asserts: 0 and m_max_credit_count.
TypeOK ==
    /\ ChannelTypes
    /\ BubbleTypes
    /\ FlitTypes
    /\ \A c \in Channels : /\ credit[c] \in 0 .. BuffersPerVC[c[2]]
                           /\ credit_link[c] \in 0 .. BuffersPerVC[c[2]]

IsBubble(c) == \E b \in Bubbles : c = Vc0(bubble[b].inport)

\* The phases of a channel.
Quiet(c)   == ni_out_vcs[c] = {} /\ link[c] = {} /\ buffer[c] = {}
Full(c)    == credit[c] = BuffersPerVC[c[2]]
OneUsed(c) == credit[c] = BuffersPerVC[c[2]] - 1

Unused(c) ==
    /\ IsIdle(c) /\ Full(c) /\ Quiet(c) /\ vc_state[c] = "IDLE_"
    /\ credit_link[c] = 0 /\ ~IsBubble(c)

Queued(c) ==
    /\ ~IsIdle(c) /\ Full(c) /\ vc_state[c] = "IDLE_"
    /\ \E f \in Flits : ni_out_vcs[c] = {f}
    /\ link[c] = {} /\ buffer[c] = {} /\ credit_link[c] = 0 /\ ~IsBubble(c)

Flying(c) ==
    /\ ~IsIdle(c) /\ OneUsed(c) /\ vc_state[c] = "IDLE_"
    /\ \E f \in Flits : link[c] = {f}
    /\ ni_out_vcs[c] = {} /\ buffer[c] = {} /\ credit_link[c] = 0 /\ ~IsBubble(c)

Stored(c) ==
    /\ ~IsIdle(c) /\ OneUsed(c) /\ vc_state[c] = "ACTIVE_"
    /\ \E f \in Flits : buffer[c] = {f}
    /\ ni_out_vcs[c] = {} /\ link[c] = {} /\ credit_link[c] = 0 /\ ~IsBubble(c)

Returning(c) ==
    /\ ~IsIdle(c) /\ OneUsed(c) /\ Quiet(c) /\ vc_state[c] = "IDLE_"
    /\ credit_link[c] = 1 /\ ~IsBubble(c)

Reserved(c) ==
    /\ ~IsIdle(c) /\ OneUsed(c) /\ Quiet(c) /\ vc_state[c] = "ACTIVE_"
    /\ credit_link[c] = 0 /\ IsBubble(c)

Phase(c) == \/ Unused(c)    \/ Queued(c) \/ Flying(c)
            \/ Returning(c) \/ Stored(c) \/ Reserved(c)

\* Every channel is in one of six phases: flow control takes it from Unused
\* through Queued (at an NI), Flying, Stored and Returning back to Unused,
\* and a bubble turns Unused or Stored into Reserved and back.
ChannelPhases == \A c \in Channels : Phase(c)

\* The upstream credit count, the flits on their way, the flit stored, the
\* credits on their way back and the slot a bubble occupies always add up to
\* the depth of the VC: exchanging a bubble (lines 407-416, 526-534, 439-457,
\* 563-596 of GarnetNetwork.cc) while flits and credits are on the wires
\* neither mints nor loses a credit.
CreditConservation ==
    \A c \in Channels :
        credit[c] + Cardinality(link[c]) + Cardinality(buffer[c]) + credit_link[c]
            + (IF IsBubble(c) THEN 1 ELSE 0)
        = BuffersPerVC[c[2]]

\* The upstream router believes a VC is idle exactly when nothing at all uses
\* it: no flit queued, flying or stored, no credit returning, no bubble.
IdleMeansUnused ==
    \A c \in Channels :
        IsIdle(c) <=> /\ ni_out_vcs[c] = {} /\ link[c] = {} /\ buffer[c] = {}
                      /\ credit_link[c] = 0
                      /\ ~IsBubble(c)

\* Once placed, a bubble keeps VC 0 of its inport empty: nothing is stored in
\* it or under way to it, and the upstream router may not allocate it.
BubbleReserved ==
    bubble_init =>
        \A b \in Bubbles :
            LET c == Vc0(bubble[b].inport)
            IN  /\ bubble[b].inport \in IntLinks
                /\ link[c] = {} /\ buffer[c] = {} /\ credit_link[c] = 0
                /\ out_vc_state[c] = "ACTIVE_" /\ vc_state[c] = "ACTIVE_"

\* Two bubbles never hold the same inport, although move_inter_bubble does
\* not compare the port it takes with the ports of the other bubbles.
BubblesDistinct ==
    bubble_init =>
        \A a, b \in Bubbles : bubble[a].inport = bubble[b].inport => a = b

\* assert(m_vcs[vc]->get_state() == IDLE_) in InputUnit::wakeup: a flit that
\* arrives at a router finds its VC idle.
ArrivalFindsIdleVC ==
    \A c \in Channels :
        link[c] # {} /\ c[1] \notin ExtOutLinks => vc_state[c] = "IDLE_"

\* assert(0) at the end of move_intra_bubble and the assertion of
\* VirtualChannel::need_stage: a VC that stores a flit is active at both ends.
OccupiedVCsActive ==
    \A c \in Channels :
        buffer[c] # {} => out_vc_state[c] = "ACTIVE_" /\ vc_state[c] = "ACTIVE_"

\* assert(t_flit->get_outport() == outport) in arbitrate_outports: wherever
\* the bubbles have carried it, a stored flit asks for an output port that
\* routing gives at the router which stores it.
OutportIsRoute ==
    \A c \in Channels : \A f \in buffer[c] : outport[f] \in Route[c[1][2]][DestNI[f]]

Places(f) == {<<c, "ni">> : c \in {d \in Channels : f \in ni_out_vcs[d]}}
        \cup {<<c, "link">> : c \in {d \in Channels : f \in link[d]}}
        \cup {<<c, "vc">> : c \in {d \in Channels : f \in buffer[d]}}

\* No flit is lost or duplicated: a flit is in one place of the network from
\* its injection to its reception, and nowhere before and after.
FlitOnce ==
    /\ received \subseteq injected
    /\ \A f \in Flits : /\ f \in injected \ received <=> Places(f) # {}
                        /\ \A p, q \in Places(f) : p = q

\* A flit stays in the VCs of its virtual network, which switch allocation
\* reads off the input VC, and leaves the network at its destination NI.
RightVnetAndNI ==
    \A c \in Channels : \A f \in ni_out_vcs[c] \cup link[c] \cup buffer[c] :
        /\ VnetOfVc(c[2]) = VnetOf[f]
        /\ c[1] \in ExtOutLinks => c[1][2] = DestNI[f]

\* The parts of the inductive invariant that no property states: where the
\* bubbles are before and after their placement, that no channel between
\* routers is used before it, and that a stored flit has been routed.
BubblesPlaced ==
    \A b \in Bubbles : IF bubble_init THEN bubble[b].inport \in IntLinks
                                      ELSE bubble[b].inport = NoLink

QuietBeforeInit == ~bubble_init => \A c \in Channels : c[1] \in IntLinks => Unused(c)

StoredRouted == \A c \in Channels : \A f \in buffer[c] : outport[f] \in Links

\* The inductive invariant of the credit discipline: init_brownian_bubbles,
\* the flow control handlers and the bubble exchanges all preserve it.
IInv ==
    /\ ChannelTypes
    /\ BubbleTypes
    /\ FlitTypes
    /\ ChannelPhases
    /\ BubblesDistinct
    /\ BubblesPlaced
    /\ QuietBeforeInit
    /\ StoredRouted

\* A bubble never carries a flit out of its destination router: a flit stored
\* there leaves only towards its NI (the "Local" test of move_inter_bubble).
ArrivedStays ==
    [][\A c \in Channels : \A f \in buffer[c] :
          c[1][2] = RouterOf[DestNI[f]] =>
              \E d \in Channels : \/ f \in buffer'[d] /\ d[1][2] = c[1][2]
                                  \/ f \in link'[d] /\ d[1] = ExtOutLink(DestNI[f])]_vars

\* Every injected flit is received, bubbles or not: under Fairness no flit
\* waits for ever and none is carried around for ever.
Delivered == \A f \in Flits : (f \in injected) ~> (f \in received)
=============================================================================
