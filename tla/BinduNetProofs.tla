--------------------------- MODULE BinduNetProofs ----------------------------
(***************************************************************************)
(* Bindu implements BubbleNet, for every topology, number of VCs, buffer   *)
(* depth, number of bubbles and routing function; and what follows: no     *)
(* flit is lost or doubled, and flits stay on their routes.                *)
(***************************************************************************)
EXTENDS BinduProofs, BinduNet

NetP == INSTANCE BubbleNetProofs WITH
    Slots       <- Channels,
    BubbleSlots <- {Vc0(l) : l \in IntLinks},
    NoSlot      <- NoLink,
    Entry       <- NetEntry,
    Advance     <- NetAdvance,
    Exit        <- NetExit,
    Site        <- NetSite,
    Walk        <- NetWalk,
    Home        <- NetHome,
    slot        <- NetSlot,
    hole        <- NetHole

\* The constants of the mapping are as BubbleNet assumes.
LEMMA MappedConstants ==
    /\ {Vc0(l) : l \in IntLinks} \subseteq Channels
    /\ NoLink \notin Channels
    /\ NetEntry \in [Flits -> SUBSET Channels]
    /\ NetAdvance \in [Channels -> [Flits -> SUBSET Channels]]
    /\ NetExit \in [Flits -> SUBSET Channels]
<1>1. \A l \in IntLinks : Vc0(l) \in Channels
  BY LinkFacts DEF Vc0, Channels
<1>2. NoLink \notin Channels
  BY DEF NoLink, Channels
<1>3. \A vnet : VcsOf(vnet) \subseteq VCs
  BY DEF VcsOf
<1>4. \A n \in NIs : ExtInLink(n) \in Links /\ ExtOutLink(n) \in Links
  BY DEF Links, ExtInLinks, ExtOutLinks
<1>5. NetEntry \in [Flits -> SUBSET Channels]
  BY <1>3, <1>4, FlitAssumption DEF NetEntry, Channels
<1>6. NetExit \in [Flits -> SUBSET Channels]
  BY <1>3, <1>4, FlitAssumption DEF NetExit, Channels
<1>7. NetAdvance \in [Channels -> [Flits -> SUBSET Channels]]
  <2>1. \A r \in Routers, f \in Flits : Route[r][DestNI[f]] \X VcsOf(VnetOf[f]) \subseteq Channels
    BY <1>3, LinkFacts, FlitAssumption DEF Channels
  <2>2. QED BY <2>1 DEF NetAdvance
<1>8. QED BY <1>1, <1>2, <1>5, <1>6, <1>7, Zenon

\* What BubbleNetProofs shows of every network of slots holds of this one.
LEMMA OneSlotStep ==
    /\ Net!Init => Net!OneSlotEach
    /\ Net!OneSlotEach /\ [Net!Next]_Net!vars => Net!OneSlotEach'
<1>1. /\ NetP!Init => NetP!OneSlotEach
      /\ NetP!OneSlotEach /\ [NetP!Next]_NetP!vars => NetP!OneSlotEach'
  BY NetP!InitOneSlot, NetP!NextOneSlot, MappedConstants
<1>2. (Net!Init <=> NetP!Init) /\ (Net!OneSlotEach <=> NetP!OneSlotEach)
  BY DEF Net!Init, NetP!Init, Net!OneSlotEach, NetP!OneSlotEach, Net!TypeOK, NetP!TypeOK,
         Net!SlotsOf, NetP!SlotsOf
<1>3. Net!OneSlotEach' <=> NetP!OneSlotEach'
  BY <1>2, PTL
<1>4. Net!Next <=> NetP!Next
  BY DEF Net!Next, NetP!Next, Net!Place, NetP!Place, Net!Inject, NetP!Inject, Net!Receive,
         NetP!Receive, Net!Forward, NetP!Forward, Net!Exchange, NetP!Exchange,
         Net!IsFree, NetP!IsFree, Net!IsHole, NetP!IsHole
<1>5. (UNCHANGED Net!vars) <=> (UNCHANGED NetP!vars)
  BY DEF Net!vars, NetP!vars
<1> QED BY <1>1, <1>2, <1>3, <1>4, <1>5

\* The invariant the refinement rests on: the credit discipline, one slot to
\* a flit, and flits on their routes, in their virtual networks and stored
\* by routers only.
StoredAtRouters == \A c \in Channels : buffer[c] # {} => c[1] \notin ExtOutLinks

OnCourse == OutportIsRoute /\ RightVnetAndNI /\ StoredAtRouters

NetInv == IInv /\ Net!OneSlotEach /\ OnCourse

\* Whoever finds a flit in a part of a channel knows what the rest holds.
LEMMA SlotFacts ==
    ASSUME IInv, NEW c \in Channels
    PROVE  /\ \A f \in ni_out_vcs[c] : NetSlot[c] = {f} /\ link[c] = {} /\ buffer[c] = {}
           /\ \A f \in link[c] : NetSlot[c] = {f} /\ ni_out_vcs[c] = {} /\ buffer[c] = {}
           /\ \A f \in buffer[c] : NetSlot[c] = {f} /\ ni_out_vcs[c] = {} /\ link[c] = {}
           /\ NetSlot[c] # {} => ~IsBubble(c)
           /\ IsIdle(c) => NetSlot[c] = {} /\ ~IsBubble(c)
           /\ NetSlot[c] = ni_out_vcs[c] \cup link[c] \cup buffer[c]
<1>1. Phase(c)
  BY DEF IInv, ChannelPhases
<1>2. NetSlot[c] = ni_out_vcs[c] \cup link[c] \cup buffer[c]
  BY DEF NetSlot
<1> QED
  BY <1>1, <1>2 DEF Phase, Unused, Queued, Flying, Stored, Returning, Reserved, Quiet

\* The slot of a placed bubble is the channel it reserves.
LEMMA HoleFacts ==
    ASSUME IInv
    PROVE  /\ \A c \in Channels : Net!IsHole(c) => IsBubble(c)
           /\ \A c \in Channels : IsIdle(c) => Net!IsFree(c)
           /\ bubble_init => \A b \in Bubbles : /\ NetHole[b] = Vc0(bubble[b].inport)
                                                /\ NetHole[b] \in Channels
                                                /\ NetHole[b] # NoLink
<1>1. \A c \in Channels : Net!IsHole(c) => IsBubble(c)
  BY MappedConstants DEF Net!IsHole, NetHole, IsBubble
<1>2. \A c \in Channels : IsIdle(c) => Net!IsFree(c)
  BY <1>1, SlotFacts DEF Net!IsFree
<1>3. ASSUME bubble_init, NEW b \in Bubbles
      PROVE  NetHole[b] = Vc0(bubble[b].inport) /\ NetHole[b] \in Channels
  BY <1>3, LinkFacts DEF NetHole, IInv, BubblesPlaced, Vc0, Channels
<1> QED BY <1>1, <1>2, <1>3, MappedConstants

\* Net sees nothing of a step that moves flits and credits inside a channel.
LEMMA HiddenStep ==
    ASSUME IInv, UNCHANGED bubbleVars, UNCHANGED <<injected, received>>,
           \A c \in Channels : ni_out_vcs'[c] \cup link'[c] \cup buffer'[c]
                                   = ni_out_vcs[c] \cup link[c] \cup buffer[c]
    PROVE  UNCHANGED Net!vars
<1>1. NetSlot' = NetSlot
  BY DEF NetSlot
<1>2. NetHole' = NetHole
  BY DEF NetHole, bubbleVars
<1> QED BY <1>1, <1>2 DEF Net!vars


\* One slot to a flit, and the ends of the external links.
LEMMA FlitFacts ==
    ASSUME NetInv
    PROVE  /\ \A f \in Flits : \A c, d \in Channels : f \in NetSlot[c] /\ f \in NetSlot[d] => c = d
           /\ \A n \in NIs : ExtInLink(n) \notin ExtOutLinks
           /\ \A c \in Channels : NetSlot[c] \subseteq Flits
<1>1. \A f \in Flits : \A c, d \in Channels : f \in NetSlot[c] /\ f \in NetSlot[d] => c = d
  BY DEF NetInv, Net!OneSlotEach, Net!SlotsOf
<1>2. \A n \in NIs : ExtInLink(n) \notin ExtOutLinks
  BY TopologyAssumption DEF ExtInLink, ExtOutLinks, ExtOutLink
<1>3. \A c \in Channels : NetSlot[c] \subseteq Flits
  BY DEF NetInv, Net!OneSlotEach, Net!TypeOK
<1> QED BY <1>1, <1>2, <1>3

\* flitisizeMessage injects the flit into the slot of the idle VC it gets.
LEMMA flitisizeMessageNet ==
    ASSUME NetInv, NEW f \in Flits, flitisizeMessage(f)
    PROVE  Net!Next /\ OnCourse'
<1> USE DEF NetInv, OnCourse
<1>1. PICK v \in VcsOf(VnetOf[f]) :
          /\ IsIdle(<<ExtInLink(SrcNI[f]), v>>)
          /\ ni_out_vcs' = [ni_out_vcs EXCEPT ![<<ExtInLink(SrcNI[f]), v>>] = @ \cup {f}]
  BY Zenon DEF flitisizeMessage, calculateVC
<1>2. PICK c \in Channels : c = <<ExtInLink(SrcNI[f]), v>>
  BY LinkFacts, FlitAssumption, ZenonT(40) DEF VcsOf, Channels
<1>3. /\ f \notin injected /\ injected' = injected \cup {f}
      /\ UNCHANGED <<link, buffer, bubble, bubble_init, outport, received>>
  BY DEF flitisizeMessage, bubbleVars
<1>4. NetSlot[c] = {} /\ Net!IsFree(c) /\ c \in NetEntry[f]
  BY <1>1, <1>2, SlotFacts, HoleFacts DEF NetEntry
<1>5. \A d \in Channels : ni_out_vcs'[d] = IF d = c THEN {f} ELSE ni_out_vcs[d]
  BY <1>1, <1>2, <1>4, SlotFacts, ZenonT(40) DEF IInv, ChannelTypes
<1>6. NetSlot' = [NetSlot EXCEPT ![c] = {f}]
  BY <1>3, <1>4, <1>5, SlotFacts, ZenonT(40) DEF NetSlot
<1>7. Net!Next
  <2>1. NetHole' = NetHole
    BY <1>3 DEF NetHole
  <2>2. Net!Inject(f, c)
    BY <2>1, <1>3, <1>4, <1>6 DEF Net!Inject
  <2> QED BY <2>2 DEF Net!Next
<1>8. OutportIsRoute' /\ StoredAtRouters'
  BY <1>3 DEF OutportIsRoute, StoredAtRouters
<1>9. RightVnetAndNI'
  <2>1. VnetOfVc(c[2]) = VnetOf[f] /\ c[1] \notin ExtOutLinks
    BY <1>1, <1>2, FlitFacts, FlitAssumption DEF VcsOf
  <2> QED BY <2>1, <1>3, <1>4, <1>5, SlotFacts DEF RightVnetAndNI
<1> QED BY <1>7, <1>8, <1>9

\* A flit that leaves the interface stays in its slot.
LEMMA scheduleOutputLinkNet ==
    ASSUME NetInv, NEW c \in Channels, scheduleOutputLink(c)
    PROVE  UNCHANGED Net!vars /\ OnCourse'
<1> USE DEF NetInv, OnCourse
<1>1. PICK f \in ni_out_vcs[c] :
          /\ ni_out_vcs' = [ni_out_vcs EXCEPT ![c] = @ \ {f}]
          /\ link' = [link EXCEPT ![c] = @ \cup {f}]
  BY Zenon DEF scheduleOutputLink
<1>2. UNCHANGED <<buffer, bubble, bubble_init, outport, injected, received>>
  BY DEF scheduleOutputLink, bubbleVars, flitVars
<1>3. \A d \in Channels : ni_out_vcs'[d] \cup link'[d] \cup buffer'[d]
                              = ni_out_vcs[d] \cup link[d] \cup buffer[d]
  BY <1>1, <1>2 DEF IInv, ChannelTypes
<1>4. UNCHANGED Net!vars
  BY <1>2, <1>3, HiddenStep DEF bubbleVars
<1> QED BY <1>2, <1>3, <1>4 DEF OutportIsRoute, RightVnetAndNI, StoredAtRouters

\* A flit that a router stores stays in its slot, with a route of that
\* router.
LEMMA InputUnit_wakeupNet ==
    ASSUME NetInv, NEW c \in Channels, InputUnit_wakeup(c)
    PROVE  UNCHANGED Net!vars /\ OnCourse'
<1> USE DEF NetInv, OnCourse
<1>1. PICK f \in link[c] :
          /\ link' = [link EXCEPT ![c] = @ \ {f}]
          /\ buffer' = [buffer EXCEPT ![c] = @ \cup {f}]
          /\ \E out \in Route[c[1][2]][DestNI[f]] : outport' = [outport EXCEPT ![f] = out]
  BY Zenon DEF InputUnit_wakeup, route_compute
<1>2. UNCHANGED <<ni_out_vcs, bubble, bubble_init, injected, received>>
  BY DEF InputUnit_wakeup, bubbleVars
<1>3. \A d \in Channels : ni_out_vcs'[d] \cup link'[d] \cup buffer'[d]
                              = ni_out_vcs[d] \cup link[d] \cup buffer[d]
  BY <1>1, <1>2, Zenon DEF IInv, ChannelTypes
<1>4. UNCHANGED Net!vars
  BY <1>2, <1>3, HiddenStep DEF bubbleVars
<1>5. RightVnetAndNI' /\ StoredAtRouters'
  <2>1. RightVnetAndNI'
    BY <1>3 DEF RightVnetAndNI
  <2>2. c[1] \notin ExtOutLinks
    BY DEF InputUnit_wakeup
  <2>3. \A d \in Channels : d # c => buffer'[d] = buffer[d]
    BY <1>1, Zenon DEF IInv, ChannelTypes
  <2> QED BY <2>1, <2>2, <2>3 DEF StoredAtRouters
<1>6. f \in Flits /\ f \in NetSlot[c] /\ NetSlot[c] = {f} /\ buffer[c] = {}
  BY <1>1, SlotFacts, FlitFacts
<1>7. OutportIsRoute'
  <2> SUFFICES ASSUME NEW d \in Channels, NEW g \in buffer'[d]
               PROVE  outport'[g] \in Route[d[1][2]][DestNI[g]]
    BY DEF OutportIsRoute
  <2>1. CASE d = c
    <3>1. g = f
      BY <2>1, <1>1, <1>6 DEF IInv, ChannelTypes
    <3> QED BY <3>1, <2>1, <1>1, <1>6, Zenon DEF IInv, FlitTypes
  <2>2. CASE d # c
    <3>1. g \in buffer[d]
      BY <2>2, <1>1, Zenon DEF IInv, ChannelTypes
    <3>2. g \in NetSlot[d] /\ g \in Flits
      BY <3>1, SlotFacts, FlitFacts, Zenon
    <3>3. g # f
      BY <3>2, <2>2, <1>6, FlitFacts
    <3> QED BY <3>1, <3>2, <3>3, <1>1, Zenon DEF OutportIsRoute, IInv, FlitTypes
  <2> QED BY <2>1, <2>2
<1> QED BY <1>4, <1>5, <1>7

\* A granted flit advances along its route into a free slot of its vnet.
LEMMA arbitrate_outportsNet ==
    ASSUME NetInv, NEW c \in Channels, arbitrate_outports(c)
    PROVE  Net!Next /\ OnCourse'
<1> USE DEF NetInv, OnCourse
<1>1. PICK f \in buffer[c], v \in VCs :
          /\ v \in VcsOf(VnetOfVc(c[2]))
          /\ IsIdle(<<outport[f], v>>)
          /\ link' = [link EXCEPT ![<<outport[f], v>>] = @ \cup {f}]
          /\ buffer' = [buffer EXCEPT ![c] = @ \ {f}]
  BY Zenon DEF arbitrate_outports, select_free_vc
<1>2. UNCHANGED <<ni_out_vcs, bubble, bubble_init, outport, injected, received>>
  BY DEF arbitrate_outports, bubbleVars, flitVars
<1>3. /\ f \in Flits /\ NetSlot[c] = {f} /\ ni_out_vcs[c] = {} /\ link[c] = {}
      /\ VnetOfVc(c[2]) = VnetOf[f] /\ outport[f] \in Route[c[1][2]][DestNI[f]]
  <2>1. NetSlot[c] = {f} /\ ni_out_vcs[c] = {} /\ link[c] = {}
    BY <1>1, SlotFacts
  <2>2. f \in Flits
    BY <2>1, FlitFacts, Zenon
  <2>3. VnetOfVc(c[2]) = VnetOf[f]
    BY <1>1 DEF RightVnetAndNI
  <2>4. outport[f] \in Route[c[1][2]][DestNI[f]]
    BY <1>1 DEF OutportIsRoute
  <2> QED BY <2>1, <2>2, <2>3, <2>4, Zenon
<1>4. c[1][2] \in Routers
  <2>1. c[1] \notin ExtOutLinks
    BY <1>1 DEF StoredAtRouters
  <2> QED BY <2>1, LinkFacts
<1>5. PICK e \in Channels : e = <<outport[f], v>>
  BY <1>1, Zenon DEF IInv, StoredRouted, Channels
<1>6. Net!IsFree(e) /\ NetSlot[e] = {} /\ e # c
  BY <1>1, <1>3, <1>5, SlotFacts, HoleFacts, Zenon
<1>7. e \in NetAdvance[c][f]
  BY <1>1, <1>3, <1>4, <1>5 DEF NetAdvance
<1>8. \A d \in Channels : /\ link'[d] = IF d = e THEN {f} ELSE link[d]
                          /\ buffer'[d] = IF d = c THEN {} ELSE buffer[d]
  <2>1. link[e] = {} /\ buffer[c] = {f}
    BY <1>1, <1>3, <1>6, SlotFacts
  <2> QED BY <2>1, <1>1, <1>5, ZenonT(40) DEF IInv, ChannelTypes
<1>9. \A d \in Channels : NetSlot'[d] = IF d = c THEN {} ELSE IF d = e THEN {f} ELSE NetSlot[d]
  <2> TAKE d \in Channels
  <2>1. NetSlot'[d] = ni_out_vcs[d] \cup link'[d] \cup buffer'[d]
    BY <1>2, Zenon DEF NetSlot
  <2> QED BY <2>1, <1>3, <1>6, <1>8, SlotFacts
<1>10. Net!Next
  <2>1. NetHole' = NetHole
    BY <1>2 DEF NetHole
  <2>2. NetSlot' = [NetSlot EXCEPT ![c] = {}, ![e] = {f}]
    BY <1>6, <1>9, ZenonT(40) DEF NetSlot
  <2>3. Net!Forward(f, c, e)
    BY <2>1, <2>2, <1>2, <1>3, <1>6, <1>7, Zenon DEF Net!Forward
  <2> QED BY <2>3, <1>3 DEF Net!Next
<1>11. OutportIsRoute' /\ StoredAtRouters'
  BY <1>2, <1>8, Zenon DEF OutportIsRoute, StoredAtRouters
<1>12. RightVnetAndNI'
  <2>1. VnetOfVc(e[2]) = VnetOf[f]
    BY <1>1, <1>3, <1>5 DEF VcsOf
  <2>2. e[1] \in ExtOutLinks => e[1][2] = DestNI[f]
    <3>1. DestNI[f] \in NIs
      BY <1>3, FlitAssumption, Zenon
    <3>2. e[1] \in ExtOutLinks => e[1] = ExtOutLink(DestNI[f])
      BY <3>1, <1>3, <1>4, <1>5, RouteAssumption, LinkFacts
    <3> QED BY <3>2 DEF ExtOutLink
  <2>3. \A d \in Channels : NetSlot'[d] = (ni_out_vcs[d] \cup link[d] \cup buffer[d])'
    BY DEF NetSlot
  <2> QED BY <2>1, <2>2, <2>3, <1>9, SlotFacts DEF RightVnetAndNI
<1> QED BY <1>10, <1>11, <1>12

\* A credit that returns is invisible.
LEMMA OutputUnit_wakeupNet ==
    ASSUME NetInv, NEW c \in Channels, OutputUnit_wakeup(c)
    PROVE  UNCHANGED Net!vars /\ OnCourse'
<1> USE DEF NetInv, OnCourse
<1>1. UNCHANGED <<ni_out_vcs, link, buffer, bubble, bubble_init, outport, injected, received>>
  BY Zenon DEF OutputUnit_wakeup, bubbleVars, flitVars
<1>2. UNCHANGED Net!vars
  BY <1>1, HiddenStep DEF bubbleVars
<1> QED BY <1>1, <1>2, Zenon DEF OutportIsRoute, RightVnetAndNI, StoredAtRouters

\* An interface receives from the exit slots of the flit.
LEMMA NI_receiveNet ==
    ASSUME NetInv, NEW c \in Channels, NI_receive(c)
    PROVE  Net!Next /\ OnCourse'
<1> USE DEF NetInv, OnCourse
<1>1. PICK f \in link[c] :
          /\ link' = [link EXCEPT ![c] = @ \ {f}]
          /\ received' = received \cup {f}
  BY Zenon DEF NI_receive
<1>2. /\ c[1] \in ExtOutLinks
      /\ UNCHANGED <<ni_out_vcs, buffer, bubble, bubble_init, outport, injected>>
  BY Zenon DEF NI_receive, bubbleVars
<1>3. /\ f \in Flits /\ NetSlot[c] = {f} /\ ni_out_vcs[c] = {} /\ buffer[c] = {}
      /\ VnetOfVc(c[2]) = VnetOf[f] /\ c[1][2] = DestNI[f]
  BY <1>1, <1>2, SlotFacts, FlitFacts, Zenon DEF RightVnetAndNI
<1>4. \A d \in Channels : link'[d] = IF d = c THEN {} ELSE link[d]
  <2>1. link[c] = {f}
    BY <1>1, <1>3, SlotFacts
  <2> QED BY <2>1, <1>1, Zenon DEF IInv, ChannelTypes
<1>5. NetSlot' = [NetSlot EXCEPT ![c] = {}]
  <2>1. \A d \in Channels : NetSlot'[d] = IF d = c THEN {} ELSE NetSlot[d]
    BY <1>2, <1>3, <1>4 DEF NetSlot
  <2> QED BY <2>1, ZenonT(40) DEF NetSlot
<1>6. c \in NetExit[f]
  <2>1. PICK n \in NIs : c[1] = ExtOutLink(n)
    BY <1>2 DEF ExtOutLinks
  <2>2. n = DestNI[f]
    BY <2>1, <1>3 DEF ExtOutLink
  <2>3. c[2] \in VcsOf(VnetOf[f])
    BY <1>3, LinkFacts DEF VcsOf
  <2>4. c = <<ExtOutLink(DestNI[f]), c[2]>>
    BY <2>1, <2>2, LinkFacts, Zenon
  <2> QED BY <2>3, <2>4, <1>3, Zenon DEF NetExit
<1>7. Net!Next
  <2>1. NetHole' = NetHole
    BY <1>2 DEF NetHole
  <2>2. Net!Receive(f, c)
    BY <2>1, <1>1, <1>2, <1>3, <1>5, <1>6, Zenon DEF Net!Receive
  <2> QED BY <2>2, <1>3, Zenon DEF Net!Next
<1>8. OnCourse'
  BY <1>2, <1>4 DEF OutportIsRoute, RightVnetAndNI, StoredAtRouters
<1> QED BY <1>7, <1>8
-----------------------------------------------------------------------------
\* A function that differs from another at two points.
LEMMA TwoUpdates ==
    ASSUME NEW S, NEW g, g = [x \in S |-> g[x]], NEW h, h = [x \in S |-> h[x]],
           NEW s \in S, NEW t \in S, s # t, NEW A, NEW B,
           \A x \in S : h[x] = IF x = s THEN A ELSE IF x = t THEN B ELSE g[x]
    PROVE  h = [g EXCEPT ![s] = A, ![t] = B]
OBVIOUS

\* A step in which bubble b trades its place at inport o with VC 0 of inport p:
\* what was there goes to the VC the bubble leaves, with a route of its router.
Exchanged(b, o, p) ==
    /\ bubble_init /\ bubble_init' /\ o = bubble[b].inport
    /\ ~IsBubble(Vc0(p))
    /\ \/ p[2] = o[2]
       \/ /\ p[2] \in NetWalk[o[2]]
          /\ \A f \in buffer[Vc0(p)] : RouterOf[DestNI[f]] # p[2]
    /\ ni_out_vcs[Vc0(p)] = {} /\ link[Vc0(p)] = {}
    /\ \A d \in Channels : buffer'[d] = IF d = Vc0(p) THEN {}
                                        ELSE IF d = Vc0(o) THEN buffer[Vc0(p)] ELSE buffer[d]
    /\ UNCHANGED <<ni_out_vcs, link, injected, received>>
    /\ bubble'[b].inport = p
    /\ \A a \in Bubbles \ {b} : bubble'[a].inport = bubble[a].inport
    /\ \A g \in Flits \ buffer[Vc0(p)] : outport'[g] = outport[g]
    /\ \A g \in buffer[Vc0(p)] : outport'[g] \in Route[o[2]][DestNI[g]]

\* Such a step is an exchange of the abstract network, and leaves every flit on
\* course.
LEMMA ExchangeNet ==
    ASSUME NetInv, NEW b \in Bubbles, NEW o, NEW p \in IntLinks, Exchanged(b, o, p)
    PROVE  Net!Next /\ OnCourse'
<1>a. IInv /\ OutportIsRoute /\ RightVnetAndNI /\ StoredAtRouters /\ Net!OneSlotEach
  BY Zenon DEF NetInv, OnCourse
<1>b. /\ bubble_init /\ bubble_init' /\ o = bubble[b].inport /\ ~IsBubble(Vc0(p))
      /\ bubble'[b].inport = p
      /\ \A a \in Bubbles \ {b} : bubble'[a].inport = bubble[a].inport
  BY Zenon DEF Exchanged
<1>c. /\ ni_out_vcs[Vc0(p)] = {} /\ link[Vc0(p)] = {}
      /\ \A d \in Channels : buffer'[d] = IF d = Vc0(p) THEN {}
                                          ELSE IF d = Vc0(o) THEN buffer[Vc0(p)] ELSE buffer[d]
      /\ UNCHANGED <<ni_out_vcs, link, injected, received>>
  BY Zenon DEF Exchanged
<1>d. /\ \A g \in Flits \ buffer[Vc0(p)] : outport'[g] = outport[g]
      /\ \A g \in buffer[Vc0(p)] : outport'[g] \in Route[o[2]][DestNI[g]]
  BY Zenon DEF Exchanged
<1>e. \/ p[2] = o[2]
      \/ /\ p[2] \in NetWalk[o[2]]
         /\ \A f \in buffer[Vc0(p)] : RouterOf[DestNI[f]] # p[2]
  BY Zenon DEF Exchanged
<1>1. /\ o \in IntLinks /\ Vc0(o) \in Channels /\ Vc0(p) \in Channels
      /\ NetHole[b] = Vc0(o) /\ IsBubble(Vc0(o)) /\ Vc0(o) # Vc0(p)
  <2>1. o \in IntLinks
    BY <1>a, <1>b DEF IInv, BubblesPlaced
  <2>2. IsBubble(Vc0(o))
    BY <1>b, Zenon DEF IsBubble
  <2>3. Vc0(o) \in Channels /\ Vc0(p) \in Channels
    BY <2>1, LinkFacts, Zenon DEF Vc0, Channels
  <2> QED BY <2>1, <2>2, <2>3, <1>a, <1>b, HoleFacts, Zenon
<1>2. NetSlot[Vc0(o)] = {} /\ NetSlot[Vc0(p)] = buffer[Vc0(p)]
  <2>1. NetSlot[Vc0(p)] = ni_out_vcs[Vc0(p)] \cup link[Vc0(p)] \cup buffer[Vc0(p)]
    BY <1>a, <1>1, SlotFacts, Zenon
  <2>2. NetSlot[Vc0(o)] = {}
    BY <1>a, <1>1, SlotFacts, Zenon
  <2> QED BY <2>1, <2>2, <1>c
<1>3. \A d \in Channels : NetSlot'[d] = IF d = Vc0(p) THEN {}
                                        ELSE IF d = Vc0(o) THEN NetSlot[Vc0(p)] ELSE NetSlot[d]
  <2> TAKE d \in Channels
  <2>1. NetSlot'[d] = ni_out_vcs[d] \cup link[d] \cup buffer'[d]
    BY <1>c DEF NetSlot
  <2>2. \A c \in Channels : NetSlot[c] = ni_out_vcs[c] \cup link[c] \cup buffer[c]
    BY <1>a, SlotFacts, Zenon
  <2> QED BY <2>1, <2>2, <1>c, <1>1, <1>2, Zenon
<1>4. NetSlot' = [NetSlot EXCEPT ![Vc0(p)] = {}, ![Vc0(o)] = NetSlot[Vc0(p)]]
  <2>1. NetSlot' = [c \in Channels |-> NetSlot'[c]] /\ NetSlot = [c \in Channels |-> NetSlot[c]]
    BY DEF NetSlot
  <2> QED BY <2>1, <1>1, <1>3, TwoUpdates
<1>5. NetHole' = [NetHole EXCEPT ![b] = Vc0(p)]
  BY <1>b, Zenon DEF NetHole
<1>6. Net!Next
  <2>1. NetSite[Vc0(p)] = p[2] /\ NetSite[Vc0(o)] = o[2]
    BY <1>1 DEF NetSite, Vc0
  <2>2. \A f \in NetSlot[Vc0(p)] : NetHome[f] = RouterOf[DestNI[f]]
    BY <1>a, <1>1, FlitFacts, Zenon DEF NetHome
  <2>3. ~Net!IsHole(Vc0(p)) /\ NetHole[b] # NoLink
    BY <1>a, <1>b, <1>1, HoleFacts, Zenon
  <2>4. \/ NetSite[Vc0(p)] = NetSite[NetHole[b]]
        \/ /\ NetSite[Vc0(p)] \in NetWalk[NetSite[NetHole[b]]]
           /\ \A f \in NetSlot[Vc0(p)] : NetHome[f] # NetSite[Vc0(p)]
    BY <1>e, <1>1, <1>2, <2>1, <2>2
  <2>5. NetSlot' = [NetSlot EXCEPT ![Vc0(p)] = {}, ![NetHole[b]] = NetSlot[Vc0(p)]]
    BY <1>1, <1>4
  <2>6. Vc0(p) \in {Vc0(l) : l \in IntLinks}
    OBVIOUS
  <2>7. Net!Exchange(b, Vc0(p))
    BY <2>3, <2>4, <2>5, <2>6, <1>5, <1>c, Zenon DEF Net!Exchange
  <2> QED BY <2>6, <2>7, Zenon DEF Net!Next
<1>8. OutportIsRoute'
  <2> SUFFICES ASSUME NEW d \in Channels, NEW g \in buffer'[d]
               PROVE  outport'[g] \in Route[d[1][2]][DestNI[g]]
    BY Zenon DEF OutportIsRoute
  <2>1. CASE d = Vc0(o)
    BY <2>1, <1>1, <1>c, <1>d, Zenon DEF Vc0
  <2>2. CASE d # Vc0(o)
    <3>1. d # Vc0(p) /\ g \in buffer[d]
      BY <2>2, <1>c, Zenon
    <3>2. g \in NetSlot[d] /\ g \in Flits
      BY <3>1, <1>a, SlotFacts, FlitFacts
    <3>3. g \notin buffer[Vc0(p)]
      BY <3>1, <3>2, <1>a, <1>1, <1>2, FlitFacts, Zenon
    <3> QED BY <3>1, <3>2, <3>3, <1>a, <1>d DEF OutportIsRoute
  <2> QED BY <2>1, <2>2
<1>9. StoredAtRouters'
  BY <1>a, <1>1, <1>c, LinkFacts, Zenon DEF StoredAtRouters, Vc0
<1>10. RightVnetAndNI'
  <2>1. \A g \in buffer[Vc0(p)] : VnetOfVc(0) = VnetOf[g]
    BY <1>a, <1>1, Zenon DEF RightVnetAndNI, Vc0
  <2>2. Vc0(o)[1] \notin ExtOutLinks /\ Vc0(o)[2] = 0
    BY <1>1, LinkFacts DEF Vc0
  <2>3. \A d \in Channels : NetSlot'[d] = (ni_out_vcs[d] \cup link[d] \cup buffer[d])'
    BY DEF NetSlot
  <2>4. \A d \in Channels : NetSlot[d] = ni_out_vcs[d] \cup link[d] \cup buffer[d]
    BY DEF NetSlot
  <2> QED BY <2>1, <2>2, <2>3, <2>4, <1>a, <1>2, <1>3 DEF RightVnetAndNI
<1> QED BY <1>6, <1>8, <1>9, <1>10, Zenon DEF OnCourse

\* The two exchanges, as ExchangeNet sees them.
LEMMA ExchangeEffects ==
    ASSUME IInv, bubble_init, NEW b \in Bubbles, NEW o, o = bubble[b].inport, NEW p \in IntLinks
    PROVE  /\ EmptyAndIdle(p) /\ ExchangeWithEmpty(o, p) =>
                  /\ ~IsBubble(Vc0(p)) /\ buffer[Vc0(p)] = {} /\ ni_out_vcs[Vc0(p)] = {}
                  /\ link[Vc0(p)] = {}
                  /\ \A d \in Channels : buffer'[d] = IF d = Vc0(p) THEN {}
                                             ELSE IF d = Vc0(o) THEN buffer[Vc0(p)] ELSE buffer[d]
                  /\ UNCHANGED <<ni_out_vcs, link, outport, injected, received>>
           /\ \A f \in buffer[Vc0(p)] : ExchangeWithFlit(o, p, f) =>
                  /\ ~IsBubble(Vc0(p)) /\ buffer[Vc0(p)] = {f} /\ ni_out_vcs[Vc0(p)] = {}
                  /\ link[Vc0(p)] = {}
                  /\ \A d \in Channels : buffer'[d] = IF d = Vc0(p) THEN {}
                                             ELSE IF d = Vc0(o) THEN buffer[Vc0(p)] ELSE buffer[d]
                  /\ UNCHANGED <<ni_out_vcs, link, injected, received>>
<1>1. o \in IntLinks /\ Vc0(o) \in Channels /\ Vc0(p) \in Channels /\ IsBubble(Vc0(o))
  <2>1. o \in IntLinks
    BY Zenon DEF IInv, BubblesPlaced
  <2> QED BY <2>1, LinkFacts DEF Vc0, Channels, IsBubble
<1>2. NetSlot[Vc0(o)] = {} /\ buffer[Vc0(o)] = {}
  <2>1. NetSlot[Vc0(o)] = {}
    BY <1>1, SlotFacts, Zenon
  <2> QED BY <2>1, <1>1, SlotFacts, SMTT(30)
<1>3. ASSUME EmptyAndIdle(p), ExchangeWithEmpty(o, p)
      PROVE  /\ ~IsBubble(Vc0(p)) /\ buffer[Vc0(p)] = {} /\ ni_out_vcs[Vc0(p)] = {}
             /\ link[Vc0(p)] = {}
             /\ \A d \in Channels : buffer'[d] = IF d = Vc0(p) THEN {}
                                        ELSE IF d = Vc0(o) THEN buffer[Vc0(p)] ELSE buffer[d]
             /\ UNCHANGED <<ni_out_vcs, link, outport, injected, received>>
  <2>1. NetSlot[Vc0(p)] = {} /\ ~IsBubble(Vc0(p))
    BY <1>1, <1>3, SlotFacts, Zenon DEF EmptyAndIdle
  <2>2. buffer[Vc0(p)] = {} /\ ni_out_vcs[Vc0(p)] = {} /\ link[Vc0(p)] = {}
    BY <2>1, <1>1, SlotFacts, Zenon
  <2>3. UNCHANGED <<ni_out_vcs, link, buffer, outport, injected, received>>
    BY <1>3 DEF ExchangeWithEmpty, flitVars
  <2> QED BY <2>1, <2>2, <2>3, <1>2
<1>4. ASSUME NEW f \in buffer[Vc0(p)], ExchangeWithFlit(o, p, f)
      PROVE  /\ ~IsBubble(Vc0(p)) /\ buffer[Vc0(p)] = {f} /\ ni_out_vcs[Vc0(p)] = {}
             /\ link[Vc0(p)] = {}
             /\ \A d \in Channels : buffer'[d] = IF d = Vc0(p) THEN {}
                                        ELSE IF d = Vc0(o) THEN buffer[Vc0(p)] ELSE buffer[d]
             /\ UNCHANGED <<ni_out_vcs, link, injected, received>>
  <2>1. NetSlot[Vc0(p)] = {f} /\ ni_out_vcs[Vc0(p)] = {} /\ link[Vc0(p)] = {}
    BY <1>1, SlotFacts, Zenon
  <2>2. ~IsBubble(Vc0(p)) /\ buffer[Vc0(p)] = {f}
    <3>1. NetSlot[Vc0(p)] # {}
      BY <2>1
    <3> QED BY <3>1, <2>1, <1>1, SlotFacts, Zenon
  <2>3. /\ buffer' = [buffer EXCEPT ![Vc0(p)] = @ \ {f}, ![Vc0(o)] = @ \cup {f}]
        /\ UNCHANGED <<ni_out_vcs, link, injected, received>>
    BY <1>4 DEF ExchangeWithFlit
  <2>4. Vc0(p) # Vc0(o)
    BY <2>2, <1>1
  <2>5. \A d \in Channels : buffer'[d] = IF d = Vc0(p) THEN buffer[d] \ {f}
                                         ELSE IF d = Vc0(o) THEN buffer[d] \cup {f} ELSE buffer[d]
    BY <2>3, <2>4, <1>1, ZenonT(40) DEF IInv, ChannelTypes
  <2> QED BY <2>1, <2>2, <2>3, <2>4, <2>5, <1>2, ZenonT(40)
<1> QED BY <1>3, <1>4, Zenon

\* move_intra_bubble exchanges within a router.
LEMMA move_intra_bubbleNet ==
    ASSUME NetInv, NEW b \in Bubbles, NEW p \in IntLinks, move_intra_bubble(b, p)
    PROVE  Net!Next /\ OnCourse'
<1>a. IInv /\ OutportIsRoute /\ RightVnetAndNI /\ StoredAtRouters
  BY DEF NetInv, OnCourse
<1>1. PICK o \in IntLinks : o = bubble[b].inport
  BY <1>a DEF move_intra_bubble, IInv, BubblesPlaced
<1>2. /\ bubble_init /\ bubble_init' /\ p[2] = o[2]
      /\ bubble' = [bubble EXCEPT ![b].inport = p]
  BY <1>1 DEF move_intra_bubble, Inports, Router
<1>3. /\ bubble' \in [Bubbles -> [inport : IntLinks \cup {NoLink}, sense_inc : BOOLEAN]]
      /\ bubble'[b].inport = p
      /\ \A a \in Bubbles \ {b} : bubble'[a].inport = bubble[a].inport
  BY <1>a, <1>2, Zenon DEF IInv, BubbleTypes
<1>4. Vc0(p) \in Channels /\ Vc0(p)[1] = p
  BY LinkFacts DEF Vc0, Channels
<1>5. CASE EmptyAndIdle(p) /\ ExchangeWithEmpty(o, p)
  <2>1. /\ ~IsBubble(Vc0(p)) /\ buffer[Vc0(p)] = {} /\ ni_out_vcs[Vc0(p)] = {} /\ link[Vc0(p)] = {}
        /\ \A d \in Channels : buffer'[d] = IF d = Vc0(p) THEN {}
                                   ELSE IF d = Vc0(o) THEN buffer[Vc0(p)] ELSE buffer[d]
        /\ UNCHANGED <<ni_out_vcs, link, outport, injected, received>>
    BY <1>a, <1>1, <1>2, <1>5, ExchangeEffects
  <2>2. Exchanged(b, o, p)
    BY <2>1, <1>1, <1>2, <1>3, Zenon DEF Exchanged
  <2> QED BY <2>2, ExchangeNet
<1>6. ASSUME NEW f \in buffer[Vc0(p)], ExchangeWithFlit(o, p, f), UNCHANGED outport
      PROVE  Net!Next /\ OnCourse'
  <2>1. \A g \in buffer[Vc0(p)] : outport'[g] \in Route[o[2]][DestNI[g]]
    BY <1>a, <1>2, <1>4, <1>6, Zenon DEF OutportIsRoute
  <2>2. /\ ~IsBubble(Vc0(p)) /\ ni_out_vcs[Vc0(p)] = {} /\ link[Vc0(p)] = {}
        /\ \A d \in Channels : buffer'[d] = IF d = Vc0(p) THEN {}
                                   ELSE IF d = Vc0(o) THEN buffer[Vc0(p)] ELSE buffer[d]
        /\ UNCHANGED <<ni_out_vcs, link, injected, received>>
    BY <1>a, <1>1, <1>2, <1>6, ExchangeEffects
  <2>3. Exchanged(b, o, p)
    BY <2>1, <2>2, <1>1, <1>2, <1>3, <1>6 DEF Exchanged
  <2> QED BY <2>3, ExchangeNet
<1> QED BY <1>1, <1>5, <1>6, Zenon DEF move_intra_bubble

\* move_inter_bubble exchanges with a router of the walk, or changes only the
\* sense of the bubble; what it displaces had not arrived.
LEMMA move_inter_bubbleNet ==
    ASSUME NetInv, NEW b \in Bubbles, move_inter_bubble(b)
    PROVE  [Net!Next]_Net!vars /\ OnCourse'
<1>a. IInv /\ OutportIsRoute /\ RightVnetAndNI /\ StoredAtRouters
  BY Zenon DEF NetInv, OnCourse
<1>1. PICK o \in IntLinks : o = bubble[b].inport
  BY <1>a DEF move_inter_bubble, IInv, BubblesPlaced
<1>2. PICK hop \in Routers \X BOOLEAN : hop = NextHop[Router(b)][bubble[b].sense_inc]
  <2>1. Router(b) \in Routers /\ bubble[b].sense_inc \in BOOLEAN
    BY <1>a, <1>1, LinkFacts DEF Router, IInv, BubbleTypes
  <2> QED BY <2>1, BubbleAssumption
<1>3. hop[1] \in NetWalk[o[2]] /\ o[2] \in Routers
  <2>1. o[2] \in Routers /\ bubble[b].sense_inc \in BOOLEAN
    BY <1>a, <1>1, LinkFacts, Zenon DEF IInv, BubbleTypes
  <2> QED BY <2>1, <1>1, <1>2, Zenon DEF NetWalk, Router
<1>4. bubble_init /\ bubble_init'
  BY DEF move_inter_bubble
<1>5. CASE /\ bubble' = [bubble EXCEPT ![b].sense_inc = hop[2]]
           /\ UNCHANGED <<chanVars, flitVars>>
  <2>1. UNCHANGED <<ni_out_vcs, link, buffer, outport, injected, received>>
    BY <1>5 DEF chanVars, flitVars
  <2>2. \A a \in Bubbles : bubble'[a].inport = bubble[a].inport
    BY <1>a, <1>5 DEF IInv, BubbleTypes
  <2>3. NetHole' = NetHole
    BY <2>2, <1>4 DEF NetHole
  <2>4. NetSlot' = NetSlot
    BY <2>1 DEF NetSlot
  <2>5. UNCHANGED Net!vars
    BY <2>1, <2>3, <2>4, Zenon DEF Net!vars
  <2> QED BY <1>a, <2>1, <2>5 DEF OnCourse, OutportIsRoute, RightVnetAndNI, StoredAtRouters
<1>6. ASSUME NEW p \in Inports(hop[1]),
             bubble' = [bubble EXCEPT ![b] = [inport |-> p, sense_inc |-> hop[2]]]
      PROVE  /\ bubble' \in [Bubbles -> [inport : IntLinks \cup {NoLink}, sense_inc : BOOLEAN]]
             /\ bubble'[b].inport = p /\ p \in IntLinks /\ p[2] = hop[1]
             /\ \A a \in Bubbles \ {b} : bubble'[a].inport = bubble[a].inport
  BY <1>a, <1>6, Zenon DEF IInv, BubbleTypes, Inports
<1>7. ASSUME NEW p \in Inports(hop[1]), EmptyAndIdle(p), ExchangeWithEmpty(o, p),
             bubble' = [bubble EXCEPT ![b] = [inport |-> p, sense_inc |-> hop[2]]]
      PROVE  Net!Next /\ OnCourse'
  <2>1. /\ bubble' \in [Bubbles -> [inport : IntLinks \cup {NoLink}, sense_inc : BOOLEAN]]
        /\ bubble'[b].inport = p /\ p \in IntLinks /\ p[2] = hop[1]
        /\ \A a \in Bubbles \ {b} : bubble'[a].inport = bubble[a].inport
    BY <1>6, <1>7, Zenon
  <2>2. /\ ~IsBubble(Vc0(p)) /\ buffer[Vc0(p)] = {} /\ ni_out_vcs[Vc0(p)] = {} /\ link[Vc0(p)] = {}
        /\ \A d \in Channels : buffer'[d] = IF d = Vc0(p) THEN {}
                                   ELSE IF d = Vc0(o) THEN buffer[Vc0(p)] ELSE buffer[d]
        /\ UNCHANGED <<ni_out_vcs, link, outport, injected, received>>
    BY <2>1, <1>a, <1>1, <1>4, <1>7, ExchangeEffects
  <2>3. Exchanged(b, o, p)
    BY <2>1, <2>2, <1>1, <1>3, <1>4, Zenon DEF Exchanged
  <2> QED BY <2>1, <2>3, ExchangeNet
<1>8. ASSUME NEW p \in Inports(hop[1]), NEW f \in buffer[Vc0(p)], NotEjecting(f),
             ExchangeWithFlit(o, p, f),
             NEW out \in Route[o[2]][DestNI[f]], outport' = [outport EXCEPT ![f] = out],
             bubble' = [bubble EXCEPT ![b] = [inport |-> p, sense_inc |-> hop[2]]]
      PROVE  Net!Next /\ OnCourse'
  <2>1. /\ bubble' \in [Bubbles -> [inport : IntLinks \cup {NoLink}, sense_inc : BOOLEAN]]
        /\ bubble'[b].inport = p /\ p \in IntLinks /\ p[2] = hop[1]
        /\ \A a \in Bubbles \ {b} : bubble'[a].inport = bubble[a].inport
    BY <1>6, <1>8, ZenonT(40)
  <2>2. Vc0(p) \in Channels /\ Vc0(p)[1] = p /\ p[2] \in Routers /\ f \in Flits /\ DestNI[f] \in NIs
    <3>1. Vc0(p) \in Channels /\ Vc0(p)[1] = p /\ p[2] \in Routers
      BY <2>1, LinkFacts, Zenon DEF Vc0, Channels
    <3>2. f \in Flits
      BY <3>1, <1>a, Zenon DEF IInv, ChannelTypes
    <3> QED BY <3>1, <3>2, FlitAssumption, Zenon
  <2>3. RouterOf[DestNI[f]] # p[2]
    <3>1. outport[f] \in Route[p[2]][DestNI[f]] /\ outport[f] \notin ExtOutLinks
      BY <1>a, <2>2, <1>8 DEF OutportIsRoute, NotEjecting
    <3>2. ExtOutLink(DestNI[f]) \in ExtOutLinks
      BY <2>2, Zenon DEF ExtOutLinks
    <3> QED BY <3>1, <3>2, <2>2, RouteAssumption
  <2>4. buffer[Vc0(p)] = {f}
    BY <2>1, <1>a, <1>1, <1>4, <1>8, ExchangeEffects
  <2>5. /\ \A g \in Flits \ buffer[Vc0(p)] : outport'[g] = outport[g]
        /\ \A g \in buffer[Vc0(p)] : outport'[g] \in Route[o[2]][DestNI[g]]
    BY <1>a, <2>2, <2>4, <1>8, Zenon DEF IInv, FlitTypes
  <2>6. /\ ~IsBubble(Vc0(p)) /\ ni_out_vcs[Vc0(p)] = {} /\ link[Vc0(p)] = {}
        /\ \A d \in Channels : buffer'[d] = IF d = Vc0(p) THEN {}
                                   ELSE IF d = Vc0(o) THEN buffer[Vc0(p)] ELSE buffer[d]
        /\ UNCHANGED <<ni_out_vcs, link, injected, received>>
    BY <2>1, <1>a, <1>1, <1>4, <1>8, ExchangeEffects
  <2>7. \A g \in buffer[Vc0(p)] : RouterOf[DestNI[g]] # p[2]
    BY <2>3, <2>4
  <2>8. Exchanged(b, o, p)
    BY <2>1, <2>5, <2>6, <2>7, <1>1, <1>3, <1>4, Zenon DEF Exchanged
  <2> QED BY <2>1, <2>8, ExchangeNet
<1> QED BY <1>1, <1>2, <1>5, <1>7, <1>8, Zenon DEF move_inter_bubble, Reroute, route_compute

\* init_brownian_bubbles places every bubble in an empty slot of its own.
LEMMA init_brownian_bubblesNet ==
    ASSUME NetInv, init_brownian_bubbles
    PROVE  Net!Next /\ OnCourse'
<1> USE DEF NetInv, OnCourse
<1>1. PICK place \in Placements :
          bubble' = [k \in Bubbles |-> [inport |-> FirstInport(place[k]), sense_inc |-> TRUE]]
  BY Zenon DEF init_brownian_bubbles
<1>2. /\ ~bubble_init /\ bubble_init'
      /\ UNCHANGED <<ni_out_vcs, link, buffer, outport, injected, received>>
  BY Zenon DEF init_brownian_bubbles, flitVars
<1>3. \A k \in Bubbles : /\ NetHole[k] = NoLink
                         /\ NetHole'[k] = Vc0(FirstInport(place[k]))
                         /\ FirstInport(place[k]) \in IntLinks
                         /\ FirstInport(place[k])[2] = place[k]
  <2>1. \A k \in Bubbles : NetHole[k] = NoLink
    BY <1>2, Zenon DEF NetHole
  <2>2. \A k \in Bubbles : NetHole'[k] = Vc0(FirstInport(place[k]))
    BY <1>1, <1>2 DEF NetHole
  <2> QED BY <2>1, <2>2, PlacementFacts, FirstInportFact
<1>4. NetHole' \in [Bubbles -> {Vc0(l) : l \in IntLinks}]
  <2>1. NetHole' = [k \in Bubbles |-> NetHole'[k]]
    BY DEF NetHole
  <2>2. \A k \in Bubbles : NetHole'[k] \in {Vc0(l) : l \in IntLinks}
    BY <1>3, Zenon
  <2> QED BY <2>1, <2>2, Zenon
<1>5. \A b \in Bubbles : NetSlot[NetHole'[b]] = {}
  <2> TAKE b \in Bubbles
  <2>1. PICK c \in Channels : c = NetHole'[b] /\ c[1] \in IntLinks
    <3>1. FirstInport(place[b]) \in IntLinks
      BY <1>3
    <3>2. Vc0(FirstInport(place[b])) \in Channels /\ Vc0(FirstInport(place[b]))[1] \in IntLinks
      BY <3>1, LinkFacts DEF Vc0, Channels
    <3> QED BY <3>2, <1>3
  <2>2. Unused(c)
    BY <2>1, <1>2, Zenon DEF IInv, QuietBeforeInit
  <2> QED BY <2>1, <2>2, SlotFacts DEF Unused
<1>6. \A a, b \in Bubbles : NetHole'[a] = NetHole'[b] => a = b
  <2> TAKE a, b \in Bubbles
  <2>1. NetHole'[a] = NetHole'[b] => FirstInport(place[a]) = FirstInport(place[b])
    BY <1>3 DEF Vc0
  <2> QED BY <2>1, <1>3, PlacementFacts
<1>7. NetSlot' = NetSlot
  BY <1>2 DEF NetSlot
<1>8. Net!Place
  BY <1>2, <1>3, <1>4, <1>5, <1>6, <1>7, Zenon DEF Net!Place
<1>9. OnCourse'
  BY <1>2 DEF OutportIsRoute, RightVnetAndNI, StoredAtRouters
<1> QED BY <1>8, <1>9, Zenon DEF Net!Next

\* Every step of the network is a step of the network of slots or leaves it
\* alone, and keeps flits on their courses.
LEMMA NextNet == NetInv /\ [Next]_vars => [Net!Next]_Net!vars /\ OnCourse'
<1> SUFFICES ASSUME NetInv, [Next]_vars PROVE [Net!Next]_Net!vars /\ OnCourse'
  OBVIOUS
<1>1. CASE init_brownian_bubbles
  BY <1>1, init_brownian_bubblesNet
<1>2. ASSUME NEW f \in Flits, flitisizeMessage(f) PROVE [Net!Next]_Net!vars /\ OnCourse'
  BY <1>2, flitisizeMessageNet
<1>3. ASSUME NEW c \in Channels, scheduleOutputLink(c) PROVE [Net!Next]_Net!vars /\ OnCourse'
  BY <1>3, scheduleOutputLinkNet
<1>4. ASSUME NEW c \in Channels, InputUnit_wakeup(c) PROVE [Net!Next]_Net!vars /\ OnCourse'
  BY <1>4, InputUnit_wakeupNet
<1>5. ASSUME NEW c \in Channels, arbitrate_outports(c) PROVE [Net!Next]_Net!vars /\ OnCourse'
  BY <1>5, arbitrate_outportsNet
<1>6. ASSUME NEW c \in Channels, OutputUnit_wakeup(c) PROVE [Net!Next]_Net!vars /\ OnCourse'
  BY <1>6, OutputUnit_wakeupNet
<1>7. ASSUME NEW c \in Channels, NI_receive(c) PROVE [Net!Next]_Net!vars /\ OnCourse'
  BY <1>7, NI_receiveNet
<1>8. ASSUME NEW b \in Bubbles, NEW p \in IntLinks, move_intra_bubble(b, p)
      PROVE  [Net!Next]_Net!vars /\ OnCourse'
  BY <1>8, move_intra_bubbleNet
<1>9. ASSUME NEW b \in Bubbles, move_inter_bubble(b) PROVE [Net!Next]_Net!vars /\ OnCourse'
  BY <1>9, move_inter_bubbleNet, Zenon
<1>10. CASE UNCHANGED vars
  <2>1. UNCHANGED <<ni_out_vcs, link, buffer, bubble, bubble_init, outport, injected, received>>
    BY <1>10, SMTT(30) DEF vars, chanVars, bubbleVars, flitVars
  <2>2. UNCHANGED Net!vars
    BY <2>1, HiddenStep, Zenon DEF NetInv, bubbleVars
  <2> QED BY <2>1, <2>2 DEF NetInv, OnCourse, OutportIsRoute, RightVnetAndNI, StoredAtRouters
<1> QED
  BY <1>1, <1>2, <1>3, <1>4, <1>5, <1>6, <1>7, <1>8, <1>9, <1>10, Zenon DEF Next

\* The network starts as an empty network of slots.
LEMMA InitNet == Init => Net!Init /\ OnCourse
<1> SUFFICES ASSUME Init PROVE Net!Init /\ OnCourse
  BY Zenon
<1>1. NetSlot = [c \in Channels |-> {}]
  BY Zenon DEF Init, NetSlot
<1>2. NetHole = [b \in Bubbles |-> NoLink]
  BY DEF Init, NetHole
<1>3. Net!Init
  BY <1>1, <1>2, Zenon DEF Init, Net!Init
<1> QED BY <1>3 DEF Init, OnCourse, OutportIsRoute, RightVnetAndNI, StoredAtRouters

\* The credit discipline, the slots and the courses of the flits hold
\* together throughout every run.
THEOREM NetInvariant == Spec => []NetInv
<1>1. Init => NetInv
  BY InitIInv, InitNet, OneSlotStep DEF NetInv
<1>2. NetInv /\ [Next]_vars => NetInv'
  BY NextIInv, NextNet, OneSlotStep DEF NetInv
<1> QED BY <1>1, <1>2, PTL DEF Spec

\* The network with its credits, wires and queues implements the network of
\* slots, whatever the topology, the routing function and the bubbles.
THEOREM Refinement == Spec => ImplementsBubbleNet
<1>1. NetInv /\ [Next]_vars => [Net!Next]_Net!vars
  BY NextNet
<1>2. Init => Net!Init
  BY InitNet
<1> QED BY <1>1, <1>2, NetInvariant, PTL DEF Spec, ImplementsBubbleNet, Net!Spec

\* The assertion of arbitrate_outports on the output port of a winner never
\* fails, wherever bubbles have carried the flit.
THEOREM FlitsOnRoute == Spec => []OutportIsRoute
<1>1. NetInv => OutportIsRoute
  BY DEF NetInv, OnCourse
<1> QED BY <1>1, NetInvariant, PTL

\* Flits keep to their virtual network and leave only at their destination.
THEOREM FlitsInVnet == Spec => []RightVnetAndNI
<1>1. NetInv => RightVnetAndNI
  BY Zenon DEF NetInv, OnCourse
<1> QED BY <1>1, NetInvariant, PTL

\* No flit is lost or duplicated between its injection and its reception.
THEOREM FlitsConserved == Spec => []FlitOnce
<1>1. NetInv => FlitOnce
  <2> SUFFICES ASSUME NetInv PROVE FlitOnce
    OBVIOUS
  <2> USE DEF NetInv
  <2>1. received \subseteq injected
    BY DEF Net!OneSlotEach, Net!TypeOK
  <2> SUFFICES ASSUME NEW f \in Flits
               PROVE  /\ f \in injected \ received <=> Places(f) # {}
                      /\ \A p, q \in Places(f) : p = q
    BY <2>1, Zenon DEF FlitOnce
  <2>2. \A p \in Places(f) : \E c \in Channels : /\ f \in NetSlot[c]
                                                 /\ \/ p = <<c, "ni">> /\ f \in ni_out_vcs[c]
                                                    \/ p = <<c, "link">> /\ f \in link[c]
                                                    \/ p = <<c, "vc">> /\ f \in buffer[c]
    <3> TAKE p \in Places(f)
    <3>1. \E c \in Channels : \/ p = <<c, "ni">> /\ f \in ni_out_vcs[c]
                              \/ p = <<c, "link">> /\ f \in link[c]
                              \/ p = <<c, "vc">> /\ f \in buffer[c]
      BY Zenon DEF Places
    <3> QED BY <3>1, SlotFacts, Zenon
  <2>3. ASSUME NEW c \in Channels, f \in NetSlot[c] PROVE Places(f) # {}
    <3>1. f \in ni_out_vcs[c] \/ f \in link[c] \/ f \in buffer[c]
      BY <2>3, SlotFacts
    <3>2. <<c, "ni">> \in Places(f) \/ <<c, "link">> \in Places(f) \/ <<c, "vc">> \in Places(f)
      BY <3>1, Zenon DEF Places
    <3> QED BY <3>2, Zenon
  <2>4. f \in injected \ received <=> \E c \in Channels : f \in NetSlot[c]
    BY Zenon DEF Net!OneSlotEach, Net!SlotsOf
  <2>5. \A p, q \in Places(f) : p = q
    BY <2>2, SlotFacts, FlitFacts
  <2> QED BY <2>2, <2>3, <2>4, <2>5
<1> QED BY <1>1, NetInvariant, PTL
=============================================================================
