------------------------------ MODULE BinduNet -------------------------------
(***************************************************************************)
(* Bindu implements BubbleNet: a channel is a slot, wherever its flit is   *)
(* (waiting in the interface, on the wire or stored), and a bubble is in   *)
(* the VC 0 channel of its inport.                                         *)
(***************************************************************************)
EXTENDS Bindu

NetEntry   == [f \in Flits |-> {<<ExtInLink(SrcNI[f]), v>> : v \in VcsOf(VnetOf[f])}]
NetExit    == [f \in Flits |-> {<<ExtOutLink(DestNI[f]), v>> : v \in VcsOf(VnetOf[f])}]
NetHome    == [f \in Flits |-> RouterOf[DestNI[f]]]
NetSite    == [c \in Channels |-> c[1][2]]
NetWalk    == [r \in Routers |-> {NextHop[r][sense][1] : sense \in BOOLEAN}]

\* Routing gives the links a flit may take at a router; it keeps its vnet.
NetAdvance ==
    [c \in Channels |-> [f \in Flits |->
        IF c[1][2] \in Routers
        THEN Route[c[1][2]][DestNI[f]] \X VcsOf(VnetOf[f])
        ELSE {}]]

NetSlot == [c \in Channels |-> ni_out_vcs[c] \cup link[c] \cup buffer[c]]
NetHole == [b \in Bubbles |-> IF bubble_init THEN Vc0(bubble[b].inport) ELSE NoLink]

Net == INSTANCE BubbleNet WITH
    Slots       <- Channels,
    BubbleSlots <- {Vc0(l) : l \in IntLinks},
    NoSlot      <- NoLink,
    Entry       <- NetEntry,
    Advance     <- NetAdvance,
    Exit        <- NetExit,
    Site        <- NetSite,
    Walk        <- NetWalk,
    Home        <- NetHome,
    slot        <- NetSlot,
    hole        <- NetHole

\* The network of routers, links and interfaces, with its credits and its
\* wires, is a network of slots: every handler of Bindu is a step of
\* BubbleNet or invisible there.
ImplementsBubbleNet == Net!Spec
=============================================================================
