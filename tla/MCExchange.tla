----------------------------- MODULE MCExchange -----------------------------
(***************************************************************************)
(* Exchanges with bubbles, in one run over three views of them: slots that *)
(* trade places (BubbleNet), packets in a deadlock (BubbleDrain) and rings *)
(* of a torus (CriticalBubble).  A behaviour is about one view; the        *)
(* variables of the others rest.                                           *)
(***************************************************************************)
EXTENDS MCBubbleNet

VARIABLES
    net,              \* of BubbleDrain
    vc, cbs_bubble,   \* of CriticalBubble
    view

drainVars == <<net>>
cbsVars   == <<vc, cbs_bubble>>

\* Four packets in a 2x2 mesh, one from each router to the opposite one: if
\* all of them turn the same way they fill a ring of links.
Drain == INSTANCE BubbleDrain WITH
    Flits <- MeshRouters, SrcRouter <- [f \in MeshRouters |-> f],
    DestRouter <- [f \in MeshRouters |-> 3 - f], LookAhead <- 5

\* Packets that enter a 3x3 torus in its first row and in its first column.
Cbs == INSTANCE CriticalBubble WITH
    NumRows <- 3, Sources <- {<<1, "East">>, <<3, "South">>}, Dests <- {1, 8},
    bubble <- cbs_bubble

MCInit ==
    /\ Init
    /\ Cbs!Init
    /\ \/ view \in {"slots", "cbs"} /\ net = <<>>
       \/ view = "drain" /\ Drain!Init

MCNext ==
    \/ view = "slots" /\ Next /\ UNCHANGED <<drainVars, cbsVars, view>>
    \/ view = "drain" /\ Drain!Next /\ UNCHANGED <<vars, cbsVars, view>>
    \/ view = "cbs" /\ Cbs!Next /\ UNCHANGED <<vars, drainVars, view>>

MCSpec == MCInit /\ [][MCNext]_<<vars, drainVars, cbsVars, view>>
-----------------------------------------------------------------------------
\* Whatever cycle of packets has formed, some draws of random() in
\* move_intra_bubble and move_inter_bubble undo it.
DeadlockUndone == view = "drain" => Drain!DeadlockUndone

\* The bubbles of scheme cbs keep VCs of their own, and each goes round the row
\* or column it started in (move_next_router_cbs).
CbsBubblesInLine == view = "cbs" => Cbs!OneSlotEach /\ Cbs!StaysInLine

\* move_inter_bubble_cbs neither loses nor duplicates packets, and takes none
\* away from the router where it is to be ejected.
CbsPacketsKept == [][view = "cbs" => Cbs!KeepsPackets]_cbsVars
=============================================================================
