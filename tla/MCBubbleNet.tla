----------------------------- MODULE MCBubbleNet -----------------------------
(***************************************************************************)
(* A 2x2 mesh with one VC per link, random routing and an interface at     *)
(* every router; flits go from one corner to the opposite one.  A link to  *)
(* or from the interface of router r is the slot with -1 at its other end. *)
(***************************************************************************)
EXTENDS BubbleNet, RoutingUnit, BubblePath

MCSlots == MeshLinks \cup {<<-1, r>> : r \in MeshRouters} \cup {<<r, -1>> : r \in MeshRouters}
MCBubbleSlots == MeshLinks
MCNoSlot == <<>>
MCEntry  == [f \in Flits |-> {<<-1, f>>}]
MCExit   == [f \in Flits |-> {<<3 - f, -1>>}]
MCHome   == [f \in Flits |-> 3 - f]
MCSite   == [s \in MCSlots |-> s[2]]
MCWalk   == [r \in MeshRouters |-> {move_next_router(r, sense, NumRows)[1] : sense \in BOOLEAN}]
MCAdvance ==
    [s \in MCSlots |-> [f \in Flits |->
        CASE s[2] = -1    -> {}
          [] s[2] = 3 - f -> {<<s[2], -1>>}
          [] OTHER -> {<<s[2], RouterInDirn(s[2], dirn)>> :
                          dirn \in outportComputeRandom(s[2], 3 - f)}]]
=============================================================================
