----------------------------- MODULE BubbleWalk -----------------------------
(***************************************************************************)
(* The walk of one bubble over the routers: every inter move asks          *)
(* move_next_router where to go, and either exchanges there or stays.      *)
(* move_next_router asserts that the router it returns exists; a walk that *)
(* leaves the routers has no further step (the simulator has aborted).     *)
(***************************************************************************)
EXTENDS BubblePath, Mesh

VARIABLES router_id, sense_inc, next_router_id

vars == <<router_id, sense_inc, next_router_id>>

\* init_brownian_bubbles: any router (rand_bb), moving upwards.
Init ==
    /\ router_id \in MeshRouters
    /\ sense_inc = TRUE
    /\ next_router_id = router_id

\* The call of move_next_router in move_inter_bubble, then the exchange or
\* the failure of every draw.
move_next(moved) ==
    LET nxt == move_next_router(router_id, sense_inc, NumRows)
    IN  /\ next_router_id \in MeshRouters
        /\ next_router_id' = nxt[1]
        /\ sense_inc' = nxt[2]
        /\ router_id' = IF moved /\ nxt[1] \in MeshRouters THEN nxt[1] ELSE router_id

Next == \E moved \in BOOLEAN : move_next(moved)

\* random() sooner or later draws an inport it can exchange with.
Spec == Init /\ [][Next]_vars /\ WF_vars(move_next(TRUE))
-----------------------------------------------------------------------------
\* assert (next_router_id >= 0) and assert (next_router_id < m_routers.size())
\* of move_next_router.
NextRouterExists == next_router_id \in MeshRouters

\* A bubble exchanges packets only with a neighbouring router, so a packet is
\* put back by one hop at most.
MovesToNeighbour ==
    [][router_id' # router_id => <<router_id, router_id'>> \in MeshLinks]_vars

\* The bubble comes back to every router again and again, which is what lets
\* one bubble break a deadlock wherever it forms.
VisitsEveryRouter == \A r \in MeshRouters : []<>(router_id = r)
=============================================================================
