------------------------------- MODULE MCBindu -------------------------------
(***************************************************************************)
(* Instances of Bindu on small meshes.                                     *)
(***************************************************************************)
EXTENDS BinduNet, RoutingUnit, BubblePath, Functions, TLC

CONSTANTS n0, n3,       \* the NIs of routers 0 and 3
          f1, f2, f3    \* flits

MCIntLinks == MeshLinks

MCRouterOf == n0 :> 0 @@ n3 :> 3

\* outportCompute: the local port at the destination, else the algorithm.
MCRouteBy(algorithm(_, _)) ==
    [r \in Routers |-> [n \in NIs |->
        IF RouterOf[n] = r
        THEN {ExtOutLink(n)}
        ELSE {<<r, RouterInDirn(r, dirn)>> : dirn \in algorithm(r, RouterOf[n])}]]

MCRouteRandom == MCRouteBy(outportComputeRandom)
MCRouteXY     == MCRouteBy(outportComputeXY)

MCNextHop == [r \in Routers |-> [sense \in BOOLEAN |-> move_next_router(r, sense, NumRows)]]

\* m_buffers_per_ctrl_vc and m_buffers_per_data_vc.
MCBuffers1 == [v \in VCs |-> 1]
MCBuffers4 == [v \in VCs |-> 4]

\* Flits that cross the mesh along its diagonals; f3 uses the second vnet.
MCSrcNI  == Restrict(f1 :> n0 @@ f2 :> n3 @@ f3 :> n3, Flits)
MCDestNI == Restrict(f1 :> n3 @@ f2 :> n0 @@ f3 :> n0, Flits)
MCVnetOf == Restrict(f1 :> 0  @@ f2 :> 0  @@ f3 :> 1, Flits)
=============================================================================
