------------------------------ MODULE Topology ------------------------------
(***************************************************************************)
(* The routing tables of Topology.cc: Topology::createLinks computes the   *)
(* distance between every two switches from the weights a topology file    *)
(* gives its links, and the table of an outport names the destinations the *)
(* link is on a shortest path to.  The nodes hang off their routers by     *)
(* links of one weight, which adds the same to both sides of every         *)
(* comparison: a destination is its router here.                           *)
(***************************************************************************)
EXTENDS RoutingUnit, FiniteSetsExt

INFINITE_LATENCY == 10000

VARIABLES
    topology,       \* --topology
    current_dist,   \* the distances found so far between every two routers
    i, j,           \* the pair of routers the loops are at
    change          \* whether this pass has shortened a distance

topology_vars == <<topology, current_dist, i, j, change>>

Topologies == {"Mesh_XY", "Mesh_westfirst"}

\* The weight=... of the link loops of Mesh_XY.py and Mesh_westfirst.py.
Weight(dirn) ==
    CASE topology = "Mesh_XY"        -> IF dirn \in {"East", "West"} THEN 1 ELSE 2
      [] topology = "Mesh_westfirst" -> IF dirn = "West" THEN 1 ELSE 2

LinkWeights(src, dst) ==
    {Weight(dirn) : dirn \in {e \in Directions : HasLink(src, e) /\ RouterInDirn(src, e) = dst}}

\* Faulty variant: the identity weights are not set to zero.
NoIdentity ==
    [src \in MeshRouters |-> [dst \in MeshRouters |->
        Min({INFINITE_LATENCY} \cup LinkWeights(src, dst))]]

topology_weights ==
    [src \in MeshRouters |-> [dst \in MeshRouters |->
        IF src = dst THEN 0 ELSE Min({INFINITE_LATENCY} \cup LinkWeights(src, dst))]]

TopologyInit ==
    /\ topology \in Topologies
    /\ current_dist = topology_weights
    /\ i = 0
    /\ j = 0
    /\ change = FALSE

\* The innermost loop: the best way from i to j by way of some router.
minimum == Min({current_dist[i][j]} \cup {current_dist[i][k] + current_dist[k][j] : k \in MeshRouters})

HasLinks == i = NumRows * NumCols

\* A round of the loops over i and j, which finds the entries before this one
\* already shortened; the last round starts another pass when this pass has
\* changed anything, and ends the loop otherwise.
extend_shortest_path ==
    /\ ~HasLinks
    /\ current_dist' = [current_dist EXCEPT ![i][j] = minimum]
    /\ LET changed == change \/ current_dist[i][j] # minimum
           nodes   == NumRows * NumCols
           last    == i = nodes - 1 /\ j = nodes - 1
       IN  /\ change' = (changed /\ ~last)
           /\ j' = (j + 1) % nodes
           /\ i' = CASE j < nodes - 1    -> i
                     [] last /\ changed  -> 0
                     [] OTHER            -> i + 1
    /\ UNCHANGED topology

link_is_shortest_path_to_node(src, dirn, final) ==
    /\ HasLink(src, dirn)
    /\ Weight(dirn) + current_dist[RouterInDirn(src, dirn)][final] = current_dist[src][final]

\* Faulty variant: the weights are left out of the choice.
AnyShortest(my_id, dest_id) ==
    {dirn \in Directions : link_is_shortest_path_to_node(my_id, dirn, dest_id)}

\* The lightest links whose table has the destination.
output_link_candidates(my_id, dest_id) ==
    LET routes == {dirn \in Directions : link_is_shortest_path_to_node(my_id, dirn, dest_id)}
    IN  {dirn \in routes : \A e \in routes : Weight(dirn) <= Weight(e)}

\* The candidate with most free VCs, the first of them when there are
\* several: createLinks makes the outports of a router in the order of the
\* routers they lead to.
lookupRoutingTable(my_id, dest_id, freeVC) ==
    LET most == MostFree(output_link_candidates(my_id, dest_id), freeVC)
    IN  {dirn \in most : \A e \in most : RouterInDirn(my_id, dirn) <= RouterInDirn(my_id, e)}
=============================================================================
