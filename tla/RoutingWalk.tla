---------------------------- MODULE RoutingWalk ----------------------------
(***************************************************************************)
(* A flit routed hop by hop by the routing table or by one of the          *)
(* direction-based algorithms, for every pair of routers and whatever the  *)
(* downstream inports hold.                                                *)
(***************************************************************************)
EXTENDS Topology

CONSTANT MaxFreeVC  \* the VCs of an inport

VARIABLES
    my_id,              \* the router that holds the flit
    dest_router,        \* route.dest_router
    routing_algorithm,  \* --routing-algorithm
    last_dirn           \* the direction of the last hop, "Local" before the first
                        \* and "Unknown" before the flit is in the network

flit_vars == <<my_id, dest_router, routing_algorithm, last_dirn>>
walkVars == <<flit_vars, topology_vars>>

Algorithms == {"TABLE_", "XY_", "RANDOM_", "ADAPT_RAND_", "WestFirst_", "ADAPT_WestFirst_"}

WalkInit ==
    /\ TopologyInit
    /\ my_id = 0
    /\ dest_router = 0
    /\ routing_algorithm = "TABLE_"
    /\ last_dirn = "Unknown"

ExtendShortestPath == extend_shortest_path /\ UNCHANGED flit_vars

\* A flit enters once the links are made.  The links of Mesh_westfirst.py have
\* no port directions: it goes with the table only.
Inject ==
    /\ HasLinks
    /\ last_dirn = "Unknown"
    /\ my_id' \in MeshRouters
    /\ dest_router' \in MeshRouters
    /\ routing_algorithm' \in IF topology = "Mesh_westfirst" THEN {"TABLE_"} ELSE Algorithms
    /\ last_dirn' = "Local"
    /\ UNCHANGED topology_vars

outportCompute(freeVC) ==
    CASE routing_algorithm = "TABLE_"           -> lookupRoutingTable(my_id, dest_router, freeVC)
      [] routing_algorithm = "XY_"              -> outportComputeXY(my_id, dest_router)
      [] routing_algorithm = "RANDOM_"          -> outportComputeRandom(my_id, dest_router)
      [] routing_algorithm = "ADAPT_RAND_"      -> outportComputeAdaptRand(my_id, dest_router, freeVC)
      [] routing_algorithm = "WestFirst_"       -> outportComputeWestFirst(my_id, dest_router)
      [] routing_algorithm = "ADAPT_WestFirst_" -> outportComputeAdaptWestFirst(my_id, dest_router, freeVC)

\* The adaptive algorithms look at two downstream routers when both
\* directions are open to them.
DirnsAsked ==
    LET open == CASE routing_algorithm = "ADAPT_RAND_"      -> outportComputeRandom(my_id, dest_router)
                  [] routing_algorithm = "ADAPT_WestFirst_" -> outportComputeWestFirst(my_id, dest_router)
                  [] OTHER                                  -> {}
    IN  IF \E d, e \in open : d # e THEN open ELSE {}

Hop ==
    /\ last_dirn # "Unknown"
    /\ my_id # dest_router
    /\ \E freeVC \in [Directions -> 0 .. MaxFreeVC] :
          \E dirn \in outportCompute(freeVC) :
             /\ last_dirn' = dirn
             /\ my_id' = RouterInDirn(my_id, dirn)
    /\ UNCHANGED <<dest_router, routing_algorithm, topology_vars>>

WalkNext == ExtendShortestPath \/ Inject \/ Hop

WalkSpec == WalkInit /\ [][WalkNext]_walkVars /\ WF_walkVars(WalkNext)
-----------------------------------------------------------------------------
Distance(r, d) == x_hops(r, d) + y_hops(r, d)

\* Routing is minimal: every algorithm takes an existing link and brings the
\* flit one hop nearer, so m_outports_dirn2idx is never asked for a port the
\* router lacks.
MinimalRouting ==
    [][last_dirn # "Unknown" => /\ <<my_id, my_id'>> \in MeshLinks
                               /\ Distance(my_id', dest_router) = Distance(my_id, dest_router) - 1]_walkVars

RoutesXY        == routing_algorithm = "XY_" \/ (routing_algorithm = "TABLE_" /\ topology = "Mesh_XY")
RoutesWestFirst == routing_algorithm \in {"WestFirst_", "ADAPT_WestFirst_"} \/ topology = "Mesh_westfirst"

\* XY routing never turns from a column into a row, and west-first routing
\* never turns into West: the forbidden turns that break every cyclic wait.
\* The routing table keeps them too, by the weights of Mesh_XY.py and of
\* Mesh_westfirst.py ("enforced (using link weights)").
TurnsForbidden ==
    [][/\ RoutesXY /\ last_dirn \in {"North", "South"} => last_dirn' \in {"North", "South"}
       /\ RoutesWestFirst /\ last_dirn \notin {"Local", "West"} => last_dirn' # "West"]_walkVars

\* The loop of extend_shortest_path finds the least weight of any path: that
\* of the hops along the row and the column, which no detour undercuts.
TableIsShortest ==
    HasLinks => current_dist[my_id][dest_router] =
        x_hops(my_id, dest_router) * Weight(x_dirn(my_id, dest_router))
            + y_hops(my_id, dest_router) * Weight(y_dirn(my_id, dest_router))

\* The border assertions of get_RouterInDirn hold whenever an adaptive
\* algorithm asks it for a downstream router.
BorderChecks ==
    my_id # dest_router => \A dirn \in DirnsAsked : InsideBorder(dirn, my_id)

\* Every flit reaches its destination router, whatever random() and the free
\* VC counts make of the ties.
Arrives == <>(last_dirn # "Unknown" /\ my_id = dest_router)
=============================================================================
