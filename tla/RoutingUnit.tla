----------------------------- MODULE RoutingUnit -----------------------------
(***************************************************************************)
(* The direction-based routing algorithms of RoutingUnit.cc in a mesh.     *)
(* An algorithm maps the router my_id that holds a flit and the flit's     *)
(* destination router to the set of outport directions it may return:      *)
(* random() % 2 is the choice among the members of the set.                *)
(***************************************************************************)
EXTENDS Mesh

Abs(n) == IF n < 0 THEN -n ELSE n

x_hops(my_id, dest_id) == Abs(Col(dest_id) - Col(my_id))
y_hops(my_id, dest_id) == Abs(Row(dest_id) - Row(my_id))

x_dirn(my_id, dest_id) == IF Col(dest_id) >= Col(my_id) THEN "East" ELSE "West"
y_dirn(my_id, dest_id) == IF Row(dest_id) >= Row(my_id) THEN "North" ELSE "South"

outportComputeXY(my_id, dest_id) ==
    IF x_hops(my_id, dest_id) > 0 THEN {x_dirn(my_id, dest_id)}
                                  ELSE {y_dirn(my_id, dest_id)}

\* Faulty variant: no test for the column being reached.
UnalignedRandom(my_id, dest_id) ==
    IF y_hops(my_id, dest_id) = 0 THEN {x_dirn(my_id, dest_id)}
    ELSE {x_dirn(my_id, dest_id), y_dirn(my_id, dest_id)}

outportComputeRandom(my_id, dest_id) ==
    CASE x_hops(my_id, dest_id) = 0 -> {y_dirn(my_id, dest_id)}
      [] y_hops(my_id, dest_id) = 0 -> {x_dirn(my_id, dest_id)}
      [] OTHER -> {x_dirn(my_id, dest_id), y_dirn(my_id, dest_id)}

\* West before anything else, then either minimal direction.
outportComputeWestFirst(my_id, dest_id) ==
    CASE x_hops(my_id, dest_id) = 0 -> {y_dirn(my_id, dest_id)}
      [] \/ y_hops(my_id, dest_id) = 0
         \/ x_dirn(my_id, dest_id) = "West" -> {x_dirn(my_id, dest_id)}
      [] OTHER -> {x_dirn(my_id, dest_id), y_dirn(my_id, dest_id)}

\* The adaptive versions keep the directions with most free VCs in the
\* downstream inport; freeVC gives the number for each direction.
MostFree(dirns, freeVC) == {d \in dirns : \A e \in dirns : freeVC[e] <= freeVC[d]}

outportComputeAdaptRand(my_id, dest_id, freeVC) ==
    MostFree(outportComputeRandom(my_id, dest_id), freeVC)

outportComputeAdaptWestFirst(my_id, dest_id, freeVC) ==
    MostFree(outportComputeWestFirst(my_id, dest_id), freeVC)

\* The border checks get_RouterInDirn asserts before it returns the router
\* next to my_id.
InsideBorder(dirn, my_id) ==
    /\ RouterInDirn(my_id, dirn) \in MeshRouters
    /\ CASE dirn = "East"  -> Col(my_id) # NumCols - 1
         [] dirn = "West"  -> Col(my_id) # 0
         [] dirn = "North" -> my_id < (NumCols - 1) * NumCols
         [] dirn = "South" -> my_id >= NumCols
=============================================================================
