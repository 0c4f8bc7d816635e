-------------------------------- MODULE Mesh --------------------------------
(***************************************************************************)
(* The mesh built by configs/topologies/Mesh_XY.py and wired by            *)
(* Topology::createLinks.  A link is the pair <<source, destination>>,     *)
(* which is how Topology keys its link map, so there is at most one link   *)
(* in each direction between two routers.  The link <<s, d>> names the     *)
(* output unit of s, the wire, the credit wire and the input unit of d.    *)
(***************************************************************************)
EXTENDS Integers

CONSTANTS
    NumRows,    \* m_num_rows, the --mesh-rows option
    NumCols     \* m_num_cols, m_routers.size() / m_num_rows

ASSUME MeshAssumption == NumRows \in Nat \ {0} /\ NumCols \in Nat \ {0}

MeshRouters == 0 .. (NumRows * NumCols - 1)

Col(r) == r % NumCols
Row(r) == r \div NumCols

Directions == {"East", "West", "North", "South"}

\* The four link loops of makeTopology: the router that the output port of
\* router r in direction dirn leads to, and whether that link exists.
RouterInDirn(r, dirn) ==
    CASE dirn = "East"  -> r + 1
      [] dirn = "West"  -> r - 1
      [] dirn = "North" -> r + NumCols
      [] dirn = "South" -> r - NumCols

HasLink(r, dirn) ==
    CASE dirn = "East"  -> Col(r) + 1 < NumCols
      [] dirn = "West"  -> Col(r) > 0
      [] dirn = "North" -> Row(r) + 1 < NumRows
      [] dirn = "South" -> Row(r) > 0

MeshLinks ==
    { <<p[1], RouterInDirn(p[1], p[2])>> :
        p \in {q \in MeshRouters \X Directions : HasLink(q[1], q[2])} }
=============================================================================
