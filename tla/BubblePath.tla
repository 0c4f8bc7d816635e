----------------------------- MODULE BubblePath -----------------------------
(***************************************************************************)
(* The order in which bubbles visit the routers of a mesh.  mesh_row is    *)
(* m_num_rows, which the code also takes for the length of a row.          *)
(***************************************************************************)
EXTENDS Integers

\* Faulty variant: the far turning point is the last router.
TurnAtRowEnd(curr_router_id, sense_inc, mesh_row) ==
    \/ curr_router_id = 0
    \/ sense_inc /\ curr_router_id # mesh_row * mesh_row - 1

\* The turning points of move_next_router: both ends of column 0.
SenseAt(curr_router_id, sense_inc, mesh_row) ==
    \/ curr_router_id = 0
    \/ sense_inc /\ curr_router_id # mesh_row * mesh_row - mesh_row

\* Faulty variant: every row runs east.
RasterStep(curr_router_id, sense_inc, mesh_row) ==
    curr_router_id + (IF sense_inc THEN 1 ELSE -1)

\* The router move_next_router returns once sense_inc is set: a snake that
\* runs east in even rows and west in odd ones, and back.
SnakeStep(curr_router_id, sense_inc, mesh_row) ==
    LET even_row == (curr_router_id \div mesh_row) % 2 = 0
        east     == sense_inc <=> even_row
        edge     == IF east THEN mesh_row - 1 ELSE 0
    IN  CASE curr_router_id % mesh_row # edge -> curr_router_id + (IF east THEN 1 ELSE -1)
          [] OTHER -> curr_router_id + (IF sense_inc THEN mesh_row ELSE -mesh_row)

move_next_router(curr_router_id, sense_inc, mesh_row) ==
    LET sense == SenseAt(curr_router_id, sense_inc, mesh_row)
    IN  <<SnakeStep(curr_router_id, sense, mesh_row), sense>>
=============================================================================
