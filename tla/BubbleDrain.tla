----------------------------- MODULE BubbleDrain -----------------------------
(***************************************************************************)
(* Whether the bubble undoes deadlocks.  Packets are routed minimally at   *)
(* random through a mesh with one VC per link, so they can wait for each   *)
(* other in a cycle; one bubble trades places with packets by the draws of *)
(* random().  The network is a single value, so that the draws that may    *)
(* follow a state can be looked ahead at.  Flow control is left to Bindu.  *)
(***************************************************************************)
EXTENDS RoutingUnit, BubblePath

CONSTANTS
    Flits,     \* packets of one flit
    SrcRouter, \* the router a flit is injected at
    DestRouter,\* route.dest_router
    LookAhead  \* the number of steps in which a lucky run makes progress

VARIABLE net   \* at, outport: per flit; hole, sense_inc: of the bubble

Waiting(f)  == <<SrcRouter[f], SrcRouter[f]>>  \* in the VC from its interface
Gone        == <<>>
Local       == <<"Local">>
Inports(r)  == {l \in MeshLinks : l[2] = r}
OutLink(r, dirn) == <<r, RouterInDirn(r, dirn)>>

\* RoutingUnit::outportCompute with routing algorithm random, as links.
Routes(r, f) ==
    IF r = DestRouter[f]
    THEN {Local}
    ELSE {OutLink(r, dirn) : dirn \in outportComputeRandom(r, DestRouter[f])}

Holder(s, l) == {f \in Flits : s.at[f] = l}
IsFree(s, l) == Holder(s, l) = {} /\ s.hole # l
Moved(s, f, l, out) ==
    [s EXCEPT !.at = [@ EXCEPT ![f] = l], !.outport = [@ EXCEPT ![f] = out]]

\* init_brownian_bubbles holds the lowest-numbered inport of any router.
FirstInport(r) == CHOOSE l \in Inports(r) : \A m \in Inports(r) : l[1] <= m[1]

Init ==
    \E out \in [Flits -> MeshLinks], hole \in {FirstInport(r) : r \in MeshRouters} :
        /\ \A f \in Flits : out[f] \in Routes(SrcRouter[f], f)
        /\ net = [at |-> [f \in Flits |-> Waiting(f)], outport |-> out,
                  hole |-> hole, sense_inc |-> TRUE]

\* SwitchAllocator::arbitrate_outports: a flit whose output link is free
\* crosses it and is routed by the router it comes to.
Grants(s) ==
    UNION {{Moved(s, f, s.outport[f], out) : out \in Routes(s.outport[f][2], f)} :
              f \in {g \in Flits : /\ s.at[g] # Gone
                                   /\ s.outport[g] # Local
                                   /\ IsFree(s, s.outport[g])}}

\* NetworkInterface::wakeup: a flit at its router is received.
Ejections(s) ==
    {Moved(s, f, Gone, Local) : f \in {g \in Flits : s.at[g] # Gone /\ s.outport[g] = Local}}

\* Faulty variant: the bubble exchanges with empty VCs only.
SwapEmptyOnly(s, p, out) ==
    IF Holder(s, p) = {} THEN [s EXCEPT !.hole = p] ELSE s

\* The bubble takes inport p; a flit found there goes to its old inport.
Swapped(s, p, out) ==
    [s EXCEPT !.at = [f \in Flits |-> IF @[f] = p THEN s.hole ELSE @[f]],
              !.outport = out,
              !.hole = p]

\* move_intra_bubble: every inport of the router may be drawn.
IntraMoves(s) ==
    {Swapped(s, p, s.outport) : p \in Inports(s.hole[2]) \ {s.hole}}

\* move_inter_bubble: every inport of the next router may be drawn, except
\* those whose packet is about to leave; the packet is routed anew.
InterMoves(s) ==
    LET hop   == move_next_router(s.hole[2], s.sense_inc, NumRows)
        ports == {q \in Inports(hop[1]) : \A f \in Holder(s, q) : s.outport[f] # Local}
        outs(q) == IF Holder(s, q) = {}
                   THEN {s.outport}
                   ELSE UNION {{[s.outport EXCEPT ![f] = out] : out \in Routes(s.hole[2], f)} :
                                  f \in Holder(s, q)}
    IN  UNION {{[Swapped(s, p, out) EXCEPT !.sense_inc = hop[2]] : out \in outs(p)} : p \in ports}

Steps(s) == Grants(s) \cup Ejections(s) \cup IntraMoves(s) \cup InterMoves(s)

Next == net' \in Steps(net)
Spec == Init /\ [][Next]_net
-----------------------------------------------------------------------------
\* The hops a flit still has to make, counting its reception.
HopsLeft(s, f) ==
    IF s.at[f] = Gone THEN 0
    ELSE 1 + x_hops(s.at[f][2], DestRouter[f]) + y_hops(s.at[f][2], DestRouter[f])

TotalHops(s) ==
    LET sum[F \in SUBSET Flits] ==
            IF F = {} THEN 0
            ELSE LET f == CHOOSE g \in F : TRUE IN HopsLeft(s, f) + sum[F \ {f}]
    IN  sum[Flits]

\* The states a run may be in after k more steps.
After(s, k) ==
    LET states[n \in 0 .. k] ==
            IF n = 0 THEN {s} ELSE UNION {Steps(t) : t \in states[n - 1]}
    IN  states[k]

\* No deadlock is for ever: whatever cycle of packets has formed, some draws
\* of random() bring the packets, together, nearer to their destinations
\* within LookAhead steps.  The distance left is a natural number, so while
\* every draw keeps a positive probability all packets are received with
\* probability one.
DeadlockUndone ==
    TotalHops(net) > 0 =>
        \E k \in 1 .. LookAhead : \E t \in After(net, k) : TotalHops(t) < TotalHops(net)
=============================================================================
