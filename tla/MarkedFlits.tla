---------------------------- MODULE MarkedFlits ----------------------------
(***************************************************************************)
(* Simulations of type 2: after the warmup, every router has a number of   *)
(* flits to mark, and the simulation ends when all marked flits have been  *)
(* received, or when their average latency or the simulated time gets too  *)
(* large.  A flit is in the network from flitisizeMessage to               *)
(* incrementStats; its latency is any value of Latencies.                  *)
(***************************************************************************)
EXTENDS Integers

CONSTANTS
    Routers,      \* m_routers
    MarkedFlit,   \* marked_flit of a router
    NumFlits,     \* the flits of a packet
    Latencies,    \* the latencies of flits, from injection to reception
    MaxAverage    \* the average latency of a saturated network

ASSUME MarkedAssumption ==
    /\ MarkedFlit \in Nat \ {0}
    /\ NumFlits \in Nat \ {0}
    /\ Latencies \subseteq Nat /\ Latencies # {}
    /\ MaxAverage \in Nat

VARIABLES
    phase,      \* "warmup", "measure", or "late" beyond the cycle quota
    mrkd_flt,   \* mrkd_flt_: the flits each router has still to mark
    flying,     \* the marked flits in the network
    marked_flt_injected, marked_flt_received,
    total_marked_flit_latency,
    sim_exit    \* why exitSimLoop was called first, or "no"

counters == <<mrkd_flt, flying, marked_flt_injected, marked_flt_received>>
markedVars == <<phase, counters, total_marked_flit_latency, sim_exit>>

MarkedInit ==
    /\ phase = "warmup"
    /\ mrkd_flt = [r \in Routers |-> MarkedFlit]
    /\ flying = 0 /\ marked_flt_injected = 0 /\ marked_flt_received = 0
    /\ total_marked_flit_latency = 0
    /\ sim_exit = "no"
-----------------------------------------------------------------------------
\* How many of the flits of a packet that enters at router r are marked.
Marked(r) == IF NumFlits <= mrkd_flt[r] THEN NumFlits ELSE mrkd_flt[r]

\* flitisizeMessage, for a packet with marked flits.
flitisizeMessage(r) ==
    /\ sim_exit = "no" /\ phase # "warmup" /\ mrkd_flt[r] > 0
    /\ mrkd_flt' = [mrkd_flt EXCEPT ![r] = @ - Marked(r)]
    /\ flying' = flying + Marked(r)
    /\ marked_flt_injected' = marked_flt_injected + Marked(r)
    /\ UNCHANGED <<phase, marked_flt_received, total_marked_flit_latency, sim_exit>>

\* Faulty variant: the routers that have still flits to mark are not looked at.
ReceivedOnly(received) == received >= marked_flt_injected

\* Faulty variant: never, as one flit more is waited for.
OneMore(received) ==
    /\ \A r \in Routers : mrkd_flt[r] <= 0
    /\ received > marked_flt_injected

\* check_mrkd_flt
check_mrkd_flt(received) ==
    /\ \A r \in Routers : mrkd_flt[r] <= 0
    /\ received >= marked_flt_injected

\* check_network_saturation: what ends the simulation, if anything.
check_network_saturation(latency, received) ==
    IF received > 0 /\ latency > MaxAverage * received THEN "saturated"
    ELSE IF phase = "late" THEN "quota" ELSE "no"

\* incrementStats for a marked flit, in its order: it is counted, the end of
\* the simulation is tested, and only then is its latency added.
incrementStats(lat) ==
    LET received == marked_flt_received + 1
        total    == total_marked_flit_latency + lat
        all      == check_mrkd_flt(received)
    IN  /\ sim_exit = "no" /\ flying > 0
        /\ flying' = flying - 1
        /\ marked_flt_received' = received
        /\ total_marked_flit_latency' = total
        /\ sim_exit' = IF all THEN "all_received" ELSE check_network_saturation(total, received)
        /\ UNCHANGED <<phase, mrkd_flt, marked_flt_injected>>

\* incrementStats for a flit that is not marked: only the saturation test.
incrementStatsUnmarked ==
    /\ sim_exit = "no" /\ phase # "warmup"
    /\ sim_exit' = check_network_saturation(total_marked_flit_latency, marked_flt_received)
    /\ UNCHANGED <<phase, counters, total_marked_flit_latency>>

\* The warmup ends, and later the cycle quota is used up.
TimePasses ==
    /\ sim_exit = "no" /\ phase # "late"
    /\ phase' = IF phase = "warmup" THEN "measure" ELSE "late"
    /\ UNCHANGED <<counters, total_marked_flit_latency, sim_exit>>

MarkedNext ==
    \/ \E r \in Routers : flitisizeMessage(r)
    \/ \E lat \in Latencies : incrementStats(lat)
    \/ incrementStatsUnmarked
    \/ TimePasses

MarkedSpec == MarkedInit /\ [][MarkedNext]_markedVars

\* The warmup ends, every router goes on sending packets, and every flit is
\* received; unmarked flits and the quota need not come.
MarkedFairness ==
    /\ WF_markedVars(phase = "warmup" /\ TimePasses)
    /\ \A r \in Routers : WF_markedVars(flitisizeMessage(r))
    /\ WF_markedVars(\E lat \in Latencies : incrementStats(lat))

MarkedFairSpec == MarkedSpec /\ MarkedFairness
-----------------------------------------------------------------------------
\* The simulation ends with all marked flits received only when every router
\* has marked its flits and none is left in the network: the assertion of
\* increment_received_flits on the two counters.
ExitIsComplete ==
    sim_exit = "all_received" =>
        /\ \A r \in Routers : mrkd_flt[r] = 0
        /\ flying = 0
        /\ marked_flt_injected = marked_flt_received

\* The simulation ends: check_mrkd_flt is evaluated only when a marked flit is
\* received, but the last marked flit is always received after the last router
\* has marked its flits.
ExitComes == <>(sim_exit # "no")
=============================================================================
