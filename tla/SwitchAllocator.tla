--------------------------- MODULE SwitchAllocator ---------------------------
(***************************************************************************)
(* The switch allocator of one router, cycle by cycle: round-robin         *)
(* requests of the input ports, round-robin grants of the output ports and *)
(* the order of flits in ordered vnets, while brownian bubbles exchange    *)
(* the flits under it.                                                     *)
(*                                                                         *)
(* Times are only compared with each other, so those of an input port are  *)
(* kept as ranks: 0 for the oldest, stamp[i] for the current cycle.        *)
(***************************************************************************)
EXTENDS Integers, FiniteSets

CONSTANTS NumInports, NumOutports, NumVnets, VcsPerVnet,
    Ordered,   \* vnets for which isVNetOrdered holds
    Bubble     \* whether there is a bubble

InUnits  == 0 .. (NumInports - 1)
Outports == 0 .. (NumOutports - 1)
Vnets    == 0 .. (NumVnets - 1)
VCs      == 0 .. (NumVnets * VcsPerVnet - 1)
get_vnet(vc) == vc \div VcsPerVnet

ASSUME AllocatorAssumption ==
    /\ NumInports \in Nat \ {0} /\ NumOutports \in Nat \ {0}
    /\ NumVnets \in Nat \ {0} /\ VcsPerVnet \in Nat \ {0}
    /\ Ordered \subseteq Vnets /\ Bubble \in BOOLEAN

NoFlit == -1    \* no flit, no outport
Never  == -1    \* Cycles(INFINITE_)
Away   == -1    \* the bubble is in another router

VARIABLES
    flit,              \* outport of the flit in each input VC, or NoFlit
    outport,           \* m_output_port of each input VC
    enqueue_time,      \* m_enqueue_time of each input VC
    arrived,           \* when the flit in each VC really got there
    wait,              \* cycles until the flit in VC 0 of each inport is ready
    stamp,             \* the current cycle, per inport
    got,               \* inports that received a flit in this cycle
    round_robin_invc,  \* m_round_robin_invc
    round_robin_inport,\* m_round_robin_inport
    free_vcs,          \* idle VCs of each outport and vnet
    bubble_port,       \* the inport that holds the bubble in its VC 0, or Away
    lost               \* requests lost in a row, per inport and outport

vars == <<flit, outport, enqueue_time, arrived, wait, stamp, got, round_robin_invc,
          round_robin_inport, free_vcs, bubble_port, lost>>
vcVars == <<flit, outport, enqueue_time, arrived, wait>>
allocVars == <<round_robin_invc, round_robin_inport, free_vcs, lost>>

Init ==
    /\ flit = [i \in InUnits |-> [v \in VCs |-> NoFlit]]
    /\ outport = [i \in InUnits |-> [v \in VCs |-> NoFlit]]
    /\ enqueue_time = [i \in InUnits |-> [v \in VCs |-> Never]]
    /\ arrived = [i \in InUnits |-> [v \in VCs |-> Never]]
    /\ wait = [i \in InUnits |-> 0]
    /\ stamp = [i \in InUnits |-> 0] /\ got = {}
    /\ round_robin_invc = [i \in InUnits |-> 0]
    /\ round_robin_inport = [o \in Outports |-> 0]
    /\ free_vcs = [o \in Outports |-> [n \in Vnets |-> VcsPerVnet]]
    /\ bubble_port = Away
    /\ lost = [i \in InUnits |-> [o \in Outports |-> 0]]

idle(i, v) == enqueue_time[i][v] = Never
-----------------------------------------------------------------------------
\* InputUnit::wakeup: a flit arrives in an idle VC and is routed to o.
arrive(i, v, o) ==
    /\ i \notin got /\ idle(i, v)
    /\ got' = got \cup {i}
    /\ flit' = [flit EXCEPT ![i][v] = o]
    /\ outport' = [outport EXCEPT ![i][v] = o]
    /\ enqueue_time' = [enqueue_time EXCEPT ![i][v] = stamp[i]]
    /\ arrived' = [arrived EXCEPT ![i][v] = stamp[i]]
    /\ UNCHANGED <<wait, stamp, bubble_port, allocVars>>

\* OutputUnit::wakeup: a credit frees a VC of the next router.
credit_arrives(o, n) ==
    /\ free_vcs[o][n] < VcsPerVnet
    /\ free_vcs' = [free_vcs EXCEPT ![o][n] = @ + 1]
    /\ UNCHANGED <<vcVars, stamp, got, round_robin_invc, round_robin_inport, bubble_port, lost>>
-----------------------------------------------------------------------------
\* Bubbles move before the flits of the cycle arrive.
BubbleTime == Bubble /\ got = {}

\* insertFlit puts a flit into the VC the bubble leaves: only the flit moves,
\* and its VC keeps its own enqueue time and output port.
Insert(j, o, delay) ==
    /\ flit' = [flit EXCEPT ![j][0] = o]
    /\ arrived' = [arrived EXCEPT ![j][0] = stamp[j]]
    /\ wait' = [wait EXCEPT ![j] = delay]
    /\ UNCHANGED <<outport, enqueue_time>>

\* getTopFlit takes the flit out of the VC the bubble moves to.
Remove(i) ==
    /\ flit' = [flit EXCEPT ![i][0] = NoFlit]
    /\ arrived' = [arrived EXCEPT ![i][0] = Never]
    /\ wait' = [wait EXCEPT ![i] = 0]
    /\ UNCHANGED <<outport, enqueue_time>>

\* set_vc_idle and set_vc_active of the VCs of an empty exchange.
Vacate(j, i) ==
    /\ enqueue_time' = [k \in InUnits |->
          [enqueue_time[k] EXCEPT ![0] = CASE k = j -> Never [] k = i -> stamp[k] [] OTHER -> @]]
    /\ outport' = [k \in InUnits |-> [outport[k] EXCEPT ![0] = IF k = j THEN NoFlit ELSE @]]
    /\ UNCHANGED <<flit, arrived, wait>>

\* move_intra_bubble to inport i.
bubble_moves(i) ==
    /\ BubbleTime /\ bubble_port \in InUnits \ {i}
    /\ \/ /\ idle(i, 0)
          /\ Vacate(bubble_port, i)
       \/ /\ flit[i][0] # NoFlit
          /\ flit' = [flit EXCEPT ![i][0] = NoFlit, ![bubble_port][0] = flit[i][0]]
          /\ arrived' = [arrived EXCEPT ![i][0] = Never, ![bubble_port][0] = stamp[bubble_port]]
          /\ wait' = [wait EXCEPT ![i] = 0, ![bubble_port] = wait[i]]
          /\ UNCHANGED <<outport, enqueue_time>>
    /\ bubble_port' = i
    /\ UNCHANGED <<stamp, got, allocVars>>

\* move_inter_bubble takes the bubble to another router and leaves an idle VC,
\* or a flit of that router, routed to o and ready two cycles later, behind.
bubble_leaves(o) ==
    /\ BubbleTime /\ bubble_port # Away
    /\ \/ Vacate(bubble_port, Away)
       \/ Insert(bubble_port, o, 2)
    /\ bubble_port' = Away
    /\ UNCHANGED <<stamp, got, allocVars>>

\* move_inter_bubble, or init_brownian_bubbles, brings the bubble to inport i
\* of this router; a flit there goes to the other router.
bubble_enters(i) ==
    /\ BubbleTime /\ bubble_port = Away
    /\ \/ /\ idle(i, 0)
          /\ Vacate(Away, i)
       \/ /\ flit[i][0] # NoFlit
          /\ Remove(i)
    /\ bubble_port' = i
    /\ UNCHANGED <<stamp, got, allocVars>>
-----------------------------------------------------------------------------
need_stage(i, v) == flit[i][v] # NoFlit /\ (v = 0 => wait[i] = 0)

\* Faulty variant: the order of flits is not looked at.
HasFreeVC(i, v) == free_vcs[flit[i][v]][get_vnet(v)] > 0

\* Faulty variant: one VC is always kept free.
LastKeptFree(i, v) == free_vcs[flit[i][v]][get_vnet(v)] > 1

\* A free VC at the output port and, in an ordered vnet, no other flit whose
\* VC is older and was granted the same output port.
send_allowed(i, v) ==
    /\ free_vcs[flit[i][v]][get_vnet(v)] > 0
    /\ get_vnet(v) \in Ordered =>
          ~\E u \in VCs : /\ get_vnet(u) = get_vnet(v) /\ need_stage(i, u)
                          /\ outport[i][u] = flit[i][v]
                          /\ enqueue_time[i][u] < enqueue_time[i][v]

\* The first element of S from p on, counting round.
FirstFrom(p, S, n) == {x \in S : \A y \in S : (x - p) % n <= (y - p) % n}

\* arbitrate_inports: the VC of each inport that makes a request.
Requests(i) ==
    FirstFrom(round_robin_invc[i], {v \in VCs : need_stage(i, v) /\ send_allowed(i, v)},
              NumVnets * VcsPerVnet)
Requesters(o) == {i \in InUnits : \E v \in Requests(i) : flit[i][v] = o}

\* Faulty variant: requests are looked at from inport 0 on.
LowestInport(o) == FirstFrom(0, Requesters(o), NumInports)

\* arbitrate_outports: the inport an outport is granted to.
Granted(o) == FirstFrom(round_robin_inport[o], Requesters(o), NumInports)

Sent(i, v)  == v \in Requests(i) /\ i \in Granted(flit[i][v])

\* The ranks of the times of inport i when some VCs were set idle.
Rank(i, t, left) ==
    IF t = Never THEN Never
    ELSE Cardinality(({enqueue_time[i][v] : v \in left} \cup {arrived[i][v] : v \in left})
                        \cap 0 .. (t - 1))

\* SwitchAllocator::wakeup, which ends the cycle of the router: winners leave
\* and their VCs become idle.
wakeup ==
    LET left(i) == {v \in VCs : ~Sent(i, v)}
        Keep(f, i, none) == [v \in VCs |-> IF v \in left(i) THEN f[i][v] ELSE none]
        Ranked(f, i)     == [v \in VCs |-> IF v \in left(i) THEN Rank(i, f[i][v], left(i)) ELSE Never]
    IN  /\ flit' = [i \in InUnits |-> Keep(flit, i, NoFlit)]
        /\ outport' = [i \in InUnits |-> Keep(outport, i, NoFlit)]
        /\ enqueue_time' = [i \in InUnits |-> Ranked(enqueue_time, i)]
        /\ arrived' = [i \in InUnits |-> Ranked(arrived, i)]
        /\ wait' = [i \in InUnits |-> IF wait[i] = 0 THEN 0 ELSE wait[i] - 1]
        /\ stamp' = [i \in InUnits |-> Rank(i, stamp[i] + 1, left(i))]
        /\ got' = {}
        /\ round_robin_invc' = [i \in InUnits |->
              IF Requests(i) = {} THEN round_robin_invc[i]
              ELSE ((CHOOSE v \in Requests(i) : TRUE) + 1) % (NumVnets * VcsPerVnet)]
        /\ round_robin_inport' = [o \in Outports |->
              IF Granted(o) = {} THEN round_robin_inport[o]
              ELSE ((CHOOSE i \in Granted(o) : TRUE) + 1) % NumInports]
        /\ free_vcs' = [o \in Outports |-> [n \in Vnets |-> free_vcs[o][n] -
              Cardinality({i \in Granted(o) : \E v \in Requests(i) : get_vnet(v) = n})]]
        /\ lost' = [i \in InUnits |-> [o \in Outports |->
              IF i \in Requesters(o) \ Granted(o) THEN lost[i][o] + 1 ELSE 0]]
        /\ UNCHANGED bubble_port

Next ==
    \/ \E i \in InUnits, v \in VCs, o \in Outports : arrive(i, v, o)
    \/ \E o \in Outports, n \in Vnets : credit_arrives(o, n)
    \/ \E i \in InUnits : bubble_moves(i) \/ bubble_enters(i)
    \/ \E o \in Outports : bubble_leaves(o)
    \/ wakeup

\* A router with flits wakes up every cycle, and the next routers return
\* credits.
Fairness ==
    /\ WF_vars(wakeup)
    /\ \A o \in Outports, n \in Vnets : SF_vars(credit_arrives(o, n))

Spec == Init /\ [][Next]_vars /\ Fairness
-----------------------------------------------------------------------------
\* An inport that keeps requesting an outport loses to each other inport at
\* most once before it is granted the outport, bubbles or not.
LosesOnceToEach ==
    \A i \in DOMAIN lost : \A o \in DOMAIN lost[i] : lost[i][o] < NumInports

\* pt-to-pt ordering, as a step: no flit of an ordered vnet leaves an input
\* port before another one that arrived there before it and requests the same
\* output port.
KeepsOrder ==
    wakeup => \A i \in InUnits, v, u \in VCs :
        (Sent(i, v) /\ get_vnet(v) \in Ordered /\ get_vnet(u) = get_vnet(v)
           /\ need_stage(i, u) /\ flit[i][u] = flit[i][v])
        => ~(arrived[i][u] < arrived[i][v])
=============================================================================
