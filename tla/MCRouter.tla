------------------------------ MODULE MCRouter ------------------------------
(***************************************************************************)
(* The scheduling of a router, in one run over four parts: the wakeups of  *)
(* two routers that share a bubble, and three switch allocators (three     *)
(* input ports that compete, one input port with an ordered vnet, two      *)
(* input ports under a bubble).  A behaviour is about one part; the        *)
(* variables of the others rest in their initial state.                    *)
(***************************************************************************)
EXTENDS RouterWakeup, SwitchAllocator

VARIABLE part

Order == INSTANCE SwitchAllocator WITH
    NumInports <- 1, NumOutports <- 2, NumVnets <- 1, VcsPerVnet <- 3,
    Ordered <- {0}, Bubble <- FALSE
Exchange == INSTANCE SwitchAllocator WITH
    NumInports <- 2, NumOutports <- 1, Bubble <- TRUE

APort == CHOOSE p \in Ports : TRUE

MCInit ==
    /\ WakeupInit
    /\ \/ part = "wakeup"   /\ Init
       \/ /\ bubble = APort
          /\ \/ part = "compete"  /\ Init
             \/ part = "order"    /\ Order!Init
             \/ part = "exchange" /\ Exchange!Init

MCNext ==
    /\ UNCHANGED part
    /\ \/ part = "wakeup"   /\ WakeupNext /\ UNCHANGED vars
       \/ part = "compete"  /\ Next /\ UNCHANGED wakeupVars
       \/ part = "order"    /\ Order!Next /\ UNCHANGED wakeupVars
       \/ part = "exchange" /\ Exchange!Next /\ UNCHANGED wakeupVars

\* Fairness of SwitchAllocator, for the part with a liveness property.
MCFairness ==
    /\ WF_vars(part = "compete" /\ wakeup)
    /\ \A o \in Outports, n \in Vnets : SF_vars(part = "compete" /\ credit_arrives(o, n))

MCSpec == MCInit /\ [][MCNext]_<<vars, wakeupVars, part>> /\ MCFairness
-----------------------------------------------------------------------------
\* No flit of an ordered vnet leaves an input port before an older one for the
\* same output port.
PointToPointOrder == [][part = "order" => Order!KeepsOrder]_vars

Waits(i, v) == part = "compete" /\ flit[i][v] # NoFlit

\* Every flit is granted its output port in the end.
NoStarvation == \A i \in InUnits, v \in VCs : Waits(i, v) ~> ~Waits(i, v)
=============================================================================
