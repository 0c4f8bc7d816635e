------------------------------- MODULE MCRuby -------------------------------
(***************************************************************************)
(* What feeds the network and what ends the simulation, in one run: ports  *)
(* of a sequencer that compete, its deadlock check and drains, the tester  *)
(* that is its only client in Garnet_standalone, the patterns of that      *)
(* tester, a controller with its message buffers, and the marked flits.    *)
(* A behaviour is about one part; the variables of the others rest.  The   *)
(* parts of one component use ports and sizes of the same set, so that the *)
(* invariants of the component speak of all of them.                       *)
(***************************************************************************)
EXTENDS Sequencer, MarkedFlits, Controller

CONSTANTS p1, p2, p3   \* ports

VARIABLES
    numPacketsSent, noResponseCycles, fatal,   \* SyntheticTraffic
    num_destinations, pattern, source,         \* TrafficPattern
    part

testerVars  == <<numPacketsSent, noResponseCycles, fatal>>
patternVars == <<num_destinations, pattern, source>>

\* Three ports of one core that write and have locked pairs; two requests
\* outstanding.
MCTypes == {"ST", "Locked_RMW_Read", "Locked_RMW_Write"}
Serving == INSTANCE Sequencer WITH Types <- MCTypes

\* Two ports with time and drains; the part stops when the check fires.
Aging == INSTANCE Sequencer WITH Ports <- {p1, p2}, Types <- MCTypes, Drains <- TRUE

\* Five packets to two destinations.
Tester == INSTANCE SyntheticTraffic WITH
    Ports <- {p1}, Types <- {"LD", "ST"}, NumPacketsMax <- 5, ResponseLimit <- 4

Pattern == INSTANCE TrafficPattern WITH Sizes <- {4, 16, 64}

\* The controller has requests at port 0 and responses at port 2: requests
\* that find their line busy are stalled in a buffer of two slots.
MCRequests == [p \in InPorts |-> IF p = 0 THEN 4 ELSE 0]
MCOnBusy   == [p \in InPorts |-> "stall_and_wait"]

\* Requests at two ports that are recycled at port 0 and delayed at port 1.
Requeueing == INSTANCE Controller WITH
    NumRequests <- [p \in InPorts |-> 2 - p], TransitionsPerCycle <- 1, NumAddrs <- 1,
    OnBusy <- [p \in InPorts |-> IF p = 0 THEN "recycle" ELSE "block_on"],
    WakeUp <- "wakeUpAllBuffers_addr", LastSend <- 1, MaxTime <- 4,
    StrictFifo <- TRUE, Randomization <- TRUE, Delays <- {1, 2}

\* An ordered buffer with random delays.
Fifo == INSTANCE Controller WITH
    TransitionsPerCycle <- 1, NumAddrs <- 1, WakeUp <- "wakeUpBuffers", MayMiss <- FALSE,
    MaxTime <- 20, StrictFifo <- TRUE, Randomization <- TRUE, Delays <- {1, 2, 3}

\* The ports that a part does not use stay idle.
MCInit ==
    /\ Init /\ MarkedInit /\ ControllerInit
    /\ numPacketsSent = 0 /\ noResponseCycles = 0 /\ fatal = FALSE
    /\ \/ part = "pattern" /\ Pattern!Init
       \/ /\ part \in {"serve", "aging", "tester", "marked", "stalling", "requeueing", "fifo"}
          /\ num_destinations = 4 /\ pattern = "transpose" /\ source = 0

MCNext ==
    /\ UNCHANGED part
    /\ \/ part = "serve" /\ Serving!Serve /\ UNCHANGED <<markedVars, controllerVars, testerVars, patternVars>>
       \/ part = "aging" /\ Aging!Next /\ UNCHANGED <<markedVars, controllerVars, testerVars, patternVars>>
       \/ part = "tester" /\ Tester!TesterNext /\ UNCHANGED <<markedVars, controllerVars, patternVars>>
       \/ part = "pattern" /\ Pattern!Next /\ UNCHANGED <<vars, markedVars, controllerVars, testerVars>>
       \/ part = "marked" /\ MarkedNext /\ UNCHANGED <<vars, controllerVars, testerVars, patternVars>>
       \/ /\ \/ part = "stalling" /\ ControllerNext
             \/ part = "requeueing" /\ Requeueing!ControllerNext
             \/ part = "fifo" /\ Fifo!ControllerNext
          /\ UNCHANGED <<vars, markedVars, testerVars, patternVars>>

MCSpec ==
    /\ MCInit
    /\ [][MCNext]_<<vars, markedVars, controllerVars, testerVars, patternVars, part>>
    /\ part = "serve" => Serving!Fairness
    /\ part = "marked" => MarkedFairness
-----------------------------------------------------------------------------
\* Every pattern of generatePkt is a permutation of the nodes, and those named
\* after bits do to the bits what their names say.  The sequencer makes the
\* tester, which sends new packets while it keeps a refused one, retry exactly
\* when it has a packet to send again.
TesterRight ==
    /\ part = "pattern" => Pattern!Permutation /\ Pattern!DoesWhatItSays
    /\ part = "tester" => Tester!RetryHasPacket

\* A port that was refused is served in the end, as the retry list is kept in
\* order.
PortsAreServed == part = "serve" => Serving!NoStarvation

\* The simulation ends by check_mrkd_flt or by saturation, without the quota.
SimulationEnds == part = "marked" => ExitComes
=============================================================================
