-------------------------- MODULE SyntheticTraffic --------------------------
(***************************************************************************)
(* The synthetic traffic tester of one node with the sequencer it feeds:   *)
(* the tester is the client of the only port and, unlike other clients,    *)
(* sends new packets while it keeps a refused one.  The Garnet_standalone  *)
(* controller calls back once it has put the packet into the network.      *)
(* The destination of a packet is its line.  The deadlock check of the     *)
(* sequencer is left to Sequencer; the tester has one of its own.          *)
(***************************************************************************)
EXTENDS Sequencer

CONSTANTS
    NumPacketsMax,   \* numPacketsMax
    ResponseLimit    \* responseLimit

VARIABLES
    numPacketsSent,     \* numPacketsSent
    noResponseCycles,   \* noResponseCycles
    fatal               \* the tester stopped the simulation

testerVars == <<numPacketsSent, noResponseCycles, fatal>>

tester == CHOOSE p \in Ports : TRUE

TesterInit ==
    Init /\ numPacketsSent = 0 /\ noResponseCycles = 0 /\ fatal = FALSE

\* generatePkt and sendPkt
generatePkt ==
    \E l \in Lines, t \in Types :
        /\ Becomes(sendPkt(Current, blocked, drainState, [port |-> tester, line |-> l, type |-> t]))
        /\ numPacketsSent' = numPacketsSent + 1

\* tick: a cycle of the tester, in which the injection rate decides whether a
\* packet is sent.
tick ==
    /\ ~fatal
    /\ noResponseCycles' = noResponseCycles + 1
    /\ fatal' = (noResponseCycles' >= ResponseLimit)
    /\ \/ ~fatal' /\ numPacketsSent < NumPacketsMax /\ generatePkt
       \/ UNCHANGED <<table, retryList, retryPkt, check, numPacketsSent>>
    /\ UNCHANGED <<blocked, rmw, drainState, panicked>>

\* The controller injects the packet and calls back; completeRequest gets the
\* response before the next cycle of the tester.
completeRequest(k, l) ==
    /\ ~fatal
    /\ callback(k, l)
    /\ noResponseCycles' = 0
    /\ UNCHANGED <<numPacketsSent, fatal>>

TesterNext == tick \/ \E k \in Kinds, l \in Lines : completeRequest(k, l)

TesterSpec == TesterInit /\ [][TesterNext]_<<vars, testerVars>>
-----------------------------------------------------------------------------
\* The sequencer makes the tester retry exactly when it has a packet to send
\* again, so that doRetry never sends a null packet, although ticks go on
\* sending while one is kept.
RetryHasPacket == tester \in Range(retryList) <=> retryPkt[tester] # None
=============================================================================
