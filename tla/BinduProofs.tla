---------------------------- MODULE BinduProofs -----------------------------
(***************************************************************************)
(* The inductive invariant of Bindu and the safety properties that follow  *)
(* from it, for every topology, routing function, bubble walk, number of   *)
(* VCs and buffer depth.  First what flits do to it, then what bubbles do. *)
(***************************************************************************)
EXTENDS Bindu, TLAPS

\* Facts about the constants: the ends of a link and the three link kinds.
LEMMA LinkFacts ==
    /\ 0 \in VCs
    /\ \A c \in Channels : c[1] \in Links /\ c[2] \in VCs /\ c = <<c[1], c[2]>>
    /\ \A l \in IntLinks : l \in Links /\ l \notin ExtInLinks /\ l \notin ExtOutLinks
    /\ \A l \in IntLinks : l[1] \in Routers /\ l[2] \in Routers
    /\ \A l \in Links : l \notin ExtOutLinks => l[2] \in Routers
    /\ \A n \in NIs : ExtInLink(n) \in Links /\ ExtInLink(n) \notin IntLinks
    /\ \A c \in Channels : BuffersPerVC[c[2]] \in Nat \ {0}
    /\ \A r \in Routers, n \in NIs : Route[r][n] \subseteq Links
<1>1. 0 \in VCs
  <2>1. NumVnets * VcsPerVnet \in Nat \ {0}
    BY SizeAssumption
  <2> QED
    BY <2>1 DEF VCs
<1>2. \A c \in Channels : c[1] \in Links /\ c[2] \in VCs /\ c = <<c[1], c[2]>>
  BY DEF Channels
<1>3. \A l \in IntLinks : l \in Links /\ l[1] \in Routers /\ l[2] \in Routers
  BY TopologyAssumption DEF Links
<1>4. \A n \in NIs : n \notin Routers /\ RouterOf[n] \in Routers
  BY TopologyAssumption
<1>5. \A l \in IntLinks : l \notin ExtInLinks /\ l \notin ExtOutLinks
  BY <1>3, <1>4 DEF ExtInLinks, ExtOutLinks, ExtInLink, ExtOutLink
<1>6. \A l \in Links : l \notin ExtOutLinks => l[2] \in Routers
  BY <1>3, <1>4 DEF Links, ExtInLinks, ExtInLink
<1>7. \A n \in NIs : ExtInLink(n) \in Links /\ ExtInLink(n) \notin IntLinks
  BY <1>3, <1>4, <1>5 DEF Links, ExtInLinks
<1>8. \A c \in Channels : BuffersPerVC[c[2]] \in Nat \ {0}
  BY <1>2, SizeAssumption
<1>9. \A r \in Routers, n \in NIs : Route[r][n] \subseteq Links
  BY RouteAssumption
<1> QED
  BY <1>1, <1>2, <1>3, <1>5, <1>6, <1>7, <1>8, <1>9

\* The first inport of a router is one of its inports.
LEMMA FirstInportFact ==
    \A r \in Routers : FirstInport(r) \in IntLinks /\ FirstInport(r)[2] = r
BY TopologyAssumption DEF FirstInport, Inports

\* One bubble to a router: the placements of init_brownian_bubbles are
\* injective.
LEMMA PlacementFacts ==
    \A place \in Placements :
        /\ place \in [Bubbles -> Routers]
        /\ \A a, b \in Bubbles : place[a] = place[b] => a = b
<1>1. \A k \in Bubbles : k \in Nat /\ k < NumRouters /\ k \in Routers
  BY SizeAssumption, BubbleAssumption DEF Bubbles, Routers
<1>2. \A k \in Bubbles : k % NumRouters = k
  BY <1>1, SizeAssumption
<1>3. CASE RandBB
  BY <1>3 DEF Placements
<1>4. CASE ~RandBB
  BY <1>4, <1>1, <1>2 DEF Placements
<1> QED
  BY <1>3, <1>4

-----------------------------------------------------------------------------
\* A channel none of whose parts a step touches keeps its phase.
LEMMA PhaseFrame ==
    ASSUME NEW d \in Channels, Phase(d),
           out_vc_state'[d] = out_vc_state[d], credit'[d] = credit[d],
           ni_out_vcs'[d] = ni_out_vcs[d], link'[d] = link[d],
           vc_state'[d] = vc_state[d], buffer'[d] = buffer[d],
           credit_link'[d] = credit_link[d], IsBubble(d)' <=> IsBubble(d)
    PROVE  Phase(d)' /\ (Unused(d) => Unused(d)')
BY DEF Phase, Unused, Queued, Flying, Stored, Returning, Reserved, Quiet, Full, OneUsed, IsIdle

\* A step that leaves the bubbles alone leaves the reserved channels alone.
LEMMA BubbleFrame ==
    ASSUME UNCHANGED bubble
    PROVE  \A d \in Channels : IsBubble(d)' <=> IsBubble(d)
BY DEF IsBubble, Vc0

\* All channels are unused and no bubble is placed when the network starts.
THEOREM InitIInv == Init => IInv
<1> SUFFICES ASSUME Init PROVE IInv
  OBVIOUS
<1> USE DEF Init
<1>1. ChannelTypes
  <2>1. \A c \in Channels : BuffersPerVC[c[2]] \in Nat
    BY LinkFacts
  <2> QED
    BY <2>1 DEF ChannelTypes, VcStates
<1>a. BubbleTypes
  BY Zenon DEF BubbleTypes
<1>b. FlitTypes
  BY DEF FlitTypes
<1>2. \A c \in Channels : ~IsBubble(c)
  BY LinkFacts, TopologyAssumption DEF IsBubble, Vc0, Channels
<1>3. \A c \in Channels : Unused(c)
  BY <1>2 DEF Unused, Quiet, Full, IsIdle
<1> QED
  BY <1>1, <1>a, <1>b, <1>3 DEF IInv, ChannelPhases, Phase, BubblesDistinct, BubblesPlaced,
                    QuietBeforeInit, StoredRouted

\* A step of the flow control leaves the bubbles where they are.
LEMMA FlowStep ==
    ASSUME IInv, UNCHANGED bubbleVars, ChannelTypes', FlitTypes',
           ChannelPhases', QuietBeforeInit', StoredRouted'
    PROVE  IInv'
<1>1. BubbleTypes'
  BY DEF IInv, BubbleTypes, bubbleVars
<1> QED
  BY <1>1 DEF IInv, BubblesDistinct, BubblesPlaced, bubbleVars

\* An idle channel of an NI becomes Queued.
LEMMA flitisizeMessageStep ==
    ASSUME IInv, NEW f \in Flits, flitisizeMessage(f)
    PROVE  IInv'
<1> USE DEF IInv
<1>1. PICK v \in VcsOf(VnetOf[f]) :
          /\ IsIdle(<<ExtInLink(SrcNI[f]), v>>)
          /\ ni_out_vcs' = [ni_out_vcs EXCEPT ![<<ExtInLink(SrcNI[f]), v>>] = @ \cup {f}]
          /\ out_vc_state' = [out_vc_state EXCEPT ![<<ExtInLink(SrcNI[f]), v>>] = "ACTIVE_"]
  BY Zenon DEF flitisizeMessage, calculateVC
<1> DEFINE c == <<ExtInLink(SrcNI[f]), v>>
<1>2. c \in Channels /\ c[1] \notin IntLinks
  BY LinkFacts, FlitAssumption DEF VcsOf, Channels
<1> HIDE DEF c
<1>a. /\ IsIdle(c)
      /\ ni_out_vcs' = [ni_out_vcs EXCEPT ![c] = @ \cup {f}]
      /\ out_vc_state' = [out_vc_state EXCEPT ![c] = "ACTIVE_"]
  BY <1>1 DEF c
<1>3. UNCHANGED <<credit, link, vc_state, buffer, credit_link, bubble, bubble_init, outport, received>>
  BY DEF flitisizeMessage, bubbleVars
<1>4. \A d \in Channels : IsBubble(d)' <=> IsBubble(d)
  BY <1>3, BubbleFrame
<1>5. ChannelTypes' /\ FlitTypes'
  <2>1. ChannelTypes'
    BY <1>a, <1>2, <1>3 DEF ChannelTypes, VcStates
  <2>2. FlitTypes'
    BY <1>3 DEF FlitTypes, flitisizeMessage
  <2> QED
    BY <2>1, <2>2
<1>6. \A d \in Channels \ {c} : Phase(d)' /\ (Unused(d) => Unused(d)')
  <2> TAKE d \in Channels \ {c}
  <2>1. ni_out_vcs'[d] = ni_out_vcs[d] /\ out_vc_state'[d] = out_vc_state[d]
    BY <1>a DEF ChannelTypes
  <2> QED
    BY <2>1, <1>3, <1>4, PhaseFrame DEF ChannelPhases
<1>7. Phase(c)'
  <2>1. Unused(c)
    BY <1>a, <1>2 DEF ChannelPhases, Phase, Unused, Queued, Flying, Stored, Returning, Reserved
  <2>2. ni_out_vcs'[c] = {f} /\ out_vc_state'[c] = "ACTIVE_"
    BY <2>1, <1>a, <1>2, Zenon DEF ChannelTypes, Unused, Quiet
  <2>3. Queued(c)'
    BY <2>1, <2>2, <1>2, <1>3, <1>4 DEF Unused, Queued, Quiet, Full, IsIdle
  <2> QED
    BY <2>3, Zenon DEF Phase
<1>8. ChannelPhases'
  BY <1>6, <1>7 DEF ChannelPhases
<1>9. QuietBeforeInit'
  BY <1>2, <1>3, <1>6 DEF QuietBeforeInit
<1>10. StoredRouted'
  BY <1>3 DEF StoredRouted
<1> QED
  BY <1>3, <1>5, <1>8, <1>9, <1>10, FlowStep DEF bubbleVars

\* A Queued channel whose flit leaves the NI becomes Flying.
LEMMA scheduleOutputLinkStep ==
    ASSUME IInv, NEW c \in Channels, scheduleOutputLink(c)
    PROVE  IInv'
<1> USE DEF IInv
<1>1. PICK f \in ni_out_vcs[c] :
          /\ ni_out_vcs' = [ni_out_vcs EXCEPT ![c] = @ \ {f}]
          /\ link' = [link EXCEPT ![c] = @ \cup {f}]
  BY Zenon DEF scheduleOutputLink
<1>2. /\ credit' = [credit EXCEPT ![c] = @ - 1]
      /\ UNCHANGED <<out_vc_state, vc_state, buffer, credit_link, bubble, bubble_init, outport, injected, received>>
  BY DEF scheduleOutputLink, bubbleVars, flitVars
<1>3. \A d \in Channels : IsBubble(d)' <=> IsBubble(d)
  BY <1>2, BubbleFrame
<1>4. f \in Flits /\ ChannelTypes' /\ FlitTypes'
  <2>1. f \in Flits
    BY <1>1 DEF ChannelTypes
  <2>2. ChannelTypes'
    BY <2>1, <1>1, <1>2, SMTT(30) DEF ChannelTypes
  <2> QED
    BY <2>1, <2>2, <1>2 DEF FlitTypes
<1>5. Queued(c)
  BY <1>1, Zenon DEF ChannelPhases, Phase, Unused, Queued, Flying, Stored, Returning, Reserved, Quiet
<1>6. \A d \in Channels \ {c} : Phase(d)' /\ (Unused(d) => Unused(d)')
  <2> TAKE d \in Channels \ {c}
  <2>1. ni_out_vcs'[d] = ni_out_vcs[d] /\ link'[d] = link[d] /\ credit'[d] = credit[d]
    BY <1>1, <1>2 DEF ChannelTypes
  <2> QED
    BY <2>1, <1>2, <1>3, PhaseFrame DEF ChannelPhases
<1>7. Phase(c)'
  <2>1. ni_out_vcs'[c] = {} /\ link'[c] = {f} /\ credit'[c] = credit[c] - 1
    BY <1>5, <1>1, <1>2, Zenon DEF ChannelTypes, Queued
  <2>2. Flying(c)'
    BY <2>1, <1>2, <1>3, <1>4, <1>5 DEF Queued, Flying, Full, OneUsed, IsIdle
  <2> QED
    BY <2>2, Zenon DEF Phase
<1>8. ChannelPhases'
  BY <1>6, <1>7, Zenon DEF ChannelPhases
<1>9. QuietBeforeInit'
  BY <1>1, <1>2, <1>6 DEF QuietBeforeInit, Unused, Quiet
<1>10. StoredRouted'
  BY <1>2, Zenon DEF StoredRouted
<1> QED
  BY <1>2, <1>4, <1>8, <1>9, <1>10, FlowStep DEF bubbleVars

\* A Flying channel whose flit arrives at a router becomes Stored.
LEMMA InputUnit_wakeupStep ==
    ASSUME IInv, NEW c \in Channels, InputUnit_wakeup(c)
    PROVE  IInv'
<1> USE DEF IInv
<1>1. PICK f \in link[c] :
          /\ link' = [link EXCEPT ![c] = @ \ {f}]
          /\ buffer' = [buffer EXCEPT ![c] = @ \cup {f}]
          /\ \E out \in Route[c[1][2]][DestNI[f]] : outport' = [outport EXCEPT ![f] = out]
  BY Zenon DEF InputUnit_wakeup, route_compute
<1>2. /\ bubble_init /\ c[1] \notin ExtOutLinks
      /\ vc_state' = [vc_state EXCEPT ![c] = "ACTIVE_"]
      /\ UNCHANGED <<out_vc_state, credit, ni_out_vcs, credit_link, bubble, bubble_init, injected, received>>
  BY DEF InputUnit_wakeup, bubbleVars
<1>3. \A d \in Channels : IsBubble(d)' <=> IsBubble(d)
  BY <1>2, BubbleFrame
<1>4. f \in Flits
  BY <1>1 DEF ChannelTypes
<1>a. PICK out \in Links : outport' = [outport EXCEPT ![f] = out]
  <2>1. c[1][2] \in Routers /\ DestNI[f] \in NIs
    BY <1>2, <1>4, LinkFacts, FlitAssumption
  <2> QED
    BY <2>1, <1>1, LinkFacts, Zenon
<1>5. ChannelTypes' /\ FlitTypes'
  <2>1. ChannelTypes'
    BY <1>1, <1>2, <1>4, Zenon DEF ChannelTypes, VcStates
  <2> QED
    BY <2>1, <1>2, <1>a, Zenon DEF FlitTypes
<1>6. Flying(c)
  BY <1>1, Zenon DEF ChannelPhases, Phase, Unused, Queued, Flying, Stored, Returning, Reserved, Quiet
<1>7. \A d \in Channels \ {c} : Phase(d)'
  <2> TAKE d \in Channels \ {c}
  <2>1. link'[d] = link[d] /\ buffer'[d] = buffer[d] /\ vc_state'[d] = vc_state[d]
    BY <1>1, <1>2 DEF ChannelTypes
  <2> QED
    BY <2>1, <1>2, <1>3, PhaseFrame DEF ChannelPhases
<1>8. Phase(c)'
  <2>1. link'[c] = {} /\ buffer'[c] = {f} /\ vc_state'[c] = "ACTIVE_"
    BY <1>6, <1>1, <1>2, Zenon DEF ChannelTypes, Flying
  <2>2. Stored(c)'
    BY <2>1, <1>2, <1>3, <1>4, <1>6 DEF Flying, Stored, OneUsed, IsIdle
  <2> QED
    BY <2>2 DEF Phase
<1>9. ChannelPhases'
  BY <1>7, <1>8 DEF ChannelPhases
<1>10. QuietBeforeInit'
  BY <1>2, Zenon DEF QuietBeforeInit
<1>11. StoredRouted'
  BY <1>1, <1>4, <1>a DEF StoredRouted, ChannelTypes, FlitTypes
<1> QED
  BY <1>2, <1>5, <1>9, <1>10, <1>11, FlowStep DEF bubbleVars

\* A Stored channel whose flit is granted becomes Returning, and the idle
\* channel the flit is granted becomes Flying.
LEMMA arbitrate_outportsStep ==
    ASSUME IInv, NEW c \in Channels, arbitrate_outports(c)
    PROVE  IInv'
<1> USE DEF IInv
<1>1. PICK f \in buffer[c], v \in VCs :
          /\ IsIdle(<<outport[f], v>>)
          /\ out_vc_state' = [out_vc_state EXCEPT ![<<outport[f], v>>] = "ACTIVE_"]
          /\ credit' = [credit EXCEPT ![<<outport[f], v>>] = @ - 1]
          /\ link' = [link EXCEPT ![<<outport[f], v>>] = @ \cup {f}]
          /\ buffer' = [buffer EXCEPT ![c] = @ \ {f}]
  BY Zenon DEF arbitrate_outports, select_free_vc
<1>2. <<outport[f], v>> \in Channels
  BY <1>1 DEF StoredRouted, Channels
<1>3. PICK e \in Channels :
          /\ IsIdle(e)
          /\ out_vc_state' = [out_vc_state EXCEPT ![e] = "ACTIVE_"]
          /\ credit' = [credit EXCEPT ![e] = @ - 1]
          /\ link' = [link EXCEPT ![e] = @ \cup {f}]
          /\ buffer' = [buffer EXCEPT ![c] = @ \ {f}]
  BY <1>1, <1>2, Zenon
<1>4. /\ bubble_init
      /\ vc_state' = [vc_state EXCEPT ![c] = "IDLE_"]
      /\ credit_link' = [credit_link EXCEPT ![c] = @ + 1]
      /\ UNCHANGED <<ni_out_vcs, bubble, bubble_init, outport, injected, received>>
  BY Zenon DEF arbitrate_outports, bubbleVars, flitVars
<1>5. \A d \in Channels : IsBubble(d)' <=> IsBubble(d)
  BY <1>4, BubbleFrame
<1>6. f \in Flits /\ ChannelTypes' /\ FlitTypes'
  <2>1. f \in Flits
    BY <1>1 DEF ChannelTypes
  <2>2. ChannelTypes'
    BY <2>1, <1>2, <1>3, <1>4 DEF ChannelTypes, VcStates
  <2> QED
    BY <2>1, <2>2, <1>4 DEF FlitTypes
<1>7. Stored(c) /\ Unused(e)
  <2>1. Stored(c)
    BY <1>1, Zenon DEF ChannelPhases, Phase, Unused, Queued, Flying, Stored, Returning, Reserved, Quiet
  <2>2. Unused(e)
    BY <1>2, <1>3, Zenon DEF ChannelPhases, Phase, Unused, Queued, Flying, Stored, Returning, Reserved
  <2> QED
    BY <2>1, <2>2, Zenon
<1>8. c # e
  BY <1>7 DEF Stored, Unused
<1>9. \A d \in Channels \ {c, e} : Phase(d)'
  <2> TAKE d \in Channels \ {c, e}
  <2>1. /\ out_vc_state'[d] = out_vc_state[d] /\ credit'[d] = credit[d] /\ link'[d] = link[d]
        /\ buffer'[d] = buffer[d] /\ vc_state'[d] = vc_state[d] /\ credit_link'[d] = credit_link[d]
    BY <1>3, <1>4, Zenon DEF ChannelTypes
  <2> QED
    BY <2>1, <1>4, <1>5, PhaseFrame DEF ChannelPhases
<1>10. Phase(c)'
  <2>1. /\ out_vc_state'[c] = out_vc_state[c] /\ credit'[c] = credit[c] /\ link'[c] = link[c]
        /\ buffer'[c] = {} /\ vc_state'[c] = "IDLE_" /\ credit_link'[c] = 1
    BY <1>3, <1>4, <1>7, <1>8 DEF ChannelTypes, Stored
  <2>2. Returning(c)'
    BY <2>1, <1>4, <1>5, <1>7 DEF Stored, Returning, Quiet, OneUsed, IsIdle
  <2> QED
    BY <2>2 DEF Phase
<1>11. Phase(e)'
  <2>1. /\ out_vc_state'[e] = "ACTIVE_" /\ credit'[e] = credit[e] - 1 /\ link'[e] = {f}
        /\ buffer'[e] = buffer[e] /\ vc_state'[e] = vc_state[e] /\ credit_link'[e] = credit_link[e]
    BY <1>2, <1>3, <1>4, <1>7, <1>8, Zenon DEF ChannelTypes, Unused, Quiet
  <2>2. Flying(e)'
    BY <2>1, <1>2, <1>4, <1>5, <1>6, <1>7 DEF Unused, Flying, Quiet, Full, OneUsed, IsIdle
  <2> QED
    BY <2>2 DEF Phase
<1>12. ChannelPhases'
  BY <1>9, <1>10, <1>11, Zenon DEF ChannelPhases
<1>13. QuietBeforeInit'
  BY <1>4 DEF QuietBeforeInit
<1>14. StoredRouted'
  BY <1>3, <1>4 DEF StoredRouted, ChannelTypes
<1> QED
  BY <1>4, <1>6, <1>12, <1>13, <1>14, FlowStep DEF bubbleVars

\* A Returning channel whose credit arrives becomes Unused.
LEMMA OutputUnit_wakeupStep ==
    ASSUME IInv, NEW c \in Channels, OutputUnit_wakeup(c)
    PROVE  IInv'
<1> USE DEF IInv
<1>1. /\ credit_link[c] > 0
      /\ credit_link' = [credit_link EXCEPT ![c] = @ - 1]
      /\ credit' = [credit EXCEPT ![c] = @ + 1]
      /\ out_vc_state' = [out_vc_state EXCEPT ![c] = "IDLE_"]
      /\ UNCHANGED <<ni_out_vcs, link, vc_state, buffer, bubble, bubble_init, outport, injected, received>>
  BY DEF OutputUnit_wakeup, bubbleVars, flitVars
<1>2. \A d \in Channels : IsBubble(d)' <=> IsBubble(d)
  BY <1>1, BubbleFrame
<1>3. ChannelTypes' /\ FlitTypes'
  <2>1. ChannelTypes'
    BY <1>1, SMTT(30) DEF ChannelTypes, VcStates
  <2> QED
    BY <2>1, <1>1 DEF FlitTypes
<1>4. Returning(c)
  BY <1>1 DEF ChannelPhases, Phase, Unused, Queued, Flying, Stored, Returning, Reserved
<1>5. \A d \in Channels \ {c} : Phase(d)' /\ (Unused(d) => Unused(d)')
  <2> TAKE d \in Channels \ {c}
  <2>1. out_vc_state'[d] = out_vc_state[d] /\ credit'[d] = credit[d] /\ credit_link'[d] = credit_link[d]
    BY <1>1 DEF ChannelTypes
  <2> QED
    BY <2>1, <1>1, <1>2, PhaseFrame, Zenon DEF ChannelPhases
<1>6. Phase(c)'
  <2>1. out_vc_state'[c] = "IDLE_" /\ credit'[c] = credit[c] + 1 /\ credit_link'[c] = 0
    BY <1>1, <1>4 DEF ChannelTypes, Returning
  <2>2. credit'[c] = BuffersPerVC[c[2]]
    BY <2>1, <1>4, LinkFacts, SMTT(30) DEF Returning, OneUsed
  <2>3. Unused(c)'
    BY <2>1, <2>2, <1>1, <1>2, <1>4 DEF Unused, Returning, Quiet, Full, IsIdle
  <2> QED
    BY <2>3 DEF Phase
<1>7. ChannelPhases'
  BY <1>5, <1>6, Zenon DEF ChannelPhases
<1>8. QuietBeforeInit'
  BY <1>1, <1>4, <1>5, Zenon DEF QuietBeforeInit, Unused, Returning
<1>9. StoredRouted'
  BY <1>1, Zenon DEF StoredRouted
<1> QED
  BY <1>1, <1>3, <1>7, <1>8, <1>9, FlowStep DEF bubbleVars

\* A Flying channel whose flit is received by its NI becomes Returning.
LEMMA NI_receiveStep ==
    ASSUME IInv, NEW c \in Channels, NI_receive(c)
    PROVE  IInv'
<1> USE DEF IInv
<1>1. PICK f \in link[c] :
          /\ link' = [link EXCEPT ![c] = @ \ {f}]
          /\ received' = received \cup {f}
  BY Zenon DEF NI_receive
<1>2. /\ c[1] \in ExtOutLinks
      /\ credit_link' = [credit_link EXCEPT ![c] = @ + 1]
      /\ UNCHANGED <<out_vc_state, credit, ni_out_vcs, vc_state, buffer, bubble, bubble_init, outport, injected>>
  BY Zenon DEF NI_receive, bubbleVars
<1>3. \A d \in Channels : IsBubble(d)' <=> IsBubble(d)
  BY <1>2, BubbleFrame
<1>4. ChannelTypes' /\ FlitTypes'
  <2>1. f \in Flits
    BY <1>1 DEF ChannelTypes
  <2>2. ChannelTypes'
    BY <1>1, <1>2 DEF ChannelTypes
  <2> QED
    BY <2>1, <2>2, <1>1, <1>2 DEF FlitTypes
<1>5. Flying(c)
  BY <1>1, Zenon DEF ChannelPhases, Phase, Unused, Queued, Flying, Stored, Returning, Reserved, Quiet
<1>6. \A d \in Channels \ {c} : Phase(d)' /\ (Unused(d) => Unused(d)')
  <2> TAKE d \in Channels \ {c}
  <2>1. link'[d] = link[d] /\ credit_link'[d] = credit_link[d]
    BY <1>1, <1>2, Zenon DEF ChannelTypes
  <2> QED
    BY <2>1, <1>2, <1>3, PhaseFrame, Zenon DEF ChannelPhases
<1>7. Phase(c)'
  <2>1. link'[c] = {} /\ credit_link'[c] = 1
    BY <1>1, <1>2, <1>5 DEF ChannelTypes, Flying
  <2>2. Returning(c)'
    BY <2>1, <1>2, <1>3, <1>5, Zenon DEF Flying, Returning, Quiet, OneUsed, IsIdle
  <2> QED
    BY <2>2, Zenon DEF Phase
<1>8. ChannelPhases'
  BY <1>6, <1>7 DEF ChannelPhases
<1>9. QuietBeforeInit'
  BY <1>2, <1>5, <1>6, Zenon DEF QuietBeforeInit, Unused, Flying
<1>10. StoredRouted'
  BY <1>2, Zenon DEF StoredRouted
<1> QED
  BY <1>2, <1>4, <1>8, <1>9, <1>10, FlowStep DEF bubbleVars
-----------------------------------------------------------------------------
\* What a bubble that moves from inport o to inport p means for the set of
\* reserved channels.
LEMMA BubbleMove ==
    ASSUME IInv, bubble_init, bubble_init', NEW b \in Bubbles,
           NEW o, o = bubble[b].inport,
           NEW p \in IntLinks, ~IsBubble(Vc0(p)),
           bubble'[b].inport = p,
           \A a \in Bubbles \ {b} : bubble'[a].inport = bubble[a].inport
    PROVE  /\ BubblesDistinct' /\ BubblesPlaced' /\ QuietBeforeInit'
           /\ Vc0(o) \in Channels /\ Vc0(p) \in Channels /\ Vc0(o) # Vc0(p)
           /\ IsBubble(Vc0(o)) /\ ~IsBubble(Vc0(o))'
           /\ IsBubble(Vc0(p))'
           /\ \A d \in Channels \ {Vc0(o), Vc0(p)} : IsBubble(d)' <=> IsBubble(d)
<1> USE DEF IInv
<1>1. o \in IntLinks /\ \A a \in Bubbles : bubble[a].inport \in IntLinks
  BY Zenon DEF BubblesPlaced
<1>2. Vc0(o) \in Channels /\ Vc0(p) \in Channels
  BY <1>1, LinkFacts, Zenon DEF Vc0, Channels
<1>3. \A l, m : Vc0(l) = Vc0(m) => l = m
  BY Zenon DEF Vc0
<1>4. \A a \in Bubbles : bubble[a].inport # p
  BY DEF IsBubble
<1>5. \A a \in Bubbles \ {b} : bubble[a].inport # o
  BY Zenon DEF BubblesDistinct
<1>6. BubblesDistinct' /\ BubblesPlaced' /\ QuietBeforeInit'
  BY <1>1, <1>4, Zenon DEF BubblesDistinct, BubblesPlaced, QuietBeforeInit
<1>7. IsBubble(Vc0(o)) /\ Vc0(o) # Vc0(p)
  BY <1>3, <1>4, Zenon DEF IsBubble
<1>8. ~IsBubble(Vc0(o))' /\ IsBubble(Vc0(p))'
  BY <1>3, <1>4, <1>5, Zenon DEF IsBubble
<1>9. \A d \in Channels \ {Vc0(o), Vc0(p)} : IsBubble(d)' <=> IsBubble(d)
  BY SMTT(30) DEF IsBubble
<1> QED
  BY <1>2, <1>6, <1>7, <1>8, <1>9, Zenon

\* Exchange with an empty VC: the Reserved channel of o and the Unused
\* channel of p trade phases.
LEMMA ExchangeWithEmptyStep ==
    ASSUME IInv, bubble_init, bubble_init', NEW b \in Bubbles,
           NEW o, o = bubble[b].inport,
           NEW p \in IntLinks, IsIdle(Vc0(p)),
           ExchangeWithEmpty(o, p), BubbleTypes',
           bubble'[b].inport = p,
           \A a \in Bubbles \ {b} : bubble'[a].inport = bubble[a].inport
    PROVE  IInv'
<1>a. ChannelTypes /\ FlitTypes /\ ChannelPhases /\ StoredRouted
  BY DEF IInv
<1> DEFINE co == Vc0(o)
           cp == Vc0(p)
<1>1. cp \in Channels
  <2>1. p \in IntLinks
    BY Zenon
  <2> QED
    BY ONLY <2>1, LinkFacts, Zenon DEF Vc0, Channels, cp
<1>2. Unused(cp)
  <2>1. IsIdle(cp)
    BY Zenon
  <2> QED
    BY ONLY <1>a, <1>1, <2>1, Zenon
       DEF ChannelPhases, Phase, Unused, Queued, Flying, Stored, Returning, Reserved
<1>3. ~IsBubble(cp)
  BY ONLY <1>2 DEF Unused
<1>4. /\ BubblesDistinct' /\ BubblesPlaced' /\ QuietBeforeInit'
      /\ co \in Channels /\ co # cp
      /\ IsBubble(co) /\ ~IsBubble(co)' /\ IsBubble(cp)'
      /\ \A d \in Channels \ {co, cp} : IsBubble(d)' <=> IsBubble(d)
  BY <1>3, BubbleMove, Zenon
<1>5. /\ credit' = [credit EXCEPT ![cp] = @ - 1, ![co] = @ + 1]
      /\ out_vc_state' = [out_vc_state EXCEPT ![cp] = "ACTIVE_", ![co] = "IDLE_"]
      /\ vc_state' = [vc_state EXCEPT ![cp] = "ACTIVE_", ![co] = "IDLE_"]
      /\ UNCHANGED <<ni_out_vcs, link, buffer, credit_link, outport, injected, received>>
  <2>1. ExchangeWithEmpty(o, p)
    BY Zenon
  <2> QED
    BY ONLY <2>1 DEF ExchangeWithEmpty, flitVars, co, cp
<1> HIDE DEF co, cp
<1>6. Reserved(co)
  BY ONLY <1>a, <1>4, Zenon DEF ChannelPhases, Phase, Unused, Queued, Flying, Stored, Returning, Reserved
<1>7. ChannelTypes' /\ FlitTypes' /\ StoredRouted'
  <2>1. ChannelTypes'
    BY ONLY <1>a, <1>1, <1>4, <1>5 DEF ChannelTypes, VcStates
  <2> QED
    BY ONLY <1>a, <2>1, <1>5 DEF FlitTypes, StoredRouted
<1>8. \A d \in Channels \ {co, cp} : Phase(d)'
  <2> TAKE d \in Channels \ {co, cp}
  <2>0. d \in Channels /\ d # co /\ d # cp
    OBVIOUS
  <2>1. credit'[d] = credit[d] /\ out_vc_state'[d] = out_vc_state[d] /\ vc_state'[d] = vc_state[d]
    BY ONLY <1>a, <2>0, <1>5 DEF ChannelTypes
  <2> QED
    BY ONLY <1>a, <2>0, <2>1, <1>4, <1>5, PhaseFrame, Zenon DEF ChannelPhases
<1>9. Phase(co)'
  <2>1. credit'[co] = credit[co] + 1 /\ out_vc_state'[co] = "IDLE_" /\ vc_state'[co] = "IDLE_"
    BY ONLY <1>a, <1>1, <1>4, <1>5 DEF ChannelTypes
  <2>2. credit'[co] = BuffersPerVC[co[2]]
    BY ONLY <2>1, <1>4, <1>6, LinkFacts DEF Reserved, OneUsed
  <2>3. Unused(co)'
    BY ONLY <2>1, <2>2, <1>4, <1>5, <1>6 DEF Reserved, Unused, Quiet, Full, IsIdle
  <2> QED
    BY ONLY <2>3, Zenon DEF Phase
<1>10. Phase(cp)'
  <2>1. credit'[cp] = credit[cp] - 1 /\ out_vc_state'[cp] = "ACTIVE_" /\ vc_state'[cp] = "ACTIVE_"
    BY ONLY <1>a, <1>1, <1>4, <1>5, Zenon DEF ChannelTypes
  <2>2. Reserved(cp)'
    BY ONLY <2>1, <1>2, <1>4, <1>5 DEF Reserved, Unused, Quiet, Full, OneUsed, IsIdle
  <2> QED
    BY ONLY <2>2, Zenon DEF Phase
<1>11. ChannelPhases'
  BY ONLY <1>8, <1>9, <1>10 DEF ChannelPhases
<1> QED
  BY <1>4, <1>7, <1>11, Zenon DEF IInv

\* Exchange with a packet: the Reserved channel of o and the Stored channel
\* of p trade phases.
LEMMA ExchangeWithFlitStep ==
    ASSUME IInv, bubble_init, bubble_init', NEW b \in Bubbles,
           NEW o, o = bubble[b].inport,
           NEW p \in IntLinks, NEW f \in buffer[Vc0(p)],
           ExchangeWithFlit(o, p, f), BubbleTypes',
           outport' \in [Flits -> Links \cup {NoLink}],
           \A g \in Flits : outport[g] \in Links => outport'[g] \in Links,
           bubble'[b].inport = p,
           \A a \in Bubbles \ {b} : bubble'[a].inport = bubble[a].inport
    PROVE  IInv'
<1>a. ChannelTypes /\ FlitTypes /\ ChannelPhases /\ StoredRouted
  BY Zenon DEF IInv
<1> DEFINE co == Vc0(o)
           cp == Vc0(p)
<1>1. cp \in Channels
  <2>1. p \in IntLinks
    OBVIOUS
  <2> QED
    BY ONLY <2>1, LinkFacts DEF Vc0, Channels, cp
<1>2. Stored(cp)
  <2>1. f \in buffer[cp]
    BY Zenon
  <2> QED
    BY ONLY <1>a, <1>1, <2>1, Zenon
       DEF ChannelPhases, Phase, Unused, Queued, Flying, Stored, Returning, Reserved, Quiet
<1>3. ~IsBubble(cp)
  BY ONLY <1>2 DEF Stored
<1>4. /\ BubblesDistinct' /\ BubblesPlaced' /\ QuietBeforeInit'
      /\ co \in Channels /\ co # cp
      /\ IsBubble(co) /\ ~IsBubble(co)' /\ IsBubble(cp)'
      /\ \A d \in Channels \ {co, cp} : IsBubble(d)' <=> IsBubble(d)
  BY <1>3, BubbleMove, Zenon
<1>5. /\ buffer' = [buffer EXCEPT ![cp] = @ \ {f}, ![co] = @ \cup {f}]
      /\ UNCHANGED <<out_vc_state, credit, ni_out_vcs, link, vc_state, credit_link, injected, received>>
      /\ f \in buffer[cp]
  <2>1. ExchangeWithFlit(o, p, f) /\ f \in buffer[cp]
    OBVIOUS
  <2> QED
    BY ONLY <2>1, Zenon DEF ExchangeWithFlit, co, cp
<1> HIDE DEF co, cp
<1>6. Reserved(co)
  BY ONLY <1>a, <1>4, Zenon DEF ChannelPhases, Phase, Unused, Queued, Flying, Stored, Returning, Reserved
<1>7. f \in Flits /\ buffer[cp] = {f}
  BY ONLY <1>a, <1>1, <1>2, <1>5, Zenon DEF ChannelTypes, Stored
<1>8. ChannelTypes' /\ FlitTypes' /\ StoredRouted'
  <2>1. ChannelTypes'
    BY ONLY <1>a, <1>1, <1>4, <1>5, <1>7 DEF ChannelTypes
  <2>2. FlitTypes'
    BY <1>a, <1>5, Zenon DEF FlitTypes
  <2>3. StoredRouted'
    <3>1. \A g \in Flits : outport[g] \in Links => outport'[g] \in Links
      OBVIOUS
    <3> QED
      BY ONLY <3>1, <1>a, <1>1, <1>4, <1>5, <1>7, Zenon DEF StoredRouted, ChannelTypes
  <2> QED
    BY <2>1, <2>2, <2>3, Zenon
<1>9. \A d \in Channels \ {co, cp} : Phase(d)'
  <2> TAKE d \in Channels \ {co, cp}
  <2>0. d \in Channels /\ d # co /\ d # cp
    BY Zenon
  <2>1. buffer'[d] = buffer[d]
    BY ONLY <1>a, <2>0, <1>5 DEF ChannelTypes
  <2> QED
    BY ONLY <1>a, <2>0, <2>1, <1>4, <1>5, PhaseFrame, Zenon DEF ChannelPhases
<1>10. Phase(co)'
  <2>1. buffer'[co] = {f}
    BY ONLY <1>a, <1>1, <1>4, <1>5, <1>6, Zenon DEF ChannelTypes, Reserved, Quiet
  <2>2. Stored(co)'
    BY ONLY <2>1, <1>4, <1>5, <1>6, <1>7, Zenon DEF Reserved, Stored, Quiet, OneUsed, IsIdle
  <2> QED
    BY <2>2, Zenon DEF Phase
<1>11. Phase(cp)'
  <2>1. buffer'[cp] = {}
    BY ONLY <1>a, <1>1, <1>4, <1>5, <1>7, Zenon DEF ChannelTypes
  <2>2. Reserved(cp)'
    BY ONLY <2>1, <1>2, <1>4, <1>5 DEF Reserved, Stored, Quiet, OneUsed, IsIdle
  <2> QED
    BY <2>2, Zenon DEF Phase
<1>12. ChannelPhases'
  BY ONLY <1>9, <1>10, <1>11, Zenon DEF ChannelPhases
<1> QED
  BY <1>4, <1>8, <1>12, Zenon DEF IInv

\* The first inports of distinct routers are distinct Unused channels, which
\* the placement turns into Reserved ones.
LEMMA init_brownian_bubblesStep ==
    ASSUME IInv, init_brownian_bubbles
    PROVE  IInv'
<1> USE DEF IInv
<1>1. PICK place \in Placements :
          LET taken == {Vc0(FirstInport(place[k])) : k \in Bubbles}
          IN  /\ credit' = [c \in Channels |-> IF c \in taken THEN credit[c] - 1 ELSE credit[c]]
              /\ out_vc_state' = [c \in Channels |-> IF c \in taken THEN "ACTIVE_" ELSE out_vc_state[c]]
              /\ vc_state' = [c \in Channels |-> IF c \in taken THEN "ACTIVE_" ELSE vc_state[c]]
              /\ bubble' = [k \in Bubbles |-> [inport |-> FirstInport(place[k]), sense_inc |-> TRUE]]
  BY Zenon DEF init_brownian_bubbles
<1> DEFINE taken == {Vc0(FirstInport(place[k])) : k \in Bubbles}
<1>2. /\ ~bubble_init /\ bubble_init'
      /\ UNCHANGED <<ni_out_vcs, link, buffer, credit_link, outport, injected, received>>
  BY DEF init_brownian_bubbles, flitVars
<1>3. \A k \in Bubbles : FirstInport(place[k]) \in IntLinks /\ FirstInport(place[k])[2] = place[k]
  BY PlacementFacts, FirstInportFact, Zenon
<1>4. \A d \in taken : d \in Channels /\ d[1] \in IntLinks
  BY <1>3, LinkFacts DEF Vc0, Channels
<1>5. \A d \in taken : Unused(d)
  BY <1>2, <1>4 DEF QuietBeforeInit
<1>6. \A d \in Channels : IsBubble(d)' <=> d \in taken
  BY <1>1, Zenon DEF IsBubble
<1>7. \A d \in Channels : ~IsBubble(d)
  BY <1>2, LinkFacts, TopologyAssumption, SMTT(30) DEF IsBubble, Vc0, Channels, BubblesPlaced
<1>8. /\ credit' = [c \in Channels |-> IF c \in taken THEN credit[c] - 1 ELSE credit[c]]
      /\ out_vc_state' = [c \in Channels |-> IF c \in taken THEN "ACTIVE_" ELSE out_vc_state[c]]
      /\ vc_state' = [c \in Channels |-> IF c \in taken THEN "ACTIVE_" ELSE vc_state[c]]
  BY <1>1, Zenon
<1> HIDE DEF taken
<1>9. ChannelTypes'
  BY <1>2, <1>8, SMTT(30) DEF ChannelTypes, VcStates
<1>10. BubbleTypes'
  BY <1>1, <1>2, <1>3 DEF BubbleTypes
<1>11. FlitTypes' /\ StoredRouted'
  BY <1>2 DEF FlitTypes, StoredRouted
<1>12. ChannelPhases'
  <2> SUFFICES ASSUME NEW d \in Channels PROVE Phase(d)'
    BY DEF ChannelPhases
  <2>1. CASE d \in taken
    <3>1. credit'[d] = credit[d] - 1 /\ out_vc_state'[d] = "ACTIVE_" /\ vc_state'[d] = "ACTIVE_"
      BY <2>1, <1>8, SMTT(30)
    <3>2. Reserved(d)'
      BY <3>1, <2>1, <1>2, <1>5, <1>6, Zenon DEF Unused, Reserved, Quiet, Full, OneUsed, IsIdle
    <3> QED
      BY <3>2 DEF Phase
  <2>2. CASE d \notin taken
    <3>1. credit'[d] = credit[d] /\ out_vc_state'[d] = out_vc_state[d] /\ vc_state'[d] = vc_state[d]
      BY <2>2, <1>8
    <3> QED
      BY <3>1, <2>2, <1>2, <1>6, <1>7, PhaseFrame DEF ChannelPhases
  <2> QED
    BY <2>1, <2>2
<1>13. BubblesPlaced' /\ QuietBeforeInit'
  BY <1>1, <1>2, <1>3, Zenon DEF BubblesPlaced, QuietBeforeInit
<1>14. BubblesDistinct'
  <2>1. \A a, b \in Bubbles : place[a] = place[b] => a = b
    BY PlacementFacts
  <2>2. \A a \in Bubbles : bubble'[a].inport[2] = place[a]
    BY <1>1, <1>3, Zenon
  <2> QED
    BY <2>1, <2>2 DEF BubblesDistinct
<1> QED
  BY <1>9, <1>10, <1>11, <1>12, <1>13, <1>14

\* Within a router a bubble makes one of the two exchanges, so
\* move_intra_bubble preserves the invariant.
LEMMA move_intra_bubbleStep ==
    ASSUME IInv, NEW b \in Bubbles, NEW p \in IntLinks, move_intra_bubble(b, p)
    PROVE  IInv'
<1> DEFINE o == bubble[b].inport
<1>1. /\ bubble_init /\ bubble_init'
      /\ bubble' = [bubble EXCEPT ![b].inport = p]
  BY DEF move_intra_bubble
<1>2. /\ BubbleTypes' /\ bubble'[b].inport = p
      /\ \A a \in Bubbles \ {b} : bubble'[a].inport = bubble[a].inport
  BY <1>1 DEF IInv, BubbleTypes
<1>3. CASE IsIdle(Vc0(p)) /\ ExchangeWithEmpty(o, p)
  BY <1>1, <1>2, <1>3, ExchangeWithEmptyStep
<1>4. ASSUME NEW f \in buffer[Vc0(p)], ExchangeWithFlit(o, p, f), UNCHANGED outport
      PROVE  IInv'
  <2>1. outport' \in [Flits -> Links \cup {NoLink}]
    BY <1>4 DEF IInv, FlitTypes
  <2> QED
    BY <2>1, <1>1, <1>2, <1>4, ExchangeWithFlitStep
<1> QED
  BY <1>3, <1>4 DEF move_intra_bubble, EmptyAndIdle

\* So does move_inter_bubble, whose failed draws only change sense_inc.
LEMMA move_inter_bubbleStep ==
    ASSUME IInv, NEW b \in Bubbles, move_inter_bubble(b)
    PROVE  IInv'
<1> USE DEF IInv
<1> DEFINE o   == bubble[b].inport
           hop == NextHop[Router(b)][bubble[b].sense_inc]
<1>1. bubble_init /\ bubble_init' /\ o \in IntLinks
  BY SMTT(30) DEF move_inter_bubble, BubblesPlaced
<1>2. o[2] \in Routers /\ hop[1] \in Routers /\ hop[2] \in BOOLEAN
  <2>1. o[2] \in Routers
    BY <1>1, LinkFacts
  <2>2. bubble[b].sense_inc \in BOOLEAN
    BY SMTT(30) DEF BubbleTypes
  <2>3. hop \in Routers \X BOOLEAN
    BY <2>1, <2>2, BubbleAssumption, Zenon DEF Router
  <2> QED
    BY <2>1, <2>3
<1>3. CASE /\ bubble' = [bubble EXCEPT ![b].sense_inc = hop[2]]
           /\ UNCHANGED <<chanVars, flitVars>>
  <2>1. BubbleTypes' /\ \A a \in Bubbles : bubble'[a].inport = bubble[a].inport
    BY <1>1, <1>2, <1>3, Zenon DEF BubbleTypes
  <2>2. /\ UNCHANGED <<out_vc_state, credit, ni_out_vcs, link, vc_state, buffer, credit_link>>
        /\ UNCHANGED <<outport, injected, received>>
    BY <1>3, Zenon DEF chanVars, flitVars
  <2>3. \A d \in Channels : IsBubble(d)' <=> IsBubble(d)
    BY <2>1, Zenon DEF IsBubble
  <2>4. ChannelPhases'
    BY <2>2, <2>3, PhaseFrame, Zenon DEF ChannelPhases
  <2>5. BubblesDistinct' /\ BubblesPlaced' /\ QuietBeforeInit'
    BY <2>1, <1>1, Zenon DEF BubblesDistinct, BubblesPlaced, QuietBeforeInit
  <2> QED
    BY <2>1, <2>2, <2>4, <2>5, Zenon DEF ChannelTypes, FlitTypes, StoredRouted
<1>4. ASSUME NEW p \in IntLinks,
             bubble' = [bubble EXCEPT ![b] = [inport |-> p, sense_inc |-> hop[2]]]
      PROVE  /\ BubbleTypes' /\ bubble'[b].inport = p
             /\ \A a \in Bubbles \ {b} : bubble'[a].inport = bubble[a].inport
  BY <1>1, <1>2, <1>4, Zenon DEF BubbleTypes
<1>5. ASSUME NEW p \in IntLinks, IsIdle(Vc0(p)), ExchangeWithEmpty(o, p),
             bubble' = [bubble EXCEPT ![b] = [inport |-> p, sense_inc |-> hop[2]]]
      PROVE  IInv'
  BY <1>1, <1>4, <1>5, ExchangeWithEmptyStep, Zenon
<1>6. ASSUME NEW p \in IntLinks, NEW f \in buffer[Vc0(p)], ExchangeWithFlit(o, p, f),
             NEW out \in Route[o[2]][DestNI[f]], outport' = [outport EXCEPT ![f] = out],
             bubble' = [bubble EXCEPT ![b] = [inport |-> p, sense_inc |-> hop[2]]]
      PROVE  IInv'
  <2>1. f \in Flits
    BY LinkFacts, Zenon DEF ChannelTypes, Vc0, Channels
  <2>2. out \in Links
    BY <2>1, <1>2, LinkFacts, FlitAssumption, SMTT(30)
  <2>3. /\ outport' \in [Flits -> Links \cup {NoLink}]
        /\ \A g \in Flits : outport[g] \in Links => outport'[g] \in Links
    BY <2>1, <2>2, <1>6, Zenon DEF FlitTypes
  <2> QED
    BY <2>3, <1>1, <1>4, <1>6, ExchangeWithFlitStep, Zenon
<1>7. \A r \in Routers : Inports(r) \subseteq IntLinks
  BY DEF Inports
<1> QED
  BY <1>2, <1>3, <1>5, <1>6, <1>7, Zenon DEF move_inter_bubble, EmptyAndIdle, Reroute, route_compute
-----------------------------------------------------------------------------
\* Every handler of the routers and NIs and every bubble movement preserves
\* the inductive invariant.
THEOREM NextIInv == IInv /\ [Next]_vars => IInv'
<1> SUFFICES ASSUME IInv, [Next]_vars PROVE IInv'
  OBVIOUS
<1>1. CASE init_brownian_bubbles
  BY <1>1, init_brownian_bubblesStep
<1>2. ASSUME NEW f \in Flits, flitisizeMessage(f) PROVE IInv'
  BY <1>2, flitisizeMessageStep
<1>3. ASSUME NEW c \in Channels, scheduleOutputLink(c) PROVE IInv'
  BY <1>3, scheduleOutputLinkStep
<1>4. ASSUME NEW c \in Channels, InputUnit_wakeup(c) PROVE IInv'
  BY <1>4, InputUnit_wakeupStep
<1>5. ASSUME NEW c \in Channels, arbitrate_outports(c) PROVE IInv'
  BY <1>5, arbitrate_outportsStep
<1>6. ASSUME NEW c \in Channels, OutputUnit_wakeup(c) PROVE IInv'
  BY <1>6, OutputUnit_wakeupStep
<1>7. ASSUME NEW c \in Channels, NI_receive(c) PROVE IInv'
  BY <1>7, NI_receiveStep
<1>8. ASSUME NEW b \in Bubbles, NEW p \in IntLinks, move_intra_bubble(b, p) PROVE IInv'
  BY <1>8, move_intra_bubbleStep
<1>9. ASSUME NEW b \in Bubbles, move_inter_bubble(b) PROVE IInv'
  BY <1>9, move_inter_bubbleStep
<1>10. CASE UNCHANGED vars
  <2>1. UNCHANGED <<out_vc_state, credit, ni_out_vcs, link, vc_state, buffer, credit_link,
                    outport, bubble, bubble_init, injected, received>>
    BY <1>10 DEF vars, chanVars, bubbleVars, flitVars
  <2>2. \A d \in Channels : IsBubble(d)' <=> IsBubble(d)
    BY <2>1, BubbleFrame, Zenon
  <2>3. ChannelPhases' /\ QuietBeforeInit'
    BY <2>1, <2>2, PhaseFrame, SMTT(30) DEF IInv, ChannelPhases, QuietBeforeInit
  <2>4. ChannelTypes' /\ FlitTypes' /\ StoredRouted'
    BY <2>1 DEF IInv, ChannelTypes, FlitTypes, StoredRouted
  <2> QED
    BY <2>1, <2>3, <2>4, FlowStep DEF bubbleVars
<1> QED
  BY <1>1, <1>2, <1>3, <1>4, <1>5, <1>6, <1>7, <1>8, <1>9, <1>10 DEF Next

\* The inductive invariant holds throughout every run of the network.
THEOREM InductiveInvariant == Spec => []IInv
BY InitIInv, NextIInv, PTL DEF Spec

\* Type correctness, including the bounds OutVcState asserts on its credit
\* count.
THEOREM TypeCorrect == Spec => []TypeOK
<1>1. IInv => TypeOK
  <2> SUFFICES ASSUME IInv PROVE TypeOK
    BY Zenon
  <2>1. ASSUME NEW c \in Channels
        PROVE  /\ credit[c] \in 0 .. BuffersPerVC[c[2]]
               /\ credit_link[c] \in 0 .. BuffersPerVC[c[2]]
    <3>1. BuffersPerVC[c[2]] \in Nat \ {0}
      BY LinkFacts
    <3> QED
      BY <3>1, SMTT(30) DEF IInv, ChannelPhases, Phase, Unused, Queued, Flying, Stored, Returning,
                  Reserved, Full, OneUsed
  <2>2. BubbleTypes /\ ChannelTypes /\ FlitTypes
    BY DEF IInv
  <2> QED
    BY <2>1, <2>2, Zenon DEF TypeOK
<1> QED
  BY <1>1, InductiveInvariant, PTL

\* The sizes of the sets a channel holds: Cardinality's recursion has the
\* obvious solution on the subsets of a set with at most one element.
LEMMA SmallSets == Cardinality({}) = 0 /\ \A x : Cardinality({x}) = 1
<1>1. Cardinality({}) = 0
  <2> DEFINE F(f) == f = [T \in SUBSET {} |-> IF T = {} THEN 0 ELSE 1 + f[T \ {CHOOSE x : x \in T}]]
  <2>1. Cardinality({}) = (CHOOSE f : F(f))[{}]
    BY DEF Cardinality
  <2>2. F([T \in SUBSET {} |-> 0])
    OBVIOUS
  <2>3. F(CHOOSE f : F(f))
    BY <2>2
  <2> QED
    BY <2>1, <2>3, Zenon
<1>2. ASSUME NEW x PROVE Cardinality({x}) = 1
  <2> DEFINE F(f) == f = [T \in SUBSET {x} |-> IF T = {} THEN 0 ELSE 1 + f[T \ {CHOOSE y : y \in T}]]
             g == [T \in SUBSET {x} |-> IF T = {} THEN 0 ELSE 1]
  <2>1. Cardinality({x}) = (CHOOSE f : F(f))[{x}]
    BY DEF Cardinality
  <2>2. \A T \in SUBSET {x} : T # {} => T \ {CHOOSE y : y \in T} = {}
    OBVIOUS
  <2>3. F(g)
    BY <2>2
  <2>4. F(CHOOSE f : F(f))
    BY <2>3, Zenon
  <2>5. \A f : F(f) => f[{x}] = 1
    <3> TAKE f
    <3> HAVE F(f)
    <3>1. f[{}] = 0 /\ f[{x}] = 1 + f[{x} \ {CHOOSE y : y \in {x}}]
      OBVIOUS
    <3>2. {x} \ {CHOOSE y : y \in {x}} = {}
      BY <2>2
    <3> QED
      BY <3>1, <3>2
  <2> HIDE DEF F
  <2> QED
    BY <2>1, <2>4, <2>5
<1> QED
  BY <1>1, <1>2

\* The slots of every VC are accounted for at every moment, whatever the
\* bubbles exchange while flits and credits are on the wires.
THEOREM CreditsConserved == Spec => []CreditConservation
<1>1. IInv => CreditConservation
  <2> SUFFICES ASSUME IInv, NEW c \in Channels
               PROVE  credit[c] + Cardinality(link[c]) + Cardinality(buffer[c]) + credit_link[c]
                          + (IF IsBubble(c) THEN 1 ELSE 0) = BuffersPerVC[c[2]]
    BY DEF CreditConservation
  <2>1. BuffersPerVC[c[2]] \in Nat \ {0}
    BY LinkFacts
  <2>2. Cardinality({}) = 0 /\ \A f \in Flits : Cardinality({f}) = 1
    BY SmallSets, Zenon
  <2>3. Phase(c)
    BY Zenon DEF IInv, ChannelPhases
  <2>4. CASE Unused(c) \/ Queued(c)
    BY ONLY <2>1, <2>2, <2>4 DEF Unused, Queued, Full, Quiet
  <2>5. CASE Flying(c) \/ Stored(c)
    <3>1. Cardinality(link[c]) + Cardinality(buffer[c]) = 1
      <4>1. CASE Flying(c)
        <5>1. Cardinality(link[c]) = 1 /\ Cardinality(buffer[c]) = 0
          BY <2>2, <4>1 DEF Flying
        <5> QED
          BY <5>1
      <4>2. CASE Stored(c)
        <5>1. Cardinality(link[c]) = 0 /\ Cardinality(buffer[c]) = 1
          BY <2>2, <4>2, Zenon DEF Stored
        <5> QED
          BY <5>1
      <4> QED
        BY <2>5, <4>1, <4>2, SMTT(30)
    <3>2. credit[c] = BuffersPerVC[c[2]] - 1 /\ credit_link[c] = 0 /\ ~IsBubble(c)
      BY <2>5, SMTT(30) DEF Flying, Stored, OneUsed
    <3>3. Cardinality(link[c]) \in Nat /\ Cardinality(buffer[c]) \in Nat
      BY <2>2, <2>5, SMTT(30) DEF Flying, Stored
    <3> QED
      BY <2>1, <3>1, <3>2, <3>3
  <2>6. CASE Returning(c) \/ Reserved(c)
    BY ONLY <2>1, <2>2, <2>6 DEF Returning, Reserved, OneUsed, Quiet
  <2> QED
    BY <2>3, <2>4, <2>5, <2>6, Zenon DEF Phase
<1> QED
  BY <1>1, InductiveInvariant, PTL

\* A VC the upstream router holds to be idle is unused by anybody, and an
\* unused one is never forgotten.
THEOREM IdleIsUnused == Spec => []IdleMeansUnused
<1>1. IInv => IdleMeansUnused
  <2> SUFFICES ASSUME IInv, NEW c \in Channels
               PROVE  IsIdle(c) <=> /\ ni_out_vcs[c] = {} /\ link[c] = {} /\ buffer[c] = {}
                                    /\ credit_link[c] = 0
                                    /\ ~IsBubble(c)
    BY Zenon DEF IdleMeansUnused
  <2>1. Phase(c)
    BY Zenon DEF IInv, ChannelPhases
  <2> QED
    BY ONLY <2>1 DEF Phase, Unused, Queued, Flying, Stored, Returning, Reserved, Quiet
<1> QED
  BY <1>1, InductiveInvariant, PTL

\* Placed bubbles keep their VC empty and unallocatable.
THEOREM BubblesHold == Spec => []BubbleReserved
<1>1. IInv => BubbleReserved
  <2> SUFFICES ASSUME IInv, bubble_init, NEW b \in Bubbles
               PROVE  LET c == Vc0(bubble[b].inport)
                      IN  /\ bubble[b].inport \in IntLinks
                          /\ link[c] = {} /\ buffer[c] = {} /\ credit_link[c] = 0
                          /\ out_vc_state[c] = "ACTIVE_" /\ vc_state[c] = "ACTIVE_"
    BY Zenon DEF BubbleReserved
  <2>1. bubble[b].inport \in IntLinks
    BY DEF IInv, BubblesPlaced
  <2>2. Vc0(bubble[b].inport) \in Channels
    BY <2>1, LinkFacts DEF Vc0, Channels
  <2>3. IsBubble(Vc0(bubble[b].inport))
    BY DEF IsBubble
  <2>4. Reserved(Vc0(bubble[b].inport))
    BY <2>2, <2>3, Zenon DEF IInv, ChannelPhases, Phase, Unused, Queued, Flying, Stored, Returning
  <2> QED
    BY <2>1, <2>2, <2>4, Zenon DEF Reserved, Quiet, IInv, ChannelTypes, VcStates, IsIdle
<1> QED
  BY <1>1, InductiveInvariant, PTL

\* No two bubbles share a VC, although move_inter_bubble does not compare the
\* port it takes with the ports of the other bubbles.
THEOREM BubblesApart == Spec => []BubblesDistinct
<1>1. IInv => BubblesDistinct
  BY DEF IInv
<1> QED
  BY <1>1, InductiveInvariant, PTL

\* The assertion of InputUnit::wakeup on the VC of an arriving flit never
\* fails.
THEOREM ArrivalsFindIdleVC == Spec => []ArrivalFindsIdleVC
<1>1. IInv => ArrivalFindsIdleVC
  BY Zenon DEF IInv, ArrivalFindsIdleVC, ChannelPhases, Phase, Unused, Queued, Flying, Stored,
         Returning, Reserved, Quiet
<1> QED
  BY <1>1, InductiveInvariant, PTL

\* The assertions of VirtualChannel::need_stage and move_intra_bubble on the
\* states of a VC that stores a flit never fail.
THEOREM OccupiedVCsAreActive == Spec => []OccupiedVCsActive
<1>1. IInv => OccupiedVCsActive
  BY DEF IInv, OccupiedVCsActive, ChannelPhases, Phase, Unused, Queued, Flying, Stored,
         Returning, Reserved, Quiet, IsIdle, ChannelTypes, VcStates
<1> QED
  BY <1>1, InductiveInvariant, PTL
=============================================================================
