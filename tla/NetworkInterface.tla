-------------------------- MODULE NetworkInterface ---------------------------
(***************************************************************************)
(* One network interface, cycle by cycle: messages of the protocol are     *)
(* made into flits, flits of the network are handed to the protocol or     *)
(* stalled, and the interface runs only in the cycles it was woken for.    *)
(*                                                                         *)
(* What enters a buffer or a link in a cycle is ready in the next one, so  *)
(* it makes no difference to let it enter after the wakeup of the cycle.   *)
(***************************************************************************)
EXTENDS Integers, Sequences, FiniteSets, Functions

CONSTANTS
    NumVnets,     \* m_virtual_networks
    VcsPerVnet,   \* m_vc_per_vnet
    Ordered,      \* the vnets for which isVNetOrdered holds
    Dests,        \* vnet to the destination sets of the messages to send
    NumArrivals,  \* vnet to the number of flits that arrive from the network
    BufferSize,   \* m_max_size of the protocol buffers flits are ejected to
    MaxDequeues   \* messages a controller takes from a buffer in a cycle

Vnets == 0 .. (NumVnets - 1)
VCs   == 0 .. (NumVnets * VcsPerVnet - 1)
None  == <<>>

\* The VCs of a vnet follow each other.
VcsOf(vnet)  == (vnet * VcsPerVnet) .. (vnet * VcsPerVnet + VcsPerVnet - 1)
get_vnet(vc) == CHOOSE vnet \in Vnets : vc \in VcsOf(vnet)

ASSUME InterfaceAssumption ==
    /\ NumVnets \in Nat \ {0} /\ VcsPerVnet \in Nat \ {0}
    /\ BufferSize \in Nat \ {0} /\ MaxDequeues \in Nat \ {0}
    /\ Ordered \subseteq Vnets
    /\ NumArrivals \in [Vnets -> Nat]
    /\ \A v \in Vnets : Dests[v] \in Seq(SUBSET Nat)
    /\ \A v \in Vnets : \A i \in DOMAIN Dests[v] : Dests[v][i] # {} /\ IsFiniteSet(Dests[v][i])

VARIABLES
    wake_now,       \* the wakeup of this cycle is still to run
    wake_next,      \* a wakeup is scheduled for the next cycle
    in_node,        \* inNode_ptr: messages <<number, destinations left>>
    queued,         \* how many messages the protocol has sent
    vc_allocator,   \* m_vc_allocator, per vnet
    vc_round_robin, \* m_vc_round_robin
    ni_out_vcs,     \* m_ni_out_vcs: flits <<vnet, message, destination>>
    enqueue_time,   \* m_ni_out_vcs_enqueue_time, as the flits made before
    out_vc_state,   \* m_out_vc_state
    credits,        \* credits of each VC
    sent,           \* flits put in outFlitQueue, in order
    in_credit,      \* the VC of a credit on inCreditLink, or None
    in_link,        \* the flit <<vnet, number>> on inNetLink, or None
    arrived,        \* how many flits have arrived, per vnet
    stall_queue,    \* m_stall_queue
    stall_count,    \* m_stall_count
    callback,       \* a dequeue callback is registered, per vnet
    out_node,       \* outNode_ptr: flits whose message the protocol may take
    fresh,          \* messages put in out_node in this cycle
    dequeued,       \* messages taken from out_node in this cycle
    received        \* flits ejected so far, in order, per vnet

cycleVars   == <<wake_now, wake_next>>
sendVars    == <<in_node, queued, vc_allocator, vc_round_robin, ni_out_vcs,
                 enqueue_time, out_vc_state, credits, sent, in_credit>>
receiveVars == <<in_link, arrived, stall_queue, stall_count, callback,
                 out_node, fresh, dequeued, received>>
vars        == <<cycleVars, sendVars, receiveVars>>

Init ==
    /\ wake_now = FALSE /\ wake_next = FALSE
    /\ in_node = [v \in Vnets |-> <<>>] /\ queued = [v \in Vnets |-> 0]
    /\ vc_allocator = [v \in Vnets |-> 0] /\ vc_round_robin = 0
    /\ ni_out_vcs = [vc \in VCs |-> {}] /\ enqueue_time = [vc \in VCs |-> 0]
    /\ out_vc_state = [vc \in VCs |-> "IDLE_"] /\ credits = [vc \in VCs |-> 1]
    /\ sent = <<>> /\ in_credit = None
    /\ in_link = None /\ arrived = [v \in Vnets |-> 0]
    /\ stall_queue = <<>> /\ stall_count = [v \in Vnets |-> 0]
    /\ callback = [v \in Vnets |-> FALSE]
    /\ out_node = [v \in Vnets |-> <<>>] /\ received = [v \in Vnets |-> <<>>]
    /\ fresh = [v \in Vnets |-> 0] /\ dequeued = [v \in Vnets |-> 0]
-----------------------------------------------------------------------------
\* The turn of a VC when calculateVC looks through its vnet: m_vc_allocator is
\* the VC it looks at first.
Turn(vnet, vc) ==
    LET delta == vc - vnet * VcsPerVnet
    IN  IF delta >= vc_allocator[vnet] THEN delta - vc_allocator[vnet]
                                       ELSE delta - vc_allocator[vnet] + VcsPerVnet

\* calculateVC, called for one destination after the other, returns the idle
\* VCs of the vnet in turn.
calculateVC(vnet) == {vc \in VcsOf(vnet) : out_vc_state[vc] = "IDLE_"}

\* The flits flitisizeMessage makes of the message at the head of inNode_ptr,
\* as pairs of a VC and a destination: the VC that follows ctr others in turn
\* is for the destination that follows ctr others in order.
Flitisized(vnet) ==
    IF in_node[vnet] = <<>>
    THEN {}
    ELSE LET dest_nodes == Head(in_node[vnet])[2]
         IN  {p \in calculateVC(vnet) \X dest_nodes :
                 Cardinality({u \in calculateVC(vnet) : Turn(vnet, u) < Turn(vnet, p[1])})
                     = Cardinality({d \in dest_nodes : d < p[2]})}

\* Faulty variant: the message that waits for a VC keeps its destinations.
KeepDests(vnet) ==
    LET left == Head(in_node[vnet])[2] \ {p[2] : p \in Flitisized(vnet)}
    IN  IF in_node[vnet] = <<>> \/ left # {} THEN in_node[vnet] ELSE Tail(in_node[vnet])

\* The message is dequeued when every destination has its flit; until then
\* it keeps the destinations that have none.
Remaining(vnet) ==
    LET left == Head(in_node[vnet])[2] \ {p[2] : p \in Flitisized(vnet)}
    IN  CASE in_node[vnet] = <<>> -> <<>>
          [] in_node[vnet] # <<>> /\ left = {} -> Tail(in_node[vnet])
          [] OTHER -> [in_node[vnet] EXCEPT ![1] = <<@[1], left>>]

\* m_ni_out_vcs, its times and the allocator after flitisizeMessage has run
\* for every vnet.
Flits(vc) ==
    LET vnet == get_vnet(vc)
    IN  ni_out_vcs[vc] \cup {<<vnet, Head(in_node[vnet])[1], p[2]>> :
                                p \in {q \in Flitisized(vnet) : q[1] = vc}}
Made(vc) == \E p \in Flitisized(get_vnet(vc)) : p[1] = vc
Clock    == Len(sent) + Cardinality({vc \in VCs : ni_out_vcs[vc] # {}})
Time(vc) == IF Made(vc) THEN Clock ELSE enqueue_time[vc]

\* m_vc_allocator is left after the last VC that was found; a search that finds
\* none comes back to where it started.
NextAllocator(vnet) ==
    LET made == {vc \in VcsOf(vnet) : Made(vc)}
        last == CHOOSE vc \in made : \A u \in made : Turn(vnet, u) <= Turn(vnet, vc)
    IN  IF made = {} THEN vc_allocator[vnet]
        ELSE IF last + 1 \in VcsOf(vnet) THEN (last + 1) - vnet * VcsPerVnet ELSE 0

\* Faulty variant: the order of an ordered vnet is not looked at.
AnyReady(vc) == Flits(vc) # {} /\ credits[vc] > 0

\* Faulty variant: the comparison of the times also excludes equal ones.
OlderThanAll(vc) ==
    /\ AnyReady(vc)
    /\ get_vnet(vc) \in Ordered =>
          \A u \in VcsOf(get_vnet(vc)) \ {vc} : Flits(u) # {} => Time(u) > Time(vc)

\* scheduleOutputLink may take the flit of vc: it has a credit, and no older
\* flit waits in the same ordered vnet.
IsCandidate(vc) ==
    /\ Flits(vc) # {}
    /\ credits[vc] > 0
    /\ get_vnet(vc) \in Ordered =>
          \A u \in VcsOf(get_vnet(vc)) : Flits(u) # {} => Time(u) >= Time(vc)

\* The VC that scheduleOutputLink serves: the first candidate after
\* m_vc_round_robin.
Distance(vc) ==
    IF vc > vc_round_robin THEN vc - vc_round_robin
                           ELSE vc - vc_round_robin + NumVnets * VcsPerVnet
Served ==
    {vc \in VCs : /\ IsCandidate(vc)
                  /\ \A u \in VCs : Distance(u) < Distance(vc) => ~IsCandidate(u)}
getTopFlit(vc) == CHOOSE f \in Flits(vc) : TRUE

\* The VCs after scheduleOutputLink has taken the flit of the VC in served, if
\* any, and the credit on inCreditLink has been read.
Leave(served) ==
    /\ ni_out_vcs' = [vc \in VCs |-> IF vc \in served THEN {} ELSE Flits(vc)]
    /\ enqueue_time' = [vc \in VCs |-> IF vc \in served THEN 0 ELSE Time(vc)]
    /\ credits' = [vc \in VCs |-> credits[vc] - (IF vc \in served THEN 1 ELSE 0)
                                              + (IF in_credit = <<vc>> THEN 1 ELSE 0)]
    /\ out_vc_state' = [vc \in VCs |-> CASE in_credit = <<vc>> -> "IDLE_"
                                         [] Made(vc) -> "ACTIVE_"
                                         [] OTHER -> out_vc_state[vc]]
    /\ in_credit' = None

\* The half of the wakeup that sends: flitisizeMessage, scheduleOutputLink
\* and, last, the credit on inCreditLink.
Send ==
    /\ in_node' = [v \in Vnets |-> Remaining(v)]
    /\ vc_allocator' = [v \in Vnets |-> NextAllocator(v)]
    /\ \/ /\ Served = {}
          /\ Leave({})
          /\ UNCHANGED <<vc_round_robin, sent>>
       \/ \E vc \in Served : /\ Leave({vc})
                              /\ vc_round_robin' = vc
                              /\ sent' = Append(sent, getTopFlit(vc))
    /\ UNCHANGED queued

\* checkReschedule: a message or a flit still waits.
checkReschedule ==
    \/ \E v \in Vnets : in_node'[v] # <<>>
    \/ \E vc \in VCs : ni_out_vcs'[vc] # {}
-----------------------------------------------------------------------------
\* MessageBuffer::areNSlotsAvailable(1): slots freed in this cycle do not
\* count before the next one.
areNSlotsAvailable(vnet) == Len(out_node[vnet]) + dequeued[vnet] < BufferSize

\* Faulty variant: the stall queue is looked through from its end.
UnstalledLast ==
    LET room == {i \in DOMAIN stall_queue : areNSlotsAvailable(stall_queue[i][1])}
    IN  {i \in room : \A j \in room : i >= j}

\* checkStallQueue ejects the first stalled flit whose buffer has room.
Unstalled ==
    LET room == {i \in DOMAIN stall_queue : areNSlotsAvailable(stall_queue[i][1])}
    IN  {i \in room : \A j \in room : i <= j}

\* A flit on inNetLink is ejected at once if nothing was ejected from the
\* stall queue and its buffer has room.
Accepted(f) == Unstalled = {} /\ areNSlotsAvailable(f[1])

\* A flit on inNetLink stalls; a flit of the vnet leaves the stall queue.
Stalls         == in_link # None /\ ~Accepted(in_link)
Unstalls(vnet) == \E i \in Unstalled : stall_queue[i][1] = vnet

\* A callback is registered for a flit that stalls, and unregistered when the
\* last stalled flit of the vnet is ejected.
Callback(vnet) ==
    \/ Stalls /\ in_link[1] = vnet
    \/ callback[vnet] /\ ~(Unstalls(vnet) /\ stall_count[vnet] = 1)

\* m_stall_queue without the flit that checkStallQueue erases.
Erased ==
    IF Unstalled = {}
    THEN stall_queue
    ELSE LET i == CHOOSE j \in Unstalled : TRUE
         IN  SubSeq(stall_queue, 1, i - 1) \o SubSeq(stall_queue, i + 1, Len(stall_queue))

\* The message of flit f is put in the protocol buffer of its vnet.
Eject(f) ==
    /\ out_node' = [out_node EXCEPT ![f[1]] = Append(@, f)]
    /\ received' = [received EXCEPT ![f[1]] = Append(@, f)]
    /\ fresh' = [fresh EXCEPT ![f[1]] = @ + 1]

\* The half of the wakeup that receives: checkStallQueue and the flit on
\* inNetLink.  Each ejection sends the credit of NI_receive in Bindu.
Receive ==
    /\ IF Unstalled # {} THEN \E i \in Unstalled : Eject(stall_queue[i])
       ELSE IF in_link # None /\ Accepted(in_link) THEN Eject(in_link)
       ELSE UNCHANGED <<out_node, received, fresh>>
    /\ stall_queue' = IF Stalls THEN Append(Erased, in_link) ELSE Erased
    /\ stall_count' = [v \in Vnets |-> stall_count[v]
                                         + (IF Stalls /\ in_link[1] = v THEN 1 ELSE 0)
                                         - (IF Unstalls(v) THEN 1 ELSE 0)]
    /\ callback' = [v \in Vnets |-> Callback(v)]
    /\ in_link' = None
    /\ UNCHANGED <<arrived, dequeued>>

\* NetworkInterface::wakeup
wakeup ==
    /\ wake_now
    /\ Send
    /\ Receive
    /\ wake_now' = FALSE
    /\ wake_next' = (wake_next \/ checkReschedule)

\* The next cycle starts when the events of this one have run.
Tick ==
    /\ ~wake_now
    /\ wake_now' = wake_next
    /\ wake_next' = FALSE
    /\ fresh' = [v \in Vnets |-> 0]
    /\ dequeued' = [v \in Vnets |-> 0]
    /\ UNCHANGED <<sendVars, in_link, arrived, stall_queue, stall_count, callback,
                   out_node, received>>

\* A controller enqueues a message in inNode_ptr, which schedules its
\* consumer.
protocol_enqueue(v) ==
    /\ ~wake_now
    /\ queued[v] < Len(Dests[v])
    /\ queued' = [queued EXCEPT ![v] = @ + 1]
    /\ in_node' = [in_node EXCEPT ![v] = Append(@, <<queued[v] + 1, Dests[v][queued[v] + 1]>>)]
    /\ wake_next' = TRUE
    /\ UNCHANGED <<wake_now, vc_allocator, vc_round_robin, ni_out_vcs, enqueue_time,
                   out_vc_state, credits, sent, in_credit, receiveVars>>

\* CreditLink::wakeup brings back the credit of a VC whose flit has left.
credit_arrives(vc) ==
    /\ ~wake_now
    /\ in_credit = None
    /\ credits[vc] = 0
    /\ in_credit' = <<vc>>
    /\ wake_next' = TRUE
    /\ UNCHANGED <<wake_now, in_node, queued, vc_allocator, vc_round_robin, ni_out_vcs,
                   enqueue_time, out_vc_state, credits, sent, receiveVars>>

\* NetworkLink::wakeup brings the next flit of a vnet.
flit_arrives(v) ==
    /\ ~wake_now
    /\ in_link = None
    /\ arrived[v] < NumArrivals[v]
    /\ arrived' = [arrived EXCEPT ![v] = @ + 1]
    /\ in_link' = <<v, arrived[v] + 1>>
    /\ wake_next' = TRUE
    /\ UNCHANGED <<wake_now, sendVars, stall_queue, stall_count, callback, out_node, fresh,
                   dequeued, received>>

\* Faulty variant: the callback finds nothing to do.
NoWakeup(v) == UNCHANGED wake_next

\* The callback of a message buffer that has dequeued something.
dequeueCallback(v) == wake_next' = (wake_next \/ callback[v])

\* A controller takes a message that was ready when the cycle started, before
\* or after the wakeup of the interface.
protocol_dequeue(v) ==
    /\ Len(out_node[v]) > fresh[v]
    /\ dequeued[v] < MaxDequeues
    /\ out_node' = [out_node EXCEPT ![v] = Tail(@)]
    /\ dequeued' = [dequeued EXCEPT ![v] = @ + 1]
    /\ dequeueCallback(v)
    /\ UNCHANGED <<wake_now, sendVars, in_link, arrived, stall_queue, stall_count, callback,
                   fresh, received>>

Next ==
    \/ wakeup
    \/ Tick
    \/ \E v \in Vnets : protocol_enqueue(v) \/ flit_arrives(v) \/ protocol_dequeue(v)
    \/ \E vc \in VCs : credit_arrives(vc)

\* Scheduled wakeups run and cycles pass; controllers take their messages,
\* and the network returns the credits of the flits it was given.
Fairness ==
    /\ WF_vars(wakeup)
    /\ WF_vars(Tick)
    /\ \A v \in Vnets : WF_vars(protocol_dequeue(v))
    /\ \A vc \in VCs : SF_vars(credit_arrives(vc))

Spec == Init /\ [][Next]_vars /\ Fairness
-----------------------------------------------------------------------------
\* The destinations of message i of vnet v that a flit was made for, and those
\* it still has in the protocol buffer.
FlitsMade(v, i) ==
    {f[3] : f \in {g \in Range(sent) \cup UNION {ni_out_vcs[vc] : vc \in VCs} :
                      g[1] = v /\ g[2] = i}}
DestsLeft(v, i) == UNION {m[2] : m \in {n \in Range(in_node[v]) : n[1] = i}}

\* Each destination of a message gets one flit, although flitisizeMessage
\* gives up in the middle of a message when no VC is free and starts again in
\* the next cycle: what is made and what is left are parts of the whole.
OneFlitEach ==
    /\ \A v \in Vnets : \A i \in 1 .. queued[v] :
          /\ FlitsMade(v, i) \cup DestsLeft(v, i) = Dests[v][i]
          /\ FlitsMade(v, i) \cap DestsLeft(v, i) = {}
    /\ IsInjective(sent)
    /\ \A vc \in VCs : ni_out_vcs[vc] \cap Range(sent) = {}

\* The flits of an ordered vnet leave the interface in the order of their
\* messages, whichever VCs they wait in.
OrderedLeave ==
    \A j \in DOMAIN sent : \A i \in 1 .. j :
        sent[i][1] = sent[j][1] /\ sent[i][1] \in Ordered => sent[i][2] <= sent[j][2]

\* Messages of a vnet reach the protocol in the order in which their flits
\* arrived: no flit overtakes a stalled one, although checkStallQueue passes
\* over flits whose buffer is full and a new flit may find room.
EjectedInOrder ==
    \A v \in Vnets : \A i \in DOMAIN received[v] : received[v][i] = <<v, i>>

\* Every message given to the interface leaves it, for all its destinations.
AllSent ==
    \A v \in Vnets : \A i \in DOMAIN Dests[v] :
        (queued[v] >= i) ~> (\A d \in Dests[v][i] : <<v, i, d>> \in Range(sent))

\* Every flit that arrives is handed to the protocol, stalled or not.
AllEjected ==
    \A v \in Vnets : \A i \in 1 .. NumArrivals[v] :
        (arrived[v] >= i) ~> (<<v, i>> \in Range(received[v]))
=============================================================================
