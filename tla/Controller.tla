----------------------------- MODULE Controller ------------------------------
(***************************************************************************)
(* A controller with its input buffers, cycle by cycle: wakeups, the loop  *)
(* over the in_ports, and requests that find their line busy.  The rest of *)
(* a protocol appears as this: a request may start a transaction on its    *)
(* line, and the response that ends it arrives at one port.                *)
(***************************************************************************)
EXTENDS MessageBuffer

CONSTANTS
    NumPorts,           \* in_ports, of rank 0 to NumPorts - 1
    ResponsePort,       \* the port for responses
    NumRequests,        \* port to the number of requests sent to it
    TransitionsPerCycle,
    OnBusy,             \* port to what is done with its requests to busy lines
    WakeUp,             \* what it calls when a transaction ends
    MayMiss,            \* requests may start transactions
    MaxEnqueues,        \* requests sent to a port in a cycle
    LastSend,           \* the last cycle in which requests are sent
    MaxTime             \* the last cycle

InPorts == 0 .. (NumPorts - 1)

VARIABLES
    now,         \* curCycle()
    scheduled,   \* m_scheduled_wakeups
    ran,         \* the wakeup of this cycle has started
    running,     \* it has not ended yet
    counter,     \* transitions done in it
    bufs,        \* the buffer of each port
    waiting,     \* m_waiting_buffers: line to the ports that wait for it
    busy,        \* lines with a transaction
    answered,    \* busy lines whose response was sent
    requested,   \* requests sent so far, per port
    enqueued,    \* requests sent in this cycle, per port
    done,        \* requests handled, in order
    put_back     \* ports of which a request was stalled, recycled or delayed

controllerVars == <<now, scheduled, ran, running, counter, bufs, waiting, busy, answered,
                    requested, enqueued, done, put_back>>

ControllerInit ==
    /\ now = 0 /\ scheduled = {} /\ ran = FALSE /\ running = FALSE /\ counter = 0
    /\ bufs = [p \in InPorts |-> EmptyBuffer]
    /\ waiting = [a \in Addrs |-> {}]
    /\ busy = {} /\ answered = {}
    /\ requested = [p \in InPorts |-> 0] /\ enqueued = [p \in InPorts |-> 0]
    /\ done = <<>> /\ put_back = {}

\* Faulty variant: an earlier wakeup is thought to be enough.
OneWakeup(time) ==
    scheduled' = IF \E t \in scheduled : t > now THEN scheduled ELSE scheduled \cup {time}

\* Consumer::scheduleEventAbsolute: nothing is scheduled twice for a time, and
\* times before this cycle are forgotten.
scheduleEventAbsolute(time) == scheduled' = {t \in scheduled \cup {time} : t >= now}
-----------------------------------------------------------------------------
\* A request about some line is put in the buffer of port p.
send_request(p) ==
    /\ ~running /\ now <= LastSend
    /\ requested[p] < NumRequests[p]
    /\ enqueued[p] < MaxEnqueues
    /\ areNSlotsAvailable(bufs[p], 1, now)
    /\ \E a \in Addrs, arrival \in ArrivalTimes(bufs[p], now) :
          /\ bufs' = [bufs EXCEPT ![p] =
                enqueue(@, [id |-> requested[p] + 1, addr |-> a, time |-> 0, counter |-> 0],
                        now, arrival)]
          /\ scheduleEventAbsolute(arrival)
    /\ requested' = [requested EXCEPT ![p] = @ + 1]
    /\ enqueued' = [enqueued EXCEPT ![p] = @ + 1]
    /\ UNCHANGED <<now, ran, running, counter, waiting, busy, answered, done, put_back>>

\* The response that ends the transaction of line a.
respond(a) ==
    /\ ~running
    /\ a \in busy \ answered
    /\ areNSlotsAvailable(bufs[ResponsePort], 1, now)
    /\ \E arrival \in ArrivalTimes(bufs[ResponsePort], now) :
          /\ bufs' = [bufs EXCEPT ![ResponsePort] =
                enqueue(@, [id |-> 0, addr |-> a, time |-> 0, counter |-> 0], now, arrival)]
          /\ scheduleEventAbsolute(arrival)
    /\ answered' = answered \cup {a}
    /\ UNCHANGED <<now, ran, running, counter, waiting, busy, requested, enqueued, done, put_back>>
-----------------------------------------------------------------------------
\* The port whose message the loop of wakeup comes to: the first one, in
\* descending order of rank, that is ready.
Turn(p) ==
    /\ running /\ counter < TransitionsPerCycle
    /\ isReady(bufs[p], now)
    /\ \A q \in InPorts : q > p => ~isReady(bufs[q], now)

\* The buffers when those of some ports have reanalyzed their messages.
Reanalyzed(ports, a) ==
    [q \in InPorts |-> CASE q \notin ports -> bufs[q]
                         [] q \in ports /\ WakeUp = "wakeUpAllBuffers" ->
                               reanalyzeAllMessages(bufs[q], now)
                         [] OTHER -> reanalyzeMessages(bufs[q], a, now)]

\* Faulty variant: the loop over the ranks ends before rank 0.
AboveZero(p, a) == Reanalyzed({q \in waiting[a] : q > 0}, a)

\* What wakeUpBuffers, called while port p is served, and wakeUpAllBuffers
\* with and without a line, make of the buffers and of m_waiting_buffers.
WokenPorts(p, a) ==
    CASE WakeUp = "wakeUpBuffers"         -> {q \in waiting[a] : q < p}
      [] WakeUp = "wakeUpAllBuffers_addr" -> waiting[a]
      [] WakeUp = "wakeUpAllBuffers"      -> UNION {waiting[c] : c \in Addrs}
WokenBuffers(p, a) == Reanalyzed(WokenPorts(p, a), a)
WaitingLeft(a) ==
    IF WakeUp = "wakeUpAllBuffers" THEN [c \in Addrs |-> {}] ELSE [waiting EXCEPT ![a] = {}]

\* A response ends a transaction: it is dequeued and the buffers woken up.
response ==
    /\ Turn(ResponsePort)
    /\ LET a == peek(bufs[ResponsePort]).addr
       IN  /\ busy' = busy \ {a} /\ answered' = answered \ {a}
           /\ bufs' = [WokenBuffers(ResponsePort, a) EXCEPT ![ResponsePort] = dequeue(@, now)]
           /\ waiting' = WaitingLeft(a)
           /\ IF WokenPorts(ResponsePort, a) = {} THEN UNCHANGED scheduled
                                                 ELSE scheduleEventAbsolute(now)
    /\ counter' = counter + 1
    /\ UNCHANGED <<now, ran, running, requested, enqueued, done, put_back>>

\* A request to a line without a transaction is handled, and may start one.
handle(p) ==
    /\ Turn(p) /\ p # ResponsePort
    /\ LET m == peek(bufs[p])
       IN  /\ m.addr \notin busy
           /\ done' = Append(done, <<p, m.addr, m.id>>)
           /\ busy' \in {busy} \cup (IF MayMiss THEN {busy \cup {m.addr}} ELSE {})
    /\ bufs' = [bufs EXCEPT ![p] = dequeue(@, now)]
    /\ counter' = counter + 1
    /\ UNCHANGED <<now, scheduled, ran, running, waiting, answered, requested, enqueued, put_back>>

\* stall_and_wait: stallBuffer and stallMessage.
stall_and_wait(p) ==
    /\ Turn(p) /\ p # ResponsePort
    /\ OnBusy[p] = "stall_and_wait" /\ peek(bufs[p]).addr \in busy
    /\ LET a == peek(bufs[p]).addr
       IN  /\ waiting' = [waiting EXCEPT ![a] = @ \cup {p}]
           /\ bufs' = [bufs EXCEPT ![p] = stallMessage(@, a, now)]
    /\ counter' = counter + 1
    /\ put_back' = put_back \cup {p}
    /\ UNCHANGED <<now, scheduled, ran, running, busy, answered, requested, enqueued, done>>

\* The request is recycled, with the latencies delays stand for.
recycle_request(p) ==
    /\ Turn(p) /\ p # ResponsePort
    /\ OnBusy[p] = "recycle" /\ peek(bufs[p]).addr \in busy
    /\ \E d \in Delays :
          /\ bufs' = [bufs EXCEPT ![p] = recycle(@, now + d)]
          /\ scheduleEventAbsolute(now + d)
    /\ counter' = counter + 1
    /\ put_back' = put_back \cup {p}
    /\ UNCHANGED <<now, ran, running, waiting, busy, answered, requested, enqueued, done>>

\* block_on delays the head by a cycle and does not count as a transition.
block_on(p) ==
    /\ Turn(p) /\ p # ResponsePort
    /\ OnBusy[p] = "block_on" /\ peek(bufs[p]).addr \in busy
    /\ bufs' = [bufs EXCEPT ![p] = delayHead(@, now, now + 1)]
    /\ scheduleEventAbsolute(now + 1)
    /\ put_back' = put_back \cup {p}
    /\ UNCHANGED <<now, ran, running, counter, waiting, busy, answered, requested, enqueued, done>>
-----------------------------------------------------------------------------
\* The event of this cycle calls wakeup.
start_wakeup ==
    /\ ~ran /\ now \in scheduled
    /\ ran' = TRUE /\ running' = TRUE /\ counter' = 0
    /\ UNCHANGED <<now, scheduled, bufs, waiting, busy, answered, requested, enqueued, done, put_back>>

\* A wakeup that reaches the limit of transitions goes on in the next cycle.
GoOnLater ==
    IF counter = TransitionsPerCycle THEN scheduleEventAbsolute(now + 1) ELSE UNCHANGED scheduled

end_wakeup ==
    /\ running
    /\ counter = TransitionsPerCycle \/ \A p \in InPorts : ~isReady(bufs[p], now)
    /\ GoOnLater
    /\ running' = FALSE /\ counter' = 0
    /\ UNCHANGED <<now, ran, bufs, waiting, busy, answered, requested, enqueued, done, put_back>>

\* Time passes while there are requests to send, slots to become visible or
\* wakeups to come.
EndCycle ==
    /\ now < MaxTime /\ ~running
    /\ now \in scheduled => ran
    /\ \/ now < LastSend
       \/ \E p \in InPorts : bufs[p].time_last_pop = now
       \/ \E t \in scheduled : t > now
    /\ now' = now + 1
    /\ ran' = FALSE
    /\ enqueued' = [p \in InPorts |-> 0]
    /\ UNCHANGED <<scheduled, running, counter, bufs, waiting, busy, answered, requested, done, put_back>>

Step(p) == handle(p) \/ stall_and_wait(p) \/ recycle_request(p) \/ block_on(p)

ControllerNext ==
    \/ \E p \in InPorts : send_request(p) \/ Step(p)
    \/ \E a \in Addrs : respond(a)
    \/ response \/ start_wakeup \/ end_wakeup \/ EndCycle

ControllerSpec == ControllerInit /\ [][ControllerNext]_controllerVars
-----------------------------------------------------------------------------
Stored(b) == Cardinality(b.heap) + Len(AllStalled(b.stall_map))

\* No buffer holds more than m_max_size messages, those in the stall map
\* included: areNSlotsAvailable blocks the sender in time.
Capacity == MaxSize = 0 \/ \A p \in InPorts : Stored(bufs[p]) <= MaxSize

\* Every message in a heap has a wakeup to come, for the time it is ready or,
\* when that has passed, for the next cycle.
MessageHasWakeup ==
    ~running =>
        \A p \in InPorts : \A m \in bufs[p].heap :
            \/ m.time > now /\ m.time \in scheduled
            \/ m.time <= now /\ now \in scheduled /\ ~ran
            \/ m.time <= now /\ now + 1 \in scheduled

\* The controller knows of every stalled message: it is responsible to call
\* reanalyzeMessages when the line changes state, which asserts that there is
\* a message for the line.
StalledAreAwaited ==
    \A p \in InPorts, a \in Addrs : (bufs[p].stall_map[a] # <<>>) <=> (p \in waiting[a])

\* An ordered buffer hands its messages over in the order in which they were
\* enqueued, whatever their random delays, unless the controller has put one
\* of them back.
FifoOrder ==
    \A j \in DOMAIN done : \A i \in 1 .. j :
        done[i][1] = done[j][1] /\ done[j][1] \notin put_back => done[i][3] <= done[j][3]
=============================================================================
