---------------------------- MODULE MessageBuffer ----------------------------
(***************************************************************************)
(* A message buffer as a record, and its operations as operators that      *)
(* return the buffer afterwards.  Messages are records with a line (addr), *)
(* the time from which they can be dequeued and the number that orders     *)
(* messages of the same time.                                              *)
(***************************************************************************)
EXTENDS Integers, Sequences, FiniteSets

CONSTANTS
    NumAddrs,       \* the number of lines messages are about
    MaxSize,        \* m_max_size, or 0 for a buffer without a bound
    StrictFifo,     \* m_strict_fifo
    Randomization,  \* m_randomization
    Delays          \* values of delta, and of random_time

\* The lines, in the order of their addresses.
Addrs == 1 .. NumAddrs

EmptyBuffer ==
    [heap                |-> {},                    \* m_prio_heap
     stall_map           |-> [a \in Addrs |-> <<>>],   \* m_stall_msg_map
     stall_map_size      |-> 0,
     time_last_pop       |-> 0,
     time_last_enqueue   |-> 0,
     last_arrival_time   |-> 0,
     size_at_cycle_start |-> 0,
     msgs_this_cycle     |-> 0,
     msg_counter         |-> 0]

\* The order of the heap: by time, then by message counter.
Before(m, n) == m.time < n.time \/ (m.time = n.time /\ m.counter < n.counter)
peek(b) == CHOOSE m \in b.heap : \A n \in b.heap \ {m} : Before(m, n)

isReady(b, now) == b.heap # {} /\ peek(b).time <= now

\* A message popped in the current cycle still takes its slot.
current_size(b, now) ==
    CASE b.time_last_pop < now -> Cardinality(b.heap)
      [] b.time_last_pop >= now /\ b.time_last_enqueue < now -> b.size_at_cycle_start
      [] OTHER -> b.size_at_cycle_start + b.msgs_this_cycle

\* Faulty variant: messages in the stall map take no slot.
NoStallMap(b, n, now) == MaxSize = 0 \/ current_size(b, now) + n <= MaxSize

areNSlotsAvailable(b, n, now) ==
    MaxSize = 0 \/ current_size(b, now) + b.stall_map_size + n <= MaxSize

\* Faulty variant: random delays do not wait for the last arrival.
AnyDelay(b, now) == {now + d : d \in Delays}

\* The arrival times enqueue may compute.
ArrivalTimes(b, now) ==
    LET from == IF Randomization /\ StrictFifo /\ b.last_arrival_time > now
                THEN b.last_arrival_time
                ELSE now
    IN  {from + d : d \in Delays}

enqueue(b, m, now, arrival) ==
    [b EXCEPT !.heap = @ \cup {[m EXCEPT !.time = arrival, !.counter = b.msg_counter + 1]},
              !.msg_counter = @ + 1,
              !.msgs_this_cycle = (IF b.time_last_enqueue < now THEN 0 ELSE @) + 1,
              !.time_last_enqueue = now,
              !.last_arrival_time = arrival]

dequeue(b, now) ==
    [b EXCEPT !.heap = @ \ {peek(b)},
              !.size_at_cycle_start = IF b.time_last_pop < now THEN Cardinality(b.heap) ELSE @,
              !.time_last_pop = now]

\* recycle keeps the counter of the message.
recycle(b, future_time) ==
    [b EXCEPT !.heap = (@ \ {peek(b)}) \cup {[peek(b) EXCEPT !.time = future_time]}]

\* delayHead takes the head out without a dequeue and enqueues it again.
delayHead(b, now, arrival) ==
    enqueue([b EXCEPT !.heap = @ \ {peek(b)}], peek(b), now, arrival)

stallMessage(b, addr, now) ==
    [dequeue(b, now) EXCEPT !.stall_map[addr] = Append(@, peek(b)),
                            !.stall_map_size = @ + 1]

\* reanalyzeList puts stalled messages back, with new counters; the callers
\* have taken them off m_stall_map_size.
reanalyzeList(b, lt, schdTick) ==
    [b EXCEPT !.heap = @ \cup {[lt[i] EXCEPT !.time = schdTick, !.counter = b.msg_counter + i] :
                                  i \in DOMAIN lt},
              !.msg_counter = @ + Len(lt),
              !.stall_map_size = @ - Len(lt)]

reanalyzeMessages(b, addr, now) ==
    [reanalyzeList(b, b.stall_map[addr], now) EXCEPT !.stall_map[addr] = <<>>]

\* The stalled messages of all lines, in ascending order of the lines.
AllStalled(stall_map) ==
    LET upTo[a \in Addrs] == IF a = 1 THEN stall_map[a] ELSE upTo[a - 1] \o stall_map[a]
    IN  upTo[NumAddrs]

reanalyzeAllMessages(b, now) ==
    [reanalyzeList(b, AllStalled(b.stall_map), now) EXCEPT !.stall_map = [a \in Addrs |-> <<>>]]
=============================================================================
