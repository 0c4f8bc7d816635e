----------------------------- MODULE Sequencer -----------------------------
(***************************************************************************)
(* A sequencer and its ports: the requests of the clients of its ports     *)
(* wait in two tables for the cache controller to call back, one request   *)
(* per cache line.  A request that does not fit is refused, its client     *)
(* keeps it, and the port is put on the retry list, which every callback   *)
(* empties.  A locked read-modify-write blocks its line between its read   *)
(* and its write.  The deadlock check looks at the age of the requests     *)
(* every Threshold cycles, except while the system drains.                 *)
(*                                                                         *)
(* The clients and the controller are external: a client has one request   *)
(* refused at a time, and sends nothing else during a locked pair.         *)
(***************************************************************************)
EXTENDS Integers, Sequences, FiniteSets, Functions

CONSTANTS
    Ports,            \* slave_ports
    Lines,            \* the cache lines
    Types,            \* the request types clients use
    MaxOutstanding,   \* m_max_outstanding_requests
    Threshold,        \* m_deadlock_threshold
    Drains            \* whether the system is drained

AllTypes == {"LD", "ST", "Locked_RMW_Read", "Locked_RMW_Write"}

None == [port |-> "none"]

VARIABLES
    table,       \* m_readRequestTable ("LD") and m_writeRequestTable ("ST"), by line
    retryList,   \* retryList
    retryPkt,    \* the refused request each client keeps
    blocked,     \* m_block_map
    rmw,         \* the line of the locked pair each client is in
    check,       \* cycles to deadlockCheckEvent, 0 when it is not scheduled
    drainState,  \* drainState()
    panicked     \* the check found a request that is too old

vars == <<table, retryList, retryPkt, blocked, rmw, check, drainState, panicked>>

Kinds    == {"LD", "ST"}
Requests == [port : Ports, line : Lines, type : Types]
Entries  == [port : Ports, type : Types, age : 0 .. 2 * Threshold]

Init ==
    /\ table = [k \in Kinds |-> [l \in Lines |-> None]]
    /\ retryList = <<>>
    /\ retryPkt = [p \in Ports |-> None]
    /\ blocked = {}
    /\ rmw = [p \in Ports |-> None]
    /\ check = 0
    /\ drainState = "Running"
    /\ panicked = FALSE

\* The part of the state that a request changes.
Current == [table |-> table, retryList |-> retryList, retryPkt |-> retryPkt, check |-> check]

Becomes(st) ==
    /\ table' = st.table
    /\ retryList' = st.retryList
    /\ retryPkt' = st.retryPkt
    /\ check' = st.check

Outstanding(tb) == {e \in Kinds \X Lines : tb[e[1]][e[2]] # None}
-----------------------------------------------------------------------------
\* The table a request goes to.
Table(type) == IF type = "LD" THEN "LD" ELSE "ST"

\* Faulty variant: a blocked line is not looked up.
IgnoresBlock(st, bl, r) == \E k \in Kinds : st.table[k][r.line] # None

\* RequestStatus_Aliased: the line is locked or has a request already.
Aliased(st, bl, r) ==
    \/ r.line \in bl /\ r.type # "Locked_RMW_Write"
    \/ \E k \in Kinds : st.table[k][r.line] # None

\* The deadlock check, once insertRequest has seen to it.
ScheduleCheck(st, ds) ==
    IF st.check = 0 /\ ds # "Draining" THEN Threshold ELSE st.check

\* makeRequest and insertRequest: the check is scheduled even when the
\* request then turns out to alias.
makeRequest(st, bl, ds, r) ==
    IF Cardinality(Outstanding(st.table)) >= MaxOutstanding
    THEN [status |-> "BufferFull", st |-> st]
    ELSE LET checked == [st EXCEPT !.check = ScheduleCheck(st, ds)]
         IN  IF Aliased(st, bl, r)
             THEN [status |-> "Aliased", st |-> checked]
             ELSE [status |-> "Issued",
                   st |-> [checked EXCEPT !.table[Table(r.type)][r.line] =
                             [port |-> r.port, type |-> r.type, age |-> 0]]]

\* Faulty variant: a refused port goes first.
AddFirst(list, p) == IF p \in Range(list) THEN list ELSE <<p>> \o list

\* Faulty variant: the port is not remembered.
Forgets(list, p) == list

addToRetryList(list, p) == IF p \in Range(list) THEN list ELSE Append(list, p)

\* recvTimingReq: a refused request puts its port on the retry list.
recvTimingReq(st, bl, ds, r) ==
    LET res == makeRequest(st, bl, ds, r)
    IN  IF res.status = "Issued" THEN res
        ELSE [res EXCEPT !.st.retryList = addToRetryList(@, r.port)]

\* sendRetryReq: the client sends the request it keeps, and forgets it once
\* it is issued.
doRetry(st, bl, ds, p) ==
    LET res == recvTimingReq(st, bl, ds, st.retryPkt[p])
    IN  IF res.status = "Issued" THEN [res.st EXCEPT !.retryPkt[p] = None] ELSE res.st

\* sendTimingReq: the client keeps a request that is refused.
sendPkt(st, bl, ds, r) ==
    LET res == recvTimingReq(st, bl, ds, r)
    IN  IF res.status = "Issued" THEN res.st ELSE [res.st EXCEPT !.retryPkt[r.port] = r]

\* trySendRetries: the list is emptied first, then every port on it is told
\* to retry, and may be put back.
trySendRetries(st, bl, ds) ==
    LET told[n \in 0 .. Len(st.retryList)] ==
            IF n = 0 THEN [st EXCEPT !.retryList = <<>>]
                     ELSE doRetry(told[n - 1], bl, ds, st.retryList[n])
    IN  told[Len(st.retryList)]
-----------------------------------------------------------------------------
\* What the client of port p may send.
MaySend(p, l, t) ==
    /\ retryPkt[p] = None
    /\ IF t = "Locked_RMW_Write"
       THEN rmw[p] = [port |-> p, line |-> l] /\ l \in blocked /\ table["ST"][l] = None
       ELSE rmw[p] = None

\* The client of port p sends a request.
send(p, l, t) ==
    /\ ~panicked
    /\ MaySend(p, l, t)
    /\ Becomes(sendPkt(Current, blocked, drainState, [port |-> p, line |-> l, type |-> t]))
    /\ rmw' = IF t = "Locked_RMW_Read" THEN [rmw EXCEPT ![p] = [port |-> p, line |-> l]] ELSE rmw
    /\ UNCHANGED <<blocked, drainState, panicked>>

testDrainComplete(st) ==
    IF drainState = "Draining" /\ Outstanding(st.table) = {} THEN "Drained" ELSE drainState

\* blockOnQueue and unblock
Block(l, type) ==
    CASE type = "Locked_RMW_Read"  -> blocked \cup {l}
      [] type = "Locked_RMW_Write" -> blocked \ {l}
      [] OTHER                     -> blocked

\* readCallback and writeCallback, called by the cache controller: the request
\* leaves its table, its line is blocked or unblocked, the client gets its
\* response, the waiting ports retry, and a drain may be complete.
callback(k, l) ==
    /\ ~panicked
    /\ table[k][l] # None
    /\ LET e   == table[k][l]
           bl  == Block(l, e.type)
           off == [Current EXCEPT !.table[k][l] = None]
           st  == trySendRetries(off, bl, drainState)
       IN  /\ Becomes(st)
           /\ blocked' = bl
           /\ rmw' = IF e.type = "Locked_RMW_Write" THEN [rmw EXCEPT ![e.port] = None] ELSE rmw
           /\ drainState' = testDrainComplete(st)
    /\ UNCHANGED panicked

\* Faulty variant: the check is not repeated.
ChecksOnce(tb) == 0

\* wakeup: when the check is to be made again.
NextCheck(tb) == IF Outstanding(tb) # {} THEN Threshold ELSE 0

TooOld(tb) == \E e \in Outstanding(tb) : tb[e[1]][e[2]].age >= Threshold

\* A cycle passes; the check is made in the cycle for which it is scheduled.
Tick ==
    /\ ~panicked
    /\ LET tb == [k \in Kinds |-> [l \in Lines |->
                    IF table[k][l] = None THEN None
                    ELSE [table[k][l] EXCEPT !.age = @ + 1]]]
       IN  /\ table' = tb
           /\ check' = IF check = 1 THEN NextCheck(tb) ELSE IF check = 0 THEN 0 ELSE check - 1
           /\ panicked' = (check = 1 /\ TooOld(tb))
    /\ \A k \in Kinds, l \in Lines : table[k][l] # None => table[k][l].age < 2 * Threshold
    /\ UNCHANGED <<retryList, retryPkt, blocked, rmw, drainState>>

\* RubyPort::drain, called for the first time or for another drain cycle.
drain ==
    /\ Drains /\ ~panicked
    /\ drainState \in {"Running", "Drained"}
    /\ check' = 0
    /\ drainState' = IF Outstanding(table) # {} THEN "Draining" ELSE "Drained"
    /\ UNCHANGED <<table, retryList, retryPkt, blocked, rmw, panicked>>

\* DrainManager::resume, once drain has found all objects drained, the
\* clients included.
resume ==
    /\ drainState = "Drained" /\ ~panicked
    /\ Outstanding(table) = {} /\ check = 0 /\ retryList = <<>>
    /\ \A p \in Ports : rmw[p] = None
    /\ drainState' = "Running"
    /\ UNCHANGED <<table, retryList, retryPkt, blocked, rmw, check, panicked>>

Serve ==
    \/ \E p \in Ports, l \in Lines, t \in Types : send(p, l, t)
    \/ \E k \in Kinds, l \in Lines : callback(k, l)

Next ==
    \/ Serve
    \/ Tick
    \/ drain
    \/ resume

Spec == Init /\ [][Next]_vars

\* The controller answers every request, and a client that has read a locked
\* line goes on to write it: weak fairness of callback(k, l) and of
\* send(p, l, "Locked_RMW_Write"), with their enabling conditions written out.
Fairness ==
    /\ \A k \in Kinds, l \in Lines :
         []<>(table[k][l] = None) \/ []<><<callback(k, l)>>_vars
    /\ \A p \in Ports, l \in Lines :
         []<>~MaySend(p, l, "Locked_RMW_Write") \/ []<><<send(p, l, "Locked_RMW_Write")>>_vars

\* Requests and answers alone: the answers come before the check can fire.
FairSpec == Init /\ [][Serve]_vars /\ Fairness
-----------------------------------------------------------------------------
\* The ports on the retry list are those whose client keeps a refused request,
\* each once, and there are never more requests than the sequencer takes.
TypeOK ==
    /\ table \in [Kinds -> [Lines -> Entries \cup {None}]]
    /\ retryPkt \in [Ports -> Requests \cup {None}]
    /\ blocked \subseteq Lines
    /\ check \in 0 .. Threshold
    /\ drainState \in {"Running", "Draining", "Drained"}
    /\ Cardinality(Outstanding(table)) <= MaxOutstanding
    /\ IsInjective(retryList)
    /\ Range(retryList) = {p \in Ports : retryPkt[p] # None}

\* Requests to one line are made one at a time, and between the read and the
\* write of a locked pair no other request reaches the line: insertRequest
\* refuses it, whichever port it comes from.
LockedPairAtomic ==
    \A l \in Lines :
        /\ table["LD"][l] = None \/ table["ST"][l] = None
        /\ l \in blocked =>
             /\ \E p \in Ports : rmw[p] = [port |-> p, line |-> l]
             /\ table["LD"][l] = None
             /\ table["ST"][l] # None =>
                  /\ table["ST"][l].type = "Locked_RMW_Write"
                  /\ rmw[table["ST"][l].port] = [port |-> table["ST"][l].port, line |-> l]

\* A client with a refused request waits only while something is going
\* to make it retry: a request that is outstanding, or a locked pair whose
\* client still has to send the write.
WaiterHasWaker ==
    (\E p \in Ports : retryPkt[p] # None) =>
        Outstanding(table) # {} \/ \E p \in Ports : rmw[p] # None /\ retryPkt[p] = None

\* The retry list and the requests that wait fit together, and somebody will
\* go through the list.
RetryListRight == TypeOK /\ WaiterHasWaker

\* The assertion of wakeup: no check is scheduled while the system drains.
NoCheckWhileDraining == drainState = "Draining" => check = 0

\* While the system runs, a check is scheduled as long as a request is
\* outstanding, and no request gets older than the check allows.
StuckIsDetected ==
    drainState = "Running" /\ ~panicked =>
        \A k \in Kinds, l \in Lines :
            table[k][l] # None => check > 0 /\ table[k][l].age + check < 2 * Threshold

\* The deadlock check of wakeup is there exactly when it can do its work.
CheckFollowsDrains == NoCheckWhileDraining /\ StuckIsDetected

\* A port that was refused is served in the end: the retry list is kept in
\* order, so that other ports cannot take its turn for ever.
NoStarvation == \A p \in Ports : (retryPkt[p] # None) ~> (retryPkt[p] = None)
=============================================================================
