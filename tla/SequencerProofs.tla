-------------------------- MODULE SequencerProofs ---------------------------
(***************************************************************************)
(* The sequencer for any number of ports, lines and outstanding requests:  *)
(* locked pairs are atomic, no refused port is forgotten, and the deadlock *)
(* check follows the drains.                                               *)
(***************************************************************************)
EXTENDS Sequencer, FiniteSetTheorems, WellFoundedInduction, TLAPS

\* The sequencer takes at least one request and checks after at least a cycle.
SequencerConstants == MaxOutstanding \in Nat \ {0} /\ Threshold \in Nat \ {0}

Locked == {"Locked_RMW_Read", "Locked_RMW_Write"}

\* The values the record of trySendRetries takes.
Tables == [Kinds -> [Lines -> Entries \cup {None}]]
Kept   == [Ports -> Requests \cup {None}]
States == [table : Tables, retryList : Seq(Ports), retryPkt : Kept, check : 0 .. Threshold]

\* The clients that wait, and what they keep when one more or one less waits.
Waiters(rp) == {p \in Ports : rp[p] # None}
Keep(rp, r) == [rp EXCEPT ![r.port] = r]
Drop(rp, p) == [rp EXCEPT ![p] = None]

\* The read of the locked pair of port p has not been answered yet.
ReadPending(tb, rp, p, l) ==
    \/ rp[p] # None /\ rp[p].type = "Locked_RMW_Read"
    \/ tb["ST"][l] # None /\ tb["ST"][l].type = "Locked_RMW_Read" /\ tb["ST"][l].port = p

\* Port p is between the read and the write of a locked pair on line l.
Holds(tb, rp, rm, p, l) == rm[p] = [port |-> p, line |-> l] /\ ~ReadPending(tb, rp, p, l)

\* The requests in the tables and those the clients keep.
TablesRight(tb, rp) ==
    /\ tb \in Tables /\ rp \in Kept
    /\ \A p \in Ports : rp[p] # None => rp[p].port = p
    /\ \A l \in Lines : tb["LD"][l] = None \/ tb["ST"][l] = None
    /\ IsFiniteSet(Outstanding(tb)) /\ Cardinality(Outstanding(tb)) <= MaxOutstanding

\* Locked pairs: a request of one is made by the client that is in it, and a
\* line is blocked exactly while one client holds it.
LocksRight(tb, rp, bl, rm) ==
    /\ bl \subseteq Lines
    /\ rm \in [Ports -> {None} \cup [port : Ports, line : Lines]]
    /\ \A p \in Ports : rm[p] # None => rm[p].port = p
    /\ \A p \in Ports : rp[p] # None =>
          IF rp[p].type \in Locked THEN rm[p] = [port |-> p, line |-> rp[p].line] ELSE rm[p] = None
    /\ \A k \in Kinds, l \in Lines : tb[k][l] # None /\ tb[k][l].type \in Locked =>
          /\ k = "ST" /\ rp[tb[k][l].port] = None
          /\ rm[tb[k][l].port] = [port |-> tb[k][l].port, line |-> l]
    /\ \A l \in bl : tb["LD"][l] = None /\
          (tb["ST"][l] # None => tb["ST"][l].type = "Locked_RMW_Write")
    /\ \A l \in Lines : l \in bl <=> \E p \in Ports : Holds(tb, rp, rm, p, l)
    /\ \A l \in Lines, p, q \in Ports : Holds(tb, rp, rm, p, l) /\ Holds(tb, rp, rm, q, l) => p = q

\* The deadlock check.
CheckRight(tb, ck, ds, pk) ==
    /\ ck \in 0 .. Threshold
    /\ ds = "Draining" => ck = 0
    /\ ds = "Running" /\ ~pk =>
          \A k \in Kinds, l \in Lines : tb[k][l] # None => ck > 0 /\ tb[k][l].age + ck < 2 * Threshold

\* The inductive invariant.
SeqInv ==
    /\ TablesRight(table, retryPkt)
    /\ LocksRight(table, retryPkt, blocked, rmw)
    /\ CheckRight(table, check, drainState, panicked)
    /\ drainState \in {"Running", "Draining", "Drained"} /\ panicked \in BOOLEAN
    /\ retryList \in Seq(Ports) /\ IsInjective(retryList)
    /\ Range(retryList) = Waiters(retryPkt)
    /\ WaiterHasWaker
-----------------------------------------------------------------------------
\* Every set of numbers has a least one; it stands for induction below.
LEMMA LeastNumber ==
    ASSUME NEW S, S \subseteq Nat, S # {}
    PROVE  \E m \in S : \A k \in S : m <= k
<1>1. IsWellFoundedOn(OpToRel(<, Nat), Nat)
  BY NatLessThanWellFounded, Zenon
<1>2. PICK m \in S : \A k \in S : ~(<<k, m>> \in OpToRel(<, Nat))
  BY <1>1, WFMin, Zenon
<1>3. \A k \in S : ~(k < m)
  BY <1>2, Zenon DEF OpToRel
<1> QED BY <1>3

\* The pair that holds a lock is not the mark of no pair.
LEMMA LockIsOne == \A p, l : [port |-> p, line |-> l] # None
<1> SUFFICES ASSUME NEW p, NEW l, [port |-> p, line |-> l] = None
             PROVE  FALSE
  BY Zenon
<1>1. "line" \in DOMAIN [port |-> p, line |-> l]
  OBVIOUS
<1>2. "line" \notin DOMAIN None
  BY DEF None
<1> QED BY <1>1, <1>2

\* The records of trySendRetries, field by field.
LEMMA StateFields ==
    ASSUME NEW a, NEW b, NEW c, NEW d, NEW st,
           st = [table |-> a, retryList |-> b, retryPkt |-> c, check |-> d]
    PROVE  /\ st.table = a /\ st.retryList = b /\ st.retryPkt = c /\ st.check = d
           /\ \A x : [st EXCEPT !.check = x] = [table |-> a, retryList |-> b, retryPkt |-> c, check |-> x]
           /\ \A x : [st EXCEPT !.retryList = x] = [table |-> a, retryList |-> x, retryPkt |-> c, check |-> d]
           /\ \A p, x : [st EXCEPT !.retryPkt[p] = x] =
                [table |-> a, retryList |-> b, retryPkt |-> [c EXCEPT ![p] = x], check |-> d]
           /\ \A k, l, x : [st EXCEPT !.table[k][l] = x] =
                [table |-> [a EXCEPT ![k][l] = x], retryList |-> b, retryPkt |-> c, check |-> d]
<1>1. st.table = a /\ st.retryList = b /\ st.retryPkt = c /\ st.check = d
  OBVIOUS
<1>2. \A x : [st EXCEPT !.check = x] = [table |-> a, retryList |-> b, retryPkt |-> c, check |-> x]
  OBVIOUS
<1>3. \A x : [st EXCEPT !.retryList = x] = [table |-> a, retryList |-> x, retryPkt |-> c, check |-> d]
  OBVIOUS
<1>4. \A p, x : [st EXCEPT !.retryPkt[p] = x] =
                [table |-> a, retryList |-> b, retryPkt |-> [c EXCEPT ![p] = x], check |-> d]
  OBVIOUS
<1>5. \A k, l, x : [st EXCEPT !.table[k][l] = x] =
                [table |-> [a EXCEPT ![k][l] = x], retryList |-> b, retryPkt |-> c, check |-> d]
  OBVIOUS
<1> QED BY <1>1, <1>2, <1>3, <1>4, <1>5

\* The result of a request, with its state.
LEMMA ResultFields ==
    ASSUME NEW s, NEW a, NEW b, NEW c, NEW d, NEW res,
           res = [status |-> s, st |-> [table |-> a, retryList |-> b, retryPkt |-> c, check |-> d]]
    PROVE  /\ res.status = s /\ res.st = [table |-> a, retryList |-> b, retryPkt |-> c, check |-> d]
           /\ \A p : [res EXCEPT !.st.retryList = addToRetryList(@, p)] =
                [status |-> s, st |-> [table |-> a, retryList |-> addToRetryList(b, p),
                                       retryPkt |-> c, check |-> d]]
<1>1. res.status = s /\ res.st = [table |-> a, retryList |-> b, retryPkt |-> c, check |-> d]
  OBVIOUS
<1>2. \A p : [res EXCEPT !.st.retryList = addToRetryList(@, p)] =
                [status |-> s, st |-> [table |-> a, retryList |-> addToRetryList(b, p),
                                       retryPkt |-> c, check |-> d]]
  OBVIOUS
<1> QED BY <1>1, <1>2

\* A refused request is told apart from one that is issued.
Issues(st, bl, r) == ~(Cardinality(Outstanding(st.table)) >= MaxOutstanding) /\ ~Aliased(st, bl, r)

\* The entry of a request, and the tables with it.
Entry(r)      == [port |-> r.port, type |-> r.type, age |-> 0]
Insert(tb, r) == [tb EXCEPT ![Table(r.type)][r.line] = Entry(r)]

\* The state after a request that is issued, when the clients then keep rp.
Issued(st, ds, r, rp) ==
    [table |-> Insert(st.table, r), retryList |-> st.retryList, retryPkt |-> rp,
     check |-> ScheduleCheck(st, ds)]

Checks(st, ds) == {st.check, ScheduleCheck(st, ds)}
Refusals       == {"BufferFull", "Aliased"}

\* The state after a request that is refused.
Refused(st, r, ck) ==
    [table |-> st.table, retryList |-> addToRetryList(st.retryList, r.port),
     retryPkt |-> st.retryPkt, check |-> ck]

StaysRefused(t, st, ds, r) == \E ck \in Checks(st, ds) : t = Refused(st, r, ck)

IsKept(t, st, ds, r) ==
    \E ck \in Checks(st, ds) :
        t = [table |-> st.table, retryList |-> addToRetryList(st.retryList, r.port),
             retryPkt |-> Keep(st.retryPkt, r), check |-> ck]

IsRefusal(res, st, ds, r) ==
    \E ck \in Checks(st, ds), status \in Refusals :
        res = [status |-> status, st |-> Refused(st, r, ck)]

\* What recvTimingReq makes of a request that fits.
LEMMA RequestIssued ==
    ASSUME NEW st \in States, NEW bl, NEW ds, NEW r, Issues(st, bl, r)
    PROVE  recvTimingReq(st, bl, ds, r) =
             [status |-> "Issued",
              st |-> [table |-> Insert(st.table, r), retryList |-> st.retryList, retryPkt |-> st.retryPkt,
                      check |-> ScheduleCheck(st, ds)]]
<1> DEFINE made    == makeRequest(st, bl, ds, r)
           e       == [port |-> r.port, type |-> r.type, age |-> 0]
           checked == [st EXCEPT !.check = ScheduleCheck(st, ds)]
<1>0. PICK tb, rl, rp, ck : /\ st = [table |-> tb, retryList |-> rl, retryPkt |-> rp, check |-> ck]
                            /\ st.table = tb /\ st.retryList = rl /\ st.retryPkt = rp /\ st.check = ck
  BY DEF States
<1>1. made = [status |-> "Issued", st |-> [checked EXCEPT !.table[Table(r.type)][r.line] = e]]
  BY Zenon DEF Issues, makeRequest
<1>2. checked = [table |-> tb, retryList |-> rl, retryPkt |-> rp, check |-> ScheduleCheck(st, ds)]
  BY <1>0, StateFields, SMTT(30)
<1> HIDE DEF checked
<1>3. [checked EXCEPT !.table[Table(r.type)][r.line] = e] =
        [table |-> [tb EXCEPT ![Table(r.type)][r.line] = e], retryList |-> rl, retryPkt |-> rp,
         check |-> ScheduleCheck(st, ds)]
  BY <1>2, StateFields
<1> HIDE DEF made
<1>4. made.status = "Issued"
  BY <1>1
<1>5. recvTimingReq(st, bl, ds, r) = made
  BY <1>4, Zenon DEF recvTimingReq, made
<1> QED BY <1>0, <1>1, <1>3, <1>5, Zenon DEF Insert, Entry

\* What recvTimingReq makes of a request that is refused: only the check may
\* have been scheduled.
LEMMA RequestRefused ==
    ASSUME NEW st \in States, NEW bl, NEW ds, NEW r, ~Issues(st, bl, r)
    PROVE  IsRefusal(recvTimingReq(st, bl, ds, r), st, ds, r)
<1> DEFINE made == makeRequest(st, bl, ds, r)
<1>0. PICK tb, rl, rp, ck : /\ st = [table |-> tb, retryList |-> rl, retryPkt |-> rp, check |-> ck]
                            /\ st.table = tb /\ st.retryList = rl /\ st.retryPkt = rp /\ st.check = ck
  BY DEF States
<1>1. PICK k \in Checks(st, ds), status \in Refusals :
        made = [status |-> status,
                st |-> [table |-> tb, retryList |-> rl, retryPkt |-> rp, check |-> k]]
  <2>1. CASE Cardinality(Outstanding(st.table)) >= MaxOutstanding
    <3>1. made = [status |-> "BufferFull", st |-> st]
      BY <2>1, Zenon DEF makeRequest
    <3> QED BY <1>0, <3>1, Zenon DEF Checks, Refusals
  <2>2. CASE ~(Cardinality(Outstanding(st.table)) >= MaxOutstanding)
    <3>1. Aliased(st, bl, r)
      BY <2>2 DEF Issues
    <3>2. made = [status |-> "Aliased", st |-> [st EXCEPT !.check = ScheduleCheck(st, ds)]]
      BY <2>2, <3>1, Zenon DEF makeRequest
    <3>3. [st EXCEPT !.check = ScheduleCheck(st, ds)] =
            [table |-> tb, retryList |-> rl, retryPkt |-> rp, check |-> ScheduleCheck(st, ds)]
      BY <1>0, StateFields
    <3> QED BY <3>2, <3>3, Zenon DEF Checks, Refusals
  <2> QED BY <2>1, <2>2
<1> HIDE DEF made
<1>2. made.status # "Issued"
  BY <1>1 DEF Refusals
<1>3. recvTimingReq(st, bl, ds, r) = [made EXCEPT !.st.retryList = addToRetryList(@, r.port)]
  BY <1>2, Zenon DEF recvTimingReq, made
<1>4. [made EXCEPT !.st.retryList = addToRetryList(@, r.port)] =
        [status |-> status, st |-> [table |-> tb, retryList |-> addToRetryList(rl, r.port),
                                    retryPkt |-> rp, check |-> k]]
  BY <1>1, ResultFields
<1>5. recvTimingReq(st, bl, ds, r) = [status |-> status, st |-> Refused(st, r, k)]
  BY <1>0, <1>3, <1>4, Zenon DEF Refused
<1> QED BY <1>5, Zenon DEF IsRefusal

\* A client that retries a request that fits no longer keeps it.
LEMMA RetryIssued ==
    ASSUME NEW st \in States, NEW bl, NEW ds, NEW p, NEW r, r = st.retryPkt[p], Issues(st, bl, r)
    PROVE  doRetry(st, bl, ds, p) = Issued(st, ds, r, Drop(st.retryPkt, p))
<1> DEFINE tb  == Insert(st.table, r)
           res == recvTimingReq(st, bl, ds, r)
<1>1. res = [status |-> "Issued",
             st |-> [table |-> tb, retryList |-> st.retryList, retryPkt |-> st.retryPkt,
                     check |-> ScheduleCheck(st, ds)]]
  BY RequestIssued, Zenon
<1>2. doRetry(st, bl, ds, p) = IF res.status = "Issued" THEN [res.st EXCEPT !.retryPkt[p] = None] ELSE res.st
  BY Zenon DEF doRetry
<1> HIDE DEF res, tb
<1>3. /\ res.status = "Issued"
      /\ res.st = [table |-> tb, retryList |-> st.retryList, retryPkt |-> st.retryPkt,
                   check |-> ScheduleCheck(st, ds)]
  BY <1>1, ResultFields, Zenon
<1>4. [res.st EXCEPT !.retryPkt[p] = None] =
        [table |-> tb, retryList |-> st.retryList, retryPkt |-> [st.retryPkt EXCEPT ![p] = None],
         check |-> ScheduleCheck(st, ds)]
  BY <1>3, StateFields
<1> QED BY <1>2, <1>3, <1>4, Zenon DEF tb, Issued, Drop

\* A client that retries and is refused again goes back on the list.
LEMMA RetryRefused ==
    ASSUME NEW st \in States, NEW bl, NEW ds, NEW p, NEW r, r = st.retryPkt[p], ~Issues(st, bl, r)
    PROVE  StaysRefused(doRetry(st, bl, ds, p), st, ds, r)
<1> DEFINE res == recvTimingReq(st, bl, ds, r)
<1>0. IsRefusal(res, st, ds, r)
  BY RequestRefused, Zenon
<1>1. PICK ck \in Checks(st, ds), status \in Refusals :
        res = [status |-> status, st |-> Refused(st, r, ck)]
  BY <1>0 DEF IsRefusal
<1>2. doRetry(st, bl, ds, p) = IF res.status = "Issued" THEN [res.st EXCEPT !.retryPkt[p] = None] ELSE res.st
  BY Zenon DEF doRetry
<1> HIDE DEF res
<1>3. /\ res.status # "Issued"
      /\ res.st = [table |-> st.table, retryList |-> addToRetryList(st.retryList, r.port),
                   retryPkt |-> st.retryPkt, check |-> ck]
  <2>1. status # "Issued"
    BY DEF Refusals
  <2> QED BY <1>1, <2>1, ResultFields, Zenon DEF Refused
<1>4. doRetry(st, bl, ds, p) = Refused(st, r, ck)
  BY <1>2, <1>3, Zenon DEF Refused
<1> QED BY <1>1, <1>4 DEF StaysRefused

\* A client that sends a request that fits does not keep it.
LEMMA SendIssued ==
    ASSUME NEW st \in States, NEW bl, NEW ds, NEW r, Issues(st, bl, r)
    PROVE  sendPkt(st, bl, ds, r) =
             Issued(st, ds, r, st.retryPkt)
<1> DEFINE tb  == Insert(st.table, r)
           res == recvTimingReq(st, bl, ds, r)
<1>1. res = [status |-> "Issued",
             st |-> [table |-> tb, retryList |-> st.retryList, retryPkt |-> st.retryPkt,
                     check |-> ScheduleCheck(st, ds)]]
  BY RequestIssued, Zenon
<1>2. sendPkt(st, bl, ds, r) = IF res.status = "Issued" THEN res.st ELSE [res.st EXCEPT !.retryPkt[r.port] = r]
  BY Zenon DEF sendPkt
<1> HIDE DEF res, tb
<1>3. /\ res.status = "Issued"
      /\ res.st = [table |-> tb, retryList |-> st.retryList, retryPkt |-> st.retryPkt,
                   check |-> ScheduleCheck(st, ds)]
  BY <1>1, ResultFields
<1> QED BY <1>2, <1>3, Zenon DEF tb, Issued

\* A client that sends a request that is refused keeps it.
LEMMA SendRefused ==
    ASSUME NEW st \in States, NEW bl, NEW ds, NEW r, ~Issues(st, bl, r)
    PROVE  IsKept(sendPkt(st, bl, ds, r), st, ds, r)
<1> DEFINE res == recvTimingReq(st, bl, ds, r)
<1>0. IsRefusal(res, st, ds, r)
  BY RequestRefused, Zenon
<1>1. PICK ck \in Checks(st, ds), status \in Refusals :
        res = [status |-> status, st |-> Refused(st, r, ck)]
  BY <1>0 DEF IsRefusal
<1>2. sendPkt(st, bl, ds, r) = IF res.status = "Issued" THEN res.st ELSE [res.st EXCEPT !.retryPkt[r.port] = r]
  BY Zenon DEF sendPkt
<1> HIDE DEF res
<1>3. /\ res.status # "Issued"
      /\ res.st = [table |-> st.table, retryList |-> addToRetryList(st.retryList, r.port),
                   retryPkt |-> st.retryPkt, check |-> ck]
  <2>1. status # "Issued"
    BY Zenon DEF Refusals
  <2> QED BY <1>1, <2>1, ResultFields, Zenon DEF Refused
<1>4. [res.st EXCEPT !.retryPkt[r.port] = r] =
        [table |-> st.table, retryList |-> addToRetryList(st.retryList, r.port),
         retryPkt |-> Keep(st.retryPkt, r), check |-> ck]
  BY <1>3, StateFields DEF Keep
<1>5. sendPkt(st, bl, ds, r) =
        [table |-> st.table, retryList |-> addToRetryList(st.retryList, r.port),
         retryPkt |-> Keep(st.retryPkt, r), check |-> ck]
  BY <1>2, <1>3, <1>4, Zenon
<1> QED BY <1>5, Zenon DEF IsKept

\* The loop of trySendRetries, port by port.
Loops(told, st, bl, ds) ==
    /\ told[0] = [st EXCEPT !.retryList = <<>>]
    /\ \A n \in 1 .. Len(st.retryList) : told[n] = doRetry(told[n - 1], bl, ds, st.retryList[n])
    /\ trySendRetries(st, bl, ds) = told[Len(st.retryList)]

\* There is such a loop: trySendRetries defines it.
LEMMA ToldFacts ==
    ASSUME NEW st, NEW bl, NEW ds, st.retryList \in Seq(Ports)
    PROVE  \E told : Loops(told, st, bl, ds)
<1> DEFINE base       == [st EXCEPT !.retryList = <<>>]
           Next1(s, n) == doRetry(s, bl, ds, st.retryList[n])
           Body(f, m) == f = [n \in 0 .. m |-> IF n = 0 THEN base ELSE Next1(f[n - 1], n)]
           Stuck      == {m \in Nat : ~\E f : Body(f, m)}
<1> HIDE DEF base, Next1
<1>1. Stuck = {}
  <2> SUFFICES ASSUME Stuck # {} PROVE FALSE
    OBVIOUS
  <2>1. PICK m \in Stuck : \A k \in Stuck : m <= k
    BY LeastNumber, Zenon
  <2>2. m \in Nat /\ ~\E f : Body(f, m)
    BY <2>1
  <2>3. m # 0
    <3>1. Body([n \in 0 .. 0 |-> base], 0)
      OBVIOUS
    <3> QED BY <2>2, <3>1, Zenon
  <2>4. PICK g : Body(g, m - 1)
    <3>1. m - 1 \in Nat /\ ~(m <= m - 1)
      BY <2>2, <2>3
    <3>2. m - 1 \notin Stuck
      BY <2>1, <3>1, Zenon
    <3> QED BY <3>1, <3>2, Zenon
  <2> DEFINE h == [n \in 0 .. m |-> IF n = m THEN Next1(g[m - 1], m) ELSE g[n]]
  <2>5. \A n \in 0 .. (m - 1) : g[n] = IF n = 0 THEN base ELSE Next1(g[n - 1], n)
    BY <2>4
  <2>6. \A n \in 0 .. m : h[n] = IF n = 0 THEN base ELSE Next1(h[n - 1], n)
    BY <2>2, <2>3, <2>5
  <2>7. Body(h, m)
    BY <2>6, Zenon
  <2> QED BY <2>2, <2>7, Zenon
<1>2. Len(st.retryList) \in Nat
  OBVIOUS
<1> DEFINE told == CHOOSE f : Body(f, Len(st.retryList))
<1>3. Body(told, Len(st.retryList))
  <2>1. \E f : Body(f, Len(st.retryList))
    BY <1>1, <1>2
  <2> HIDE DEF Body
  <2> QED BY <2>1, Zenon
<1>4. trySendRetries(st, bl, ds) = told[Len(st.retryList)]
  BY Zenon DEF trySendRetries, base, Next1
<1> HIDE DEF told
<1>5. \A n \in 0 .. Len(st.retryList) : told[n] = IF n = 0 THEN base ELSE Next1(told[n - 1], n)
  BY <1>2, <1>3, Zenon
<1> QED BY <1>2, <1>4, <1>5 DEF base, Next1, Loops
-----------------------------------------------------------------------------
\* The requests in the tables, when one joins and when one leaves.
LEMMA OutstandingAdds ==
    ASSUME NEW tb \in Tables, NEW k \in Kinds, NEW l \in Lines, NEW e, e # None, tb[k][l] = None
    PROVE  /\ Outstanding([tb EXCEPT ![k][l] = e]) = Outstanding(tb) \cup {<<k, l>>}
           /\ <<k, l>> \notin Outstanding(tb)
  BY DEF Outstanding, Tables

\* The same when a request leaves.
LEMMA OutstandingLoses ==
    ASSUME NEW tb \in Tables, NEW k \in Kinds, NEW l \in Lines
    PROVE  Outstanding([tb EXCEPT ![k][l] = None]) = Outstanding(tb) \ {<<k, l>>}
  BY DEF Outstanding, Tables

\* What the client of port p may send, whatever the state.
Sendable(tb, rp, bl, rm, r) ==
    /\ r \in Requests /\ rp[r.port] = None
    /\ IF r.type = "Locked_RMW_Write"
       THEN rm[r.port] = [port |-> r.port, line |-> r.line] /\ r.line \in bl /\ tb["ST"][r.line] = None
       ELSE rm[r.port] = None

\* The locked pairs once the request has been sent.
Enters(rm, r) ==
    IF r.type = "Locked_RMW_Read" THEN [rm EXCEPT ![r.port] = [port |-> r.port, line |-> r.line]] ELSE rm

\* A client keeps the request it has sent.
LEMMA KeepTables ==
    ASSUME NEW tb, NEW rp, NEW r \in Requests, TablesRight(tb, rp)
    PROVE  TablesRight(tb, Keep(rp, r))
  BY Zenon DEF Keep, TablesRight, Kept, Requests

\* The locked pairs stay right when it does.
LEMMA KeepLocks ==
    ASSUME NEW tb, NEW rp, NEW bl, NEW rm, NEW r, TablesRight(tb, rp), LocksRight(tb, rp, bl, rm),
           Sendable(tb, rp, bl, rm, r)
    PROVE  LocksRight(tb, Keep(rp, r), bl, Enters(rm, r))
<1> DEFINE rq == Keep(rp, r)
           rn == Enters(rm, r)
<1>0. /\ r.port \in Ports /\ r.line \in Lines /\ rp \in Kept /\ tb \in Tables
      /\ rm \in [Ports -> {None} \cup [port : Ports, line : Lines]]
  BY DEF Sendable, Requests, TablesRight, LocksRight
<1>1. /\ \A q \in Ports : q # r.port => rq[q] = rp[q] /\ rn[q] = rm[q]
      /\ rq[r.port] = r
      /\ r.type = "Locked_RMW_Read" => rn[r.port] = [port |-> r.port, line |-> r.line]
      /\ r.type # "Locked_RMW_Read" => rn[r.port] = rm[r.port]
      /\ rn \in [Ports -> {None} \cup [port : Ports, line : Lines]]
  BY <1>0 DEF Enters, Kept, Keep
<1> HIDE DEF rq, rn
<1>2. \A q \in Ports, l \in Lines : Holds(tb, rq, rn, q, l) <=> Holds(tb, rp, rm, q, l)
  <2> SUFFICES ASSUME NEW q \in Ports, NEW l \in Lines
               PROVE  Holds(tb, rq, rn, q, l) <=> Holds(tb, rp, rm, q, l)
    OBVIOUS
  <2>1. CASE q # r.port
    BY <1>1, <2>1 DEF Holds, ReadPending
  <2>2. CASE q = r.port /\ r.type = "Locked_RMW_Read"
    BY <1>0, <1>1, <2>2 DEF Holds, ReadPending, Sendable, Requests, None
  <2>3. CASE q = r.port /\ r.type # "Locked_RMW_Read"
    BY <1>0, <1>1, <2>3, Zenon DEF Holds, ReadPending, Sendable, None
  <2> QED BY <2>1, <2>2, <2>3
<1>3. \A q \in Ports : rn[q] # None => rn[q].port = q
  BY <1>0, <1>1 DEF LocksRight
<1>4. \A q \in Ports : rq[q] # None =>
          IF rq[q].type \in Locked THEN rn[q] = [port |-> q, line |-> rq[q].line] ELSE rn[q] = None
  BY <1>0, <1>1 DEF LocksRight, Sendable, Locked
<1>5. \A k \in Kinds, l \in Lines : tb[k][l] # None /\ tb[k][l].type \in Locked =>
          /\ k = "ST" /\ rq[tb[k][l].port] = None
          /\ rn[tb[k][l].port] = [port |-> tb[k][l].port, line |-> l]
  <2> SUFFICES ASSUME NEW k \in Kinds, NEW l \in Lines, tb[k][l] # None, tb[k][l].type \in Locked
               PROVE  /\ k = "ST" /\ rq[tb[k][l].port] = None
                      /\ rn[tb[k][l].port] = [port |-> tb[k][l].port, line |-> l]
    BY Zenon
  <2>1. /\ k = "ST" /\ rp[tb[k][l].port] = None
        /\ rm[tb[k][l].port] = [port |-> tb[k][l].port, line |-> l]
    BY DEF LocksRight
  <2>2. tb[k][l].port \in Ports
    BY <1>0 DEF Tables, Entries
  <2>3. tb[k][l].port # r.port
    BY <2>1, <2>2 DEF Sendable, None
  <2> QED BY <1>1, <2>1, <2>2, <2>3, Zenon
<1> QED BY <1>1, <1>2, <1>3, <1>4, <1>5, Zenon DEF LocksRight, rq, rn
\* A request that fits joins the tables.
LEMMA IssueTables ==
    ASSUME SequencerConstants, NEW tb, NEW rp, NEW r \in Requests, TablesRight(tb, rp),
           ~(Cardinality(Outstanding(tb)) >= MaxOutstanding), \A k \in Kinds : tb[k][r.line] = None
    PROVE  TablesRight(Insert(tb, r), Drop(rp, r.port))
<1>0. tb \in Tables /\ rp \in Kept /\ Table(r.type) \in Kinds /\ r.line \in Lines /\ r.port \in Ports
  BY DEF TablesRight, Table, Kinds, Requests
<1>1. Entry(r) \in Entries /\ Entry(r) # None
  <2>1. 0 \in 0 .. 2 * Threshold
    BY DEF SequencerConstants
  <2> QED BY <2>1 DEF Entry, Entries, Requests, None
<1>2. Insert(tb, r) \in Tables
  BY <1>0, <1>1 DEF Insert, Tables
<1>3. /\ Outstanding(Insert(tb, r)) = Outstanding(tb) \cup {<<Table(r.type), r.line>>}
      /\ <<Table(r.type), r.line>> \notin Outstanding(tb)
  <2>1. tb[Table(r.type)][r.line] = None
    BY <1>0
  <2> DEFINE k == Table(r.type)
             l == r.line
             e == Entry(r)
  <2>2. tb[k][l] = None /\ k \in Kinds /\ l \in Lines /\ e # None
    BY <1>0, <1>1, <2>1
  <2>3. Insert(tb, r) = [tb EXCEPT ![k][l] = e]
    BY Zenon DEF Insert
  <2> HIDE DEF k, l, e
  <2>4. /\ Outstanding([tb EXCEPT ![k][l] = e]) = Outstanding(tb) \cup {<<k, l>>}
        /\ <<k, l>> \notin Outstanding(tb)
    BY <1>0, <2>2, OutstandingAdds
  <2> QED BY <2>3, <2>4, Zenon DEF k, l
<1>4. /\ IsFiniteSet(Outstanding(Insert(tb, r)))
      /\ Cardinality(Outstanding(Insert(tb, r))) = Cardinality(Outstanding(tb)) + 1
      /\ Cardinality(Outstanding(tb)) \in Nat
  <2>1. IsFiniteSet(Outstanding(tb))
    BY DEF TablesRight
  <2> QED BY <1>3, <2>1, FS_AddElement, FS_CardinalityType
<1>5. Cardinality(Outstanding(Insert(tb, r))) <= MaxOutstanding
  BY <1>4 DEF SequencerConstants
<1>6. \A l \in Lines : Insert(tb, r)["LD"][l] = None \/ Insert(tb, r)["ST"][l] = None
  <2>1. \A k \in Kinds, l \in Lines : k # Table(r.type) \/ l # r.line => Insert(tb, r)[k][l] = tb[k][l]
    BY <1>0 DEF Insert, Tables
  <2>2. \A l \in Lines : tb["LD"][l] = None \/ tb["ST"][l] = None
    BY DEF TablesRight
  <2> QED BY <2>1, <2>2 DEF Kinds
<1>7. /\ Drop(rp, r.port) \in Kept
      /\ \A p \in Ports : Drop(rp, r.port)[p] # None => Drop(rp, r.port)[p].port = p
  BY <1>0, Zenon DEF Kept, TablesRight, Drop
<1> QED BY <1>2, <1>4, <1>5, <1>6, <1>7, Zenon DEF TablesRight

\* The locked pairs stay right when it does.
LEMMA IssueLocks ==
    ASSUME NEW tb, NEW rp, NEW bl, NEW rm, NEW r \in Requests, TablesRight(tb, rp),
           LocksRight(tb, rp, bl, rm), rp[r.port] = r, r # None,
           \A k \in Kinds : tb[k][r.line] = None, r.line \notin bl \/ r.type = "Locked_RMW_Write"
    PROVE  LocksRight(Insert(tb, r), Drop(rp, r.port), bl, rm)
<1> DEFINE rq == Drop(rp, r.port)
           tc == Insert(tb, r)
<1>0. /\ tb \in Tables /\ rp \in Kept /\ Table(r.type) \in Kinds /\ r.line \in Lines /\ r.port \in Ports
      /\ rm \in [Ports -> {None} \cup [port : Ports, line : Lines]]
  BY DEF TablesRight, LocksRight, Table, Kinds, Requests
<1>1. /\ \A q \in Ports : q # r.port => rq[q] = rp[q]
      /\ rq[r.port] = None
  BY <1>0 DEF Kept, Drop
<1>2. /\ \A k \in Kinds, l \in Lines : k # Table(r.type) \/ l # r.line => tc[k][l] = tb[k][l]
      /\ tc[Table(r.type)][r.line] = Entry(r)
  BY <1>0 DEF Insert, Tables
<1>3. Entry(r).port = r.port /\ Entry(r).type = r.type /\ Entry(r) # None
  BY Zenon DEF Entry, None
<1> HIDE DEF rq, tc
<1>4. r.type \in Locked => Table(r.type) = "ST" /\ rm[r.port] = [port |-> r.port, line |-> r.line]
  BY <1>0 DEF Locked, Table, LocksRight
<1>5. tb["ST"][r.line] = None /\ tb["LD"][r.line] = None /\ "ST" \in Kinds /\ "LD" \in Kinds
  BY DEF Kinds
<1>6. \A q \in Ports, l \in Lines : Holds(tc, rq, rm, q, l) <=> Holds(tb, rp, rm, q, l)
  <2> SUFFICES ASSUME NEW q \in Ports, NEW l \in Lines, rm[q] = [port |-> q, line |-> l]
               PROVE  ReadPending(tc, rq, q, l) <=> ReadPending(tb, rp, q, l)
    BY Zenon DEF Holds
  <2>1. CASE l # r.line
    <3>1. tc["ST"][l] = tb["ST"][l]
      BY <1>2, <1>5, <2>1
    <3>2. q = r.port => r.type # "Locked_RMW_Read"
      BY <1>4, <2>1 DEF Locked
    <3> QED BY <1>1, <3>1, <3>2, Zenon DEF ReadPending
  <2>2. CASE l = r.line /\ Table(r.type) # "ST"
    <3>1. tc["ST"][l] = tb["ST"][l]
      BY <1>2, <1>5, <2>2, Zenon
    <3>2. r.type # "Locked_RMW_Read"
      BY <1>4, <2>2, Zenon DEF Locked
    <3> QED BY <1>1, <3>1, <3>2, Zenon DEF ReadPending
  <2>3. CASE l = r.line /\ Table(r.type) = "ST"
    BY <1>1, <1>2, <1>3, <1>5, <2>3 DEF ReadPending
  <2> QED BY <2>1, <2>2, <2>3
<1>7. \A q \in Ports : rq[q] # None =>
          IF rq[q].type \in Locked THEN rm[q] = [port |-> q, line |-> rq[q].line] ELSE rm[q] = None
  BY <1>1, SMTT(30) DEF LocksRight
<1>8. \A k \in Kinds, l \in Lines : tc[k][l] # None /\ tc[k][l].type \in Locked =>
          /\ k = "ST" /\ rq[tc[k][l].port] = None
          /\ rm[tc[k][l].port] = [port |-> tc[k][l].port, line |-> l]
  <2> SUFFICES ASSUME NEW k \in Kinds, NEW l \in Lines, tc[k][l] # None, tc[k][l].type \in Locked
               PROVE  /\ k = "ST" /\ rq[tc[k][l].port] = None
                      /\ rm[tc[k][l].port] = [port |-> tc[k][l].port, line |-> l]
    BY SMTT(30)
  <2>1. CASE k = Table(r.type) /\ l = r.line
    BY <1>1, <1>2, <1>3, <1>4, <2>1
  <2>2. CASE ~(k = Table(r.type) /\ l = r.line)
    <3>1. tc[k][l] = tb[k][l]
      BY <1>2, <2>2, Zenon
    <3>2. /\ k = "ST" /\ rp[tb[k][l].port] = None
          /\ rm[tb[k][l].port] = [port |-> tb[k][l].port, line |-> l]
      BY <3>1 DEF LocksRight
    <3>3. tb[k][l].port \in Ports
      BY <1>0, <3>1, SMTT(30) DEF Tables, Entries
    <3> QED BY <1>1, <3>1, <3>2, <3>3, Zenon
  <2> QED BY <2>1, <2>2, Zenon
<1>9. \A l \in bl : tc["LD"][l] = None /\ (tc["ST"][l] # None => tc["ST"][l].type = "Locked_RMW_Write")
  BY <1>2, <1>3, <1>4, <1>5 DEF LocksRight, Locked
<1> QED BY <1>6, <1>7, <1>8, <1>9, Zenon DEF LocksRight, rq, tc
\* The line of a request that has been answered, and the locked pairs.
Blocks(bl, l, type) ==
    IF type = "Locked_RMW_Read" THEN bl \cup {l} ELSE IF type = "Locked_RMW_Write" THEN bl \ {l} ELSE bl
Leaves(rm, e) == IF e.type = "Locked_RMW_Write" THEN [rm EXCEPT ![e.port] = None] ELSE rm
Remove(tb, k, l) == [tb EXCEPT ![k][l] = None]

\* A request that is answered leaves the tables.
LEMMA AnswerTables ==
    ASSUME SequencerConstants, NEW tb, NEW rp, NEW k \in Kinds, NEW l \in Lines, TablesRight(tb, rp)
    PROVE  TablesRight(Remove(tb, k, l), rp)
<1>0. tb \in Tables
  BY DEF TablesRight
<1>1. Remove(tb, k, l) \in Tables
  BY <1>0 DEF Remove, Tables
<1>2. Outstanding(Remove(tb, k, l)) = Outstanding(tb) \ {<<k, l>>}
  BY <1>0, OutstandingLoses, Zenon DEF Remove
<1>3. IsFiniteSet(Outstanding(tb)) /\ Cardinality(Outstanding(tb)) <= MaxOutstanding
  BY DEF TablesRight
<1>4. /\ IsFiniteSet(Outstanding(Remove(tb, k, l)))
      /\ Cardinality(Outstanding(Remove(tb, k, l))) <= Cardinality(Outstanding(tb))
  BY <1>2, <1>3, FS_Subset
<1>5. Cardinality(Outstanding(Remove(tb, k, l))) \in Nat /\ Cardinality(Outstanding(tb)) \in Nat
  BY <1>3, <1>4, FS_CardinalityType
<1>6. Cardinality(Outstanding(Remove(tb, k, l))) <= MaxOutstanding
  BY <1>3, <1>4, <1>5 DEF SequencerConstants
<1>7. \A m \in Lines : Remove(tb, k, l)["LD"][m] = None \/ Remove(tb, k, l)["ST"][m] = None
  <2>1. \A j \in Kinds, m \in Lines : Remove(tb, k, l)[j][m] = tb[j][m] \/ Remove(tb, k, l)[j][m] = None
    BY <1>0 DEF Remove, Tables
  <2>2. \A m \in Lines : tb["LD"][m] = None \/ tb["ST"][m] = None
    BY DEF TablesRight
  <2> QED BY <2>1, <2>2 DEF Kinds
<1> QED BY <1>1, <1>4, <1>6, <1>7 DEF TablesRight

\* Its line is blocked or unblocked, and the locked pairs stay right.
LEMMA AnswerLocks ==
    ASSUME NEW tb, NEW rp, NEW bl, NEW rm, NEW k \in Kinds, NEW l \in Lines, NEW e,
           TablesRight(tb, rp), LocksRight(tb, rp, bl, rm), tb[k][l] = e, e # None
    PROVE  LocksRight(Remove(tb, k, l), rp, Blocks(bl, l, e.type), Leaves(rm, e))
<1> DEFINE tc == Remove(tb, k, l)
           bm == Blocks(bl, l, e.type)
           rn == Leaves(rm, e)
<1>0. /\ tb \in Tables /\ rp \in Kept /\ e.port \in Ports /\ bl \subseteq Lines
      /\ rm \in [Ports -> {None} \cup [port : Ports, line : Lines]]
      /\ "ST" \in Kinds /\ "LD" \in Kinds
  BY DEF TablesRight, LocksRight, Tables, Entries, Kinds
<1>1. /\ \A j \in Kinds, m \in Lines : j # k \/ m # l => tc[j][m] = tb[j][m]
      /\ tc[k][l] = None
  BY <1>0, Zenon DEF Remove, Tables
<1>2. e.type \in Locked => k = "ST" /\ rp[e.port] = None /\ rm[e.port] = [port |-> e.port, line |-> l]
  BY SMTT(30) DEF LocksRight
<1>3. /\ rn \in [Ports -> {None} \cup [port : Ports, line : Lines]]
      /\ \A q \in Ports : rn[q] # None => rn[q] = rm[q] /\ rn[q].port = q
      /\ \A q \in Ports : q # e.port \/ e.type # "Locked_RMW_Write" => rn[q] = rm[q]
      /\ e.type = "Locked_RMW_Write" => rn[e.port] = None
  BY <1>0 DEF Leaves, LocksRight
<1>4. bm \subseteq Lines /\ \A m \in Lines : m # l => (m \in bm <=> m \in bl)
  BY <1>0, Zenon DEF Blocks
<1>5. tc["LD"][l] = None /\ tc["ST"][l] = None
  BY <1>0, <1>1, Zenon DEF TablesRight, Kinds
<1>6. \A q \in Ports, m \in Lines : m # l => (Holds(tc, rp, rn, q, m) <=> Holds(tb, rp, rm, q, m))
  <2> SUFFICES ASSUME NEW q \in Ports, NEW m \in Lines, m # l
               PROVE  Holds(tc, rp, rn, q, m) <=> Holds(tb, rp, rm, q, m)
    OBVIOUS
  <2>1. tc["ST"][m] = tb["ST"][m]
    BY <1>0, <1>1, Zenon
  <2>2. rn[q] = [port |-> q, line |-> m] <=> rm[q] = [port |-> q, line |-> m]
    <3>1. CASE q # e.port \/ e.type # "Locked_RMW_Write"
      BY <1>3, <3>1, Zenon
    <3>2. CASE q = e.port /\ e.type = "Locked_RMW_Write"
      BY <1>2, <1>3, <3>2 DEF Locked, None
    <3> QED BY <3>1, <3>2, Zenon
  <2> QED BY <2>1, <2>2 DEF Holds, ReadPending
\* The line itself, after the read of a locked pair, after its write and after another request.
<1> DEFINE LineRight == /\ l \in bm <=> \E q \in Ports : Holds(tc, rp, rn, q, l)
                        /\ \A q, o \in Ports : Holds(tc, rp, rn, q, l) /\ Holds(tc, rp, rn, o, l) => q = o
<1>7. ASSUME e.type = "Locked_RMW_Read" PROVE LineRight
  <2>1. \A q \in Ports : Holds(tc, rp, rn, q, l) <=> q = e.port
    <3>1. l \notin bl
      BY <1>2, <1>7, Zenon DEF LocksRight, Locked
    <3>2. \A q \in Ports : ~Holds(tb, rp, rm, q, l)
      BY <3>1, Zenon DEF LocksRight
    <3> QED BY <1>2, <1>3, <1>5, <1>7, <3>2, SMTT(30) DEF Holds, ReadPending, Locked
  <2>2. l \in bm
    BY <1>7 DEF Blocks
  <2> HIDE DEF tc, bm, rn
  <2> QED BY <1>0, <2>1, <2>2, Zenon
<1>8. ASSUME e.type = "Locked_RMW_Write" PROVE LineRight
  <2>1. \A q \in Ports : ~Holds(tc, rp, rn, q, l)
    <3>1. Holds(tb, rp, rm, e.port, l)
      BY <1>2, <1>8, Zenon DEF Holds, ReadPending, Locked
    <3>2. \A q \in Ports : q # e.port => ~Holds(tb, rp, rm, q, l)
      BY <1>0, <3>1, Zenon DEF LocksRight
    <3>3. \A q \in Ports : q # e.port => ~Holds(tc, rp, rn, q, l)
      BY <1>2, <1>3, <1>5, <1>8, <3>2, Zenon DEF Holds, ReadPending, Locked
    <3>4. ~Holds(tc, rp, rn, e.port, l)
      BY <1>3, <1>8 DEF Holds, None
    <3> QED BY <3>3, <3>4, Zenon
  <2>2. l \notin bm
    BY <1>8 DEF Blocks
  <2> HIDE DEF tc, bm, rn
  <2> QED BY <2>1, <2>2
<1>9. ASSUME e.type \notin Locked PROVE LineRight
  <2>1. \A q \in Ports : Holds(tc, rp, rn, q, l) <=> Holds(tb, rp, rm, q, l)
    BY <1>0, <1>1, <1>3, <1>5, <1>9 DEF Holds, ReadPending, Locked
  <2>2. bm = bl
    BY <1>9, Zenon DEF Blocks, Locked
  <2>3. /\ l \in bl <=> \E q \in Ports : Holds(tb, rp, rm, q, l)
        /\ \A q, o \in Ports : Holds(tb, rp, rm, q, l) /\ Holds(tb, rp, rm, o, l) => q = o
    BY Zenon DEF LocksRight
  <2> HIDE DEF tc, bm, rn
  <2> QED BY <2>1, <2>2, <2>3, Zenon
<1>10. LineRight
  BY <1>7, <1>8, <1>9, Zenon DEF Locked
<1> HIDE DEF tc, bm, rn
<1>11. /\ \A m \in Lines : m \in bm <=> \E q \in Ports : Holds(tc, rp, rn, q, m)
       /\ \A m \in Lines, q, o \in Ports : Holds(tc, rp, rn, q, m) /\ Holds(tc, rp, rn, o, m) => q = o
  <2>1. \A m \in Lines : /\ m \in bl <=> \E q \in Ports : Holds(tb, rp, rm, q, m)
                         /\ \A q, o \in Ports : Holds(tb, rp, rm, q, m) /\ Holds(tb, rp, rm, o, m) => q = o
    BY DEF LocksRight
  <2>2. \A m \in Lines : m # l =>
          /\ m \in bm <=> \E q \in Ports : Holds(tc, rp, rn, q, m)
          /\ \A q, o \in Ports : Holds(tc, rp, rn, q, m) /\ Holds(tc, rp, rn, o, m) => q = o
    <3> SUFFICES ASSUME NEW m \in Lines, m # l
                 PROVE  /\ m \in bm <=> \E q \in Ports : Holds(tc, rp, rn, q, m)
                        /\ \A q, o \in Ports : Holds(tc, rp, rn, q, m) /\ Holds(tc, rp, rn, o, m) => q = o
      OBVIOUS
    <3>1. m \in bm <=> m \in bl
      BY <1>4
    <3>2. \A q \in Ports : Holds(tc, rp, rn, q, m) <=> Holds(tb, rp, rm, q, m)
      BY <1>6
    <3>3. (\E q \in Ports : Holds(tc, rp, rn, q, m)) <=> \E q \in Ports : Holds(tb, rp, rm, q, m)
      BY <3>2, Zenon
    <3>4. m \in bm <=> \E q \in Ports : Holds(tc, rp, rn, q, m)
      BY <2>1, <3>1, <3>3, Zenon
    <3>5. \A q, o \in Ports : Holds(tc, rp, rn, q, m) /\ Holds(tc, rp, rn, o, m) => q = o
      BY <2>1, <3>2, Zenon
    <3> QED BY <3>4, <3>5, Zenon
  <2>3. LineRight
    BY <1>10, Zenon
  <2> QED BY <2>2, <2>3, Zenon
<1>12. \A q \in Ports : rp[q] # None =>
          IF rp[q].type \in Locked THEN rn[q] = [port |-> q, line |-> rp[q].line] ELSE rn[q] = None
  BY <1>2, <1>3 DEF LocksRight, Locked
<1>13. \A j \in Kinds, m \in Lines : tc[j][m] # None /\ tc[j][m].type \in Locked =>
          /\ j = "ST" /\ rp[tc[j][m].port] = None
          /\ rn[tc[j][m].port] = [port |-> tc[j][m].port, line |-> m]
  <2> SUFFICES ASSUME NEW j \in Kinds, NEW m \in Lines, tc[j][m] # None, tc[j][m].type \in Locked
               PROVE  /\ j = "ST" /\ rp[tc[j][m].port] = None
                      /\ rn[tc[j][m].port] = [port |-> tc[j][m].port, line |-> m]
    BY Zenon
  <2>1. (j # k \/ m # l) /\ tc[j][m] = tb[j][m]
    BY <1>1, Zenon
  <2>2. /\ j = "ST" /\ rp[tb[j][m].port] = None
        /\ rm[tb[j][m].port] = [port |-> tb[j][m].port, line |-> m]
    BY <2>1 DEF LocksRight
  <2>3. tb[j][m].port \in Ports
    BY <1>0, <2>1, SMTT(30) DEF Tables, Entries
  <2>4. tb[j][m].port # e.port \/ e.type # "Locked_RMW_Write"
    BY <1>2, <2>1, <2>2 DEF Locked
  <2>5. rn[tb[j][m].port] = rm[tb[j][m].port]
    BY <1>3, <2>3, <2>4, Zenon
  <2> QED BY <2>1, <2>2, <2>5, Zenon
<1>14. \A m \in bm : tc["LD"][m] = None /\ (tc["ST"][m] # None => tc["ST"][m].type = "Locked_RMW_Write")
  BY <1>0, <1>1, <1>4, <1>5 DEF LocksRight
<1>15. LocksRight(tc, rp, bm, rn)
  BY <1>3, <1>4, <1>11, <1>12, <1>13, <1>14, Zenon DEF LocksRight
<1> QED BY <1>15, Zenon DEF tc, bm, rn
\* The deadlock check when a request joins the tables, is refused or leaves.
LEMMA CheckIssue ==
    ASSUME SequencerConstants, NEW st \in States, NEW ds, NEW pk, NEW r \in Requests,
           CheckRight(st.table, st.check, ds, pk)
    PROVE  CheckRight(Insert(st.table, r), ScheduleCheck(st, ds), ds, pk)
<1> DEFINE tc == Insert(st.table, r)
           ck == ScheduleCheck(st, ds)
<1>0. st.table \in Tables /\ st.check \in 0 .. Threshold /\ Threshold \in Nat \ {0} /\ Table(r.type) \in Kinds /\ r.line \in Lines
  BY Zenon DEF States, SequencerConstants, Table, Kinds, Requests
<1>1. /\ \A k \in Kinds, l \in Lines : k # Table(r.type) \/ l # r.line => tc[k][l] = st.table[k][l]
      /\ tc[Table(r.type)][r.line] = Entry(r)
  BY <1>0 DEF Insert, Tables
<1>2. Entry(r).age = 0
  BY DEF Entry
<1>3. /\ ck \in 0 .. Threshold
      /\ ds = "Draining" => ck = st.check
      /\ st.check > 0 => ck = st.check
      /\ ds = "Running" => ck > 0
  BY <1>0 DEF ScheduleCheck
<1> HIDE DEF tc, ck
<1>4. ds = "Draining" => ck = 0
  BY <1>3, Zenon DEF CheckRight
<1>5. ASSUME ds = "Running", ~pk, NEW k \in Kinds, NEW l \in Lines, tc[k][l] # None
      PROVE  ck > 0 /\ tc[k][l].age + ck < 2 * Threshold
  <2>1. CASE k = Table(r.type) /\ l = r.line
    <3>1. tc[k][l].age = 0
      BY <1>1, <1>2, <2>1, Zenon
    <3> QED BY <1>0, <1>3, <1>5, <3>1
  <2>2. CASE ~(k = Table(r.type) /\ l = r.line)
    <3>1. tc[k][l] = st.table[k][l]
      BY <1>1, <2>2
    <3>2. st.check > 0 /\ tc[k][l].age + st.check < 2 * Threshold
      BY <1>5, <3>1, Zenon DEF CheckRight
    <3> QED BY <1>3, <1>5, <3>2, Zenon
  <2> QED BY <2>1, <2>2
<1>6. CheckRight(tc, ck, ds, pk)
  BY <1>3, <1>4, <1>5, Zenon DEF CheckRight
<1> QED BY <1>6 DEF tc, ck

\* A refused request can only schedule the check.
LEMMA CheckRefuse ==
    ASSUME SequencerConstants, NEW st \in States, NEW ds, NEW pk, CheckRight(st.table, st.check, ds, pk),
           NEW ck \in Checks(st, ds)
    PROVE  CheckRight(st.table, ck, ds, pk)
<1>0. st.check \in 0 .. Threshold /\ Threshold \in Nat \ {0}
  BY DEF States, SequencerConstants
<1>1. /\ ck \in 0 .. Threshold
      /\ ds = "Draining" => ck = st.check
      /\ st.check > 0 => ck = st.check
  BY <1>0 DEF ScheduleCheck, Checks
<1> QED BY <1>0, <1>1 DEF CheckRight

\* A request that leaves does not disturb the check.
LEMMA CheckAnswer ==
    ASSUME NEW tb \in Tables, NEW ck, NEW ds, NEW pk, NEW k \in Kinds, NEW l \in Lines,
           CheckRight(tb, ck, ds, pk)
    PROVE  CheckRight(Remove(tb, k, l), ck, ds, pk)
<1>1. \A j \in Kinds, m \in Lines : Remove(tb, k, l)[j][m] = tb[j][m] \/ Remove(tb, k, l)[j][m] = None
  BY DEF Remove, Tables
<1> QED BY <1>1 DEF CheckRight
-----------------------------------------------------------------------------
\* The state of the loop of trySendRetries after the first n ports of list,
\* whose clients kept the requests rp before it.
LoopRight(s, n, list, rp, bl, rm, ds) ==
    /\ s \in States
    /\ TablesRight(s.table, s.retryPkt)
    /\ LocksRight(s.table, s.retryPkt, bl, rm)
    /\ CheckRight(s.table, s.check, ds, FALSE)
    /\ IsInjective(s.retryList)
    /\ Range(s.retryList) = {p \in Ports : s.retryPkt[p] # None /\ \E k \in 1 .. n : list[k] = p}
    /\ \A p \in Ports : (\A k \in 1 .. n : list[k] # p) => s.retryPkt[p] = rp[p]
    /\ \A p \in Ports : s.retryPkt[p] # None => rp[p] # None
    /\ Outstanding(s.table) = {} =>
         \A k \in 1 .. n : LET r == s.retryPkt[list[k]]
                           IN  r # None => r.line \in bl /\ r.type # "Locked_RMW_Write"

\* A port that is not on the list is put at its end.
LEMMA ListAppend ==
    ASSUME NEW list \in Seq(Ports), NEW p \in Ports, IsInjective(list), p \notin Range(list)
    PROVE  /\ addToRetryList(list, p) = Append(list, p)
           /\ Append(list, p) \in Seq(Ports)
           /\ IsInjective(Append(list, p))
           /\ Range(Append(list, p)) = Range(list) \cup {p}
<1>1. p \notin Range(list)
  OBVIOUS
<1>2. addToRetryList(list, p) = Append(list, p)
  BY <1>1, Zenon DEF addToRetryList
<1>3. Append(list, p) \in Seq(Ports) /\ IsInjective(Append(list, p))
  BY DEF IsInjective, Range
<1>4. Range(Append(list, p)) = Range(list) \cup {p}
  <2> DEFINE new == Append(list, p)
             len == Len(list)
  <2>1. /\ len \in Nat /\ DOMAIN list = 1 .. len /\ DOMAIN new = 1 .. (len + 1)
        /\ new[len + 1] = p /\ \A k \in 1 .. len : new[k] = list[k]
    OBVIOUS
  <2> HIDE DEF new, len
  <2>2. \A x : x \in Range(new) <=> x \in Range(list) \/ x = p
    BY <2>1 DEF Range
  <2> QED BY <2>2 DEF new
<1> QED BY <1>2, <1>3, <1>4

\* What a refused request shows.
LEMMA RefusedWhy ==
    ASSUME SequencerConstants, NEW st \in States, NEW bl, NEW r \in Requests, ~Issues(st, bl, r),
           TablesRight(st.table, st.retryPkt), Outstanding(st.table) = {}
    PROVE  r.line \in bl /\ r.type # "Locked_RMW_Write"
<1>1. Cardinality(Outstanding(st.table)) = 0
  BY FS_EmptySet
<1>2. ~(Cardinality(Outstanding(st.table)) >= MaxOutstanding)
  BY <1>1 DEF SequencerConstants
<1>3. Aliased(st, bl, r)
  BY <1>2 DEF Issues
<1>4. \A k \in Kinds : st.table[k][r.line] = None
  <2> SUFFICES ASSUME NEW k \in Kinds, st.table[k][r.line] # None PROVE FALSE
    BY Zenon
  <2>1. <<k, r.line>> \in Outstanding(st.table)
    BY Zenon DEF Outstanding, Requests
  <2> QED BY <2>1
<1> QED BY <1>3, <1>4 DEF Aliased
\* One turn of the loop.
LEMMA LoopStep ==
    ASSUME SequencerConstants, NEW list \in Seq(Ports), IsInjective(list), NEW rp \in Kept,
           Range(list) = Waiters(rp), NEW bl, NEW rm, NEW ds,
           NEW s, NEW n \in 1 .. Len(list), LoopRight(s, n - 1, list, rp, bl, rm, ds)
    PROVE  LoopRight(doRetry(s, bl, ds, list[n]), n, list, rp, bl, rm, ds)
<1> DEFINE p == list[n]
           r == s.retryPkt[p]
<1>0. n \in Nat /\ n - 1 \in Nat /\ p \in Ports /\ 1 .. n = (1 .. (n - 1)) \cup {n} /\ n \notin 1 .. (n - 1)
  OBVIOUS
<1>1. rp[p] # None
  <2>1. p \in Range(list)
    BY DEF Range
  <2> QED BY <2>1, Zenon DEF Waiters
<1>2. \A k \in 1 .. (n - 1) : list[k] # p
  BY <1>0, SMTT(30) DEF IsInjective
<1>3. r = rp[p] /\ r \in Requests /\ r # None /\ r.port = p /\ s \in States /\ s.retryPkt \in Kept
  <2>1. r = rp[p]
    BY <1>0, <1>2, Zenon DEF LoopRight
  <2>2. r \in Requests
    BY <1>0, <1>1, <2>1, Zenon DEF Kept
  <2>3. r.port = p
    BY <1>0, <1>1, <2>1 DEF LoopRight, TablesRight
  <2> QED BY <1>1, <2>1, <2>2, <2>3, Zenon DEF LoopRight, States
<1> DEFINE t == doRetry(s, bl, ds, p)
<1>4. ASSUME Issues(s, bl, r)
      PROVE  LoopRight(t, n, list, rp, bl, rm, ds)
  <2> DEFINE rq == Drop(s.retryPkt, p)
  <2>0. r = s.retryPkt[p]
    BY Zenon
  <2> HIDE DEF p, r
  <2>1. t = Issued(s, ds, r, rq)
    BY <1>3, <1>4, <2>0, RetryIssued
  <2> DEFINE tc == Insert(s.table, r)
             ck == ScheduleCheck(s, ds)
  <2>2. /\ ~(Cardinality(Outstanding(s.table)) >= MaxOutstanding)
        /\ \A k \in Kinds : s.table[k][r.line] = None
        /\ r.line \notin bl \/ r.type = "Locked_RMW_Write"
    BY <1>4, Zenon DEF Issues, Aliased
  <2>3. TablesRight(tc, rq)
    <3>1. TablesRight(s.table, s.retryPkt)
      BY Zenon DEF LoopRight
    <3> QED BY <1>3, <2>2, <3>1, IssueTables, Zenon
  <2>4. LocksRight(tc, rq, bl, rm)
    <3>1. TablesRight(s.table, s.retryPkt) /\ LocksRight(s.table, s.retryPkt, bl, rm)
      BY DEF LoopRight
    <3> QED BY <1>3, <2>0, <2>2, <3>1, IssueLocks, Zenon
  <2>5. CheckRight(tc, ck, ds, FALSE)
    BY <1>3, CheckIssue, Zenon DEF LoopRight
  <2>6. rq[p] = None /\ \A q \in Ports : q # p => rq[q] = s.retryPkt[q]
    BY <1>0, <1>3, Zenon DEF Kept, Drop
  <2>7. Outstanding(tc) # {}
    <3>1. tc[Table(r.type)][r.line] # None /\ <<Table(r.type), r.line>> \in Kinds \X Lines
      BY <1>3, Zenon DEF Insert, Entry, None, States, Tables, Requests, Table, Kinds
    <3> HIDE DEF tc
    <3> QED BY <3>1 DEF Outstanding
  <2> HIDE DEF p, r, t, tc, rq, ck
  <2>8. t.table = tc /\ t.retryList = s.retryList /\ t.retryPkt = rq /\ t.check = ck
    BY <2>1, Zenon DEF tc, rq, ck, Issued
  <2>9. t \in States
    <3>1. tc \in Tables /\ rq \in Kept /\ ck \in 0 .. Threshold /\ s.retryList \in Seq(Ports)
      BY <1>3, <2>3, <2>5, Zenon DEF TablesRight, CheckRight, States
    <3> QED BY <2>1, <3>1, Zenon DEF States, tc, rq, ck, Issued
  <2>10. Range(s.retryList) = {q \in Ports : rq[q] # None /\ \E k \in 1 .. n : list[k] = q}
    <3>1. Range(s.retryList) = {q \in Ports : s.retryPkt[q] # None /\ \E k \in 1 .. (n - 1) : list[k] = q}
      BY Zenon DEF LoopRight
    <3>2. \A q \in Ports : /\ s.retryPkt[q] # None /\ (\E k \in 1 .. (n - 1) : list[k] = q)
                           <=> rq[q] # None /\ (\E k \in 1 .. n : list[k] = q)
      BY <1>0, <1>2, <2>6, Zenon DEF p
    <3> QED BY <3>1, <3>2, Zenon
  <2>11. \A q \in Ports : (\A k \in 1 .. n : list[k] # q) => rq[q] = rp[q]
    BY <1>0, <2>6, Zenon DEF LoopRight, p
  <2>12. \A q \in Ports : rq[q] # None => rp[q] # None
    BY <2>6, Zenon DEF LoopRight
  <2>13. IsInjective(s.retryList)
    BY DEF LoopRight
  <2> QED BY <2>3, <2>4, <2>5, <2>7, <2>8, <2>9, <2>10, <2>11, <2>12, <2>13, Zenon DEF LoopRight
<1>5. ASSUME ~Issues(s, bl, r)
      PROVE  LoopRight(t, n, list, rp, bl, rm, ds)
  <2>0. r = s.retryPkt[p]
    OBVIOUS
  <2>00. TablesRight(s.table, s.retryPkt) /\ LocksRight(s.table, s.retryPkt, bl, rm)
    BY DEF LoopRight
  <2> HIDE DEF p, r
  <2>1. PICK ck \in Checks(s, ds) : t = Refused(s, r, ck)
    <3>1. StaysRefused(t, s, ds, r)
      BY <1>3, <1>5, <2>0, RetryRefused
    <3> QED BY <3>1, Zenon DEF StaysRefused
  <2>2. CheckRight(s.table, ck, ds, FALSE)
    <3>1. CheckRight(s.table, s.check, ds, FALSE)
      BY Zenon DEF LoopRight
    <3> QED BY <1>3, <3>1, CheckRefuse, Zenon
  <2>3. s.retryList \in Seq(Ports) /\ IsInjective(s.retryList) /\ p \notin Range(s.retryList)
    <3>1. Range(s.retryList) = {q \in Ports : s.retryPkt[q] # None /\ \E k \in 1 .. (n - 1) : list[k] = q}
      BY Zenon DEF LoopRight
    <3> QED BY <1>2, <1>3, <3>1, Zenon DEF LoopRight, States
  <2> DEFINE new == Append(s.retryList, p)
  <2>4. /\ addToRetryList(s.retryList, r.port) = new
        /\ new \in Seq(Ports) /\ IsInjective(new) /\ Range(new) = Range(s.retryList) \cup {p}
    BY <1>0, <1>3, <2>3, ListAppend, Zenon
  <2> HIDE DEF t, new
  <2>5. t.table = s.table /\ t.retryList = new /\ t.retryPkt = s.retryPkt /\ t.check = ck
    BY <2>1, <2>4, Zenon DEF Refused
  <2>6. t \in States
    <3>1. ck \in 0 .. Threshold
      BY <2>2, Zenon DEF CheckRight
    <3>2. s.table \in Tables /\ s.retryPkt \in Kept
      BY <1>3 DEF States
    <3>3. t = [table |-> s.table, retryList |-> new, retryPkt |-> s.retryPkt, check |-> ck]
      BY <2>1, <2>4, Zenon DEF Refused
    <3> QED BY <2>4, <3>1, <3>2, <3>3, Zenon DEF States
  <2>7. Range(new) = {q \in Ports : s.retryPkt[q] # None /\ \E k \in 1 .. n : list[k] = q}
    <3>1. Range(s.retryList) = {q \in Ports : s.retryPkt[q] # None /\ \E k \in 1 .. (n - 1) : list[k] = q}
      BY DEF LoopRight
    <3>2. \A q \in Ports : /\ s.retryPkt[q] # None /\ (\E k \in 1 .. n : list[k] = q)
                           <=> \/ s.retryPkt[q] # None /\ (\E k \in 1 .. (n - 1) : list[k] = q)
                               \/ q = p
      BY <1>0, <1>3, <2>0, Zenon DEF p
    <3> QED BY <1>0, <2>4, <3>1, <3>2, Zenon
  <2>8. \A q \in Ports : (\A k \in 1 .. n : list[k] # q) => s.retryPkt[q] = rp[q]
    BY <1>0, Zenon DEF LoopRight
  <2>9. \A q \in Ports : s.retryPkt[q] # None => rp[q] # None
    BY Zenon DEF LoopRight
  <2>10. ASSUME Outstanding(s.table) = {}, NEW k \in 1 .. n, s.retryPkt[list[k]] # None
         PROVE  s.retryPkt[list[k]].line \in bl /\ s.retryPkt[list[k]].type # "Locked_RMW_Write"
    <3>1. CASE k = n
      <4>1. r.line \in bl /\ r.type # "Locked_RMW_Write"
        BY <1>3, <1>5, <2>00, <2>10, RefusedWhy, Zenon
      <4> QED BY <2>0, <3>1, <4>1, Zenon DEF p
    <3>2. CASE k \in 1 .. (n - 1)
      BY <2>10, <3>2, Zenon DEF LoopRight
    <3> QED BY <1>0, <3>1, <3>2, Zenon
  <2>11. Outstanding(t.table) = {} =>
           \A k \in 1 .. n : t.retryPkt[list[k]] # None =>
             t.retryPkt[list[k]].line \in bl /\ t.retryPkt[list[k]].type # "Locked_RMW_Write"
    BY <2>5, <2>10
  <2>12. /\ TablesRight(t.table, t.retryPkt) /\ LocksRight(t.table, t.retryPkt, bl, rm)
         /\ CheckRight(t.table, t.check, ds, FALSE)
         /\ IsInjective(t.retryList)
         /\ Range(t.retryList) = {q \in Ports : t.retryPkt[q] # None /\ \E k \in 1 .. n : list[k] = q}
         /\ \A q \in Ports : (\A k \in 1 .. n : list[k] # q) => t.retryPkt[q] = rp[q]
         /\ \A q \in Ports : t.retryPkt[q] # None => rp[q] # None
    BY <2>00, <2>2, <2>4, <2>5, <2>7, <2>8, <2>9, Zenon
  <2> QED BY <2>6, <2>11, <2>12, Zenon DEF LoopRight
<1> QED BY <1>4, <1>5
\* The state once all the waiting ports have retried.
Served(t, bl, rm, ds) ==
    /\ t \in States
    /\ TablesRight(t.table, t.retryPkt)
    /\ LocksRight(t.table, t.retryPkt, bl, rm)
    /\ CheckRight(t.table, t.check, ds, FALSE)
    /\ IsInjective(t.retryList)
    /\ Range(t.retryList) = Waiters(t.retryPkt)
    /\ Outstanding(t.table) = {} =>
         \A p \in Ports : t.retryPkt[p] # None =>
             t.retryPkt[p].line \in bl /\ t.retryPkt[p].type # "Locked_RMW_Write"

\* The loop of trySendRetries, from its first to its last turn.
LEMMA RetriesRight ==
    ASSUME SequencerConstants, NEW st \in States, NEW bl, NEW rm, NEW ds,
           TablesRight(st.table, st.retryPkt), LocksRight(st.table, st.retryPkt, bl, rm),
           CheckRight(st.table, st.check, ds, FALSE),
           IsInjective(st.retryList), Range(st.retryList) = Waiters(st.retryPkt)
    PROVE  Served(trySendRetries(st, bl, ds), bl, rm, ds)
<1> DEFINE list == st.retryList
           rp   == st.retryPkt
           Good(t, n) == LoopRight(t, n, list, rp, bl, rm, ds)
<1>0. list \in Seq(Ports) /\ rp \in Kept /\ Len(list) \in Nat
  BY DEF States
<1>1. PICK told : /\ told[0] = [st EXCEPT !.retryList = <<>>]
                  /\ \A n \in 1 .. Len(list) : told[n] = doRetry(told[n - 1], bl, ds, list[n])
                  /\ trySendRetries(st, bl, ds) = told[Len(list)]
  <2>1. PICK told : Loops(told, st, bl, ds)
    BY <1>0, ToldFacts, Zenon
  <2> QED BY <2>1, Zenon DEF Loops
<1>2. Good(told[0], 0)
  <2>1. told[0] = [table |-> st.table, retryList |-> <<>>, retryPkt |-> rp, check |-> st.check]
    <3>1. PICK a, b, c, d : st = [table |-> a, retryList |-> b, retryPkt |-> c, check |-> d]
      BY Zenon DEF States
    <3> QED BY <1>1, <3>1, StateFields, Zenon
  <2>2. told[0].table = st.table /\ told[0].retryList = <<>> /\ told[0].retryPkt = rp /\ told[0].check = st.check
    BY <2>1, SMTT(30)
  <2>3. told[0] \in States
    BY <2>1 DEF States
  <2>4. Range(<<>>) = {} /\ IsInjective(<<>>)
    BY DEF Range, IsInjective
  <2>5. {p \in Ports : told[0].retryPkt[p] # None /\ \E k \in 1 .. 0 : list[k] = p} = {}
    BY SMTT(30)
  <2> HIDE DEF list, rp
  <2>6. /\ \A p \in Ports : (\A k \in 1 .. 0 : list[k] # p) => told[0].retryPkt[p] = rp[p]
        /\ \A p \in Ports : told[0].retryPkt[p] # None => rp[p] # None
        /\ \A k \in 1 .. 0 : told[0].retryPkt[list[k]] # None =>
             told[0].retryPkt[list[k]].line \in bl /\ told[0].retryPkt[list[k]].type # "Locked_RMW_Write"
    BY <2>2
  <2>7. /\ TablesRight(told[0].table, told[0].retryPkt) /\ LocksRight(told[0].table, told[0].retryPkt, bl, rm)
        /\ CheckRight(told[0].table, told[0].check, ds, FALSE)
    BY <2>2, Zenon DEF rp
  <2>8. /\ IsInjective(told[0].retryList)
        /\ Range(told[0].retryList) = {p \in Ports : told[0].retryPkt[p] # None /\ \E k \in 1 .. 0 : list[k] = p}
    BY <2>2, <2>4, <2>5
  <2> QED BY <2>3, <2>6, <2>7, <2>8, Zenon DEF LoopRight
<1>3. \A n \in 1 .. Len(list) : Good(told[n - 1], n - 1) => Good(told[n], n)
  BY <1>0, <1>1, LoopStep
<1> HIDE DEF Good, list, rp
<1>4. \A n \in 0 .. Len(list) : Good(told[n], n)
  <2> DEFINE Bad == {n \in 0 .. Len(list) : ~Good(told[n], n)}
  <2> SUFFICES ASSUME Bad # {} PROVE FALSE
    OBVIOUS
  <2>1. PICK m \in Bad : \A k \in Bad : m <= k
    <3>1. Bad \subseteq Nat
      BY <1>0
    <3> HIDE DEF Bad
    <3> QED BY <3>1, LeastNumber, Zenon
  <2>2. m # 0
    BY <1>2
  <2>3. m - 1 \in 0 .. Len(list) /\ m \in 1 .. Len(list) /\ ~(m <= m - 1)
    BY <1>0, <2>2
  <2>4. Good(told[m - 1], m - 1)
    BY <2>1, <2>3
  <2> QED BY <1>3, <2>3, <2>4, Zenon
<1> DEFINE t == told[Len(list)]
<1>5. LoopRight(t, Len(list), list, rp, bl, rm, ds)
  BY <1>0, <1>4 DEF Good
<1> HIDE DEF t
<1>6. \A p \in Ports : t.retryPkt[p] # None => \E k \in 1 .. Len(list) : list[k] = p
  <2>1. \A p \in Ports : t.retryPkt[p] # None => p \in Range(list)
    BY <1>5, Zenon DEF LoopRight, Waiters, rp, list
  <2>2. \A p \in Range(list) : \E k \in 1 .. Len(list) : list[k] = p
    BY <1>0 DEF Range
  <2> QED BY <2>1, <2>2, Zenon
<1>7. Range(t.retryList) = Waiters(t.retryPkt)
  <2>1. Range(t.retryList) = {p \in Ports : t.retryPkt[p] # None /\ \E k \in 1 .. Len(list) : list[k] = p}
    BY <1>5, Zenon DEF LoopRight
  <2> QED BY <1>6, <2>1, Zenon DEF Waiters
<1>8. Outstanding(t.table) = {} =>
         \A p \in Ports : t.retryPkt[p] # None =>
             t.retryPkt[p].line \in bl /\ t.retryPkt[p].type # "Locked_RMW_Write"
  <2>1. Outstanding(t.table) = {} =>
          \A k \in 1 .. Len(list) : t.retryPkt[list[k]] # None =>
             t.retryPkt[list[k]].line \in bl /\ t.retryPkt[list[k]].type # "Locked_RMW_Write"
    BY <1>5, Zenon DEF LoopRight
  <2> QED BY <1>6, <2>1
<1>9. Served(t, bl, rm, ds)
  BY <1>5, <1>7, <1>8, Zenon DEF LoopRight, Served
<1> QED BY <1>1, <1>9, Zenon DEF t, list
-----------------------------------------------------------------------------
\* Nothing is outstanding at the start.
LEMMA SeqInit == ASSUME SequencerConstants, Init PROVE SeqInv
<1>1. Outstanding(table) = {}
  BY DEF Init, Outstanding, Kinds
<1>2. IsFiniteSet(Outstanding(table)) /\ Cardinality(Outstanding(table)) <= MaxOutstanding
  BY <1>1, FS_EmptySet DEF SequencerConstants
<1>3. table \in Tables /\ retryPkt \in Kept
  BY DEF Init, Tables, Kept
<1>4. /\ \A k \in Kinds, l \in Lines : table[k][l] = None
      /\ \A p \in Ports : retryPkt[p] = None /\ rmw[p] = None
      /\ "LD" \in Kinds /\ "ST" \in Kinds /\ blocked = {} /\ check = 0 /\ retryList = <<>>
      /\ drainState = "Running" /\ panicked = FALSE
  BY Zenon DEF Init, Kinds
<1>5. TablesRight(table, retryPkt)
  BY <1>2, <1>3, <1>4, Zenon DEF TablesRight
<1>6. \A p \in Ports, l \in Lines : ~Holds(table, retryPkt, rmw, p, l)
  BY <1>4 DEF Holds, None
<1>7. rmw \in [Ports -> {None} \cup [port : Ports, line : Lines]]
  BY Zenon DEF Init
<1>8. LocksRight(table, retryPkt, blocked, rmw)
  BY <1>4, <1>6, <1>7, Zenon DEF LocksRight
<1>9. CheckRight(table, check, drainState, panicked)
  BY <1>4 DEF CheckRight, SequencerConstants
<1>10. Range(retryList) = Waiters(retryPkt) /\ IsInjective(retryList) /\ retryList \in Seq(Ports)
  BY <1>4 DEF Range, Waiters, IsInjective
<1>11. WaiterHasWaker
  BY <1>4, Zenon DEF WaiterHasWaker
<1> QED BY <1>4, <1>5, <1>8, <1>9, <1>10, <1>11, Zenon DEF SeqInv

\* The state of the sequencer as a record.
LEMMA CurrentFacts ==
    ASSUME SeqInv
    PROVE  /\ Current \in States
           /\ Current.table = table /\ Current.retryList = retryList
           /\ Current.retryPkt = retryPkt /\ Current.check = check
  BY DEF Current, States, SeqInv, TablesRight, CheckRight

\* A client sends a request.
LEMMA SeqSend ==
    ASSUME SequencerConstants, SeqInv, NEW p \in Ports, NEW l \in Lines, NEW t \in Types, send(p, l, t)
    PROVE  SeqInv'
<1> DEFINE r == [port |-> p, line |-> l, type |-> t]
<1>0. r \in Requests /\ r.port = p /\ r.line = l /\ r.type = t /\ r # None
  BY DEF Requests, None
<1>1. /\ TablesRight(table, retryPkt) /\ LocksRight(table, retryPkt, blocked, rmw)
      /\ CheckRight(table, check, drainState, panicked) /\ panicked = FALSE
      /\ drainState \in {"Running", "Draining", "Drained"}
      /\ retryList \in Seq(Ports) /\ IsInjective(retryList) /\ Range(retryList) = Waiters(retryPkt)
      /\ retryPkt \in Kept
  BY Zenon DEF SeqInv, send, TablesRight
<1>2. /\ MaySend(p, l, t) /\ Becomes(sendPkt(Current, blocked, drainState, r))
      /\ rmw' = Enters(rmw, r)
      /\ UNCHANGED <<blocked, drainState, panicked>>
  BY <1>0, Zenon DEF send, Enters
<1>3. Sendable(table, retryPkt, blocked, rmw, r)
  BY <1>0, <1>2, Zenon DEF Sendable, MaySend
<1> HIDE DEF r
<1>4. TablesRight(table, Keep(retryPkt, r)) /\ LocksRight(table, Keep(retryPkt, r), blocked, rmw')
  BY <1>0, <1>1, <1>2, <1>3, KeepTables, KeepLocks, Zenon
<1> DEFINE rq == Keep(retryPkt, r)
<1>5. rq[p] = r /\ (\A q \in Ports : q # p => rq[q] = retryPkt[q]) /\ Drop(rq, p) = retryPkt /\ retryPkt[p] = None
  BY <1>0, <1>1, <1>2, Zenon DEF Keep, Drop, Kept, MaySend
<1>6. Current \in States /\ Current.table = table /\ Current.check = check
  BY CurrentFacts, Zenon
<1>7. CASE Issues(Current, blocked, r)
  <2> DEFINE tc == Insert(table, r)
             ck == ScheduleCheck(Current, drainState)
  <2>1. sendPkt(Current, blocked, drainState, r) = Issued(Current, drainState, r, Current.retryPkt)
    BY <1>6, <1>7, SendIssued, Zenon
  <2>2. table' = tc /\ retryList' = retryList /\ retryPkt' = retryPkt /\ check' = ck
    <3>1. Current.retryList = retryList /\ Current.retryPkt = retryPkt
      BY CurrentFacts, Zenon
    <3> QED BY <1>2, <1>6, <2>1, <3>1 DEF Becomes, Issued
  <2>3. /\ ~(Cardinality(Outstanding(table)) >= MaxOutstanding)
        /\ \A k \in Kinds : table[k][r.line] = None
        /\ r.line \notin blocked \/ r.type = "Locked_RMW_Write"
    BY <1>6, <1>7, Zenon DEF Issues, Aliased
  <2>4. TablesRight(tc, retryPkt)
    <3>1. TablesRight(tc, Drop(rq, r.port))
      BY <1>0, <1>4, <2>3, IssueTables
    <3> QED BY <1>0, <1>5, <3>1, Zenon
  <2>5. LocksRight(tc, retryPkt, blocked, rmw')
    <3>1. LocksRight(tc, Drop(rq, r.port), blocked, rmw')
      BY <1>0, <1>4, <1>5, <2>3, IssueLocks, Zenon
    <3> QED BY <1>0, <1>5, <3>1, Zenon
  <2>6. CheckRight(tc, ck, drainState, panicked)
    <3>1. CheckRight(Current.table, Current.check, drainState, panicked)
      BY <1>1, <1>6, Zenon
    <3>2. CheckRight(Insert(Current.table, r), ck, drainState, panicked)
      BY <1>0, <1>6, <3>1, CheckIssue, Zenon
    <3> QED BY <1>6, <3>2
  <2>7. Outstanding(tc) # {}
    <3>1. tc[Table(r.type)][r.line] # None /\ <<Table(r.type), r.line>> \in Kinds \X Lines
      BY <1>0, <1>6, Zenon DEF Insert, Entry, None, States, Tables, Requests, Table, Kinds
    <3> HIDE DEF tc
    <3> QED BY <3>1 DEF Outstanding
  <2> HIDE DEF tc, ck
  <2>8. WaiterHasWaker'
    BY <2>2, <2>7, Zenon DEF WaiterHasWaker, Outstanding
  <2> QED BY <1>1, <1>2, <2>2, <2>4, <2>5, <2>6, <2>8, Zenon DEF SeqInv
<1>8. CASE ~Issues(Current, blocked, r)
  <2>1. IsKept(sendPkt(Current, blocked, drainState, r), Current, drainState, r)
    BY <1>6, <1>8, SendRefused, Zenon
  <2>2. PICK ck \in Checks(Current, drainState) :
          sendPkt(Current, blocked, drainState, r) =
             [table |-> Current.table, retryList |-> addToRetryList(Current.retryList, r.port),
              retryPkt |-> Keep(Current.retryPkt, r), check |-> ck]
    BY <2>1 DEF IsKept
  <2>3. p \notin Range(retryList)
    BY <1>1, <1>5, Zenon DEF Waiters
  <2> DEFINE new == Append(retryList, p)
  <2>4. /\ addToRetryList(retryList, p) = new
        /\ new \in Seq(Ports) /\ IsInjective(new) /\ Range(new) = Range(retryList) \cup {p}
    BY <1>1, <2>3, ListAppend, Zenon
  <2> HIDE DEF new, rq
  <2>5. table' = table /\ retryList' = new /\ retryPkt' = rq /\ check' = ck
    <3>1. Current.retryList = retryList /\ Current.retryPkt = retryPkt
      BY CurrentFacts
    <3> QED BY <1>0, <1>2, <1>6, <2>2, <2>4, <3>1 DEF Becomes, rq
  <2>6. CheckRight(table, ck, drainState, panicked)
    <3>1. CheckRight(Current.table, Current.check, drainState, panicked)
      BY <1>1, <1>6, Zenon
    <3>2. CheckRight(Current.table, ck, drainState, panicked)
      BY <1>6, <3>1, CheckRefuse
    <3> QED BY <1>6, <3>2, Zenon
  <2>7. Range(new) = Waiters(rq)
    BY <1>0, <1>1, <1>5, <2>4, Zenon DEF Waiters
  <2>8. WaiterHasWaker'
    <3> SUFFICES ASSUME Outstanding(table) = {}
                 PROVE  \E q \in Ports : rmw'[q] # None /\ rq[q] = None
      BY <2>5, Zenon DEF WaiterHasWaker
    <3>1. l \in blocked /\ t # "Locked_RMW_Write"
      <4>1. TablesRight(Current.table, Current.retryPkt) /\ Outstanding(Current.table) = {}
        BY <1>1, <1>6, CurrentFacts
      <4> QED BY <1>0, <1>6, <1>8, <4>1, RefusedWhy, Zenon
    <3>2. rmw[p] = None
      BY <1>2, <3>1, Zenon DEF MaySend
    <3>3. \E q \in Ports : rmw[q] # None /\ retryPkt[q] = None
      <4>1. PICK q \in Ports : Holds(table, retryPkt, rmw, q, l)
        BY <1>1, <3>1, Zenon DEF LocksRight
      <4>2. rmw[q] # None
        BY <4>1, LockIsOne, Zenon DEF Holds
      <4>3. CASE retryPkt[q] = None
        BY <4>2, <4>3, Zenon
      <4>4. CASE retryPkt[q] # None
        BY <4>4, Zenon DEF SeqInv, WaiterHasWaker
      <4> QED BY <4>3, <4>4, Zenon
    <3>4. PICK q \in Ports : rmw[q] # None /\ retryPkt[q] = None
      BY <3>3, Zenon
    <3>5. q # p
      BY <3>2, <3>4, Zenon
    <3>6. rmw'[q] = rmw[q]
      <4>1. rmw \in [Ports -> {None} \cup [port : Ports, line : Lines]]
        BY <1>1, Zenon DEF LocksRight
      <4> QED BY <1>0, <1>2, <3>5, <4>1 DEF Enters
    <3> QED BY <1>5, <3>4, <3>5, <3>6
  <2>9. TablesRight(table, rq) /\ LocksRight(table, rq, blocked, rmw')
    BY <1>4 DEF rq
  <2> QED BY <1>1, <1>2, <2>4, <2>5, <2>6, <2>7, <2>8, <2>9, Zenon DEF SeqInv
<1> QED BY <1>7, <1>8, Zenon
\* blockOnQueue and unblock as a condition on the request.
LEMMA BlockCases == \A l, type : Block(l, type) = Blocks(blocked, l, type)
<1> SUFFICES ASSUME NEW l, NEW type PROVE Block(l, type) = Blocks(blocked, l, type)
  OBVIOUS
<1>1. CASE type = "Locked_RMW_Read"
  <2>1. type # "Locked_RMW_Write"
    BY <1>1
  <2> QED BY <1>1, <2>1, Zenon DEF Block, Blocks
<1>2. CASE type = "Locked_RMW_Write"
  <2>1. type # "Locked_RMW_Read"
    BY <1>2
  <2> QED BY <1>2, <2>1, Zenon DEF Block, Blocks
<1>3. CASE type # "Locked_RMW_Read" /\ type # "Locked_RMW_Write"
  BY <1>3, Zenon DEF Block, Blocks
<1> QED BY <1>1, <1>2, <1>3

\* After the retries, a client that waits although nothing is outstanding has
\* a client in a locked pair before it, which does not wait itself.
LEMMA ServedWaker ==
    ASSUME NEW t, NEW bl, NEW rm, NEW ds, Served(t, bl, rm, ds), Outstanding(t.table) = {},
           NEW p \in Ports, t.retryPkt[p] # None
    PROVE  \E q \in Ports : rm[q] # None /\ t.retryPkt[q] = None
<1>1. t.retryPkt[p].line \in bl /\ bl \subseteq Lines
  BY Zenon DEF Served, LocksRight
<1>2. PICK q \in Ports : Holds(t.table, t.retryPkt, rm, q, t.retryPkt[p].line)
  BY <1>1, Zenon DEF Served, LocksRight
<1>3. rm[q] # None /\ (t.retryPkt[q] # None => t.retryPkt[q].type # "Locked_RMW_Read")
  BY <1>2, LockIsOne, Zenon DEF Holds, ReadPending
<1>4. t.retryPkt[q] # None => t.retryPkt[q].type \in Locked
  BY <1>3, Zenon DEF Served, LocksRight
<1>5. t.retryPkt[q] # None => t.retryPkt[q].type # "Locked_RMW_Write"
  BY Zenon DEF Served
<1> QED BY <1>3, <1>4, <1>5 DEF Locked

\* A request is answered and the waiting ports retry.
LEMMA SeqCallback ==
    ASSUME SequencerConstants, SeqInv, NEW k \in Kinds, NEW l \in Lines, callback(k, l)
    PROVE  SeqInv'
<1> DEFINE e   == table[k][l]
           bm  == Blocks(blocked, l, e.type)
           rn  == Leaves(rmw, e)
           off == [Current EXCEPT !.table[k][l] = None]
           t   == trySendRetries(off, bm, drainState)
<1>1. /\ TablesRight(table, retryPkt) /\ LocksRight(table, retryPkt, blocked, rmw)
      /\ CheckRight(table, check, drainState, FALSE)
      /\ drainState \in {"Running", "Draining", "Drained"}
      /\ retryList \in Seq(Ports) /\ IsInjective(retryList) /\ Range(retryList) = Waiters(retryPkt)
      /\ retryPkt \in Kept /\ table \in Tables /\ panicked = FALSE
  BY Zenon DEF SeqInv, callback, TablesRight
<1>2. /\ e # None /\ Becomes(t) /\ blocked' = bm /\ rmw' = rn
      /\ drainState' = testDrainComplete(t) /\ panicked' = panicked
  BY BlockCases, Zenon DEF callback, Leaves
<1>3. off = [table |-> Remove(table, k, l), retryList |-> retryList, retryPkt |-> retryPkt, check |-> check]
  BY StateFields DEF Current, Remove
<1> HIDE DEF off
<1>4. /\ off.table = Remove(table, k, l) /\ off.retryList = retryList
      /\ off.retryPkt = retryPkt /\ off.check = check
  BY <1>3
<1>5. TablesRight(off.table, off.retryPkt) /\ CheckRight(off.table, off.check, drainState, FALSE)
  BY <1>1, <1>4, AnswerTables, CheckAnswer, Zenon
<1>6. LocksRight(off.table, off.retryPkt, bm, rn)
  <2>1. LocksRight(Remove(table, k, l), retryPkt, bm, rn)
    BY <1>1, <1>2, AnswerLocks, Zenon
  <2> QED BY <1>4, <2>1
<1>7. off \in States
  <2>1. Remove(table, k, l) \in Tables /\ check \in 0 .. Threshold
    BY <1>1, <1>4, <1>5, Zenon DEF TablesRight, CheckRight
  <2> QED BY <1>1, <1>3, <2>1, Zenon DEF States
<1> HIDE DEF bm, rn
<1>8. Served(t, bm, rn, drainState)
  BY <1>1, <1>4, <1>5, <1>6, <1>7, RetriesRight, Zenon
<1> HIDE DEF t, e
<1>9. table' = t.table /\ retryList' = t.retryList /\ retryPkt' = t.retryPkt /\ check' = t.check
  BY <1>2, Zenon DEF Becomes
<1>10. drainState' \in {"Running", "Draining", "Drained"} /\ (drainState' = drainState \/ drainState' = "Drained")
  BY <1>1, <1>2 DEF testDrainComplete
<1>11. CheckRight(t.table, t.check, drainState', FALSE)
  <2>1. CheckRight(t.table, t.check, drainState, FALSE)
    BY <1>8, Zenon DEF Served
  <2> QED BY <1>10, <2>1, Zenon DEF CheckRight
<1>12. WaiterHasWaker'
  BY <1>2, <1>8, <1>9, ServedWaker, Zenon DEF WaiterHasWaker
<1>13. /\ TablesRight(t.table, t.retryPkt) /\ LocksRight(t.table, t.retryPkt, bm, rn)
       /\ IsInjective(t.retryList) /\ Range(t.retryList) = Waiters(t.retryPkt)
       /\ t.retryList \in Seq(Ports)
  BY <1>8, Zenon DEF Served, States
<1> QED BY <1>1, <1>2, <1>9, <1>10, <1>11, <1>12, <1>13, Zenon DEF SeqInv
\* A cycle passes: every request is a cycle older.
LEMMA SeqTick == ASSUME SequencerConstants, SeqInv, Tick PROVE SeqInv'
<1>1. /\ TablesRight(table, retryPkt) /\ LocksRight(table, retryPkt, blocked, rmw)
      /\ CheckRight(table, check, drainState, FALSE)
      /\ drainState \in {"Running", "Draining", "Drained"}
      /\ retryList \in Seq(Ports) /\ IsInjective(retryList) /\ Range(retryList) = Waiters(retryPkt)
      /\ retryPkt \in Kept /\ table \in Tables /\ panicked = FALSE /\ check \in 0 .. Threshold
      /\ Threshold \in Nat \ {0} /\ WaiterHasWaker
  BY DEF SeqInv, Tick, TablesRight, CheckRight, SequencerConstants
<1>2. table' = [k \in Kinds |-> [l \in Lines |->
                  IF table[k][l] = None THEN None ELSE [table[k][l] EXCEPT !.age = @ + 1]]]
  BY DEF Tick
<1>3. /\ check' = IF check = 1 THEN NextCheck(table') ELSE IF check = 0 THEN 0 ELSE check - 1
      /\ panicked' = (check = 1 /\ TooOld(table'))
      /\ \A k \in Kinds, l \in Lines : table[k][l] # None => table[k][l].age < 2 * Threshold
      /\ UNCHANGED <<retryList, retryPkt, blocked, rmw, drainState>>
  BY <1>2, Zenon DEF Tick
<1>4. \A k \in Kinds, l \in Lines : table[k][l] # None =>
        /\ table[k][l] \in Entries
        /\ [table[k][l] EXCEPT !.age = @ + 1] \in Entries
        /\ [table[k][l] EXCEPT !.age = @ + 1].port = table[k][l].port
        /\ [table[k][l] EXCEPT !.age = @ + 1].type = table[k][l].type
        /\ [table[k][l] EXCEPT !.age = @ + 1].age = table[k][l].age + 1
        /\ [table[k][l] EXCEPT !.age = @ + 1] # None
  <2> SUFFICES ASSUME NEW e \in Entries, e.age < 2 * Threshold
               PROVE  /\ [e EXCEPT !.age = @ + 1] \in Entries
                      /\ [e EXCEPT !.age = @ + 1].port = e.port
                      /\ [e EXCEPT !.age = @ + 1].type = e.type
                      /\ [e EXCEPT !.age = @ + 1].age = e.age + 1
                      /\ [e EXCEPT !.age = @ + 1] # None
    BY <1>1, <1>3 DEF Tables
  <2> QED BY <1>1 DEF Entries, None
<1>5. \A k \in Kinds, l \in Lines :
        /\ table[k][l] = None => table'[k][l] = None
        /\ table[k][l] # None =>
             /\ table'[k][l] # None /\ table'[k][l] \in Entries /\ table[k][l] \in Entries
             /\ table'[k][l].port = table[k][l].port /\ table'[k][l].type = table[k][l].type
             /\ table'[k][l].age = table[k][l].age + 1
  BY <1>2, <1>4, Zenon
<1>6. table' \in Tables
  BY <1>2, <1>4, Zenon DEF Tables
<1>7. Outstanding(table') = Outstanding(table)
  BY <1>5 DEF Outstanding
<1>8. TablesRight(table', retryPkt)
  BY <1>1, <1>5, <1>6, <1>7, Zenon DEF TablesRight, Kinds
<1>9. \A p \in Ports, l \in Lines : Holds(table', retryPkt, rmw, p, l) <=> Holds(table, retryPkt, rmw, p, l)
  BY <1>5, Zenon DEF Holds, ReadPending, Kinds
<1>10. LocksRight(table', retryPkt, blocked, rmw)
  <2>1. \A k \in Kinds, l \in Lines : table'[k][l] # None /\ table'[k][l].type \in Locked =>
          /\ k = "ST" /\ retryPkt[table'[k][l].port] = None
          /\ rmw[table'[k][l].port] = [port |-> table'[k][l].port, line |-> l]
    <3> SUFFICES ASSUME NEW k \in Kinds, NEW l \in Lines, table'[k][l] # None, table'[k][l].type \in Locked
                 PROVE  /\ k = "ST" /\ retryPkt[table'[k][l].port] = None
                        /\ rmw[table'[k][l].port] = [port |-> table'[k][l].port, line |-> l]
      BY Zenon
    <3>1. /\ table[k][l] # None /\ table'[k][l].port = table[k][l].port
          /\ table'[k][l].type = table[k][l].type
      BY <1>5, Zenon
    <3>2. /\ k = "ST" /\ retryPkt[table[k][l].port] = None
          /\ rmw[table[k][l].port] = [port |-> table[k][l].port, line |-> l]
      BY <1>1, <3>1, Zenon DEF LocksRight
    <3> QED BY <3>1, <3>2, Zenon
  <2>2. \A l \in blocked : table'["LD"][l] = None /\
          (table'["ST"][l] # None => table'["ST"][l].type = "Locked_RMW_Write")
    BY <1>1, <1>5, Zenon DEF LocksRight, Kinds
  <2> QED BY <1>1, <1>9, <2>1, <2>2, Zenon DEF LocksRight
<1>11. CheckRight(table', check', drainState, panicked')
  <2>1. CASE check = 1
    <3>1. check' \in 0 .. Threshold /\ (check' = 0 \/ check' = Threshold)
      BY <1>1, <1>3, <2>1, SMTT(30) DEF NextCheck
    <3>2. drainState # "Draining"
      BY <1>1, <2>1, SMTT(30) DEF CheckRight
    <3>3. ASSUME ~panicked', NEW k \in Kinds, NEW l \in Lines, table'[k][l] # None
          PROVE  check' > 0 /\ table'[k][l].age + check' < 2 * Threshold
      <4>1. <<k, l>> \in Outstanding(table')
        BY <3>3, Zenon DEF Outstanding
      <4>2. check' = Threshold
        BY <1>3, <2>1, <4>1, Zenon DEF NextCheck
      <4>3. ~(table'[k][l].age >= Threshold)
        BY <1>3, <2>1, <3>3, <4>1, Zenon DEF TooOld
      <4>4. table'[k][l].age \in Nat
        <5>1. table'[k][l] \in Entries
          BY <1>5, <3>3, Zenon
        <5> QED BY <5>1 DEF Entries
      <4> QED BY <1>1, <4>2, <4>3, <4>4
    <3> QED BY <3>1, <3>2, <3>3, Zenon DEF CheckRight
  <2>2. CASE check # 1
    <3>1. check' = (IF check = 0 THEN 0 ELSE check - 1) /\ check' \in 0 .. Threshold /\ ~panicked'
      <4>1. check' = IF check = 0 THEN 0 ELSE check - 1
        BY <1>3, <2>2, Zenon
      <4>2. ~panicked'
        BY <1>3, <2>2, Zenon
      <4> QED BY <1>1, <4>1, <4>2
    <3>2. drainState = "Draining" => check' = 0
      BY <1>1, <3>1, Zenon DEF CheckRight
    <3>3. ASSUME drainState = "Running", NEW k \in Kinds, NEW l \in Lines, table'[k][l] # None
          PROVE  check' > 0 /\ table'[k][l].age + check' < 2 * Threshold
      <4>1. table[k][l] # None /\ table'[k][l].age = table[k][l].age + 1 /\ table[k][l].age \in Nat
        <5>1. /\ table[k][l] # None /\ table'[k][l].age = table[k][l].age + 1
              /\ table[k][l] \in Entries
          BY <1>5, <3>3, Zenon
        <5> QED BY <5>1 DEF Entries
      <4>2. check > 0 /\ table[k][l].age + check < 2 * Threshold
        BY <1>1, <3>3, <4>1, Zenon DEF CheckRight
      <4>3. check' = check - 1 /\ check \in 0 .. Threshold /\ Threshold \in Nat
        BY <1>1, <3>1, <4>2
      <4> QED BY <2>2, <4>1, <4>2, <4>3
    <3> QED BY <3>1, <3>2, <3>3, Zenon DEF CheckRight
  <2> QED BY <2>1, <2>2, Zenon
<1>12. WaiterHasWaker'
  BY <1>1, <1>3, <1>7, Zenon DEF WaiterHasWaker
<1>13. panicked' \in BOOLEAN
  BY <1>3, Zenon
<1> QED BY <1>1, <1>3, <1>8, <1>10, <1>11, <1>12, <1>13, Zenon DEF SeqInv

\* Drains and the end of one.
LEMMA SeqDrain == ASSUME SequencerConstants, SeqInv, drain PROVE SeqInv'
<1>1. drainState' \in {"Draining", "Drained"} /\ check' = 0
  BY Zenon DEF drain
<1>2. CheckRight(table, check', drainState', panicked)
  BY <1>1 DEF CheckRight, SequencerConstants
<1>3. UNCHANGED <<table, retryList, retryPkt, blocked, rmw, panicked>>
  BY DEF drain
<1> QED BY <1>1, <1>2, <1>3, Zenon DEF SeqInv, WaiterHasWaker

\* The system resumes with nothing outstanding.
LEMMA SeqResume == ASSUME SequencerConstants, SeqInv, resume PROVE SeqInv'
<1>1. /\ drainState' = "Running" /\ check = 0 /\ Outstanding(table) = {}
      /\ UNCHANGED <<table, retryList, retryPkt, blocked, rmw, check, panicked>>
  BY Zenon DEF resume
<1>2. \A k \in Kinds, l \in Lines : table[k][l] = None
  <2> SUFFICES ASSUME NEW k \in Kinds, NEW l \in Lines, table[k][l] # None PROVE FALSE
    BY Zenon
  <2>1. <<k, l>> \in Outstanding(table)
    BY Zenon DEF Outstanding
  <2> QED BY <1>1, <2>1, Zenon
<1>3. CheckRight(table, check, drainState', panicked)
  BY <1>1, <1>2 DEF CheckRight, SequencerConstants
<1> QED BY <1>1, <1>3, Zenon DEF SeqInv, WaiterHasWaker
-----------------------------------------------------------------------------
\* The invariant holds of every behaviour of the sequencer.
LEMMA SeqInvariant == ASSUME SequencerConstants PROVE Spec => []SeqInv
<1>1. Init => SeqInv
  BY SeqInit, Zenon
<1>2. SeqInv /\ [Next]_vars => SeqInv'
  <2> SUFFICES ASSUME SeqInv, [Next]_vars PROVE SeqInv'
    BY Zenon
  <2>1. CASE UNCHANGED vars
    BY <2>1, Zenon DEF vars, SeqInv, WaiterHasWaker
  <2>2. ASSUME NEW p \in Ports, NEW l \in Lines, NEW t \in Types, send(p, l, t) PROVE SeqInv'
    BY <2>2, SeqSend, Zenon
  <2>3. ASSUME NEW k \in Kinds, NEW l \in Lines, callback(k, l) PROVE SeqInv'
    BY <2>3, SeqCallback, Zenon
  <2>4. CASE Tick
    BY <2>4, SeqTick, Zenon
  <2>5. CASE drain
    BY <2>5, SeqDrain, Zenon
  <2>6. CASE resume
    BY <2>6, SeqResume, Zenon
  <2> QED BY <2>1, <2>2, <2>3, <2>4, <2>5, <2>6, Zenon DEF Next, Serve
<1> QED BY <1>1, <1>2, PTL DEF Spec

\* Between the read and the write of a locked pair no other request reaches
\* the line, and a line has one request at a time: insertRequest.
THEOREM LocksAreAtomic == ASSUME SequencerConstants PROVE Spec => []LockedPairAtomic
<1>1. SeqInv => LockedPairAtomic
  <2> SUFFICES ASSUME SeqInv, NEW l \in Lines
               PROVE  /\ table["LD"][l] = None \/ table["ST"][l] = None
                      /\ l \in blocked =>
                           /\ \E p \in Ports : rmw[p] = [port |-> p, line |-> l]
                           /\ table["LD"][l] = None
                           /\ table["ST"][l] # None =>
                                /\ table["ST"][l].type = "Locked_RMW_Write"
                                /\ rmw[table["ST"][l].port] = [port |-> table["ST"][l].port, line |-> l]
    BY Zenon DEF LockedPairAtomic
  <2>1. table["LD"][l] = None \/ table["ST"][l] = None
    BY Zenon DEF SeqInv, TablesRight
  <2>2. LocksRight(table, retryPkt, blocked, rmw) /\ "ST" \in Kinds
    BY SMTT(30) DEF SeqInv, Kinds
  <2>3. l \in blocked => \E p \in Ports : rmw[p] = [port |-> p, line |-> l]
    BY <2>2, Zenon DEF LocksRight, Holds
  <2>4. l \in blocked => table["LD"][l] = None /\
          (table["ST"][l] # None => table["ST"][l].type = "Locked_RMW_Write")
    BY <2>2, Zenon DEF LocksRight
  <2>5. table["ST"][l] # None /\ table["ST"][l].type = "Locked_RMW_Write" =>
          rmw[table["ST"][l].port] = [port |-> table["ST"][l].port, line |-> l]
    BY <2>2, Zenon DEF LocksRight, Locked
  <2> QED BY <2>1, <2>3, <2>4, <2>5, Zenon
<1> QED BY <1>1, SeqInvariant, PTL

\* Every refused port is on the retry list once, the sequencer takes no more
\* requests than it may, and whoever waits has something to wait for:
\* addToRetryList and trySendRetries.
THEOREM RetriesAreRight == ASSUME SequencerConstants PROVE Spec => []RetryListRight
<1>1. SeqInv => RetryListRight
  BY Zenon DEF SeqInv, RetryListRight, TypeOK, TablesRight, LocksRight, CheckRight, Waiters, Tables, Kept
<1> QED BY <1>1, SeqInvariant, PTL

\* The deadlock check runs while requests are outstanding and never during a
\* drain: insertRequest, wakeup and drain.
THEOREM ChecksAreRight == ASSUME SequencerConstants PROVE Spec => []CheckFollowsDrains
<1>1. SeqInv => CheckFollowsDrains
  BY Zenon DEF SeqInv, CheckFollowsDrains, NoCheckWhileDraining, StuckIsDetected, CheckRight
<1> QED BY <1>1, SeqInvariant, PTL
=============================================================================
