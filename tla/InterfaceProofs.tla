-------------------------- MODULE InterfaceProofs ---------------------------
(***************************************************************************)
(* What the network interface promises to both sides.  Sent flits: a       *)
(* destination of a message is in its flit or still in the message, and    *)
(* older flits of an ordered vnet have smaller times.  Marked flits: those *)
(* in the network are the difference of the two counters, and nothing is   *)
(* injected or received after the end.  Received flits: those that have    *)
(* landed and were not handed over are the stalled ones, in the order of   *)
(* their vnet, so that the first one with room is the next one.            *)
(***************************************************************************)
EXTENDS NetworkInterface, MarkedFlits, FiniteSetTheorems, WellFoundedInduction, TLAPS

\* Every set of numbers has a least one.
LEMMA LeastNumber ==
    ASSUME NEW S, S \subseteq Nat, S # {}
    PROVE  \E m \in S : \A k \in S : m <= k
<1>1. IsWellFoundedOn(OpToRel(<, Nat), Nat)
  BY NatLessThanWellFounded, Zenon
<1>2. PICK m \in S : \A k \in S : ~(<<k, m>> \in OpToRel(<, Nat))
  BY <1>1, WFMin, Zenon
<1>3. \A k \in S : ~(k < m)
  BY <1>2, Zenon DEF OpToRel
<1> QED BY <1>3

\* Multiplication keeps the order.
LEMMA TimesMonotone ==
    ASSUME NEW a \in Nat, NEW b \in Nat, NEW c \in Nat, a <= b
    PROVE  a * c <= b * c /\ a * c \in Nat /\ b * c \in Nat
<1>1. (b - a) * c >= 0 /\ b - a \in Nat
  OBVIOUS
<1>2. b * c = a * c + (b - a) * c
  OBVIOUS
<1> QED
  BY <1>1, <1>2

\* The next multiple.
LEMMA TimesNext ==
    ASSUME NEW a \in Nat, NEW c \in Nat
    PROVE  (a + 1) * c = a * c + c
  OBVIOUS

\* Every VC has its vnet, which get_vnet finds.
LEMMA VnetOfVc ==
    /\ \A v \in Vnets : VcsOf(v) \subseteq VCs /\ VcsOf(v) \subseteq Nat
    /\ \A v \in Vnets : \A vc \in VcsOf(v) : get_vnet(vc) = v
    /\ \A vc \in VCs : get_vnet(vc) \in Vnets /\ vc \in VcsOf(get_vnet(vc))
<1>0. NumVnets \in Nat \ {0} /\ VcsPerVnet \in Nat \ {0}
  BY InterfaceAssumption
<1>1. ASSUME NEW v \in Vnets
      PROVE  /\ v \in Nat /\ v + 1 <= NumVnets /\ v * VcsPerVnet \in Nat
             /\ v * VcsPerVnet + VcsPerVnet <= NumVnets * VcsPerVnet
             /\ NumVnets * VcsPerVnet \in Nat
  <2>1. v \in Nat /\ v + 1 \in Nat /\ v + 1 <= NumVnets /\ NumVnets \in Nat /\ VcsPerVnet \in Nat
    BY <1>0 DEF Vnets
  <2>2. (v + 1) * VcsPerVnet <= NumVnets * VcsPerVnet /\ NumVnets * VcsPerVnet \in Nat
    BY ONLY <2>1, TimesMonotone
  <2>3. (v + 1) * VcsPerVnet = v * VcsPerVnet + VcsPerVnet /\ v * VcsPerVnet \in Nat
    BY ONLY <2>1, TimesNext, TimesMonotone
  <2> QED
    BY ONLY <2>1, <2>2, <2>3
<1>2. ASSUME NEW v \in Vnets
      PROVE  VcsOf(v) \subseteq VCs /\ VcsOf(v) \subseteq Nat
  <2> DEFINE lo == v * VcsPerVnet
             hi == NumVnets * VcsPerVnet
  <2>1. VcsOf(v) = lo .. (lo + VcsPerVnet - 1) /\ VCs = 0 .. (hi - 1)
    BY DEF VcsOf, VCs
  <2>2. lo \in Nat /\ hi \in Nat /\ lo + VcsPerVnet <= hi
    BY <1>1
  <2> HIDE DEF lo, hi
  <2> QED
    BY ONLY <1>0, <2>1, <2>2
<1>3. ASSUME NEW v \in Vnets, NEW w \in Vnets, NEW vc \in VcsOf(v), vc \in VcsOf(w), v < w
      PROVE  FALSE
  <2>1. v \in Nat /\ v + 1 \in Nat /\ w \in Nat /\ v + 1 <= w /\ VcsPerVnet \in Nat
    BY <1>0, <1>1, <1>3
  <2>2. (v + 1) * VcsPerVnet <= w * VcsPerVnet /\ w * VcsPerVnet \in Nat
    BY ONLY <2>1, TimesMonotone
  <2>3. (v + 1) * VcsPerVnet = v * VcsPerVnet + VcsPerVnet /\ v * VcsPerVnet \in Nat
    BY ONLY <2>1, TimesNext, TimesMonotone
  <2> DEFINE lo == v * VcsPerVnet
             up == w * VcsPerVnet
  <2>4. lo \in Nat /\ up \in Nat /\ lo + VcsPerVnet <= up
    BY ONLY <2>2, <2>3
  <2>5. vc \in lo .. (lo + VcsPerVnet - 1) /\ vc \in up .. (up + VcsPerVnet - 1)
    BY <1>3 DEF VcsOf
  <2> HIDE DEF lo, up
  <2> QED
    BY ONLY <2>1, <2>4, <2>5
<1>4. ASSUME NEW v \in Vnets, NEW vc \in VcsOf(v)
      PROVE  get_vnet(vc) = v
  <2>1. \A w \in Vnets : vc \in VcsOf(w) => w = v
    <3> SUFFICES ASSUME NEW w \in Vnets, vc \in VcsOf(w)
                 PROVE  w = v
      OBVIOUS
    <3>1. ~(v < w) /\ ~(w < v)
      BY <1>3
    <3> QED
      BY <3>1 DEF Vnets
  <2> QED
    BY <2>1, Zenon DEF get_vnet
<1>5. ASSUME NEW vc \in VCs
      PROVE  \E v \in Vnets : vc \in VcsOf(v)
  <2> DEFINE S == {v \in Nat : vc < v * VcsPerVnet + VcsPerVnet}
             top == NumVnets - 1
  <2>1. top \in Vnets /\ top \in Nat
    BY <1>0 DEF Vnets
  <2>2. vc \in Nat /\ vc < NumVnets * VcsPerVnet
    BY <1>0, <1>1, <2>1 DEF VCs
  <2>3. top \in S
    <3>1. (top + 1) * VcsPerVnet = top * VcsPerVnet + VcsPerVnet
      BY <1>0, <2>1, TimesNext
    <3>2. top + 1 = NumVnets
      BY <1>0
    <3> QED
      BY <2>1, <2>2, <3>1, <3>2
  <2>4. PICK m \in S : \A k \in S : m <= k
    <3>1. S \subseteq Nat /\ S # {}
      BY <2>3
    <3> HIDE DEF S
    <3> QED
      BY <3>1, LeastNumber, Zenon
  <2>5. m \in Nat /\ m <= top /\ vc < m * VcsPerVnet + VcsPerVnet
    BY <2>3, <2>4
  <2>6. m \in Vnets
    BY <1>0, <2>5 DEF Vnets
  <2>7. m * VcsPerVnet <= vc
    <3>1. CASE m = 0
      BY <3>1, <2>2, <1>0
    <3>2. CASE m # 0
      <4>1. m - 1 \in Nat /\ ~(m <= m - 1)
        BY <3>2, <2>5
      <4>2. m - 1 \notin S
        BY <4>1, <2>4
      <4>3. ~(vc < (m - 1) * VcsPerVnet + VcsPerVnet)
        BY <4>1, <4>2
      <4>4. ((m - 1) + 1) * VcsPerVnet = (m - 1) * VcsPerVnet + VcsPerVnet
        BY ONLY <4>1, <1>0, TimesNext
      <4>5. (m - 1) + 1 = m
        BY <2>5
      <4>6. m * VcsPerVnet = (m - 1) * VcsPerVnet + VcsPerVnet
        BY <4>4, <4>5
      <4>7. m * VcsPerVnet \in Nat
        BY <1>1, <2>6
      <4> QED
        BY <4>3, <4>6, <4>7, <2>2
    <3> QED
      BY <3>1, <3>2
  <2>8. vc \in VcsOf(m)
    <3> DEFINE lo == m * VcsPerVnet
    <3>1. lo \in Nat /\ lo <= vc /\ vc < lo + VcsPerVnet /\ VcsOf(m) = lo .. (lo + VcsPerVnet - 1)
      BY <1>1, <2>5, <2>6, <2>7 DEF VcsOf
    <3> HIDE DEF lo
    <3> QED
      BY ONLY <1>0, <2>2, <3>1
  <2> QED
    BY <2>6, <2>8
<1> QED
  BY <1>2, <1>4, <1>5

\* How many elements of S come before x in the order of their keys.
Rank(S, key, x) == Cardinality({u \in S : key[u] < key[x]})

\* The keys are numbers, and no two elements have the same.
IsKey(S, key) ==
    /\ key \in [S -> Int]
    /\ \A x, y \in S : key[x] = key[y] => x = y

\* Different elements of a finite set have different ranks.
LEMMA RankInjective ==
    ASSUME NEW S, IsFiniteSet(S), NEW key, IsKey(S, key),
           NEW x \in S, NEW y \in S, Rank(S, key, x) = Rank(S, key, y)
    PROVE  x = y
<1>1. ASSUME NEW a \in S, NEW b \in S, key[a] < key[b], Rank(S, key, a) = Rank(S, key, b)
      PROVE  FALSE
  <2> DEFINE A == {u \in S : key[u] < key[a]}
             B == {u \in S : key[u] < key[b]}
  <2>1. A \subseteq B /\ a \in B /\ a \notin A /\ B \subseteq S
    BY <1>1 DEF IsKey
  <2>2. Cardinality(A) = Cardinality(B)
    BY <1>1 DEF Rank
  <2> HIDE DEF A, B
  <2>3. IsFiniteSet(B)
    BY <2>1, FS_Subset
  <2>4. A = B
    BY <2>1, <2>2, <2>3, FS_Subset
  <2> QED
    BY <2>1, <2>4
<1>2. ~(key[x] < key[y]) /\ ~(key[y] < key[x])
  BY <1>1
<1> QED
  BY <1>2 DEF IsKey

-----------------------------------------------------------------------------
\* The messages of a vnet that have a flit for every destination.
Done(node, que, v) == que[v] - Len(node[v])

\* The messages in the protocol buffers are the last ones that were queued, in
\* order; only the first of a vnet has lost destinations.
MessagesRight(node, que) ==
    /\ node \in [Vnets -> Seq(Nat \X SUBSET Nat)]
    /\ que \in [Vnets -> Nat]
    /\ \A v \in Vnets : Len(node[v]) <= que[v] /\ que[v] <= Len(Dests[v])
    /\ \A v \in Vnets : \A k \in 1 .. Len(node[v]) :
          /\ node[v][k][1] = Done(node, que, v) + k
          /\ node[v][k][2] \subseteq Dests[v][Done(node, que, v) + k]
          /\ k > 1 => node[v][k][2] = Dests[v][Done(node, que, v) + k]

\* Destination d of message i still waits for its flit.
IsLeft(node, que, v, i, d) ==
    /\ i > Done(node, que, v)
    /\ d \in node[v][i - Done(node, que, v)][2]

\* Flit f was sent or waits in a VC.
IsMade(out, snt, f) ==
    \/ \E j \in DOMAIN snt : snt[j] = f
    \/ \E vc \in VCs : f \in out[vc]

\* Flit f is for a destination of a message that was queued.
IsDue(que, f) ==
    /\ f \in Vnets \X Nat \X Nat
    /\ f[2] \in 1 .. que[f[1]]
    /\ f[3] \in Dests[f[1]][f[2]]

\* A destination has its flit or is left in the message.
FlitsRight(node, que, out, snt) ==
    /\ \A j \in DOMAIN snt : IsDue(que, snt[j])
    /\ \A vc \in VCs : \A f \in out[vc] : IsDue(que, f)
    /\ \A v \in Vnets : \A i \in 1 .. que[v] : \A d \in Dests[v][i] :
          IsMade(out, snt, <<v, i, d>>) <=> ~IsLeft(node, que, v, i, d)

\* A flit is in one place, and alone there.
Unique(out, snt) ==
    /\ \A vc \in VCs : \A f, g \in out[vc] : f = g
    /\ \A vc \in VCs : \A f \in out[vc] : vc \in VcsOf(f[1])
    /\ \A vc, u \in VCs : \A f \in out[vc] : f \in out[u] => vc = u
    /\ \A vc \in VCs : \A f \in out[vc] : \A j \in DOMAIN snt : snt[j] # f
    /\ \A i, j \in DOMAIN snt : snt[i] = snt[j] => i = j

\* The flits of older messages have smaller times, and what was sent is older
\* than what waits in the same ordered vnet.
Ages(out, time, snt) ==
    /\ \A vc, u \in VCs : \A f \in out[vc], g \in out[u] :
          f[1] = g[1] /\ f[2] < g[2] => time[vc] < time[u]
    /\ \A j \in DOMAIN snt : \A vc \in VCs : \A f \in out[vc] :
          f[1] = snt[j][1] /\ f[1] \in Ordered => snt[j][2] <= f[2]
    /\ \A j \in DOMAIN snt : \A i \in 1 .. j :
          snt[i][1] = snt[j][1] /\ snt[i][1] \in Ordered => snt[i][2] <= snt[j][2]

\* The VCs in which a flit waits, and the clock the times are taken from.
Waiting(out)    == {vc \in VCs : out[vc] # {}}
Passed(out, snt) == Len(snt) + Cardinality(Waiting(out))

\* The times of waiting flits have passed.
Clocked(out, time, snt) ==
    /\ time \in [VCs -> Nat]
    /\ \A vc \in Waiting(out) : time[vc] < Passed(out, snt)

\* What flitisizeMessage and scheduleOutputLink each keep.
SendRight(node, que, out, time, snt) ==
    /\ MessagesRight(node, que)
    /\ out \in [VCs -> SUBSET (Vnets \X Nat \X Nat)]
    /\ snt \in Seq(Vnets \X Nat \X Nat)
    /\ FlitsRight(node, que, out, snt)
    /\ Unique(out, snt)
    /\ Ages(out, time, snt)
    /\ Clocked(out, time, snt)

\* An idle VC is empty; a VC without a credit is empty and not idle, and only
\* then its credit may be on its way.
VcsRight ==
    /\ vc_allocator \in [Vnets -> 0 .. (VcsPerVnet - 1)]
    /\ out_vc_state \in [VCs -> {"IDLE_", "ACTIVE_"}]
    /\ credits \in [VCs -> {0, 1}]
    /\ \A vc \in VCs : out_vc_state[vc] = "IDLE_" => ni_out_vcs[vc] = {}
    /\ \A vc \in VCs : credits[vc] = 0 => ni_out_vcs[vc] = {} /\ out_vc_state[vc] = "ACTIVE_"
    /\ \A vc \in VCs : in_credit = <<vc>> => credits[vc] = 0

SendInv ==
    /\ SendRight(in_node, queued, ni_out_vcs, enqueue_time, sent)
    /\ VcsRight

\* calculateVC looks at the VCs of a vnet one after the other.
LEMMA TurnInjective ==
    ASSUME VcsRight, NEW v \in Vnets
    PROVE  /\ \A a \in VcsOf(v) : Turn(v, a) \in Int
           /\ \A a, b \in VcsOf(v) : Turn(v, a) = Turn(v, b) => a = b
<1> DEFINE lo == v * VcsPerVnet
           first == vc_allocator[v]
<1>1. lo \in Nat /\ VcsPerVnet \in Nat
  <2>1. v \in Nat /\ VcsPerVnet \in Nat
    BY InterfaceAssumption DEF Vnets
  <2> QED
    BY ONLY <2>1, TimesMonotone
<1>2. first \in Nat /\ first < VcsPerVnet
  BY <1>1 DEF VcsRight
<1>3. VcsOf(v) = lo .. (lo + VcsPerVnet - 1)
  BY DEF VcsOf
<1>4. \A a : Turn(v, a) = IF a - lo >= first THEN a - lo - first ELSE a - lo - first + VcsPerVnet
  BY Zenon DEF Turn
<1> HIDE DEF lo, first
<1>5. ASSUME NEW a \in VcsOf(v)
      PROVE  /\ a \in Int /\ lo <= a /\ a < lo + VcsPerVnet
             /\ Turn(v, a) = IF a - lo >= first THEN a - lo - first ELSE a - lo - first + VcsPerVnet
  <2>1. a \in lo .. (lo + VcsPerVnet - 1)
    BY <1>3, <1>5, Zenon
  <2>2. a \in Int /\ lo <= a /\ a < lo + VcsPerVnet
    BY ONLY <1>1, <2>1
  <2> QED
    BY <1>4, <2>2, Zenon
<1>6. ASSUME NEW a \in VcsOf(v)
      PROVE  Turn(v, a) \in Int
  BY ONLY <1>1, <1>2, <1>5, <1>6
<1>7. ASSUME NEW a \in VcsOf(v), NEW b \in VcsOf(v), Turn(v, a) = Turn(v, b)
      PROVE  a = b
  <2> DEFINE s == Turn(v, a)
             t == Turn(v, b)
  <2>1. /\ a \in Int /\ lo <= a /\ a < lo + VcsPerVnet
        /\ s = IF a - lo >= first THEN a - lo - first ELSE a - lo - first + VcsPerVnet
    BY ONLY <1>5, <1>7
  <2>2. /\ b \in Int /\ lo <= b /\ b < lo + VcsPerVnet
        /\ t = IF b - lo >= first THEN b - lo - first ELSE b - lo - first + VcsPerVnet
    BY ONLY <1>5, <1>7
  <2>3. s = t
    BY <1>7, Zenon
  <2> HIDE DEF s, t
  <2> QED
    BY ONLY <1>1, <1>2, <2>1, <2>2, <2>3
<1> QED
  BY <1>6, <1>7, Zenon

\* Flitisized pairs idle VCs of the vnet with destinations of the message at
\* the head, one to one.
LEMMA FlitisizedFacts ==
    ASSUME SendInv, NEW v \in Vnets
    PROVE  /\ \A p \in Flitisized(v) :
                 /\ in_node[v] # <<>>
                 /\ p = <<p[1], p[2]>>
                 /\ p[1] \in VcsOf(v)
                 /\ out_vc_state[p[1]] = "IDLE_"
                 /\ p[2] \in Head(in_node[v])[2]
           /\ \A p, q \in Flitisized(v) : p[1] = q[1] \/ p[2] = q[2] => p = q
<1> DEFINE C == calculateVC(v)
           D == Head(in_node[v])[2]
           turn == [u \in C |-> Turn(v, u)]
           number == [d \in D |-> d]
<1>1. CASE in_node[v] = <<>>
  BY <1>1 DEF Flitisized
<1>2. CASE in_node[v] # <<>>
  <2>1. Flitisized(v) = {p \in C \X D : Cardinality({u \in C : Turn(v, u) < Turn(v, p[1])})
                                            = Cardinality({d \in D : d < p[2]})}
    BY <1>2, Zenon DEF Flitisized
  <2>2. C \subseteq VcsOf(v) /\ \A u \in C : out_vc_state[u] = "IDLE_"
    BY DEF calculateVC
  <2>3. IsFiniteSet(C)
    <3>1. v * VcsPerVnet \in Int /\ VcsPerVnet \in Int
      BY InterfaceAssumption DEF Vnets
    <3>2. IsFiniteSet(VcsOf(v))
      BY <3>1, FS_Interval DEF VcsOf
    <3> QED
      BY <2>2, <3>2, FS_Subset
  <2>4. /\ in_node[v] \in Seq(Nat \X SUBSET Nat) /\ 1 \in 1 .. Len(in_node[v])
        /\ in_node[v][1] = Head(in_node[v])
    BY <1>2 DEF SendInv, SendRight, MessagesRight
  <2>5. D \subseteq Nat /\ D \subseteq Dests[v][Done(in_node, queued, v) + 1]
    BY <2>4 DEF SendInv, SendRight, MessagesRight
  <2>6. IsFiniteSet(D)
    <3>1. Done(in_node, queued, v) + 1 \in DOMAIN Dests[v]
      <4>1. /\ queued[v] \in Nat /\ Len(in_node[v]) <= queued[v] /\ queued[v] <= Len(Dests[v])
            /\ Len(in_node[v]) \in Nat /\ Len(in_node[v]) >= 1
        BY <2>4 DEF SendInv, SendRight, MessagesRight
      <4>2. Dests[v] \in Seq(SUBSET Nat)
        BY InterfaceAssumption
      <4>3. Done(in_node, queued, v) + 1 \in 1 .. Len(Dests[v])
        BY <4>1, <4>2 DEF Done
      <4> QED
        BY <4>2, <4>3
    <3>2. IsFiniteSet(Dests[v][Done(in_node, queued, v) + 1])
      BY <3>1, InterfaceAssumption, Zenon
    <3> QED
      BY <2>5, <3>2, FS_Subset
  <2>7. IsKey(C, turn)
    <3>1. /\ \A a \in C : Turn(v, a) \in Int
          /\ \A a, b \in C : Turn(v, a) = Turn(v, b) => a = b
      BY <2>2, TurnInjective, Zenon DEF SendInv
    <3> QED
      BY <3>1, Zenon DEF IsKey
  <2>8. IsKey(D, number)
    BY <2>5 DEF IsKey
  <2>9. ASSUME NEW p \in Flitisized(v)
        PROVE  p = <<p[1], p[2]>> /\ p[1] \in C /\ p[2] \in D /\ Rank(C, turn, p[1]) = Rank(D, number, p[2])
    <3>1. p = <<p[1], p[2]>> /\ p[1] \in C /\ p[2] \in D
      BY <2>1
    <3>2. Cardinality({u \in C : Turn(v, u) < Turn(v, p[1])}) = Cardinality({d \in D : d < p[2]})
      BY <2>1
    <3>3. {u \in C : turn[u] < turn[p[1]]} = {u \in C : Turn(v, u) < Turn(v, p[1])}
      BY <3>1
    <3>4. {d \in D : number[d] < number[p[2]]} = {d \in D : d < p[2]}
      BY <3>1
    <3> QED
      BY <3>1, <3>2, <3>3, <3>4, Zenon DEF Rank
  <2> HIDE DEF C, D, turn, number
  <2>10. ASSUME NEW p \in Flitisized(v), NEW q \in Flitisized(v), p[1] = q[1] \/ p[2] = q[2]
         PROVE  p = q
    <3>1. CASE p[1] = q[1]
      <4>1. Rank(D, number, p[2]) = Rank(D, number, q[2])
        BY <2>9, <3>1, Zenon
      <4>2. p[2] = q[2]
        BY <4>1, <2>6, <2>8, <2>9, RankInjective
      <4> QED
        BY <4>2, <3>1, <2>9
    <3>2. CASE p[2] = q[2]
      <4>1. Rank(C, turn, p[1]) = Rank(C, turn, q[1])
        BY <2>9, <3>2
      <4>2. p[1] = q[1]
        BY <4>1, <2>3, <2>7, <2>9, RankInjective, Zenon
      <4> QED
        BY <4>2, <3>2, <2>9
    <3> QED
      BY <2>10, <3>1, <3>2
  <2> QED
    BY <1>2, <2>2, <2>9, <2>10 DEF D
<1> QED
  BY <1>1, <1>2

\* VC vc gets the flit for destination d of the message at the head of vnet v.
IsNew(v, vc, d) == <<vc, d>> \in Flitisized(v)

\* The number of the message at the head.
HeadNo(v) == Done(in_node, queued, v) + 1

\* The head of a protocol buffer.
LEMMA HeadFacts ==
    ASSUME SendInv, NEW v \in Vnets, in_node[v] # <<>>
    PROVE  /\ in_node[v] \in Seq(Nat \X SUBSET Nat)
           /\ Len(in_node[v]) \in Nat \ {0} /\ queued[v] \in Nat
           /\ Head(in_node[v]) = in_node[v][1]
           /\ in_node[v][1] \in Nat \X SUBSET Nat
           /\ HeadNo(v) \in 1 .. queued[v] /\ HeadNo(v) \in 1 .. Len(Dests[v])
           /\ in_node[v][1][1] = HeadNo(v)
           /\ in_node[v][1][2] \subseteq Dests[v][HeadNo(v)]
<1>1. MessagesRight(in_node, queued)
  BY DEF SendInv, SendRight
<1>2. /\ in_node[v] \in Seq(Nat \X SUBSET Nat) /\ queued[v] \in Nat
      /\ Len(in_node[v]) <= queued[v] /\ queued[v] <= Len(Dests[v])
      /\ \A k \in 1 .. Len(in_node[v]) :
            /\ in_node[v][k][1] = Done(in_node, queued, v) + k
            /\ in_node[v][k][2] \subseteq Dests[v][Done(in_node, queued, v) + k]
  BY <1>1, Zenon DEF MessagesRight
<1>3. /\ Len(in_node[v]) \in Nat \ {0} /\ Head(in_node[v]) = in_node[v][1]
      /\ in_node[v][1] \in Nat \X SUBSET Nat
  BY <1>2
<1>4. 1 \in 1 .. Len(in_node[v])
  BY <1>3
<1>5. Dests[v] \in Seq(SUBSET Nat)
  BY InterfaceAssumption
<1>6. HeadNo(v) \in 1 .. queued[v] /\ HeadNo(v) \in 1 .. Len(Dests[v])
  BY <1>2, <1>3, <1>5 DEF HeadNo, Done
<1>7. in_node[v][1][1] = HeadNo(v) /\ in_node[v][1][2] \subseteq Dests[v][HeadNo(v)]
  BY <1>2, <1>4, Zenon DEF HeadNo
<1> QED
  BY <1>2, <1>3, <1>6, <1>7, Zenon

\* What is known of a new flit.
LEMMA NewFacts ==
    ASSUME SendInv, NEW v \in Vnets
    PROVE  /\ \A vc, d : IsNew(v, vc, d) => /\ in_node[v] # <<>>
                                            /\ vc \in VcsOf(v) /\ vc \in VCs
                                            /\ out_vc_state[vc] = "IDLE_"
                                            /\ ni_out_vcs[vc] = {}
                                            /\ d \in in_node[v][1][2]
                                            /\ d \in Dests[v][HeadNo(v)]
                                            /\ HeadNo(v) \in 1 .. queued[v]
                                            /\ d \in Nat
           /\ \A vc, d, e : IsNew(v, vc, d) /\ IsNew(v, vc, e) => d = e
           /\ \A vc, u, d : IsNew(v, vc, d) /\ IsNew(v, u, d) => vc = u
<1>1. ASSUME NEW vc, NEW d, IsNew(v, vc, d)
      PROVE  /\ in_node[v] # <<>>
             /\ vc \in VcsOf(v) /\ vc \in VCs
             /\ out_vc_state[vc] = "IDLE_"
             /\ ni_out_vcs[vc] = {}
             /\ d \in in_node[v][1][2]
             /\ d \in Dests[v][HeadNo(v)]
             /\ HeadNo(v) \in 1 .. queued[v]
             /\ d \in Nat
  <2>1. /\ in_node[v] # <<>> /\ vc \in VcsOf(v) /\ out_vc_state[vc] = "IDLE_"
        /\ d \in Head(in_node[v])[2]
    BY <1>1, FlitisizedFacts DEF IsNew
  <2>2. vc \in VCs
    BY <2>1, VnetOfVc, Zenon
  <2>3. ni_out_vcs[vc] = {}
    BY <2>1, <2>2, Zenon DEF SendInv, VcsRight
  <2>4. /\ d \in in_node[v][1][2] /\ d \in Dests[v][HeadNo(v)] /\ d \in Nat
        /\ HeadNo(v) \in 1 .. queued[v]
    <3>1. /\ Head(in_node[v]) = in_node[v][1] /\ in_node[v][1] \in Nat \X SUBSET Nat
          /\ in_node[v][1][2] \subseteq Dests[v][HeadNo(v)]
          /\ HeadNo(v) \in 1 .. queued[v]
      BY <2>1, HeadFacts, Zenon
    <3> QED
      BY <2>1, <3>1
  <2> QED
    BY <2>1, <2>2, <2>3, <2>4, Zenon
<1>2. ASSUME NEW vc, NEW u, NEW d, NEW e, IsNew(v, vc, d), IsNew(v, u, e), vc = u \/ d = e
      PROVE  vc = u /\ d = e
  <2>1. <<vc, d>> = <<u, e>>
    BY <1>2, FlitisizedFacts, Zenon DEF IsNew
  <2> QED
    BY <2>1
<1> QED
  BY <1>1, <1>2, Zenon

\* The flits of a VC after flitisizeMessage.
LEMMA FlitsFacts ==
    ASSUME SendInv, NEW v \in Vnets, NEW vc \in VcsOf(v)
    PROVE  /\ \A f : f \in Flits(vc) <=> \/ f \in ni_out_vcs[vc]
                                         \/ \E d : IsNew(v, vc, d) /\ f = <<v, HeadNo(v), d>>
           /\ Made(vc) <=> \E d : IsNew(v, vc, d)
<1>1. get_vnet(vc) = v
  BY VnetOfVc
<1>2. \A p \in Flitisized(v) : p = <<p[1], p[2]>> /\ in_node[v] # <<>>
  BY FlitisizedFacts
<1>3. Made(vc) <=> \E d : IsNew(v, vc, d)
  BY <1>1, <1>2, Zenon DEF Made, IsNew
<1>4. ASSUME NEW p \in Flitisized(v)
      PROVE  Head(in_node[v])[1] = HeadNo(v)
  BY <1>2, HeadFacts, Zenon
<1>5. Flits(vc) = ni_out_vcs[vc] \cup {<<v, Head(in_node[v])[1], p[2]>> :
                                           p \in {q \in Flitisized(v) : q[1] = vc}}
  BY <1>1, Zenon DEF Flits
<1>6. ASSUME NEW f
      PROVE  f \in Flits(vc) <=> \/ f \in ni_out_vcs[vc]
                                 \/ \E d : IsNew(v, vc, d) /\ f = <<v, HeadNo(v), d>>
  <2>1. f \in Flits(vc) <=> \/ f \in ni_out_vcs[vc]
                            \/ \E p \in Flitisized(v) : p[1] = vc /\ f = <<v, HeadNo(v), p[2]>>
    BY <1>4, <1>5, Zenon
  <2>2. (\E p \in Flitisized(v) : p[1] = vc /\ f = <<v, HeadNo(v), p[2]>>)
            <=> \E d : IsNew(v, vc, d) /\ f = <<v, HeadNo(v), d>>
    BY <1>2, Zenon DEF IsNew
  <2> QED
    BY <2>1, <2>2
<1> QED
  BY <1>3, <1>6

\* What is left of the messages of a vnet: the message at the head is gone, or
\* it lost the destinations that have a flit now.
LEMMA RemainingFacts ==
    ASSUME SendInv, NEW v \in Vnets
    PROVE  /\ Remaining(v) \in Seq(Nat \X SUBSET Nat)
           /\ \/ /\ in_node[v] = <<>> /\ Remaining(v) = <<>>
                 /\ \A vc, d : ~IsNew(v, vc, d)
              \/ /\ in_node[v] # <<>>
                 /\ Len(Remaining(v)) = Len(in_node[v]) - 1
                 /\ \A k \in 1 .. Len(Remaining(v)) : Remaining(v)[k] = in_node[v][k + 1]
                 /\ \A d \in in_node[v][1][2] : \E vc : IsNew(v, vc, d)
              \/ /\ in_node[v] # <<>>
                 /\ Len(Remaining(v)) = Len(in_node[v])
                 /\ \A k \in 2 .. Len(in_node[v]) : Remaining(v)[k] = in_node[v][k]
                 /\ Remaining(v)[1][1] = in_node[v][1][1]
                 /\ Remaining(v)[1][2] \subseteq in_node[v][1][2]
                 /\ \A d \in in_node[v][1][2] :
                       d \in Remaining(v)[1][2] <=> ~\E vc : IsNew(v, vc, d)
<1> DEFINE left == Head(in_node[v])[2] \ {p[2] : p \in Flitisized(v)}
<1>1. CASE in_node[v] = <<>>
  <2>1. Remaining(v) = <<>>
    BY <1>1 DEF Remaining
  <2>2. \A vc, d : ~IsNew(v, vc, d)
    BY <1>1, NewFacts
  <2> QED
    BY <1>1, <2>1, <2>2
<1>2. ASSUME in_node[v] # <<>>
      PROVE  /\ in_node[v] \in Seq(Nat \X SUBSET Nat) /\ Len(in_node[v]) \in Nat \ {0}
             /\ in_node[v][1] \in Nat \X SUBSET Nat
             /\ \A d : d \in left <=> d \in in_node[v][1][2] /\ ~\E vc : IsNew(v, vc, d)
  <2>1. /\ in_node[v] \in Seq(Nat \X SUBSET Nat) /\ Len(in_node[v]) \in Nat \ {0}
        /\ in_node[v][1] \in Nat \X SUBSET Nat /\ Head(in_node[v]) = in_node[v][1]
    BY <1>2, HeadFacts, Zenon
  <2>2. \A d : (\E p \in Flitisized(v) : d = p[2]) <=> \E vc : IsNew(v, vc, d)
    <3>1. \A p \in Flitisized(v) : p = <<p[1], p[2]>>
      BY FlitisizedFacts, Zenon
    <3> QED
      BY <3>1, Zenon DEF IsNew
  <2>3. \A d : d \in left <=> d \in in_node[v][1][2] /\ ~\E p \in Flitisized(v) : d = p[2]
    BY <2>1, Zenon
  <2> QED
    BY <2>1, <2>2, <2>3, Zenon
<1>3. CASE in_node[v] # <<>> /\ left = {}
  <2>1. Remaining(v) = Tail(in_node[v])
    BY <1>3, Zenon DEF Remaining
  <2>2. /\ Tail(in_node[v]) \in Seq(Nat \X SUBSET Nat)
        /\ Len(Tail(in_node[v])) = Len(in_node[v]) - 1
        /\ \A k \in 1 .. (Len(in_node[v]) - 1) : Tail(in_node[v])[k] = in_node[v][k + 1]
    BY <1>2, <1>3
  <2>3. \A d \in in_node[v][1][2] : \E vc : IsNew(v, vc, d)
    BY <1>2, <1>3, Zenon
  <2> QED
    BY <1>3, <2>1, <2>2, <2>3, Zenon
<1>4. CASE in_node[v] # <<>> /\ left # {}
  <2>1. Remaining(v) = [in_node[v] EXCEPT ![1] = <<in_node[v][1][1], left>>]
    BY <1>4, Zenon DEF Remaining
  <2>2. left \subseteq in_node[v][1][2]
    BY <1>2, <1>4, Zenon
  <2> HIDE DEF left
  <2>3. <<in_node[v][1][1], left>> \in Nat \X SUBSET Nat
    BY <1>2, <1>4, <2>2, Zenon
  <2>4. /\ Remaining(v) \in Seq(Nat \X SUBSET Nat)
        /\ Len(Remaining(v)) = Len(in_node[v])
        /\ \A k \in 2 .. Len(in_node[v]) : Remaining(v)[k] = in_node[v][k]
        /\ Remaining(v)[1] = <<in_node[v][1][1], left>>
    <3> DEFINE S == Nat \X SUBSET Nat
    <3>1. in_node[v] \in Seq(S) /\ <<in_node[v][1][1], left>> \in S /\ Len(in_node[v]) \in Nat \ {0}
      BY <1>2, <1>4, <2>3, Zenon
    <3> HIDE DEF S
    <3>2. /\ Remaining(v) \in Seq(S)
          /\ Len(Remaining(v)) = Len(in_node[v])
          /\ \A k \in 2 .. Len(in_node[v]) : Remaining(v)[k] = in_node[v][k]
          /\ Remaining(v)[1] = <<in_node[v][1][1], left>>
      BY ONLY <2>1, <3>1
    <3> QED
      BY <3>2, Zenon DEF S
  <2>5. \A d \in in_node[v][1][2] : d \in left <=> ~\E vc : IsNew(v, vc, d)
    BY <1>2, <1>4, Zenon DEF left
  <2>6. /\ Remaining(v)[1][1] = in_node[v][1][1]
        /\ Remaining(v)[1][2] = left
    BY <2>4
  <2> QED
    BY <1>4, <2>2, <2>4, <2>5, <2>6, Zenon
<1> QED
  BY <1>1, <1>3, <1>4, Zenon

\* The state of the sending side after flitisizeMessage.
NodeAfter == [v \in Vnets |-> Remaining(v)]
OutAfter  == [vc \in VCs |-> Flits(vc)]
TimeAfter == [vc \in VCs |-> Time(vc)]

\* flitisizeMessage keeps the messages in order, and takes from them the
\* destinations that get a flit.
LEMMA MakeMessages ==
    ASSUME SendInv
    PROVE  /\ MessagesRight(NodeAfter, queued)
           /\ \A v \in Vnets : \A i \in 1 .. queued[v] : \A d :
                 IsLeft(NodeAfter, queued, v, i, d)
                    <=> /\ IsLeft(in_node, queued, v, i, d)
                        /\ ~(i = HeadNo(v) /\ \E vc : IsNew(v, vc, d))
<1>0. MessagesRight(in_node, queued)
  BY DEF SendInv, SendRight
<1>1. ASSUME NEW v \in Vnets
      PROVE  /\ Len(NodeAfter[v]) <= queued[v]
             /\ \A k \in 1 .. Len(NodeAfter[v]) :
                   /\ NodeAfter[v][k][1] = Done(NodeAfter, queued, v) + k
                   /\ NodeAfter[v][k][2] \subseteq Dests[v][Done(NodeAfter, queued, v) + k]
                   /\ k > 1 => NodeAfter[v][k][2] = Dests[v][Done(NodeAfter, queued, v) + k]
             /\ \A i \in 1 .. queued[v] : \A d :
                   IsLeft(NodeAfter, queued, v, i, d)
                      <=> /\ IsLeft(in_node, queued, v, i, d)
                          /\ ~(i = HeadNo(v) /\ \E vc : IsNew(v, vc, d))
  <2> DEFINE r == Remaining(v)
             s == in_node[v]
             q == queued[v]
             T == Dests[v]
             New(d) == \E vc : IsNew(v, vc, d)
  <2>1. /\ s \in Seq(Nat \X SUBSET Nat) /\ q \in Nat /\ Len(s) <= q
        /\ \A k \in 1 .. Len(s) : /\ s[k][1] = q - Len(s) + k
                                  /\ s[k][2] \subseteq T[q - Len(s) + k]
                                  /\ k > 1 => s[k][2] = T[q - Len(s) + k]
    BY <1>0, Zenon DEF MessagesRight, Done
  <2>2. Len(s) \in Nat /\ (s # <<>> => Len(s) \in Nat \ {0}) /\ (s = <<>> => Len(s) = 0)
    BY <2>1
  <2>3. /\ NodeAfter[v] = r
        /\ Done(NodeAfter, queued, v) = q - Len(r)
        /\ HeadNo(v) = q - Len(s) + 1
        /\ \A i, d : IsLeft(in_node, queued, v, i, d) <=> i > q - Len(s) /\ d \in s[i - (q - Len(s))][2]
        /\ \A i, d : IsLeft(NodeAfter, queued, v, i, d) <=> i > q - Len(r) /\ d \in r[i - (q - Len(r))][2]
    BY Zenon DEF NodeAfter, Done, HeadNo, IsLeft
  <2>4. r \in Seq(Nat \X SUBSET Nat) /\ Len(r) \in Nat
    BY RemainingFacts
  <2>5. \/ s = <<>> /\ r = <<>> /\ \A d : ~New(d)
        \/ /\ s # <<>>
           /\ Len(r) = Len(s) - 1
           /\ \A k \in 1 .. Len(r) : r[k] = s[k + 1]
           /\ \A d \in s[1][2] : New(d)
        \/ /\ s # <<>>
           /\ Len(r) = Len(s)
           /\ \A k \in 2 .. Len(s) : r[k] = s[k]
           /\ r[1][1] = s[1][1] /\ r[1][2] \subseteq s[1][2]
           /\ \A d \in s[1][2] : d \in r[1][2] <=> ~New(d)
    BY RemainingFacts, Zenon
  <2> HIDE DEF r, s, q, T, New
  <2>6. CASE s = <<>> /\ r = <<>> /\ \A d : ~New(d)
    <3>1. Len(r) = 0 /\ Len(s) = 0
      BY <2>6, Zenon
    <3>2. /\ Len(r) <= q
          /\ \A k \in 1 .. Len(r) : /\ r[k][1] = q - Len(r) + k
                                    /\ r[k][2] \subseteq T[q - Len(r) + k]
                                    /\ k > 1 => r[k][2] = T[q - Len(r) + k]
          /\ \A i \in 1 .. q : \A d : ~(i > q - Len(r)) /\ ~(i > q - Len(s))
      BY ONLY <3>1, <2>1
    <3> QED
      BY <3>2, <2>3, Zenon DEF q, T
  <2>7. CASE /\ s # <<>>
             /\ Len(r) = Len(s) - 1
             /\ \A k \in 1 .. Len(r) : r[k] = s[k + 1]
             /\ \A d \in s[1][2] : New(d)
    <3>1. Len(r) <= q
      BY <2>1, <2>2, <2>7
    <3>2. ASSUME NEW k \in 1 .. Len(r)
          PROVE  /\ r[k][1] = q - Len(r) + k
                 /\ r[k][2] \subseteq T[q - Len(r) + k]
                 /\ k > 1 => r[k][2] = T[q - Len(r) + k]
      <4>1. k + 1 \in 1 .. Len(s) /\ q - Len(s) + (k + 1) = q - Len(r) + k /\ k + 1 > 1
        BY <2>1, <2>2, <2>4, <2>7
      <4>2. r[k] = s[k + 1]
        BY <2>7, Zenon
      <4>3. /\ s[k + 1][1] = q - Len(s) + (k + 1)
            /\ s[k + 1][2] \subseteq T[q - Len(s) + (k + 1)]
            /\ s[k + 1][2] = T[q - Len(s) + (k + 1)]
        BY <2>1, <4>1, Zenon
      <4> QED
        BY ONLY <4>1, <4>2, <4>3, Zenon
    <3>3. ASSUME NEW i \in 1 .. q, NEW d
          PROVE  (i > q - Len(r) /\ d \in r[i - (q - Len(r))][2])
                    <=> /\ i > q - Len(s) /\ d \in s[i - (q - Len(s))][2]
                        /\ ~(i = q - Len(s) + 1 /\ New(d))
      <4>1. CASE i > q - Len(s) + 1
        <5>1. /\ i > q - Len(r) /\ i > q - Len(s) /\ i # q - Len(s) + 1
              /\ i - (q - Len(r)) \in 1 .. Len(r)
              /\ i - (q - Len(r)) + 1 = i - (q - Len(s))
          BY <2>1, <2>2, <2>4, <2>7, <4>1
        <5>2. r[i - (q - Len(r))] = s[i - (q - Len(s))]
          BY <5>1, <2>7, Zenon
        <5> QED
          BY ONLY <5>1, <5>2, Zenon
      <4>2. CASE i = q - Len(s) + 1
        <5>1. ~(i > q - Len(r)) /\ i - (q - Len(s)) = 1
          BY <2>1, <2>2, <2>4, <2>7, <4>2
        <5> QED
          BY <5>1, <2>7, <4>2, Zenon
      <4>3. CASE i < q - Len(s) + 1
        BY <2>1, <2>2, <2>4, <2>7, <4>3
      <4>4. i > q - Len(s) + 1 \/ i = q - Len(s) + 1 \/ i < q - Len(s) + 1
        <5>1. q \in Int /\ Len(s) \in Int /\ i \in Int
          BY <2>1, <2>2
        <5> QED
          BY ONLY <5>1
      <4> QED
        BY ONLY <4>1, <4>2, <4>3, <4>4, Zenon
    <3>4. ASSUME NEW i \in 1 .. queued[v], NEW d
          PROVE  IsLeft(NodeAfter, queued, v, i, d)
                    <=> /\ IsLeft(in_node, queued, v, i, d)
                        /\ ~(i = HeadNo(v) /\ \E vc : IsNew(v, vc, d))
      <4>1. i \in 1 .. q /\ (New(d) <=> \E vc : IsNew(v, vc, d))
        BY Zenon DEF q, New
      <4>2. IsLeft(NodeAfter, queued, v, i, d) <=> i > q - Len(r) /\ d \in r[i - (q - Len(r))][2]
        BY ONLY <2>3, Zenon
      <4>3. IsLeft(in_node, queued, v, i, d) <=> i > q - Len(s) /\ d \in s[i - (q - Len(s))][2]
        BY ONLY <2>3, Zenon
      <4> QED
        BY ONLY <2>3, <3>3, <4>1, <4>2, <4>3, Zenon
    <3> QED
      BY <3>1, <3>2, <3>4, <2>3, Zenon DEF q, T
  <2>8. CASE /\ s # <<>>
             /\ Len(r) = Len(s)
             /\ \A k \in 2 .. Len(s) : r[k] = s[k]
             /\ r[1][1] = s[1][1] /\ r[1][2] \subseteq s[1][2]
             /\ \A d \in s[1][2] : d \in r[1][2] <=> ~New(d)
    <3>1. Len(r) <= q /\ 1 \in 1 .. Len(s)
      BY <2>1, <2>2, <2>8
    <3>2. ASSUME NEW k \in 1 .. Len(r)
          PROVE  /\ r[k][1] = q - Len(r) + k
                 /\ r[k][2] \subseteq T[q - Len(r) + k]
                 /\ k > 1 => r[k][2] = T[q - Len(r) + k]
      <4>1. CASE k = 1
        <5>1. s[1][1] = q - Len(s) + 1 /\ s[1][2] \subseteq T[q - Len(s) + 1]
          BY <2>1, <3>1, Zenon
        <5>2. r[1][1] = s[1][1] /\ r[1][2] \subseteq s[1][2] /\ Len(r) = Len(s)
          BY <2>8, Zenon
        <5> QED
          BY ONLY <4>1, <5>1, <5>2
      <4>2. CASE k > 1
        <5>1. k \in 2 .. Len(s) /\ k \in 1 .. Len(s)
          BY <2>2, <2>8, <4>2
        <5>2. r[k] = s[k] /\ Len(r) = Len(s)
          BY <2>8, <5>1, Zenon
        <5> QED
          BY <2>1, <5>1, <5>2, Zenon
      <4> QED
        BY <4>1, <4>2
    <3>3. ASSUME NEW i \in 1 .. q, NEW d
          PROVE  (i > q - Len(r) /\ d \in r[i - (q - Len(r))][2])
                    <=> /\ i > q - Len(s) /\ d \in s[i - (q - Len(s))][2]
                        /\ ~(i = q - Len(s) + 1 /\ New(d))
      <4>0. Len(r) = Len(s) /\ q \in Nat /\ i \in Nat
        BY <2>1, <2>8
      <4>1. CASE i > q - Len(s) + 1
        <5>1. i - (q - Len(s)) \in 2 .. Len(s) /\ i # q - Len(s) + 1
          BY <2>1, <2>2, <4>1
        <5>2. r[i - (q - Len(s))] = s[i - (q - Len(s))]
          BY <5>1, <2>8, Zenon
        <5> QED
          BY ONLY <4>0, <5>1, <5>2, Zenon
      <4>2. CASE i = q - Len(s) + 1
        <5>1. i - (q - Len(s)) = 1 /\ i > q - Len(s)
          BY <2>1, <2>2, <4>2
        <5>2. d \in r[1][2] <=> d \in s[1][2] /\ ~New(d)
          BY <2>8, Zenon
        <5> QED
          BY ONLY <4>0, <4>2, <5>1, <5>2, Zenon
      <4>3. CASE i < q - Len(s) + 1
        BY <2>1, <2>2, <4>0, <4>3
      <4>4. i > q - Len(s) + 1 \/ i = q - Len(s) + 1 \/ i < q - Len(s) + 1
        <5>1. q \in Int /\ Len(s) \in Int /\ i \in Int
          BY <2>1, <2>2
        <5> QED
          BY ONLY <5>1
      <4> QED
        BY ONLY <4>1, <4>2, <4>3, <4>4, Zenon
    <3>4. ASSUME NEW i \in 1 .. queued[v], NEW d
          PROVE  IsLeft(NodeAfter, queued, v, i, d)
                    <=> /\ IsLeft(in_node, queued, v, i, d)
                        /\ ~(i = HeadNo(v) /\ \E vc : IsNew(v, vc, d))
      <4>1. i \in 1 .. q /\ (New(d) <=> \E vc : IsNew(v, vc, d))
        BY Zenon DEF q, New
      <4>2. IsLeft(NodeAfter, queued, v, i, d) <=> i > q - Len(r) /\ d \in r[i - (q - Len(r))][2]
        BY ONLY <2>3, Zenon
      <4>3. IsLeft(in_node, queued, v, i, d) <=> i > q - Len(s) /\ d \in s[i - (q - Len(s))][2]
        BY ONLY <2>3, Zenon
      <4> QED
        BY ONLY <2>3, <3>3, <4>1, <4>2, <4>3, Zenon
    <3> QED
      BY <3>1, <3>2, <3>4, <2>3, Zenon DEF q, T
  <2> QED
    BY <2>5, <2>6, <2>7, <2>8, Zenon
<1>2. NodeAfter \in [Vnets -> Seq(Nat \X SUBSET Nat)]
  BY RemainingFacts, Zenon DEF NodeAfter
<1>3. queued \in [Vnets -> Nat] /\ \A v \in Vnets : queued[v] <= Len(Dests[v])
  BY <1>0, Zenon DEF MessagesRight
<1> QED
  BY <1>1, <1>2, <1>3, Zenon DEF MessagesRight

\* Flit f is made by flitisizeMessage and put in vc.
NewFlit(vc, f) == \E v \in Vnets : \E d : IsNew(v, vc, d) /\ f = <<v, HeadNo(v), d>>

\* Flits that are made are for messages up to the head.
LEMMA MadeUpToHead ==
    ASSUME SendInv, NEW f, IsDue(queued, f), IsMade(ni_out_vcs, sent, f)
    PROVE  f[2] \in Nat /\ HeadNo(f[1]) \in Nat /\ f[2] <= HeadNo(f[1])
<1>1. MessagesRight(in_node, queued) /\ FlitsRight(in_node, queued, ni_out_vcs, sent)
  BY DEF SendInv, SendRight
<1> DEFINE v == f[1]
           i == f[2]
           d == f[3]
           n == Len(in_node[v])
<1>2. v \in Vnets /\ i \in 1 .. queued[v] /\ d \in Dests[v][i] /\ f = <<v, i, d>>
  BY DEF IsDue
<1>3. /\ in_node[v] \in Seq(Nat \X SUBSET Nat) /\ queued[v] \in Nat /\ n <= queued[v]
      /\ \A k \in 1 .. n : k > 1 => in_node[v][k][2] = Dests[v][queued[v] - n + k]
  BY <1>1, <1>2, Zenon DEF MessagesRight, Done
<1>4. ~IsLeft(in_node, queued, v, i, d)
  BY <1>1, <1>2, Zenon DEF FlitsRight
<1>5. ~(i > queued[v] - n /\ d \in in_node[v][i - (queued[v] - n)][2]) /\ HeadNo(v) = queued[v] - n + 1
  BY <1>4, Zenon DEF IsLeft, Done, HeadNo
<1>6. n \in Nat
  BY <1>3
<1> HIDE DEF v, i, d, n
<1>7. CASE i > queued[v] - n + 1
  <2>1. i - (queued[v] - n) \in 1 .. n /\ i - (queued[v] - n) > 1
        /\ queued[v] - n + (i - (queued[v] - n)) = i
    <3>1. i \in Int /\ queued[v] \in Int /\ i <= queued[v] /\ n \in Int
      BY <1>2, <1>3, <1>6
    <3> QED
      BY ONLY <1>7, <3>1
  <2>2. in_node[v][i - (queued[v] - n)][2] = Dests[v][i]
    BY <1>3, <2>1, Zenon
  <2>3. i > queued[v] - n
    BY <1>2, <1>3, <1>6, <1>7
  <2>4. d \in Dests[v][i]
    BY <1>2, Zenon
  <2>5. d \in in_node[v][i - (queued[v] - n)][2]
    BY ONLY <2>2, <2>4, Zenon
  <2> QED
    BY ONLY <1>5, <2>3, <2>5, Zenon
<1>8. i \in Nat /\ queued[v] - n + 1 \in Nat
  BY <1>2, <1>3, <1>6
<1> QED
  BY <1>5, <1>7, <1>8 DEF i, v

\* What flitisizeMessage adds to the VCs, and that it adds nothing twice.
LEMMA OutFacts ==
    ASSUME SendInv, NEW vc \in VCs
    PROVE  /\ \A f : f \in OutAfter[vc] <=> f \in ni_out_vcs[vc] \/ NewFlit(vc, f)
           /\ \A f : NewFlit(vc, f) => TimeAfter[vc] = Clock /\ ni_out_vcs[vc] = {}
           /\ ni_out_vcs[vc] # {} => TimeAfter[vc] = enqueue_time[vc] /\ OutAfter[vc] = ni_out_vcs[vc]
<1> DEFINE w == get_vnet(vc)
<1>1. w \in Vnets /\ vc \in VcsOf(w)
  BY VnetOfVc
<1>2. OutAfter[vc] = Flits(vc) /\ TimeAfter[vc] = Time(vc)
  BY DEF OutAfter, TimeAfter
<1>3. \A v \in Vnets : \A d : IsNew(v, vc, d) => v = w /\ ni_out_vcs[vc] = {}
  BY NewFacts, VnetOfVc, Zenon
<1>4. /\ \A f : f \in Flits(vc) <=> \/ f \in ni_out_vcs[vc]
                                   \/ \E d : IsNew(w, vc, d) /\ f = <<w, HeadNo(w), d>>
      /\ Made(vc) <=> \E d : IsNew(w, vc, d)
  BY <1>1, FlitsFacts, Zenon
<1>5. \A f : NewFlit(vc, f) <=> \E d : IsNew(w, vc, d) /\ f = <<w, HeadNo(w), d>>
  BY <1>1, <1>3, Zenon DEF NewFlit
<1> HIDE DEF w
<1>6. \A f : NewFlit(vc, f) => Made(vc) /\ ni_out_vcs[vc] = {}
  BY <1>1, <1>3, <1>4, <1>5, Zenon
<1>7. \A f : NewFlit(vc, f) => TimeAfter[vc] = Clock /\ ni_out_vcs[vc] = {}
  BY <1>2, <1>6, Zenon DEF Time
<1>8. \A f : f \in OutAfter[vc] <=> f \in ni_out_vcs[vc] \/ NewFlit(vc, f)
  BY <1>2, <1>4, <1>5, Zenon
<1>9. ASSUME ni_out_vcs[vc] # {}
      PROVE  TimeAfter[vc] = enqueue_time[vc] /\ OutAfter[vc] = ni_out_vcs[vc]
  <2>1. ~Made(vc)
    BY <1>1, <1>3, <1>4, <1>9, Zenon
  <2>2. TimeAfter[vc] = enqueue_time[vc]
    BY <1>2, <2>1, Zenon DEF Time
  <2>3. \A f : ~NewFlit(vc, f)
    BY <1>6, <1>9, Zenon
  <2> QED
    BY <1>8, <2>2, <2>3, Zenon
<1> QED
  BY <1>7, <1>8, <1>9, Zenon

\* A new flit is due, waited for and not yet made.
LEMMA NewFlitFacts ==
    ASSUME SendInv, NEW vc \in VCs, NEW f, NewFlit(vc, f)
    PROVE  /\ f \in Vnets \X Nat \X Nat
           /\ IsNew(f[1], vc, f[3]) /\ f[2] = HeadNo(f[1])
           /\ f = <<f[1], f[2], f[3]>>
           /\ vc \in VcsOf(f[1])
           /\ IsDue(queued, f)
           /\ IsLeft(in_node, queued, f[1], f[2], f[3])
           /\ ~IsMade(ni_out_vcs, sent, f)
<1>a. PICK v \in Vnets : \E d : IsNew(v, vc, d) /\ f = <<v, HeadNo(v), d>>
  BY Zenon DEF NewFlit
<1>1. PICK d : IsNew(v, vc, d) /\ f = <<v, HeadNo(v), d>>
  BY <1>a, Zenon
<1>2. /\ vc \in VcsOf(v) /\ d \in in_node[v][1][2] /\ d \in Dests[v][HeadNo(v)]
      /\ HeadNo(v) \in 1 .. queued[v] /\ d \in Nat
  BY <1>1, NewFacts, Zenon
<1>3. f[1] = v /\ f[2] = HeadNo(v) /\ f[3] = d
  BY <1>1
<1>4. MessagesRight(in_node, queued) /\ FlitsRight(in_node, queued, ni_out_vcs, sent)
  BY DEF SendInv, SendRight
<1>5. queued[v] \in Nat /\ in_node[v] \in Seq(Nat \X SUBSET Nat) /\ Len(in_node[v]) <= queued[v]
  BY <1>4, Zenon DEF MessagesRight
<1>6. f \in Vnets \X Nat \X Nat
  BY <1>1, <1>2, <1>5
<1>7. IsDue(queued, f)
  BY <1>2, <1>3, <1>6, Zenon DEF IsDue
<1>8. IsLeft(in_node, queued, v, HeadNo(v), d)
  <2>1. HeadNo(v) > Done(in_node, queued, v) /\ HeadNo(v) - Done(in_node, queued, v) = 1
    BY <1>5 DEF HeadNo, Done
  <2> QED
    BY <1>2, <2>1, Zenon DEF IsLeft
<1>9. ~IsMade(ni_out_vcs, sent, <<v, HeadNo(v), d>>)
  BY <1>2, <1>4, <1>8, Zenon DEF FlitsRight
<1> QED
  BY <1>1, <1>2, <1>3, <1>6, <1>7, <1>8, <1>9, Zenon

\* flitisizeMessage gives every destination it takes from a message one flit,
\* in a VC that was empty.
LEMMA MakeFlits ==
    ASSUME SendInv
    PROVE  /\ OutAfter \in [VCs -> SUBSET (Vnets \X Nat \X Nat)]
           /\ FlitsRight(NodeAfter, queued, OutAfter, sent)
           /\ Unique(OutAfter, sent)
<1>1. /\ FlitsRight(in_node, queued, ni_out_vcs, sent) /\ Unique(ni_out_vcs, sent)
      /\ ni_out_vcs \in [VCs -> SUBSET (Vnets \X Nat \X Nat)]
  BY DEF SendInv, SendRight
<1>2. OutAfter \in [VCs -> SUBSET (Vnets \X Nat \X Nat)]
  <2>1. \A vc \in VCs : \A f \in OutAfter[vc] : f \in Vnets \X Nat \X Nat
    BY <1>1, OutFacts, NewFlitFacts, Zenon
  <2>2. OutAfter = [vc \in VCs |-> OutAfter[vc]]
    BY DEF OutAfter
  <2> HIDE DEF OutAfter
  <2> QED
    BY <2>1, <2>2, Zenon
<1>3. FlitsRight(NodeAfter, queued, OutAfter, sent)
  <2>1. \A j \in DOMAIN sent : IsDue(queued, sent[j])
    BY <1>1, Zenon DEF FlitsRight
  <2>2. \A vc \in VCs : \A f \in OutAfter[vc] : IsDue(queued, f)
    BY <1>1, OutFacts, NewFlitFacts, Zenon DEF FlitsRight
  <2>3. ASSUME NEW v \in Vnets, NEW i \in 1 .. queued[v], NEW d \in Dests[v][i]
        PROVE  IsMade(OutAfter, sent, <<v, i, d>>) <=> ~IsLeft(NodeAfter, queued, v, i, d)
    <3>1. IsMade(ni_out_vcs, sent, <<v, i, d>>) <=> ~IsLeft(in_node, queued, v, i, d)
      BY <1>1, Zenon DEF FlitsRight
    <3>2. IsLeft(NodeAfter, queued, v, i, d)
             <=> /\ IsLeft(in_node, queued, v, i, d)
                 /\ ~(i = HeadNo(v) /\ \E vc : IsNew(v, vc, d))
      BY MakeMessages, Zenon
    <3>3. IsMade(OutAfter, sent, <<v, i, d>>)
             <=> IsMade(ni_out_vcs, sent, <<v, i, d>>) \/ \E vc \in VCs : NewFlit(vc, <<v, i, d>>)
      BY OutFacts, Zenon DEF IsMade
    <3>4. ASSUME NEW vc \in VCs, NewFlit(vc, <<v, i, d>>)
          PROVE  i = HeadNo(v) /\ IsNew(v, vc, d)
      <4>1. /\ IsNew(<<v, i, d>>[1], vc, <<v, i, d>>[3])
            /\ <<v, i, d>>[2] = HeadNo(<<v, i, d>>[1])
        BY <3>4, NewFlitFacts, Zenon
      <4>2. <<v, i, d>>[1] = v /\ <<v, i, d>>[2] = i /\ <<v, i, d>>[3] = d
        OBVIOUS
      <4> QED
        BY <4>1, <4>2, Zenon
    <3>5. ASSUME i = HeadNo(v), NEW vc, IsNew(v, vc, d)
          PROVE  vc \in VCs /\ NewFlit(vc, <<v, i, d>>)
      BY <3>5, NewFacts, Zenon DEF NewFlit
    <3> QED
      BY <3>1, <3>2, <3>3, <3>4, <3>5, Zenon
  <2> QED
    BY <2>1, <2>2, <2>3, Zenon DEF FlitsRight
<1>4. Unique(OutAfter, sent)
  <2>1. /\ \A vc \in VCs : \A f, g \in ni_out_vcs[vc] : f = g
        /\ \A vc \in VCs : \A f \in ni_out_vcs[vc] : vc \in VcsOf(f[1])
        /\ \A vc, u \in VCs : \A f \in ni_out_vcs[vc] : f \in ni_out_vcs[u] => vc = u
        /\ \A vc \in VCs : \A f \in ni_out_vcs[vc] : \A j \in DOMAIN sent : sent[j] # f
        /\ \A i, j \in DOMAIN sent : sent[i] = sent[j] => i = j
    BY <1>1, Zenon DEF Unique
  <2>2. ASSUME NEW vc \in VCs, NEW f, NewFlit(vc, f)
        PROVE  /\ \A j \in DOMAIN sent : sent[j] # f
               /\ \A u \in VCs : f \notin ni_out_vcs[u]
    BY <2>2, NewFlitFacts, Zenon DEF IsMade
  <2>3. ASSUME NEW vc \in VCs, NEW f, NEW g, NewFlit(vc, f), NewFlit(vc, g)
        PROVE  f = g
    <3>1. /\ f \in Vnets \X Nat \X Nat /\ f[1] \in Vnets
          /\ IsNew(f[1], vc, f[3]) /\ f[2] = HeadNo(f[1])
          /\ f = <<f[1], f[2], f[3]>> /\ vc \in VcsOf(f[1])
      BY <2>3, NewFlitFacts, Zenon
    <3>2. /\ g \in Vnets \X Nat \X Nat /\ g[1] \in Vnets
          /\ IsNew(g[1], vc, g[3]) /\ g[2] = HeadNo(g[1])
          /\ g = <<g[1], g[2], g[3]>> /\ vc \in VcsOf(g[1])
      BY <2>3, NewFlitFacts
    <3>3. f[1] = g[1]
      BY <3>1, <3>2, VnetOfVc, Zenon
    <3>4. f[3] = g[3] /\ f[2] = g[2]
      BY <3>1, <3>2, <3>3, NewFacts, Zenon
    <3> QED
      BY ONLY <3>1, <3>2, <3>3, <3>4, Zenon
  <2>4. ASSUME NEW vc \in VCs, NEW u \in VCs, NEW f, NewFlit(vc, f), NewFlit(u, f)
        PROVE  vc = u
    <3>1. f[1] \in Vnets /\ IsNew(f[1], vc, f[3]) /\ IsNew(f[1], u, f[3])
      BY <2>4, NewFlitFacts
    <3> QED
      BY <3>1, NewFacts, Zenon
  <2>5. \A vc \in VCs : \A f, g \in OutAfter[vc] : f = g
    BY <2>1, <2>3, OutFacts, Zenon
  <2>6. \A vc \in VCs : \A f \in OutAfter[vc] : vc \in VcsOf(f[1])
    BY <2>1, OutFacts, NewFlitFacts, Zenon
  <2>7. \A vc, u \in VCs : \A f \in OutAfter[vc] : f \in OutAfter[u] => vc = u
    BY <2>1, <2>2, <2>4, OutFacts, Zenon
  <2>8. \A vc \in VCs : \A f \in OutAfter[vc] : \A j \in DOMAIN sent : sent[j] # f
    BY <2>1, <2>2, OutFacts, Zenon
  <2> QED
    BY <2>1, <2>5, <2>6, <2>7, <2>8, Zenon DEF Unique
<1> QED
  BY <1>2, <1>3, <1>4, Zenon

\* The VCs in which a flit waits are finitely many.
LEMMA WaitingFinite ==
    ASSUME NEW out
    PROVE  /\ IsFiniteSet(VCs)
           /\ Waiting(out) \subseteq VCs /\ IsFiniteSet(Waiting(out))
           /\ Cardinality(Waiting(out)) \in Nat
<1>1. IsFiniteSet(VCs)
  <2>1. NumVnets * VcsPerVnet \in Int
    BY InterfaceAssumption
  <2>2. 0 \in Int /\ NumVnets * VcsPerVnet - 1 \in Int
    BY <2>1
  <2> QED
    BY <2>2, FS_Interval, Zenon DEF VCs
<1>2. Waiting(out) \subseteq VCs
  BY Zenon DEF Waiting
<1> QED
  BY <1>1, <1>2, FS_Subset, FS_CardinalityType, Zenon

\* The times of the new flits are later than the times of the old ones.
LEMMA MakeTimes ==
    ASSUME SendInv
    PROVE  Ages(OutAfter, TimeAfter, sent) /\ Clocked(OutAfter, TimeAfter, sent)
<1>1. /\ Ages(ni_out_vcs, enqueue_time, sent) /\ Clocked(ni_out_vcs, enqueue_time, sent)
      /\ FlitsRight(in_node, queued, ni_out_vcs, sent) /\ sent \in Seq(Vnets \X Nat \X Nat)
      /\ ni_out_vcs \in [VCs -> SUBSET (Vnets \X Nat \X Nat)]
  BY DEF SendInv, SendRight
<1>2. /\ Clock = Passed(ni_out_vcs, sent) /\ Clock \in Nat /\ Len(sent) \in Nat
      /\ enqueue_time \in [VCs -> Nat]
      /\ \A vc \in Waiting(ni_out_vcs) : enqueue_time[vc] < Clock
  <2>1. Clock = Passed(ni_out_vcs, sent)
    BY Zenon DEF Clock, Passed, Waiting
  <2>2. Clock \in Nat /\ Len(sent) \in Nat
    <3>1. Len(sent) \in Nat
      BY <1>1
    <3> QED
      BY <2>1, <3>1, WaitingFinite DEF Passed
  <2> QED
    BY <1>1, <2>1, <2>2, Zenon DEF Clocked
<1>3. \A vc \in VCs : \A f \in ni_out_vcs[vc] : /\ vc \in Waiting(ni_out_vcs)
                                                 /\ IsDue(queued, f)
                                                 /\ IsMade(ni_out_vcs, sent, f)
                                                 /\ TimeAfter[vc] = enqueue_time[vc]
  BY <1>1, OutFacts, Zenon DEF FlitsRight, IsMade, Waiting
<1>4. \A j \in DOMAIN sent : IsDue(queued, sent[j]) /\ IsMade(ni_out_vcs, sent, sent[j])
  BY <1>1, Zenon DEF FlitsRight, IsMade
<1>5. \A f : IsDue(queued, f) /\ IsMade(ni_out_vcs, sent, f)
               => f[2] \in Nat /\ HeadNo(f[1]) \in Nat /\ f[2] <= HeadNo(f[1])
  BY MadeUpToHead, Zenon
<1>6. Ages(OutAfter, TimeAfter, sent)
  <2>1. ASSUME NEW vc \in VCs, NEW u \in VCs, NEW f \in OutAfter[vc], NEW g \in OutAfter[u],
               f[1] = g[1], f[2] < g[2]
        PROVE  TimeAfter[vc] < TimeAfter[u]
    <3>1. (f \in ni_out_vcs[vc] \/ NewFlit(vc, f)) /\ (g \in ni_out_vcs[u] \/ NewFlit(u, g))
      BY OutFacts, Zenon
    <3>2. CASE f \in ni_out_vcs[vc] /\ g \in ni_out_vcs[u]
      <4>1. enqueue_time[vc] < enqueue_time[u]
        BY <1>1, <2>1, <3>2, Zenon DEF Ages
      <4> QED
        BY <1>3, <3>2, <4>1, Zenon
    <3>3. CASE f \in ni_out_vcs[vc] /\ NewFlit(u, g)
      <4>1. TimeAfter[u] = Clock
        BY <3>3, OutFacts, Zenon
      <4>2. TimeAfter[vc] = enqueue_time[vc] /\ enqueue_time[vc] < Clock
        BY <1>2, <1>3, <3>3, Zenon
      <4> QED
        BY <4>1, <4>2, Zenon
    <3>4. CASE NewFlit(vc, f)
      <4>1. f[2] = HeadNo(f[1])
        BY <3>4, NewFlitFacts, Zenon
      <4>2. CASE g \in ni_out_vcs[u]
        <5>1. g[2] \in Nat /\ HeadNo(g[1]) \in Nat /\ g[2] <= HeadNo(g[1])
          BY <1>3, <1>5, <4>2, Zenon
        <5>2. HeadNo(g[1]) < g[2]
          BY <2>1, <4>1, Zenon
        <5> QED
          BY ONLY <5>1, <5>2
      <4>3. CASE NewFlit(u, g)
        <5>1. g[2] = HeadNo(g[1]) /\ g[2] \in Nat
          BY <4>3, NewFlitFacts
        <5>2. g[2] < g[2]
          BY <2>1, <4>1, <5>1, Zenon
        <5> QED
          BY ONLY <5>1, <5>2
      <4> QED
        BY <3>1, <4>2, <4>3, Zenon
    <3> QED
      BY <3>1, <3>2, <3>3, <3>4, Zenon
  <2>2. ASSUME NEW j \in DOMAIN sent, NEW vc \in VCs, NEW f \in OutAfter[vc],
               f[1] = sent[j][1], f[1] \in Ordered
        PROVE  sent[j][2] <= f[2]
    <3>1. CASE f \in ni_out_vcs[vc]
      BY <1>1, <2>2, <3>1, Zenon DEF Ages
    <3>2. CASE NewFlit(vc, f)
      <4>1. f[2] = HeadNo(f[1])
        BY <3>2, NewFlitFacts, Zenon
      <4>2. sent[j][2] <= HeadNo(sent[j][1])
        BY <1>4, <1>5, Zenon
      <4> QED
        BY <2>2, <4>1, <4>2, Zenon
    <3> QED
      BY <3>1, <3>2, OutFacts, Zenon
  <2>3. \A j \in DOMAIN sent : \A i \in 1 .. j :
           sent[i][1] = sent[j][1] /\ sent[i][1] \in Ordered => sent[i][2] <= sent[j][2]
    BY <1>1, Zenon DEF Ages
  <2> QED
    BY <2>1, <2>2, <2>3, Zenon DEF Ages
<1>7. Clocked(OutAfter, TimeAfter, sent)
  <2>1. TimeAfter \in [VCs -> Nat]
    BY <1>2 DEF TimeAfter, Time
  <2> DEFINE W == Waiting(ni_out_vcs)
             V == Waiting(OutAfter)
  <2>2. W \subseteq V
    BY OutFacts, Zenon DEF Waiting
  <2>3. IsFiniteSet(W) /\ IsFiniteSet(V) /\ V \subseteq VCs /\ Cardinality(W) \in Nat /\ Cardinality(V) \in Nat
    BY WaitingFinite, Zenon
  <2>4. Passed(ni_out_vcs, sent) = Len(sent) + Cardinality(W) /\ Passed(OutAfter, sent) = Len(sent) + Cardinality(V)
    BY Zenon DEF Passed
  <2>5. \A vc \in V : vc \notin W => TimeAfter[vc] = Clock
    BY <2>3, OutFacts, Zenon DEF Waiting
  <2>6. \A vc \in W : TimeAfter[vc] = enqueue_time[vc] /\ enqueue_time[vc] < Clock /\ enqueue_time[vc] \in Nat
    <3>1. \A vc \in W : vc \in VCs /\ ni_out_vcs[vc] # {}
      BY Zenon DEF Waiting
    <3> QED
      BY <1>2, <3>1, OutFacts, Zenon
  <2> HIDE DEF W, V
  <2>7. Cardinality(W) <= Cardinality(V)
    BY <2>2, <2>3, FS_Subset, Zenon
  <2>8. ASSUME NEW vc \in V
        PROVE  TimeAfter[vc] < Passed(OutAfter, sent)
    <3>1. CASE vc \in W
      <4>1. TimeAfter[vc] < Clock /\ TimeAfter[vc] \in Nat
        BY <2>6, <3>1, Zenon
      <4> QED
        BY ONLY <1>2, <2>3, <2>4, <2>7, <4>1
    <3>2. CASE vc \notin W
      <4>1. Cardinality(W \cup {vc}) = Cardinality(W) + 1 /\ W \cup {vc} \subseteq V
        BY <2>2, <2>3, <3>2, FS_AddElement, Zenon
      <4>2. Cardinality(W \cup {vc}) <= Cardinality(V)
        BY <2>3, <4>1, FS_Subset, Zenon
      <4>3. TimeAfter[vc] = Clock
        BY <2>5, <3>2
      <4> QED
        BY ONLY <1>2, <2>3, <2>4, <4>1, <4>2, <4>3
    <3> QED
      BY <3>1, <3>2, Zenon
  <2> QED
    BY <2>1, <2>8, Zenon DEF Clocked, V
<1> QED
  BY <1>6, <1>7, Zenon

\* scheduleOutputLink sends a flit that is not newer than the ones that wait in
\* the same ordered vnet.
LEMMA TakeFlit ==
    ASSUME NEW node, NEW que, NEW out, NEW time, NEW snt,
           SendRight(node, que, out, time, snt),
           NEW vc \in VCs, NEW f \in out[vc],
           f[1] \in Ordered => \A u \in VcsOf(f[1]) : out[u] # {} => time[u] >= time[vc]
    PROVE  SendRight(node, que, [u \in VCs |-> IF u = vc THEN {} ELSE out[u]],
                     [u \in VCs |-> IF u = vc THEN 0 ELSE time[u]], Append(snt, f))
<1> DEFINE out2  == [u \in VCs |-> IF u = vc THEN {} ELSE out[u]]
           time2 == [u \in VCs |-> IF u = vc THEN 0 ELSE time[u]]
           snt2  == Append(snt, f)
           n     == Len(snt)
<1>1. /\ MessagesRight(node, que) /\ FlitsRight(node, que, out, snt)
      /\ Unique(out, snt) /\ Ages(out, time, snt) /\ Clocked(out, time, snt)
      /\ out \in [VCs -> SUBSET (Vnets \X Nat \X Nat)]
      /\ snt \in Seq(Vnets \X Nat \X Nat)
  BY Zenon DEF SendRight
<1>2. /\ \A u \in VCs : out2[u] = IF u = vc THEN {} ELSE out[u]
      /\ \A u \in VCs : time2[u] = IF u = vc THEN 0 ELSE time[u]
  OBVIOUS
<1>3. f \in Vnets \X Nat \X Nat /\ f[1] \in Vnets /\ f[2] \in Nat
  BY <1>1
<1>4. out2 \in [VCs -> SUBSET (Vnets \X Nat \X Nat)]
  BY <1>1, Zenon
<1>5. /\ snt2 \in Seq(Vnets \X Nat \X Nat) /\ n \in Nat
      /\ DOMAIN snt = 1 .. n /\ DOMAIN snt2 = 1 .. (n + 1)
      /\ snt2[n + 1] = f /\ Len(snt2) = n + 1
      /\ \A j \in DOMAIN snt : snt2[j] = snt[j]
  BY <1>1, <1>3
<1>6. \A j \in DOMAIN snt2 : j \in DOMAIN snt \/ j = n + 1
  BY <1>5
<1>7. n + 1 \in DOMAIN snt2 /\ n + 1 \notin DOMAIN snt /\ DOMAIN snt \subseteq DOMAIN snt2
  BY <1>5
<1>8. \A g : g \in out[vc] <=> g = f
  BY <1>1, Zenon DEF Unique
<1> HIDE DEF out2, time2, snt2, n
<1>9. FlitsRight(node, que, out2, snt2)
  <2>1. /\ \A j \in DOMAIN snt : IsDue(que, snt[j])
        /\ \A u \in VCs : \A g \in out[u] : IsDue(que, g)
    BY <1>1, Zenon DEF FlitsRight
  <2>2. \A j \in DOMAIN snt2 : IsDue(que, snt2[j])
    BY <1>5, <1>6, <2>1, Zenon
  <2>3. \A u \in VCs : \A g \in out2[u] : g \in out[u]
    BY <1>2
  <2>4. \A g : IsMade(out2, snt2, g) <=> IsMade(out, snt, g)
    <3>1. ASSUME NEW g, IsMade(out2, snt2, g)
          PROVE  IsMade(out, snt, g)
      BY <1>5, <1>6, <2>3, <3>1, Zenon DEF IsMade
    <3>2. ASSUME NEW g, IsMade(out, snt, g)
          PROVE  IsMade(out2, snt2, g)
      <4>1. CASE \E j \in DOMAIN snt : snt[j] = g
        BY <1>5, <1>7, <4>1, Zenon DEF IsMade
      <4>2. CASE \E u \in VCs : g \in out[u]
        <5>1. PICK u \in VCs : g \in out[u]
          BY <4>2, Zenon
        <5>2. CASE u = vc
          BY <1>5, <1>7, <1>8, <5>1, <5>2, Zenon DEF IsMade
        <5>3. CASE u # vc
          <6>1. out2[u] = out[u]
            BY <1>2, <5>3, Zenon
          <6> QED
            BY <5>1, <6>1, Zenon DEF IsMade
        <5> QED
          BY <5>2, <5>3, Zenon
      <4> QED
        BY <3>2, <4>1, <4>2, Zenon DEF IsMade
    <3> QED
      BY <3>1, <3>2, Zenon
  <2> QED
    BY <1>1, <2>1, <2>2, <2>3, <2>4, Zenon DEF FlitsRight
<1>10. \A u \in VCs : \A g \in out2[u] : g \in out[u] /\ u # vc /\ out2[u] = out[u] /\ time2[u] = time[u]
  BY <1>2
<1>11. Unique(out2, snt2)
  <2>1. /\ \A u \in VCs : \A g, h \in out[u] : g = h
        /\ \A u \in VCs : \A g \in out[u] : u \in VcsOf(g[1])
        /\ \A u, w \in VCs : \A g \in out[u] : g \in out[w] => u = w
        /\ \A u \in VCs : \A g \in out[u] : \A j \in DOMAIN snt : snt[j] # g
        /\ \A i, j \in DOMAIN snt : snt[i] = snt[j] => i = j
    BY <1>1, Zenon DEF Unique
  <2>2. \A u \in VCs : \A g, h \in out2[u] : g = h
    BY <1>10, <2>1, Zenon
  <2>3. \A u \in VCs : \A g \in out2[u] : u \in VcsOf(g[1])
    BY <1>10, <2>1, Zenon
  <2>4. \A u, w \in VCs : \A g \in out2[u] : g \in out2[w] => u = w
    BY <1>10, <2>1, Zenon
  <2>5. ASSUME NEW u \in VCs, NEW g \in out2[u], NEW j \in DOMAIN snt2
        PROVE  snt2[j] # g
    <3>1. g \in out[u] /\ u # vc
      BY <1>10, Zenon
    <3>2. CASE j \in DOMAIN snt
      BY <1>5, <2>1, <3>1, <3>2, Zenon
    <3>3. CASE j = n + 1
      <4>1. snt2[j] = f
        BY <1>5, <3>3, Zenon
      <4>2. g # f
        BY <2>1, <3>1
      <4> QED
        BY <4>1, <4>2, Zenon
    <3> QED
      BY <1>6, <3>2, <3>3, Zenon
  <2>6. ASSUME NEW i \in DOMAIN snt2, NEW j \in DOMAIN snt2, snt2[i] = snt2[j]
        PROVE  i = j
    <3>1. \A k \in DOMAIN snt : snt2[k] # snt2[n + 1]
      BY <1>5, <2>1, Zenon
    <3> QED
      BY <1>5, <1>6, <2>1, <2>6, <3>1, Zenon
  <2> QED
    BY <2>2, <2>3, <2>4, <2>5, <2>6, Zenon DEF Unique
<1>12. Ages(out2, time2, snt2)
  <2>1. /\ \A w, u \in VCs : \A g \in out[w], h \in out[u] :
              g[1] = h[1] /\ g[2] < h[2] => time[w] < time[u]
        /\ \A j \in DOMAIN snt : \A u \in VCs : \A g \in out[u] :
              g[1] = snt[j][1] /\ g[1] \in Ordered => snt[j][2] <= g[2]
        /\ \A j \in DOMAIN snt : \A i \in 1 .. j :
              snt[i][1] = snt[j][1] /\ snt[i][1] \in Ordered => snt[i][2] <= snt[j][2]
    BY <1>1, Zenon DEF Ages
  <2>2. \A w, u \in VCs : \A g \in out2[w], h \in out2[u] :
           g[1] = h[1] /\ g[2] < h[2] => time2[w] < time2[u]
    <3> TAKE w \in VCs, u \in VCs
    <3> TAKE g \in out2[w], h \in out2[u]
    <3>1. g \in out[w] /\ h \in out[u] /\ time2[w] = time[w] /\ time2[u] = time[u]
      BY <1>10, Zenon
    <3> QED
      BY <2>1, <3>1, Zenon
  <2>3. ASSUME NEW j \in DOMAIN snt2, NEW u \in VCs, NEW g \in out2[u],
               g[1] = snt2[j][1], g[1] \in Ordered
        PROVE  snt2[j][2] <= g[2]
    <3>1. g \in out[u] /\ g[2] \in Nat
      BY <1>1, <1>10
    <3>2. CASE j \in DOMAIN snt
      <4>1. snt2[j] = snt[j]
        BY <1>5, <3>2, Zenon
      <4> QED
        BY <2>1, <2>3, <3>1, <3>2, <4>1, Zenon
    <3>3. CASE j = n + 1
      <4>1. snt2[j] = f
        BY <1>5, <3>3, Zenon
      <4>2. g[1] = f[1] /\ f[1] \in Ordered
        BY <2>3, <4>1, Zenon
      <4>3. u \in VcsOf(f[1]) /\ out[u] # {}
        BY <1>1, <3>1, <4>2, Zenon DEF Unique
      <4>4. time[u] >= time[vc]
        BY <4>2, <4>3, Zenon
      <4>5. g[2] < f[2] => time[u] < time[vc]
        BY <2>1, <3>1, <4>2, Zenon
      <4>6. time[u] \in Nat /\ time[vc] \in Nat
        BY <1>1, Zenon DEF Clocked
      <4>7. f[2] <= g[2]
        BY ONLY <1>3, <3>1, <4>4, <4>5, <4>6
      <4> QED
        BY <4>1, <4>7, Zenon
    <3> QED
      BY <1>6, <3>2, <3>3, Zenon
  <2>4. ASSUME NEW j \in DOMAIN snt2, NEW i \in 1 .. j,
               snt2[i][1] = snt2[j][1], snt2[i][1] \in Ordered
        PROVE  snt2[i][2] <= snt2[j][2]
    <3>1. CASE j \in DOMAIN snt
      <4>1. i \in DOMAIN snt
        BY <1>5, <3>1
      <4>2. snt2[j] = snt[j] /\ snt2[i] = snt[i]
        BY <1>5, <3>1, <4>1, Zenon
      <4> QED
        BY <2>1, <2>4, <3>1, <4>2, Zenon
    <3>2. CASE j = n + 1 /\ i = n + 1
      <4>1. snt2[i] = f /\ snt2[j] = f
        BY <1>5, <3>2, Zenon
      <4> QED
        BY <1>3, <4>1
    <3>3. CASE j = n + 1 /\ i # n + 1
      <4>1. i \in DOMAIN snt
        BY <1>5, <3>3
      <4>2. snt2[j] = f /\ snt2[i] = snt[i]
        BY <1>5, <3>3, <4>1, Zenon
      <4> QED
        BY <2>1, <2>4, <4>1, <4>2, Zenon
    <3> QED
      BY <1>6, <3>1, <3>2, <3>3, Zenon
  <2> QED
    BY <2>2, <2>3, <2>4, Zenon DEF Ages
<1>13. Clocked(out2, time2, snt2)
  <2> DEFINE W == Waiting(out)
  <2>1. time \in [VCs -> Nat] /\ \A u \in W : time[u] < Passed(out, snt)
    BY <1>1, Zenon DEF Clocked
  <2>2. time2 \in [VCs -> Nat]
    BY <2>1, Zenon DEF time2
  <2>3. Waiting(out2) = W \ {vc} /\ vc \in W
    BY <1>2 DEF Waiting
  <2>4. IsFiniteSet(W) /\ Cardinality(W) \in Nat /\ W \subseteq VCs
    BY WaitingFinite, Zenon
  <2>5. Passed(out, snt) = n + Cardinality(W) /\ Passed(out2, snt2) = (n + 1) + Cardinality(Waiting(out2))
    BY <1>5, Zenon DEF Passed, n
  <2> HIDE DEF W
  <2>6. Cardinality(W \ {vc}) = Cardinality(W) - 1
    BY <2>3, <2>4, FS_RemoveElement, Zenon
  <2>7. Passed(out2, snt2) = Passed(out, snt)
    BY <1>5, <2>3, <2>4, <2>5, <2>6
  <2>8. \A u \in W \ {vc} : time2[u] = time[u]
    BY <1>2, <2>4
  <2>9. \A u \in W \ {vc} : time2[u] < Passed(out2, snt2)
    BY <2>1, <2>7, <2>8, Zenon
  <2> QED
    BY <2>2, <2>3, <2>9, Zenon DEF Clocked
<1>14. SendRight(node, que, out2, time2, snt2)
  BY <1>1, <1>4, <1>5, <1>9, <1>11, <1>12, <1>13, Zenon DEF SendRight
<1> QED
  BY <1>14, Zenon DEF out2, time2, snt2

\* What the state of a VC says about its flits.
LEMMA VcFacts ==
    ASSUME SendInv, NEW vc \in VCs
    PROVE  /\ Made(vc) => out_vc_state[vc] = "IDLE_"
           /\ Flits(vc) # {} /\ ~Made(vc) => ni_out_vcs[vc] # {}
           /\ Flits(vc) = OutAfter[vc] /\ Time(vc) = TimeAfter[vc]
<1> DEFINE w == get_vnet(vc)
<1>1. w \in Vnets /\ vc \in VcsOf(w)
  BY VnetOfVc, Zenon
<1>2. Flits(vc) = OutAfter[vc] /\ Time(vc) = TimeAfter[vc]
  BY Zenon DEF OutAfter, TimeAfter
<1>3. /\ \A f : f \in Flits(vc) <=> \/ f \in ni_out_vcs[vc]
                                   \/ \E d : IsNew(w, vc, d) /\ f = <<w, HeadNo(w), d>>
      /\ Made(vc) <=> \E d : IsNew(w, vc, d)
  BY <1>1, FlitsFacts, Zenon
<1> HIDE DEF w
<1>4. Made(vc) => out_vc_state[vc] = "IDLE_"
  BY <1>1, <1>3, NewFacts, Zenon
<1>5. ASSUME Flits(vc) # {}, ~Made(vc)
      PROVE  ni_out_vcs[vc] # {}
  <2>1. PICK f : f \in Flits(vc)
    BY <1>5
  <2>2. f \in ni_out_vcs[vc]
    BY <1>3, <1>5, <2>1, Zenon
  <2> QED
    BY <2>2
<1> QED
  BY <1>2, <1>4, <1>5, Zenon

\* m_vc_allocator stays in the vnet.
LEMMA AllocatorStays ==
    ASSUME SendInv, NEW v \in Vnets
    PROVE  NextAllocator(v) \in 0 .. (VcsPerVnet - 1)
<1> DEFINE made == {vc \in VcsOf(v) : Made(vc)}
           last == CHOOSE vc \in made : \A u \in made : Turn(v, u) <= Turn(v, vc)
<1>1. vc_allocator[v] \in 0 .. (VcsPerVnet - 1) /\ VcsPerVnet \in Nat \ {0}
  BY InterfaceAssumption DEF SendInv, VcsRight
<1>2. NextAllocator(v) = IF made = {} THEN vc_allocator[v]
                         ELSE IF last + 1 \in VcsOf(v) THEN (last + 1) - v * VcsPerVnet ELSE 0
  BY Zenon DEF NextAllocator
<1> HIDE DEF made, last
<1>3. ASSUME last + 1 \in VcsOf(v)
      PROVE  (last + 1) - v * VcsPerVnet \in 0 .. (VcsPerVnet - 1)
  <2> DEFINE x == last + 1
             y == v * VcsPerVnet
  <2>1. y \in Int
    BY InterfaceAssumption DEF Vnets
  <2>2. x \in y .. (y + VcsPerVnet - 1)
    BY <1>3, Zenon DEF VcsOf
  <2>3. x - y \in 0 .. (VcsPerVnet - 1)
    <3> HIDE DEF x, y
    <3> QED
      BY <1>1, <2>1, <2>2
  <2> QED
    BY <2>3, Zenon
<1>4. 0 \in 0 .. (VcsPerVnet - 1)
  BY <1>1
<1> QED
  BY <1>1, <1>2, <1>3, <1>4, Zenon

\* The VCs after scheduleOutputLink and the credit.
LEMMA LeaveVcs ==
    ASSUME SendInv, NEW S, \A vc \in S : vc \in VCs /\ IsCandidate(vc), Leave(S),
           vc_allocator' = [v \in Vnets |-> NextAllocator(v)]
    PROVE  VcsRight'
<1>1. /\ out_vc_state \in [VCs -> {"IDLE_", "ACTIVE_"}]
      /\ credits \in [VCs -> {0, 1}]
      /\ \A vc \in VCs : out_vc_state[vc] = "IDLE_" => ni_out_vcs[vc] = {}
      /\ \A vc \in VCs : credits[vc] = 0 => ni_out_vcs[vc] = {} /\ out_vc_state[vc] = "ACTIVE_"
      /\ \A vc \in VCs : in_credit = <<vc>> => credits[vc] = 0
  BY Zenon DEF SendInv, VcsRight
<1>2. /\ ni_out_vcs' = [vc \in VCs |-> IF vc \in S THEN {} ELSE Flits(vc)]
      /\ credits' = [vc \in VCs |-> credits[vc] - (IF vc \in S THEN 1 ELSE 0)
                                                + (IF in_credit = <<vc>> THEN 1 ELSE 0)]
      /\ out_vc_state' = [vc \in VCs |-> CASE in_credit = <<vc>> -> "IDLE_"
                                           [] Made(vc) -> "ACTIVE_"
                                           [] OTHER -> out_vc_state[vc]]
      /\ in_credit' = <<>>
  BY DEF Leave, None
<1>3. \A vc \in VCs : /\ Made(vc) => out_vc_state[vc] = "IDLE_"
                      /\ Flits(vc) # {} /\ ~Made(vc) => ni_out_vcs[vc] # {}
  BY VcFacts, Zenon
<1>4. \A vc \in S : vc \in VCs /\ Flits(vc) # {} /\ credits[vc] > 0
  BY Zenon DEF IsCandidate
<1>5. ASSUME NEW vc \in VCs
      PROVE  /\ credits'[vc] \in {0, 1} /\ out_vc_state'[vc] \in {"IDLE_", "ACTIVE_"}
             /\ out_vc_state'[vc] = "IDLE_" => ni_out_vcs'[vc] = {}
             /\ credits'[vc] = 0 => ni_out_vcs'[vc] = {} /\ out_vc_state'[vc] = "ACTIVE_"
             /\ in_credit' # <<vc>>
  <2>1. /\ ni_out_vcs'[vc] = IF vc \in S THEN {} ELSE Flits(vc)
        /\ credits'[vc] = credits[vc] - (IF vc \in S THEN 1 ELSE 0) + (IF in_credit = <<vc>> THEN 1 ELSE 0)
        /\ out_vc_state'[vc] = CASE in_credit = <<vc>> -> "IDLE_"
                                 [] Made(vc) -> "ACTIVE_"
                                 [] OTHER -> out_vc_state[vc]
    BY <1>2
  <2>2. in_credit' # <<vc>>
    BY <1>2, Zenon
  <2>3. /\ out_vc_state[vc] \in {"IDLE_", "ACTIVE_"} /\ credits[vc] \in {0, 1}
        /\ out_vc_state[vc] = "IDLE_" => ni_out_vcs[vc] = {}
        /\ credits[vc] = 0 => ni_out_vcs[vc] = {} /\ out_vc_state[vc] = "ACTIVE_"
        /\ in_credit = <<vc>> => credits[vc] = 0
        /\ Made(vc) => out_vc_state[vc] = "IDLE_"
        /\ Flits(vc) # {} /\ ~Made(vc) => ni_out_vcs[vc] # {}
        /\ vc \in S => Flits(vc) # {} /\ credits[vc] > 0
    BY <1>1, <1>3, <1>4, Zenon
  <2>4. CASE in_credit = <<vc>>
    <3>1. credits[vc] = 0 /\ ni_out_vcs[vc] = {} /\ ~Made(vc) /\ vc \notin S
      BY ONLY <2>3, <2>4, Zenon
    <3>2. Flits(vc) = {}
      BY ONLY <2>3, <3>1, Zenon
    <3>3. ni_out_vcs'[vc] = {} /\ credits'[vc] = 1 /\ out_vc_state'[vc] = "IDLE_"
      BY ONLY <2>1, <2>4, <3>1, <3>2
    <3> QED
      BY ONLY <2>2, <3>3
  <2>5. CASE in_credit # <<vc>>
    <3>1. /\ credits'[vc] = credits[vc] - (IF vc \in S THEN 1 ELSE 0)
          /\ out_vc_state'[vc] = IF Made(vc) THEN "ACTIVE_" ELSE out_vc_state[vc]
      BY ONLY <2>1, <2>3, <2>5
    <3>2. CASE vc \in S
      <4>1. credits[vc] = 1 /\ ni_out_vcs'[vc] = {} /\ credits'[vc] = 0
        BY ONLY <2>1, <2>3, <3>1, <3>2
      <4>2. out_vc_state'[vc] = "ACTIVE_"
        BY ONLY <2>3, <3>1, <3>2, Zenon
      <4> QED
        BY ONLY <2>2, <4>1, <4>2, Zenon
    <3>3. CASE vc \notin S
      <4>1. credits'[vc] = credits[vc] /\ ni_out_vcs'[vc] = Flits(vc)
        BY ONLY <2>1, <2>3, <3>1, <3>3
      <4>2. CASE Made(vc)
        <5>1. out_vc_state'[vc] = "ACTIVE_" /\ out_vc_state[vc] = "IDLE_"
          BY ONLY <2>3, <3>1, <4>2, Zenon
        <5> QED
          BY ONLY <2>2, <2>3, <4>1, <5>1, Zenon
      <4>3. CASE ~Made(vc)
        <5>1. out_vc_state'[vc] = out_vc_state[vc] /\ (Flits(vc) # {} => ni_out_vcs[vc] # {})
          BY ONLY <2>3, <3>1, <4>3, Zenon
        <5> QED
          BY ONLY <2>2, <2>3, <4>1, <5>1, Zenon
      <4> QED
        BY <4>2, <4>3, Zenon
    <3> QED
      BY <3>2, <3>3, Zenon
  <2> QED
    BY <2>4, <2>5, Zenon
<1>6. vc_allocator' \in [Vnets -> 0 .. (VcsPerVnet - 1)]
  BY AllocatorStays
<1>7. credits' \in [VCs -> {0, 1}]
  <2>1. credits' = [vc \in VCs |-> credits'[vc]]
    BY <1>2
  <2> QED
    BY <1>5, <2>1
<1>8. out_vc_state' \in [VCs -> {"IDLE_", "ACTIVE_"}]
  <2>1. out_vc_state' = [vc \in VCs |-> out_vc_state'[vc]]
    BY <1>2
  <2> QED
    BY <1>5, <2>1, Zenon
<1> QED
  BY <1>5, <1>6, <1>7, <1>8, Zenon DEF VcsRight

\* The half of the wakeup that sends keeps the invariant.
LEMMA SendStep ==
    ASSUME SendInv, Send
    PROVE  SendInv'
<1>1. SendRight(NodeAfter, queued, OutAfter, TimeAfter, sent)
  <2>1. sent \in Seq(Vnets \X Nat \X Nat)
    BY DEF SendInv, SendRight
  <2> QED
    BY <2>1, MakeMessages, MakeFlits, MakeTimes, Zenon DEF SendRight
<1>2. /\ in_node' = NodeAfter /\ queued' = queued
      /\ vc_allocator' = [v \in Vnets |-> NextAllocator(v)]
  BY DEF Send, NodeAfter
<1>3. CASE Leave({}) /\ UNCHANGED sent
  <2>1. ni_out_vcs' = OutAfter /\ enqueue_time' = TimeAfter
    BY <1>3 DEF Leave, OutAfter, TimeAfter
  <2>2. SendRight(in_node', queued', ni_out_vcs', enqueue_time', sent')
    BY <1>1, <1>2, <1>3, <2>1, Zenon
  <2>3. \A vc \in {} : vc \in VCs /\ IsCandidate(vc)
    OBVIOUS
  <2>4. VcsRight'
    BY <1>2, <1>3, <2>3, LeaveVcs, Zenon
  <2> QED
    BY <2>2, <2>4 DEF SendInv
<1>4. ASSUME NEW vc \in Served, Leave({vc}), sent' = Append(sent, getTopFlit(vc))
      PROVE  SendInv'
  <2> DEFINE f == getTopFlit(vc)
  <2>1. vc \in VCs /\ IsCandidate(vc)
    BY Zenon DEF Served
  <2>2. f \in OutAfter[vc]
    <3>1. Flits(vc) # {} /\ Flits(vc) = OutAfter[vc]
      BY <2>1, VcFacts, Zenon DEF IsCandidate
    <3> QED
      BY <3>1 DEF getTopFlit
  <2> HIDE DEF f
  <2>3. f[1] \in Vnets /\ vc \in VcsOf(f[1])
    <3>1. f \in Vnets \X Nat \X Nat /\ vc \in VcsOf(f[1])
      BY <1>1, <2>1, <2>2, Zenon DEF SendRight, Unique
    <3> QED
      BY <3>1, Zenon
  <2>4. f[1] \in Ordered => \A u \in VcsOf(f[1]) : OutAfter[u] # {} => TimeAfter[u] >= TimeAfter[vc]
    <3>1. get_vnet(vc) = f[1]
      BY <2>3, VnetOfVc, Zenon
    <3>2. \A u \in VcsOf(f[1]) : u \in VCs
      BY <2>3, VnetOfVc, Zenon
    <3>3. f[1] \in Ordered => \A u \in VcsOf(f[1]) : Flits(u) # {} => Time(u) >= Time(vc)
      BY <2>1, <3>1, Zenon DEF IsCandidate
    <3> QED
      BY <2>1, <3>2, <3>3, VcFacts, Zenon
  <2>5. SendRight(NodeAfter, queued, [u \in VCs |-> IF u = vc THEN {} ELSE OutAfter[u]],
                  [u \in VCs |-> IF u = vc THEN 0 ELSE TimeAfter[u]], Append(sent, f))
    BY ONLY <1>1, <2>1, <2>2, <2>4, TakeFlit
  <2>6. /\ ni_out_vcs' = [u \in VCs |-> IF u = vc THEN {} ELSE OutAfter[u]]
        /\ enqueue_time' = [u \in VCs |-> IF u = vc THEN 0 ELSE TimeAfter[u]]
    BY <1>4, Zenon DEF Leave, OutAfter, TimeAfter
  <2>7. SendRight(in_node', queued', ni_out_vcs', enqueue_time', sent')
    BY <1>2, <1>4, <2>5, <2>6, Zenon DEF f
  <2>8. \A u \in {vc} : u \in VCs /\ IsCandidate(u)
    BY <2>1, Zenon
  <2>9. VcsRight'
    BY <1>2, <1>4, <2>8, LeaveVcs, Zenon
  <2> QED
    BY <2>7, <2>9 DEF SendInv
<1> QED
  BY <1>3, <1>4, Zenon DEF Send

\* A message that a controller enqueues waits for all its flits.
LEMMA EnqueueStep ==
    ASSUME SendInv, NEW v \in Vnets, protocol_enqueue(v)
    PROVE  SendInv'
<1> DEFINE q == queued[v]
           s == in_node[v]
           m == <<q + 1, Dests[v][q + 1]>>
           n == Len(s)
<1>1. /\ MessagesRight(in_node, queued) /\ FlitsRight(in_node, queued, ni_out_vcs, sent)
      /\ ni_out_vcs \in [VCs -> SUBSET (Vnets \X Nat \X Nat)]
      /\ sent \in Seq(Vnets \X Nat \X Nat) /\ Unique(ni_out_vcs, sent)
      /\ Ages(ni_out_vcs, enqueue_time, sent) /\ Clocked(ni_out_vcs, enqueue_time, sent)
      /\ VcsRight
  BY DEF SendInv, SendRight
<1>2. /\ in_node \in [Vnets -> Seq(Nat \X SUBSET Nat)] /\ queued \in [Vnets -> Nat]
      /\ \A w \in Vnets : Len(in_node[w]) <= queued[w] /\ queued[w] <= Len(Dests[w])
      /\ \A w \in Vnets : \A k \in 1 .. Len(in_node[w]) :
            /\ in_node[w][k][1] = Done(in_node, queued, w) + k
            /\ in_node[w][k][2] \subseteq Dests[w][Done(in_node, queued, w) + k]
            /\ k > 1 => in_node[w][k][2] = Dests[w][Done(in_node, queued, w) + k]
  BY <1>1, Zenon DEF MessagesRight
<1>3. /\ q < Len(Dests[v]) /\ in_node' = [in_node EXCEPT ![v] = Append(s, m)]
      /\ queued' = [queued EXCEPT ![v] = q + 1]
      /\ UNCHANGED <<vc_allocator, ni_out_vcs, enqueue_time, out_vc_state, credits, sent, in_credit>>
  BY Zenon DEF protocol_enqueue
<1>4. /\ q \in Nat /\ n \in Nat /\ n <= q /\ s \in Seq(Nat \X SUBSET Nat)
      /\ q + 1 <= Len(Dests[v])
  <2>1. q \in Nat /\ s \in Seq(Nat \X SUBSET Nat) /\ n <= q
    BY <1>2, Zenon
  <2>2. Len(Dests[v]) \in Nat
    BY InterfaceAssumption
  <2> QED
    BY <1>3, <2>1, <2>2
<1>5. m \in Nat \X SUBSET Nat /\ m[1] = q + 1 /\ m[2] = Dests[v][q + 1]
  <2>1. Dests[v] \in Seq(SUBSET Nat) /\ q + 1 \in 1 .. Len(Dests[v])
    BY <1>4, InterfaceAssumption
  <2>2. Dests[v][q + 1] \in SUBSET Nat
    BY <2>1
  <2> QED
    BY <1>4, <2>2
<1> HIDE DEF q, s, m, n
<1>6. /\ in_node' \in [Vnets -> Seq(Nat \X SUBSET Nat)] /\ queued' \in [Vnets -> Nat]
      /\ in_node'[v] = Append(s, m) /\ queued'[v] = q + 1
      /\ \A w \in Vnets : w # v => in_node'[w] = in_node[w] /\ queued'[w] = queued[w]
  BY <1>2, <1>3, <1>4, <1>5
<1>7. /\ Len(Append(s, m)) = n + 1 /\ Append(s, m)[n + 1] = m
      /\ \A k \in 1 .. n : Append(s, m)[k] = s[k]
  BY <1>4, <1>5 DEF n
<1>8. \A w \in Vnets : Done(in_node', queued', w) = Done(in_node, queued, w)
  <2>1. Done(in_node', queued', v) = (q + 1) - (n + 1) /\ Done(in_node, queued, v) = q - n
    BY <1>6, <1>7, Zenon DEF Done, q, s, n
  <2>2. (q + 1) - (n + 1) = q - n
    BY <1>4
  <2>3. \A w \in Vnets : w # v => Done(in_node', queued', w) = Done(in_node, queued, w)
    BY <1>6, Zenon DEF Done
  <2> QED
    BY <2>1, <2>2, <2>3, Zenon
<1>9. Done(in_node, queued, v) = q - n /\ q - n \in Nat
  BY <1>4 DEF Done, q, s, n
<1>10. ASSUME NEW w \in Vnets
       PROVE  /\ Len(in_node'[w]) <= queued'[w] /\ queued'[w] <= Len(Dests[w])
              /\ \A k \in 1 .. Len(in_node'[w]) :
                    /\ in_node'[w][k][1] = Done(in_node', queued', w) + k
                    /\ in_node'[w][k][2] \subseteq Dests[w][Done(in_node', queued', w) + k]
                    /\ k > 1 => in_node'[w][k][2] = Dests[w][Done(in_node', queued', w) + k]
  <2>1. CASE w # v
    <3>1. /\ in_node'[w] = in_node[w] /\ queued'[w] = queued[w]
          /\ Done(in_node', queued', w) = Done(in_node, queued, w)
      BY <1>6, <1>8, <2>1, Zenon
    <3> QED
      BY <1>2, <3>1, Zenon
  <2>2. CASE w = v
    <3>1. Len(in_node'[v]) = n + 1 /\ n + 1 <= q + 1 /\ q + 1 <= Len(Dests[v])
      BY <1>4, <1>6, <1>7
    <3>2. ASSUME NEW k \in 1 .. (n + 1)
          PROVE  /\ in_node'[v][k][1] = (q - n) + k
                 /\ in_node'[v][k][2] \subseteq Dests[v][(q - n) + k]
                 /\ k > 1 => in_node'[v][k][2] = Dests[v][(q - n) + k]
      <4>1. CASE k \in 1 .. n
        <5>1. in_node'[v][k] = in_node[v][k]
          BY <1>6, <1>7, <4>1, Zenon DEF s
        <5>2. k \in 1 .. Len(in_node[v])
          BY <4>1, Zenon DEF n, s
        <5> QED
          BY <1>2, <1>9, <5>1, <5>2, Zenon
      <4>2. CASE k = n + 1
        <5>1. in_node'[v][k] = m /\ (q - n) + k = q + 1
          BY <1>4, <1>6, <1>7, <4>2
        <5> QED
          BY <1>5, <5>1, Zenon
      <4> QED
        BY <1>4, <4>1, <4>2
    <3>3. Done(in_node', queued', w) = q - n /\ queued'[v] = q + 1
      BY <1>6, <1>8, <1>9, <2>2, Zenon
    <3>4. Len(in_node'[v]) <= queued'[v] /\ queued'[v] <= Len(Dests[v])
      BY <3>1, <3>3, Zenon
    <3>5. 1 .. Len(in_node'[v]) = 1 .. (n + 1)
      BY <3>1
    <3> QED
      BY <2>2, <3>2, <3>3, <3>4, <3>5, Zenon
  <2> QED
    BY <2>1, <2>2, Zenon
<1>11. MessagesRight(in_node', queued')
  BY <1>6, <1>10, Zenon DEF MessagesRight
<1>12. \A f : IsDue(queued, f) => IsDue(queued', f)
  <2> SUFFICES ASSUME NEW f, IsDue(queued, f) PROVE IsDue(queued', f)
    BY Zenon
  <2>1. f \in Vnets \X Nat \X Nat /\ f[1] \in Vnets /\ f[2] \in 1 .. queued[f[1]] /\ f[3] \in Dests[f[1]][f[2]]
    BY DEF IsDue
  <2>2. f[2] \in 1 .. queued'[f[1]]
    <3>1. CASE f[1] = v
      <4>1. queued'[f[1]] = q + 1 /\ f[2] \in 1 .. q
        BY <1>6, <2>1, <3>1, Zenon DEF q
      <4> QED
        BY <1>4, <4>1
    <3>2. CASE f[1] # v
      <4>1. queued'[f[1]] = queued[f[1]]
        BY <1>6, <2>1, <3>2, Zenon
      <4> QED
        BY <2>1, <4>1, Zenon
    <3> QED
      BY <3>1, <3>2, Zenon
  <2> QED
    BY <2>1, <2>2, Zenon DEF IsDue
<1>13. FlitsRight(in_node', queued', ni_out_vcs, sent)
  <2>1. /\ \A j \in DOMAIN sent : IsDue(queued, sent[j])
        /\ \A vc \in VCs : \A f \in ni_out_vcs[vc] : IsDue(queued, f)
        /\ \A w \in Vnets : \A i \in 1 .. queued[w] : \A d \in Dests[w][i] :
              IsMade(ni_out_vcs, sent, <<w, i, d>>) <=> ~IsLeft(in_node, queued, w, i, d)
    BY <1>1, Zenon DEF FlitsRight
  <2>2. ASSUME NEW w \in Vnets, NEW i \in 1 .. queued'[w], NEW d \in Dests[w][i]
        PROVE  IsMade(ni_out_vcs, sent, <<w, i, d>>) <=> ~IsLeft(in_node', queued', w, i, d)
    <3>1. CASE w # v
      <4>1. /\ in_node'[w] = in_node[w] /\ i \in 1 .. queued[w]
            /\ Done(in_node', queued', w) = Done(in_node, queued, w)
        BY <1>6, <1>8, <3>1, Zenon
      <4>2. IsLeft(in_node', queued', w, i, d) <=> IsLeft(in_node, queued, w, i, d)
        BY <4>1, Zenon DEF IsLeft
      <4> QED
        BY <2>1, <4>1, <4>2, Zenon
    <3>2. CASE w = v /\ i \in 1 .. q
      <4>1. i \in 1 .. queued[w]
        BY <3>2 DEF q
      <4>2. IsLeft(in_node', queued', w, i, d) <=> IsLeft(in_node, queued, w, i, d)
        <5>1. CASE i > q - n
          <6>1. i - (q - n) \in 1 .. n
            BY <1>4, <3>2, <5>1
          <6>2. in_node'[v][i - (q - n)] = in_node[v][i - (q - n)]
            BY <1>6, <1>7, <6>1, Zenon DEF s
          <6> QED
            BY <1>8, <1>9, <3>2, <6>2, Zenon DEF IsLeft
        <5>2. CASE ~(i > q - n)
          BY <1>8, <1>9, <3>2, <5>2, Zenon DEF IsLeft
        <5> QED
          BY <5>1, <5>2, Zenon
      <4> QED
        BY <2>1, <4>1, <4>2, Zenon
    <3>3. CASE w = v /\ i = q + 1
      <4>1. i > q - n /\ i - (q - n) = n + 1
        BY <1>4, <3>3
      <4>2. in_node'[v][n + 1] = m
        BY <1>6, <1>7, Zenon
      <4>3. d \in m[2]
        BY <1>5, <3>3, Zenon
      <4>4. IsLeft(in_node', queued', w, i, d)
        BY <1>8, <1>9, <3>3, <4>1, <4>2, <4>3, Zenon DEF IsLeft
      <4>5. ~IsDue(queued, <<w, i, d>>)
        <5>1. <<w, i, d>>[1] = v /\ <<w, i, d>>[2] = q + 1
          BY <3>3, Zenon
        <5>2. q + 1 \notin 1 .. queued[v]
          BY <1>4 DEF q
        <5> QED
          BY <5>1, <5>2, Zenon DEF IsDue
      <4>6. ~IsMade(ni_out_vcs, sent, <<w, i, d>>)
        BY <2>1, <4>5, Zenon DEF IsMade
      <4> QED
        BY <4>4, <4>6, Zenon
    <3>4. w # v \/ (w = v /\ i \in 1 .. q) \/ (w = v /\ i = q + 1)
      BY <1>4, <1>6
    <3> QED
      BY <3>1, <3>2, <3>3, <3>4, Zenon
  <2> QED
    BY <1>12, <2>1, <2>2, Zenon DEF FlitsRight
<1>14. SendRight(in_node', queued', ni_out_vcs', enqueue_time', sent')
  <2>1. SendRight(in_node', queued', ni_out_vcs, enqueue_time, sent)
    BY <1>1, <1>11, <1>13, Zenon DEF SendRight
  <2> QED
    BY <1>3, <2>1
<1>15. VcsRight'
  BY <1>1, <1>3, Zenon DEF VcsRight
<1> QED
  BY <1>14, <1>15, Zenon DEF SendInv

\* The interface starts with nothing to send.
LEMMA SendInit == Init => SendInv
<1> SUFFICES ASSUME Init PROVE SendInv
  BY Zenon
<1>1. /\ in_node = [v \in Vnets |-> <<>>] /\ queued = [v \in Vnets |-> 0]
      /\ vc_allocator = [v \in Vnets |-> 0]
      /\ ni_out_vcs = [vc \in VCs |-> {}] /\ enqueue_time = [vc \in VCs |-> 0]
      /\ out_vc_state = [vc \in VCs |-> "IDLE_"] /\ credits = [vc \in VCs |-> 1]
      /\ sent = <<>> /\ in_credit = <<>>
  BY Zenon DEF Init, None
<1>2. MessagesRight(in_node, queued)
  <2>1. \A v \in Vnets : Len(Dests[v]) \in Nat
    BY InterfaceAssumption
  <2>2. Len(<<>>) = 0
    OBVIOUS
  <2>3. /\ in_node \in [Vnets -> Seq(Nat \X SUBSET Nat)] /\ queued \in [Vnets -> Nat]
        /\ \A v \in Vnets : in_node[v] = <<>> /\ queued[v] = 0
    BY <1>1
  <2> QED
    BY <2>1, <2>2, <2>3 DEF MessagesRight
<1>3. \A vc \in VCs : ni_out_vcs[vc] = {}
  BY <1>1, Zenon
<1>4. DOMAIN sent = {} /\ sent \in Seq(Vnets \X Nat \X Nat)
  BY <1>1
<1>5. FlitsRight(in_node, queued, ni_out_vcs, sent)
  <2>1. \A v \in Vnets : 1 .. queued[v] = {}
    BY <1>1
  <2> QED
    BY <1>3, <1>4, <2>1, Zenon DEF FlitsRight
<1>6. Unique(ni_out_vcs, sent) /\ Ages(ni_out_vcs, enqueue_time, sent)
  BY <1>3, <1>4, Zenon DEF Unique, Ages
<1>7. Clocked(ni_out_vcs, enqueue_time, sent)
  BY <1>1, <1>3, Zenon DEF Clocked, Waiting
<1>8. ni_out_vcs \in [VCs -> SUBSET (Vnets \X Nat \X Nat)]
  BY <1>1, Zenon
<1>9. VcsRight
  <2>1. vc_allocator \in [Vnets -> 0 .. (VcsPerVnet - 1)]
    BY <1>1, InterfaceAssumption
  <2> QED
    BY <1>1, <2>1 DEF VcsRight
<1> QED
  BY <1>2, <1>4, <1>5, <1>6, <1>7, <1>8, <1>9, Zenon DEF SendInv, SendRight

\* The invariant says nothing about what the other steps change.
LEMMA SendStays ==
    ASSUME SendInv, UNCHANGED sendVars
    PROVE  SendInv'
<1>1. UNCHANGED <<in_node, queued, vc_allocator, ni_out_vcs, enqueue_time, out_vc_state,
                  credits, sent, in_credit>>
  BY DEF sendVars
<1>2. SendRight(in_node', queued', ni_out_vcs', enqueue_time', sent')
  BY <1>1, Zenon DEF SendInv
<1>3. VcsRight'
  BY <1>1 DEF SendInv, VcsRight
<1> QED
  BY <1>2, <1>3, Zenon DEF SendInv

\* The sending side is right after every step: what flitisizeMessage has made
\* and what is left are the messages that were queued.
THEOREM SendInvariant == Spec => []SendInv
<1>1. SendInv /\ [Next]_vars => SendInv'
  <2> SUFFICES ASSUME SendInv, [Next]_vars PROVE SendInv'
    OBVIOUS
  <2>1. CASE wakeup
    BY <2>1, SendStep, Zenon DEF wakeup
  <2>2. CASE Tick
    BY <2>2, SendStays, Zenon DEF Tick
  <2>3. ASSUME NEW v \in Vnets, protocol_enqueue(v) \/ flit_arrives(v) \/ protocol_dequeue(v)
        PROVE  SendInv'
    <3>1. CASE protocol_enqueue(v)
      BY <3>1, EnqueueStep, Zenon
    <3>2. CASE flit_arrives(v)
      BY <3>2, SendStays, Zenon DEF flit_arrives
    <3>3. CASE protocol_dequeue(v)
      BY <3>3, SendStays, Zenon DEF protocol_dequeue
    <3> QED
      BY <2>3, <3>1, <3>2, <3>3, Zenon
  <2>4. ASSUME NEW vc \in VCs, credit_arrives(vc)
        PROVE  SendInv'
    <3>1. /\ UNCHANGED <<in_node, queued, vc_allocator, ni_out_vcs, enqueue_time, out_vc_state,
                         credits, sent>>
          /\ credits[vc] = 0 /\ in_credit' = <<vc>>
      BY <2>4, Zenon DEF credit_arrives
    <3>2. SendRight(in_node', queued', ni_out_vcs', enqueue_time', sent')
      BY <3>1, Zenon DEF SendInv
    <3>3. VcsRight'
      BY <3>1, Zenon DEF SendInv, VcsRight
    <3> QED
      BY <3>2, <3>3, Zenon DEF SendInv
  <2>5. CASE UNCHANGED vars
    BY <2>5, SendStays DEF vars
  <2> QED
    BY <2>1, <2>2, <2>3, <2>4, <2>5, Zenon DEF Next
<1> QED
  BY <1>1, SendInit, PTL DEF Spec

\* The flits of an ordered vnet leave in the order of their messages: the
\* times that scheduleOutputLink compares order the flits in the VCs.
THEOREM FlitsLeaveInOrder == Spec => []OrderedLeave
<1>1. SendInv => OrderedLeave
  BY Zenon DEF SendInv, SendRight, Ages, OrderedLeave
<1> QED
  BY <1>1, SendInvariant, PTL

\* Every destination of a message has one flit, sent or waiting in a VC, or is
\* left in the message: flitisizeMessage resumes where no VC was free.
THEOREM EachDestinationOneFlit == Spec => []OneFlitEach
<1>1. ASSUME SendInv
      PROVE  OneFlitEach
  <2>1. /\ MessagesRight(in_node, queued) /\ FlitsRight(in_node, queued, ni_out_vcs, sent)
        /\ Unique(ni_out_vcs, sent)
    BY <1>1, Zenon DEF SendInv, SendRight
  <2>2. \A g : g \in Range(sent) \cup UNION {ni_out_vcs[vc] : vc \in VCs} <=> IsMade(ni_out_vcs, sent, g)
    BY DEF Range, IsMade
  <2>3. \A g : IsMade(ni_out_vcs, sent, g) => IsDue(queued, g)
    BY <2>1, Zenon DEF FlitsRight, IsMade
  <2>4. ASSUME NEW v \in Vnets, NEW i \in 1 .. queued[v]
        PROVE  /\ FlitsMade(v, i) \cup DestsLeft(v, i) = Dests[v][i]
               /\ FlitsMade(v, i) \cap DestsLeft(v, i) = {}
    <3>1. \A x : x \in FlitsMade(v, i) <=> IsMade(ni_out_vcs, sent, <<v, i, x>>)
      <4>1. \A x : x \in FlitsMade(v, i)
                     <=> \E g : IsMade(ni_out_vcs, sent, g) /\ g[1] = v /\ g[2] = i /\ x = g[3]
        BY <2>2, Zenon DEF FlitsMade
      <4>2. ASSUME NEW g, NEW x, IsMade(ni_out_vcs, sent, g), g[1] = v, g[2] = i, x = g[3]
            PROVE  IsMade(ni_out_vcs, sent, <<v, i, x>>)
        <5>1. g = <<v, i, x>>
          BY <2>3, <4>2 DEF IsDue
        <5> QED
          BY <4>2, <5>1, Zenon
      <4>3. \A x : <<v, i, x>>[1] = v /\ <<v, i, x>>[2] = i /\ <<v, i, x>>[3] = x
        OBVIOUS
      <4> QED
        BY <4>1, <4>2, <4>3, Zenon
    <3>2. \A x : IsMade(ni_out_vcs, sent, <<v, i, x>>) => x \in Dests[v][i]
      <4>1. \A x : IsDue(queued, <<v, i, x>>) => x \in Dests[v][i]
        BY Zenon DEF IsDue
      <4> QED
        BY <2>3, <4>1, Zenon
    <3> DEFINE s == in_node[v]
               D == Done(in_node, queued, v)
    <3>3. /\ s \in Seq(Nat \X SUBSET Nat) /\ D \in Nat /\ Len(s) \in Nat /\ queued[v] = D + Len(s)
          /\ \A k \in 1 .. Len(s) : s[k][1] = D + k /\ s[k][2] \subseteq Dests[v][D + k]
      <4>1. /\ s \in Seq(Nat \X SUBSET Nat) /\ queued[v] \in Nat /\ Len(s) <= queued[v]
            /\ \A k \in 1 .. Len(s) : s[k][1] = D + k /\ s[k][2] \subseteq Dests[v][D + k]
        BY <2>1, Zenon DEF MessagesRight
      <4>2. D = queued[v] - Len(s)
        BY Zenon DEF Done
      <4>3. Len(s) \in Nat
        BY <4>1
      <4> HIDE DEF s, D
      <4> QED
        BY <4>1, <4>2, <4>3
    <3>4. \A x : x \in DestsLeft(v, i) <=> \E k \in 1 .. Len(s) : s[k][1] = i /\ x \in s[k][2]
      <4>1. DOMAIN s = 1 .. Len(s)
        BY <3>3
      <4> QED
        BY <4>1, Zenon DEF DestsLeft, Range
    <3>5. \A x : IsLeft(in_node, queued, v, i, x) <=> i > D /\ x \in s[i - D][2]
      BY Zenon DEF IsLeft
    <3> HIDE DEF s, D
    <3>6. /\ \A k \in 1 .. Len(s) : s[k][1] = i => k = i - D
          /\ i > D => i - D \in 1 .. Len(s) /\ s[i - D][1] = i /\ s[i - D][2] \subseteq Dests[v][i]
          /\ \A k \in 1 .. Len(s) : k = i - D => i > D
      <4>1. ASSUME i > D
            PROVE  i - D \in 1 .. Len(s) /\ s[i - D][1] = i /\ s[i - D][2] \subseteq Dests[v][i]
        <5>1. i - D \in 1 .. Len(s) /\ D + (i - D) = i
          BY <3>3, <4>1
        <5> QED
          BY <3>3, <5>1, Zenon
      <4>2. \A k \in 1 .. Len(s) : s[k][1] = i => k = i - D
        BY <3>3
      <4>3. \A k \in 1 .. Len(s) : k = i - D => i > D
        BY <3>3
      <4> QED
        BY <4>1, <4>2, <4>3, Zenon
    <3>7. \A x : x \in DestsLeft(v, i) <=> IsLeft(in_node, queued, v, i, x)
      <4>1. ASSUME NEW x, NEW k \in 1 .. Len(s), s[k][1] = i, x \in s[k][2]
            PROVE  i > D /\ x \in s[i - D][2]
        <5>1. k = i - D
          BY <3>6, <4>1, Zenon
        <5>2. i > D
          BY <3>6, <5>1, Zenon
        <5> QED
          BY <4>1, <5>1, <5>2, Zenon
      <4> QED
        BY <3>4, <3>5, <3>6, <4>1, Zenon
    <3>8. \A x : IsLeft(in_node, queued, v, i, x) => x \in Dests[v][i]
      BY <3>5, <3>6, Zenon
    <3>9. \A x \in Dests[v][i] : IsMade(ni_out_vcs, sent, <<v, i, x>>) <=> ~IsLeft(in_node, queued, v, i, x)
      BY <2>1, Zenon DEF FlitsRight
    <3>10. \A x : x \in FlitsMade(v, i) \cup DestsLeft(v, i) <=> x \in Dests[v][i]
      BY <3>1, <3>2, <3>7, <3>8, <3>9, Zenon
    <3>11. \A x : x \notin FlitsMade(v, i) \cap DestsLeft(v, i)
      BY <3>1, <3>2, <3>7, <3>9, Zenon
    <3> QED
      BY ONLY <3>10, <3>11, Zenon
  <2>5. IsInjective(sent)
    BY <2>1, Zenon DEF Unique, IsInjective
  <2>6. \A vc \in VCs : ni_out_vcs[vc] \cap Range(sent) = {}
    BY <2>1 DEF Unique, Range
  <2> QED
    BY <2>4, <2>5, <2>6, Zenon DEF OneFlitEach
<1> QED
  BY <1>1, SendInvariant, PTL
-----------------------------------------------------------------------------
\* What every router and every counter keeps to; the end of the simulation
\* was tested on the last flit.
MarkedInv ==
    /\ mrkd_flt \in [Routers -> Nat]
    /\ flying \in Nat
    /\ marked_flt_injected \in Nat /\ marked_flt_received \in Nat
    /\ marked_flt_injected = marked_flt_received + flying
    /\ sim_exit = "all_received" =>
         /\ \A r \in Routers : mrkd_flt[r] = 0
         /\ marked_flt_received >= marked_flt_injected

\* flitisizeMessage marks at most the flits its router has still to mark.
LEMMA MarkedBounded ==
    ASSUME mrkd_flt \in [Routers -> Nat], NEW r \in Routers, mrkd_flt[r] > 0
    PROVE  Marked(r) \in Nat /\ Marked(r) <= mrkd_flt[r]
BY MarkedAssumption DEF Marked

\* The invariant holds at the start and every step keeps it.
LEMMA MarkedInvariant == MarkedSpec => []MarkedInv
<1>1. MarkedInit => MarkedInv
  BY MarkedAssumption DEF MarkedInit, MarkedInv
<1>2. MarkedInv /\ [MarkedNext]_markedVars => MarkedInv'
  <2> SUFFICES ASSUME MarkedInv, [MarkedNext]_markedVars
               PROVE  MarkedInv'
    BY Zenon
  <2>1. ASSUME NEW r \in Routers, flitisizeMessage(r)
        PROVE  MarkedInv'
    <3>1. PICK m \in Nat : m = Marked(r) /\ m <= mrkd_flt[r]
      BY <2>1, MarkedBounded, Zenon DEF MarkedInv, flitisizeMessage
    <3>2. /\ mrkd_flt' = [mrkd_flt EXCEPT ![r] = mrkd_flt[r] - m]
          /\ flying' = flying + m
          /\ marked_flt_injected' = marked_flt_injected + m
          /\ marked_flt_received' = marked_flt_received
          /\ sim_exit' = "no"
      BY <2>1, <3>1 DEF flitisizeMessage
    <3>3. mrkd_flt' \in [Routers -> Nat]
      BY <3>1, <3>2 DEF MarkedInv
    <3> QED
      BY <3>1, <3>2, <3>3 DEF MarkedInv
  <2>2. ASSUME NEW lat \in Latencies, incrementStats(lat)
        PROVE  MarkedInv'
    <3> DEFINE count == marked_flt_received + 1
    <3>1. /\ flying > 0 /\ flying' = flying - 1
          /\ marked_flt_received' = count
          /\ marked_flt_injected' = marked_flt_injected
          /\ mrkd_flt' = mrkd_flt
      BY <2>2 DEF incrementStats
    <3>2. sim_exit' = "all_received" => check_mrkd_flt(count)
      BY <2>2 DEF incrementStats, check_network_saturation
    <3> QED
      BY <3>1, <3>2 DEF MarkedInv, check_mrkd_flt
  <2>3. CASE incrementStatsUnmarked
    <3>1. UNCHANGED counters /\ sim_exit' # "all_received"
      BY <2>3 DEF incrementStatsUnmarked, check_network_saturation
    <3> QED
      BY <3>1 DEF MarkedInv, counters
  <2>4. CASE TimePasses
    BY <2>4 DEF TimePasses, MarkedInv, counters
  <2>5. CASE UNCHANGED markedVars
    BY <2>5 DEF MarkedInv, markedVars, counters
  <2> QED
    BY <2>1, <2>2, <2>3, <2>4, <2>5 DEF MarkedNext
<1> QED
  BY <1>1, <1>2, PTL DEF MarkedSpec

\* For any routers, numbers of flits to mark, packets and latencies, the
\* simulation ends with all marked flits received only when every router has
\* marked its flits and none is in the network, so that the assertion of
\* increment_received_flits holds.
THEOREM ExitComplete == MarkedSpec => []ExitIsComplete
<1>1. MarkedInv => ExitIsComplete
  BY DEF MarkedInv, ExitIsComplete
<1> QED
  BY <1>1, MarkedInvariant, PTL
-----------------------------------------------------------------------------
\* The flits ejected so far, the stall queue and the number of flits that have
\* left the link fit: what has landed is ejected or stalled, in order.
InOrder(rcv, sq, landed) ==
    /\ rcv \in [Vnets -> Seq(Vnets \X Nat)]
    /\ sq \in Seq(Vnets \X Nat)
    /\ landed \in [Vnets -> Nat]
    /\ \A v \in Vnets : Len(rcv[v]) <= landed[v]
    /\ \A v \in Vnets : \A i \in DOMAIN rcv[v] : rcv[v][i] = <<v, i>>
    /\ \A k \in DOMAIN sq : Len(rcv[sq[k][1]]) < sq[k][2] /\ sq[k][2] <= landed[sq[k][1]]
    /\ \A k, l \in DOMAIN sq : k < l /\ sq[k][1] = sq[l][1] => sq[k][2] < sq[l][2]
    /\ \A v \in Vnets, n \in Nat :
          Len(rcv[v]) < n /\ n <= landed[v] => \E k \in DOMAIN sq : sq[k] = <<v, n>>

\* The flits that have left the link.
Landed ==
    [v \in Vnets |-> IF in_link # None /\ in_link[1] = v THEN arrived[v] - 1 ELSE arrived[v]]

ReceiveInv ==
    /\ arrived \in [Vnets -> Nat]
    /\ in_link # None => \E v \in Vnets : in_link = <<v, arrived[v]>> /\ arrived[v] > 0
    /\ InOrder(received, stall_queue, Landed)

\* Sequence t is s without its entry i.
IsErased(t, s, i) == t = SubSeq(s, 1, i - 1) \o SubSeq(s, i + 1, Len(s))

\* Entry i is the first one of its vnet.
IsFirst(sq, i) == \A j \in DOMAIN sq : j < i => sq[j][1] # sq[i][1]

\* Erasing an entry of a queue moves the later ones by one.
LEMMA EraseAt ==
    ASSUME NEW S, NEW s \in Seq(S), NEW i \in 1 .. Len(s), NEW t, IsErased(t, s, i)
    PROVE  /\ t \in Seq(S)
           /\ Len(t) = Len(s) - 1
           /\ \A k \in 1 .. Len(t) : t[k] = IF k < i THEN s[k] ELSE s[k + 1]
<1> DEFINE a == SubSeq(s, 1, i - 1)
           b == SubSeq(s, i + 1, Len(s))
<1>1. a \in Seq(S) /\ Len(a) = i - 1 /\ \A k \in 1 .. (i - 1) : a[k] = s[k]
  OBVIOUS
<1>2. b \in Seq(S) /\ Len(b) = Len(s) - i /\ \A k \in 1 .. (Len(s) - i) : b[k] = s[i + k]
  OBVIOUS
<1>3. t = a \o b
  BY DEF IsErased
<1>n. Len(s) \in Nat /\ i \in Nat /\ 1 <= i /\ i <= Len(s)
  OBVIOUS
<1> HIDE DEF a, b
<1>4. /\ t \in Seq(S) /\ Len(t) = Len(a) + Len(b)
      /\ \A k \in 1 .. Len(a) + Len(b) : t[k] = IF k <= Len(a) THEN a[k] ELSE b[k - Len(a)]
  <2>1. a \in Seq(S) /\ b \in Seq(S)
    BY <1>1, <1>2, Zenon
  <2> QED
    BY ONLY <2>1, <1>3
<1>5. Len(t) = Len(s) - 1
  BY ONLY <1>1, <1>2, <1>4, <1>n
<1> QED
  <2> SUFFICES ASSUME NEW k \in 1 .. Len(t)
               PROVE  t[k] = IF k < i THEN s[k] ELSE s[k + 1]
    BY <1>4, <1>5, Zenon
  <2>1. CASE k < i
    <3>1. k \in 1 .. Len(a) + Len(b) /\ k <= Len(a) /\ k \in 1 .. (i - 1)
      BY ONLY <2>1, <1>1, <1>2, <1>4, <1>n, k \in 1 .. Len(t)
    <3>2. t[k] = s[k]
      BY ONLY <3>1, <1>1, <1>4, Zenon
    <3> QED
      BY <2>1, <3>2, Zenon
  <2>2. CASE ~(k < i)
    <3> DEFINE j == k - Len(a)
    <3>1. /\ j \in 1 .. (Len(s) - i) /\ k \in 1 .. Len(a) + Len(b) /\ ~(k <= Len(a))
          /\ i + j = k + 1
      BY ONLY <2>2, <1>1, <1>2, <1>4, <1>n, k \in 1 .. Len(t)
    <3>2. t[k] = b[j] /\ b[j] = s[i + j]
      BY ONLY <3>1, <1>2, <1>4
    <3> QED
      BY <2>2, <3>1, <3>2, Zenon
  <2> QED
    BY <2>1, <2>2, Zenon

\* The parts of InOrder, with the types of what they speak of.
LEMMA InOrderFacts ==
    ASSUME NEW rcv, NEW sq, NEW landed, InOrder(rcv, sq, landed)
    PROVE  /\ Len(sq) \in Nat /\ DOMAIN sq = 1 .. Len(sq)
           /\ \A v \in Vnets : Len(rcv[v]) \in Nat /\ landed[v] \in Nat /\ Len(rcv[v]) <= landed[v]
           /\ \A k \in DOMAIN sq : /\ sq[k][1] \in Vnets /\ sq[k][2] \in Nat
                                    /\ sq[k] = <<sq[k][1], sq[k][2]>>
                                    /\ Len(rcv[sq[k][1]]) < sq[k][2]
                                    /\ sq[k][2] <= landed[sq[k][1]]
<1>1. Len(sq) \in Nat /\ DOMAIN sq = 1 .. Len(sq)
  BY DEF InOrder
<1>2. \A v \in Vnets : Len(rcv[v]) \in Nat /\ landed[v] \in Nat /\ Len(rcv[v]) <= landed[v]
  BY DEF InOrder
<1>3. \A k \in DOMAIN sq : sq[k][1] \in Vnets /\ sq[k][2] \in Nat /\ sq[k] = <<sq[k][1], sq[k][2]>>
  BY DEF InOrder
<1>4. \A k \in DOMAIN sq : Len(rcv[sq[k][1]]) < sq[k][2] /\ sq[k][2] <= landed[sq[k][1]]
  BY Zenon DEF InOrder
<1> QED
  BY <1>1, <1>2, <1>3, <1>4, Zenon

\* checkStallQueue: the first stalled flit of a vnet is its next flit.
LEMMA EjectStalled ==
    ASSUME NEW rcv, NEW sq, NEW landed, InOrder(rcv, sq, landed),
           NEW i \in DOMAIN sq, NEW t, IsErased(t, sq, i), IsFirst(sq, i)
    PROVE  InOrder([rcv EXCEPT ![sq[i][1]] = Append(@, sq[i])], t, landed)
<1> DEFINE v == sq[i][1]
           n == sq[i][2]
           new == [rcv EXCEPT ![v] = Append(@, sq[i])]
<1>a. rcv \in [Vnets -> Seq(Vnets \X Nat)] /\ sq \in Seq(Vnets \X Nat) /\ landed \in [Vnets -> Nat]
  BY Zenon DEF InOrder
<1>b. \A w \in Vnets : \A k \in DOMAIN rcv[w] : rcv[w][k] = <<w, k>>
  BY Zenon DEF InOrder
<1>c. \A k, l \in DOMAIN sq : k < l /\ sq[k][1] = sq[l][1] => sq[k][2] < sq[l][2]
  BY Zenon DEF InOrder
<1>d. \A w \in Vnets, m \in Nat :
         Len(rcv[w]) < m /\ m <= landed[w] => \E k \in DOMAIN sq : sq[k] = <<w, m>>
  BY Zenon DEF InOrder
<1>e. Len(sq) \in Nat /\ DOMAIN sq = 1 .. Len(sq)
  BY InOrderFacts, Zenon
<1>f. \A w \in Vnets : Len(rcv[w]) \in Nat /\ landed[w] \in Nat /\ Len(rcv[w]) <= landed[w]
  BY InOrderFacts, Zenon
<1>g. \A k \in DOMAIN sq : /\ sq[k][1] \in Vnets /\ sq[k][2] \in Nat
                           /\ sq[k] = <<sq[k][1], sq[k][2]>>
                           /\ Len(rcv[sq[k][1]]) < sq[k][2] /\ sq[k][2] <= landed[sq[k][1]]
  BY InOrderFacts, Zenon
<1>1. /\ v \in Vnets /\ n \in Nat /\ sq[i] = <<v, n>> /\ i \in 1 .. Len(sq)
      /\ Len(rcv[v]) < n /\ n <= landed[v] /\ landed[v] \in Nat /\ Len(rcv[v]) \in Nat
  BY <1>e, <1>f, <1>g, Zenon
<1>i. i \in 1 .. Len(sq)
  BY <1>1, Zenon
<1>4. /\ t \in Seq(Vnets \X Nat)
      /\ Len(t) = Len(sq) - 1
      /\ \A k \in 1 .. Len(t) : t[k] = IF k < i THEN sq[k] ELSE sq[k + 1]
  <2> DEFINE S == Vnets \X Nat
  <2>1. sq \in Seq(S)
    BY <1>a, Zenon
  <2> HIDE DEF S
  <2>2. /\ t \in Seq(S)
        /\ Len(t) = Len(sq) - 1
        /\ \A k \in 1 .. Len(t) : t[k] = IF k < i THEN sq[k] ELSE sq[k + 1]
    BY ONLY <2>1, <1>i, IsErased(t, sq, i), EraseAt
  <2> QED
    BY <2>2 DEF S
<1>t. Len(t) \in Nat /\ DOMAIN t = 1 .. Len(t) /\ Len(t) = Len(sq) - 1
  BY <1>4
<1>5. /\ new \in [Vnets -> Seq(Vnets \X Nat)]
      /\ new[v] = Append(rcv[v], sq[i])
      /\ \A w \in Vnets : w # v => new[w] = rcv[w]
  <2> DEFINE S == Vnets \X Nat
             x == sq[i]
  <2>1. rcv \in [Vnets -> Seq(S)] /\ v \in Vnets /\ x \in S /\ new = [rcv EXCEPT ![v] = Append(@, x)]
    BY <1>a, <1>1
  <2> HIDE DEF S, x, v, new
  <2>2. rcv[v] \in Seq(S) /\ Append(rcv[v], x) \in Seq(S)
    BY ONLY <2>1
  <2>3. /\ new \in [Vnets -> Seq(S)] /\ new[v] = Append(rcv[v], x)
        /\ \A w \in Vnets : w # v => new[w] = rcv[w]
    BY ONLY <2>1, <2>2, Zenon
  <2> QED
    BY <2>3, Zenon DEF S, x
<1>6. rcv[v] \in Seq(Vnets \X Nat) /\ sq[i] \in Vnets \X Nat
  BY <1>a, <1>1, Zenon
<1>7. /\ Len(new[v]) = Len(rcv[v]) + 1 /\ DOMAIN new[v] = 1 .. Len(rcv[v]) + 1
      /\ new[v][Len(rcv[v]) + 1] = sq[i]
      /\ \A k \in 1 .. Len(rcv[v]) : new[v][k] = rcv[v][k]
      /\ DOMAIN rcv[v] = 1 .. Len(rcv[v])
  BY ONLY <1>5, <1>6
<1>r. n = Len(rcv[v]) + 1
  <2> SUFFICES ASSUME n # Len(rcv[v]) + 1
               PROVE  FALSE
    BY Zenon
  <2> DEFINE m == Len(rcv[v]) + 1
  <2>1. m \in Nat /\ Len(rcv[v]) < m /\ m < n /\ m <= landed[v]
    BY ONLY <1>1, n # Len(rcv[v]) + 1
  <2>2. PICK k \in DOMAIN sq : sq[k] = <<v, m>>
    BY ONLY <1>1, <2>1, <1>d, Zenon
  <2>3. sq[k][1] = v /\ sq[k][2] = m
    BY ONLY <2>2
  <2>4. ~(k < i)
    BY <2>3, Zenon DEF IsFirst
  <2>5. ~(i < k)
    BY ONLY <1>c, <1>1, <2>1, <2>3, i \in DOMAIN sq, k \in DOMAIN sq
  <2>6. k # i
    BY <2>3, <2>1, <1>1, Zenon
  <2> QED
    BY ONLY <2>4, <2>5, <2>6, <1>e, i \in DOMAIN sq, k \in DOMAIN sq
<1> DEFINE from(k) == IF k < i THEN k ELSE k + 1
<1>8. \A k \in DOMAIN t : from(k) \in DOMAIN sq /\ from(k) # i /\ t[k] = sq[from(k)]
  <2> SUFFICES ASSUME NEW k \in DOMAIN t
               PROVE  from(k) \in DOMAIN sq /\ from(k) # i /\ t[k] = sq[from(k)]
    OBVIOUS
  <2>1. from(k) \in DOMAIN sq /\ from(k) # i
    BY ONLY <1>i, <1>t, <1>e, k \in DOMAIN t
  <2>2. t[k] = IF k < i THEN sq[k] ELSE sq[k + 1]
    BY <1>4, <1>t, Zenon
  <2> QED
    BY <2>1, <2>2, Zenon
<1>9. \A k, l \in DOMAIN t : k < l => from(k) < from(l)
  BY ONLY <1>1, <1>t
<1>10. ASSUME NEW l \in DOMAIN sq, l # i
       PROVE  \E k \in DOMAIN t : t[k] = sq[l]
  <2>1. CASE l < i
    <3>1. l \in DOMAIN t /\ t[l] = sq[l]
      BY ONLY <2>1, <1>1, <1>4, <1>t, <1>e, l \in DOMAIN sq
    <3> QED
      BY <3>1, Zenon
  <2>2. CASE i < l
    <3>1. l - 1 \in DOMAIN t /\ ~(l - 1 < i) /\ (l - 1) + 1 = l
      BY ONLY <2>2, <1>i, <1>t, <1>e, l \in DOMAIN sq
    <3>2. t[l - 1] = sq[l]
      BY ONLY <3>1, <1>4, <1>t, Zenon
    <3> QED
      BY <3>1, <3>2, Zenon
  <2> QED
    BY ONLY <2>1, <2>2, <1>1, <1>e, <1>10
<1> HIDE DEF v, n, new, from
<1>11. \A w \in Vnets : Len(new[w]) <= landed[w]
  BY ONLY <1>1, <1>5, <1>7, <1>r, <1>f, Zenon
<1>12. \A w \in Vnets : \A k \in DOMAIN new[w] : new[w][k] = <<w, k>>
  <2> SUFFICES ASSUME NEW w \in Vnets, NEW k \in DOMAIN new[w]
               PROVE  new[w][k] = <<w, k>>
    OBVIOUS
  <2>1. CASE w # v
    BY ONLY <2>1, <1>5, <1>b, w \in Vnets, k \in DOMAIN new[w], Zenon
  <2>2. CASE w = v /\ k = Len(rcv[v]) + 1
    BY ONLY <2>2, <1>7, <1>1, <1>r, Zenon
  <2>3. CASE w = v /\ k \in 1 .. Len(rcv[v])
    BY ONLY <2>3, <1>7, <1>b, <1>1, Zenon
  <2>4. w = v => k = Len(rcv[v]) + 1 \/ k \in 1 .. Len(rcv[v])
    BY ONLY <1>7, <1>1, k \in DOMAIN new[w]
  <2> QED
    BY <2>1, <2>2, <2>3, <2>4, Zenon
<1>13. ASSUME NEW k \in DOMAIN t
       PROVE  Len(new[t[k][1]]) < t[k][2] /\ t[k][2] <= landed[t[k][1]]
  <2>1. PICK l \in DOMAIN sq : l # i /\ t[k] = sq[l]
    BY <1>8, Zenon
  <2>2. /\ sq[l][1] \in Vnets /\ sq[l][2] \in Nat
        /\ Len(rcv[sq[l][1]]) < sq[l][2] /\ sq[l][2] <= landed[sq[l][1]]
    BY <1>g, Zenon
  <2>3. CASE sq[l][1] # v
    BY ONLY <2>1, <2>2, <2>3, <1>5, Zenon
  <2>4. CASE sq[l][1] = v
    <3>1. ~(l < i)
      BY <2>4 DEF v, IsFirst
    <3>2. i < l
      BY ONLY <3>1, <2>1, <1>e, i \in DOMAIN sq, l \in DOMAIN sq
    <3>3. n < sq[l][2]
      BY <3>2, <2>4, <1>c, Zenon DEF v, n
    <3> QED
      BY ONLY <2>1, <2>2, <2>4, <3>3, <1>1, <1>r, <1>7, Zenon
  <2> QED
    BY <2>3, <2>4, Zenon
<1>14. ASSUME NEW k \in DOMAIN t, NEW l \in DOMAIN t, k < l, t[k][1] = t[l][1]
       PROVE  t[k][2] < t[l][2]
  BY ONLY <1>14, <1>8, <1>9, <1>c, Zenon
<1>15. ASSUME NEW w \in Vnets, NEW m \in Nat, Len(new[w]) < m, m <= landed[w]
       PROVE  \E k \in DOMAIN t : t[k] = <<w, m>>
  <2>1. Len(rcv[w]) < m /\ ~(w = v /\ m = n)
    BY ONLY <1>15, <1>1, <1>5, <1>7, <1>r, <1>f
  <2>2. PICK l \in DOMAIN sq : sq[l] = <<w, m>>
    BY <2>1, <1>15, <1>d, Zenon
  <2>3. l # i
    BY <2>1, <2>2, <1>1
  <2> QED
    BY <2>2, <2>3, <1>10, Zenon
<1>16. InOrder(new, t, landed)
  BY <1>a, <1>4, <1>5, <1>11, <1>12, <1>13, <1>14, <1>15, Zenon DEF InOrder
<1> QED
  BY <1>16 DEF v, new

\* The flit on the link is ejected when no flit of its vnet is stalled.
LEMMA EjectLanding ==
    ASSUME NEW rcv, NEW sq, NEW landed, InOrder(rcv, sq, landed), NEW v \in Vnets,
           \A k \in DOMAIN sq : sq[k][1] # v
    PROVE  InOrder([rcv EXCEPT ![v] = Append(@, <<v, landed[v] + 1>>)], sq,
                   [landed EXCEPT ![v] = @ + 1])
<1> DEFINE f == <<v, landed[v] + 1>>
           new == [rcv EXCEPT ![v] = Append(@, f)]
           far == [landed EXCEPT ![v] = @ + 1]
<1>a. rcv \in [Vnets -> Seq(Vnets \X Nat)] /\ sq \in Seq(Vnets \X Nat) /\ landed \in [Vnets -> Nat]
  BY Zenon DEF InOrder
<1>b. \A w \in Vnets : \A k \in DOMAIN rcv[w] : rcv[w][k] = <<w, k>>
  BY Zenon DEF InOrder
<1>c. \A k, l \in DOMAIN sq : k < l /\ sq[k][1] = sq[l][1] => sq[k][2] < sq[l][2]
  BY Zenon DEF InOrder
<1>d. \A w \in Vnets, m \in Nat :
         Len(rcv[w]) < m /\ m <= landed[w] => \E k \in DOMAIN sq : sq[k] = <<w, m>>
  BY Zenon DEF InOrder
<1>e. Len(sq) \in Nat /\ DOMAIN sq = 1 .. Len(sq)
  BY InOrderFacts, Zenon
<1>f. \A w \in Vnets : Len(rcv[w]) \in Nat /\ landed[w] \in Nat /\ Len(rcv[w]) <= landed[w]
  BY InOrderFacts, Zenon
<1>g. \A k \in DOMAIN sq : /\ sq[k][1] \in Vnets /\ sq[k][2] \in Nat
                           /\ sq[k] = <<sq[k][1], sq[k][2]>>
                           /\ Len(rcv[sq[k][1]]) < sq[k][2] /\ sq[k][2] <= landed[sq[k][1]]
  BY InOrderFacts, Zenon
<1>1. Len(rcv[v]) = landed[v] /\ landed[v] \in Nat
  <2> SUFFICES ASSUME Len(rcv[v]) < landed[v]
               PROVE  FALSE
    BY <1>f
  <2>1. PICK k \in DOMAIN sq : sq[k] = <<v, landed[v]>>
    BY <1>d, <1>f
  <2> QED
    BY <2>1
<1>2. rcv[v] \in Seq(Vnets \X Nat) /\ f \in Vnets \X Nat /\ f[1] = v /\ f[2] = landed[v] + 1
  BY <1>a, <1>1
<1>3. /\ new \in [Vnets -> Seq(Vnets \X Nat)]
      /\ new[v] = Append(rcv[v], f)
      /\ \A w \in Vnets : w # v => new[w] = rcv[w]
  BY <1>a, <1>2
<1>4. f = <<v, landed[v] + 1>>
  BY Zenon
<1> HIDE DEF f, new
<1>5. /\ Len(new[v]) = Len(rcv[v]) + 1 /\ DOMAIN new[v] = 1 .. Len(rcv[v]) + 1
      /\ new[v][Len(rcv[v]) + 1] = f
      /\ \A k \in 1 .. Len(rcv[v]) : new[v][k] = rcv[v][k]
      /\ DOMAIN rcv[v] = 1 .. Len(rcv[v])
  BY ONLY <1>2, <1>3
<1>6. /\ far \in [Vnets -> Nat]
      /\ far[v] = landed[v] + 1
      /\ \A w \in Vnets : w # v => far[w] = landed[w]
  BY <1>a, <1>1
<1> HIDE DEF far
<1>7. \A w \in Vnets : Len(new[w]) <= far[w]
  <2>1. Len(new[v]) <= far[v]
    BY ONLY <1>1, <1>5, <1>6
  <2>2. \A w \in Vnets : w # v => Len(new[w]) <= far[w]
    BY ONLY <1>3, <1>6, <1>f, Zenon
  <2> QED
    BY <2>1, <2>2, Zenon
<1>8. \A w \in Vnets : \A k \in DOMAIN new[w] : new[w][k] = <<w, k>>
  <2> SUFFICES ASSUME NEW w \in Vnets, NEW k \in DOMAIN new[w]
               PROVE  new[w][k] = <<w, k>>
    OBVIOUS
  <2>1. CASE w # v
    BY ONLY <2>1, <1>3, <1>b, w \in Vnets, k \in DOMAIN new[w], Zenon
  <2>2. CASE w = v /\ k = Len(rcv[v]) + 1
    BY ONLY <2>2, <1>1, <1>4, <1>5, Zenon
  <2>3. CASE w = v /\ k \in 1 .. Len(rcv[v])
    BY ONLY <2>3, <1>5, <1>b, v \in Vnets, Zenon
  <2>4. w = v => k = Len(rcv[v]) + 1 \/ k \in 1 .. Len(rcv[v])
    BY ONLY <1>1, <1>5, k \in DOMAIN new[w]
  <2> QED
    BY <2>1, <2>2, <2>3, <2>4, Zenon
<1>9. ASSUME NEW k \in DOMAIN sq
      PROVE  Len(new[sq[k][1]]) < sq[k][2] /\ sq[k][2] <= far[sq[k][1]]
  <2>1. sq[k][1] \in Vnets /\ sq[k][1] # v
    BY <1>g, Zenon
  <2>2. new[sq[k][1]] = rcv[sq[k][1]] /\ far[sq[k][1]] = landed[sq[k][1]]
    BY <2>1, <1>3, <1>6, Zenon
  <2> QED
    BY <2>2, <1>g, Zenon
<1>10. ASSUME NEW w \in Vnets, NEW m \in Nat, Len(new[w]) < m, m <= far[w]
       PROVE  \E k \in DOMAIN sq : sq[k] = <<w, m>>
  <2>1. w # v
    BY ONLY <1>10, <1>1, <1>5, <1>6
  <2>2. Len(rcv[w]) < m /\ m <= landed[w]
    BY ONLY <2>1, <1>10, <1>3, <1>6, Zenon
  <2> QED
    BY ONLY <2>2, <1>10, <1>d, Zenon
<1>11. InOrder(new, sq, far)
  BY <1>a, <1>c, <1>3, <1>6, <1>7, <1>8, <1>9, <1>10, Zenon DEF InOrder
<1> QED
  BY <1>11, Zenon DEF new, far, f

\* The flit on the link stalls behind the stalled flits of its vnet.
LEMMA StallLanding ==
    ASSUME NEW rcv, NEW sq, NEW landed, InOrder(rcv, sq, landed), NEW v \in Vnets
    PROVE  InOrder(rcv, Append(sq, <<v, landed[v] + 1>>), [landed EXCEPT ![v] = @ + 1])
<1> DEFINE f == <<v, landed[v] + 1>>
           new == Append(sq, f)
           far == [landed EXCEPT ![v] = @ + 1]
           top == Len(sq) + 1
<1>a. rcv \in [Vnets -> Seq(Vnets \X Nat)] /\ sq \in Seq(Vnets \X Nat) /\ landed \in [Vnets -> Nat]
  BY Zenon DEF InOrder
<1>b. \A w \in Vnets : \A k \in DOMAIN rcv[w] : rcv[w][k] = <<w, k>>
  BY Zenon DEF InOrder
<1>c. \A k, l \in DOMAIN sq : k < l /\ sq[k][1] = sq[l][1] => sq[k][2] < sq[l][2]
  BY Zenon DEF InOrder
<1>d. \A w \in Vnets, m \in Nat :
         Len(rcv[w]) < m /\ m <= landed[w] => \E k \in DOMAIN sq : sq[k] = <<w, m>>
  BY Zenon DEF InOrder
<1>e. Len(sq) \in Nat /\ DOMAIN sq = 1 .. Len(sq)
  BY InOrderFacts, Zenon
<1>f. \A w \in Vnets : Len(rcv[w]) \in Nat /\ landed[w] \in Nat /\ Len(rcv[w]) <= landed[w]
  BY InOrderFacts, Zenon
<1>g. \A k \in DOMAIN sq : /\ sq[k][1] \in Vnets /\ sq[k][2] \in Nat
                           /\ sq[k] = <<sq[k][1], sq[k][2]>>
                           /\ Len(rcv[sq[k][1]]) < sq[k][2] /\ sq[k][2] <= landed[sq[k][1]]
  BY InOrderFacts
<1>1. landed[v] \in Nat /\ Len(rcv[v]) \in Nat /\ Len(rcv[v]) <= landed[v]
  BY <1>f
<1>2. f \in Vnets \X Nat /\ f[1] = v /\ f[2] = landed[v] + 1 /\ f = <<v, landed[v] + 1>>
  BY <1>1
<1> HIDE DEF f
<1>3. /\ new \in Seq(Vnets \X Nat)
      /\ Len(new) = top /\ DOMAIN new = 1 .. top
      /\ new[top] = f
      /\ \A k \in 1 .. Len(sq) : new[k] = sq[k]
  BY <1>a, <1>2
<1>4. \A k \in DOMAIN new : k = top \/ (k \in DOMAIN sq /\ new[k] = sq[k] /\ k < top)
  BY ONLY <1>e, <1>3
<1>5. \A k \in DOMAIN sq : k \in DOMAIN new /\ new[k] = sq[k]
  BY ONLY <1>e, <1>3
<1>6. top \in DOMAIN new /\ \A k \in DOMAIN new : ~(top < k)
  BY ONLY <1>e, <1>3
<1>7. /\ far \in [Vnets -> Nat]
      /\ far[v] = landed[v] + 1
      /\ \A w \in Vnets : w # v => far[w] = landed[w]
  BY <1>a, <1>1
<1> HIDE DEF new, far, top
<1>8. \A w \in Vnets : Len(rcv[w]) <= far[w] /\ landed[w] <= far[w] /\ far[w] \in Nat
  BY ONLY <1>1, <1>f, <1>7
<1>9. ASSUME NEW k \in DOMAIN new
      PROVE  Len(rcv[new[k][1]]) < new[k][2] /\ new[k][2] <= far[new[k][1]]
  <2>1. CASE k = top
    <3>1. new[k][1] = v /\ new[k][2] = landed[v] + 1
      BY <2>1, <1>2, <1>3, Zenon
    <3> QED
      BY ONLY <3>1, <1>1, <1>7
  <2>2. CASE k \in DOMAIN sq /\ new[k] = sq[k]
    BY ONLY <2>2, <1>g, <1>8, <1>f
  <2> QED
    BY <2>1, <2>2, <1>4, Zenon
<1>10. ASSUME NEW k \in DOMAIN new, NEW l \in DOMAIN new, k < l, new[k][1] = new[l][1]
       PROVE  new[k][2] < new[l][2]
  <2>1. k \in DOMAIN sq /\ new[k] = sq[k]
    BY <1>10, <1>4, <1>6, Zenon
  <2>2. CASE l = top
    <3>1. new[l][1] = v /\ new[l][2] = landed[v] + 1
      BY <2>2, <1>2, <1>3, Zenon
    <3> QED
      BY ONLY <2>1, <3>1, <1>1, <1>g, <1>10
  <2>3. CASE l \in DOMAIN sq /\ new[l] = sq[l]
    BY ONLY <2>1, <2>3, <1>c, <1>10, Zenon
  <2> QED
    BY <2>2, <2>3, <1>4, Zenon
<1>11. ASSUME NEW w \in Vnets, NEW m \in Nat, Len(rcv[w]) < m, m <= far[w]
       PROVE  \E k \in DOMAIN new : new[k] = <<w, m>>
  <2>1. CASE m <= landed[w]
    <3>1. PICK k \in DOMAIN sq : sq[k] = <<w, m>>
      BY <2>1, <1>11, <1>d
    <3> QED
      BY <3>1, <1>5, Zenon
  <2>2. CASE ~(m <= landed[w])
    <3>1. w = v /\ m = landed[v] + 1
      BY ONLY <2>2, <1>1, <1>7, <1>11, <1>f
    <3> QED
      BY <3>1, <1>2, <1>3, <1>6, Zenon
  <2> QED
    BY <2>1, <2>2, Zenon
<1>12. InOrder(rcv, new, far)
  BY <1>a, <1>b, <1>3, <1>7, <1>8, <1>9, <1>10, <1>11, Zenon DEF InOrder
<1> QED
  BY <1>12, Zenon DEF new, far, f

\* checkStallQueue takes the first flit of its vnet, and takes one whenever
\* the buffer of a stalled flit has room.
LEMMA UnstalledFacts ==
    ASSUME stall_queue \in Seq(Vnets \X Nat)
    PROVE  /\ \A i \in Unstalled : i \in DOMAIN stall_queue /\ IsFirst(stall_queue, i)
           /\ \A i, j \in Unstalled : i = j
           /\ Unstalled = {} =>
                 \A k \in DOMAIN stall_queue : ~areNSlotsAvailable(stall_queue[k][1])
<1> DEFINE room == {i \in DOMAIN stall_queue : areNSlotsAvailable(stall_queue[i][1])}
<1>1. Unstalled = {i \in room : \A j \in room : i <= j}
  BY DEF Unstalled
<1>2. room \subseteq Nat
  OBVIOUS
<1>3. \A i \in Unstalled : i \in DOMAIN stall_queue /\ IsFirst(stall_queue, i)
  <2> SUFFICES ASSUME NEW i \in Unstalled
               PROVE  i \in DOMAIN stall_queue /\ IsFirst(stall_queue, i)
    BY Zenon
  <2>1. i \in room /\ \A j \in room : i <= j
    BY <1>1, Zenon
  <2>2. ASSUME NEW j \in DOMAIN stall_queue, j < i, stall_queue[j][1] = stall_queue[i][1]
        PROVE  FALSE
    <3>1. j \in room
      BY <2>1, <2>2, Zenon
    <3> QED
      BY <3>1, <2>1, <2>2, <1>2
  <2> QED
    BY <2>1, <2>2, Zenon DEF IsFirst
<1>4. \A i, j \in Unstalled : i = j
  <2> HIDE DEF room
  <2> QED
    BY ONLY <1>1, <1>2
<1>5. Unstalled = {} => room = {}
  <2> HIDE DEF room
  <2> QED
    BY <1>1, <1>2, LeastNumber, Zenon
<1> QED
  BY <1>3, <1>4, <1>5, Zenon

\* The flit on the link lands.
LEMMA LandedStep ==
    ASSUME arrived \in [Vnets -> Nat], arrived' = arrived, in_link' = None
    PROVE  /\ in_link = None => Landed' = Landed
           /\ \A v \in Vnets : in_link = <<v, arrived[v]>> =>
                 Landed' = [Landed EXCEPT ![v] = @ + 1] /\ arrived[v] = Landed[v] + 1
<1>1. Landed' = arrived
  BY DEF Landed
<1>2. in_link = None => Landed = arrived
  BY DEF Landed
<1>3. ASSUME NEW v \in Vnets, in_link = <<v, arrived[v]>>
      PROVE  Landed' = [Landed EXCEPT ![v] = @ + 1] /\ arrived[v] = Landed[v] + 1
  <2>1. in_link # None /\ in_link[1] = v
    BY <1>3, Zenon DEF None
  <2>2. Landed = [w \in Vnets |-> IF w = v THEN arrived[w] - 1 ELSE arrived[w]]
    BY <2>1, Zenon DEF Landed
  <2> QED
    BY ONLY <1>1, <2>2, arrived \in [Vnets -> Nat], v \in Vnets
<1> QED
  BY <1>1, <1>2, <1>3, Zenon

\* The receiving half of the wakeup keeps the order.
LEMMA ReceiveKeeps ==
    ASSUME ReceiveInv, Receive
    PROVE  ReceiveInv'
<1>1. /\ arrived \in [Vnets -> Nat] /\ arrived' = arrived /\ in_link' = None
      /\ InOrder(received, stall_queue, Landed)
      /\ stall_queue \in Seq(Vnets \X Nat)
  BY Zenon DEF ReceiveInv, Receive, InOrder
<1>2. SUFFICES InOrder(received', stall_queue', Landed')
  BY <1>1 DEF ReceiveInv
<1>3. CASE Unstalled = {}
  <2>1. Erased = stall_queue
    BY <1>3, Zenon DEF Erased
  <2>2. CASE in_link = None
    <3>1. stall_queue' = stall_queue /\ received' = received
      BY <1>3, <2>1, <2>2, Zenon DEF Receive, Stalls
    <3>2. Landed' = Landed
      BY <1>1, <2>2, LandedStep, Zenon
    <3> QED
      BY <1>1, <3>1, <3>2, Zenon
  <2>3. CASE in_link # None
    <3>1. PICK v \in Vnets : in_link = <<v, arrived[v]>>
      BY <2>3, Zenon DEF ReceiveInv
    <3>2. Landed' = [Landed EXCEPT ![v] = @ + 1] /\ in_link = <<v, Landed[v] + 1>> /\ in_link[1] = v
      BY <1>1, <3>1, LandedStep
    <3>3. CASE Accepted(in_link)
      <4>1. \A k \in DOMAIN stall_queue : stall_queue[k][1] # v
        BY <1>1, <1>3, <3>2, <3>3, UnstalledFacts, Zenon DEF Accepted
      <4>2. received' = [received EXCEPT ![v] = Append(@, <<v, Landed[v] + 1>>)]
        BY <1>3, <2>3, <3>2, <3>3 DEF Receive, Eject
      <4>3. stall_queue' = stall_queue
        BY <2>1, <3>3, Zenon DEF Receive, Stalls
      <4> QED
        BY <1>1, <3>2, <4>1, <4>2, <4>3, EjectLanding, Zenon
    <3>4. CASE ~Accepted(in_link)
      <4>1. received' = received
        BY <1>3, <3>4, Zenon DEF Receive
      <4>2. stall_queue' = Append(stall_queue, <<v, Landed[v] + 1>>)
        BY <2>1, <2>3, <3>2, <3>4, Zenon DEF Receive, Stalls
      <4> QED
        BY <1>1, <3>2, <4>1, <4>2, StallLanding, Zenon
    <3> QED
      BY <3>3, <3>4, Zenon
  <2> QED
    BY <2>2, <2>3, Zenon
<1>4. CASE Unstalled # {}
  <2>1. PICK i \in Unstalled : Eject(stall_queue[i])
    BY <1>4, Zenon DEF Receive
  <2>2. /\ i \in DOMAIN stall_queue /\ IsFirst(stall_queue, i)
        /\ \A j \in Unstalled : j = i
    BY <1>1, UnstalledFacts
  <2>3. IsErased(Erased, stall_queue, i)
    <3>1. (CHOOSE j \in Unstalled : TRUE) = i
      BY <2>2, Zenon
    <3> QED
      BY <1>4, <3>1, Zenon DEF Erased, IsErased
  <2>4. received' = [received EXCEPT ![stall_queue[i][1]] = Append(@, stall_queue[i])]
    BY <2>1 DEF Eject
  <2>5. InOrder(received', Erased, Landed)
    BY ONLY <1>1, <2>2, <2>3, <2>4, EjectStalled, Zenon
  <2>6. CASE in_link = None
    <3>1. stall_queue' = Erased
      BY <2>6, Zenon DEF Receive, Stalls
    <3>2. Landed' = Landed
      BY <1>1, <2>6, LandedStep, Zenon
    <3> QED
      BY <2>5, <3>1, <3>2, Zenon
  <2>7. CASE in_link # None
    <3>1. PICK v \in Vnets : in_link = <<v, arrived[v]>>
      BY <2>7, Zenon DEF ReceiveInv
    <3>2. Landed' = [Landed EXCEPT ![v] = @ + 1] /\ in_link = <<v, Landed[v] + 1>>
      BY <1>1, <3>1, LandedStep, Zenon
    <3>3. stall_queue' = Append(Erased, <<v, Landed[v] + 1>>)
      BY <1>4, <2>7, <3>2, Zenon DEF Receive, Stalls, Accepted
    <3> QED
      BY <2>5, <3>2, <3>3, StallLanding, Zenon
  <2> QED
    BY <2>6, <2>7, Zenon
<1> QED
  BY <1>3, <1>4

\* Nothing has arrived at the start, and every step keeps the order.
LEMMA ReceiveInvariant == Spec => []ReceiveInv
<1>1. Init => ReceiveInv
  <2> SUFFICES ASSUME Init
               PROVE  ReceiveInv
    BY Zenon
  <2>1. /\ arrived = [v \in Vnets |-> 0] /\ in_link = None /\ stall_queue = <<>>
        /\ received = [v \in Vnets |-> <<>>]
    BY DEF Init
  <2>2. Landed = [v \in Vnets |-> 0]
    BY <2>1, Zenon DEF Landed
  <2>3. InOrder(received, stall_queue, Landed)
    BY <2>1, <2>2 DEF InOrder
  <2> QED
    BY <2>1, <2>3 DEF ReceiveInv
<1>2. ReceiveInv /\ [Next]_vars => ReceiveInv'
  <2> SUFFICES ASSUME ReceiveInv, [Next]_vars
               PROVE  ReceiveInv'
    BY Zenon
  <2>1. ASSUME UNCHANGED <<in_link, arrived, stall_queue, received>>
        PROVE  ReceiveInv'
    BY <2>1 DEF ReceiveInv, Landed
  <2>2. CASE wakeup
    BY <2>2, ReceiveKeeps, Zenon DEF wakeup
  <2>3. ASSUME NEW v \in Vnets, flit_arrives(v)
        PROVE  ReceiveInv'
    <3>1. /\ in_link = None /\ in_link' = <<v, arrived[v] + 1>>
          /\ arrived' = [arrived EXCEPT ![v] = @ + 1]
          /\ stall_queue' = stall_queue /\ received' = received
          /\ arrived \in [Vnets -> Nat]
      BY <2>3, Zenon DEF flit_arrives, ReceiveInv
    <3>2. in_link' # None /\ in_link'[1] = v
      BY <3>1, Zenon DEF None
    <3>3. Landed' = Landed
      <4>1. Landed' = [w \in Vnets |-> IF w = v THEN arrived'[w] - 1 ELSE arrived'[w]]
        BY <3>2, Zenon DEF Landed
      <4>2. Landed = arrived
        BY <3>1, Zenon DEF Landed
      <4> QED
        BY ONLY <3>1, <4>1, <4>2
    <3>4. arrived' \in [Vnets -> Nat] /\ in_link' = <<v, arrived'[v]>> /\ arrived'[v] > 0
      BY <3>1
    <3> QED
      BY <3>1, <3>3, <3>4, Zenon DEF ReceiveInv
  <2>4. CASE Tick
    BY <2>1, <2>4, Zenon DEF Tick
  <2>5. ASSUME NEW v \in Vnets, protocol_enqueue(v) \/ protocol_dequeue(v)
        PROVE  ReceiveInv'
    BY <2>1, <2>5, Zenon DEF protocol_enqueue, protocol_dequeue, receiveVars
  <2>6. ASSUME NEW vc \in VCs, credit_arrives(vc)
        PROVE  ReceiveInv'
    BY <2>1, <2>6, Zenon DEF credit_arrives, receiveVars
  <2>7. CASE UNCHANGED vars
    BY <2>1, <2>7, Zenon DEF vars, receiveVars
  <2> QED
    BY <2>2, <2>3, <2>4, <2>5, <2>6, <2>7, Zenon DEF Next
<1> QED
  BY <1>1, <1>2, PTL DEF Spec

\* For any vnets, buffers and arrivals, the messages of a vnet reach the
\* protocol in the order in which their flits arrived: checkStallQueue and the
\* flit on inNetLink never overtake a stalled flit.
THEOREM FlitsEjectedInOrder == Spec => []EjectedInOrder
<1>1. ReceiveInv => EjectedInOrder
  BY DEF ReceiveInv, InOrder, EjectedInOrder
<1> QED
  BY <1>1, ReceiveInvariant, PTL
=============================================================================
