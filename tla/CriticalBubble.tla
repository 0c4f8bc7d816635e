--------------------------- MODULE CriticalBubble ---------------------------
(***************************************************************************)
(* The critical bubble scheme (scheme cbs) on a square torus: four bubbles *)
(* per row, two going round every column and two round every row, each in  *)
(* VC 0 of the input ports of one direction, exchanging places with        *)
(* packets.  All bubbles move in one wakeup of one router.  These wakeups  *)
(* are further apart than the inter period, so every bubble is due.        *)
(***************************************************************************)
EXTENDS Integers, SequencesExt

CONSTANTS
    NumRows,   \* m_num_rows
    Sources,   \* the slots to which upstream routers send packets
    Dests      \* the routers packets go to

Routers    == 0 .. (NumRows * NumRows - 1)
Directions == {"North", "East", "South", "West"}
CbsSlots   == Routers \X Directions     \* VC 0 of every input port
CbsBubbles == 0 .. (4 * NumRows - 1)

\* A packet is the router it goes to.  Without one, the VC is idle, holds a
\* bubble, or its next packet or its last credit is on the link.
Idle   == -1
Bubble == -2
Coming == -3
Credit == -4

VARIABLES vc,      \* what VC 0 of each input port holds
          bubble   \* the slot of each bubble

vars == <<vc, bubble>>

Group(k) == k \div NumRows

\* init_brownian_bubbles_cbs
InitialSlot(k) ==
    <<IF Group(k) <= 1 THEN k % NumRows ELSE (k % NumRows) * NumRows,
      CASE Group(k) = 0 -> "South" [] Group(k) = 1 -> "North"
        [] Group(k) = 2 -> "West"  [] Group(k) = 3 -> "East">>

Init ==
    /\ bubble = [k \in CbsBubbles |-> InitialSlot(k)]
    /\ vc = [s \in CbsSlots |-> IF \E k \in CbsBubbles : bubble[k] = s THEN Bubble ELSE Idle]
-----------------------------------------------------------------------------
\* Faulty variant: the last router of a row goes on to the next row.
NoWrapInRow(r, k) ==
    IF Group(k) <= 1 THEN (r + NumRows) % (NumRows * NumRows)
    ELSE (r + 1) % (NumRows * NumRows)

\* The next router up the column or along the row, counting round.
move_next_router_cbs(r, k) ==
    IF Group(k) <= 1
    THEN IF r \div NumRows = NumRows - 1 THEN r % NumRows ELSE r + NumRows
    ELSE IF r % NumRows = NumRows - 1 THEN r - NumRows + 1 ELSE r + 1

\* The input port a bubble moves to.
MoveDirection(k) ==
    CASE Group(k) = 0 -> "South" [] Group(k) = 1 -> "North"
      [] Group(k) = 2 -> "East"  [] Group(k) = 3 -> "West"

IsPacket(x) == x \in Routers

\* The VC is empty and idle at the upstream router.
ExchangesEmpty(st, to) == st.vc[to] = Idle

\* Faulty variant: any packet is taken.
TakesAny(st, to) == IsPacket(st.vc[to])

\* A packet that is not about to leave at this router.
ExchangesPacket(st, to) == IsPacket(st.vc[to]) /\ st.vc[to] # to[1]

\* The bubble and the content of the other VC change places.
Exchange(st, from, to) == [st.vc EXCEPT ![from] = st.vc[to], ![to] = Bubble]

\* move_inter_bubble_cbs for bubble k.
move_inter_bubble_cbs(st, k) ==
    LET from == st.bubble[k]
        to   == <<move_next_router_cbs(from[1], k), MoveDirection(k)>>
    IN  IF ExchangesEmpty(st, to) \/ ExchangesPacket(st, to)
        THEN [vc |-> Exchange(st, from, to), bubble |-> [st.bubble EXCEPT ![k] = to]]
        ELSE st

\* Router::wakeup of the first router to wake up: every bubble in turn.
wakeup ==
    LET st == FoldLeft(move_inter_bubble_cbs, [vc |-> vc, bubble |-> bubble],
                       [n \in 1 .. (4 * NumRows) |-> n - 1])
    IN  vc' = st.vc /\ bubble' = st.bubble
-----------------------------------------------------------------------------
\* Traffic through a slot: the upstream router allocates the VC, the packet
\* arrives, it is sent on or ejected, and its credit goes back.
send(s)      == s \in Sources /\ vc[s] = Idle /\ vc' = [vc EXCEPT ![s] = Coming]
arrive(s, d) == vc[s] = Coming /\ vc' = [vc EXCEPT ![s] = d]
leave(s)     == IsPacket(vc[s]) /\ vc' = [vc EXCEPT ![s] = Credit]
credit(s)    == vc[s] = Credit /\ vc' = [vc EXCEPT ![s] = Idle]

Traffic ==
    /\ \E s \in CbsSlots : send(s) \/ leave(s) \/ credit(s) \/ \E d \in Dests : arrive(s, d)
    /\ UNCHANGED bubble

Next == wakeup \/ Traffic

Spec == Init /\ [][Next]_vars
-----------------------------------------------------------------------------
\* Bubbles are reserved VCs: each one is marked, and no two share one or take
\* one that a packet is on its way to.
OneSlotEach ==
    /\ \A k \in CbsBubbles : bubble[k] \in CbsSlots /\ vc[bubble[k]] = Bubble
    /\ \A j, k \in CbsBubbles : j # k => bubble[j] # bubble[k]
    /\ \A s \in CbsSlots : vc[s] = Bubble => \E k \in CbsBubbles : bubble[k] = s

\* A bubble goes round the row or column it started in.
StaysInLine ==
    \A k \in CbsBubbles :
        LET r == bubble[k][1] s == InitialSlot(k)[1]
        IN  IF Group(k) <= 1 THEN r % NumRows = s % NumRows ELSE r \div NumRows = s \div NumRows

\* Moving bubbles neither loses nor duplicates packets, and takes none away
\* from the router where it is to be ejected.
KeepsPackets ==
    bubble' # bubble =>
        /\ \A d \in Dests : Cardinality({s \in CbsSlots : vc'[s] = d}) = Cardinality({s \in CbsSlots : vc[s] = d})
        /\ \A s \in CbsSlots : vc[s] = s[1] => vc'[s] = s[1]
=============================================================================
