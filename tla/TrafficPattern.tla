--------------------------- MODULE TrafficPattern ---------------------------
(***************************************************************************)
(* The destinations of the synthetic traffic patterns, on square networks  *)
(* whose size is a power of two.  A behaviour follows a pattern: the next  *)
(* source is the destination of the last.                                  *)
(***************************************************************************)
EXTENDS Integers, SequencesExt

CONSTANTS Sizes   \* the numbers of destinations, powers of four

Log2(n) == CHOOSE b \in 0 .. n : 2 ^ b = n
Root(n) == CHOOSE x \in 0 .. n : x * x = n

Patterns ==
    {"bit_complement", "bit_reverse", "bit_rotation", "neighbor", "shuffle", "transpose", "tornado"}

VARIABLES num_destinations, pattern, source

vars == <<num_destinations, pattern, source>>
-----------------------------------------------------------------------------
\* The node in column x and row y.
Node(n, x, y) == y * Root(n) + x

BitComplement(n, s) ==
    LET k == Root(n) IN Node(n, k - (s % k) - 1, k - (s \div k) - 1)

\* The loop that shifts the bits of the source out of straight into reverse.
BitReverse(n, s) ==
    FoldLeft(LAMBDA st, i : [straight |-> st.straight \div 2,
                             reverse  |-> 2 * st.reverse + ((st.straight \div 2) % 2)],
             [straight |-> s, reverse |-> s % 2],
             [i \in 1 .. (Log2(n) - 1) |-> i]).reverse

BitRotation(n, s) == IF s % 2 = 0 THEN s \div 2 ELSE s \div 2 + n \div 2

\* Faulty variant: the last column has the next row as its neighbour.
NeighborNoWrap(n, s) == LET k == Root(n) IN Node(n, (s % k) + 1, s \div k)

Neighbor(n, s) == LET k == Root(n) IN Node(n, ((s % k) + 1) % k, s \div k)

Shuffle(n, s) == IF s < n \div 2 THEN s * 2 ELSE s * 2 - n + 1

Transpose(n, s) == LET k == Root(n) IN Node(n, s \div k, s % k)

\* ceil is applied to the quotient of two integers and does nothing.
Tornado(n, s) == LET k == Root(n) IN Node(n, ((s % k) + (k \div 2) - 1) % k, s \div k)

\* generatePkt: the destination of a packet of node s.
Destination(p, n, s) ==
    CASE p = "bit_complement" -> BitComplement(n, s)
      [] p = "bit_reverse"    -> BitReverse(n, s)
      [] p = "bit_rotation"   -> BitRotation(n, s)
      [] p = "neighbor"       -> Neighbor(n, s)
      [] p = "shuffle"        -> Shuffle(n, s)
      [] p = "transpose"      -> Transpose(n, s)
      [] p = "tornado"        -> Tornado(n, s)

Init ==
    /\ num_destinations \in Sizes
    /\ pattern \in Patterns
    /\ source \in 0 .. (num_destinations - 1)

Next ==
    /\ source' = Destination(pattern, num_destinations, source)
    /\ UNCHANGED <<num_destinations, pattern>>

Spec == Init /\ [][Next]_vars
-----------------------------------------------------------------------------
Bit(s, i) == (s \div 2 ^ i) % 2

\* The destination is a node and no other node has it: the packets of a
\* pattern load every node alike, and none is addressed outside the network.
Permutation ==
    LET D(s) == Destination(pattern, num_destinations, s)
        nodes == 0 .. (num_destinations - 1)
    IN  D(source) \in nodes /\ \A s \in nodes \ {source} : D(s) # D(source)

\* The patterns named after bits, which the code computes by arithmetic and by
\* shifting, do to the bits of the source what their names say.
DoesWhatItSays ==
    LET n == num_destinations
        w == Log2(n)
        Moves(d, From(_)) == \A i \in 0 .. (w - 1) : Bit(d, i) = Bit(source, From(i))
    IN  /\ Moves(BitReverse(n, source), LAMBDA i : w - 1 - i)
        /\ Moves(BitRotation(n, source), LAMBDA i : (i + 1) % w)
        /\ Moves(Shuffle(n, source), LAMBDA i : (i + w - 1) % w)
        /\ Moves(Transpose(n, source), LAMBDA i : (i + w \div 2) % w)
        /\ \A i \in 0 .. (w - 1) : Bit(BitComplement(n, source), i) = 1 - Bit(source, i)
=============================================================================
