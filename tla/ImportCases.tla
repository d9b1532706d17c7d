----------------------------- MODULE ImportCases -----------------------------
(* Pairs of legacy files for LegacyImport: two that are accepted, and all     *)
(* that differ from one of them in a token that is changed, missing or one    *)
(* too many, or in a changed one and the one that decides about it.           *)
EXTENDS Integers, Sequences, SequencesExt

CONSTANT Word

I(n) == [kind |-> "int", val |-> n]
F(n) == [kind |-> "float", val |-> n]
W(n) == [kind |-> "word", val |-> n]

\* A steady run in the reference state: an inflow and a slip wall.
Steady ==
    [main |-> <<W(1), I(1), I(0), I(0), I(2), I(30), I(1), I(1), F(5), I(10), I(0), W(1), I(5),
                I(3), W(1), W(1), I(100), I(10), I(9), I(0), F(400), I(20), I(10), I(0), F(0),
                F(0), F(7), I(10), I(10), I(10)>>,
     topology |-> <<I(2), I(1), I(1), I(10), I(4), I(1), I(2), I(4), F(1), F(0), F(0), F(1),
                    I(0), I(30), I(1), I(1), I(2), I(6)>>]

\* A dimensional unsteady run from a restart file: an isothermal wall and an
\* outflow.
Unsteady ==
    [main |-> <<W(1), I(1), I(1), I(1), I(0), I(3), I(0), I(0), I(10), F(1), I(1), W(2), I(4),
                I(6), W(1), W(1), I(1), I(1), I(0), F(15), I(100), F(8), F(25), F(-12), I(900),
                I(300)>>,
     topology |-> <<I(2), I(0), I(0), I(50), I(2), I(1), I(3), I(7), I(300), I(0), I(20), I(3),
                    I(1), I(2), I(5)>>]

------------------------------------------------------------------------------
Other(n) == {W(n), F(n)} \cup {I(m) : m \in {-1, 0, 1, 8, 28, 50, Word + 3}} \cup {F(1001)}

Altered(t) ==
    UNION {{[t EXCEPT ![p] = x] : x \in Other(t[p].val)} : p \in DOMAIN t}
    \cup {RemoveAt(t, p) : p \in DOMAIN t}
    \cup {SubSeq(t, 1, p) : p \in 0 .. Len(t)}
    \cup {InsertAt(t, p, I(1)) : p \in 1 .. Len(t) + 1}

\* dimen, flow_type and restart in the main file, the two
\* counts and the first flags in the topology.
MainPairs(pair) ==
    UNION {{[pair EXCEPT !.main = u] : u \in Altered([pair.main EXCEPT ![p] = I(n)])} :
           p \in {3, 4, 11}, n \in {0, 1}}

TopologyPairs(pair) ==
    UNION {{[pair EXCEPT !.topology = u] : u \in Altered([pair.topology EXCEPT ![x[1]] = I(x[2])])} :
           x \in {<<1, 1>>, <<1, 3>>, <<2, 0>>, <<2, 1>>, <<3, 1>>, <<4, 50>>}}

AllPairs == UNION {MainPairs(pair) \cup TopologyPairs(pair) : pair \in {Steady, Unsteady}}
=============================================================================
