------------------------------ MODULE MCTimer ------------------------------
(***************************************************************************)
(* Timer on small netlists: a launch flop f1 clocked by the port clk, a    *)
(* chain of gates, and a capture flop f2 (see the .cfg files).             *)
(***************************************************************************)
EXTENDS Timer

CONSTANTS f1, f2, g1, g2, d1, d2, xbad, x1, x2, s1, s2, s3, in, clk

\* s1 and s2 load the clock net alike (a Vt swap); s3 loads it more.
MCCkCap == [c \in SeqCells |-> IF c = s3 THEN 2 ELSE 1]

I(name, cell, from, ck) == [name |-> name, cell |-> cell, from |-> from, ck |-> ck]

\* in -> f1 -> g1 -> g2 -> f2, both flops on clk.
MCChain == << I(f1, s1, in, clk), I(g1, x1, 1, 0), I(g2, x1, 2, 0), I(f2, s1, 3, clk) >>

\* in -> f1 -> g1 -> f2.
MCShort == << I(f1, s1, in, clk), I(g1, x1, 1, 0), I(f2, s1, 2, clk) >>

\* f1 -> g1 -> f2, with g1 also clocking f2 (a divided clock), and f1 clocked
\* through the buffer g2.
MCClocked == << I(f1, s1, in, 4), I(g1, x1, 1, 0), I(f2, s1, 2, 2), I(g2, x1, clk, 0) >>
=============================================================================
