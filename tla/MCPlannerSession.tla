-------------------------- MODULE MCPlannerSession --------------------------
(***************************************************************************)
(* The planner's session on the netlists of MCTimer.                       *)
(***************************************************************************)
EXTENDS PlannerSession

CONSTANTS f1, f2, g1, g2, d1, d2, xbad, x1, x2, s1, s2, s3, in, clk

\* s1 and s2 load the clock net alike (a Vt swap); s3 loads it more.
MCCkCap == [c \in SeqCells |-> IF c = s3 THEN 2 ELSE 1]

I(name, cell, from, ck) == [name |-> name, cell |-> cell, from |-> from, ck |-> ck]

\* in -> f1 -> g1 -> f2, both flops on clk.
MCShort == << I(f1, s1, in, clk), I(g1, x1, 1, 0), I(f2, s1, 2, clk) >>
=============================================================================
