----------------------------- MODULE MCIncCone -----------------------------
(***************************************************************************)
(* IncCone on a small library and a netlist of ports a, b, d and clk, a    *)
(* clock buffer cb, a flop ff and gates g1 to g4.                          *)
(***************************************************************************)
EXTENDS IncCone

CONSTANTS a, b, d, clk, g1, g2, g3, g4, cb, ff

\* Delay and slew grow with the input slew and the load.
MCDelayOf(arc, sin, ld) == arc.d + sin + ld
MCSlewOf(arc, sin, ld) == arc.s + ld
MCDerate == [an \in Analyses |-> IF an = "late" THEN 2 ELSE 1]
MCDriveDelay(ld) == ld
MCDriveSlew(ld) == 1 + ld

MCIdealSlew == [l \in Edges |-> 1]

\* threshold_adjust with thresholds [at |-> where the delay is measured, over |-> the part
\* of the swing the slew is]: the slew is stretched from one swing to the other, and the
\* crossing moves with it, later on a rise and earlier on a fall.
MCRethreshold(from, to, l, delay, slew) ==
  [delay |-> delay + (IF l = 0 THEN 1 ELSE -1) * ((slew * (to.at - from.at)) \div from.over),
   slew  |-> (slew * to.over) \div from.over]
Half == [at |-> 1, over |-> 2]
Late == [at |-> 2, over |-> 3]

A(pin, il, ol, dly, s) == [pin |-> pin, il |-> il, ol |-> ol, d |-> dly, s |-> s, launch |-> "always"]

\* A slow buffer and a fast one that loads its driver more; likewise inverters.
Buf(dly, s, cap) == [arcs |-> {A(1, 0, 0, dly, s), A(1, 1, 1, dly + 1, s)}, cap |-> <<cap>>, th |-> Half]
Inv(dly, s, cap) == [arcs |-> {A(1, 1, 0, dly, s), A(1, 0, 1, dly, s + 1)}, cap |-> <<cap>>, th |-> Half]

\* A gate whose first input drives the rising edge and whose second the falling one.
Split(dly, cap) ==
  [arcs |-> {A(1, 0, 0, dly, 1), A(2, 1, 1, dly + 1, 2)}, cap |-> <<cap, 1>>, th |-> Half]

\* An AND: both inputs drive both edges, the second with a slower slew.
And(dly, cap) == [arcs |-> {A(1, 0, 0, dly, 1), A(1, 1, 1, dly, 1),
                            A(2, 0, 0, dly, 3), A(2, 1, 1, dly, 3)},
                  cap |-> <<cap, cap>>, th |-> Half]

\* One input per edge, and one that drives both.
Gated == [arcs |-> {A(1, 0, 0, 1, 1), A(2, 1, 1, 1, 1), A(3, 0, 0, 5, 4), A(3, 1, 1, 5, 4)},
          cap |-> <<1, 1, 1>>, th |-> Half]

\* A flop launched by the rising edge of its clock pin: its arcs are non-unate.
Edge(arc) == [arc EXCEPT !.launch = "edge"]
Not(arc) == [arc EXCEPT !.launch = "not"]
Flop(dly) == [arcs |-> {Edge(A(1, 0, 0, dly, 1)), Edge(A(1, 0, 1, dly, 1)),
                        Not(A(1, 1, 0, dly, 1)), Not(A(1, 1, 1, dly, 1))},
              cap |-> <<1>>, th |-> Half]

MCLib == [buf1 |-> Buf(3, 1, 1), buf2 |-> Buf(1, 1, 3), inv1 |-> Inv(2, 1, 1), inv2 |-> Inv(1, 1, 3),
          split1 |-> Split(2, 1), split2 |-> Split(1, 2), and1 |-> And(2, 1), and2 |-> And(1, 2),
          gated |-> Gated, far |-> [Buf(1, 1, 1) EXCEPT !.th = Late],
          ff1 |-> Flop(3), ff2 |-> Flop(2)]

\* The alternatives of a cell are those of its kind; a gated one stays.
MCSwappable(init) ==
  [g \in DOMAIN init |->
     UNION {S \in {{"buf1", "buf2"}, {"inv1", "inv2"}, {"split1", "split2"}, {"and1", "and2"},
                    {"ff1", "ff2"}} : init[g] \in S}]

Seeds2 == {[arr |-> [l \in Edges |-> 0], slew |-> 1],
           [arr |-> [l \in Edges |-> 2 * l], slew |-> 2],
           [arr |-> [l \in Edges |-> IF l = 0 THEN 1 ELSE Never], slew |-> 0]}
MCPortSeeds ==
  [u \in Ports |-> IF u = a THEN Seeds2 ELSE IF u = b THEN {s \in Seeds2 : s.slew # 2}
                  ELSE {s \in Seeds2 : s.slew = 1}]
MCPortThreshold == [u \in Ports |-> Half]

\* a -> g1, which drives g2 and the first input of g3, whose second is b. g3, the driven
\* port d and b (disabled) drive g4. clk -> cb -> ff, with an ideal clock.
MCOrder == <<cb, ff, g1, g2, g3, g4>>
ForkFanin ==
  (cb :> <<clk>>) @@ (ff :> <<cb>>) @@ (g1 :> <<a>>) @@ (g2 :> <<g1>>) @@ (g3 :> <<g1, b>>)
    @@ (g4 :> <<g3, d, b>>)
ForkCell ==
  (cb :> "buf1") @@ (ff :> "ff1") @@ (g1 :> "buf1") @@ (g2 :> "inv1") @@ (g3 :> "split1")
    @@ (g4 :> "gated")
ForkSwappable == [MCSwappable(ForkCell) EXCEPT ![ff] = {}]

FlopClock == {<<ff, 1>>}
GatedInput == {<<g4, 3>>}
=============================================================================
