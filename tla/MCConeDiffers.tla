--------------------------- MODULE MCConeDiffers ---------------------------
(***************************************************************************)
(* MCIncCone's library on a netlist outside the conditions of ConeProofs:  *)
(* g1 may be swapped, and each way in which the fast path's arithmetic is  *)
(* not that of the full pass shows at a node of its own.                   *)
(***************************************************************************)
EXTENDS MCIncCone

CONSTANTS hub, dead, s1, s2, s3, s4

\* Three inputs drive the rising edge and the fourth the falling one.
Wide(dly, cap) ==
  [arcs |-> {A(1, 0, 0, dly, 1), A(2, 0, 0, dly, 1), A(3, 0, 0, dly, 1), A(4, 1, 1, dly, 1)},
   cap |-> <<cap, cap, cap, 1>>, th |-> Half]
DiffersLib == MCLib @@ [wide1 |-> Wide(2, 1), wide2 |-> Wide(1, 2)]

\* g1 is on the nets of the buffer hub, the flop ff and the driven port d; its fourth input
\* is disabled. Once it is swapped, the lanes differ at
\*   ff, which both edges of its clock launch;
\*   d and s1, of whose driving cell the delay is gone and the slew is the old load's;
\*   s2, whose slew is its later input's and not the slower of the two;
\*   s3, of another library, which takes the wire as it is;
\*   s4, whose slew leaves out the input from dead, where nothing arrives;
\*   g1 on the falling edge, which the disabled input drives again.
DiffersOrder == <<cb, ff, hub, dead, g1, s1, s2, s3, s4>>
DiffersFanin ==
  (cb :> <<clk>>) @@ (ff :> <<cb>>) @@ (hub :> <<a>>) @@ (dead :> <<b>>)
    @@ (g1 :> <<hub, ff, d, b>>) @@ (s1 :> <<d>>) @@ (s2 :> <<hub, b>>) @@ (s3 :> <<hub>>) @@ (s4 :> <<hub, dead>>)
DiffersCell ==
  (cb :> "buf1") @@ (ff :> "ff1") @@ (hub :> "buf1") @@ (dead :> "buf1") @@ (g1 :> "wide1")
    @@ (s1 :> "buf1") @@ (s2 :> "and1") @@ (s3 :> "far") @@ (s4 :> "and1")
DiffersSwappable == [g \in DOMAIN DiffersCell |-> IF g = g1 THEN {"wide2"} ELSE {}]
DiffersDisabled == {<<g1, 4>>, <<dead, 1>>}

\* One seed, the same for every port.
DiffersSeeds == [u \in Ports |-> {[arr |-> [l \in Edges |-> 0], slew |-> 1]}]
=============================================================================
