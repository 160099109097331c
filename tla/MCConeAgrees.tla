---------------------------- MODULE MCConeAgrees ----------------------------
(***************************************************************************)
(* MCIncCone on a netlist of the kind ConeProofs shows the fast path to be *)
(* exact on.                                                               *)
(***************************************************************************)
EXTENDS MCIncCone

ASSUME ExactNetlist ==
  PlainSwaps /\ PlainDrivers /\ PlainFlops
  /\ OneThreshold /\ AllCalculated /\ OneArcPerEdge
=============================================================================
