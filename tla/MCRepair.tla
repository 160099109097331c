------------------------------ MODULE MCRepair ------------------------------
(***************************************************************************)
(* The planners on a handful of sites and slacks.                          *)
(***************************************************************************)
EXTENDS Repair

\* Slacks in units of Eps, deep enough for the checks to take turns, each set aside and
\* revived by the other: met with room to lose, and three depths of violation.
MCSlacks == -3 .. 1

\* Hold starts at the deepest, where no insertion can be staged; setup at the deepest too,
\* or met, with something to lose to each fix of hold.
MCStarts ==
  {t \in Timings : /\ t.wns \in {-3, 0} /\ t.path = Stages
                   /\ \A e \in Endpoints : t.hold[e] = IF e \in Unusable THEN -3 ELSE 0}
=============================================================================
