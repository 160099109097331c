---------------------------- MODULE CycleAccting ----------------------------
(***************************************************************************)
(* cycle_accting (sta.rs): the walk over the cycles of a launching and a   *)
(* capturing clock that finds the closest pair of edges for setup (capture *)
(* after launch) and for hold (capture at or before launch).               *)
(*                                                                         *)
(* Times are whole numbers of a small unit, so the reference's tolerance   *)
(* in comparing floats is equality.                                        *)
(***************************************************************************)
EXTENDS Integers, FiniteSetsExt

CONSTANTS
  ClockEdges,    \* [period, time]: a clock, and the time of its edge in a period
  RelatedCycles, \* 100: target cycles walked when the target is the slower clock
  FreeCycles     \* 1000: at least so many otherwise

\* What the constants are.
ConstantsOK ==
  /\ RelatedCycles \in Nat /\ FreeCycles \in Nat
  /\ \A c \in ClockEdges : c.period \in Nat /\ c.time \in Int

VARIABLES
  src, tgt,             \* the launching and the capturing edge
  tgt_cycle, src_cycle,
  setup, hold,          \* the closest pair of each kind so far
  tgt_past_src, src_past_tgt, \* a pair of each kind was found
  phase                 \* "walk" or "done"

vars == <<src, tgt, tgt_cycle, src_cycle, setup, hold, tgt_past_src, src_past_tgt, phase>>

\* The cycle that holds the first edge from time zero on.
FirstCycle(c) == IF c.time < 0 THEN 1 ELSE IF c.time < c.period THEN 0 ELSE -1

MaxCycle ==
  IF tgt.period > src.period THEN RelatedCycles
  ELSE Max({(src.period + tgt.period - 1) \div tgt.period, FreeCycles})

\* Clocks without a period keep the relation of one clock to itself.
Init ==
  /\ src \in ClockEdges /\ tgt \in ClockEdges
  /\ tgt_cycle = FirstCycle(tgt) /\ src_cycle = FirstCycle(src)
  /\ setup = tgt.period /\ hold = 0
  /\ tgt_past_src = FALSE /\ src_past_tgt = FALSE
  /\ phase = IF src.period > 0 /\ tgt.period > 0 THEN "walk" ELSE "done"

SrcStart == src_cycle * src.period
TgtStart == tgt_cycle * tgt.period
SrcTime == SrcStart + src.time
TgtTime == TgtStart + tgt.time

\* A walk that is done with the first pair of each kind.
InStepEarly == tgt_past_src /\ src_past_tgt

\* Both kinds are found and the clocks are back in step.
InStep == tgt_past_src /\ src_past_tgt /\ SrcStart = TgtStart

\* No later source edge of this target edge is closer.
Beyond == src_past_tgt /\ SrcStart > TgtStart + tgt.period

Walking == phase = "walk" /\ tgt_cycle <= MaxCycle /\ ~InStep

NextSourceMissing == src_cycle
NextSource == src_cycle + 1

\* One pair of edges.
Compare ==
  /\ Walking /\ ~Beyond
  /\ \/ /\ TgtTime > SrcTime
        /\ tgt_past_src' = TRUE
        /\ setup' = IF tgt_past_src THEN Min({setup, TgtTime - SrcTime}) ELSE TgtTime - SrcTime
        /\ UNCHANGED <<hold, src_past_tgt>>
     \/ /\ TgtTime <= SrcTime
        /\ src_past_tgt' = TRUE
        /\ hold' = IF src_past_tgt THEN Min({hold, SrcTime - TgtTime}) ELSE SrcTime - TgtTime
        /\ UNCHANGED <<setup, tgt_past_src>>
  /\ src_cycle' = NextSource
  /\ UNCHANGED <<src, tgt, tgt_cycle, phase>>

NextTarget ==
  /\ Walking /\ Beyond
  /\ tgt_cycle' = tgt_cycle + 1
  /\ src_cycle' = FirstCycle(src)
  /\ UNCHANGED <<src, tgt, setup, hold, tgt_past_src, src_past_tgt, phase>>

\* Back in step, or at the limit with what was found.
Return ==
  /\ phase = "walk" /\ (tgt_cycle > MaxCycle \/ InStep)
  /\ phase' = "done"
  /\ UNCHANGED <<src, tgt, tgt_cycle, src_cycle, setup, hold, tgt_past_src, src_past_tgt>>

Next == Compare \/ NextTarget \/ Return

Spec == Init /\ [][Next]_vars /\ WF_vars(Next)

-----------------------------------------------------------------------------
(* Properties                                                              *)

\* Cycles, flags and relations have their types (cycle_accting, sta.rs:154).
TypeOK ==
  /\ phase \in {"walk", "done"}
  /\ {tgt_past_src, src_past_tgt} \subseteq BOOLEAN
  /\ {tgt_cycle, src_cycle, setup, hold} \subseteq Int

\* The edges of two clocks meet modulo the largest time both periods are multiples of:
\* a capture edge comes exactly the times after a launch edge that differ from the
\* difference of their first times by a multiple of it.
Divides(g, n) == n % g = 0
Beat == Max({g \in 1 .. src.period : Divides(g, src.period) /\ Divides(g, tgt.period)})
ClosestAfter == CHOOSE d \in 1 .. Beat : Divides(Beat, d - (tgt.time - src.time))
ClosestBefore == CHOOSE d \in 0 .. Beat - 1 : Divides(Beat, d - (src.time - tgt.time))
CommonCycle == src.period \div Beat

\* Where the clocks come back in step within the limit, the walk finds the closest
\* pairs there are, whatever the periods and wherever in its period each edge lies -
\* it looks only at edges from time zero on, and returns the first time the clocks are
\* back in step. Beyond the limit a relation is still one of two real edges, and errs
\* to the far side only (cycle_accting, sta.rs:154, 209).
RelationIsClosest ==
  phase = "done" /\ src.period > 0 /\ tgt.period > 0 =>
    /\ CommonCycle <= MaxCycle => setup = ClosestAfter /\ hold = ClosestBefore
    /\ tgt_past_src => setup >= ClosestAfter /\ Divides(Beat, setup - ClosestAfter)
    /\ src_past_tgt => hold >= ClosestBefore /\ Divides(Beat, hold - ClosestBefore)

\* The walk ends: for every target edge some source edge is far enough past it, also
\* where neither clock ever falls back in step within the limit (sta.rs:182).
WalkEnds == <>(phase = "done")
=============================================================================
