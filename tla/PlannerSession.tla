--------------------------- MODULE PlannerSession ---------------------------
(***************************************************************************)
(* The timing session of Timer driven the way the planners of repair.rs    *)
(* drive it: every attempt checkpoints, stages one move, updates, and then *)
(* keeps the candidate or restores the checkpoint, whatever judge said.    *)
(* A move `stage` refuses ends the attempt with nothing changed, and a     *)
(* failed update leaves the plan (`t.update()?`) with the session as it    *)
(* then is. Which site, which cell and which verdict are left open.        *)
(***************************************************************************)
EXTENDS Timer

VARIABLES
  phase,  \* "choose", "stage", "update" or "judge"; "failed" after an error
  kept    \* history: the session's netlist, index and report at the last kept fix

svars == <<vars, phase, kept>>

Settled == [insts |-> insts, inst_idx |-> inst_idx, report |-> report]

SessionInit ==
  /\ Init
  /\ phase = "choose"
  /\ kept = Settled

\* `let snapshot = t.checkpoint()`.
BeginAttempt ==
  /\ phase = "choose"
  /\ Checkpoint
  /\ phase' = "stage"
  /\ UNCHANGED kept

\* `t.stage(mv)` applies: a swap by either check, or an insertion by the hold check.
StageMove ==
  /\ phase = "stage"
  /\ Edit
  /\ phase' = "update"
  /\ UNCHANGED kept

\* `t.stage(mv)` refuses: the snapshot is dropped and the session is as it was.
StageRefused ==
  /\ phase = "stage"
  /\ Keep
  /\ phase' = "choose"
  /\ UNCHANGED kept

\* `t.update()?` returns a report.
Retime ==
  /\ phase = "update"
  /\ UpdateIncremental \/ UpdateFull
  /\ phase' = "judge"
  /\ UNCHANGED kept

\* It fails, and the plan with it.
RetimeFails ==
  /\ phase = "update"
  /\ UpdateError \/ UpdatePanic
  /\ phase' = "failed"
  /\ UNCHANGED kept

\* The candidate earned its place.
KeepFix ==
  /\ phase = "judge"
  /\ Keep
  /\ phase' = "choose"
  /\ kept' = Settled

\* It did not: `t.restore(snapshot)`.
Revert ==
  /\ phase = "judge"
  /\ Restore
  /\ phase' = "choose"
  /\ UNCHANGED kept

SessionNext ==
  \/ BeginAttempt \/ StageMove \/ StageRefused
  \/ Retime \/ RetimeFails \/ KeepFix \/ Revert

PlannerSpec == SessionInit /\ [][SessionNext]_svars

-----------------------------------------------------------------------------

\* Between two attempts the session is exactly what the kept fixes made it, with
\* nothing staged: "rejected candidates are rolled back as they are tried"
\* (repair.rs:341), so `before` (repair.rs:307) is the kept netlist's own report.
RejectedLeaveNoTrace ==
  phase = "choose" => Settled = kept /\ ~dirty /\ DOMAIN pending = {}

\* The planner's session never reads past the end of a cached array.
PlannerNoPanic == alive
=============================================================================
