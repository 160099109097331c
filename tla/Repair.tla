------------------------------- MODULE Repair -------------------------------
(***************************************************************************)
(* The repair planners of repair.rs: plan_hold_repair, plan_setup_repair   *)
(* and plan_repair, which alternates between the two checks. Each round    *)
(* picks a violating site, tries candidate moves on the timer one by one,  *)
(* keeps the first one `judge` (sta.rs) accepts and rolls the others back. *)
(*                                                                         *)
(* What a move does to the timing is not a function here: an update may    *)
(* return any slacks at all, so that nothing below rests on delay          *)
(* insertion being monotonic or on an upsize helping. Slacks are integers  *)
(* in units of the noise the planner ignores. The netlist is the sequence  *)
(* of moves applied to the one the plan began with.                        *)
(***************************************************************************)
EXTENDS Integers, Sequences, FiniteSets

CONSTANTS
  HoldPins,      \* hold endpoints that are instance pins
  HoldPorts,     \* hold endpoints that are output ports (no move applies there)
  Stages,        \* instance pins a worst setup path may go through
  Slacks,        \* the slacks an update may return
  Starts,        \* the reports a plan may begin with
  Eps,           \* improvement below this is noise
  Mode,          \* "hold", "setup" or "both": which of the three planners runs
  MaxFixes,      \* opts.max_fixes; 0 is no limit
  HaveDelayCell, \* opts.delay_cell is given
  PreferSwap,    \* opts.prefer_swap
  MaxCandidates, \* the most interchangeable cells a site offers
  Unusable,      \* hold pins an insertion cannot be staged at
  NoSnapshot     \* no checkpoint is held

Endpoints == HoldPins \cup HoldPorts
Sites == HoldPins \cup Stages
Checks == {"hold", "setup"}

ASSUME SlacksAssumption == Slacks \subseteq Int /\ IsFiniteSet(Slacks) /\ Eps \in Nat
ASSUME SitesAssumption ==
  /\ HoldPins \cap HoldPorts = {}
  /\ Endpoints # {}
  /\ Unusable \subseteq HoldPins
ASSUME OptionsAssumption ==
  /\ Mode \in {"hold", "setup", "both"}
  /\ MaxFixes \in Nat /\ MaxCandidates \in Nat
  /\ PreferSwap \in BOOLEAN /\ HaveDelayCell \in BOOLEAN

\* What an update reports: every hold endpoint's slack, the worst setup slack, and
\* the instance pins the worst setup path goes through.
Timings == [hold : [Endpoints -> Slacks], wns : Slacks, path : SUBSET Stages]

ASSUME StartsAssumption == Starts \subseteq Timings

\* The worst hold slack.
Whs(t) == CHOOSE s \in {t.hold[e] : e \in Endpoints} :
            \A e \in Endpoints : s <= t.hold[e]

Moves == [kind : {"swap", "insert", "upsize"}, site : Sites, name : Nat \cup {-1}]

VARIABLES
  timing,   \* the timer's report
  netlist,  \* the moves the timer's netlist holds
  snapshot, \* the checkpoint of the candidate being judged
  pc,       \* "choose", "swap", "insert", "upsize", "judge", "done" or "failed"
  target,   \* the site of the current attempt
  left,     \* candidates not tried yet in the current attempt
  fixes,    \* plan.fixes: the moves kept, with the check each was for
  rejected, \* plan.rejected: the labels
  tried,    \* per check, the sites given up on
  set_aside,\* per check, it has run out of sites (hold_done, setup_done)
  seq,      \* number of the next inserted cell
  metrics   \* the plan's before and after slacks

vars == <<timing, netlist, snapshot, pc, target, left, fixes, rejected, tried,
          set_aside, seq, metrics>>

-----------------------------------------------------------------------------
(* judge                                                                   *)

\* The other check ends up violating and worse than it was.
Harmed(before, after) == after < 0 /\ after < before - Eps

\* A verdict that only looks at the check the fix is for.
EarnsIgnoringOther(before, after, check) ==
  IF check = "hold" THEN Whs(after) - Whs(before) > Eps ELSE after.wns - before.wns > Eps

\* A verdict that takes any gain for more than noise.
EarnsAnyGain(before, after, check) ==
  IF check = "hold"
  THEN Whs(after) - Whs(before) > 0 /\ ~Harmed(before.wns, after.wns)
  ELSE after.wns - before.wns > 0 /\ ~Harmed(Whs(before), Whs(after))

\* The targeted slack improves by more than noise and the other is not harmed.
Earns(before, after, check) ==
  IF check = "hold"
  THEN Whs(after) - Whs(before) > Eps /\ ~Harmed(before.wns, after.wns)
  ELSE after.wns - before.wns > Eps /\ ~Harmed(Whs(before), Whs(after))

-----------------------------------------------------------------------------
(* Choosing the check and the site                                         *)

\* Whichever check is further into violation.
WantHold == Whs(timing) < 0 /\ (timing.wns >= 0 \/ Whs(timing) <= timing.wns)
WantSetup == timing.wns < 0 /\ ~WantHold

\* The check of the next round; "none" when both are met or set aside. The
\* single-check planners attempt theirs until it is exhausted.
NextCheck ==
  IF Mode # "both" THEN IF set_aside[Mode] THEN "none" ELSE Mode
  ELSE IF WantHold /\ ~set_aside["hold"] THEN "hold"
  ELSE IF WantSetup /\ ~set_aside["setup"] THEN "setup"
  ELSE IF Whs(timing) < 0 /\ ~set_aside["hold"] THEN "hold"
  ELSE IF timing.wns < 0 /\ ~set_aside["setup"] THEN "setup"
  ELSE "none"

LimitReached == MaxFixes # 0 /\ Len(fixes) >= MaxFixes

\* The failing hold endpoints that are instance pins and not given up on, and the
\* worst of them.
HoldCandidates ==
  {e \in HoldPins : HaveDelayCell /\ timing.hold[e] < 0 /\ e \notin tried["hold"]}
WorstHold == {e \in HoldCandidates : \A d \in HoldCandidates : timing.hold[e] <= timing.hold[d]}

\* The stages of the worst path not given up on; which costs most is left open.
SetupCandidates == IF timing.wns >= 0 THEN {} ELSE timing.path \ tried["setup"]

-----------------------------------------------------------------------------

Init ==
  /\ timing \in Starts
  /\ netlist = <<>>
  /\ snapshot = NoSnapshot
  /\ pc = "choose"
  /\ target \in Sites
  /\ left = 0
  /\ fixes = <<>>
  /\ rejected = {}
  /\ tried = [c \in Checks |-> {}]
  /\ set_aside = [c \in Checks |-> FALSE]
  /\ seq = 0
  /\ metrics = [before |-> timing, after |-> timing]

Choosing(check) == pc = "choose" /\ ~LimitReached /\ NextCheck = check

\* The plan ends: the limit is reached, or no check is left to attempt.
Finish ==
  /\ pc = "choose"
  /\ LimitReached \/ NextCheck = "none"
  /\ pc' = "done"
  /\ UNCHANGED <<timing, netlist, snapshot, target, left, fixes, rejected, tried,
                 set_aside, seq, metrics>>

\* A hold attempt begins at the worst untried endpoint; the driver's
\* interchangeable cells come first when swaps are preferred.
BeginHold ==
  /\ Choosing("hold")
  /\ target' \in WorstHold
  /\ \/ PreferSwap /\ pc' = "swap" /\ left' \in 0 .. MaxCandidates
     \/ ~PreferSwap /\ pc' = "insert" /\ left' = 0
  /\ UNCHANGED <<timing, netlist, snapshot, fixes, rejected, tried, set_aside, seq, metrics>>

\* A setup attempt begins at a stage of the worst path.
BeginSetup ==
  /\ Choosing("setup")
  /\ target' \in SetupCandidates
  /\ pc' = "upsize"
  /\ left' \in 0 .. MaxCandidates
  /\ UNCHANGED <<timing, netlist, snapshot, fixes, rejected, tried, set_aside, seq, metrics>>

\* The check has no site left: it is set aside.
Exhausted ==
  /\ \/ Choosing("hold") /\ HoldCandidates = {}
     \/ Choosing("setup") /\ SetupCandidates = {}
  /\ set_aside' = [set_aside EXCEPT ![NextCheck] = TRUE]
  /\ UNCHANGED <<timing, netlist, snapshot, pc, target, left, fixes, rejected, tried, seq,
                 metrics>>

-----------------------------------------------------------------------------
(* One candidate: checkpoint, stage, update                                *)

Names == {netlist[i].name : i \in DOMAIN netlist}

Try(mv) ==
  /\ snapshot' = [timing |-> timing, netlist |-> netlist]
  /\ netlist' = Append(netlist, mv)
  /\ timing' \in Timings
  /\ pc' = "judge"
  /\ UNCHANGED <<target, fixes, rejected, tried, set_aside, seq, metrics>>

\* A swap attempt that counts its candidates by twos, past the last one.
TrySwapByTwo ==
  /\ pc = "swap" /\ left > 0
  /\ left' = left - 2
  /\ Try([kind |-> "swap", site |-> target, name |-> -1])

\* The next interchangeable cell of the endpoint's driver, or of the stage.
TrySwap ==
  /\ pc = "swap" /\ left > 0
  /\ left' = left - 1
  /\ Try([kind |-> "swap", site |-> target, name |-> -1])

TryUpsize ==
  /\ pc = "upsize" /\ left > 0
  /\ left' = left - 1
  /\ Try([kind |-> "upsize", site |-> target, name |-> -1])

\* No swap earned its place: fall back to insertion.
SwapsSpent ==
  /\ pc = "swap" /\ left = 0
  /\ pc' = "insert"
  /\ UNCHANGED <<timing, netlist, snapshot, target, left, fixes, rejected, tried,
                 set_aside, seq, metrics>>

\* A site listed as rejected that may be attempted again.
GiveUpForNow(check) ==
  /\ rejected' = rejected \cup {target}
  /\ pc' = "choose"
  /\ UNCHANGED tried

\* The site is given up on and listed as rejected.
GiveUp(check) ==
  /\ tried' = [tried EXCEPT ![check] = @ \cup {target}]
  /\ rejected' = rejected \cup {target}
  /\ pc' = "choose"

\* No upsize earned its place, or there was none.
UpsizesSpent ==
  /\ pc = "upsize" /\ left = 0
  /\ GiveUp("setup")
  /\ UNCHANGED <<timing, netlist, snapshot, target, left, fixes, set_aside, seq, metrics>>

\* `stage` refuses an unusable cell or a name the netlist has.
Applies == target \notin Unusable /\ seq \notin Names

TryInsert ==
  /\ pc = "insert" /\ Applies
  /\ UNCHANGED left
  /\ Try([kind |-> "insert", site |-> target, name |-> seq])

InsertRefused ==
  /\ pc = "insert" /\ ~Applies
  /\ GiveUp("hold")
  /\ UNCHANGED <<timing, netlist, snapshot, target, left, fixes, set_aside, seq, metrics>>

\* `t.update()?` fails on the candidate: the planner returns the error with the
\* candidate still in the timer's netlist.
UpdateFails ==
  /\ \/ pc \in {"swap", "upsize"} /\ left > 0
     \/ pc = "insert" /\ Applies
  /\ netlist' = Append(netlist, [kind |-> pc, site |-> target,
                                 name |-> IF pc = "insert" THEN seq ELSE -1])
  /\ pc' = "failed"
  /\ UNCHANGED <<timing, snapshot, target, left, fixes, rejected, tried, set_aside, seq, metrics>>

-----------------------------------------------------------------------------
(* The verdict                                                             *)

Candidate == netlist[Len(netlist)]
CheckOf(mv) == IF mv.kind = "upsize" THEN "setup" ELSE "hold"
Other(check) == IF check = "hold" THEN "setup" ELSE "hold"

\* The flags after a kept fix: a fix for one check revives the other.
RevivedOwn(check) == [set_aside EXCEPT ![check] = FALSE]
Revived(check) == [set_aside EXCEPT ![Other(check)] = FALSE]

\* The number of the next inserted cell: one already in the netlist is not reused.
SeqUnchanged(mv) == seq
SeqAfter(mv) == IF mv.kind = "insert" THEN seq + 1 ELSE seq

\* The candidate earned its place: plan.keep, and the other check gets another go.
Keep ==
  /\ pc = "judge"
  /\ LET check == CheckOf(Candidate) IN
       /\ Earns(snapshot.timing, timing, check)
       /\ fixes' = Append(fixes, [move |-> Candidate, check |-> check])
       /\ set_aside' = IF Mode = "both" THEN Revived(check) ELSE set_aside
  /\ rejected' = rejected \ {target}
  /\ seq' = SeqAfter(Candidate)
  /\ metrics' = [metrics EXCEPT !.after = timing]
  /\ snapshot' = NoSnapshot
  /\ pc' = "choose"
  /\ UNCHANGED <<timing, netlist, target, left, tried>>

\* A revert that leaves the candidate in the netlist.
RevertKeepingNetlist ==
  /\ pc = "judge"
  /\ ~Earns(snapshot.timing, timing, CheckOf(Candidate))
  /\ timing' = snapshot.timing
  /\ snapshot' = NoSnapshot
  /\ \/ Candidate.kind = "insert" /\ GiveUp("hold")
     \/ Candidate.kind # "insert" /\ pc' = Candidate.kind /\ UNCHANGED <<tried, rejected>>
  /\ UNCHANGED <<netlist, target, left, fixes, set_aside, seq, metrics>>

\* It did not: the checkpoint is restored; a site whose insertion failed is given
\* up on, a site with interchangeable cells left tries the next.
Revert ==
  /\ pc = "judge"
  /\ ~Earns(snapshot.timing, timing, CheckOf(Candidate))
  /\ timing' = snapshot.timing
  /\ netlist' = snapshot.netlist
  /\ snapshot' = NoSnapshot
  /\ \/ Candidate.kind = "insert" /\ GiveUp("hold")
     \/ Candidate.kind # "insert" /\ pc' = Candidate.kind /\ UNCHANGED <<tried, rejected>>
  /\ UNCHANGED <<target, left, fixes, set_aside, seq, metrics>>

-----------------------------------------------------------------------------

Attempt == TrySwap \/ SwapsSpent \/ TryInsert \/ InsertRefused \/ TryUpsize \/ UpsizesSpent

Next ==
  \/ Finish \/ BeginHold \/ BeginSetup \/ Exhausted
  \/ Attempt \/ UpdateFails
  \/ Keep \/ Revert

\* The planner is one loop on one thread: it takes its next step.
Spec == Init /\ [][Next]_vars /\ WF_vars(Next)

-----------------------------------------------------------------------------
(* Properties                                                              *)

\* The planner's variables have their types (repair.rs:91, 627).
TypeOK ==
  /\ timing \in Timings
  /\ netlist \in Seq(Moves)
  /\ snapshot \in [timing : Timings, netlist : Seq(Moves)] \cup {NoSnapshot}
  /\ pc \in {"choose", "swap", "insert", "upsize", "judge", "done", "failed"}
  /\ target \in Sites /\ left \in Nat /\ seq \in Nat
  /\ fixes \in Seq([move : Moves, check : Checks])
  /\ rejected \subseteq Sites
  /\ tried \in [Checks -> SUBSET Sites]
  /\ set_aside \in [Checks -> BOOLEAN]
  /\ metrics \in [before : Timings, after : Timings]

\* The timer holds exactly the plan's fixes, and the plan reports the slacks of
\* that netlist: replaying the plan reproduces them, whatever was tried and rolled
\* back in between (plan_hold_repair, repair.rs:346).
PlanMatchesTimer ==
  pc \in {"choose", "swap", "insert", "upsize", "done"} =>
    /\ netlist = [i \in DOMAIN fixes |-> fixes[i].move]
    /\ metrics.after = timing

FixesFor(check) == Cardinality({i \in DOMAIN fixes : fixes[i].check = check})
Floor(s) == IF s < 0 THEN s ELSE 0

\* However the fixes of the two checks alternate, neither check ends up violated
\* by more than it began with but for the noise each fix of the other may cost
\* ("judge ... refuses any fix that pushes the other check into violation",
\* repair.rs:619).
HarmBounded ==
  pc # "judge" =>
    /\ timing.wns >= Floor(metrics.before.wns) - Eps * FixesFor("hold")
    /\ Whs(timing) >= Floor(Whs(metrics.before)) - Eps * FixesFor("setup")

\* A plan that stops before its limit leaves no violating site it has not given
\* up on, though a check set aside may have been revived by the other's fixes
\* (plan_repair, repair.rs:623).
NothingLeftUntried ==
  pc = "done" /\ ~LimitReached =>
    /\ Mode # "setup" => HoldCandidates = {}
    /\ Mode # "hold" => SetupCandidates = {}

\* The next inserted cell never has the name of one inserted earlier, so that no
\* site is given up on for a name (`seq`, repair.rs:303).
FreshNames == pc # "judge" /\ pc # "failed" => seq \notin Names

\* What the plan is worth: the worst slacks of its two checks, where a slack beyond the
\* noise counts for no more than the noise. A kept fix takes a violated slack up by more
\* than the noise, and the other down by at most that or to zero.
Capped(s) == IF s < Eps THEN s ELSE Eps
Worth == Capped(Whs(metrics.after)) + Capped(metrics.after.wns)

\* How far an attempt has to go, if it keeps nothing: the candidates left, each with its
\* verdict, and the insertion after them.
ToGo ==
  CASE pc = "choose" -> 2 * MaxCandidates + 6
    [] pc \in {"swap", "upsize"} -> 2 * left + 4
    [] pc = "insert" -> 3
    [] pc = "judge" -> IF Candidate.kind = "insert" THEN 2 ELSE 2 * left + 5
    [] OTHER -> 0

GivenUp == {a \in Checks \X Sites : a[2] \in tried[a[1]]}
Aside == {c \in Checks : set_aside[c]}

\* Every step takes the planner closer to its end, by the first of these that it moves:
\* a kept fix makes the plan worth more, which is at most twice the noise; a site is
\* given up on for good; a check is set aside; the attempt goes on. So no alternation of
\* the two checks, each reviving the other it has set aside, goes on for ever, though no
\* limit is set ("Termination: every round either accepts a fix ... or sets a check
\* aside", repair.rs:624).
EveryStepProgresses ==
  [][ \/ Worth' > Worth
      \/ /\ Worth' = Worth
         /\ \/ GivenUp \subseteq GivenUp' /\ GivenUp # GivenUp'
            \/ /\ GivenUp' = GivenUp
               /\ \/ Aside \subseteq Aside' /\ Aside # Aside'
                  \/ Aside' = Aside /\ ToGo' < ToGo ]_vars

\* The planner terminates, with no limit on its fixes: every round keeps a fix or gives
\* up a site, and the fixes of the two checks cannot undo each other for ever
\* ("Termination", repair.rs:624).
Termination == <>(pc \in {"done", "failed"})
=============================================================================
