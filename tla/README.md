# Verification of sta-si

TLA+ specifications of `sta-si`, a static timing analyzer with an incremental
timing session and repair planners. TLC checks them on small instances; TLAPS
proves the safety properties of the passing runs for every value of the constants, some
of them under named conditions that the code does not enforce. Paths below are
relative to the repository (`src/` is its crate source directory).

## The system

| Component | Source | State it keeps | Operations | Hard because |
|---|---|---|---|---|
| Timing session `Timer` | `src/sta.rs` 636-1169 | working netlist, name index, report, dirty flag, staged swaps, incremental graph | build, stage, update, checkpoint, restore | an optimizer calls these in any order; caches must follow the netlist through rollbacks and failures |
| Incremental graph `IncGraph` | `src/inc.rs` | captured topology, arrays of arrivals, overrides, loads | `try_update` | a second implementation of the analysis, allowed to answer only when it is certain |
| Repair planners | `src/repair.rs` | the plan, sites given up on, checks set aside, a name counter | `plan_hold_repair`, `plan_setup_repair`, `plan_repair` | speculative edits judged by an arbitrary re-analysis; termination; two checks pulling against each other |
| Verdict `judge` | `src/sta.rs` 359-407 | none | one comparison | noise, repeated |
| Full analysis `build_report` | `src/sta.rs` 1242-4486 | none between calls | one analysis | fixed points, lanes, clock relations, exceptions |
| Clock relations `cycle_accting` | `src/sta.rs` 154-217 | the walk | one search over cycles | a limit, and a test for being done |
| Exceptions | `src/exc.rs` | exceptions in file order | read, refuse, match, best, shift | priority and ties |
| Constants | `src/sim.rs` | pin values, work list | seed, propagate, narrow arcs | order of seeding, feedback, conflicts |
| Disabled timing | `src/disable.rs` | sets of disables | set, unset, query | several names of one arc |
| Data checks | `src/data_check.rs` | checks per pin pair | set and unset in file order | order |
| Job and constraints | `src/job.rs` | the job | parse, load, merge, validate, resolve port delays | what overwrites what, what is dropped |
| Engine | `src/engine.rs` | none | load, multi-corner, verdicts | partial failure, six renderings of one verdict |
| Command line | `src/main.rs` | one invocation | verbs, outputs, exit codes | exit paths |
| Tcl adapter | `src/tcl.rs` | the job being made, notes, reports asked | one command at a time, finish, render | general Tcl between constraints |
| SDF writer, SI entry points | `src/sdf.rs`, `src/si.rs` | none | formatting, a re-export | |

How they interact: the command line, the engine or the Tcl adapter builds a job
and asks for one full analysis. A planner holds a `Timer` and loops: checkpoint,
stage one move, update, judge, then keep the move or restore the checkpoint. An
update first offers the staged swaps to the incremental graph, which serves them
or declines; a declined or impossible offer drops the graph and analyses in
full, capturing a new graph. The program is single-threaded. What is hard is not
the interleaving of threads but the sequence of calls: what a cache holds after
any order of edits, updates, failures and rollbacks.

What makes each component correct:

* `Timer`: the report of a clean session is what a full analysis of its netlist
  would compute; index and staged swaps follow the netlist; a restore brings
  back the checkpoint; no call panics.
* planners: the timer holds exactly the kept fixes; no rejected candidate leaves
  a trace; neither check is harmed beyond noise; no site is left; the loop ends.
* constraint readers (disables, data checks, port delays, exceptions): what is in
  force is what the commands of the file, in their order, say; what is taken
  back or added moves a check in one direction only; the order of commands that
  do not contradict each other is immaterial.
* constants and clock relations: the algorithm ends and computes what a plain
  definition says.
* job, command line, Tcl adapter: nothing that can move a slack is dropped in
  silence; a job that loads can be analysed; exit code, files and reports tell
  the same verdict.

The hazards this list comes from are in `PROJECT.json`, each at its line.

## The modules

| Module | Models | Extended by |
|---|---|---|
| `Timer` | `Timer` of `sta.rs` and `IncGraph::try_update` of `inc.rs` | `MCTimer`, `PlannerSession` |
| `TimerOracle` | what a session promises its client, as a specification | instanced by `Timer` |
| `PlannerSession` | the session driven as a planner drives it | `MCPlannerSession`, `TimerProofs` |
| `Repair` | the planners of `repair.rs` with `judge` | `MCRepair`, `RepairProofs` |
| `IncCone` | the arrivals, slews and loads of `relax` (`sta.rs`) and of `recompute_node` (`inc.rs`) | `MCIncCone`, `MCConeAgrees`, `MCConeDiffers`, `ConeProofs` |
| `Disables` | `disable.rs`, and the cell arcs, wires and checks `build_report` makes of it | instanced by `FrontEnd` |
| `DataChecks` | `data_check.rs`, and the setup and hold sides of `build_report` | " |
| `PortDelays` | `resolve_port_delays`, `merge_sdc_into`'s delays and transitions, `input_delays_for`, `input_slew_for`, `out_check` | " |
| `Exceptions` | `exc.rs` | " |
| `Sim` | `sim.rs`, and the arcs `build_report` builds | " |
| `CycleAccting` | `cycle_accting` (`sta.rs`) | " |
| `JobLoad` | `StaJob::load`, `parse`, `load_sdc`, `merge_sdc_into`, `validate`, `not_applied_warnings` | " |
| `CommandLine` | `main.rs`, `analyze_mcmm` and the verdicts of `engine.rs` | " |
| `TclAdapter` | `tcl.rs` | " |
| `FrontEnd` | the instances of these nine, one at work in each behaviour, and their properties | `MCFrontEnd`, `ReaderProofs`, `ExceptionProofs`, `FlowProofs` |
| `MCFrontEnd`, `MCTimer`, `MCPlannerSession`, `MCRepair`, `MCIncCone`, `MCConeAgrees`, `MCConeDiffers` | values for the constants, for TLC | |
| `LeastNatural` | theorems about least elements, last positions, joined lists, common measures and multiples, counting up | `RepairProofs`, `ConeProofs`, `ReaderProofs`, `ExceptionProofs`, `FlowProofs` |
| `TimerProofs`, `RepairProofs`, `ConeProofs`, `ReaderProofs`, `ExceptionProofs`, `FlowProofs` | theorems about the modules they extend | |
| `SimProofs` | theorems about constants, and the types of all of `FrontEnd` | |

### Timer

A report carries, per instance, the cell whose delay arcs were used (`arcs`),
the cells and pin loads of the clock network (`clock`), and per flop the cells
whose setup and hold tables its checks read. Two reports with the same entries
are the same numbers; `Full(s)` is the report of a full analysis of netlist `s`.
This keeps what the incremental path can get wrong, which cell a number came
from, and drops the numbers.

* `Resize` and `InsertDelay` are the two arms of `stage`. An insertion puts the
  new instance at the end, redirects the sink, extends the index and drops the
  graph; it leaves the staged swaps alone, as the code does.
* `UpdateIncremental`, `UpdateFull`, `UpdateError` and `UpdatePanic` are the four
  ends of `update`. The fast path declines a swap to or from an unknown cell, a
  sequential swap that changes the load of the clock pin, a cone that meets a
  clock pin or a clock-launched node. It may also decline a cone with an
  endpoint in it, when the endpoint's launching flop changes: arrivals decide
  that and the model leaves it open. It reads arrays sized for the netlist the
  *state* was captured from while it walks the *topology*, and `UpdatePanic` is
  the read past their end.
* `Checkpoint`, `Keep` and `Restore` move every field the code moves. `Restore`
  puts back the state of the graph and not its topology, and nothing at all when
  either side has no graph.

A client proposes cells of the right kind or a name the library lacks, since
`stage` checks none of that. Instances have one data input and one output; pins
of one instance move together in everything the fast path decides.

### PlannerSession and Repair

`PlannerSession` composes `Timer` with the planners' calling order, leaving site,
cell and verdict open: it is the client whose calls matter. `Repair` has the
planners' own bookkeeping and abstracts the timer to a netlist, as a sequence of
moves, and arbitrary slacks after each update, so nothing rests on a fix
helping. Slacks are integers in units of `eps`.

### IncCone

The numbers that `Timer` abstracts away: the arrival and slew of each node, for
the late and the early analysis and both edges, and the load of each net. A node stands
for a port or an output pin; the lanes of an input pin follow from its driver's
(`PinLanes`). The table lookups are parameters (`DelayOf`, `SlewOf`, `Rethreshold`,
`DriveDelay`, `DriveSlew`).

`Relax` is the full pass. It has the graph `build_report` builds (`BuiltArcs`: no
disabled arc, none to or from a constant; `Cut`: no wire from a disabled pin), the walk
of the delay calculation over it (`Calculated`), the clock network and the ideal part
of it. An arc whose input has a slew and no arrival still sets a slew, as `slew_only`
does. A clock-to-output arc is launched by its own edge, and by a declared clock if
there is any. A wire between two libraries is re-expressed at the load's thresholds.

`ConeLanes` is the fast path over the cone of the staged swaps, with the arcs of
swapped cells overridden, loads moved by differences, and input pins given their
driver's lanes as they are (`bare`); none of the above is in it, as none of it is in
`recompute_node`. Of what a context may hold, parasitics, a derate that is not flat,
path-based analysis, data checks, falling-edge launches and constants that narrow an
arc to one edge make `build_report` capture no graph (`simple_ctx`, `sta.rs` 2023), so
the fast path never runs beside them and the module leaves them out. Endpoints, the
collapse to one lane and checkpoints stay with `Timer`.

### The constraint readers: Disables, DataChecks, PortDelays, Exceptions

Each reads a constraint file command by command: one step is one command, whole,
in the order of the code's loop, and `sdc` (or `exceptions`) keeps the commands
read so far, so that a property can say what the file as a whole ought to mean.
What a glob matches in a design is a constant (`Matches`); the ways a command
fails, a name that is not found, a bus where a pin is wanted, a margin that is no
number, are members of the command sets.

* `Disables` holds the four sets of the code, with the all/from/to/from-to table
  of an instance or cell as one set of pairs. `build_report` consults them in three
  places: for the arcs of a cell (`Timed`), the wires of a driver (`Driving`,
  `PortDriving`) and the checks (`Checked`). `ArcsFollowFile` says when an arc or a
  wire is there: every way of naming it was last taken back in the same words. What
  becomes of a pin that is cut off by them is in `IncCone`.
* `DataChecks` keys checks on the pins a name resolves to. Its required times and
  hold slacks are `build_report`'s, and `UnsetsOnlyRelax` is about those.
* `PortDelays` keeps one object per clock edge, as the code does, with
  `-add_delay` merging slot by slot, and the arrival and requirement derived.
* `Exceptions` states a file of false paths and multicycles and takes every
  query (a path and a check) in every state: priority, tie and shift are
  operators of the state. `OrderImmaterial` exempts two multicycles that cover the path
  in question, of one priority and one multiplier, that count different clocks: the
  code keeps the first.

### Sim and CycleAccting

`Sim` is the propagation of constants with its work list: seeds in the code's
order, one instance evaluated per step, then the senses of narrowed arcs. It is
compared with rounds over the whole netlist, which know neither order nor work
list. The code enumerates a function over at most 16 free pins and beyond that gives
it no value and leaves its arcs the library's sense; the module is about functions of
no more than that (`FreePorts`). `CycleAccting` takes one pair of edges per step, with the two exits of the
inner loop and the limit of the outer one, and is compared with the closest pair
by arithmetic on the common divisor of the periods.

### JobLoad, CommandLine, TclAdapter

`JobLoad` is the path from a job file through a constraint file to a validated
job, and where the value of each setting comes from. `CommandLine` is one
invocation: a step per stage of `main`, each of which may fail where the code
has an exit, then the report and the exit code; the verdicts of the two JSON
reports, the rows, the events and the text are operators beside it, compared by
`GateTellsTheVerdict`. `TclAdapter` is a step per script command, with the trial
parse that decides whether an unknown command goes to the constraint reader;
which lines that reader takes is external, modelled by what a line needs and
gives. What the adapter says nothing of has a name: the commands it passes over
(`PassedOver`: the units of a script, a read without a file) and the lines no list
of a script has (`Unsaid`: a refused command of a kind this timer models, a clock latency
that does not cancel). `AppliedOrSaid` is that everything else is applied or said;
`NothingSilent` is what the comments say, without exemption, and is violated.

`CostsOnlyItself` judges a line where it stood. A script may hold a line that does
not read, and the same line again after the command that defines what it needs:
the first is noted, the second is taken, and both are right.

`FrontEnd` instances these nine modules. They share no state: a behaviour is of one
`reader`, the variables of the others stay `Idle`, and a property of a part is
conditional on the part being at work. `MCFrontEnd` gives each part its inputs.

## The runs

| Run | Question | Outcome |
|---|---|---|
| `timer_session` | any client, with unknown cells: do index and staged swaps follow the netlist? | holds |
| `timer_same_graph` | clients that roll back only over fast-path updates: do both paths agree, is the clock network left alone, and is the promise kept? | holds |
| `timer_checks` | are a clean session's checks those of its netlist? | violated |
| `planner_session` | does a rejected candidate leave a trace? | holds |
| `planner_panic` | can a planner's session read past an array? | violated |
| `repair_both` | the combined planner without a limit, when the checks take turns in reviving each other: plan, timer, harm, names and leftovers; does each step lead on, and does the plan end? | holds |
| `cone_agrees` | are the fast path's loads, arrivals and slews the full pass's? | holds |
| `cone_differs` | also with a flop, a driven port, a second input for an edge, another library, a cut-off input, a disable? | violated |
| `front_end` | do the constraint readers, constants, clock relations, job loading, command line and Tcl adapter each do what their file or script says? | holds |
| `job_merge` | is a job file's own value kept where the constraint file is silent? | violated |
| `clock_edges` | is the relation of two clocks the closest, with edges at the end of a period too? | violated |
| `tcl_silent` | is everything a script says applied, warned of or noted? | violated |

The violations are disagreements of the code with its own comments and
tests:

* `restore` pairs the checkpoint's arrays with the graph of a later full
  analysis. After a rejected insertion the topology has nodes the arrays lack,
  and a swap whose cone reaches them panics (`planner_panic`). After a rejected
  swap that was re-timed in full, the topology keeps the rejected cell's arcs
  under the restored state, by the same line. The same-graph runs and `NextSameGraph` state the condition
  under which the session is right: no full analysis since the checkpoint.
* A flop's new constraint tables are overridden for one call only
  (`timer_checks`).
* The fast path's arithmetic is said to mirror `relax`, and differs from it in six
  ways, which `cone_differs` shows by one swap of a gate `g1`, each at a node of its own.
  It takes a slew from the arc that wins the arrival, where `relax` merges slews on their
  own (`s2`). It lets both clock edges launch a swapped flop, or one that drives a swapped
  gate, and does not ask whether it is a clock that arrives (`ff`). It overrides a swapped
  cell with every arc of the new one, disabled or held by a constant or not (`g1`, falling).
  It skips an input without an arrival, whose slew `relax` takes (`s4`). It passes a
  driver's lanes on to a pin of another library as they are (`s3`). It gives no delay to
  the wires of a port with a driving cell, and leaves that port's slew at the load before
  the swap (`d`, `s1`). It also walks the cone over the arcs of the captured graph, so that
  a swap to a cell with arcs from other pins would leave nodes out. `PlainSwaps`,
  `PlainDrivers`, `PlainFlops`, `OneThreshold`, `AllCalculated` and `SlewsAgree` state the
  condition under which the two passes agree: `cone_agrees` checks it on a netlist
  and `LanesStayExact` proves it of all of them.
* `merge_sdc_into` overwrites the job's uncertainty with the constraint file's
  even when that file has none (`job_merge`).
* `cycle_accting` starts an edge at the end of its period in cycle -1 and stops
  when the clocks are back in step, so that it can miss the closest capture edge
  (`clock_edges`); a fall edge of `-waveform {0.5 1}` and period 1 is one. With
  edges inside their periods `front_end` finds the relation right.
* `adapt` drops three kinds of thing without a word (`tcl_silent` has a script with all
  three): `set_units` and `set_cmd_units`, with the engine's units taken for the script's;
  a constraint that is refused although this timer models its kind; a clock latency that
  does not cancel, of which the job path warns.

Bounds. Three or four instances suffice for a launching flop, a gate that can be
swapped with a load before and a cone behind it, and a capturing flop; one or
two inserted delays give a graph that grows and an index that must shrink. Three
updates allow an update before the checkpoint, one to reject and one after the
restore; the violated planner run needs a fourth. One staged swap at a time is
what the planners do; `timer_session` stages two, so that they coalesce and
overlap. `Repair` has two hold endpoints and a stage, one candidate cell per site and no
limit on the fixes, so that a swap, its fallback and a second round on the same site all
happen; an insertion cannot be staged at one endpoint, which stays violated with no site
left as an output port would. Five slack values (met with room to lose, met, three depths)
and a start with both checks at the deepest make the checks take turns: each is fixed more
than once, runs out of sites, is set aside and is revived by a fix of the other, which may
undo part of what it gained. A start with setup met lets several fixes of hold erode it,
each by the noise. A limit (`MaxFixes`) only ends a plan sooner; the theorems
about `Repair` are for every limit. In `cone_agrees` `IncCone` has a fork of three gates with two cells each, of different load and delay, one of them with
a second input from a port, so that a cone has a boundary with nodes left alone,
a fourth gate that stays, with a disabled input and one from a driven port, and an ideal
clock with its buffer and a flop;
ports have three arrivals (one of them on one edge only), and four swaps: enough to stage a gate
twice, to swap one back, and for the fast path to follow itself and a full pass.
In `front_end` a constraint file has up to `MaxCommands` = 3 commands, enough for a
set, another set that overlaps it in other words, and an unset; a script up to
`MaxMore` = 3 after an opening that is empty or has all that a job needs;
constants up to `MaxCases` = 2 commands over seven gates with a loop, a mux, a
tri-state driver, a tie cell and a tied pin. Clock periods go to `MaxPeriod` = 5
with every edge time inside them, so all pairs with and without common divisors
occur; the code's cycle limits 100 and 1000 become `RelatedCycles` = 2 and
`FreeCycles` = 3, so that some pairs come back in step within the limit and others (4 and
5, say) are given up at it. A
multi-corner job has two scenarios, so that the first may succeed before the
second fails. Slacks are -1, 0 or none, the only values a verdict tells apart.

The bounds are the constants `MaxUpdates`, `MaxStaged`, `MaxCandidates`,
`MaxSwaps`, `MaxCommands`, `MaxCases`, `MaxMore`, `MaxPeriod` and the sets.
Deadlock checking is off: a plan, a file or a script is done, and a client may
have used its updates or swaps.

Fairness. `Repair`, and in `FrontEnd` the walk over clock cycles
and the propagation of constants, have weak fairness of their
next-state relations: each is one loop, or one function, on one thread that
nothing else can stop. On it rest `Termination`, `WalkEnds` and
`Settles`. `Timer`, the command line and the readers of files are passive and get none.

## The proofs

Each theorem is `Spec => []P` of the module it is about, or `Spec => P` for an
action property, unless it says otherwise.

| Theorem | Property |
|---|---|
| `SessionTypes`, `IndexFollowsNetlist`, `PendingFollowsNetlist` | `TypeOK`, `IndexAgrees`, `PendingAgrees` of `Timer` |
| `SameGraphNoPanic`, `SameGraphArcs`, `SameGraphClock` | `NoPanic`, `ArcsFaithful`, `ClockFaithful` of `Timer`, under `SameGraphSpec` |
| `SessionKeepsPromise` | `KeepsPromise` of `Timer` (it implements `TimerOracle`), under `SameGraphSpec`, when no flop is swapped |
| `RejectedAreUndone` | `RejectedLeaveNoTrace` of `PlannerSession`, under `SessionSpec` |
| `PlannerTypes`, `PlanIsTheTimers`, `HarmIsBounded`, `NamesAreFresh`, `NothingIsLeft` | `TypeOK`, `PlanMatchesTimer`, `HarmBounded`, `FreshNames`, `NothingLeftUntried` of `Repair` |
| `StepsProgress`, `WorthBounded` | `EveryStepProgresses` of `Repair`, and `Worth <= 2 * Eps`, which bounds what it counts |
| `ConeTypes`, `LoadsStayExact` | `TypeOK`, `LoadsFaithful` of `IncCone` |
| `LanesStayExact` | `LanesFaithful` of `IncCone`, when `PlainSwaps`, `PlainDrivers`, `PlainFlops`, `OneThreshold`, `AllCalculated` and `SlewsAgree` hold |
| `ArcsFollow`, `ChecksSurvive` | `ArcsFollowFile`, `ChecksSurviveAll` of `FrontEnd` |
| `MarginsFollow`, `UnsetsRelax` | `MarginsFollowFile`, `UnsetsOnlyRelax` of `FrontEnd` |
| `SlotsFollow`, `AddsWiden` | `SlotsFollowFile`, `AddsOnlyWiden` of `FrontEnd` |
| `FalsePathsDrop`, `HoldFollows`, `OrderDoesNotMatter` | `DroppedByFalsePathOnly`, `HoldFollowsSetup`, `OrderImmaterial` of `FrontEnd` |
| `RelationsAreClosest` | `RelationIsClosest` of `FrontEnd`, when `EdgesInside` holds |
| `ContradictionsAreSaid`, `SwitchingIsTimed` | `ConflictsSaid`, `TimedIsWhatSwitches` of `FrontEnd` |
| `ValuesAreClosed` | `ValuesAreTheClosure` of `FrontEnd`, when `TiesApart` holds |
| `LoadedJobsRun`, `DropsAreSaid` | `LoadedIsRunnable`, `SaidOrApplied` of `FrontEnd` |
| `NoSuccessWithoutReport`, `GateAgrees` | `SuccessDelivers`, `GateTellsTheVerdict` of `FrontEnd` |
| `ScriptsAreHeard`, `LinesCostThemselves`, `ReportsAnswer` | `AppliedOrSaid`, `CostsOnlyItself`, `ReportsInOrder` of `FrontEnd` |
| `PartTypes` | `TypeOK` of `FrontEnd` |

### The session

`TimerProofs` rests on `SInv`: the session's netlist, index, staged swaps and
dirty flag are consistent, *and so are those of the checkpoint*. Without the
second part `Restore` preserves nothing.

For same-graph clients it adds `GInv`, what a graph knows of its session. The key
is the cell an instance had *as of the last update* (`Settled`): the old cell of
its staged swap, or else its own. A graph has the netlist's shape, its cached arcs
and its overrides are those of the settled cells, and no cell on the clock
network differs from the captured one, because the fast path declines a cone
that reaches it. The cone holds every staged instance, so after a served update
the settled cells are the netlist's. The same holds of the checkpoint's state
under the graph in hand, but only while no full analysis was made since
(`SavedGraph`): this is what `NextSameGraph` grants and an unrestricted
`Restore` breaks. The refinement needs the constraint tables too (`HInv`),
which are right when no flop is swapped (`CombinationalOnly`); `timer_checks`
shows that they are wrong otherwise. `NoCheckpointIsNone` says that the value
for "no checkpoint" is not a checkpoint record, which TLA+ does not imply of a
constant.

A planner does not stay with one graph, and `RejectedAreUndone` does not ask it
to: netlist, index, staged swaps, report and dirty flag are restored whatever
graph is in hand. `AttemptInv` has the phase of the attempt decide what is known
of the session (at rest, or judged and clean) and of its checkpoint.

### The planners

`RepairProofs` strengthens the plan's
invariants with what holds while a candidate is judged: the snapshot is the
session before the candidate, and the netlist is the snapshot's with one move
appended. `HarmBounded` is an induction over kept fixes, each of which `judge`
accepted. For `NothingLeftUntried`, `DoneInv` says of a check that is set
aside that it has no untried site in the timing the round began with: only a kept
fix of the other check changes that timing, and it brings the check back.

That the plan ends although the checks revive each other rests on its `Worth`: the two
worst slacks, each counted up to the noise and no further. A kept fix takes a violated slack
up by more than the noise, and takes the other down by at most the noise or down to
nothing worse than met, so the sum rises (`KeepWorth`); it is at most twice the noise
(`WorthBounded`). A step that keeps nothing gives up a site for good, sets a check aside or
shortens the attempt, and none of these undoes what comes before it in that order
(`StepsProgress`). `AttemptInv` is what the step needs to know: an attempt is for a check
that was violated when its round began, at a site not given up on. Worth, sites, checks and
candidates are finitely many, so that no behaviour makes such steps for ever; that last
conclusion, which needs fairness, is `Termination`, for TLC.

`LeastNatural` proves that finite sets of integers have
a least element, which makes the worst slack well defined, from the library's
theorem that the strict subsets of a finite set are well-founded.

### The fast path

`CInv`: the loads are those of the netlist *before* the staged swaps (`Before`). An
update moves the load of a net once for every pin of a swapped instance on it, by
the difference of the two cells; the lemmas about finite sums (`SumFunction`) make
of these differences the sum over all pins of the new netlist, on which a full
pass starts. Swaps that coalesce, or go back to the first cell, leave `Before` alone.

The arrivals and slews are by `LInv` those of a full pass over `Before` too. What the
passes walk before they visit a gate - the nodes the delay calculation reaches, the clock
network, the cone - are floods over one set of pins, and a flood is the least set closed
under them (`FloodIs`, `Closed`); swaps that keep their arcs' pins leave them alone
(`SameGraph`). With every node calculated and one threshold, a pin has its driver's lanes
but for ideal clocks and driven ports (`PinLanesIs`).

Both passes are recursions over the gates in `Order`, and the invariant of their joint
walk (`FastPathExact`) has three parts: the cone so far holds every gate whose
arrivals the two netlists tell apart; what the fast path has recomputed so far is
the full pass over the new netlist; and a gate outside the cone has in both
netlists the same cell, the same loads around it and the same arrivals at its
inputs, hence the same arrivals. A gate is visited once (`NotVisited`) and reads only
gates visited before it (`VisitsSettle`), which is what the order is for. The pins the
fast path reads with their driver's lanes as they are belong to nets that no driving
cell and no clock drives (`MovedBareIs`), where the full pass gives them the same
(`FastPinsAre`). For a gate in the cone the two ways to compute a node must agree
(`WinnerIsMerged`, `FastIsFull`): the fast path takes the slew of the arc that wins the
arrival.

Every hypothesis is one the two passes need. In `cone_differs` the nodes `s2` and `ff`
differ for want of `SlewsAgree` and `PlainDrivers`, `s1` for want of `PlainDrivers`, `g1` of
`PlainSwaps`, `s4` of `AllCalculated` and `s3` of `OneThreshold`; one arc for each output
edge is enough for `SlewsAgree` (`OneArcAgrees`). Cells with arcs from
different pins, or a flop that an asynchronous pin brings into the cone (`PlainFlops`),
each give TLC one in a few steps too.

### The constraint readers

The invariants say of each slot of the state *which command of the file it is from*.
`DisInv`: a pin, port or pair is in a set exactly when the last command that says
anything of it is a set; the arcs, the wires and the checks are then read off the sets.
`ChkInv`: one check per pair of pins, and each margin is
that of the last command that names its slot. `DelInv`: the value of a slot is the
extreme of those since the last command that replaced it, and the transition is the
last. Each is kept by "one command more": the last position of the longer file
is the new command if it is one of those meant, or else the old one (`LastAfter`).
That a data check taken back relaxes, and an added delay widens, is then a fact
about minima and maxima over a smaller or a larger set.

For the exceptions the state is the file, and the work is in the operators. The
priorities of false paths and of multicycles lie in disjoint ranges. The scan has
one winner: the first of the highest priority or, among multicycles, of the smallest
multiplier. A multicycle for setup that wins the hold check wins the setup check
too, so the two edges move together. Two neighbours exchanged change who is first
of a tie, and those in a tie do the same (`SwapWins`).

### Clock relations

`RelationIsClosest` knows no walk: the closest capture edge after a launch edge is
the distance of the two within their periods, brought into one common divisor of the
periods. That such a pair of edges exists is Bezout's identity, which `LeastNatural`
proves without induction over a recursion: the least positive combination of the
periods divides both (`CommonMeasure`), so that every multiple of it is met
(`EveryMultipleMet`). That the walk finds the pair is `WalkInv`: every pair it has
compared is recorded, and a relation is the gap of some real pair. The clocks are in
step at the multiples of the common cycle and nowhere else (`InStepOnly`), so a return
means a whole common cycle is done, all of whose pairs have been compared
(`CommonCycleWalked`); a closest pair lies in it, or is the last before its end
(`ClosestCapture`, `ClosestLaunch`). This is where the edges must lie inside their periods:
`clock_edges` is the counterexample without `EdgesInside`, and the clocks of
`front_end` satisfy it.

### Constants

`SimInv` is about the work list. A value that contradicts the constraint of a pin -
its driver's, its tie's, its tie cell's, its function's - is *already warned of, or
still to come*: a given value is among the seeds not set yet, or the instance is
queued. A value may change on the way, by a second driver or around a loop; what
changes it queues the instances that read it, so that the claim is owed again rather
than lost. Warnings are never taken back. When nothing is left
to come, everything contradictory has been said (`ContradictionsAreSaid`). One step of the code sets several pins in a loop; the
model's folds over them are walks, and `SimProofs` has the lemmas that carry a
property of the state along a fold (`FoldExists` and those after it).
For `SwitchingIsTimed` the invariant has that every instance with a value at a
pin is among those whose arcs get a sense at the end, by the values of the end.

`ValuesAreClosed` compares the work list with rounds over the whole netlist, and
neither follows the other step by step. What they share are the *closed* values
(`Closed`), which agree with the constraints, with what is given, along nets and across
gates. More values at its inputs give an output its value and never another
(`EvalRises`), so a round only adds values, the rounds come to rest after as many as
there are pins (`RoundsRest`), and they rest at the least closed values (`LeastClosed`).
`CloseInv` says of the work list that it is always on the way to any closed values
(`Rising`): what it holds is below them; an output holds what its inputs make of
it, or nothing yet, so an evaluation never takes a value back; a net is level but for
the pins a constraint holds; an instance not queued has its outputs' values; and what is
given or constrained is in place or still among the seeds. At the end its values are
closed themselves, and so the least. The rounds are a recursive function; its values
and that a function repeated so many times exists come from `Counting` and
`RepeatExists`, which use least elements and no induction theorem.

`TiesApart` asks that the netlist ties a pin once, and one that nothing drives, and that
no tie cell has a disable pin; the netlist of `front_end` does. A tied pin which is also
driven takes the value that comes first, and a tie cell keeps the value it was given
whatever its disable pin holds until one of its inputs gets a value.

### Job, command line, script

`LdInv` and `ClocksInv` follow a job through the phases of its loading.
`CmdInv` says what an invocation has delivered *at each stage*, and that a failed one
has said nothing yet; `GateAgrees` is about all verdicts of one list of reports
and rests on minima of slacks that may be absent. `ScrInv` joins two parts.
`CostInv`: a line that was tried reads if those before it do, and a command
left out did not read where it stood, whatever came after. `HeardInv`: of every
command read that is not `PassedOver`, its lines are in the text or its note is there;
of the lines in the text, the end of the script has those that are not `Unsaid`. `OrderInv`: the list
of reports has, at the place of each command among those that ask for one, what that
command asked for.

### Assumptions

Assumptions are those on the constants, and TLC evaluates them in every run: names
and cells of different kinds are disjoint, the initial netlist is well formed,
slacks are a finite set of integers, `eps` is not negative; gates are listed in
an order in which each stands once and reads earlier ones or ports, no port is a
gate, a cell has finitely many arcs and a capacitance for each of its pins.
`LanesStayExact` adds that arrivals, slews and delays are integers (`Numbers`), and
the six conditions named with it; `RelationsAreClosest` that an edge time is less than its
period (`EdgesInside`); `ValuesAreClosed` what `TiesApart` says of tied pins and tie
cells. `FrontEndAssumption` gathers the `ConstantsOK` of the nine parts:
what a command, a job, an invocation or a path is made of, that a glob matches
objects of its kind, that a pin belongs to one instance and drives or reads but not
both, that a net has one driver, and that a function which reads pins is not constant:
such a function is never evaluated while none of its pins has a value, so nothing
would be said of it; and that it reads no more pins than the code enumerates. No bound is
used but as a natural number.

### Only model-checked

* Liveness: `Termination`, `WalkEnds` and `Settles` need fairness.
* The runs that expect a violation.

`AddsOnlyWiden` is the other way round: it is proved (`AddsWiden`) and no run checks it;
`SlotsFollowFile`, which says what each of the same slots holds, has the run.

## Not modelled

* Parsing and formatting (Liberty, Verilog, SDF, JSON, the Tcl lexer), and the
  layout of reports. The libraries the crate takes its readers from
  (`vyges-loom`, `vyges-events`) are external.
* Of `build_report`: floating-point rounding, wire delay models and table
  interpolation, the crosstalk fixed point, CRPR, propagation of clocks, and
  path-based analysis: arithmetic over real numbers, which small integers would
  not represent.
* Of `job.rs`: derates, net annotations and the fields of the job that a merge
  copies without a rule.
* Of `engine.rs`: reading files, and what the coverage and lint reports contain
  (`CommandLine` has whether a lint has errors or warnings).
* The SDF writer and the integration scripts.
* A text report of a single run without setup endpoints ends before its hold
  section, and a multi-corner run looks at neither `--sdf` nor
  `--emit-liberty-json`. No document promises otherwise; the properties of
  `CommandLine` are stated around both.
