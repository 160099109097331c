------------------------------- MODULE Timer -------------------------------
(***************************************************************************)
(* The persistent timing session of sta.rs (`Timer`): a netlist an         *)
(* optimizer edits, the report of the last update, and the cone-localized  *)
(* fast path of inc.rs (`IncGraph`) that may serve an update instead of a  *)
(* full re-analysis.                                                       *)
(*                                                                         *)
(* Delays and slacks are abstracted to what decides whether a report is    *)
(* right: for every instance, the cell whose delay arcs its timing was     *)
(* computed from, and for every flop the cells whose setup and hold tables *)
(* its checks used. A full analysis uses the netlist's own cells; the fast *)
(* path uses whatever its captured topology, its overrides and its cached  *)
(* arrays hold. The numbers themselves are the subject of module IncCone.  *)
(*                                                                         *)
(* Instances are numbered by their position in `nl.insts`, as the nodes of *)
(* the timing graph are. An instance has one data input, fed by the output *)
(* of another instance (a position) or by an input port; a flop also has a *)
(* clock pin.                                                              *)
(***************************************************************************)
EXTENDS Integers, Sequences, FiniteSets

CONSTANTS
  Flops,       \* the names of the sequential instances
  Gates,       \* the names of the combinational instances
  Delays,      \* the names an inserted delay cell may be given
  ClashNames,  \* those of Delays whose net name `{name}_n` the netlist already uses
  Ports,       \* input ports
  ClockPort,   \* the one of them that is the clock source
  CombCells,   \* library cells a gate may be
  SeqCells,    \* library cells a flop may be
  DelayCell,   \* the combinational cell inserted as a delay element
  BadCell,     \* a cell name the library does not hold
  CkCap,       \* the clock-pin capacitance of each sequential cell
  InitInsts,   \* the netlist the session is built from
  SimpleCtx,   \* the job is in the simple timing context (a graph is captured)
  Proposals,   \* the cell names the client proposes in a swap
  MaxUpdates,  \* bound on the updates of one behaviour
  MaxStaged,   \* bound on the swaps staged at once
  NoGraph,     \* `inc` is None
  NoCheckpoint \* no checkpoint is held

Cells == CombCells \cup SeqCells
Names == Flops \cup Gates \cup Delays

\* An instance of the netlist: `ck` is what drives its clock pin (0: it has none).
Inst == [name : Names, cell : Cells \cup {BadCell},
         from : (Nat \ {0}) \cup Ports, ck : Nat \cup Ports]

FlopPos == {k \in DOMAIN InitInsts : InitInsts[k].name \in Flops}

ASSUME NamesAssumption ==
  /\ Flops \cap Gates = {} /\ Flops \cap Delays = {} /\ Gates \cap Delays = {}
  /\ ClashNames \subseteq Delays

ASSUME CellsAssumption ==
  /\ CombCells \cap SeqCells = {}
  /\ DelayCell \in CombCells
  /\ BadCell \notin Cells
  /\ CkCap \in [SeqCells -> Nat]

ASSUME PortsAssumption ==
  /\ ClockPort \in Ports
  /\ Ports \cap Nat = {}

ASSUME BoundsAssumption ==
  /\ MaxUpdates \in Nat /\ MaxStaged \in Nat
  /\ SimpleCtx \in BOOLEAN
  /\ Proposals \subseteq Cells \cup {BadCell}

ASSUME InitInstsAssumption ==
  /\ InitInsts \in Seq(Inst)
  /\ \A j, k \in DOMAIN InitInsts : InitInsts[j].name = InitInsts[k].name => j = k
  /\ \A k \in DOMAIN InitInsts :
       /\ InitInsts[k].name \in Flops \cup Gates
       /\ InitInsts[k].cell \in IF InitInsts[k].name \in Flops THEN SeqCells ELSE CombCells
       /\ InitInsts[k].from \in DOMAIN InitInsts \cup Ports
       /\ InitInsts[k].ck \in DOMAIN InitInsts \cup Ports \cup {0}

VARIABLES
  insts,     \* nl.insts: the working netlist
  inst_idx,  \* instance name -> position in insts
  report,    \* the cached report (see Full)
  dirty,     \* a mutation is staged and not yet folded into the report
  pending,   \* cell swaps staged since the last update: name -> (old, new)
  inc,       \* the incremental graph, or NoGraph
  n_inc,     \* updates served by the fast path
  n_full,    \* updates served by a full re-analysis
  saved,     \* the checkpoint the client holds, or NoCheckpoint
  alive      \* FALSE once an array was indexed out of bounds (a panic)

vars == <<insts, inst_idx, report, dirty, pending, inc, n_inc, n_full, saved, alive>>

-----------------------------------------------------------------------------
(* The analysis                                                            *)

\* The nodes reached from S through combinational instances (a flop's Q is not
\* reached from its D): the least set that holds S and follows every net.
Reach(S, s) ==
  LET Closed(T) == \A k \in DOMAIN s :
                     s[k].name \notin Flops /\ s[k].from \in T => k \in T
  IN  S \cup {k \in DOMAIN s : \A T \in SUBSET DOMAIN s : Closed(S \cup T) => k \in S \cup T}

\* The clock side of the checks: the cells that drive a clock pin or pass the clock
\* on, and the load every flop puts on its clock net.
ClockSide(s) ==
  [cells |-> [k \in (Reach({ClockPort}, s) \cup {s[j].ck : j \in FlopPos}) \cap DOMAIN s |->
                s[k].cell],
   loads |-> [k \in FlopPos |-> CkCap[s[k].cell]]]

\* What a full analysis of netlist s computes from: every instance's own cell.
Full(s) == [arcs  |-> [k \in DOMAIN s |-> s[k].cell],
            clock |-> ClockSide(s),
            setup |-> [k \in FlopPos |-> s[k].cell],
            hold  |-> [k \in FlopPos |-> s[k].cell]]

\* The cells the analysis can look up; any other fails it.
Known(s) == \A k \in DOMAIN s : s[k].cell \in Cells

EmptyFcn == [x \in {} |-> x]

\* A capture that sizes its arrays for the netlist the session was built from.
CaptureInitialSize(s) ==
  IF SimpleCtx
  THEN [topo  |-> s,
        state |-> [arcs  |-> [k \in DOMAIN InitInsts |-> s[k].cell],
                   setup |-> Full(s).setup,
                   over  |-> EmptyFcn,
                   clk   |-> Reach({ClockPort}, s)]]
  ELSE NoGraph

\* The graph a full analysis captures; outside the simple context there is none.
Capture(s) ==
  IF SimpleCtx
  THEN [topo  |-> s,
        state |-> [arcs  |-> Full(s).arcs,
                   setup |-> Full(s).setup,
                   over  |-> EmptyFcn,
                   clk   |-> Reach({ClockPort}, s)]]
  ELSE NoGraph

-----------------------------------------------------------------------------
(* inc.rs: IncGraph::try_update over the staged swaps                      *)

Moved == {k \in DOMAIN insts : insts[k].name \in DOMAIN pending}
Old(k) == pending[insts[k].name].old
New(k) == pending[insts[k].name].new

\* A sequential swap is taken only when the clock-pin load is unchanged.
CkLoadPreserving(old, new) == CkCap[old] = CkCap[new]

\* The swapped cells the fast path does not understand: unknown to the library,
\* or sequential with another clock load.
RefusedMoves ==
  \E k \in Moved :
    \/ {Old(k), New(k)} \cap {BadCell} # {}
    \/ New(k) \in SeqCells /\ ~CkLoadPreserving(Old(k), New(k))

\* The driver of each swapped instance's input (its load changed) and the
\* instance's own output (its arcs changed). Nets are looked up in the netlist.
ConeSeeds == {insts[k].from : k \in Moved} \cup Moved

\* The cone is walked over the captured topology.
Cone == Reach(ConeSeeds, inc.topo)

\* A walk that only looks for clock sources.
TouchesClockSourceOnly(cone) == cone \cap inc.state.clk # {}

\* The walk meets a clock pin, or a node on a path a clock source launches.
TouchesClock(cone) ==
  \/ \E k \in DOMAIN inc.topo : inc.topo[k].ck \in cone
  \/ cone \cap inc.state.clk # {}

\* Every node of the cone is one the cached arrays were sized for.
InBounds(cone) == cone \subseteq DOMAIN inc.state.arcs \cup Ports

\* The flops whose data pin is in the cone.
EndpointsIn(cone) == {k \in FlopPos : inc.topo[k].from \in cone}

Localizable(cone) == ~RefusedMoves /\ ~TouchesClock(cone)

\* The overrides after the swaps, and the cell whose arcs node k then has.
NewOver == [k \in DOMAIN inc.state.over \cup Moved |->
              IF k \in Moved THEN New(k) ELSE inc.state.over[k]]
ArcsOf(k) == IF k \in DOMAIN NewOver THEN NewOver[k] ELSE inc.topo[k].cell

\* The constraint table a check reads: the swapped cell's in this very update,
\* the captured record's otherwise (`cons_override` does not outlive the call).
ConsOf(k) == IF k \in Moved THEN New(k) ELSE inc.topo[k].cell

IncArcs(cone) == [k \in DOMAIN inc.state.arcs |->
                    IF k \in cone THEN ArcsOf(k) ELSE inc.state.arcs[k]]
IncSetup(cone) == [k \in FlopPos |->
                     IF k \in EndpointsIn(cone) THEN ConsOf(k) ELSE inc.state.setup[k]]
IncHold == [k \in FlopPos |-> ConsOf(k)]

\* The cached state committed with the report; `clk_arrival` is carried forward.
IncState(cone) == [arcs |-> IncArcs(cone), setup |-> IncSetup(cone),
                   over |-> NewOver, clk |-> inc.state.clk]

\* The clock side is what the records were captured with.
IncReport(cone) == [arcs |-> IncArcs(cone), clock |-> ClockSide(inc.topo),
                    setup |-> IncSetup(cone), hold |-> IncHold]

-----------------------------------------------------------------------------
(* Init: Timer::build                                                      *)

Init ==
  /\ insts = InitInsts
  /\ inst_idx = [n \in {InitInsts[k].name : k \in DOMAIN InitInsts} |->
                   CHOOSE k \in DOMAIN InitInsts : InitInsts[k].name = n]
  /\ report = Full(InitInsts)
  /\ dirty = FALSE
  /\ pending = EmptyFcn
  /\ inc = Capture(InitInsts)
  /\ n_inc = 0
  /\ n_full = 0
  /\ saved = NoCheckpoint
  /\ alive = TRUE

-----------------------------------------------------------------------------
(* Timer::stage                                                            *)

\* The cells a client proposes for an instance: interchangeable ones, or a name
\* the library does not hold (`stage` does not check it).
Candidates(n) == Proposals \cap ({BadCell} \cup IF n \in Flops THEN SeqCells ELSE CombCells)

\* The pending map after a swap that leaves an earlier entry as it is.
StagedOnce(n, old, cell) ==
  [m \in DOMAIN pending \cup {n} |->
     IF m \in DOMAIN pending THEN pending[m] ELSE [old |-> old, new |-> cell]]

\* The pending map after a swap: the first old cell is kept, the new one replaced.
Staged(n, old, cell) ==
  [m \in DOMAIN pending \cup {n} |->
     IF m # n THEN pending[m]
     ELSE [old |-> IF n \in DOMAIN pending THEN pending[n].old ELSE old, new |-> cell]]

\* Move::Resize on a known instance (an unknown one changes nothing).
Resize(n, cell) ==
  /\ alive
  /\ n \in DOMAIN inst_idx
  /\ cell \in Candidates(n)
  /\ Cardinality(DOMAIN pending \cup {n}) <= MaxStaged
  /\ LET k == inst_idx[n] IN
       /\ insts' = [insts EXCEPT ![k].cell = cell]
       /\ pending' = Staged(n, insts[k].cell, cell)
  /\ dirty' = TRUE
  /\ UNCHANGED <<inst_idx, report, inc, n_inc, n_full, saved, alive>>

\* The netlist with delay element d spliced in front of instance k: d takes k's
\* old net, k takes d's, and d is pushed at the end.
Spliced(k, d) ==
  Append([insts EXCEPT ![k].from = Len(insts) + 1],
         [name |-> d, cell |-> DelayCell, from |-> insts[k].from, ck |-> 0])

\* An insertion that keeps the incremental graph.
InsertDelayKeepingGraph(n, d) ==
  /\ alive
  /\ d \notin DOMAIN inst_idx
  /\ n \in DOMAIN inst_idx
  /\ d \notin ClashNames
  /\ insts' = Spliced(inst_idx[n], d)
  /\ inst_idx' = [m \in DOMAIN inst_idx \cup {d} |->
                    IF m = d THEN Len(insts) + 1 ELSE inst_idx[m]]
  /\ dirty' = TRUE
  /\ UNCHANGED <<report, pending, inc, n_inc, n_full, saved, alive>>

\* An insertion whose index entry is off by one.
InsertDelayOffByOne(n, d) ==
  /\ alive
  /\ d \notin DOMAIN inst_idx
  /\ n \in DOMAIN inst_idx
  /\ d \notin ClashNames
  /\ insts' = Spliced(inst_idx[n], d)
  /\ inst_idx' = [m \in DOMAIN inst_idx \cup {d} |->
                    IF m = d THEN Len(insts) + 2 ELSE inst_idx[m]]
  /\ inc' = NoGraph
  /\ dirty' = TRUE
  /\ UNCHANGED <<report, pending, n_inc, n_full, saved, alive>>

\* Move::InsertDelay in front of instance n's data pin. A taken name or a net
\* that collides is refused; the graph is dropped, pending is not touched.
InsertDelay(n, d) ==
  /\ alive
  /\ d \notin DOMAIN inst_idx
  /\ n \in DOMAIN inst_idx
  /\ d \notin ClashNames
  /\ insts' = Spliced(inst_idx[n], d)
  /\ inst_idx' = [m \in DOMAIN inst_idx \cup {d} |->
                    IF m = d THEN Len(insts) + 1 ELSE inst_idx[m]]
  /\ inc' = NoGraph
  /\ dirty' = TRUE
  /\ UNCHANGED <<report, pending, n_inc, n_full, saved, alive>>

-----------------------------------------------------------------------------
(* Timer::update (a clean session returns its report and changes nothing)  *)

\* The fast path serves the update.
UpdateIncremental ==
  /\ alive /\ dirty /\ n_inc + n_full < MaxUpdates
  /\ inc # NoGraph
  /\ LET cone == Cone IN
       /\ Localizable(cone) /\ InBounds(cone)
       /\ report' = IncReport(cone)
       /\ inc' = [topo |-> inc.topo, state |-> IncState(cone)]
  /\ dirty' = FALSE
  /\ pending' = EmptyFcn
  /\ n_inc' = n_inc + 1
  /\ UNCHANGED <<insts, inst_idx, n_full, saved, alive>>

\* There is no graph, or the fast path declines. It also declines when an endpoint
\* of the cone changes its launching flop, which the arrival times decide: any
\* cone with an endpoint in it may.
NeedsFull ==
  \/ inc = NoGraph
  \/ /\ inc # NoGraph
     /\ LET cone == Cone IN
          Localizable(cone) => InBounds(cone) /\ EndpointsIn(cone) # {}

\* The full re-analysis, which captures a fresh graph.
UpdateFull ==
  /\ alive /\ dirty /\ n_inc + n_full < MaxUpdates
  /\ NeedsFull /\ Known(insts)
  /\ report' = Full(insts)
  /\ inc' = Capture(insts)
  /\ dirty' = FALSE
  /\ pending' = EmptyFcn
  /\ n_full' = n_full + 1
  /\ UNCHANGED <<insts, inst_idx, n_inc, saved, alive>>

\* The re-analysis fails on a cell the library does not hold: the graph is gone
\* and the session stays dirty.
UpdateError ==
  /\ alive /\ dirty
  /\ NeedsFull /\ ~Known(insts)
  /\ inc' = NoGraph
  /\ UNCHANGED <<insts, inst_idx, report, dirty, pending, n_inc, n_full, saved, alive>>

\* The fast path reads past the end of a cached array.
UpdatePanic ==
  /\ alive /\ dirty /\ inc # NoGraph
  /\ LET cone == Cone IN Localizable(cone) /\ ~InBounds(cone)
  /\ alive' = FALSE
  /\ UNCHANGED <<insts, inst_idx, report, dirty, pending, inc, n_inc, n_full, saved>>

-----------------------------------------------------------------------------
(* Timer::checkpoint and Timer::restore. `fulls` is a history field: how   *)
(* many full re-analyses had been made.                                    *)

Checkpoint ==
  /\ alive
  /\ saved' = [insts |-> insts, inst_idx |-> inst_idx, report |-> report, dirty |-> dirty,
               inc_state |-> IF inc = NoGraph THEN {} ELSE {inc.state},
               pending |-> pending, fulls |-> n_full]
  /\ UNCHANGED <<insts, inst_idx, report, dirty, pending, inc, n_inc, n_full, alive>>

\* The candidate was kept: the client lets the checkpoint go.
Keep ==
  /\ alive /\ saved # NoCheckpoint
  /\ saved' = NoCheckpoint
  /\ UNCHANGED <<insts, inst_idx, report, dirty, pending, inc, n_inc, n_full, alive>>

\* The graph after a restore: only its state is put back, and only when both the
\* session has a graph and the checkpoint has a state (an option, as a set).
RestoredGraph ==
  IF inc # NoGraph /\ saved.inc_state # {}
  THEN [topo |-> inc.topo, state |-> CHOOSE state \in saved.inc_state : TRUE]
  ELSE inc

\* A restore that leaves the name index of the rolled-back netlist behind.
RestoreWithoutIndex ==
  /\ alive /\ saved # NoCheckpoint
  /\ insts' = saved.insts
  /\ report' = saved.report
  /\ dirty' = saved.dirty
  /\ pending' = saved.pending
  /\ inc' = RestoredGraph
  /\ saved' = NoCheckpoint
  /\ UNCHANGED <<inst_idx, n_inc, n_full, alive>>

\* A restore that keeps the rejected candidate's report.
RestoreWithoutReport ==
  /\ alive /\ saved # NoCheckpoint
  /\ insts' = saved.insts
  /\ inst_idx' = saved.inst_idx
  /\ dirty' = saved.dirty
  /\ pending' = saved.pending
  /\ inc' = RestoredGraph
  /\ saved' = NoCheckpoint
  /\ UNCHANGED <<report, n_inc, n_full, alive>>

Restore ==
  /\ alive /\ saved # NoCheckpoint
  /\ insts' = saved.insts
  /\ inst_idx' = saved.inst_idx
  /\ report' = saved.report
  /\ dirty' = saved.dirty
  /\ pending' = saved.pending
  /\ inc' = RestoredGraph
  /\ saved' = NoCheckpoint
  /\ UNCHANGED <<n_inc, n_full, alive>>

-----------------------------------------------------------------------------
(* Specifications                                                          *)

Edit == \E n \in Names : \/ \E c \in Cells \cup {BadCell} : Resize(n, c)
                         \/ \E d \in Delays : InsertDelay(n, d)

Update == UpdateIncremental \/ UpdateFull \/ UpdateError \/ UpdatePanic

Next == Edit \/ Update \/ Checkpoint \/ Keep \/ Restore

\* Every client: a checkpoint may be restored whatever happened since.
Spec == Init /\ [][Next]_vars

\* A client that rolls back only when no full re-analysis was made since the
\* checkpoint, so that the graph in hand is the checkpoint's or there is none.
SameGraphRestore == Restore /\ saved.fulls = n_full

NextSameGraph == Edit \/ Update \/ Checkpoint \/ Keep \/ SameGraphRestore

SameGraphSpec == Init /\ [][NextSameGraph]_vars

-----------------------------------------------------------------------------
(* Properties                                                              *)

Swap == [old : Cells \cup {BadCell}, new : Cells \cup {BadCell}]

\* The session's own variables have their types, and every index entry names a
\* position of the netlist (`Timer`, sta.rs:680).
TypeOK ==
  /\ insts \in Seq(Inst)
  /\ DOMAIN inst_idx \subseteq Names
  /\ \A n \in DOMAIN inst_idx : inst_idx[n] \in DOMAIN insts
  /\ DOMAIN pending \subseteq Names
  /\ \A n \in DOMAIN pending : pending[n] \in Swap
  /\ dirty \in BOOLEAN /\ alive \in BOOLEAN
  /\ n_inc \in Nat /\ n_full \in Nat

\* The name index and the netlist name the same instances at the same positions,
\* across insertions and rollbacks: an index that outlived a rolled-back insertion
\* would resolve to the wrong element or past the end (`Checkpoint`, sta.rs:662).
IndexAgrees ==
  /\ DOMAIN inst_idx = {insts[k].name : k \in DOMAIN insts}
  /\ \A k \in DOMAIN insts : inst_idx[insts[k].name] = k

\* Staged swaps are exactly what the netlist holds, and none is staged in a clean
\* session: `update` hands the fast path this map as the difference between the
\* netlist and the last report (`stage` and `update`, sta.rs:992, 1099).
PendingAgrees ==
  /\ \A n \in DOMAIN pending :
       n \in DOMAIN inst_idx /\ pending[n].new = insts[inst_idx[n]].cell
  /\ DOMAIN pending # {} => dirty

\* A clean session's report is computed from the netlist's own delay arcs,
\* whichever path served the update and however often the client rolled back:
\* "the two code paths can never silently diverge" (inc.rs:27).
ArcsFaithful == ~dirty => report.arcs = Full(insts).arcs

\* A clean session's setup and hold checks read the netlist's own constraint
\* tables (`cons_override`, inc.rs:353).
ChecksFaithful ==
  ~dirty => report.setup = Full(insts).setup /\ report.hold = Full(insts).hold

\* A clean session's checks rest on the clock network the netlist has: a swap the
\* fast path serves never changes what drives or loads a clock pin, "not a
\* cone-local edit" (inc.rs:107).
ClockFaithful == ~dirty => report.clock = Full(insts).clock

\* The session seen by its client (TimerOracle): its netlist and report, and those
\* of the checkpoint.
Oracle == INSTANCE TimerOracle WITH
  Analyze <- Full, InitNetlist <- InitInsts, Nothing <- NoCheckpoint, nl <- insts,
  held <- IF saved = NoCheckpoint THEN NoCheckpoint
          ELSE [nl |-> saved.insts, report |-> saved.report, dirty |-> saved.dirty]

\* Every step of the session is a step of the promise, or invisible to the client:
\* "the restored timer (and a subsequent real update) match a fresh build"
\* (tests/timer.rs:372).
KeepsPromise == Oracle!OSpec

\* The fast path never reads past the end of a cached array: "the reads below
\* stay guarded" (inc.rs:549).
NoPanic == alive
=============================================================================
