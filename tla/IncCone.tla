------------------------------ MODULE IncCone ------------------------------
(***************************************************************************)
(* The numbers behind module Timer: the arrival and slew of every node as  *)
(* the full pass computes them (`relax` in build_report, sta.rs) and as    *)
(* the fast path recomputes them over the cone of a swap (recompute_node   *)
(* and try_update, inc.rs), for both analyses and both edges.              *)
(*                                                                         *)
(* A node is an input port or the output of a gate or flop; the lanes of   *)
(* an input pin follow from its driver's. Table lookups are parameters.    *)
(* The fast path has a graph to work on only in the simple context         *)
(* (simple_ctx, sta.rs:2023): no parasitics, a flat derate, no path-based  *)
(* pass, no data checks, no launch on a falling edge, and no constants     *)
(* that let an arc pass one edge only. Constants that hold a node, arcs    *)
(* and wires a constraint disables, ideal clocks, driving cells and        *)
(* several libraries all occur in it.                                      *)
(***************************************************************************)
EXTENDS Integers, Sequences, SequencesExt

CONSTANTS
  Ports,          \* input ports
  Order,          \* the gates and flops, in topological order
  Fanin,          \* gate -> its input pins' drivers, in pin order
  ClockPins,      \* the <<gate, pin>> pairs that are clock pins
  Lib,            \* cell -> [arcs : set of arcs, cap : load of each input pin,
                  \*          th : the thresholds of its library]
  InitCell,       \* gate -> its cell when the session is built
  Swappable,      \* gate -> the cells it may be swapped for, none if it stays
  DelayOf(_, _, _),  \* delay of an arc at an input slew and a load
  SlewOf(_, _, _),   \* output slew likewise
  Derate,         \* analysis -> factor on cell delays
  Disabled,       \* the <<gate, pin>> pairs whose arcs a constraint disables
  Cut,            \* the nodes whose wires it cuts, their pin being disabled itself
  Held,           \* the nodes at a constant, which the alternatives of a cell share
  ClockPorts,     \* the ports that are clock sources
  IdealPorts,     \* those of them whose clock is ideal
  IdealSlew,      \* edge -> the slew of an ideal clock
  PortThreshold,  \* port -> the thresholds it is driven at
  Rethreshold(_, _, _, _, _),  \* the [delay, slew] of a wire between thresholds, on an
                               \* edge, from the wire's own; no slew stays none
  Driven,         \* the ports with a driving cell
  DriveDelay(_),  \* its delay beyond the intrinsic one, at a load
  DriveSlew(_),   \* its output slew, at a load
  PortSeeds,      \* port -> the [arr, slew] a job may give it
  Never,          \* no arrival
  NoSlew,         \* no slew calculated: the design's input slew stands, which nothing reads
  MaxSwaps        \* bound on the swaps of one behaviour

Gates == {Order[i] : i \in DOMAIN Order}
Nodes == Ports \cup Gates
Edges == {0, 1}                \* rise and fall
Analyses == {"late", "early"}
Pins(g) == DOMAIN Fanin[g]
CellsOf(g) == Swappable[g] \cup {InitCell[g]}

\* An arc from input pin `pin` on edge `il` to the output on edge `ol`. One out of a clock
\* pin is launched by its `edge` of the clock, and its twin on the other edge not at all.
Arc == [pin : Nat, il : Edges, ol : Edges, d : Nat, s : Nat, launch : {"always", "edge", "not"}]

ASSUME NetlistAssumption ==
  /\ Order \in Seq(Gates)
  /\ \A i, j \in DOMAIN Order : Order[i] = Order[j] => i = j
  /\ Ports \cap Gates = {}
  /\ \A g \in Gates : Fanin[g] \in Seq(Nodes)
  /\ \A i \in DOMAIN Order : \A p \in Pins(Order[i]) :
       Fanin[Order[i]][p] \in Ports \cup {Order[j] : j \in 1 .. i - 1}
  /\ \A g \in Gates : \A c \in CellsOf(g) :
       /\ c \in DOMAIN Lib
       /\ Lib[c].cap \in [Pins(g) -> Nat]
       /\ IsFiniteSet(Lib[c].arcs) /\ Lib[c].arcs # {}
       /\ \A a \in Lib[c].arcs : a \in Arc /\ a.pin \in Pins(g)
  /\ InitCell \in [Gates -> DOMAIN Lib]
  /\ Driven \subseteq Ports /\ ClockPorts \subseteq Ports /\ IdealPorts \subseteq ClockPorts
  /\ MaxSwaps \in Nat

VARIABLES
  cell,     \* gate -> cell: the netlist
  old,      \* staged gates -> their cell as of the last update
  base,     \* gate -> the cell whose arcs the captured topology holds
  over,     \* overridden gates -> the cell whose arcs replace them
  load,     \* node -> the load the cached state has for it
  bare,     \* the nodes whose lanes the cached pins on their net have as they are
  lanes,    \* analysis -> node -> the cached arrival and slew per edge
  seed,     \* port -> its [arr, slew]: the job's, fixed
  swaps     \* swaps made

vars == <<cell, old, base, over, load, bare, lanes, seed, swaps>>

-----------------------------------------------------------------------------
(* Loads, and one node from its in-edges                                   *)

Sinks(u) == {gp \in UNION {{g} \X Pins(g) : g \in Gates} : Fanin[gp[1]][gp[2]] = u}

\* The sum of the input capacitances on each node's net.
Loads(c) == [u \in Nodes |-> SumFunction([gp \in Sinks(u) |-> Lib[c[gp[1]]].cap[gp[2]]])]

\* The extreme that is worst for an analysis.
Worst(an, S) == IF an = "late" THEN Max(S) ELSE Min(S)

\* The lanes of a node the delay calculation does not reach, and of one that it does and
\* nothing arrives at.
Unreached == [arr |-> Never, slew |-> 0]
Silent == [arr |-> Never, slew |-> NoSlew]

Later(t, d) == IF t = Never THEN Never ELSE t + d

\* What an arc brings from lane x of its input into load ld, in an ideal network or not;
\* `rank` is the order the arcs are tried in.
Brought(an, a, x, ld, ideal) ==
  [at   |-> IF ideal THEN x.arr ELSE Later(x.arr, Derate[an] * DelayOf(a, x.slew, ld)),
   slew |-> IF ideal THEN IdealSlew[a.ol] ELSE SlewOf(a, x.slew, ld),
   rank |-> 2 * a.pin + a.il]

\* What the arcs bring to edge ol of a gate whose input pins have the lanes In.
Arriving(an, ol, arcs, In, ld, ideal) ==
  {Brought(an, a, In[a.pin][a.il], ld, ideal) :
     a \in {b \in arcs : b.ol = ol /\ In[b.pin][b.il].slew # NoSlew}}

Arrived(S) == {c \in S : c.at # Never}

\* The full pass takes the worst arrival and the worst slew, each on its own; the slew also
\* from arcs that bring no arrival.
Merged(an, S) ==
  IF S = {} THEN Silent
  ELSE [arr  |-> IF Arrived(S) = {} THEN Never ELSE Worst(an, {c.at : c \in Arrived(S)}),
        slew |-> Worst(an, {c.slew : c \in S})]

\* The fast path takes both from one arc, the first with the worst arrival.
Winner(an, S) ==
  IF Arrived(S) = {} THEN Silent
  ELSE LET first == CHOOSE c \in Arrived(S) :
                      /\ c.at = Worst(an, {d.at : d \in Arrived(S)})
                      /\ \A d \in Arrived(S) : d.at = c.at => c.rank <= d.rank
       IN  [arr |-> first.at, slew |-> first.slew]

-----------------------------------------------------------------------------
(* The graph a full pass builds                                            *)

\* The arcs of gate g the graph is built with: none that is disabled, none to or from a
\* constant.
HeldAt(g, p) == g \in Held \/ Fanin[g][p] \in Held
CutAt(g, p) == <<g, p>> \in Disabled \/ HeldAt(g, p)
BuiltArcs(g, c) == {a \in Lib[c[g]].arcs : ~CutAt(g, a.pin)}

\* The pins of each gate that a path can pass: there is a wire to it, and an arc from it.
BuiltPins(c) == [g \in Gates |-> {p \in {a.pin : a \in BuiltArcs(g, c)} : Fanin[g][p] \notin Cut}]

\* C, and g if one of the pins leads to it from C.
Reach(C, g, pins) == IF \E p \in pins[g] : Fanin[g][p] \in C THEN C \cup {g} ELSE C

\* Forward from the nodes S, through those pins of the gates.
Flood(S, pins) ==
  LET reached[i \in 0 .. Len(Order)] ==
        IF i = 0 THEN S ELSE Reach(reached[i - 1], Order[i], pins)
  IN  reached[Len(Order)]

\* The nodes the delay calculation's walk comes to. A gate is a root of it when it has no
\* arc for a constant, not when it has none for a disable.
Roots(c) ==
  Ports \cup {g \in Gates : BuiltArcs(g, c) = {} /\ \E a \in Lib[c[g]].arcs : HeldAt(g, a.pin)}
Calculated(c) == Flood(Roots(c), BuiltPins(c))

\* The nodes a clock reaches; it stops at the clock pins.
DataPins(c) == [g \in Gates |-> {p \in BuiltPins(c)[g] : <<g, p>> \notin ClockPins}]
ClockNet(c) == Flood(ClockPorts \ Held, DataPins(c))
IdealNet(c) == Flood(IdealPorts \ Held, DataPins(c))

-----------------------------------------------------------------------------
(* The full pass                                                           *)

\* What it works with before it visits a gate.
Graph(c) ==
  [load |-> Loads(c), calculated |-> Calculated(c), clock |-> ClockNet(c), ideal |-> IdealNet(c)]

\* The lanes before any gate is visited, from what the job gives the ports; a port with
\* a driving cell has that cell's slew.
StartLanes(s, ld) ==
  [u \in Nodes |-> [l \in Edges |->
     IF u \notin Ports \/ u \in Held \/ s[u].arr[l] = Never THEN Silent
     ELSE [arr |-> s[u].arr[l], slew |-> IF u \in Driven THEN DriveSlew(ld[u]) ELSE s[u].slew]]]

Threshold(c, u) == IF u \in Ports THEN PortThreshold[u] ELSE Lib[c[u]].th

\* The wire from node u to a pin of gate g on edge l: its delay, and the slew at its end.
Wire(c, ld, u, g, l, slew) ==
  LET delay == IF u \in Driven THEN DriveDelay(ld[u]) ELSE 0 IN
  IF Threshold(c, u) = Threshold(c, g) THEN [delay |-> delay, slew |-> slew]
  ELSE Rethreshold(Threshold(c, u), Threshold(c, g), l, delay, slew)

\* The lanes of pin p of gate g, from those of its driver.
PinLanes(c, ld, ideal, L, g, p) ==
  LET u == Fanin[g][p] IN
  [l \in Edges |->
     IF u \in Cut THEN Unreached
     ELSE IF L[u][l].slew = NoSlew THEN Silent
     ELSE IF u \in ideal THEN [arr |-> L[u][l].arr, slew |-> IdealSlew[l]]
     ELSE LET w == Wire(c, ld, u, g, l, L[u][l].slew)
          IN  [arr |-> Later(L[u][l].arr, w.delay), slew |-> w.slew]]

\* A clock-to-output arc is launched by its own edge only, and if clocks are declared by
\* a clock only.
Launched(g, c, clock) ==
  {a \in BuiltArcs(g, c) :
     \/ a.launch = "always"
     \/ a.launch = "edge" /\ (ClockPorts = {} \/ Fanin[g][a.pin] \in clock)}

\* The lanes of gate g from the lanes L of the nodes before it.
Relaxed(an, c, k, L, g) ==
  [ol \in Edges |->
     IF g \notin k.calculated THEN Unreached
     ELSE Merged(an, Arriving(an, ol, Launched(g, c, k.clock),
                              [p \in Pins(g) |-> PinLanes(c, k.load, k.ideal, L, g, p)],
                              k.load[g], g \in k.ideal))]

RelaxNode(an, c, k, L, g) == [L EXCEPT ![g] = Relaxed(an, c, k, L, g)]

\* Every gate in topological order.
Relax(an, c, s) ==
  LET k == Graph(c)
      after[i \in 0 .. Len(Order)] ==
        IF i = 0 THEN StartLanes(s, k.load) ELSE RelaxNode(an, c, k, after[i - 1], Order[i])
  IN  after[Len(Order)]

FullLanes(c, s) == [an \in Analyses |-> Relax(an, c, s)]

-----------------------------------------------------------------------------
(* The fast path                                                           *)

Staged == DOMAIN old

\* The swapped data pins on a net.
MovedSinks(u) == {gp \in Sinks(u) \ ClockPins : gp[1] \in Staged}

\* The difference with its sign turned round.
MovedLoadsReversed ==
  [u \in Nodes |-> load[u] +
     SumFunction([gp \in MovedSinks(u) |->
                    Lib[old[gp[1]]].cap[gp[2]] - Lib[cell[gp[1]]].cap[gp[2]]])]

\* Loads are moved by the difference each swapped data pin makes.
MovedLoads ==
  [u \in Nodes |-> load[u] +
     SumFunction([gp \in MovedSinks(u) |->
                    Lib[cell[gp[1]]].cap[gp[2]] - Lib[old[gp[1]]].cap[gp[2]]])]

\* The swapped gates' arcs are replaced by all the new cell has.
NewOver == [g \in DOMAIN over \cup Staged |-> IF g \in Staged THEN cell[g] ELSE over[g]]

InEdges(g) == IF g \in DOMAIN NewOver THEN Lib[NewOver[g]].arcs ELSE BuiltArcs(g, base)

\* Seeds that leave out the drivers, whose load changed.
SeedsOutputsOnly == Staged

\* The drivers of the swapped data pins, and the swapped outputs.
Seeds == Staged \cup {Fanin[gp[1]][gp[2]] : gp \in (UNION {{g} \X Pins(g) : g \in Staged}) \ ClockPins}

\* Forward from the seeds over the captured graph.
Cone == Flood(Seeds, BuiltPins(base))

\* A clock pin whose load a swap changes, or that the cone reaches, is for the full pass,
\* and so is a cone in the clock network.
Declined ==
  \/ \E gp \in ClockPins :
       \/ gp[1] \in Staged /\ Lib[cell[gp[1]]].cap[gp[2]] # Lib[old[gp[1]]].cap[gp[2]]
       \/ Fanin[gp[1]][gp[2]] \in Cone \ Cut
  \/ Cone \cap ClockNet(base) # {}

\* The pins in the cone are given their driver's lanes as they are.
MovedBare == bare \cup Cone

\* What it works with before it visits a node.
FastGraph == [load |-> MovedLoads, cone |-> Cone, bare |-> MovedBare, ideal |-> IdealNet(base)]

\* The lanes of gate g's pins: those of a bare net as its driver's are, a pin no wire leads
\* to excepted; the others as the full pass cached them.
FastPins(k, L, g) ==
  [p \in Pins(g) |->
     IF Fanin[g][p] \in k.bare \ Cut THEN L[Fanin[g][p]]
     ELSE PinLanes(base, load, k.ideal, L, g, p)]

Recomputed(an, k, L, g) ==
  [ol \in Edges |-> Winner(an, Arriving(an, ol, InEdges(g), FastPins(k, L, g), k.load[g], FALSE))]

\* The lanes L with gate g's recomputed, if it is in the cone and has any in-edge.
RecomputeNode(an, k, L, g) ==
  IF g \in k.cone /\ InEdges(g) # {} THEN [L EXCEPT ![g] = Recomputed(an, k, L, g)] ELSE L

\* The lanes after recomputing the cone's gates in topological order; a port has no
\* in-edges and is left as it is.
ConeLanes(an) ==
  LET k == FastGraph
      after[i \in 0 .. Len(Order)] ==
        IF i = 0 THEN lanes[an] ELSE RecomputeNode(an, k, after[i - 1], Order[i])
  IN  after[Len(Order)]

-----------------------------------------------------------------------------

EmptyFcn == [x \in {} |-> x]

Init ==
  /\ seed \in {s \in [Ports -> UNION {PortSeeds[u] : u \in Ports}] :
                 \A u \in Ports : s[u] \in PortSeeds[u]}
  /\ cell = InitCell /\ base = InitCell
  /\ old = EmptyFcn /\ over = EmptyFcn
  /\ load = Loads(InitCell) /\ bare = {}
  /\ lanes = FullLanes(InitCell, seed)
  /\ swaps = 0

\* A swap that records the last staged cell as the one of the last update.
SwapLastOld(g, c) ==
  /\ swaps < MaxSwaps
  /\ swaps' = swaps + 1
  /\ cell' = [cell EXCEPT ![g] = c]
  /\ old' = [h \in Staged \cup {g} |-> IF h = g THEN cell[g] ELSE old[h]]
  /\ UNCHANGED <<base, over, load, bare, lanes, seed>>

\* Timer::stage: the cell as of the last update is kept.
Swap(g, c) ==
  /\ swaps < MaxSwaps
  /\ swaps' = swaps + 1
  /\ cell' = [cell EXCEPT ![g] = c]
  /\ old' = [h \in Staged \cup {g} |-> IF h \in Staged THEN old[h] ELSE cell[h]]
  /\ UNCHANGED <<base, over, load, bare, lanes, seed>>

\* The fast path serves the update.
UpdateCone ==
  /\ Staged # {} /\ ~Declined
  /\ load' = MovedLoads
  /\ bare' = MovedBare
  /\ over' = NewOver
  /\ lanes' = [an \in Analyses |-> ConeLanes(an)]
  /\ old' = EmptyFcn
  /\ UNCHANGED <<cell, base, seed, swaps>>

\* The full pass does: the fast path declined, for a clock pin or (left open here) for a
\* footprint or a launching flop that changes. It captures a fresh graph.
UpdateFull ==
  /\ Staged # {}
  /\ base' = cell /\ over' = EmptyFcn
  /\ load' = Loads(cell) /\ bare' = {}
  /\ lanes' = FullLanes(cell, seed)
  /\ old' = EmptyFcn
  /\ UNCHANGED <<cell, seed, swaps>>

Next ==
  \/ \E g \in Gates : \E c \in Swappable[g] : Swap(g, c)
  \/ UpdateCone \/ UpdateFull

Spec == Init /\ [][Next]_vars

-----------------------------------------------------------------------------
(* Properties                                                              *)

\* The cached state has its types; no load goes below zero as differences are added up.
TypeOK ==
  /\ \A g \in Gates : cell[g] \in CellsOf(g) /\ base[g] \in CellsOf(g)
  /\ Staged \subseteq Gates /\ DOMAIN over \subseteq Gates
  /\ DOMAIN load = Nodes /\ \A u \in Nodes : load[u] \in Nat
  /\ swaps \in 0 .. MaxSwaps

\* After an update the cached loads are the sums a full pass would form, however the
\* swaps of one gate were staged and coalesced in between (node_load, inc.rs:406).
LoadsFaithful == Staged = {} => load = Loads(cell)

\* After an update every node has the arrival and slew a full pass computes, on both
\* edges and in both analyses, whatever the order of swaps and of the paths that served
\* them: "the arithmetic here mirrors the simple-context branches" (inc.rs:24).
LanesFaithful == Staged = {} => lanes = FullLanes(cell, seed)

-----------------------------------------------------------------------------
(* Where the two passes compute the same. The fast path looks at none of   *)
(* these: what it declines are changes of the clock's loads and of the     *)
(* footprint.                                                              *)

\* g's output is launched by a clock.
Clocked(g) == \E c \in CellsOf(g) : \E x \in Lib[c].arcs : x.launch # "always"

\* The arcs of gate g with cell c that the full pass can use for output edge ol.
Enabled(g, c, ol) == {x \in Lib[c].arcs : x.ol = ol /\ x.launch # "not" /\ ~CutAt(g, x.pin)}

\* The cells a gate may be swapped for have arcs from the same pins, none of them disabled
\* or held by a constant and none of them launched by a clock.
PlainSwaps ==
  \A g \in Gates : Swappable[g] # {} =>
    /\ ~Clocked(g)
    /\ \A c, d \in CellsOf(g) : \A x \in Lib[c].arcs :
         ~CutAt(g, x.pin) /\ \E y \in Lib[d].arcs : y.pin = x.pin

\* What drives them is neither a port with a driving cell nor launched by a clock.
PlainDrivers ==
  \A g \in Gates : Swappable[g] # {} =>
    \A p \in Pins(g) : <<g, p>> \notin ClockPins =>
      Fanin[g][p] \notin Driven /\ (Fanin[g][p] \in Gates => ~Clocked(Fanin[g][p]))

\* What a clock launches is launched from its clock pins alone.
PlainFlops ==
  \A g \in Gates : Clocked(g) =>
    \A c \in CellsOf(g) : \A x \in Lib[c].arcs : <<g, x.pin>> \in ClockPins

\* The cells and the ports are all of one library.
OneThreshold ==
  /\ \A u, v \in Ports : PortThreshold[u] = PortThreshold[v]
  /\ \A g \in Gates : \A c \in CellsOf(g) :
       /\ \A u \in Ports : Lib[c].th = PortThreshold[u]
       /\ \A h \in Gates : \A d \in CellsOf(h) : Lib[c].th = Lib[d].th

\* No disable keeps the delay calculation from a gate, or from a pin.
AllCalculated == Cut = {} /\ Gates \subseteq Calculated(InitCell)

\* An output edge is driven by one arc.
OneArcPerEdge ==
  \A g \in Gates : \A c \in CellsOf(g) : \A ol \in Edges :
    \A x, y \in Enabled(g, c, ol) : x = y
=============================================================================
