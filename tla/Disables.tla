------------------------------ MODULE Disables ------------------------------
(***************************************************************************)
(* disable.rs: set_disable_timing and unset_disable_timing read in file    *)
(* order into the pins and arcs left out of the timing graph, and the      *)
(* places of build_report (sta.rs) that consult them: the cell arcs and    *)
(* the wires it builds, and the timing checks it makes. What is timed from *)
(* a pin that a disable cut off is in IncCone (Disabled, Cut, Unreached).  *)
(*                                                                         *)
(* The arcs an instance or cell has disabled (`Ports`: all, from, to,      *)
(* from_to) are one set of pairs <<from, to>>, with Any for a side the     *)
(* command leaves out. What a glob matches is the constant Matches.        *)
(***************************************************************************)
EXTENDS Naturals, Sequences, FiniteSets

CONSTANTS
  Insts,      \* instances of the netlist
  Cells,      \* cells of the library
  CellOf,     \* the cell of each instance (possibly one the library lacks)
  PortBits,   \* ports of library cells, a bus bit by bit
  Bits,       \* per library cell and port name: the port, or the bits of the bus
  TopPorts,   \* ports of the design
  Matches,    \* per kind of object and name: the objects the name matches
  Commands,   \* the commands a file may hold
  MaxCommands,\* bound on the length of the file
  Any         \* a -from or -to that is not given

Kinds == {"lib_cell", "lib_pin", "inst", "port", "pin"}
Pins == TopPorts \cup (Insts \X PortBits)
Sides == PortBits \cup {Any}

\* What the constants are.
ConstantsOK ==
  /\ Any \notin PortBits
  /\ TopPorts \cap (Insts \X PortBits) = {}
  /\ DOMAIN CellOf = Insts
  /\ \A c \in Commands :
       /\ c.cmd \in {"set_disable_timing", "unset_disable_timing"}
       /\ c.accessor \in Kinds \cup {"bare"} /\ c.plain \in BOOLEAN
       /\ \A n \in c.objects, k \in Kinds : Matches[k][n] \subseteq
            CASE k = "lib_cell" -> Cells [] k = "lib_pin" -> Cells \X PortBits
              [] k = "inst" -> Insts [] k = "port" -> TopPorts
              [] k = "pin" -> Insts \X PortBits
       /\ \A cell \in Cells, p \in {c.from, c.to} \ {Any} : Bits[cell][p] \subseteq PortBits

VARIABLES
  sdc,        \* the commands read so far
  pins,       \* disabled pins and ports of the design
  lib_ports,  \* disabled library pins
  insts,      \* per instance, the pairs disabled on it
  cells,      \* per library cell, the pairs disabled on it
  warned      \* positions in sdc of the commands something was said about

vars == <<sdc, pins, lib_ports, insts, cells, warned>>

Init ==
  /\ sdc = <<>>
  /\ pins = {} /\ lib_ports = {}
  /\ insts = [i \in Insts |-> {}]
  /\ cells = [c \in Cells |-> {}]
  /\ warned = {}

-----------------------------------------------------------------------------
(* The objects a command names                                             *)

\* A bare name is the first kind of object that has it.
BareKind(n) ==
  IF Matches["lib_cell"][n] # {} THEN "lib_cell"
  ELSE IF Matches["lib_pin"][n] # {} THEN "lib_pin"
  ELSE IF Matches["inst"][n] # {} THEN "inst"
  ELSE IF Matches["port"][n] # {} THEN "port"
  ELSE "pin"

KindOf(c, n) == IF c.accessor = "bare" THEN BareKind(n) ELSE c.accessor

\* The objects of one kind; a query with flags of its own names nothing.
Named(c, kind) ==
  IF c.plain THEN UNION {Matches[kind][n] : n \in {m \in c.objects : KindOf(c, m) = kind}}
  ELSE {}

\* A name nothing matches, or a query that is not matched here.
Unresolved(c) == ~c.plain \/ \E n \in c.objects : Matches[KindOf(c, n)][n] = {}

\* The bits of a -from or -to on the library cell of an object; none is an error.
BitsOn(cell, p) ==
  IF p = Any THEN {Any} ELSE IF cell \in Cells THEN Bits[cell][p] ELSE {}

CellsNamed(c) == Named(c, "lib_cell") \cup {CellOf[i] : i \in Named(c, "inst")}

\* One missing port refuses the command whole.
Missing(c) == \E cell \in CellsNamed(c), p \in {c.from, c.to} : BitsOn(cell, p) = {}

\* The pairs of one object.
PairsOn(c, cell) == BitsOn(cell, c.from) \X BitsOn(cell, c.to)

\* An unset that takes back everything the object has.
ToggleAll(c, set, objects) ==
  IF c.cmd = "set_disable_timing" THEN set \cup objects
  ELSE IF objects # {} THEN {} ELSE set

Toggle(c, set, objects) ==
  IF c.cmd = "set_disable_timing" THEN set \cup objects ELSE set \ objects

\* One command of the file.
Apply(c) ==
  /\ Len(sdc) < MaxCommands
  /\ sdc' = Append(sdc, c)
  /\ warned' = IF Unresolved(c) \/ Missing(c) THEN warned \cup {Len(sdc')} ELSE warned
  /\ \/ Missing(c) /\ UNCHANGED <<pins, lib_ports, insts, cells>>
     \/ /\ ~Missing(c)
        /\ pins' = Toggle(c, pins, Named(c, "pin") \cup Named(c, "port"))
        /\ lib_ports' = Toggle(c, lib_ports, Named(c, "lib_pin"))
        /\ insts' = [i \in Insts |->
             Toggle(c, insts[i], IF i \in Named(c, "inst") THEN PairsOn(c, CellOf[i]) ELSE {})]
        /\ cells' = [k \in Cells |->
             Toggle(c, cells[k], IF k \in Named(c, "lib_cell") THEN PairsOn(c, k) ELSE {})]

Next == \E c \in Commands : Apply(c)

Spec == Init /\ [][Next]_vars

-----------------------------------------------------------------------------
(* What the graph is built from                                            *)

CoversChecks(pairs, from, to, check) ==
  \E pair \in pairs : pair[1] \in {Any, from} /\ pair[2] \in {Any, to}

\* A set of pairs takes an arc out; "all" spares timing checks.
Covers(pairs, from, to, check) ==
  \E pair \in pairs :
    /\ pair[1] \in {Any, from} /\ pair[2] \in {Any, to}
    /\ pair = <<Any, Any>> => ~check

PinDisabled(i, p) == <<i, p>> \in pins \/ <<CellOf[i], p>> \in lib_ports

ArcDisabled(i, from, to, check) ==
  \/ Covers(insts[i], from, to, check)
  \/ CellOf[i] \in Cells /\ Covers(cells[CellOf[i]], from, to, check)

\* A cell arc the timing graph has, an instance pin and a port of the design whose
\* wires it has, and a check that is made.
Timed(i, from, to) == ~PinDisabled(i, from) /\ ~ArcDisabled(i, from, to, FALSE)
Driving(i, p) == ~PinDisabled(i, p)
PortDriving(port) == port \notin pins
Checked(i, clock, data) == ~PinDisabled(i, clock) /\ ~ArcDisabled(i, clock, data, TRUE)

-----------------------------------------------------------------------------
(* Properties                                                              *)

\* The sets hold objects of their kinds (struct Disables, disable.rs:80).
TypeOK ==
  /\ pins \subseteq Pins
  /\ lib_ports \subseteq Cells \X PortBits
  /\ insts \in [Insts -> SUBSET (Sides \X Sides)]
  /\ cells \in [Cells -> SUBSET (Sides \X Sides)]
  /\ warned \subseteq 1 .. Len(sdc)

\* The positions of the commands that take effect on an object.
Effective(kind, object) ==
  {k \in DOMAIN sdc : ~Missing(sdc[k]) /\ object \in Named(sdc[k], kind)}

\* The last of the commands that say something is a set.
LastIsSet(K) ==
  \E k \in K : sdc[k].cmd = "set_disable_timing" /\ \A j \in K : j <= k

\* An arc is left out of the graph exactly when some way of naming it - its from
\* pin, its from port, its to port, the pair, or the whole object, on the instance
\* or on the cell - was set and not taken back in the very same way since: an unset
\* in other words leaves it out, and so does an unset one of whose ports is missing.
\* The wires of a net are left out when its driving pin, the port of that pin's cell or
\* its driving port was set last (disable.rs:136, 212; sta.rs:1734, 1947).
ArcsFollowFile ==
  /\ \A port \in TopPorts : PortDriving(port) <=> ~LastIsSet(Effective("port", port))
  /\ \A i \in Insts :
    LET cell == CellOf[i]
        saying(K, pair) == {k \in K : pair \in PairsOn(sdc[k], cell)}
        on_inst == Effective("inst", i)
        on_cell == Effective("lib_cell", cell)
    IN \A f \in PortBits :
      /\ Driving(i, f) <=> /\ ~LastIsSet(Effective("pin", <<i, f>>))
                          /\ ~LastIsSet(Effective("lib_pin", <<cell, f>>))
      /\ \A t \in PortBits :
         Timed(i, f, t) <=>
           /\ \A pair \in {Any, f} \X {Any, t} :
                ~LastIsSet(saying(on_inst, pair)) /\ ~LastIsSet(saying(on_cell, pair))
           /\ ~LastIsSet(Effective("pin", <<i, f>>))
           /\ ~LastIsSet(Effective("lib_pin", <<cell, f>>))

\* A timing check is only lost to a command that names one of its two ports, or
\* the clock pin itself: disabling whole instances and cells, in any order and
\* however partly taken back, never leaves a flop unchecked ("all" spares checks,
\* disable.rs:41, 304; enabled_checks, sta.rs:1369).
ChecksSurviveAll ==
  \A i \in Insts, clock, data \in PortBits :
    Checked(i, clock, data) \/
      \/ Effective("pin", <<i, clock>>) \cup Effective("lib_pin", <<CellOf[i], clock>>) # {}
      \/ \E k \in DOMAIN sdc :
           \/ sdc[k].from # Any /\ clock \in BitsOn(CellOf[i], sdc[k].from)
           \/ sdc[k].to # Any /\ data \in BitsOn(CellOf[i], sdc[k].to)
=============================================================================
