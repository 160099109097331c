------------------------------ MODULE PortDelays -----------------------------
(***************************************************************************)
(* The delays and transitions a constraint file puts on ports (job.rs):    *)
(* set_input_delay / set_output_delay, one object per port and clock edge  *)
(* (resolve_port_delays), with the job's defaults behind them, and         *)
(* set_input_transition; and the arrivals build_report (sta.rs) seeds and  *)
(* the requirements it checks from them.                                   *)
(*                                                                         *)
(* The code keeps the commands and resolves a port when it is asked for;   *)
(* here each command is applied to every port it names as it is read.      *)
(***************************************************************************)
EXTENDS Integers, Sequences, FiniteSets, FiniteSetsExt

CONSTANTS
  Ports,
  ClockPorts,   \* the ports that are clock sources
  ClockEdges,   \* a clock (or none) with an edge of it: [clock, fall]
  Commands,     \* the commands a file may hold
  MaxCommands,  \* bound on the length of the file
  AllBut,       \* the job file's every-port-but delays: [out : SUBSET Ports, value]
  DefaultDelay, \* input_delay of the job file, or Unset when it is not declared
  DefaultSlew,  \* input_slew
  Capture,      \* the capture time of the clock edges checked against one launch
  Uncertainty,
  NoClock,      \* the edge a default is relative to
  Unset         \* a slot no command set

Analyses == {"min", "max"}
Edges == {"rise", "fall"}
Slots == Analyses \X Edges
Values == Int \cup {Unset}

\* What the constants are.
ConstantsOK ==
  /\ Unset \notin Int /\ DefaultDelay \in Values /\ DefaultSlew \in Int
  /\ NoClock \in ClockEdges /\ DOMAIN Capture \subseteq ClockEdges
  /\ Uncertainty \in Int /\ \A e \in DOMAIN Capture : Capture[e] \in Int
  /\ \A c \in Commands :
       /\ c.cmd \in {"set_io_delay", "set_input_transition"}
       /\ c.ports \subseteq Ports /\ c.mm \subseteq Analyses /\ c.rf \subseteq Edges
       /\ c.cmd = "set_io_delay" =>
            c.edge \in ClockEdges /\ c.add \in BOOLEAN /\ c.all_but \in BOOLEAN
            /\ c.value \in [Slots -> Int]
       /\ c.cmd = "set_input_transition" => c.value \in Int /\ c.no_clocks \in BOOLEAN

VARIABLES
  sdc,    \* the commands read so far
  delays, \* per port, the clock edges it has a delay object for and their slots
  slew    \* per port, the input transition of each slot

vars == <<sdc, delays, slew>>

NoSlots == [s \in Slots |-> Unset]
NoDelays == [e \in {} |-> NoSlots]

Init ==
  /\ sdc = <<>>
  /\ delays = [p \in Ports |-> NoDelays]
  /\ slew = [p \in Ports |-> [s \in Slots |-> DefaultSlew]]

-----------------------------------------------------------------------------
(* set_input_delay, set_output_delay                                       *)

\* The ports a delay names, or leaves out.
Named(c, p) == (p \in c.ports) # c.all_but

SlotsOf(c) == c.mm \X c.rf

\* With -add_delay the larger max and the smaller min.
Merge(c, s, old) ==
  IF old # Unset /\ c.add
  THEN IF s[1] = "max" THEN Max({old, c.value[s]}) ELSE Min({old, c.value[s]})
  ELSE c.value[s]

\* A command that keeps the objects of the other clock edges.
RetainedAll(c, objects) == DOMAIN objects

\* Without -add_delay the objects of the other clock edges go.
Retained(c, objects) == IF c.add THEN DOMAIN objects ELSE DOMAIN objects \cap {c.edge}

SetDelay(c, objects) ==
  LET old == IF c.edge \in DOMAIN objects THEN objects[c.edge] ELSE NoSlots
      new == [s \in Slots |-> IF s \in SlotsOf(c) THEN Merge(c, s, old[s]) ELSE old[s]]
  IN [e \in Retained(c, objects) \cup {c.edge} |-> IF e = c.edge THEN new ELSE objects[e]]

ApplyDelay(c) ==
  /\ c.cmd = "set_io_delay"
  /\ delays' = [p \in Ports |-> IF Named(c, p) THEN SetDelay(c, delays[p]) ELSE delays[p]]
  /\ UNCHANGED slew

-----------------------------------------------------------------------------
(* set_input_transition                                                    *)

\* [all_inputs -no_clocks] leaves out the clock sources.
Hit(c, p) == p \in c.ports /\ ~(c.no_clocks /\ p \in ClockPorts)

ApplyTransition(c) ==
  /\ c.cmd = "set_input_transition"
  /\ slew' = [p \in Ports |-> [s \in Slots |->
                IF Hit(c, p) /\ s \in SlotsOf(c) THEN c.value ELSE slew[p][s]]]
  /\ UNCHANGED delays

Apply(c) ==
  /\ Len(sdc) < MaxCommands
  /\ sdc' = Append(sdc, c)
  /\ ApplyDelay(c) \/ ApplyTransition(c)

Next == \E c \in Commands : Apply(c)

Spec == Init /\ [][Next]_vars

-----------------------------------------------------------------------------
(* What a port has                                                         *)

\* The job file's last every-port-but delay that covers the port.
AllButOf(p) ==
  LET K == {k \in DOMAIN AllBut : p \notin AllBut[k].out}
  IN IF K = {} THEN Unset ELSE AllBut[Max(K)].value

\* Its own objects, else an every-port-but delay, else the declared default.
InputDelaysFor(p) ==
  LET default == IF AllButOf(p) # Unset THEN AllButOf(p) ELSE DefaultDelay
  IN IF DOMAIN delays[p] # {} THEN delays[p]
     ELSE IF default = Unset THEN NoDelays
     ELSE [e \in {NoClock} |-> [s \in Slots |-> default]]

\* The arrival a port is seeded with on a launching edge: over its delays on edges of
\* that polarity the latest for max, the earliest for min; none leaves it unreached.
Seeds(objects, fall, s) ==
  {objects[e][s] : e \in {d \in DOMAIN objects : d.fall = fall}} \ {Unset}

Seed(p, fall, s) ==
  LET values == Seeds(InputDelaysFor(p), fall, s)
  IN IF values = {} THEN Unset ELSE IF s[1] = "max" THEN Max(values) ELSE Min(values)

\* The tightest requirement of an output over its delays, each against the capture
\* edge of its own clock edge: setup against max, hold against min. A delay whose clock
\* is asynchronous to the launch, or whose path is false, is no check.
Requirement(p, s) ==
  LET D == {e \in DOMAIN delays[p] \cap DOMAIN Capture : delays[p][e][s] # Unset}
  IN IF D = {} THEN Unset
     ELSE IF s[1] = "max" THEN Min({Capture[e] - delays[p][e][s] - Uncertainty : e \in D})
     ELSE Max({Capture[e] + Uncertainty - delays[p][e][s] : e \in D})

-----------------------------------------------------------------------------
(* Properties                                                              *)

\* Every port has objects with typed slots and a transition in every slot
\* (struct PortDelay, job.rs:98).
TypeOK ==
  /\ \A p \in Ports :
       /\ DOMAIN delays[p] \subseteq ClockEdges
       /\ \A e \in DOMAIN delays[p] : delays[p][e] \in [Slots -> Values]
  /\ slew \in [Ports -> [Slots -> Int]]

\* The positions of the commands that name a port.
DelaysOn(p) == {k \in DOMAIN sdc : sdc[k].cmd = "set_io_delay" /\ Named(sdc[k], p)}

\* Those whose values still count for an edge and a slot: the last command without
\* -add_delay that sets it and the -add_delay commands after that one, unless a
\* command without -add_delay on another edge has come since and cleared the edge.
InForce(p, e, s) ==
  LET K == {k \in DelaysOn(p) : sdc[k].edge = e /\ s \in SlotsOf(sdc[k])}
      cleared == {k \in DelaysOn(p) : ~sdc[k].add /\ sdc[k].edge # e}
      replaced == {k \in K : ~sdc[k].add}
  IN {k \in K : (\A c \in cleared : c < k) /\ (\A r \in replaced : r <= k)}

\* However commands with and without -add_delay on several clock edges, naming some
\* slots of some ports or all ports but some, follow each other, a slot holds the
\* extreme of the values still in force - the larger max, the smaller min - and a
\* slot nothing in force names holds none; a port's transition in a slot is the last
\* one that hits it (resolve_port_delays, job.rs:107; input_slew_for, job.rs:280).
SlotsFollowFile ==
  \A p \in Ports, s \in Slots :
    /\ \A e \in ClockEdges :
         LET values == {sdc[k].value[s] : k \in InForce(p, e, s)}
             held == IF e \in DOMAIN delays[p] THEN delays[p][e][s] ELSE Unset
         IN held = IF values = {} THEN Unset
                   ELSE IF s[1] = "max" THEN Max(values) ELSE Min(values)
    /\ LET K == {k \in DOMAIN sdc : /\ sdc[k].cmd = "set_input_transition"
                                    /\ p \in sdc[k].ports /\ s \in SlotsOf(sdc[k])
                                    /\ sdc[k].no_clocks => p \notin ClockPorts}
       IN slew[p][s] = IF K = {} THEN DefaultSlew ELSE sdc[Max(K)].value

\* A bound that may be missing, and another at least as tight (`up`: larger is tighter).
Tightens(old, new, up) ==
  old # Unset => new # Unset /\ IF up THEN new >= old ELSE new <= old

\* What an -add_delay may do to what the ports had.
AddWidens ==
  \A p \in Ports, s \in Slots :
    LET c == sdc'[Len(sdc')]  max == s[1] = "max"
    IN c.cmd = "set_io_delay" /\ c.add /\ DOMAIN delays[p] # {} =>
         /\ Tightens(Requirement(p, s), Requirement(p, s)', ~max)
         /\ \A fall \in BOOLEAN : Tightens(Seed(p, fall, s), Seed(p, fall, s)', max)

\* An -add_delay only adds: once a port has a delay of its own, no such command
\* unseeds an arrival of it, makes its latest earlier or its earliest later, or
\* drops or relaxes a requirement of an output, whatever clock edge it is on ("with
\* it, the slots merge", job.rs:106; seedInputDelayArrival, sta.rs:1557; out_check,
\* sta.rs:3515).
AddsOnlyWiden == [][AddWidens]_vars
=============================================================================
