------------------------------ MODULE DataChecks -----------------------------
(***************************************************************************)
(* data_check.rs: set_data_check and unset_data_check read in file order   *)
(* into the checks in force between two data pins, each with a margin per  *)
(* side (setup, hold), from-edge and to-edge; and the part of build_report *)
(* (sta.rs) that turns them into required times and hold slacks - where    *)
(* there is one launching edge, one clock at most and no exception; else   *)
(* each check is said not to be applied.                                   *)
(***************************************************************************)
EXTENDS Integers, Sequences, FiniteSets, FiniteSetsExt

CONSTANTS
  Nodes,       \* pins and ports
  NodeOf,      \* the node each written name finds; NoNode for none or several
  Commands,    \* the commands a file may hold
  MaxCommands, \* bound on the length of the file
  Early, Late, \* per node and edge, its arrivals, or Unreached
  RegisterPins,\* data pins of registers, where no data check is made for hold
  Period,
  Uncertainty, \* [setup, hold]
  NoNode,
  Unreached,
  NoMargin     \* a margin that is not set; a requirement that is not made

Sides == {"setup", "hold"}
Edges == {"rise", "fall"}
Slots == Sides \X Edges \X Edges

\* What the constants are.
ConstantsOK ==
  /\ NoNode \notin Nodes /\ NoMargin \notin Int
  /\ Early \in [Nodes -> [Edges -> Int \cup {Unreached}]]
  /\ Late \in [Nodes -> [Edges -> Int \cup {Unreached}]]
  /\ Period \in Int /\ Uncertainty \in [Sides -> Int]
  /\ \A c \in Commands :
       /\ c.cmd \in {"set_data_check", "unset_data_check"}
       /\ DOMAIN c.from \subseteq {"plain"} \cup Edges
       /\ DOMAIN c.to \subseteq {"plain"} \cup Edges
       /\ c.flags \subseteq {"-setup", "-hold", "-clock", "-rise", "-fall"}
       /\ c.margin \in Int \cup {NoMargin}
       \* lists of written names, each of which finds a node or none
       /\ \A end \in {c.from, c.to} : \A key \in DOMAIN end :
            \A n \in end[key] : NodeOf[n] \in Nodes \cup {NoNode}

VARIABLES
  sdc,     \* the commands read so far
  checks,  \* the checks, in the order first set
  warned   \* positions in sdc of the commands something was said about

vars == <<sdc, checks, warned>>

Init == sdc = <<>> /\ checks = <<>> /\ warned = {}

-----------------------------------------------------------------------------
(* The two ends                                                            *)

\* The reference takes the first key of the three it finds, in this order.
KeyOf(end) ==
  IF "plain" \in DOMAIN end THEN "plain" ELSE IF "rise" \in DOMAIN end THEN "rise" ELSE "fall"

EdgesOf(key) == IF key = "plain" THEN Edges ELSE {key}

\* An end that is given and does not name exactly one pin is an error.
Given(end) == DOMAIN end # {}
Single(end) == Given(end) => \E n \in end[KeyOf(end)] : end[KeyOf(end)] = {n}
NodeAt(end) == NodeOf[CHOOSE n \in end[KeyOf(end)] : TRUE]

SidesOf(c) ==
  IF "-setup" \in c.flags /\ "-hold" \notin c.flags THEN {"setup"}
  ELSE IF "-hold" \in c.flags /\ "-setup" \notin c.flags THEN {"hold"}
  ELSE Sides

\* The margins a command names.
SlotsOf(c) == SidesOf(c) \X EdgesOf(KeyOf(c.from)) \X EdgesOf(KeyOf(c.to))

-----------------------------------------------------------------------------
(* One command                                                             *)

\* Refused by the reader of the file already, and skipped here without a word.
Skipped(c) == Single(c.from) /\ Single(c.to) /\ ~(Given(c.from) /\ Given(c.to))

\* Not modelled, or not a number, or an end that is not one pin: said and skipped.
Refused(c) ==
  \/ ~Single(c.from) \/ ~Single(c.to)
  \/ c.flags \cap {"-clock", "-rise", "-fall"} # {}
  \/ c.cmd = "set_data_check" /\ c.margin = NoMargin
  \/ NodeAt(c.from) = NoNode \/ NodeAt(c.to) = NoNode

NodesOf(c) == <<NodeAt(c.from), NodeAt(c.to)>>

NoMargins == [s \in Slots |-> NoMargin]

\* An unset that leaves a margin of zero.
MarginOrZero(c) == IF c.cmd = "set_data_check" THEN c.margin ELSE 0

\* The command's margins written over the slots it names.
MarginOf(c) == IF c.cmd = "set_data_check" THEN c.margin ELSE NoMargin
Written(c, margins) == [s \in Slots |-> IF s \in SlotsOf(c) THEN MarginOf(c) ELSE margins[s]]

\* A search that wants the ends written alike too.
PositionsAsWritten(nodes) ==
  {i \in DOMAIN checks : checks[i].nodes = nodes /\
     checks[i].written = <<sdc'[Len(sdc')].from, sdc'[Len(sdc')].to>>}

\* A command finds its check by the pins.
PositionsOf(nodes) == {i \in DOMAIN checks : checks[i].nodes = nodes}

Apply(c) ==
  /\ Len(sdc) < MaxCommands
  /\ sdc' = Append(sdc, c)
  /\ \/ Skipped(c) /\ UNCHANGED <<checks, warned>>
     \/ ~Skipped(c) /\ Refused(c) /\ warned' = warned \cup {Len(sdc')} /\ UNCHANGED checks
     \/ /\ ~Skipped(c) /\ ~Refused(c)
        /\ UNCHANGED warned
        /\ LET at == PositionsOf(NodesOf(c)) IN
             \/ \E i \in at : checks' = [checks EXCEPT ![i].margins = Written(c, @)]
             \/ /\ at = {} /\ c.cmd = "set_data_check"
                /\ checks' = Append(checks, [nodes |-> NodesOf(c), written |-> <<c.from, c.to>>,
                                             margins |-> Written(c, NoMargins)])
             \/ at = {} /\ c.cmd = "unset_data_check" /\ UNCHANGED checks

Next == \E c \in Commands : Apply(c)

Spec == Init /\ [][Next]_vars

\* The checks in force: those with a margin left.
InForce == {d \in {checks[i] : i \in DOMAIN checks} : \E s \in Slots : d.margins[s] # NoMargin}

-----------------------------------------------------------------------------
(* What the checks require                                                 *)

Tightest(values) == IF values = {} THEN NoMargin ELSE Min(values)

\* The margins of a side that bind an edge of a node, with the node and edge they are
\* from, where that one is reached.
Binding(side, to, edge, reached) ==
  {b \in InForce \X Edges :
     /\ b[1].nodes[2] = to /\ b[1].margins[<<side, b[2], edge>>] # NoMargin
     /\ reached[b[1].nodes[1]][b[2]] # Unreached}

\* The zero-cycle setup required time of an edge of a node: the tightest over the
\* checks to it and their from-edges' early arrivals.
SetupRequired(to, edge) ==
  Tightest({Early[b[1].nodes[1]][b[2]] - Uncertainty.setup - b[1].margins[<<"setup", b[2], edge>>] :
              b \in Binding("setup", to, edge, Early)})

\* The hold slack of an edge of a node: its next launch against the late arrivals.
HoldSlack(to, edge) ==
  IF Early[to][edge] = Unreached \/ to \in RegisterPins THEN NoMargin
  ELSE Tightest({Early[to][edge] + Period
                   - (Late[b[1].nodes[1]][b[2]] + Uncertainty.hold + b[1].margins[<<"hold", b[2], edge>>]) :
                   b \in Binding("hold", to, edge, Late)})

-----------------------------------------------------------------------------
(* Properties                                                              *)

\* One check per pair of pins, with a margin or none in each slot
\* (struct DataCheck, data_check.rs:28).
TypeOK ==
  /\ \A i \in DOMAIN checks :
       /\ checks[i].nodes \in Nodes \X Nodes
       /\ checks[i].margins \in [Slots -> Int \cup {NoMargin}]
  /\ warned \subseteq 1 .. Len(sdc)

\* The effective commands that name a slot of the check between two pins.
Naming(nodes, s) ==
  {k \in DOMAIN sdc : /\ ~Skipped(sdc[k]) /\ ~Refused(sdc[k])
                      /\ NodesOf(sdc[k]) = nodes
                      /\ s[1] \in SidesOf(sdc[k])
                      /\ s[2] \in EdgesOf(KeyOf(sdc[k].from))
                      /\ s[3] \in EdgesOf(KeyOf(sdc[k].to))}

\* Whatever names the pins were written with and however sets and unsets of single
\* edges and sides follow each other, a margin in force is that of the last effective
\* command that names its pins and its slot, and there is one check per pair of pins
\* (data_checks, data_check.rs:77; "keyed on its Pin*s", data_check.rs:28).
MarginsFollowFile ==
  /\ \A nodes \in Nodes \X Nodes, s \in Slots :
       LET K == Naming(nodes, s)
           last == CHOOSE k \in K : \A j \in K : j <= k
       IN {d.margins[s] : d \in {e \in InForce : e.nodes = nodes}} \ {NoMargin} =
            IF K = {} \/ sdc[last].cmd = "unset_data_check" THEN {}
            ELSE {sdc[last].margin}
  /\ \A d, e \in InForce : d.nodes = e.nodes => d = e

\* What an unset may do to what the pins had.
UnsetRelaxes ==
  LET relaxes(old, new) == new # NoMargin => old # NoMargin /\ new >= old
  IN sdc'[Len(sdc')].cmd = "unset_data_check" =>
       \A to \in Nodes, edge \in Edges :
         /\ relaxes(SetupRequired(to, edge), SetupRequired(to, edge)')
         /\ relaxes(HoldSlack(to, edge), HoldSlack(to, edge)')

\* What is taken back only relaxes: an unset, of one edge or side or of a check that was
\* never set, makes no required time earlier and no hold slack smaller, and never
\* makes a check of a pin that had none (unset_data_check, data_check.rs:117; sta.rs:3705, 4049).
UnsetsOnlyRelax == [][UnsetRelaxes]_vars
=============================================================================
