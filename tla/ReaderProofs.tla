----------------------------- MODULE ReaderProofs ---------------------------
(***************************************************************************)
(* Proofs about the readers of the constraint file in FrontEnd - disabled  *)
(* timing, data checks, port delays - for every design, library and file.  *)
(***************************************************************************)
EXTENDS FrontEnd, LeastNatural

-----------------------------------------------------------------------------
(* Disabled timing                                                          *)

\* The last command of a file in the set S is a set.
LastSet(s, S) == \E k \in DOMAIN s : IsLast(s, S, k) /\ s[k].cmd = "set_disable_timing"

\* One command more: what it names was last set if the command is a set (disable.rs).
LEMMA LastSetAfter ==
  ASSUME NEW C, NEW s \in Seq(C), NEW c \in C, NEW S
  PROVE  LastSet(Append(s, c), S) <=>
           IF c \in S THEN c.cmd = "set_disable_timing" ELSE LastSet(s, S)
<1> DEFINE t == Append(s, c)
<1>1. /\ DOMAIN t = 1 .. Len(s) + 1 /\ DOMAIN s = 1 .. Len(s) /\ Len(s) \in Nat
      /\ t[Len(s) + 1] = c /\ \A j \in DOMAIN s : t[j] = s[j]
  OBVIOUS
<1>2. \A k \in DOMAIN t : IsLast(t, S, k) <=> IF c \in S THEN k = Len(s) + 1 ELSE IsLast(s, S, k)
  BY LastAfter
<1>3. \A k : IsLast(s, S, k) => k \in DOMAIN s
  BY DEF IsLast
<1>4. CASE c \in S
  BY <1>1, <1>2, <1>4 DEF LastSet
<1>5. CASE c \notin S
  <2>1. \A k \in DOMAIN t : IsLast(t, S, k) <=> IsLast(s, S, k)
    BY <1>2, <1>5
  <2>2. DOMAIN s \subseteq DOMAIN t
    BY <1>1
  <2> QED
    BY <1>1, <1>3, <1>5, <2>1, <2>2 DEF LastSet
<1> QED
  BY <1>4, <1>5

\* The commands that take effect on an object, and on a pair of one.
Saying(kind, object) ==
  {c \in DisCommands : ~Dis!Missing(c) /\ object \in Dis!Named(c, kind)}
SayingPair(kind, object, cell, pair) ==
  {c \in Saying(kind, object) : pair \in Dis!PairsOn(c, cell)}

AnyCell == DisCells \cup {DisCellOf[i] : i \in DisInsts}
AnyPair == Dis!Sides \X Dis!Sides

\* Every set holds what was last set: pins, library pins, and the pairs of each
\* instance and of each cell.
DisInv ==
  /\ dis_sdc \in Seq(DisCommands)
  /\ \A x \in DisInsts \X DisPortBits : x \in pins <=> LastSet(dis_sdc, Saying("pin", x))
  /\ \A x \in DisTopPorts : x \in pins <=> LastSet(dis_sdc, Saying("port", x))
  /\ \A x \in AnyCell \X DisPortBits : x \in lib_ports <=> LastSet(dis_sdc, Saying("lib_pin", x))
  /\ \A i \in DisInsts :
       /\ insts[i] \subseteq AnyPair
       /\ \A pair \in AnyPair :
            pair \in insts[i] <=> LastSet(dis_sdc, SayingPair("inst", i, DisCellOf[i], pair))
  /\ \A k \in DisCells :
       /\ cells[k] \subseteq AnyPair
       /\ \A pair \in AnyPair :
            pair \in cells[k] <=> LastSet(dis_sdc, SayingPair("lib_cell", k, k, pair))

\* An empty file disables nothing (DisabledTiming's default, disable.rs:41).
LEMMA DisInit == Dis!Init => DisInv
<1> SUFFICES ASSUME Dis!Init PROVE DisInv
  OBVIOUS
<1>1. dis_sdc = <<>>
  BY DEF Dis!Init
<1>2. \A S : ~LastSet(dis_sdc, S)
  BY <1>1 DEF LastSet
<1> QED
  BY <1>1, <1>2 DEF Dis!Init, DisInv

\* The ports of a command on a cell of the netlist or the library.
LEMMA PairsTyped ==
  ASSUME NEW c \in DisCommands, NEW cell
  PROVE  Dis!PairsOn(c, cell) \subseteq AnyPair
<1>1. ASSUME NEW p \in {c.from, c.to}
      PROVE  Dis!BitsOn(cell, p) \subseteq Dis!Sides
  BY FrontEndAssumption DEF Dis!ConstantsOK, Dis!BitsOn, Dis!Sides
<1> QED
  BY <1>1 DEF Dis!PairsOn, AnyPair

\* What a command does to one member of a set is what it does to the last that says
\* something of it.
LEMMA ToggleIsLast ==
  ASSUME NEW s \in Seq(DisCommands), NEW c \in DisCommands, NEW S, NEW x, NEW set, NEW objects,
         x \in objects <=> c \in S,
         x \in set <=> LastSet(s, S)
  PROVE  x \in Dis!Toggle(c, set, objects) <=> LastSet(Append(s, c), S)
<1>1. LastSet(Append(s, c), S) <=>
        IF c \in S THEN c.cmd = "set_disable_timing" ELSE LastSet(s, S)
  BY LastSetAfter
<1> QED
  BY <1>1 DEF Dis!Toggle

\* Each command of the file keeps the five lists at what was last set (disable.rs:136).
LEMMA DisStepInv == DisInv /\ Dis!Next => DisInv'
<1> SUFFICES ASSUME DisInv, NEW c \in DisCommands, Dis!Apply(c) PROVE DisInv'
  BY DEF Dis!Next
<1> USE DEF DisInv
<1> DEFINE t == Append(dis_sdc, c)
<1>1. dis_sdc' = t /\ t \in Seq(DisCommands)
  BY DEF Dis!Apply
<1>2. CASE Dis!Missing(c)
  <2>1. UNCHANGED <<pins, lib_ports, insts, cells>>
    BY <1>2 DEF Dis!Apply
  <2>2. \A kind, x, cell, pair : c \notin Saying(kind, x) /\ c \notin SayingPair(kind, x, cell, pair)
    BY <1>2 DEF Saying, SayingPair
  <2>3. \A S : c \notin S => (LastSet(t, S) <=> LastSet(dis_sdc, S))
    BY LastSetAfter
  <2> HIDE DEF t
  <2> QED
    BY <1>1, <2>1, <2>2, <2>3
<1>3. CASE ~Dis!Missing(c)
  <2>1. /\ pins' = Dis!Toggle(c, pins, Dis!Named(c, "pin") \cup Dis!Named(c, "port"))
        /\ lib_ports' = Dis!Toggle(c, lib_ports, Dis!Named(c, "lib_pin"))
        /\ insts' = [i \in DisInsts |->
             Dis!Toggle(c, insts[i], IF i \in Dis!Named(c, "inst")
                                     THEN Dis!PairsOn(c, DisCellOf[i]) ELSE {})]
        /\ cells' = [k \in DisCells |->
             Dis!Toggle(c, cells[k], IF k \in Dis!Named(c, "lib_cell")
                                     THEN Dis!PairsOn(c, k) ELSE {})]
    BY <1>3 DEF Dis!Apply
  <2>2. ASSUME NEW x \in DisInsts \X DisPortBits
        PROVE  x \in pins' <=> LastSet(t, Saying("pin", x))
    <3>1. x \notin Dis!Named(c, "port")
      BY FrontEndAssumption DEF Dis!ConstantsOK, Dis!Named, Dis!Kinds
    <3>2. x \in Dis!Named(c, "pin") \cup Dis!Named(c, "port") <=> c \in Saying("pin", x)
      BY <1>3, <3>1 DEF Saying
    <3> QED
      BY <2>1, <3>2, ToggleIsLast
  <2>6. ASSUME NEW x \in DisTopPorts
        PROVE  x \in pins' <=> LastSet(t, Saying("port", x))
    <3>1. x \notin Dis!Named(c, "pin")
      BY FrontEndAssumption DEF Dis!ConstantsOK, Dis!Named, Dis!Kinds
    <3>2. x \in Dis!Named(c, "pin") \cup Dis!Named(c, "port") <=> c \in Saying("port", x)
      BY <1>3, <3>1 DEF Saying
    <3> QED
      BY <2>1, <3>2, ToggleIsLast
  <2>3. ASSUME NEW x \in AnyCell \X DisPortBits
        PROVE  x \in lib_ports' <=> LastSet(t, Saying("lib_pin", x))
    <3>1. x \in Dis!Named(c, "lib_pin") <=> c \in Saying("lib_pin", x)
      BY <1>3 DEF Saying
    <3> QED
      BY <2>1, <3>1, ToggleIsLast
  <2>4. ASSUME NEW i \in DisInsts
        PROVE  /\ insts'[i] \subseteq AnyPair
               /\ \A pair \in AnyPair :
                    pair \in insts'[i] <=> LastSet(t, SayingPair("inst", i, DisCellOf[i], pair))
    <3> DEFINE objects == IF i \in Dis!Named(c, "inst") THEN Dis!PairsOn(c, DisCellOf[i]) ELSE {}
    <3>1. insts'[i] = Dis!Toggle(c, insts[i], objects)
      BY <2>1
    <3>2. objects \subseteq AnyPair
      BY PairsTyped
    <3>3. ASSUME NEW pair \in AnyPair
          PROVE  pair \in insts'[i] <=> LastSet(t, SayingPair("inst", i, DisCellOf[i], pair))
      <4>1. pair \in objects <=> c \in SayingPair("inst", i, DisCellOf[i], pair)
        BY <1>3 DEF Saying, SayingPair
      <4> HIDE DEF objects
      <4> QED
        BY <3>1, <4>1, ToggleIsLast
    <3>4. insts'[i] \subseteq AnyPair
      <4> HIDE DEF objects
      <4> QED
        BY <3>1, <3>2 DEF Dis!Toggle
    <3> QED
      BY <3>3, <3>4
  <2>5. ASSUME NEW k \in DisCells
        PROVE  /\ cells'[k] \subseteq AnyPair
               /\ \A pair \in AnyPair :
                    pair \in cells'[k] <=> LastSet(t, SayingPair("lib_cell", k, k, pair))
    <3> DEFINE objects == IF k \in Dis!Named(c, "lib_cell") THEN Dis!PairsOn(c, k) ELSE {}
    <3>1. cells'[k] = Dis!Toggle(c, cells[k], objects)
      BY <2>1
    <3>2. objects \subseteq AnyPair
      BY PairsTyped
    <3>3. ASSUME NEW pair \in AnyPair
          PROVE  pair \in cells'[k] <=> LastSet(t, SayingPair("lib_cell", k, k, pair))
      <4>1. pair \in objects <=> c \in SayingPair("lib_cell", k, k, pair)
        BY <1>3 DEF Saying, SayingPair
      <4> HIDE DEF objects
      <4> QED
        BY <3>1, <4>1, ToggleIsLast
    <3>4. cells'[k] \subseteq AnyPair
      <4> HIDE DEF objects
      <4> QED
        BY <3>1, <3>2 DEF Dis!Toggle
    <3> QED
      BY <3>3, <3>4
  <2> HIDE DEF t
  <2> QED
    BY <1>1, <2>2, <2>3, <2>4, <2>5, <2>6
<1> QED
  BY <1>2, <1>3

\* The state of the part only moves by its own steps.
LEMMA DisSteps ==
  ASSUME [Next]_vars, reader' = "disables"
  PROVE  reader = "disables" /\ (Dis!Next \/ UNCHANGED DisVars)
BY DEF Next, vars, DisStep, ChkStep, DelStep, ExcStep, LdStep, SiStep, CycStep, CmdStep, ScrStep

\* The invariant holds whenever the disables are the part at work.
LEMMA DisAlways == Spec => [](reader = "disables" => DisInv)
<1>1. Init => (reader = "disables" => DisInv)
  BY DisInit DEF Init
<1>2. (reader = "disables" => DisInv) /\ [Next]_vars => (reader = "disables" => DisInv)'
  <2>1. SUFFICES ASSUME reader = "disables" => DisInv, [Next]_vars, reader' = "disables"
                 PROVE  DisInv'
    OBVIOUS
  <2>2. DisInv /\ (Dis!Next \/ UNCHANGED DisVars)
    BY <2>1, DisSteps
  <2>3. CASE UNCHANGED DisVars
    BY <2>2, <2>3 DEF DisVars, DisInv
  <2> QED
    BY <2>2, <2>3, DisStepInv
<1> QED
  BY <1>1, <1>2, PTL DEF Spec

\* The two ways of writing that the last command on something set it.
LEMMA LastIsLastSet ==
  ASSUME DisInv, NEW kind, NEW x, NEW cell, NEW pair
  PROVE  /\ Dis!LastIsSet(Dis!Effective(kind, x)) <=> LastSet(dis_sdc, Saying(kind, x))
         /\ Dis!LastIsSet({k \in Dis!Effective(kind, x) : pair \in Dis!PairsOn(dis_sdc[k], cell)})
              <=> LastSet(dis_sdc, SayingPair(kind, x, cell, pair))
<1>1. \A k \in DOMAIN dis_sdc :
        /\ k \in Dis!Effective(kind, x) <=> dis_sdc[k] \in Saying(kind, x)
        /\ k \in {h \in Dis!Effective(kind, x) : pair \in Dis!PairsOn(dis_sdc[h], cell)}
             <=> dis_sdc[k] \in SayingPair(kind, x, cell, pair)
  BY DEF DisInv, Dis!Effective, Saying, SayingPair
<1>2. Dis!Effective(kind, x) \subseteq DOMAIN dis_sdc
  BY DEF Dis!Effective
<1>3. ASSUME NEW K \in SUBSET DOMAIN dis_sdc, NEW S,
             \A k \in DOMAIN dis_sdc : k \in K <=> dis_sdc[k] \in S
      PROVE  Dis!LastIsSet(K) <=> LastSet(dis_sdc, S)
  BY <1>3 DEF Dis!LastIsSet, LastSet, IsLast
<1> DEFINE pairs == {k \in Dis!Effective(kind, x) : pair \in Dis!PairsOn(dis_sdc[k], cell)}
<1>4. pairs \in SUBSET DOMAIN dis_sdc
  BY <1>2
<1>5. Dis!LastIsSet(pairs) <=> LastSet(dis_sdc, SayingPair(kind, x, cell, pair))
  <2>1. \A k \in DOMAIN dis_sdc : k \in pairs <=> dis_sdc[k] \in SayingPair(kind, x, cell, pair)
    BY <1>1
  <2> HIDE DEF pairs
  <2> QED
    BY <1>3, <1>4, <2>1
<1> QED
  BY <1>1, <1>2, <1>3, <1>5

\* A set of pairs takes an arc out when it holds one of the four ways to name it.
LEMMA FourWays ==
  ASSUME NEW S \in SUBSET AnyPair, NEW f \in DisPortBits, NEW t \in DisPortBits
  PROVE  Dis!Covers(S, f, t, FALSE) <=> \E pair \in {Any, f} \X {Any, t} : pair \in S
<1>1. \A pair \in AnyPair : pair = <<pair[1], pair[2]>>
  BY DEF AnyPair
<1>2. {Any, f} \X {Any, t} \subseteq AnyPair
  BY DEF AnyPair, Dis!Sides
<1> QED
  BY <1>1, <1>2 DEF Dis!Covers

\* A library pin or cell no command can name is not disabled.
LEMMA UnknownCell ==
  ASSUME NEW cell, cell \notin DisCells, NEW pair
  PROVE  SayingPair("lib_cell", cell, cell, pair) = {}
<1>1. \A c \in DisCommands : \A n \in c.objects : cell \notin DisMatches["lib_cell"][n]
  BY FrontEndAssumption DEF Dis!ConstantsOK, Dis!Kinds
<1>2. \A c \in DisCommands : cell \notin Dis!Named(c, "lib_cell")
  BY <1>1 DEF Dis!Named
<1> QED
  BY <1>2 DEF SayingPair, Saying

\* An arc is in the graph unless some way of naming it was set last (disable.rs:136).
LEMMA DisArcs ==
  ASSUME DisInv, NEW i \in DisInsts, NEW f \in DisPortBits, NEW t \in DisPortBits
  PROVE  LET cell == DisCellOf[i]
             saying(K, pair) == {k \in K : pair \in Dis!PairsOn(dis_sdc[k], cell)}
             on_inst == Dis!Effective("inst", i)
             on_cell == Dis!Effective("lib_cell", cell)
         IN Dis!Timed(i, f, t) <=>
              /\ \A pair \in {Any, f} \X {Any, t} :
                   /\ ~Dis!LastIsSet(saying(on_inst, pair))
                   /\ ~Dis!LastIsSet(saying(on_cell, pair))
              /\ ~Dis!LastIsSet(Dis!Effective("pin", <<i, f>>))
              /\ ~Dis!LastIsSet(Dis!Effective("lib_pin", <<cell, f>>))
<1> DEFINE cell == DisCellOf[i]
           on_inst(pair) == SayingPair("inst", i, cell, pair)
           on_cell(pair) == SayingPair("lib_cell", cell, cell, pair)
           ways == {Any, f} \X {Any, t}
<1>1. /\ <<i, f>> \in pins <=> LastSet(dis_sdc, Saying("pin", <<i, f>>))
      /\ <<cell, f>> \in lib_ports <=> LastSet(dis_sdc, Saying("lib_pin", <<cell, f>>))
  BY DEF DisInv, AnyCell
<1>2. ways \subseteq AnyPair
  BY DEF AnyPair, Dis!Sides
<1>3. Dis!Covers(insts[i], f, t, FALSE) <=> \E pair \in ways : LastSet(dis_sdc, on_inst(pair))
  <2>1. insts[i] \in SUBSET AnyPair
    BY DEF DisInv
  <2>2. \A pair \in AnyPair : pair \in insts[i] <=> LastSet(dis_sdc, on_inst(pair))
    BY DEF DisInv
  <2> QED
    BY <1>2, <2>1, <2>2, FourWays
<1>4. (cell \in DisCells /\ Dis!Covers(cells[cell], f, t, FALSE))
        <=> \E pair \in ways : LastSet(dis_sdc, on_cell(pair))
  <2>1. CASE cell \in DisCells
    <3>1. cells[cell] \in SUBSET AnyPair
      BY <2>1 DEF DisInv
    <3>2. \A pair \in AnyPair : pair \in cells[cell] <=> LastSet(dis_sdc, on_cell(pair))
      BY <2>1 DEF DisInv
    <3>3. Dis!Covers(cells[cell], f, t, FALSE) <=> \E pair \in ways : pair \in cells[cell]
      BY <3>1, FourWays
    <3> QED
      BY <1>2, <2>1, <3>2, <3>3
  <2>2. CASE cell \notin DisCells
    <3>1. \A pair : ~LastSet(dis_sdc, on_cell(pair))
      BY <2>2, UnknownCell DEF LastSet, IsLast
    <3> QED
      BY <2>2, <3>1
  <2> QED
    BY <2>1, <2>2
<1>5. Dis!Timed(i, f, t) <=>
        /\ \A pair \in ways : ~LastSet(dis_sdc, on_inst(pair)) /\ ~LastSet(dis_sdc, on_cell(pair))
        /\ ~LastSet(dis_sdc, Saying("pin", <<i, f>>))
        /\ ~LastSet(dis_sdc, Saying("lib_pin", <<cell, f>>))
  BY <1>1, <1>3, <1>4 DEF Dis!Timed, Dis!PinDisabled, Dis!ArcDisabled
<1>6. /\ Dis!LastIsSet(Dis!Effective("pin", <<i, f>>)) <=> LastSet(dis_sdc, Saying("pin", <<i, f>>))
      /\ Dis!LastIsSet(Dis!Effective("lib_pin", <<cell, f>>))
           <=> LastSet(dis_sdc, Saying("lib_pin", <<cell, f>>))
  BY LastIsLastSet
<1>7. ASSUME NEW pair
      PROVE  /\ Dis!LastIsSet({k \in Dis!Effective("inst", i) : pair \in Dis!PairsOn(dis_sdc[k], cell)})
                  <=> LastSet(dis_sdc, on_inst(pair))
             /\ Dis!LastIsSet({k \in Dis!Effective("lib_cell", cell) : pair \in Dis!PairsOn(dis_sdc[k], cell)})
                  <=> LastSet(dis_sdc, on_cell(pair))
  BY LastIsLastSet
<1> HIDE DEF cell, on_inst, on_cell
<1> QED
  BY <1>5, <1>6, <1>7 DEF cell

\* The wires of a pin or port are in the graph unless it was set last (sta.rs:1947).
LEMMA DisWires ==
  ASSUME DisInv
  PROVE  /\ \A port \in DisTopPorts :
              Dis!PortDriving(port) <=> ~Dis!LastIsSet(Dis!Effective("port", port))
         /\ \A i \in DisInsts, f \in DisPortBits :
              Dis!Driving(i, f) <=>
                /\ ~Dis!LastIsSet(Dis!Effective("pin", <<i, f>>))
                /\ ~Dis!LastIsSet(Dis!Effective("lib_pin", <<DisCellOf[i], f>>))
<1>1. \A kind, x : Dis!LastIsSet(Dis!Effective(kind, x)) <=> LastSet(dis_sdc, Saying(kind, x))
  BY LastIsLastSet
<1>2. ASSUME NEW port \in DisTopPorts
      PROVE  Dis!PortDriving(port) <=> ~Dis!LastIsSet(Dis!Effective("port", port))
  BY <1>1 DEF DisInv, Dis!PortDriving
<1>3. ASSUME NEW i \in DisInsts, NEW f \in DisPortBits
      PROVE  Dis!Driving(i, f) <=>
               /\ ~Dis!LastIsSet(Dis!Effective("pin", <<i, f>>))
               /\ ~Dis!LastIsSet(Dis!Effective("lib_pin", <<DisCellOf[i], f>>))
  <2>1. /\ <<i, f>> \in pins <=> LastSet(dis_sdc, Saying("pin", <<i, f>>))
        /\ <<DisCellOf[i], f>> \in lib_ports <=> LastSet(dis_sdc, Saying("lib_pin", <<DisCellOf[i], f>>))
    BY DEF DisInv, AnyCell
  <2> QED
    BY <1>1, <2>1 DEF Dis!Driving, Dis!PinDisabled
<1> QED
  BY <1>2, <1>3

\* The two together.
LEMMA DisFollow == DisInv => Dis!ArcsFollowFile
BY DisArcs, DisWires DEF Dis!ArcsFollowFile

\* A timing arc is in the graph unless some way of naming it was disabled and that was not
\* taken back later in the same words, and so are the wires of a driver (disable.rs:136).
THEOREM ArcsFollow == Spec => []ArcsFollowFile
<1>1. (reader = "disables" => DisInv) => ArcsFollowFile
  BY DisFollow DEF ArcsFollowFile
<1> QED
  BY <1>1, DisAlways, PTL

\* What a set of pairs takes of checks, some command names by one of its ports.
LEMMA CoveredCheck ==
  ASSUME DisInv, NEW S \in SUBSET AnyPair, NEW cell, NEW clock \in DisPortBits, NEW data \in DisPortBits,
         Dis!Covers(S, clock, data, TRUE),
         \A pair \in S : \E k \in DOMAIN dis_sdc : pair \in Dis!PairsOn(dis_sdc[k], cell)
  PROVE  \E k \in DOMAIN dis_sdc :
           \/ dis_sdc[k].from # Any /\ clock \in Dis!BitsOn(cell, dis_sdc[k].from)
           \/ dis_sdc[k].to # Any /\ data \in Dis!BitsOn(cell, dis_sdc[k].to)
<1>1. PICK pair \in S : /\ pair[1] \in {Any, clock} /\ pair[2] \in {Any, data}
                        /\ pair # <<Any, Any>>
  BY DEF Dis!Covers
<1>2. PICK k \in DOMAIN dis_sdc : pair \in Dis!PairsOn(dis_sdc[k], cell)
  OBVIOUS
<1>3. pair = <<pair[1], pair[2]>>
  BY DEF AnyPair
<1>4. Any # clock /\ Any # data
  BY FrontEndAssumption DEF Dis!ConstantsOK
<1>5. pair[1] \in Dis!BitsOn(cell, dis_sdc[k].from) /\ pair[2] \in Dis!BitsOn(cell, dis_sdc[k].to)
  BY <1>2 DEF Dis!PairsOn
<1>6. CASE pair[1] = clock
  BY <1>4, <1>5, <1>6 DEF Dis!BitsOn
<1>7. CASE pair[2] = data
  BY <1>4, <1>5, <1>7 DEF Dis!BitsOn
<1> QED
  BY <1>1, <1>3, <1>6, <1>7

\* Disabling whole instances and cells loses no timing check (disable.rs:41).
LEMMA DisChecks == DisInv => Dis!ChecksSurviveAll
<1> SUFFICES ASSUME DisInv, NEW i \in DisInsts, NEW clock \in DisPortBits, NEW data \in DisPortBits,
                    ~Dis!Checked(i, clock, data)
             PROVE  \/ Dis!Effective("pin", <<i, clock>>)
                         \cup Dis!Effective("lib_pin", <<DisCellOf[i], clock>>) # {}
                    \/ \E k \in DOMAIN dis_sdc :
                         \/ dis_sdc[k].from # Any /\ clock \in Dis!BitsOn(DisCellOf[i], dis_sdc[k].from)
                         \/ dis_sdc[k].to # Any /\ data \in Dis!BitsOn(DisCellOf[i], dis_sdc[k].to)
  BY DEF Dis!ChecksSurviveAll
<1>1. CASE Dis!PinDisabled(i, clock)
  <2>1. \/ LastSet(dis_sdc, Saying("pin", <<i, clock>>))
        \/ LastSet(dis_sdc, Saying("lib_pin", <<DisCellOf[i], clock>>))
    BY <1>1 DEF Dis!PinDisabled, DisInv, AnyCell
  <2>2. \A kind, x : LastSet(dis_sdc, Saying(kind, x)) => Dis!Effective(kind, x) # {}
    BY DEF LastSet, IsLast, Saying, Dis!Effective
  <2> QED
    BY <2>1, <2>2
<1>2. \A S : LastSet(dis_sdc, S) => \E k \in DOMAIN dis_sdc : dis_sdc[k] \in S
  BY DEF LastSet, IsLast
<1>3. CASE Dis!Covers(insts[i], clock, data, TRUE)
  <2>1. ASSUME NEW pair \in insts[i]
        PROVE  \E k \in DOMAIN dis_sdc : pair \in Dis!PairsOn(dis_sdc[k], DisCellOf[i])
    <3>1. LastSet(dis_sdc, SayingPair("inst", i, DisCellOf[i], pair))
      BY DEF DisInv
    <3> QED
      BY <1>2, <3>1 DEF SayingPair
  <2>2. insts[i] \in SUBSET AnyPair
    BY DEF DisInv
  <2> QED
    BY <1>3, <2>1, <2>2, CoveredCheck
<1>4. CASE DisCellOf[i] \in DisCells /\ Dis!Covers(cells[DisCellOf[i]], clock, data, TRUE)
  <2> DEFINE cell == DisCellOf[i]
  <2>1. ASSUME NEW pair \in cells[cell]
        PROVE  \E k \in DOMAIN dis_sdc : pair \in Dis!PairsOn(dis_sdc[k], cell)
    <3>1. LastSet(dis_sdc, SayingPair("lib_cell", cell, cell, pair))
      BY <1>4 DEF DisInv
    <3> QED
      BY <1>2, <3>1 DEF SayingPair
  <2>2. cells[cell] \in SUBSET AnyPair
    BY <1>4 DEF DisInv
  <2> QED
    BY <1>4, <2>1, <2>2, CoveredCheck
<1> QED
  BY <1>1, <1>3, <1>4 DEF Dis!Checked, Dis!ArcDisabled

\* Disabling whole instances and cells, however often and in whatever order, loses no
\* timing check (disable.rs:41).
THEOREM ChecksSurvive == Spec => []ChecksSurviveAll
<1>1. (reader = "disables" => DisInv) => ChecksSurviveAll
  BY DisChecks DEF ChecksSurviveAll
<1> QED
  BY <1>1, DisAlways, PTL

-----------------------------------------------------------------------------
(* Data checks                                                             *)

CheckRecord ==
  [nodes : ChkNodes \X ChkNodes, written : {<<c.from, c.to>> : c \in ChkCommands},
   margins : [Chk!Slots -> Int \cup {Unset}]]

Effect(c) == ~Chk!Skipped(c) /\ ~Chk!Refused(c)

\* The commands that name a slot of the check between two pins.
NamingSlot(nodes, s) ==
  {c \in ChkCommands : Effect(c) /\ Chk!NodesOf(c) = nodes /\ s \in Chk!SlotsOf(c)}

\* The last command in the set S set the margin m.
LastMargin(file, S, m) ==
  \E k \in DOMAIN file :
    IsLast(file, S, k) /\ file[k].cmd = "set_data_check" /\ file[k].margin = m

\* A check between two pins has the margin m in a slot.
Holds(list, nodes, s, m) ==
  \E i \in DOMAIN list : list[i].nodes = nodes /\ list[i].margins[s] = m

\* There is one check per pair of pins, and its margins are those last set.
ChkInv ==
  /\ chk_sdc \in Seq(ChkCommands)
  /\ checks \in Seq(CheckRecord)
  /\ \A i, j \in DOMAIN checks : checks[i].nodes = checks[j].nodes => i = j
  /\ \A nodes \in ChkNodes \X ChkNodes, s \in Chk!Slots, m \in Int :
       Holds(checks, nodes, s, m) <=> LastMargin(chk_sdc, NamingSlot(nodes, s), m)

\* One command more: the margin last set is its own if it names the slot.
LEMMA LastMarginAfter ==
  ASSUME NEW C, NEW file \in Seq(C), NEW c \in C, NEW S, NEW m
  PROVE  LastMargin(Append(file, c), S, m) <=>
           IF c \in S THEN c.cmd = "set_data_check" /\ c.margin = m ELSE LastMargin(file, S, m)
<1> DEFINE t == Append(file, c)
<1>1. /\ DOMAIN t = 1 .. Len(file) + 1 /\ DOMAIN file = 1 .. Len(file) /\ Len(file) \in Nat
      /\ t[Len(file) + 1] = c /\ \A j \in DOMAIN file : t[j] = file[j]
  OBVIOUS
<1>2. \A k \in DOMAIN t : IsLast(t, S, k) <=> IF c \in S THEN k = Len(file) + 1 ELSE IsLast(file, S, k)
  BY LastAfter
<1>3. \A k : IsLast(file, S, k) => k \in DOMAIN file
  BY DEF IsLast
<1>4. CASE c \in S
  BY <1>1, <1>2, <1>4 DEF LastMargin
<1>5. CASE c \notin S
  <2>1. \A k \in DOMAIN t : IsLast(t, S, k) <=> IsLast(file, S, k)
    BY <1>2, <1>5
  <2>2. DOMAIN file \subseteq DOMAIN t
    BY <1>1
  <2> QED
    BY <1>1, <1>3, <1>5, <2>1, <2>2 DEF LastMargin
<1> QED
  BY <1>4, <1>5

\* A command that takes effect names one node at each end.
LEMMA EffectNodes ==
  ASSUME NEW c \in ChkCommands, Effect(c)
  PROVE  Chk!NodesOf(c) \in ChkNodes \X ChkNodes
<1>1. Chk!Given(c.from) /\ Chk!Given(c.to) /\ Chk!Single(c.from) /\ Chk!Single(c.to)
  BY DEF Effect, Chk!Skipped, Chk!Refused
<1>2. ASSUME NEW end \in {c.from, c.to}, Chk!NodeAt(end) # ChkNoNode
      PROVE  Chk!NodeAt(end) \in ChkNodes
  <2> DEFINE key == Chk!KeyOf(end)
  <2>1. key \in DOMAIN end
    BY <1>1, FrontEndAssumption DEF Chk!ConstantsOK, Chk!KeyOf, Chk!Given, Chk!Edges
  <2>2. \A n \in end[key] : ChkNodeOf[n] \in ChkNodes \cup {ChkNoNode}
    BY <2>1, FrontEndAssumption DEF Chk!ConstantsOK
  <2>3. end[key] # {}
    BY <1>1 DEF Chk!Single
  <2> QED
    BY <1>2, <2>2, <2>3 DEF Chk!NodeAt
<1> QED
  BY <1>1, <1>2 DEF Effect, Chk!Refused, Chk!NodesOf

\* An empty file has no data checks (data_check.rs:77).
LEMMA ChkInit == Chk!Init => ChkInv
<1> SUFFICES ASSUME Chk!Init PROVE ChkInv
  OBVIOUS
<1>1. chk_sdc = <<>> /\ checks = <<>>
  BY DEF Chk!Init
<1>2. \A nodes, s, m, S : ~Holds(checks, nodes, s, m) /\ ~LastMargin(chk_sdc, S, m)
  BY <1>1 DEF Holds, LastMargin
<1> QED
  BY <1>1, <1>2 DEF ChkInv

\* A command writes the slots it names.
LEMMA WrittenSlots ==
  ASSUME NEW c \in ChkCommands, Effect(c), NEW old \in [Chk!Slots -> Int \cup {Unset}]
  PROVE  /\ Chk!Written(c, old) \in [Chk!Slots -> Int \cup {Unset}]
         /\ \A s \in Chk!Slots, m \in Int :
              Chk!Written(c, old)[s] = m <=>
                IF s \in Chk!SlotsOf(c) THEN c.cmd = "set_data_check" /\ c.margin = m
                ELSE old[s] = m
<1>1. Unset \notin Int /\ c.margin \in Int \cup {Unset}
  BY FrontEndAssumption DEF Chk!ConstantsOK
<1> QED
  BY <1>1 DEF Chk!Written, Chk!MarginOf

\* What a command that takes effect does to the list of checks.
LEMMA ChecksAfter ==
  ASSUME ChkInv, NEW c \in ChkCommands, Chk!Apply(c), Effect(c)
  PROVE  /\ checks' \in Seq(CheckRecord)
         /\ \A i, j \in DOMAIN checks' : checks'[i].nodes = checks'[j].nodes => i = j
         /\ \A nodes \in ChkNodes \X ChkNodes, s \in Chk!Slots, m \in Int :
              Holds(checks', nodes, s, m) <=>
                IF Chk!NodesOf(c) = nodes /\ s \in Chk!SlotsOf(c)
                THEN c.cmd = "set_data_check" /\ c.margin = m
                ELSE Holds(checks, nodes, s, m)
<1> DEFINE N == Chk!NodesOf(c)
           at == Chk!PositionsOf(N)
<1>1. N \in ChkNodes \X ChkNodes
  BY EffectNodes
<1>2. checks \in Seq(CheckRecord) /\ \A i, j \in DOMAIN checks : checks[i].nodes = checks[j].nodes => i = j
  BY DEF ChkInv
<1>3. \A i \in DOMAIN checks : /\ checks[i] \in CheckRecord
                               /\ checks[i].margins \in [Chk!Slots -> Int \cup {Unset}]
  <2>1. \A i \in DOMAIN checks : checks[i] \in CheckRecord
    BY <1>2
  <2>2. \A d \in CheckRecord : d.margins \in [Chk!Slots -> Int \cup {Unset}]
    BY DEF CheckRecord
  <2> QED
    BY <2>1, <2>2
<1>4. at = {i \in DOMAIN checks : checks[i].nodes = N}
  BY DEF Chk!PositionsOf
<1>5. Unset \notin Int /\ c.margin \in Int \cup {Unset} /\ c.cmd \in {"set_data_check", "unset_data_check"}
  BY FrontEndAssumption DEF Chk!ConstantsOK
<1> HIDE DEF at, N
<1>6. CASE \E i \in at : checks' = [checks EXCEPT ![i].margins = Chk!Written(c, @)]
  <2>1. PICK i \in at : checks' = [checks EXCEPT ![i].margins = Chk!Written(c, @)]
    BY <1>6
  <2> DEFINE W == Chk!Written(c, checks[i].margins)
  <2>2. i \in DOMAIN checks /\ checks[i].nodes = N
    BY <1>4
  <2>3. checks' = [checks EXCEPT ![i] = [checks[i] EXCEPT !.margins = W]]
    BY <2>1
  <2>4. /\ W \in [Chk!Slots -> Int \cup {Unset}]
        /\ \A s \in Chk!Slots, m \in Int :
             W[s] = m <=> IF s \in Chk!SlotsOf(c) THEN c.cmd = "set_data_check" /\ c.margin = m
                          ELSE checks[i].margins[s] = m
    BY <1>3, <2>2, WrittenSlots
  <2> HIDE DEF W
  <2>5. [checks[i] EXCEPT !.margins = W] \in CheckRecord
    BY <1>3, <2>2, <2>4 DEF CheckRecord
  <2>6. checks' \in Seq(CheckRecord) /\ DOMAIN checks' = DOMAIN checks
    BY <1>2, <2>2, <2>3, <2>5
  <2>7. \A j \in DOMAIN checks :
          /\ checks'[j].nodes = checks[j].nodes
          /\ checks'[j].margins = IF j = i THEN W ELSE checks[j].margins
    <3> SUFFICES ASSUME NEW j \in DOMAIN checks
                 PROVE  /\ checks'[j].nodes = checks[j].nodes
                        /\ checks'[j].margins = IF j = i THEN W ELSE checks[j].margins
      OBVIOUS
    <3>1. checks'[j] = IF j = i THEN [checks[i] EXCEPT !.margins = W] ELSE checks[j]
      BY <1>2, <2>3
    <3> QED
      BY <1>3, <3>1 DEF CheckRecord
  <2>8. ASSUME NEW nodes \in ChkNodes \X ChkNodes, NEW s \in Chk!Slots, NEW m \in Int
        PROVE  Holds(checks', nodes, s, m) <=>
                 IF N = nodes /\ s \in Chk!SlotsOf(c)
                 THEN c.cmd = "set_data_check" /\ c.margin = m
                 ELSE Holds(checks, nodes, s, m)
    <3>1. CASE nodes = N
      <4>1. \A j \in DOMAIN checks : checks[j].nodes = N => j = i
        BY <1>2, <2>2
      <4>2. Holds(checks', nodes, s, m) <=> W[s] = m
        BY <2>2, <2>6, <2>7, <3>1, <4>1 DEF Holds
      <4>3. Holds(checks, nodes, s, m) <=> checks[i].margins[s] = m
        BY <2>2, <3>1, <4>1 DEF Holds
      <4> QED
        BY <2>4, <3>1, <4>2, <4>3
    <3>2. CASE nodes # N
      BY <2>2, <2>6, <2>7, <3>2 DEF Holds
    <3> QED
      BY <3>1, <3>2
  <2> QED
    BY <1>2, <2>6, <2>7, <2>8 DEF N
<1>7. CASE at = {} /\ c.cmd = "set_data_check" /\
           checks' = Append(checks, [nodes |-> N, written |-> <<c.from, c.to>>,
                                     margins |-> Chk!Written(c, Chk!NoMargins)])
  <2> DEFINE W == Chk!Written(c, Chk!NoMargins)
             d == [nodes |-> N, written |-> <<c.from, c.to>>, margins |-> W]
  <2>1. Chk!NoMargins \in [Chk!Slots -> Int \cup {Unset}]
    BY DEF Chk!NoMargins
  <2>2. /\ W \in [Chk!Slots -> Int \cup {Unset}]
        /\ \A s \in Chk!Slots, m \in Int :
             W[s] = m <=> IF s \in Chk!SlotsOf(c) THEN c.cmd = "set_data_check" /\ c.margin = m
                          ELSE Chk!NoMargins[s] = m
    BY <2>1, WrittenSlots
  <2>3. \A s \in Chk!Slots, m \in Int : Chk!NoMargins[s] # m
    BY <1>5 DEF Chk!NoMargins
  <2> HIDE DEF W
  <2>4. d \in CheckRecord /\ d.nodes = N /\ d.margins = W
    BY <1>1, <2>2 DEF CheckRecord
  <2> HIDE DEF d
  <2>5. checks' = Append(checks, d)
    BY <1>7 DEF d, W
  <2>6. /\ checks' \in Seq(CheckRecord) /\ DOMAIN checks' = DOMAIN checks \cup {Len(checks) + 1}
        /\ Len(checks) + 1 \notin DOMAIN checks
        /\ checks'[Len(checks) + 1] = d /\ \A j \in DOMAIN checks : checks'[j] = checks[j]
    BY <1>2, <2>4, <2>5
  <2>7. \A j \in DOMAIN checks : checks[j].nodes # N
    BY <1>4, <1>7
  <2>8. ASSUME NEW nodes \in ChkNodes \X ChkNodes, NEW s \in Chk!Slots, NEW m \in Int
        PROVE  Holds(checks', nodes, s, m) <=>
                 IF N = nodes /\ s \in Chk!SlotsOf(c)
                 THEN c.cmd = "set_data_check" /\ c.margin = m
                 ELSE Holds(checks, nodes, s, m)
    BY <2>2, <2>3, <2>4, <2>6, <2>7 DEF Holds
  <2> QED
    BY <1>2, <2>4, <2>6, <2>7, <2>8 DEF N
<1>8. CASE at = {} /\ c.cmd = "unset_data_check" /\ UNCHANGED checks
  <2>1. \A s, m : ~Holds(checks, N, s, m)
    BY <1>4, <1>8 DEF Holds
  <2> QED
    BY <1>2, <1>8, <2>1 DEF N
<1> QED
  BY <1>6, <1>7, <1>8 DEF Chk!Apply, Effect, at, N

\* Each command of the file keeps the margins at what was last set (data_check.rs:77).
LEMMA ChkStepInv == ChkInv /\ Chk!Next => ChkInv'
<1> SUFFICES ASSUME ChkInv, NEW c \in ChkCommands, Chk!Apply(c) PROVE ChkInv'
  BY DEF Chk!Next
<1> DEFINE t == Append(chk_sdc, c)
<1>1. chk_sdc \in Seq(ChkCommands) /\ chk_sdc' = t /\ t \in Seq(ChkCommands)
  BY DEF Chk!Apply, ChkInv
<1>2. ASSUME NEW S, NEW m
      PROVE  LastMargin(t, S, m) <=>
               IF c \in S THEN c.cmd = "set_data_check" /\ c.margin = m
               ELSE LastMargin(chk_sdc, S, m)
  BY <1>1, LastMarginAfter
<1> HIDE DEF t
<1>3. CASE ~Effect(c)
  <2>1. UNCHANGED checks
    BY <1>3 DEF Chk!Apply, Effect
  <2>2. \A nodes, s : c \notin NamingSlot(nodes, s)
    BY <1>3 DEF NamingSlot
  <2> QED
    BY <1>1, <1>2, <2>1, <2>2 DEF ChkInv
<1>4. CASE Effect(c)
  <2>1. \A nodes, s : c \in NamingSlot(nodes, s) <=>
                         Chk!NodesOf(c) = nodes /\ s \in Chk!SlotsOf(c)
    BY <1>4 DEF NamingSlot
  <2>2. ASSUME NEW nodes \in ChkNodes \X ChkNodes, NEW s \in Chk!Slots, NEW m \in Int
        PROVE  Holds(checks', nodes, s, m) <=> LastMargin(t, NamingSlot(nodes, s), m)
    BY <1>2, <1>4, <2>1, ChecksAfter DEF ChkInv
  <2> QED
    BY <1>1, <1>4, <2>2, ChecksAfter DEF ChkInv
<1> QED
  BY <1>3, <1>4

\* The state of the part only moves by its own steps.
LEMMA ChkSteps ==
  ASSUME [Next]_vars, reader' = "data_checks"
  PROVE  reader = "data_checks" /\ (Chk!Next \/ UNCHANGED ChkVars)
BY DEF Next, vars, DisStep, ChkStep, DelStep, ExcStep, LdStep, SiStep, CycStep, CmdStep, ScrStep

\* The invariant holds whenever the data checks are the part at work.
LEMMA ChkAlways == Spec => [](reader = "data_checks" => ChkInv)
<1>1. Init => (reader = "data_checks" => ChkInv)
  BY ChkInit DEF Init
<1>2. (reader = "data_checks" => ChkInv) /\ [Next]_vars => (reader = "data_checks" => ChkInv)'
  <2>1. SUFFICES ASSUME reader = "data_checks" => ChkInv, [Next]_vars, reader' = "data_checks"
                 PROVE  ChkInv'
    OBVIOUS
  <2>2. ChkInv /\ (Chk!Next \/ UNCHANGED ChkVars)
    BY <2>1, ChkSteps
  <2>3. CASE UNCHANGED ChkVars
    BY <2>2, <2>3 DEF ChkVars, ChkInv
  <2> QED
    BY <2>2, <2>3, ChkStepInv
<1> QED
  BY <1>1, <1>2, PTL DEF Spec

\* The margins in force between two pins are the one last set, if it is.
LEMMA ChkMargins == ChkInv => Chk!MarginsFollowFile
<1> SUFFICES ASSUME ChkInv PROVE Chk!MarginsFollowFile
  OBVIOUS
<1>1. /\ checks \in Seq(CheckRecord) /\ chk_sdc \in Seq(ChkCommands)
      /\ \A i, j \in DOMAIN checks : checks[i].nodes = checks[j].nodes => i = j
  BY DEF ChkInv
<1>2. \A d \in CheckRecord : d.margins \in [Chk!Slots -> Int \cup {Unset}]
  BY DEF CheckRecord
<1>3. \A d \in Chk!InForce : \E i \in DOMAIN checks : d = checks[i] /\ d \in CheckRecord
  BY <1>1 DEF Chk!InForce
<1>4. \A d, e \in Chk!InForce : d.nodes = e.nodes => d = e
  BY <1>1, <1>3
<1>5. ASSUME NEW nodes \in ChkNodes \X ChkNodes, NEW s \in Chk!Slots
      PROVE  LET K == Chk!Naming(nodes, s)
                 last == CHOOSE k \in K : \A j \in K : j <= k
             IN {d.margins[s] : d \in {e \in Chk!InForce : e.nodes = nodes}} \ {Unset} =
                  IF K = {} \/ chk_sdc[last].cmd = "unset_data_check" THEN {}
                  ELSE {chk_sdc[last].margin}
  <2> DEFINE K == Chk!Naming(nodes, s)
             last == CHOOSE k \in K : \A j \in K : j <= k
             S == NamingSlot(nodes, s)
             margins == {d.margins[s] : d \in {e \in Chk!InForce : e.nodes = nodes}} \ {Unset}
  <2>1. Unset \notin Int
    BY FrontEndAssumption DEF Chk!ConstantsOK
  <2>2. margins \subseteq Int /\ \A m \in Int : m \in margins <=> Holds(checks, nodes, s, m)
    <3>1. \A i \in DOMAIN checks : checks[i].margins[s] # Unset => checks[i] \in Chk!InForce
      BY DEF Chk!InForce
    <3>2. \A d \in Chk!InForce : d.margins[s] \in Int \cup {Unset}
      BY <1>2, <1>3
    <3>3. margins \subseteq Int
      BY <3>2
    <3>4. ASSUME NEW m \in Int
          PROVE  m \in margins <=> Holds(checks, nodes, s, m)
      BY <1>3, <2>1, <3>1 DEF Holds
    <3> QED
      BY <3>3, <3>4
  <2>3. \A k \in DOMAIN chk_sdc : k \in K <=> chk_sdc[k] \in S
    BY <1>1 DEF Chk!Naming, NamingSlot, Effect, Chk!SlotsOf, Chk!Slots
  <2>4. K \subseteq DOMAIN chk_sdc
    BY DEF Chk!Naming
  <2>5. \A k : IsLast(chk_sdc, S, k) <=> k \in K /\ \A j \in K : j <= k
    BY <2>3, <2>4 DEF IsLast
  <2>6. \A m \in Int : m \in margins <=> LastMargin(chk_sdc, S, m)
    BY <2>2 DEF ChkInv
  <2> HIDE DEF K, S, margins
  <2>7. CASE K = {}
    <3>1. margins = {}
      BY <2>2, <2>5, <2>6, <2>7 DEF LastMargin
    <3> QED
      BY <2>7, <3>1 DEF K, margins
  <2>8. CASE K # {}
    <3>1. \E k \in K : \A j \in K : j <= k
      <4>1. PICK i \in DOMAIN chk_sdc : chk_sdc[i] \in S
        BY <2>3, <2>4, <2>8
      <4>2. \E k \in DOMAIN chk_sdc : IsLast(chk_sdc, S, k)
        BY <1>1, <4>1, LastExists
      <4> QED
        BY <2>5, <4>2
    <3>2. last \in K /\ \A j \in K : j <= last
      BY <3>1
    <3>3. \A k \in K : (\A j \in K : j <= k) => k = last
      <4>1. K \subseteq Int
        BY <1>1, <2>4
      <4> HIDE DEF last
      <4> QED
        BY <3>2, <4>1
    <3> HIDE DEF last
    <3>4. last \in DOMAIN chk_sdc /\ chk_sdc[last] \in ChkCommands /\ chk_sdc[last] \in S
      BY <1>1, <2>3, <2>4, <3>2
    <3>5. \A m \in Int : LastMargin(chk_sdc, S, m) <=>
                           chk_sdc[last].cmd = "set_data_check" /\ chk_sdc[last].margin = m
      BY <2>5, <3>2, <3>3, <3>4 DEF LastMargin
    <3>6. /\ chk_sdc[last].cmd \in {"set_data_check", "unset_data_check"}
          /\ chk_sdc[last].cmd = "set_data_check" => chk_sdc[last].margin \in Int
      BY <3>4, FrontEndAssumption DEF Chk!ConstantsOK, S, NamingSlot, Effect, Chk!Refused
    <3>7. margins = IF chk_sdc[last].cmd = "unset_data_check" THEN {} ELSE {chk_sdc[last].margin}
      BY <2>2, <2>6, <3>5, <3>6
    <3> QED
      BY <2>8, <3>7 DEF K, margins, last
  <2> QED
    BY <2>7, <2>8
<1> QED
  BY <1>4, <1>5 DEF Chk!MarginsFollowFile

\* A data check's margin is that of the last command on its pins and slot, and there is
\* none when that command took it back, for every file (data_check.rs:77).
THEOREM MarginsFollow == Spec => []MarginsFollowFile
<1>1. (reader = "data_checks" => ChkInv) => MarginsFollowFile
  BY ChkMargins DEF MarginsFollowFile
<1> QED
  BY <1>1, ChkAlways, PTL

\* The margins of the checks F that bind an edge of a node, and the required times
\* and hold slacks they make.
BindingIn(F, side, to, edge, reached) ==
  {b \in F \X Chk!Edges :
     /\ b[1].nodes[2] = to /\ b[1].margins[<<side, b[2], edge>>] # Unset
     /\ reached[b[1].nodes[1]][b[2]] # Unset}
SetupTimes(F, to, edge) ==
  {ChkEarly[b[1].nodes[1]][b[2]] - ChkUncertainty.setup - b[1].margins[<<"setup", b[2], edge>>] :
     b \in BindingIn(F, "setup", to, edge, ChkEarly)}
HoldTimes(F, to, edge) ==
  {ChkEarly[to][edge] + ChkPeriod
     - (ChkLate[b[1].nodes[1]][b[2]] + ChkUncertainty.hold + b[1].margins[<<"hold", b[2], edge>>]) :
     b \in BindingIn(F, "hold", to, edge, ChkLate)}

\* Fewer times are no tighter.
Relaxes(old, new) == new # Unset => old # Unset /\ new >= old

\* The tightest of fewer times is no tighter.
LEMMA TightestRelaxes ==
  ASSUME NEW V \in SUBSET Int, IsFiniteSet(V), NEW W \in SUBSET V
  PROVE  Relaxes(Chk!Tightest(V), Chk!Tightest(W))
<1>1. CASE W = {}
  BY <1>1 DEF Relaxes, Chk!Tightest
<1>2. CASE W # {}
  <2>1. IsFiniteSet(W) /\ W \in SUBSET Int /\ V # {}
    BY <1>2, FS_Subset
  <2>2. Chk!Min(V) \in V /\ \A y \in V : Chk!Min(V) <= y
    BY <2>1, LeastOfFinite DEF Chk!Min
  <2>3. Chk!Min(W) \in W
    BY <1>2, <2>1, LeastOfFinite DEF Chk!Min
  <2>4. Chk!Min(V) # Unset /\ Chk!Min(W) >= Chk!Min(V)
    <3>1. Unset \notin Int
      BY FrontEndAssumption DEF Chk!ConstantsOK
    <3> QED
      BY <2>2, <2>3, <3>1
  <2> QED
    BY <1>2, <2>1, <2>4 DEF Relaxes, Chk!Tightest
<1> QED
  BY <1>1, <1>2

\* The times are whole numbers, finitely many.
LEMMA TimesFinite ==
  ASSUME ChkInv, NEW to \in ChkNodes, NEW edge \in Chk!Edges
  PROVE  /\ SetupTimes(Chk!InForce, to, edge) \in SUBSET Int
         /\ IsFiniteSet(SetupTimes(Chk!InForce, to, edge))
         /\ ChkEarly[to][edge] # Unset => HoldTimes(Chk!InForce, to, edge) \in SUBSET Int
         /\ IsFiniteSet(HoldTimes(Chk!InForce, to, edge))
<1> DEFINE F == Chk!InForce
<1>1. F \subseteq CheckRecord /\ IsFiniteSet(F)
  <2> DEFINE All == {checks[i] : i \in DOMAIN checks}
  <2>1. checks \in Seq(CheckRecord)
    BY DEF ChkInv
  <2>2. checks = [i \in DOMAIN checks |-> checks[i]]
    BY <2>1
  <2>3. IsFiniteSet(DOMAIN checks)
    BY <2>1, DomainFinite
  <2>4. IsFiniteSet(All)
    BY <2>2, <2>3, ImageFinite
  <2>5. F \in SUBSET All /\ All \subseteq CheckRecord
    BY <2>1 DEF Chk!InForce
  <2> HIDE DEF F, All
  <2> QED
    BY <2>4, <2>5, FS_Subset
<1> HIDE DEF F
<1>2. IsFiniteSet(F \X Chk!Edges)
  <2>1. IsFiniteSet({"rise", "fall"})
    <3>1. IsFiniteSet({"rise"})
      BY FS_Singleton
    <3>2. IsFiniteSet({"rise"} \cup {"fall"})
      BY <3>1, FS_AddElement
    <3>3. {"rise"} \cup {"fall"} = {"rise", "fall"}
      OBVIOUS
    <3> QED
      BY <3>2, <3>3
  <2> QED
    BY <1>1, <2>1, FS_Product DEF Chk!Edges
<1>3. \A side, reached : IsFiniteSet(BindingIn(F, side, to, edge, reached))
  <2>1. \A side, reached : BindingIn(F, side, to, edge, reached) \in SUBSET (F \X Chk!Edges)
    BY DEF BindingIn
  <2> QED
    BY <1>2, <2>1, FS_Subset
<1>4. ASSUME NEW side \in Chk!Sides, NEW reached \in [ChkNodes -> [Chk!Edges -> Int \cup {Unset}]],
             NEW b \in BindingIn(F, side, to, edge, reached)
      PROVE  reached[b[1].nodes[1]][b[2]] \in Int /\ b[1].margins[<<side, b[2], edge>>] \in Int
  <2>1. b[1] \in CheckRecord /\ b[2] \in Chk!Edges
    BY <1>1 DEF BindingIn
  <2>2. b[1].nodes[1] \in ChkNodes /\ b[1].margins \in [Chk!Slots -> Int \cup {Unset}]
    BY <2>1 DEF CheckRecord
  <2>3. <<side, b[2], edge>> \in Chk!Slots
    BY <2>1 DEF Chk!Slots
  <2>4. reached[b[1].nodes[1]][b[2]] # Unset /\ b[1].margins[<<side, b[2], edge>>] # Unset
    BY DEF BindingIn
  <2>5. reached[b[1].nodes[1]][b[2]] \in Int \cup {Unset}
    BY <2>1, <2>2
  <2>6. b[1].margins[<<side, b[2], edge>>] \in Int \cup {Unset}
    BY <2>2, <2>3
  <2> QED
    BY <2>4, <2>5, <2>6
<1>5. /\ ChkEarly \in [ChkNodes -> [Chk!Edges -> Int \cup {Unset}]]
      /\ ChkLate \in [ChkNodes -> [Chk!Edges -> Int \cup {Unset}]]
      /\ ChkPeriod \in Int /\ ChkUncertainty.setup \in Int /\ ChkUncertainty.hold \in Int
      /\ "setup" \in Chk!Sides /\ "hold" \in Chk!Sides
  BY FrontEndAssumption DEF Chk!ConstantsOK, Chk!Sides
<1>6. SetupTimes(F, to, edge) \in SUBSET Int /\ IsFiniteSet(SetupTimes(F, to, edge))
  <2> DEFINE B == BindingIn(F, "setup", to, edge, ChkEarly)
             f == [b \in B |-> ChkEarly[b[1].nodes[1]][b[2]] - ChkUncertainty.setup
                                 - b[1].margins[<<"setup", b[2], edge>>]]
  <2>1. \A b \in B : f[b] \in Int
    BY <1>4, <1>5
  <2>2. SetupTimes(F, to, edge) = {f[b] : b \in B}
    BY DEF SetupTimes
  <2>3. IsFiniteSet(B) /\ DOMAIN f = B /\ f = [b \in B |-> f[b]]
    BY <1>3
  <2> HIDE DEF B, f
  <2> QED
    BY <2>1, <2>2, <2>3, ImageFinite
<1>7. /\ ChkEarly[to][edge] # Unset => HoldTimes(F, to, edge) \in SUBSET Int
      /\ IsFiniteSet(HoldTimes(F, to, edge))
  <2> DEFINE B == BindingIn(F, "hold", to, edge, ChkLate)
             f == [b \in B |-> ChkEarly[to][edge] + ChkPeriod
                     - (ChkLate[b[1].nodes[1]][b[2]] + ChkUncertainty.hold
                          + b[1].margins[<<"hold", b[2], edge>>])]
  <2>1. ChkEarly[to][edge] \in Int \cup {Unset}
    BY <1>5
  <2>2. ChkEarly[to][edge] # Unset => \A b \in B : f[b] \in Int
    BY <1>4, <1>5, <2>1
  <2>3. HoldTimes(F, to, edge) = {f[b] : b \in B}
    BY DEF HoldTimes
  <2>4. IsFiniteSet(B) /\ DOMAIN f = B /\ f = [b \in B |-> f[b]]
    BY <1>3
  <2> HIDE DEF B, f
  <2> QED
    BY <2>2, <2>3, <2>4, ImageFinite
<1> QED
  BY <1>6, <1>7 DEF F

\* The times of fewer checks with fewer margins are among those there were.
LEMMA FewerTimes ==
  ASSUME NEW F, NEW G, NEW to, NEW edge,
         \A d \in G : \E e \in F :
           e.nodes = d.nodes /\ \A s \in Chk!Slots : d.margins[s] # Unset => e.margins[s] = d.margins[s],
         edge \in Chk!Edges
  PROVE  /\ SetupTimes(G, to, edge) \subseteq SetupTimes(F, to, edge)
         /\ HoldTimes(G, to, edge) \subseteq HoldTimes(F, to, edge)
<1>1. ASSUME NEW side \in Chk!Sides, NEW reached, NEW b \in BindingIn(G, side, to, edge, reached)
      PROVE  \E a \in BindingIn(F, side, to, edge, reached) :
               /\ a[1].nodes = b[1].nodes /\ a[2] = b[2]
               /\ a[1].margins[<<side, a[2], edge>>] = b[1].margins[<<side, b[2], edge>>]
  <2>1. b[1] \in G /\ b[2] \in Chk!Edges /\ b[1].margins[<<side, b[2], edge>>] # Unset
    BY DEF BindingIn
  <2>2. PICK e \in F : /\ e.nodes = b[1].nodes
                       /\ \A s \in Chk!Slots : b[1].margins[s] # Unset => e.margins[s] = b[1].margins[s]
    BY <2>1
  <2>3. <<side, b[2], edge>> \in Chk!Slots
    BY <2>1 DEF Chk!Slots
  <2>4. e.margins[<<side, b[2], edge>>] = b[1].margins[<<side, b[2], edge>>]
    BY <2>1, <2>2, <2>3
  <2>5. <<e, b[2]>> \in BindingIn(F, side, to, edge, reached)
    BY <2>1, <2>2, <2>4 DEF BindingIn
  <2> QED
    BY <2>2, <2>4, <2>5
<1>2. "setup" \in Chk!Sides /\ "hold" \in Chk!Sides
  BY DEF Chk!Sides
<1>3. ASSUME NEW v \in SetupTimes(G, to, edge)
      PROVE  v \in SetupTimes(F, to, edge)
  <2>1. PICK b \in BindingIn(G, "setup", to, edge, ChkEarly) :
          v = ChkEarly[b[1].nodes[1]][b[2]] - ChkUncertainty.setup - b[1].margins[<<"setup", b[2], edge>>]
    BY DEF SetupTimes
  <2>2. PICK a \in BindingIn(F, "setup", to, edge, ChkEarly) :
          /\ a[1].nodes = b[1].nodes /\ a[2] = b[2]
          /\ a[1].margins[<<"setup", a[2], edge>>] = b[1].margins[<<"setup", b[2], edge>>]
    BY <1>1, <1>2
  <2>3. v = ChkEarly[a[1].nodes[1]][a[2]] - ChkUncertainty.setup - a[1].margins[<<"setup", a[2], edge>>]
    BY <2>1, <2>2
  <2> QED
    BY <2>3 DEF SetupTimes
<1>4. ASSUME NEW v \in HoldTimes(G, to, edge)
      PROVE  v \in HoldTimes(F, to, edge)
  <2>1. PICK b \in BindingIn(G, "hold", to, edge, ChkLate) :
          v = ChkEarly[to][edge] + ChkPeriod
                - (ChkLate[b[1].nodes[1]][b[2]] + ChkUncertainty.hold + b[1].margins[<<"hold", b[2], edge>>])
    BY DEF HoldTimes
  <2>2. PICK a \in BindingIn(F, "hold", to, edge, ChkLate) :
          /\ a[1].nodes = b[1].nodes /\ a[2] = b[2]
          /\ a[1].margins[<<"hold", a[2], edge>>] = b[1].margins[<<"hold", b[2], edge>>]
    BY <1>1, <1>2
  <2>3. v = ChkEarly[to][edge] + ChkPeriod
              - (ChkLate[a[1].nodes[1]][a[2]] + ChkUncertainty.hold + a[1].margins[<<"hold", a[2], edge>>])
    BY <2>1, <2>2
  <2> QED
    BY <2>3 DEF HoldTimes
<1> QED
  BY <1>3, <1>4

\* An unset leaves every check as it was or takes margins of it.
LEMMA UnsetShrinks ==
  ASSUME ChkInv, NEW c \in ChkCommands, Chk!Apply(c), c.cmd = "unset_data_check"
  PROVE  \A d \in Chk!InForce' : \E e \in Chk!InForce :
           e.nodes = d.nodes /\ \A s \in Chk!Slots : d.margins[s] # Unset => e.margins[s] = d.margins[s]
<1>1. CASE UNCHANGED checks
  BY <1>1 DEF Chk!InForce
<1>2. CASE Effect(c) /\ \E i \in Chk!PositionsOf(Chk!NodesOf(c)) :
                         checks' = [checks EXCEPT ![i].margins = Chk!Written(c, @)]
  <2>1. PICK i \in DOMAIN checks : checks' = [checks EXCEPT ![i].margins = Chk!Written(c, @)]
    BY <1>2 DEF Chk!PositionsOf
  <2> DEFINE W == Chk!Written(c, checks[i].margins)
  <2>2. checks \in Seq(CheckRecord) /\ checks[i] \in CheckRecord
    BY DEF ChkInv
  <2>3. checks' = [checks EXCEPT ![i] = [checks[i] EXCEPT !.margins = W]]
    BY <2>1
  <2>4. \A s \in Chk!Slots : W[s] # Unset => W[s] = checks[i].margins[s]
    BY DEF Chk!Written, Chk!MarginOf
  <2> HIDE DEF W
  <2>5. DOMAIN checks' = DOMAIN checks
    BY <2>3
  <2>6. ASSUME NEW d \in Chk!InForce'
        PROVE  \E e \in Chk!InForce :
                 e.nodes = d.nodes /\ \A s \in Chk!Slots : d.margins[s] # Unset => e.margins[s] = d.margins[s]
    <3>1. PICK j \in DOMAIN checks, s \in Chk!Slots : d = checks'[j] /\ d.margins[s] # Unset
      BY <2>5 DEF Chk!InForce
    <3>2. checks'[j] = IF j = i THEN [checks[i] EXCEPT !.margins = W] ELSE checks[j]
      BY <2>2, <2>3
    <3>3. d.nodes = checks[j].nodes /\ d.margins = IF j = i THEN W ELSE checks[j].margins
      BY <2>2, <3>1, <3>2 DEF CheckRecord
    <3>4. \A r \in Chk!Slots : d.margins[r] # Unset => checks[j].margins[r] = d.margins[r]
      BY <2>4, <3>3
    <3>5. checks[j] \in Chk!InForce
      BY <3>1, <3>4 DEF Chk!InForce
    <3> QED
      BY <3>3, <3>4, <3>5
  <2> QED
    BY <2>6
<1> QED
  BY <1>1, <1>2 DEF Chk!Apply, Effect

\* An unset makes no required time earlier and no hold slack smaller.
LEMMA ChkRelaxes ==
  ASSUME ChkInv, ChkInv', NEW c \in ChkCommands, Chk!Apply(c)
  PROVE  Chk!UnsetRelaxes
<1>1. chk_sdc'[Len(chk_sdc')] = c
  BY DEF Chk!Apply, ChkInv
<1>2. SUFFICES ASSUME c.cmd = "unset_data_check", NEW to \in ChkNodes, NEW edge \in Chk!Edges
               PROVE  /\ Relaxes(Chk!SetupRequired(to, edge), Chk!SetupRequired(to, edge)')
                      /\ Relaxes(Chk!HoldSlack(to, edge), Chk!HoldSlack(to, edge)')
  BY <1>1 DEF Chk!UnsetRelaxes, Relaxes
<1> DEFINE F == Chk!InForce
           G == Chk!InForce'
<1>3. /\ SetupTimes(G, to, edge) \in SUBSET SetupTimes(F, to, edge)
      /\ HoldTimes(G, to, edge) \in SUBSET HoldTimes(F, to, edge)
  <2> HIDE DEF F, G
  <2>1. \A d \in G : \E e \in F :
           e.nodes = d.nodes /\ \A s \in Chk!Slots : d.margins[s] # Unset => e.margins[s] = d.margins[s]
    BY <1>2, UnsetShrinks DEF F, G
  <2> QED
    BY <2>1, FewerTimes
<1>4. /\ Chk!SetupRequired(to, edge) = Chk!Tightest(SetupTimes(F, to, edge))
      /\ Chk!SetupRequired(to, edge)' = Chk!Tightest(SetupTimes(G, to, edge))
  BY DEF Chk!SetupRequired, SetupTimes, BindingIn, Chk!Binding
<1>5. Relaxes(Chk!SetupRequired(to, edge), Chk!SetupRequired(to, edge)')
  <2>1. SetupTimes(F, to, edge) \in SUBSET Int /\ IsFiniteSet(SetupTimes(F, to, edge))
    BY TimesFinite
  <2> HIDE DEF F, G
  <2> QED
    BY <1>3, <1>4, <2>1, TightestRelaxes
<1>6. CASE ChkEarly[to][edge] = Unset \/ to \in ChkRegisterPins
  BY <1>5, <1>6 DEF Chk!HoldSlack, Relaxes
<1>7. CASE ~(ChkEarly[to][edge] = Unset \/ to \in ChkRegisterPins)
  <2>1. /\ Chk!HoldSlack(to, edge) = Chk!Tightest(HoldTimes(F, to, edge))
        /\ Chk!HoldSlack(to, edge)' = Chk!Tightest(HoldTimes(G, to, edge))
    BY <1>7 DEF Chk!HoldSlack, HoldTimes, BindingIn, Chk!Binding
  <2>2. HoldTimes(F, to, edge) \in SUBSET Int /\ IsFiniteSet(HoldTimes(F, to, edge))
    BY <1>7, TimesFinite
  <2> HIDE DEF F, G
  <2> QED
    BY <1>3, <1>5, <2>1, <2>2, TightestRelaxes
<1> QED
  BY <1>5, <1>6, <1>7

\* Taking a data check back makes no required time earlier and no hold slack smaller
\* (data_check.rs:117).
THEOREM UnsetsRelax == Spec => UnsetsOnlyRelax
<1>1. /\ reader = "data_checks" => ChkInv
      /\ [Next]_vars
      => [reader = "data_checks" => Chk!UnsetRelaxes]_ChkVars
  <2>1. SUFFICES ASSUME reader = "data_checks", ChkInv, [Next]_vars, ~UNCHANGED ChkVars
                 PROVE  Chk!UnsetRelaxes
    OBVIOUS
  <2>2. Chk!Next
    BY <2>1 DEF Next, vars, DisStep, ChkStep, DelStep, ExcStep, LdStep, SiStep, CycStep, CmdStep, ScrStep
  <2> QED
    BY <2>1, <2>2, ChkStepInv, ChkRelaxes DEF Chk!Next
<1> QED
  BY <1>1, ChkAlways, PTL DEF Spec, UnsetsOnlyRelax

-----------------------------------------------------------------------------
(* Port delays: the values in force                                        *)

\* A command gives a port a delay; in a slot of its object on an edge; and takes away
\* its object on another edge.
Delays(c, p) == c.cmd = "set_io_delay" /\ Del!Named(c, p)
Sets(c, p, e, s) == Delays(c, p) /\ c.edge = e /\ s \in Del!SlotsOf(c)
Clears(c, p, e) == Delays(c, p) /\ ~c.add /\ c.edge # e

\* The positions of a file still in force for a slot, and their values.
InForceIn(file, p, e, s) ==
  {k \in DOMAIN file :
     /\ Sets(file[k], p, e, s)
     /\ \A j \in DOMAIN file : Clears(file[j], p, e) => j < k
     /\ \A j \in DOMAIN file : Sets(file[j], p, e, s) /\ ~file[j].add => j <= k}
ValuesIn(file, p, e, s) == {file[k].value[s] : k \in InForceIn(file, p, e, s)}

\* What a port's objects hold in a slot on an edge.
Held(objects, e, s) == IF e \in DOMAIN objects THEN objects[e][s] ELSE Unset

\* The largest of the values of a max slot, the smallest of a min slot; or nothing.
Extreme(h, V, s) ==
  IF V = {} THEN h = Unset ELSE h \in V /\ \A v \in V : IF s[1] = "max" THEN h >= v ELSE h <= v

\* The commands that put a transition in a slot of a port.
Hitting(p, s) ==
  {c \in DelCommands : c.cmd = "set_input_transition" /\ Del!Hit(c, p) /\ s \in Del!SlotsOf(c)}

DelTypes ==
  /\ del_sdc \in Seq(DelCommands)
  /\ \A p \in DelPorts :
       /\ DOMAIN delays[p] \subseteq DelEdges /\ IsFiniteSet(DOMAIN delays[p])
       /\ \A e \in DOMAIN delays[p] : delays[p][e] \in [Del!Slots -> Del!Values]
  /\ slew \in [DelPorts -> [Del!Slots -> Int]]

DelInv ==
  /\ DelTypes
  /\ \A p \in DelPorts, e \in DelEdges, s \in Del!Slots :
       Extreme(Held(delays[p], e, s), ValuesIn(del_sdc, p, e, s), s)
  /\ \A p \in DelPorts, s \in Del!Slots :
       /\ \A k \in DOMAIN del_sdc : IsLast(del_sdc, Hitting(p, s), k) => slew[p][s] = del_sdc[k].value
       /\ (\A k \in DOMAIN del_sdc : del_sdc[k] \notin Hitting(p, s)) => slew[p][s] = DelDefaultSlew

\* An empty file leaves every port at its defaults (resolve_port_delays, job.rs:107).
LEMMA DelInit == Del!Init => DelInv
<1> SUFFICES ASSUME Del!Init PROVE DelInv
  OBVIOUS
<1>1. del_sdc = <<>> /\ \A p \in DelPorts : DOMAIN delays[p] = {}
  BY DEF Del!Init, Del!NoDelays
<1>2. DelTypes
  BY <1>1, FS_EmptySet, FrontEndAssumption DEF DelTypes, Del!Init, Del!ConstantsOK
<1>3. \A p, e, s : ValuesIn(del_sdc, p, e, s) = {}
  BY <1>1 DEF ValuesIn, InForceIn
<1>4. \A p \in DelPorts : \A e, s : Held(delays[p], e, s) = Unset
  BY <1>1 DEF Held
<1> QED
  BY <1>1, <1>2, <1>3, <1>4 DEF DelInv, Extreme, Del!Init

\* A command that clears leaves nothing in force; one that replaces, itself; one that
\* adds, itself besides.
LEMMA InForceAfter ==
  ASSUME NEW file \in Seq(DelCommands), NEW c \in DelCommands, NEW p, NEW e, NEW s
  PROVE  ValuesIn(Append(file, c), p, e, s) =
           IF Clears(c, p, e) THEN {}
           ELSE IF ~Sets(c, p, e, s) THEN ValuesIn(file, p, e, s)
           ELSE IF c.add THEN ValuesIn(file, p, e, s) \cup {c.value[s]} ELSE {c.value[s]}
<1> DEFINE t == Append(file, c)
           n == Len(file) + 1
           I == InForceIn(file, p, e, s)
<1>1. /\ DOMAIN t = DOMAIN file \cup {n} /\ DOMAIN file = 1 .. Len(file) /\ Len(file) \in Nat
      /\ t[n] = c /\ \A j \in DOMAIN file : t[j] = file[j]
  OBVIOUS
<1>2. \A j \in DOMAIN file : j \in Int /\ j < n /\ ~(n <= j)
  BY <1>1
<1>3. n \in Int /\ ~(n < n) /\ n <= n
  BY <1>1
<1> HIDE DEF t, n
<1>4. Clears(c, p, e) => ~Sets(c, p, e, s)
  BY DEF Clears, Sets
<1>5. InForceIn(t, p, e, s) =
        IF Clears(c, p, e) THEN {}
        ELSE IF ~Sets(c, p, e, s) THEN I ELSE IF c.add THEN I \cup {n} ELSE {n}
  <2>1. CASE Clears(c, p, e)
    <3>1. \A k \in DOMAIN t : ~(n < k)
      BY <1>1, <1>2, <1>3
    <3> QED
      BY <1>1, <2>1, <3>1 DEF InForceIn
  <2>2. CASE ~Clears(c, p, e) /\ ~Sets(c, p, e, s)
    BY <1>1, <1>2, <1>3, <2>2 DEF InForceIn
  <2>3. CASE Sets(c, p, e, s) /\ c.add
    BY <1>1, <1>2, <1>3, <1>4, <2>3 DEF InForceIn
  <2>4. CASE Sets(c, p, e, s) /\ ~c.add
    BY <1>1, <1>2, <1>3, <1>4, <2>4 DEF InForceIn
  <2> QED
    BY <1>4, <2>1, <2>2, <2>3, <2>4
<1>6. \A k \in I : t[k] = file[k]
  BY <1>1 DEF InForceIn
<1>7. ValuesIn(t, p, e, s) = {t[k].value[s] : k \in InForceIn(t, p, e, s)}
  BY DEF ValuesIn
<1>8. ValuesIn(file, p, e, s) = {t[k].value[s] : k \in I}
  BY <1>6 DEF ValuesIn
<1> HIDE DEF I
<1>9. ValuesIn(t, p, e, s) =
           IF Clears(c, p, e) THEN {}
           ELSE IF ~Sets(c, p, e, s) THEN ValuesIn(file, p, e, s)
           ELSE IF c.add THEN ValuesIn(file, p, e, s) \cup {c.value[s]} ELSE {c.value[s]}
  BY <1>1, <1>4, <1>5, <1>7, <1>8
<1> QED
  BY <1>9 DEF t

\* The extreme of two numbers is the larger or the smaller.
LEMMA ExtremeOfTwo ==
  ASSUME NEW a \in Int, NEW b \in Int
  PROVE  /\ Del!Max({a, b}) = IF a >= b THEN a ELSE b
         /\ Del!Min({a, b}) = IF a <= b THEN a ELSE b
BY DEF Del!Max, Del!Min

\* What a command leaves in a slot of a port it names.
LEMMA HeldAfter ==
  ASSUME NEW c \in DelCommands, c.cmd = "set_io_delay", NEW objects, NEW e \in DelEdges, NEW s \in Del!Slots
  PROVE  Held(Del!SetDelay(c, objects), e, s) =
           IF e # c.edge THEN IF c.add THEN Held(objects, e, s) ELSE Unset
           ELSE IF s \in Del!SlotsOf(c) THEN Del!Merge(c, s, Held(objects, e, s))
           ELSE Held(objects, e, s)
<1>1. \A r \in Del!Slots : Del!NoSlots[r] = Unset
  BY DEF Del!NoSlots
<1>2. CASE e # c.edge
  BY <1>2 DEF Held, Del!SetDelay, Del!Retained
<1>3. CASE e = c.edge
  <2> DEFINE old == IF c.edge \in DOMAIN objects THEN objects[c.edge] ELSE Del!NoSlots
             new == [r \in Del!Slots |-> IF r \in Del!SlotsOf(c) THEN Del!Merge(c, r, old[r]) ELSE old[r]]
  <2>1. e \in DOMAIN Del!SetDelay(c, objects) /\ Del!SetDelay(c, objects)[e] = new
    BY <1>3 DEF Del!SetDelay
  <2>2. old[s] = Held(objects, e, s)
    BY <1>1, <1>3 DEF Held
  <2>3. new[s] = IF s \in Del!SlotsOf(c) THEN Del!Merge(c, s, old[s]) ELSE old[s]
    OBVIOUS
  <2> HIDE DEF old, new
  <2> QED
    BY <1>3, <2>1, <2>2, <2>3 DEF Held
<1> QED
  BY <1>2, <1>3

\* A value put in a slot that holds the extreme of the others.
LEMMA MergeExtreme ==
  ASSUME NEW c \in DelCommands, c.cmd = "set_io_delay", NEW s \in Del!Slots, NEW h,
         NEW V \in SUBSET Int, Extreme(h, V, s)
  PROVE  Extreme(Del!Merge(c, s, h), IF c.add THEN V \cup {c.value[s]} ELSE {c.value[s]}, s)
<1>1. c.value[s] \in Int /\ Unset \notin Int /\ c.add \in BOOLEAN
  BY FrontEndAssumption DEF Del!ConstantsOK
<1>2. CASE V = {} \/ ~c.add
  BY <1>1, <1>2 DEF Extreme, Del!Merge
<1>3. CASE V # {} /\ c.add
  <2>1. h \in V /\ h \in Int /\ h # Unset /\ \A v \in V : IF s[1] = "max" THEN h >= v ELSE h <= v
    BY <1>1, <1>3 DEF Extreme
  <2>2. \A v \in V : v \in Int
    OBVIOUS
  <2> DEFINE m == Del!Merge(c, s, h)
  <2>3. m = IF s[1] = "max" THEN IF h >= c.value[s] THEN h ELSE c.value[s]
            ELSE IF h <= c.value[s] THEN h ELSE c.value[s]
    BY <1>1, <1>3, <2>1, ExtremeOfTwo DEF Del!Merge
  <2> HIDE DEF m
  <2>4. CASE s[1] = "max"
    BY <1>1, <1>3, <2>1, <2>2, <2>3, <2>4 DEF Extreme, m
  <2>5. CASE s[1] # "max"
    BY <1>1, <1>3, <2>1, <2>2, <2>3, <2>5 DEF Extreme, m
  <2> QED
    BY <2>4, <2>5
<1> QED
  BY <1>2, <1>3

\* The values in force are numbers.
LEMMA ValuesAreNumbers ==
  ASSUME NEW file \in Seq(DelCommands), NEW p, NEW e, NEW s \in Del!Slots
  PROVE  ValuesIn(file, p, e, s) \in SUBSET Int
<1> SUFFICES ASSUME NEW k \in InForceIn(file, p, e, s) PROVE file[k].value[s] \in Int
  BY DEF ValuesIn
<1>1. file[k] \in DelCommands /\ file[k].cmd = "set_io_delay"
  BY DEF InForceIn, Sets, Delays
<1> QED
  BY <1>1, FrontEndAssumption DEF Del!ConstantsOK

-----------------------------------------------------------------------------
(* Every command keeps the invariant                                       *)

\* The objects of a port after a delay command are typed.
LEMMA SetDelayTyped ==
  ASSUME NEW c \in DelCommands, c.cmd = "set_io_delay", NEW objects,
         DOMAIN objects \subseteq DelEdges, IsFiniteSet(DOMAIN objects),
         \A e \in DOMAIN objects : objects[e] \in [Del!Slots -> Del!Values]
  PROVE  LET now == Del!SetDelay(c, objects)
         IN /\ DOMAIN now \subseteq DelEdges /\ IsFiniteSet(DOMAIN now)
            /\ \A e \in DOMAIN now : now[e] \in [Del!Slots -> Del!Values]
<1>1. /\ c.edge \in DelEdges /\ Unset \notin Int
      /\ \A s \in Del!Slots : c.value[s] \in Int
  BY FrontEndAssumption DEF Del!ConstantsOK
<1> DEFINE now == Del!SetDelay(c, objects)
           old == IF c.edge \in DOMAIN objects THEN objects[c.edge] ELSE Del!NoSlots
           new == [s \in Del!Slots |-> IF s \in Del!SlotsOf(c) THEN Del!Merge(c, s, old[s]) ELSE old[s]]
<1>2. /\ DOMAIN now = Del!Retained(c, objects) \cup {c.edge}
      /\ \A e \in DOMAIN now : now[e] = IF e = c.edge THEN new ELSE objects[e]
  BY DEF Del!SetDelay
<1>3. Del!Retained(c, objects) \in SUBSET DOMAIN objects
  BY DEF Del!Retained
<1>4. IsFiniteSet(DOMAIN now)
  <2>1. IsFiniteSet(Del!Retained(c, objects))
    BY <1>3, FS_Subset
  <2> QED
    BY <1>2, <2>1, FS_AddElement, SMTT(40)
<1>5. old \in [Del!Slots -> Del!Values]
  BY DEF Del!NoSlots, Del!Values
<1>6. new \in [Del!Slots -> Del!Values]
  <2>1. ASSUME NEW s \in Del!Slots, NEW h \in Del!Values
        PROVE  Del!Merge(c, s, h) \in Del!Values
    <3>1. CASE h = Unset \/ ~c.add
      BY <1>1, <3>1 DEF Del!Merge, Del!Values
    <3>2. CASE h # Unset /\ c.add
      <4>1. h \in Int /\ c.value[s] \in Int
        BY <1>1, <3>2 DEF Del!Values
      <4>2. Del!Max({h, c.value[s]}) \in Int /\ Del!Min({h, c.value[s]}) \in Int
        BY <4>1, ExtremeOfTwo
      <4> QED
        BY <3>2, <4>2 DEF Del!Merge, Del!Values
    <3> QED
      BY <3>1, <3>2
  <2> HIDE DEF old
  <2> QED
    BY <1>5, <2>1
<1> HIDE DEF now, new
<1> QED
  BY <1>1, <1>2, <1>3, <1>4, <1>6 DEF now

\* A delay command keeps every slot at the extreme of what is in force for it.
LEMMA DelayKeepsSlots ==
  ASSUME DelInv, NEW c \in DelCommands, del_sdc' = Append(del_sdc, c), Del!ApplyDelay(c)
  PROVE  \A p \in DelPorts, e \in DelEdges, s \in Del!Slots :
           Extreme(Held(delays'[p], e, s), ValuesIn(del_sdc', p, e, s), s)
<1> SUFFICES ASSUME NEW p \in DelPorts, NEW e \in DelEdges, NEW s \in Del!Slots
             PROVE  Extreme(Held(delays'[p], e, s), ValuesIn(del_sdc', p, e, s), s)
  OBVIOUS
<1> DEFINE h == Held(delays[p], e, s)
           V == ValuesIn(del_sdc, p, e, s)
           V1 == ValuesIn(del_sdc', p, e, s)
<1>1. c.cmd = "set_io_delay" /\ del_sdc \in Seq(DelCommands)
  BY DEF Del!ApplyDelay, DelInv, DelTypes
<1>2. Extreme(h, V, s) /\ V \in SUBSET Int
  BY <1>1, ValuesAreNumbers DEF DelInv
<1>3. V1 = IF Clears(c, p, e) THEN {}
           ELSE IF ~Sets(c, p, e, s) THEN V
           ELSE IF c.add THEN V \cup {c.value[s]} ELSE {c.value[s]}
  BY <1>1, InForceAfter
<1>4. delays'[p] = IF Del!Named(c, p) THEN Del!SetDelay(c, delays[p]) ELSE delays[p]
  BY DEF Del!ApplyDelay
<1>5. Held(Del!SetDelay(c, delays[p]), e, s) =
        IF e # c.edge THEN IF c.add THEN h ELSE Unset
        ELSE IF s \in Del!SlotsOf(c) THEN Del!Merge(c, s, h) ELSE h
  BY <1>1, HeldAfter
<1>6. Extreme(Del!Merge(c, s, h), IF c.add THEN V \cup {c.value[s]} ELSE {c.value[s]}, s)
  BY <1>1, <1>2, MergeExtreme
<1>7. Extreme(Unset, {}, s)
  BY DEF Extreme
<1>8. CASE ~Del!Named(c, p)
  BY <1>2, <1>3, <1>4, <1>8 DEF Clears, Sets, Delays
<1>9. CASE Del!Named(c, p) /\ e # c.edge
  <2>1. Held(delays'[p], e, s) = IF c.add THEN h ELSE Unset
    BY <1>4, <1>5, <1>9
  <2>2. V1 = IF c.add THEN V ELSE {}
    BY <1>1, <1>3, <1>9 DEF Clears, Sets, Delays
  <2> HIDE DEF h, V, V1
  <2> QED
    BY <1>2, <1>7, <2>1, <2>2 DEF V1
<1>10. CASE Del!Named(c, p) /\ e = c.edge
  <2>1. Held(delays'[p], e, s) = IF s \in Del!SlotsOf(c) THEN Del!Merge(c, s, h) ELSE h
    BY <1>4, <1>5, <1>10
  <2>2. V1 = IF s \in Del!SlotsOf(c) THEN IF c.add THEN V \cup {c.value[s]} ELSE {c.value[s]} ELSE V
    BY <1>1, <1>3, <1>10 DEF Clears, Sets, Delays
  <2> HIDE DEF h, V, V1
  <2> QED
    BY <1>2, <1>6, <2>1, <2>2 DEF V1
<1> QED
  BY <1>8, <1>9, <1>10

\* A transition command keeps every transition at the last that hit it.
LEMMA TransitionsKept ==
  ASSUME DelInv, NEW c \in DelCommands, del_sdc' = Append(del_sdc, c),
         NEW p \in DelPorts, NEW s \in Del!Slots,
         slew'[p][s] = IF c \in Hitting(p, s) THEN c.value ELSE slew[p][s]
  PROVE  /\ \A k \in DOMAIN del_sdc' :
              IsLast(del_sdc', Hitting(p, s), k) => slew'[p][s] = del_sdc'[k].value
         /\ (\A k \in DOMAIN del_sdc' : del_sdc'[k] \notin Hitting(p, s)) => slew'[p][s] = DelDefaultSlew
<1> DEFINE t == Append(del_sdc, c)
           n == Len(del_sdc) + 1
           H == Hitting(p, s)
<1>1. del_sdc \in Seq(DelCommands)
  BY DEF DelInv, DelTypes
<1>2. /\ DOMAIN t = 1 .. Len(del_sdc) + 1 /\ DOMAIN del_sdc = 1 .. Len(del_sdc) /\ Len(del_sdc) \in Nat
      /\ t[n] = c /\ \A j \in DOMAIN del_sdc : t[j] = del_sdc[j]
  BY <1>1
<1>3. n \in DOMAIN t /\ DOMAIN del_sdc \subseteq DOMAIN t
  BY <1>2
<1>4. \A k : IsLast(t, H, k) <=> IF c \in H THEN k = n ELSE IsLast(del_sdc, H, k)
  BY <1>1, LastAfter
<1>5. /\ \A k \in DOMAIN del_sdc : IsLast(del_sdc, H, k) => slew[p][s] = del_sdc[k].value
      /\ (\A k \in DOMAIN del_sdc : del_sdc[k] \notin H) => slew[p][s] = DelDefaultSlew
  BY DEF DelInv
<1>6. \A k : IsLast(del_sdc, H, k) => k \in DOMAIN del_sdc
  BY DEF IsLast
<1> HIDE DEF H, t, n
<1>7. CASE c \in H
  BY <1>2, <1>3, <1>4, <1>7 DEF H, t
<1>8. CASE c \notin H
  <2>1. \A k \in DOMAIN t : IsLast(t, H, k) => slew'[p][s] = t[k].value
    BY <1>2, <1>4, <1>5, <1>6, <1>8 DEF H
  <2>2. (\A k \in DOMAIN t : t[k] \notin H) => slew'[p][s] = DelDefaultSlew
    BY <1>2, <1>3, <1>5, <1>8 DEF H
  <2> QED
    BY <2>1, <2>2 DEF t, H
<1> QED
  BY <1>7, <1>8

\* A port's own step: a delay leaves the transitions, a transition the delays.
LEMMA DelStepInv == DelInv /\ Del!Next => DelInv'
<1> SUFFICES ASSUME DelInv, NEW c \in DelCommands, Del!Apply(c) PROVE DelInv'
  BY DEF Del!Next
<1>1. del_sdc' = Append(del_sdc, c) /\ del_sdc' \in Seq(DelCommands) /\ del_sdc \in Seq(DelCommands)
  BY DEF Del!Apply, DelInv, DelTypes
<1>2. CASE Del!ApplyDelay(c)
  <2>1. /\ c.cmd = "set_io_delay" /\ slew' = slew
        /\ \A p \in DelPorts :
             delays'[p] = IF Del!Named(c, p) THEN Del!SetDelay(c, delays[p]) ELSE delays[p]
    BY <1>2 DEF Del!ApplyDelay
  <2>2. ASSUME NEW p \in DelPorts
        PROVE  /\ DOMAIN delays'[p] \subseteq DelEdges /\ IsFiniteSet(DOMAIN delays'[p])
               /\ \A e \in DOMAIN delays'[p] : delays'[p][e] \in [Del!Slots -> Del!Values]
    <3>1. /\ DOMAIN delays[p] \subseteq DelEdges /\ IsFiniteSet(DOMAIN delays[p])
          /\ \A e \in DOMAIN delays[p] : delays[p][e] \in [Del!Slots -> Del!Values]
      BY DEF DelInv, DelTypes
    <3>2. CASE Del!Named(c, p)
      BY <2>1, <3>1, <3>2, SetDelayTyped
    <3>3. CASE ~Del!Named(c, p)
      BY <2>1, <3>1, <3>3
    <3> QED
      BY <3>2, <3>3
  <2>3. \A p \in DelPorts, e \in DelEdges, s \in Del!Slots :
          Extreme(Held(delays'[p], e, s), ValuesIn(del_sdc', p, e, s), s)
    BY <1>1, <1>2, DelayKeepsSlots
  <2>4. \A p \in DelPorts, s \in Del!Slots : c \notin Hitting(p, s)
    BY <2>1 DEF Hitting
  <2>5. \A p \in DelPorts, s \in Del!Slots :
          /\ \A k \in DOMAIN del_sdc' :
               IsLast(del_sdc', Hitting(p, s), k) => slew'[p][s] = del_sdc'[k].value
          /\ (\A k \in DOMAIN del_sdc' : del_sdc'[k] \notin Hitting(p, s)) => slew'[p][s] = DelDefaultSlew
    BY <1>1, <2>1, <2>4, TransitionsKept
  <2>6. slew' \in [DelPorts -> [Del!Slots -> Int]]
    BY <2>1 DEF DelInv, DelTypes
  <2> QED
    BY <1>1, <2>2, <2>3, <2>5, <2>6 DEF DelInv, DelTypes
<1>3. CASE Del!ApplyTransition(c)
  <2>1. c.cmd = "set_input_transition" /\ delays' = delays
    BY <1>3 DEF Del!ApplyTransition
  <2>2. ASSUME NEW p \in DelPorts, NEW s \in Del!Slots
        PROVE  slew'[p][s] = IF c \in Hitting(p, s) THEN c.value ELSE slew[p][s]
    BY <1>3, <2>1 DEF Del!ApplyTransition, Hitting
  <2>3. \A p \in DelPorts, s \in Del!Slots :
          /\ \A k \in DOMAIN del_sdc' :
               IsLast(del_sdc', Hitting(p, s), k) => slew'[p][s] = del_sdc'[k].value
          /\ (\A k \in DOMAIN del_sdc' : del_sdc'[k] \notin Hitting(p, s)) => slew'[p][s] = DelDefaultSlew
    BY <1>1, <2>2, TransitionsKept
  <2>4. slew' \in [DelPorts -> [Del!Slots -> Int]]
    <3>1. c.value \in Int
      BY <2>1, FrontEndAssumption DEF Del!ConstantsOK
    <3>2. slew \in [DelPorts -> [Del!Slots -> Int]]
      BY DEF DelInv, DelTypes
    <3> QED
      BY <1>3, <3>1, <3>2 DEF Del!ApplyTransition
  <2>5. \A p, e, s : ~Clears(c, p, e) /\ ~Sets(c, p, e, s)
    BY <2>1 DEF Clears, Sets, Delays
  <2>6. \A p \in DelPorts, e \in DelEdges, s \in Del!Slots :
          ValuesIn(del_sdc', p, e, s) = ValuesIn(del_sdc, p, e, s)
    BY <1>1, <2>5, InForceAfter
  <2> QED
    BY <1>1, <2>1, <2>3, <2>4, <2>6 DEF DelInv, DelTypes
<1> QED
  BY <1>2, <1>3 DEF Del!Apply

\* The ports' state only moves by the ports' own steps.
LEMMA DelSteps ==
  ASSUME [Next]_vars, reader' = "port_delays"
  PROVE  reader = "port_delays" /\ (Del!Next \/ UNCHANGED DelVars)
BY DEF Next, vars, DisStep, ChkStep, DelStep, ExcStep, LdStep, SiStep, CycStep, CmdStep, ScrStep

\* The invariant holds whenever the port delays are the part at work.
LEMMA DelAlways == Spec => [](reader = "port_delays" => DelInv)
<1>1. Init => (reader = "port_delays" => DelInv)
  BY DelInit DEF Init
<1>2. (reader = "port_delays" => DelInv) /\ [Next]_vars => (reader = "port_delays" => DelInv)'
  <2>1. SUFFICES ASSUME reader = "port_delays" => DelInv, [Next]_vars, reader' = "port_delays"
                 PROVE  DelInv'
    OBVIOUS
  <2>2. DelInv /\ (Del!Next \/ UNCHANGED DelVars)
    BY <2>1, DelSteps
  <2>3. CASE UNCHANGED DelVars
    BY <2>2, <2>3 DEF DelVars, DelInv, DelTypes
  <2> QED
    BY <2>2, <2>3, DelStepInv
<1> QED
  BY <1>1, <1>2, PTL DEF Spec

-----------------------------------------------------------------------------
(* What the invariant says in the file's own terms                         *)

\* The extreme of some numbers is their Max or their Min.
LEMMA ExtremeIs ==
  ASSUME NEW V \in SUBSET Int, V # {}, NEW h, NEW s, Extreme(h, V, s)
  PROVE  h = IF s[1] = "max" THEN Del!Max(V) ELSE Del!Min(V)
<1>1. h \in V /\ h \in Int
  BY DEF Extreme
<1>2. CASE s[1] = "max"
  <2>1. \A v \in V : h >= v
    BY <1>2 DEF Extreme
  <2>2. \A x \in V : (\A v \in V : x >= v) => x = h
    BY <1>1, <2>1
  <2>3. Del!Max(V) = h
    BY <1>1, <2>1, <2>2 DEF Del!Max
  <2> QED
    BY <1>2, <2>3
<1>3. CASE s[1] # "max"
  <2>1. \A v \in V : h <= v
    BY <1>3 DEF Extreme
  <2>2. \A x \in V : (\A v \in V : x <= v) => x = h
    BY <1>1, <2>1
  <2>3. Del!Min(V) = h
    BY <1>1, <2>1, <2>2 DEF Del!Min
  <2> QED
    BY <1>3, <2>3
<1> QED
  BY <1>2, <1>3

\* The positions in force are those SlotsFollowFile speaks of.
LEMMA InForceIs ==
  ASSUME DelInv, NEW p, NEW e, NEW s
  PROVE  Del!InForce(p, e, s) = InForceIn(del_sdc, p, e, s)
<1>1. \A k \in DOMAIN del_sdc : del_sdc[k] \in DelCommands
  BY DEF DelInv, DelTypes
<1>2. \A k \in DOMAIN del_sdc :
        /\ (k \in Del!DelaysOn(p)) <=> Delays(del_sdc[k], p)
        /\ Sets(del_sdc[k], p, e, s) <=>
             k \in Del!DelaysOn(p) /\ del_sdc[k].edge = e /\ s \in Del!SlotsOf(del_sdc[k])
        /\ Clears(del_sdc[k], p, e) <=>
             k \in Del!DelaysOn(p) /\ ~del_sdc[k].add /\ del_sdc[k].edge # e
  BY DEF Del!DelaysOn, Sets, Clears, Delays
<1>3. Del!DelaysOn(p) \subseteq DOMAIN del_sdc
  BY DEF Del!DelaysOn
<1> QED
  BY <1>2, <1>3 DEF Del!InForce, InForceIn

\* The larger of the positions a transition hits is the last.
LEMMA LastIsMax ==
  ASSUME DelInv, NEW H, NEW K, K = {k \in DOMAIN del_sdc : del_sdc[k] \in H}, K # {}
  PROVE  IsLast(del_sdc, H, Del!Max(K))
<1>1. PICK k \in DOMAIN del_sdc : IsLast(del_sdc, H, k)
  BY LastExists DEF DelInv, DelTypes
<1>2. k \in K /\ \A j \in K : k >= j
  BY <1>1 DEF IsLast, DelInv, DelTypes
<1>3. \A j \in K : j \in Int
  BY DEF DelInv, DelTypes
<1>4. \A x \in K : (\A j \in K : x >= j) => x = k
  BY <1>2, <1>3
<1>5. Del!Max(K) = k
  BY <1>2, <1>4 DEF Del!Max
<1> QED
  BY <1>1, <1>5

\* The invariant gives the property the runs check.
LEMMA DelSlots == DelInv => Del!SlotsFollowFile
<1> SUFFICES ASSUME DelInv, NEW p \in DelPorts, NEW s \in Del!Slots
             PROVE  /\ \A e \in DelEdges :
                         LET values == {del_sdc[k].value[s] : k \in Del!InForce(p, e, s)}
                             held == IF e \in DOMAIN delays[p] THEN delays[p][e][s] ELSE Unset
                         IN held = IF values = {} THEN Unset
                                   ELSE IF s[1] = "max" THEN Del!Max(values) ELSE Del!Min(values)
                    /\ LET K == {k \in DOMAIN del_sdc :
                                   /\ del_sdc[k].cmd = "set_input_transition"
                                   /\ p \in del_sdc[k].ports /\ s \in Del!SlotsOf(del_sdc[k])
                                   /\ del_sdc[k].no_clocks => p \notin DelClockPorts}
                       IN slew[p][s] = IF K = {} THEN DelDefaultSlew ELSE del_sdc[Del!Max(K)].value
  BY DEF Del!SlotsFollowFile
<1>1. del_sdc \in Seq(DelCommands)
  BY DEF DelInv, DelTypes
<1>2. ASSUME NEW e \in DelEdges
      PROVE  LET values == {del_sdc[k].value[s] : k \in Del!InForce(p, e, s)}
                 held == IF e \in DOMAIN delays[p] THEN delays[p][e][s] ELSE Unset
             IN held = IF values = {} THEN Unset
                       ELSE IF s[1] = "max" THEN Del!Max(values) ELSE Del!Min(values)
  <2> DEFINE V == ValuesIn(del_sdc, p, e, s)
             h == Held(delays[p], e, s)
  <2>1. {del_sdc[k].value[s] : k \in Del!InForce(p, e, s)} = V
    BY InForceIs DEF ValuesIn
  <2>2. V \in SUBSET Int /\ Extreme(h, V, s)
    BY <1>1, ValuesAreNumbers DEF DelInv
  <2>3. h = IF e \in DOMAIN delays[p] THEN delays[p][e][s] ELSE Unset
    BY DEF Held
  <2> HIDE DEF V, h
  <2>4. h = IF V = {} THEN Unset ELSE IF s[1] = "max" THEN Del!Max(V) ELSE Del!Min(V)
    <3>1. CASE V = {}
      BY <2>2, <3>1 DEF Extreme
    <3>2. CASE V # {}
      BY <2>2, <3>2, ExtremeIs
    <3> QED
      BY <3>1, <3>2
  <2> QED
    BY <2>1, <2>3, <2>4
<1>3. ASSUME NEW K, K = {k \in DOMAIN del_sdc :
                            /\ del_sdc[k].cmd = "set_input_transition"
                            /\ p \in del_sdc[k].ports /\ s \in Del!SlotsOf(del_sdc[k])
                            /\ del_sdc[k].no_clocks => p \notin DelClockPorts}
      PROVE  slew[p][s] = IF K = {} THEN DelDefaultSlew ELSE del_sdc[Del!Max(K)].value
  <2>1. K = {k \in DOMAIN del_sdc : del_sdc[k] \in Hitting(p, s)}
    BY <1>1, <1>3 DEF Hitting, Del!Hit
  <2>2. /\ \A k \in DOMAIN del_sdc : IsLast(del_sdc, Hitting(p, s), k) => slew[p][s] = del_sdc[k].value
        /\ (\A k \in DOMAIN del_sdc : del_sdc[k] \notin Hitting(p, s)) => slew[p][s] = DelDefaultSlew
    BY DEF DelInv
  <2>3. CASE K = {}
    BY <2>1, <2>2, <2>3
  <2>4. CASE K # {}
    <3>1. IsLast(del_sdc, Hitting(p, s), Del!Max(K))
      BY <2>1, <2>4, LastIsMax
    <3> QED
      BY <2>2, <2>4, <3>1 DEF IsLast
  <2> QED
    BY <2>3, <2>4
<1> QED
  BY <1>2, <1>3

\* However commands with and without -add_delay follow each other on the edges of
\* several clocks, a slot holds the larger max or smaller min of the values still in
\* force, and a transition is the last that hits its port (resolve_port_delays,
\* job.rs:107; input_slew_for, job.rs:280).
THEOREM SlotsFollow == Spec => []SlotsFollowFile
<1>1. (reader = "port_delays" => DelInv) => SlotsFollowFile
  BY DelSlots DEF SlotsFollowFile
<1> QED
  BY <1>1, DelAlways, PTL

-----------------------------------------------------------------------------
(* What an -add_delay may do                                               *)

\* A set each of whose numbers another set reaches or passes has no larger extreme.
LEMMA ReachedIsNoTighter ==
  ASSUME NEW A \in SUBSET Int, NEW B \in SUBSET Int, IsFiniteSet(A), IsFiniteSet(B)
  PROVE  /\ (\A a \in A : \E b \in B : b >= a) /\ A # {} => B # {} /\ Del!Max(B) >= Del!Max(A)
         /\ (\A a \in A : \E b \in B : b <= a) /\ A # {} => B # {} /\ Del!Min(B) <= Del!Min(A)
<1>1. ASSUME NEW V \in SUBSET Int, IsFiniteSet(V), V # {}
      PROVE  /\ Del!Max(V) \in V /\ \A v \in V : Del!Max(V) >= v
             /\ Del!Min(V) \in V /\ \A v \in V : Del!Min(V) <= v
  <2>1. \E x \in V : \A v \in V : x >= v
    BY <1>1, GreatestOfFinite
  <2>2. \E x \in V : \A v \in V : x <= v
    BY <1>1, LeastOfFinite
  <2> QED
    BY <2>1, <2>2 DEF Del!Max, Del!Min
<1>2. ASSUME \A a \in A : \E b \in B : b >= a, A # {}
      PROVE  B # {} /\ Del!Max(B) >= Del!Max(A)
  <2>1. Del!Max(A) \in A /\ B # {}
    BY <1>1, <1>2
  <2>2. PICK b \in B : b >= Del!Max(A)
    BY <1>2, <2>1
  <2>3. Del!Max(B) \in B /\ Del!Max(B) >= b
    BY <1>1, <2>1
  <2>4. b \in Int /\ Del!Max(B) \in Int /\ Del!Max(A) \in Int
    BY <2>1, <2>3
  <2> QED
    BY <2>1, <2>2, <2>3, <2>4
<1>3. ASSUME \A a \in A : \E b \in B : b <= a, A # {}
      PROVE  B # {} /\ Del!Min(B) <= Del!Min(A)
  <2>1. Del!Min(A) \in A /\ B # {}
    BY <1>1, <1>3
  <2>2. PICK b \in B : b <= Del!Min(A)
    BY <1>3, <2>1
  <2>3. Del!Min(B) \in B /\ Del!Min(B) <= b
    BY <1>1, <2>1
  <2>4. b \in Int /\ Del!Min(B) \in Int /\ Del!Min(A) \in Int
    BY <2>1, <2>3
  <2> QED
    BY <2>1, <2>2, <2>3, <2>4
<1> QED
  BY <1>2, <1>3

\* An -add_delay takes no object or slot away, and moves none inwards.
LEMMA SlotWidens ==
  ASSUME DelInv, NEW c \in DelCommands, Del!ApplyDelay(c), c.add, NEW p \in DelPorts,
         NEW e \in DOMAIN delays[p], NEW s \in Del!Slots
  PROVE  /\ e \in DOMAIN delays'[p]
         /\ delays[p][e][s] # Unset =>
              /\ delays[p][e][s] \in Int /\ delays'[p][e][s] \in Int /\ delays'[p][e][s] # Unset
              /\ IF s[1] = "max" THEN delays'[p][e][s] >= delays[p][e][s]
                 ELSE delays'[p][e][s] <= delays[p][e][s]
<1> DEFINE d == delays[p][e][s]
<1>1. /\ c.cmd = "set_io_delay" /\ c.value[s] \in Int /\ Unset \notin Int
      /\ delays'[p] = IF Del!Named(c, p) THEN Del!SetDelay(c, delays[p]) ELSE delays[p]
  BY FrontEndAssumption DEF Del!ApplyDelay, Del!ConstantsOK
<1>2. d \in Int \cup {Unset}
  BY DEF DelInv, DelTypes, Del!Values
<1>3. CASE ~Del!Named(c, p)
  BY <1>1, <1>2, <1>3
<1>4. CASE Del!Named(c, p)
  <2>1. DOMAIN delays'[p] = DOMAIN delays[p] \cup {c.edge}
    BY <1>1, <1>4 DEF Del!SetDelay, Del!Retained
  <2>2. delays'[p][e][s] = IF e = c.edge /\ s \in Del!SlotsOf(c) THEN Del!Merge(c, s, d) ELSE d
    BY <1>1, <1>4 DEF Del!SetDelay, Del!Retained
  <2> HIDE DEF d
  <2>3. CASE d = Unset
    BY <2>1, <2>3 DEF d
  <2>4. CASE d # Unset
    <3>1. Del!Merge(c, s, d) = IF s[1] = "max" THEN IF d >= c.value[s] THEN d ELSE c.value[s]
                               ELSE IF d <= c.value[s] THEN d ELSE c.value[s]
      BY <1>1, <1>2, <2>4, ExtremeOfTwo DEF Del!Merge
    <3> QED
      BY <1>1, <1>2, <2>1, <2>2, <2>4, <3>1 DEF d
  <2> QED
    BY <2>3, <2>4
<1> QED
  BY <1>3, <1>4

\* The edges with a value in a slot, and the values relaxed against their captures.
ValuedOn(objects, E, s) == {e \in DOMAIN objects \cap E : objects[e][s] # Unset}
Arrivals(objects, E, s) == {objects[e][s] : e \in ValuedOn(objects, E, s)}
Setups(objects, s) ==
  {DelCapture[e] - objects[e][s] - DelUncertainty : e \in ValuedOn(objects, DOMAIN DelCapture, s)}
PortHolds(objects, s) ==
  {DelCapture[e] + DelUncertainty - objects[e][s] : e \in ValuedOn(objects, DOMAIN DelCapture, s)}

\* They are finite sets of numbers.
LEMMA TimesOfPort ==
  ASSUME NEW objects, IsFiniteSet(DOMAIN objects), DOMAIN objects \subseteq DelEdges, NEW E,
         \A e \in DOMAIN objects : objects[e] \in [Del!Slots -> Del!Values], NEW s \in Del!Slots
  PROVE  /\ Arrivals(objects, E, s) \in SUBSET Int /\ IsFiniteSet(Arrivals(objects, E, s))
         /\ Setups(objects, s) \in SUBSET Int /\ IsFiniteSet(Setups(objects, s))
         /\ PortHolds(objects, s) \in SUBSET Int /\ IsFiniteSet(PortHolds(objects, s))
<1>1. ASSUME NEW X
      PROVE  /\ IsFiniteSet(ValuedOn(objects, X, s))
             /\ \A e \in ValuedOn(objects, X, s) : objects[e][s] \in Int
  <2>1. ValuedOn(objects, X, s) \in SUBSET DOMAIN objects
    BY DEF ValuedOn
  <2>2. IsFiniteSet(ValuedOn(objects, X, s))
    BY <2>1, FS_Subset
  <2> QED
    BY <2>2 DEF ValuedOn, Del!Values
<1>2. /\ DelUncertainty \in Int /\ \A e \in DOMAIN DelCapture : DelCapture[e] \in Int
  BY FrontEndAssumption DEF Del!ConstantsOK
<1>3. Arrivals(objects, E, s) \in SUBSET Int /\ IsFiniteSet(Arrivals(objects, E, s))
  <2> DEFINE V == ValuedOn(objects, E, s)
             f == [e \in V |-> objects[e][s]]
  <2>1. IsFiniteSet(V) /\ DOMAIN f = V /\ f = [e \in V |-> f[e]]
    BY <1>1
  <2>2. Arrivals(objects, E, s) = {f[e] : e \in V} /\ \A e \in V : f[e] \in Int
    BY <1>1 DEF Arrivals
  <2> HIDE DEF V, f
  <2> QED
    BY <2>1, <2>2, ImageFinite
<1>4. Setups(objects, s) \in SUBSET Int /\ IsFiniteSet(Setups(objects, s))
  <2> DEFINE V == ValuedOn(objects, DOMAIN DelCapture, s)
             f == [e \in V |-> DelCapture[e] - objects[e][s] - DelUncertainty]
  <2>1. IsFiniteSet(V) /\ DOMAIN f = V /\ f = [e \in V |-> f[e]]
    BY <1>1
  <2>2. \A e \in V : DelCapture[e] \in Int /\ objects[e][s] \in Int
    BY <1>1, <1>2 DEF ValuedOn
  <2>3. Setups(objects, s) = {f[e] : e \in V} /\ \A e \in V : f[e] \in Int
    BY <1>2, <2>2 DEF Setups
  <2> HIDE DEF V, f
  <2> QED
    BY <2>1, <2>3, ImageFinite
<1>5. PortHolds(objects, s) \in SUBSET Int /\ IsFiniteSet(PortHolds(objects, s))
  <2> DEFINE V == ValuedOn(objects, DOMAIN DelCapture, s)
             f == [e \in V |-> DelCapture[e] + DelUncertainty - objects[e][s]]
  <2>1. IsFiniteSet(V) /\ DOMAIN f = V /\ f = [e \in V |-> f[e]]
    BY <1>1
  <2>2. \A e \in V : DelCapture[e] \in Int /\ objects[e][s] \in Int
    BY <1>1, <1>2 DEF ValuedOn
  <2>3. PortHolds(objects, s) = {f[e] : e \in V} /\ \A e \in V : f[e] \in Int
    BY <1>2, <2>2 DEF PortHolds
  <2> HIDE DEF V, f
  <2> QED
    BY <2>1, <2>3, ImageFinite
<1> QED
  BY <1>3, <1>4, <1>5

\* An -add_delay only widens what the port had.
LEMMA DelWidens ==
  ASSUME DelInv, DelInv', NEW c \in DelCommands, Del!Apply(c)
  PROVE  Del!AddWidens
<1>1. del_sdc'[Len(del_sdc')] = c
  BY DEF Del!Apply, DelInv, DelTypes
<1>2. SUFFICES ASSUME c.cmd = "set_io_delay", c.add, NEW p \in DelPorts, DOMAIN delays[p] # {},
                      NEW s \in Del!Slots
               PROVE  /\ Del!Tightens(Del!Requirement(p, s), Del!Requirement(p, s)', s[1] # "max")
                      /\ \A fall \in BOOLEAN :
                           Del!Tightens(Del!Seed(p, fall, s), Del!Seed(p, fall, s)', s[1] = "max")
  BY <1>1 DEF Del!AddWidens, Del!Tightens
<1> DEFINE old == delays[p]
           now == delays'[p]
           E(fall) == {e \in DelEdges : e.fall = fall}
<1>3. \A e \in DOMAIN old :
        /\ e \in DOMAIN now
        /\ old[e][s] # Unset =>
             /\ old[e][s] \in Int /\ now[e][s] \in Int /\ now[e][s] # Unset
             /\ IF s[1] = "max" THEN now[e][s] >= old[e][s] ELSE now[e][s] <= old[e][s]
  <2>1. Del!ApplyDelay(c)
    BY <1>2 DEF Del!Apply, Del!ApplyTransition
  <2> QED
    BY <1>2, <2>1, SlotWidens
<1>4. /\ DOMAIN old \subseteq DelEdges /\ IsFiniteSet(DOMAIN old)
      /\ \A e \in DOMAIN old : old[e] \in [Del!Slots -> Del!Values]
      /\ DOMAIN now \subseteq DelEdges /\ IsFiniteSet(DOMAIN now)
      /\ \A e \in DOMAIN now : now[e] \in [Del!Slots -> Del!Values]
  BY DEF DelInv, DelTypes
<1>5. DOMAIN old # {} /\ DOMAIN now # {}
  BY <1>2, <1>3
<1>6. Del!InputDelaysFor(p) = old /\ Del!InputDelaysFor(p)' = now
  BY <1>5 DEF Del!InputDelaysFor
<1>7. ASSUME NEW fall
      PROVE  /\ Del!Seed(p, fall, s) =
                  IF Arrivals(old, E(fall), s) = {} THEN Unset
                  ELSE IF s[1] = "max" THEN Del!Max(Arrivals(old, E(fall), s))
                       ELSE Del!Min(Arrivals(old, E(fall), s))
             /\ Del!Seed(p, fall, s)' =
                  IF Arrivals(now, E(fall), s) = {} THEN Unset
                  ELSE IF s[1] = "max" THEN Del!Max(Arrivals(now, E(fall), s))
                       ELSE Del!Min(Arrivals(now, E(fall), s))
  <2>1. Arrivals(old, E(fall), s) = Del!Seeds(old, fall, s)
    BY <1>4 DEF Arrivals, ValuedOn, Del!Seeds
  <2>2. Arrivals(now, E(fall), s) = Del!Seeds(now, fall, s)
    BY <1>4 DEF Arrivals, ValuedOn, Del!Seeds
  <2>3. /\ Del!Seeds(Del!InputDelaysFor(p), fall, s) = Arrivals(old, E(fall), s)
        /\ Del!Seeds(Del!InputDelaysFor(p), fall, s)' = Arrivals(now, E(fall), s)
    BY <1>6, <2>1, <2>2 DEF Del!Seeds
  <2> HIDE DEF old, now, E
  <2> QED
    BY <2>3 DEF Del!Seed
<1>8. /\ Del!Requirement(p, s) =
           IF Setups(old, s) = {} THEN Unset
           ELSE IF s[1] = "max" THEN Del!Min(Setups(old, s)) ELSE Del!Max(PortHolds(old, s))
      /\ Del!Requirement(p, s)' =
           IF Setups(now, s) = {} THEN Unset
           ELSE IF s[1] = "max" THEN Del!Min(Setups(now, s)) ELSE Del!Max(PortHolds(now, s))
  BY DEF Del!Requirement, Setups, PortHolds, ValuedOn
<1>9. ASSUME NEW X
      PROVE  \A e \in ValuedOn(old, X, s) :
               /\ e \in ValuedOn(now, X, s) /\ old[e][s] \in Int /\ now[e][s] \in Int
               /\ IF s[1] = "max" THEN now[e][s] >= old[e][s] ELSE now[e][s] <= old[e][s]
  BY <1>3 DEF ValuedOn
<1>10. /\ DelUncertainty \in Int /\ Unset \notin Int
       /\ \A e \in DOMAIN DelCapture : DelCapture[e] \in Int
  BY FrontEndAssumption DEF Del!ConstantsOK
<1>11. /\ Setups(old, s) \in SUBSET Int /\ IsFiniteSet(Setups(old, s))
       /\ PortHolds(old, s) \in SUBSET Int /\ IsFiniteSet(PortHolds(old, s))
       /\ Setups(now, s) \in SUBSET Int /\ IsFiniteSet(Setups(now, s))
       /\ PortHolds(now, s) \in SUBSET Int /\ IsFiniteSet(PortHolds(now, s))
  <2> HIDE DEF old, now
  <2> QED
    BY <1>4, TimesOfPort
<1>12. ASSUME NEW V \in SUBSET Int, IsFiniteSet(V), V # {}
       PROVE  Del!Max(V) \in V /\ Del!Min(V) \in V
  <2>1. (\E x \in V : \A v \in V : x >= v) /\ (\E x \in V : \A v \in V : x <= v)
    BY <1>12, GreatestOfFinite, LeastOfFinite
  <2> QED
    BY <2>1 DEF Del!Max, Del!Min
<1>13. ASSUME NEW fall \in BOOLEAN
       PROVE  Del!Tightens(Del!Seed(p, fall, s), Del!Seed(p, fall, s)', s[1] = "max")
  <2> DEFINE A == Arrivals(old, E(fall), s)
             B == Arrivals(now, E(fall), s)
  <2>1. /\ A \in SUBSET Int /\ IsFiniteSet(A) /\ B \in SUBSET Int /\ IsFiniteSet(B)
    <3> HIDE DEF old, now, E
    <3> QED
      BY <1>4, TimesOfPort
  <2>2. \A a \in A : \E b \in B : IF s[1] = "max" THEN b >= a ELSE b <= a
    <3> HIDE DEF old, now, E
    <3> QED
      BY <1>9 DEF Arrivals
  <2>3. A # {} => B # {} /\ IF s[1] = "max" THEN Del!Max(B) >= Del!Max(A) ELSE Del!Min(B) <= Del!Min(A)
    <3> HIDE DEF A, B
    <3>1. CASE s[1] = "max"
      BY <2>1, <2>2, <3>1, ReachedIsNoTighter
    <3>2. CASE s[1] # "max"
      BY <2>1, <2>2, <3>2, ReachedIsNoTighter
    <3> QED
      BY <3>1, <3>2
  <2>4. B # {} => Del!Max(B) # Unset /\ Del!Min(B) # Unset
    <3> HIDE DEF A, B
    <3> QED
      BY <1>10, <1>12, <2>1
  <2>5. /\ Del!Seed(p, fall, s) = IF A = {} THEN Unset ELSE IF s[1] = "max" THEN Del!Max(A) ELSE Del!Min(A)
        /\ Del!Seed(p, fall, s)' = IF B = {} THEN Unset ELSE IF s[1] = "max" THEN Del!Max(B) ELSE Del!Min(B)
    BY <1>7
  <2> HIDE DEF A, B
  <2> QED
    BY <2>3, <2>4, <2>5 DEF Del!Tightens
<1>14. Del!Tightens(Del!Requirement(p, s), Del!Requirement(p, s)', s[1] # "max")
  <2> HIDE DEF old, now
  <2>1. Setups(old, s) # {} <=> ValuedOn(old, DOMAIN DelCapture, s) # {}
    BY DEF Setups
  <2>2. PortHolds(old, s) # {} <=> ValuedOn(old, DOMAIN DelCapture, s) # {}
    BY DEF PortHolds
  <2>3. \A e \in ValuedOn(old, DOMAIN DelCapture, s) : DelCapture[e] \in Int
    BY <1>10 DEF ValuedOn
  <2>4. CASE s[1] = "max"
    <3>1. \A a \in Setups(old, s) : \E b \in Setups(now, s) : b <= a
      <4> SUFFICES ASSUME NEW e \in ValuedOn(old, DOMAIN DelCapture, s)
                   PROVE  \E b \in Setups(now, s) : b <= DelCapture[e] - old[e][s] - DelUncertainty
        BY DEF Setups
      <4>1. DelCapture[e] - now[e][s] - DelUncertainty \in Setups(now, s)
        BY <1>9 DEF Setups
      <4>2. DelCapture[e] - now[e][s] - DelUncertainty <= DelCapture[e] - old[e][s] - DelUncertainty
        BY <1>9, <1>10, <2>3, <2>4
      <4> QED
        BY <4>1, <4>2
    <3>2. Setups(old, s) # {} => Setups(now, s) # {} /\ Del!Min(Setups(now, s)) <= Del!Min(Setups(old, s))
      BY <1>11, <3>1, ReachedIsNoTighter
    <3>3. Setups(now, s) # {} => Del!Min(Setups(now, s)) # Unset
      BY <1>10, <1>11, <1>12
    <3> QED
      BY <1>8, <2>4, <3>2, <3>3 DEF Del!Tightens
  <2>5. CASE s[1] # "max"
    <3>1. \A a \in PortHolds(old, s) : \E b \in PortHolds(now, s) : b >= a
      <4> SUFFICES ASSUME NEW e \in ValuedOn(old, DOMAIN DelCapture, s)
                   PROVE  \E b \in PortHolds(now, s) : b >= DelCapture[e] + DelUncertainty - old[e][s]
        BY DEF PortHolds
      <4>1. DelCapture[e] + DelUncertainty - now[e][s] \in PortHolds(now, s)
        BY <1>9 DEF PortHolds
      <4>2. DelCapture[e] + DelUncertainty - now[e][s] >= DelCapture[e] + DelUncertainty - old[e][s]
        BY <1>9, <1>10, <2>3, <2>5
      <4> QED
        BY <4>1, <4>2
    <3>2. PortHolds(old, s) # {} => PortHolds(now, s) # {} /\ Del!Max(PortHolds(now, s)) >= Del!Max(PortHolds(old, s))
      BY <1>11, <3>1, ReachedIsNoTighter
    <3>3. /\ PortHolds(now, s) # {} => Del!Max(PortHolds(now, s)) # Unset
          /\ PortHolds(now, s) # {} => Setups(now, s) # {}
      BY <1>10, <1>11, <1>12 DEF PortHolds, Setups
    <3> QED
      BY <1>8, <2>1, <2>2, <2>5, <3>2, <3>3 DEF Del!Tightens
  <2> QED
    BY <2>4, <2>5
<1> QED
  BY <1>13, <1>14

\* Once a port has a delay of its own, no -add_delay unseeds an arrival of it, makes
\* its latest earlier or its earliest later, or drops or relaxes a requirement of an
\* output, whatever clock edge it is on ("with it, the slots merge", job.rs:106).
THEOREM AddsWiden == Spec => AddsOnlyWiden
<1>1. /\ reader = "port_delays" => DelInv
      /\ [Next]_vars
      => [reader = "port_delays" => Del!AddWidens]_DelVars
  <2>1. SUFFICES ASSUME reader = "port_delays", DelInv, [Next]_vars, ~UNCHANGED DelVars
                 PROVE  Del!AddWidens
    OBVIOUS
  <2>2. Del!Next
    BY <2>1 DEF Next, vars, DisStep, ChkStep, DelStep, ExcStep, LdStep, SiStep, CycStep, CmdStep, ScrStep
  <2> QED
    BY <2>1, <2>2, DelStepInv, DelWidens DEF Del!Next
<1> QED
  BY <1>1, DelAlways, PTL DEF Spec, AddsOnlyWiden

-----------------------------------------------------------------------------
(* Types of the sets, the checks and the delays                            *)

\* The objects a command names are of their kinds.
LEMMA DisObjects ==
  ASSUME NEW c \in DisCommands
  PROVE  /\ Dis!Named(c, "lib_pin") \subseteq DisCells \X DisPortBits
         /\ Dis!Named(c, "port") \subseteq DisTopPorts
         /\ Dis!Named(c, "pin") \subseteq DisInsts \X DisPortBits
<1>1. ASSUME NEW kind \in {"lib_pin", "port", "pin"}, NEW n \in c.objects
      PROVE  DisMatches[kind][n] \subseteq
               CASE kind = "lib_pin" -> DisCells \X DisPortBits
                 [] kind = "port" -> DisTopPorts
                 [] kind = "pin" -> DisInsts \X DisPortBits
  BY FrontEndAssumption DEF Dis!ConstantsOK, Dis!Kinds
<1>2. \A n \in c.objects : /\ DisMatches["lib_pin"][n] \subseteq DisCells \X DisPortBits
                           /\ DisMatches["port"][n] \subseteq DisTopPorts
                           /\ DisMatches["pin"][n] \subseteq DisInsts \X DisPortBits
  BY <1>1
<1> QED
  BY <1>2 DEF Dis!Named

\* The sets of disables keep their types (disable.rs:80).
LEMMA DisTypesStep == Dis!TypeOK /\ DisInv /\ Dis!Next => Dis!TypeOK'
<1> SUFFICES ASSUME Dis!TypeOK, DisInv, NEW c \in DisCommands, Dis!Apply(c) PROVE Dis!TypeOK'
  BY DEF Dis!Next
<1>1. /\ Len(dis_sdc) \in Nat /\ Len(dis_sdc') = Len(dis_sdc) + 1
      /\ dis_warned' \subseteq dis_warned \cup {Len(dis_sdc')}
  BY DEF Dis!Apply, DisInv
<1>2. dis_warned' \subseteq 1 .. Len(dis_sdc')
  BY <1>1 DEF Dis!TypeOK
<1>3. CASE Dis!Missing(c)
  BY <1>2, <1>3 DEF Dis!Apply, Dis!TypeOK
<1>4. CASE ~Dis!Missing(c)
  <2>1. \A was, objects : Dis!Toggle(c, was, objects) \subseteq was \cup objects
    BY DEF Dis!Toggle
  <2>2. pins' \subseteq Dis!Pins
    BY <1>4, <2>1, DisObjects DEF Dis!Apply, Dis!TypeOK, Dis!Pins
  <2>3. lib_ports' \subseteq DisCells \X DisPortBits
    BY <1>4, <2>1, DisObjects DEF Dis!Apply, Dis!TypeOK
  <2>4. ASSUME NEW i \in DisInsts
        PROVE  (IF i \in Dis!Named(c, "inst") THEN Dis!PairsOn(c, DisCellOf[i]) ELSE {}) \subseteq AnyPair
    BY <1>4, PairsTyped DEF AnyCell, AnyPair
  <2>5. ASSUME NEW k \in DisCells
        PROVE  (IF k \in Dis!Named(c, "lib_cell") THEN Dis!PairsOn(c, k) ELSE {}) \subseteq AnyPair
    BY <1>4, PairsTyped DEF AnyCell, AnyPair
  <2>6. insts' \in [DisInsts -> SUBSET AnyPair]
    BY <1>4, <2>1, <2>4 DEF Dis!Apply, Dis!TypeOK, AnyPair
  <2>7. cells' \in [DisCells -> SUBSET AnyPair]
    BY <1>4, <2>1, <2>5 DEF Dis!Apply, Dis!TypeOK, AnyPair
  <2> QED
    BY <1>2, <2>2, <2>3, <2>6, <2>7 DEF Dis!TypeOK, AnyPair
<1> QED
  BY <1>3, <1>4

\* The types hold whenever the disables are the part at work.
LEMMA DisTypes == Spec => [](reader = "disables" => Dis!TypeOK)
<1>1. Init => (reader = "disables" => Dis!TypeOK)
  BY DEF Init, Dis!Init, Dis!TypeOK
<1>2. /\ reader = "disables" => DisInv
      /\ reader = "disables" => Dis!TypeOK
      /\ [Next]_vars
      => (reader = "disables" => Dis!TypeOK)'
  <2>1. SUFFICES ASSUME reader = "disables" => DisInv, reader = "disables" => Dis!TypeOK,
                        [Next]_vars, reader' = "disables"
                 PROVE  Dis!TypeOK'
    OBVIOUS
  <2>2. DisInv /\ Dis!TypeOK /\ (Dis!Next \/ UNCHANGED DisVars)
    BY <2>1, DisSteps
  <2>3. CASE UNCHANGED DisVars
    BY <2>2, <2>3 DEF DisVars, Dis!TypeOK
  <2> QED
    BY <2>2, <2>3, DisTypesStep
<1> QED
  BY <1>1, <1>2, DisAlways, PTL DEF Spec

\* The warnings are about commands read.
ChkWarned == chk_warned \subseteq 1 .. Len(chk_sdc)

\* The types hold whenever the data checks are the part at work (data_check.rs:23).
LEMMA ChkTypes == Spec => [](reader = "data_checks" => Chk!TypeOK)
<1>1. Init => (reader = "data_checks" => ChkWarned)
  BY DEF Init, Chk!Init, ChkWarned
<1>2. /\ reader = "data_checks" => ChkInv
      /\ reader = "data_checks" => ChkWarned
      /\ [Next]_vars
      => (reader = "data_checks" => ChkWarned)'
  <2>1. SUFFICES ASSUME reader = "data_checks" => ChkInv, reader = "data_checks" => ChkWarned,
                        [Next]_vars, reader' = "data_checks"
                 PROVE  ChkWarned'
    OBVIOUS
  <2>2. ChkInv /\ ChkWarned /\ (Chk!Next \/ UNCHANGED ChkVars)
    BY <2>1, ChkSteps
  <2>3. CASE UNCHANGED ChkVars
    BY <2>2, <2>3 DEF ChkVars, ChkWarned
  <2>4. CASE Chk!Next
    <3>1. /\ Len(chk_sdc) \in Nat /\ Len(chk_sdc') = Len(chk_sdc) + 1
          /\ chk_warned' \subseteq chk_warned \cup {Len(chk_sdc')}
      BY <2>2, <2>4 DEF Chk!Next, Chk!Apply, ChkInv
    <3> QED
      BY <2>2, <3>1 DEF ChkWarned
  <2> QED
    BY <2>2, <2>3, <2>4
<1>3. (reader = "data_checks" => ChkInv) /\ (reader = "data_checks" => ChkWarned)
      => (reader = "data_checks" => Chk!TypeOK)
  <2>1. SUFFICES ASSUME ChkInv, ChkWarned PROVE Chk!TypeOK
    OBVIOUS
  <2>2. \A i \in DOMAIN checks : checks[i] \in CheckRecord
    BY <2>1 DEF ChkInv
  <2> QED
    BY <2>1, <2>2 DEF CheckRecord, ChkWarned, Chk!TypeOK
<1> QED
  BY <1>1, <1>2, <1>3, ChkAlways, PTL DEF Spec

\* The types hold whenever the port delays are the part at work (job.rs:107).
LEMMA PortTypes == Spec => [](reader = "port_delays" => Del!TypeOK)
<1>1. (reader = "port_delays" => DelInv) => (reader = "port_delays" => Del!TypeOK)
  BY DEF DelInv, DelTypes, Del!TypeOK
<1> QED
  BY <1>1, DelAlways, PTL
=============================================================================
