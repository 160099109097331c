----------------------------- MODULE MCFrontEnd -----------------------------
(***************************************************************************)
(* FrontEnd on small inputs: a netlist, a library, commands, jobs, scripts *)
(* and clocks for each of its parts.                                       *)
(***************************************************************************)
EXTENDS FrontEnd, Functions

CONSTANTS
  MaxPeriod,   \* clock periods are 0 .. MaxPeriod
  EdgeAtEnd    \* clock edges may lie at the end of the period

-----------------------------------------------------------------------------
(* Disables: two gates of the library and one that is not in it            *)

MCDisInsts == {"u1", "u2", "u3"}
MCDisCells == {"AND", "DFF"}
MCDisCellOf == [i \in MCDisInsts |-> CASE i = "u1" -> "AND" [] i = "u2" -> "DFF" [] i = "u3" -> "GHOST"]
MCDisPortBits == {"A0", "A1", "Z", "CK", "D"}
MCDisTopPorts == {<<"port", "in1">>}
\* A is a bus of the gate.
MCDisBits ==
  [c \in MCDisCells |-> [p \in {"A", "Z", "CK", "D"} |->
     IF c = "AND" THEN CASE p = "A" -> {"A0", "A1"} [] p = "Z" -> {"Z"} [] OTHER -> {}
     ELSE IF p \in {"CK", "D"} THEN {p} ELSE {}]]

DisNames == {"u1", "u2", "u3", "u*", "AND", "DFF", "AND/Z", "DFF/CK", "u1/A0", "u2/CK", "in1", "nope"}
MCDisMatches ==
  [k \in {"lib_cell", "lib_pin", "inst", "port", "pin"} |-> [n \in DisNames |->
     CASE k = "lib_cell" -> {n} \cap MCDisCells
       [] k = "lib_pin" -> IF n = "AND/Z" THEN {<<"AND", "Z">>}
                           ELSE IF n = "DFF/CK" THEN {<<"DFF", "CK">>} ELSE {}
       [] k = "inst" -> IF n = "u*" THEN {"u1", "u2"} ELSE {n} \cap MCDisInsts
       [] k = "port" -> IF n = "in1" THEN MCDisTopPorts ELSE {}
       [] k = "pin" -> IF n = "u1/A0" THEN {<<"u1", "A0">>}
                       ELSE IF n = "u2/CK" THEN {<<"u2", "CK">>} ELSE {}]]

DisCommand(verb, accessor, objects, from, to) ==
  [cmd |-> verb, accessor |-> accessor, plain |-> TRUE, objects |-> objects,
   from |-> from, to |-> to]
DisSet(accessor, objects, from, to) ==
  DisCommand("set_disable_timing", accessor, objects, from, to)
DisUnset(accessor, objects, from, to) ==
  DisCommand("unset_disable_timing", accessor, objects, from, to)

MCDisCommands ==
  { DisSet("bare", {"u1"}, Any, Any), DisUnset("bare", {"u*"}, Any, Any),
    DisSet("inst", {"u1"}, "A", "Z"), DisUnset("inst", {"u1"}, "A", "Z"),
    DisSet("inst", {"u1"}, "A", Any), DisUnset("inst", {"u1"}, "A", Any),
    DisSet("inst", {"u2"}, "CK", "D"), DisSet("inst", {"u*"}, Any, Any),
    DisSet("lib_cell", {"DFF"}, Any, Any), DisUnset("lib_cell", {"DFF"}, Any, "D"),
    DisSet("bare", {"u1/A0", "AND/Z", "in1"}, Any, Any), DisUnset("pin", {"u1/A0"}, Any, Any),
    DisSet("lib_pin", {"DFF/CK"}, Any, Any), DisSet("bare", {"nope", "u2/CK"}, Any, Any),
    DisSet("inst", {"u3"}, "A", Any), DisSet("inst", {"u3"}, Any, Any),
    [DisSet("inst", {"u1"}, Any, Any) EXCEPT !.plain = FALSE] }

-----------------------------------------------------------------------------
(* Data checks: three pins, one of them written in two ways                *)

MCChkNodes == {"a", "b", "c"}
MCChkRegisterPins == {"c"}
MCChkUncertainty == [setup |-> 1, hold |-> 2]
MCChkNodeOf == [n \in {"a", "a again", "b", "c", "nothing"} |->
                CASE n = "a again" -> "a" [] n = "nothing" -> "none" [] OTHER -> n]
ChkArrival(rise, fall) == [e \in {"rise", "fall"} |-> IF e = "rise" THEN rise ELSE fall]
MCChkEarly == [n \in MCChkNodes |-> IF n = "a" THEN ChkArrival(2, 3) ELSE ChkArrival(4, Unset)]
MCChkLate == [n \in MCChkNodes |-> IF n = "a" THEN ChkArrival(5, 6) ELSE ChkArrival(4, Unset)]

Plain(names) == [plain |-> names]
ChkCommand(verb, from, to, flags, margin) ==
  [cmd |-> verb, from |-> from, to |-> to, flags |-> flags, margin |-> margin]
ChkSet(from, to, flags, margin) == ChkCommand("set_data_check", from, to, flags, margin)
ChkUnset(from, to, flags) == ChkCommand("unset_data_check", from, to, flags, Unset)

MCChkCommands ==
  { ChkSet(Plain({"a"}), Plain({"b"}), {}, 1), ChkSet(Plain({"a again"}), [rise |-> {"b"}], {"-setup"}, 2),
    ChkSet([fall |-> {"a"}], Plain({"b"}), {"-hold"}, -1), ChkSet(Plain({"b"}), Plain({"a"}), {"-setup", "-hold"}, 3),
    ChkSet(Plain({"a"}), Plain({"c"}), {}, 2), ChkUnset(Plain({"a"}), Plain({"b"}), {}),
    ChkUnset([rise |-> {"a"}], Plain({"b"}), {"-hold"}), ChkUnset(Plain({"a again"}), [fall |-> {"b"}], {}),
    ChkUnset(Plain({"c"}), Plain({"b"}), {}), ChkUnset(Plain({"a"}), [rise |-> {"b"}], {"-setup"}),
    ChkSet(Plain({"a"}), Plain({"b"}), {"-clock"}, 4), ChkSet(Plain({"a", "b"}), Plain({"b"}), {}, 4),
    ChkSet(Plain({"a"}), [e \in {} |-> {}], {}, 4), ChkSet(Plain({"a"}), Plain({"nothing"}), {}, 4),
    ChkSet(Plain({"a"}), Plain({"b"}), {}, Unset) }

-----------------------------------------------------------------------------
(* Port delays: two ports, two clocks, both edges of one                   *)

MCDelPorts == {"a", "b"}
MCDelClockPorts == {"b"}
DelEdge(clock, fall) == [clock |-> clock, fall |-> fall]
MCDelNoClock == DelEdge("none", FALSE)
MCDelEdges == {MCDelNoClock, DelEdge("c", FALSE), DelEdge("c", TRUE), DelEdge("d", FALSE)}
MCDelCapture == [e \in MCDelEdges \ {MCDelNoClock} |->
                 IF e.clock = "d" THEN 12 ELSE IF e.fall THEN 15 ELSE 10]
MCDelAllBut == << [out |-> {"b"}, value |-> 5] >>

DelSlots == {"min", "max"} \X {"rise", "fall"}
DelSet(ports, all_but, edge, add, mm, rf, min, max) ==
  [cmd |-> "set_io_delay", ports |-> ports, all_but |-> all_but, edge |-> edge, add |-> add,
   mm |-> mm, rf |-> rf, value |-> [s \in DelSlots |-> IF s[1] = "min" THEN min ELSE max]]
DelTransition(ports, no_clocks, rf, transition) ==
  [cmd |-> "set_input_transition", ports |-> ports, mm |-> {"min", "max"}, rf |-> rf,
   no_clocks |-> no_clocks, value |-> transition]

Both == {"min", "max"}
RF == {"rise", "fall"}
MCDelCommands ==
  { DelSet({"a"}, FALSE, DelEdge("c", FALSE), FALSE, Both, RF, 2, 2),
    DelSet({"a"}, FALSE, DelEdge("c", FALSE), TRUE, {"max"}, RF, 1, 1),
    DelSet({"a"}, FALSE, DelEdge("c", FALSE), TRUE, Both, RF, 1, 3),
    DelSet({"a"}, FALSE, DelEdge("c", TRUE), TRUE, Both, RF, 3, 3),
    DelSet({"a", "b"}, FALSE, DelEdge("d", FALSE), TRUE, Both, RF, 4, 4),
    DelSet({"a"}, FALSE, DelEdge("c", TRUE), FALSE, {"max"}, {"rise"}, 0, 0),
    DelSet({"b"}, TRUE, DelEdge("c", FALSE), FALSE, {"min"}, RF, 5, 5),
    DelTransition({"a"}, FALSE, {"rise"}, 1), DelTransition({"a", "b"}, TRUE, RF, 2) }

-----------------------------------------------------------------------------
(* Timing exceptions: three paths of two clocks and a port                 *)

MCExcClocks == {"clk", "clk2"}
MCExcMatches ==
  [n \in {"clk", "clk2", "clk*", "u1", "u2", "u*", "in1", "*"} |->
     CASE n = "clk*" -> {"clk", "clk2"} [] n = "u*" -> {"u1", "u2"}
       [] n = "*" -> {"u1", "u2", "in1", "clk", "clk2"} [] OTHER -> {n}]

ExcPoint(name, clock, port) == [name |-> name, clock |-> clock, port |-> port]
MCExcPaths ==
  { [from |-> ExcPoint("u1", "clk", FALSE), to |-> ExcPoint("u2", "clk2", FALSE), pl |-> 2, pc |-> 3],
    [from |-> ExcPoint("u1", "clk", FALSE), to |-> ExcPoint("u1", "clk", FALSE), pl |-> 2, pc |-> 2],
    [from |-> ExcPoint("in1", "none", TRUE), to |-> ExcPoint("u2", "clk2", FALSE), pl |-> 3, pc |-> 3] }

ExcObject(accessor, name) == [accessor |-> accessor, name |-> name, narrowed |-> FALSE]
Exception(kind, n, flags, from, to) ==
  [kind |-> kind, n |-> n, flags |-> flags, from |-> from, to |-> to,
   args |-> TRUE, hold |-> FALSE, start |-> FALSE]

MCExcStatements ==
  { Exception("false_path", 0, {"-setup"}, {}, {ExcObject("get_pins", "u2")}),
    Exception("false_path", 0, {}, {ExcObject("all_inputs", "*")}, {ExcObject("get_clocks", "clk2")}),
    Exception("false_path", 0, {"-hold"}, {ExcObject("", "clk*")}, {}),
    Exception("multicycle", 3, {"-setup"}, {ExcObject("", "u1")}, {}),
    Exception("multicycle", 2, {"-setup"}, {ExcObject("get_cells", "u*")}, {}),
    Exception("multicycle", 2, {}, {}, {ExcObject("get_clocks", "clk2")}),
    Exception("multicycle", 1, {"-hold"}, {ExcObject("", "clk")}, {}),
    Exception("multicycle", 2, {"-hold", "-end"}, {}, {ExcObject("all_registers", "*")}),
    Exception("multicycle", 4, {"-setup", "-start"}, {}, {ExcObject("get_clocks", "clk2")}),
    Exception("false_path", 0, {}, {[ExcObject("get_cells", "u1") EXCEPT !.narrowed = TRUE]}, {}),
    Exception("multicycle", 5, {}, {ExcObject("get_nets", "u1")}, {}),
    [Exception("multicycle", 3, {}, {ExcObject("", "u1")}, {ExcObject("", "*")}) EXCEPT !.args = FALSE],
    [Exception("multicycle", 2, {}, {ExcObject("", "*")}, {ExcObject("", "u2")})
       EXCEPT !.args = FALSE, !.hold = TRUE, !.start = TRUE] }

-----------------------------------------------------------------------------
(* Job files and constraint files                                          *)

LdText(well, named, net, lib, corners, con, cs, given) ==
  [well_formed |-> well, design |-> named, netlist |-> net, libs |-> lib,
   scenarios |-> corners, sdc |-> con, clocks |-> cs, given |-> given]
LdClk == << <<"clk", "clk", 4>> >>

MCLdJobTexts ==
  { LdText(TRUE, TRUE, TRUE, TRUE, FALSE, TRUE, LdClk, {"input_delay", "setup_uncertainty"}),
    LdText(TRUE, TRUE, TRUE, TRUE, FALSE, TRUE, <<>>, {"hold_uncertainty", "late_derate"}),
    LdText(TRUE, TRUE, TRUE, TRUE, FALSE, FALSE, LdClk, {"output_load"}),
    LdText(TRUE, TRUE, TRUE, TRUE, FALSE, FALSE, << <<"clk", "clk", 0>> >>, {}),
    LdText(TRUE, TRUE, FALSE, TRUE, FALSE, TRUE, LdClk, {}),
    LdText(TRUE, TRUE, TRUE, FALSE, FALSE, TRUE, LdClk, {}),
    LdText(TRUE, TRUE, FALSE, FALSE, TRUE, TRUE, <<>>, {"setup_uncertainty"}),
    LdText(TRUE, FALSE, TRUE, TRUE, FALSE, TRUE, LdClk, {}),
    LdText(FALSE, TRUE, TRUE, TRUE, FALSE, TRUE, LdClk, {}),
    LdText(TRUE, TRUE, TRUE, TRUE, FALSE, FALSE, <<>>, {}) }

LdCommand(kind, record) == [kind |-> kind, record |-> record]
LdAllCommands ==
  { LdCommand("set_case_analysis", "kept"), LdCommand("set_false_path", "modelled"),
    LdCommand("set_timing_derate", "read_in_part"), LdCommand("group_path", "kept"),
    LdCommand("set_wire_load_model", "kept"), LdCommand("set_disable_timing", "refused"),
    LdCommand("set_max_delay", "refused") }
LdClocks ==
  { <<>>, << [name |-> "clk", sources |-> <<"clk">>, period |-> 2] >>,
    << [name |-> "two", sources |-> <<"p", "q">>, period |-> 3],
       [name |-> "clk", sources |-> <<"clk">>, period |-> 2] >>,
    << [name |-> "virtual", sources |-> <<>>, period |-> 5] >>,
    << [name |-> "still", sources |-> <<"clk">>, period |-> 0] >> }

MCLdSdcFiles ==
  {[readable |-> r, needs_design |-> n, design_readable |-> d, says |-> s, clocks |-> c, commands |-> m] :
     r \in BOOLEAN, n \in BOOLEAN, d \in BOOLEAN,
     s \in {{}, {"setup_uncertainty", "output_load"}}, c \in LdClocks,
     m \in {{}, LdAllCommands}}

-----------------------------------------------------------------------------
(* Constants: a loop of two gates, a mux, a tri-state driver, an xor and a *)
(* gate with a tied input                                                  *)

MCSiInsts == {"u1", "u2", "u3", "u4", "u5", "u6", "u7"}
MCSiInPorts == {"a", "b", "s"}
MCSiOutPorts == {"y"}
MCSiTies == {<<"u7.B", "0">>}
MCSiInPins == [i \in MCSiInsts |->
  CASE i = "u1" -> {"u1.A", "u1.B"} [] i = "u2" -> {"u2.A"} [] i = "u3" -> {"u3.S", "u3.A", "u3.B"}
    [] i = "u4" -> {"u4.A", "u4.E"} [] i = "u5" -> {"u5.A", "u5.B"} [] i = "u6" -> {}
    [] i = "u7" -> {"u7.A", "u7.B"}]
MCSiOutPins == [i \in MCSiInsts |->
  CASE i = "u1" -> {"u1.Z"} [] i = "u2" -> {"u2.Z"} [] i = "u3" -> {"u3.Z"} [] i = "u4" -> {"u4.Z"}
    [] i = "u5" -> {"u5.Z"} [] i = "u6" -> {"u6.Z"} [] i = "u7" -> {"u7.Z"}]
SiOuts == UNION {MCSiOutPins[i] : i \in MCSiInsts}
SiInstOf(o) == CHOOSE i \in MCSiInsts : o \in MCSiOutPins[i]
MCSiSupport == [o \in SiOuts |-> MCSiInPins[SiInstOf(o)] \ {"u4.E"}]
SiLevel(b) == IF b THEN "1" ELSE "0"
MCSiFunction == [o \in SiOuts |-> [S \in SUBSET MCSiSupport[o] |-> SiLevel(
  CASE o = "u1.Z" -> ~({"u1.A", "u1.B"} \subseteq S) \* nand
    [] o = "u2.Z" -> S # {}                          \* buffer
    [] o = "u3.Z" -> IF "u3.S" \in S THEN "u3.B" \in S ELSE "u3.A" \in S
    [] o = "u4.Z" -> S = {}                          \* inverter
    [] o = "u5.Z" -> Cardinality(S) = 1              \* xor
    [] o = "u6.Z" -> TRUE                            \* tie cell
    [] o = "u7.Z" -> {"u7.A", "u7.B"} \subseteq S)]] \* and
MCSiDisableOf == [o \in SiOuts |-> IF o = "u4.Z" THEN "u4.E" ELSE "nopin"]
MCSiLoads == [d \in SiOuts \cup {"a", "b", "s"} |->
  CASE d = "a" -> {"u1.A"} [] d = "b" -> {"u3.B", "u4.A"} [] d = "s" -> {"u3.S", "u4.E"}
    [] d = "u1.Z" -> {"u2.A", "u3.A"} [] d = "u2.Z" -> {"u1.B"} [] d = "u3.Z" -> {"y"}
    [] d = "u4.Z" -> {"u5.A"} [] d = "u5.Z" -> {"u7.A"} [] d = "u6.Z" -> {"u5.B"} [] d = "u7.Z" -> {}]
MCSiArcs == UNION {{i} \X MCSiInPins[i] \X MCSiOutPins[i] : i \in MCSiInsts}

SiCase(case, v, ps) == [case |-> case, value |-> v, pins |-> ps]
MCSiCases ==
  { SiCase(TRUE, "0", {"a"}), SiCase(TRUE, "1", {"s"}), SiCase(FALSE, "1", {"a", "b"}),
    SiCase(TRUE, "rise", {"b"}), SiCase(TRUE, "1", {"u1.Z"}), SiCase(TRUE, "0", {"u5.B", "s"}),
    SiCase(FALSE, "x", {"u2.Z"}), SiCase(TRUE, "rise", {"u2.Z"}), SiCase(TRUE, "fall", {"u3.A"}), SiCase(FALSE, "0", {"u4.Z"}),
    SiCase(FALSE, "1", {"u7.B"}), SiCase(TRUE, "1", {}) }

-----------------------------------------------------------------------------
(* Clocks                                                                  *)

\* Limits below the longest common cycle: periods 3 and 5, 4 and 5 end at the limit, the
\* slower clock capturing or launching; 2 and 3 are back in step within it.
MCCycRelatedCycles == 2
MCCycFreeCycles == 3
MCCycClockEdges ==
  {c \in [period : 0 .. MaxPeriod, time : 0 .. MaxPeriod] :
     c.time < c.period \/ (c.time = c.period /\ (EdgeAtEnd \/ c.period = 0))}

-----------------------------------------------------------------------------
(* Invocations                                                             *)

MCCmdSlacks == {-1, 0}
CmdCall(verb, path, out, json, gate, sdf, liberty) ==
  [verb |-> verb, path |-> path, out |-> out, json |-> json, gate |-> gate,
   quiet |-> gate, sdf |-> sdf, liberty |-> liberty, pdk |-> json]
MCCmdCalls ==
  {CmdCall("run", TRUE, o, j, g, s, l) : o \in BOOLEAN, j \in BOOLEAN, g \in BOOLEAN,
                                         s \in BOOLEAN, l \in BOOLEAN}
  \cup {CmdCall(v, p, o, j, g, FALSE, FALSE) :
          v \in {"help", "none", "unknown", "demo", "check", "sdc-lint", "tcl"},
          p \in BOOLEAN, o \in BOOLEAN, j \in BOOLEAN, g \in BOOLEAN}
MCCmdJobs ==
  { [scenarios |-> 0, libs |-> TRUE, sdc |-> TRUE], [scenarios |-> 0, libs |-> TRUE, sdc |-> FALSE],
    [scenarios |-> 2, libs |-> TRUE, sdc |-> TRUE], [scenarios |-> 2, libs |-> FALSE, sdc |-> FALSE] }

-----------------------------------------------------------------------------
(* Scripts                                                                 *)

MCScrMissing == {"gone.sdc"}
ScrLine(kind, fate, gives, needs) ==
  [kind |-> kind, fate |-> fate, gives |-> gives, needs |-> needs,
   well_formed |-> TRUE, clock |-> kind = "create_clock"]
ScrClock == ScrLine("create_clock", "applied", {"clk"}, {})
ScrIn(k) == ScrLine("set_input_delay", "applied", {}, {k})
ScrTcl == [ScrLine("set", "noted", {}, {}) EXCEPT !.well_formed = FALSE]

ScrCommand(verb, file, lines) ==
  [verb |-> verb, file |-> file, lines |-> lines, flags |-> {}, sdc_file |-> FALSE,
   min |-> FALSE, max |-> TRUE, unprinted |-> {}]
ScrVerb(line) == ScrCommand("sdc_verb", "none", <<line>>)
ScrOther(line) == ScrCommand("sdc_command", line.kind, <<line>>)

ScrRefused == ScrVerb(ScrLine("set_case_analysis", "refused_here", {}, {}))
ScrLatency == ScrVerb(ScrLine("set_clock_latency", "latency", {}, {"clk"}))
ScrUnits == ScrCommand("units", "none", <<>>)

ScrBasics ==
  << ScrCommand("read_verilog", "top.v", <<>>), ScrCommand("link_design", "top", <<>>),
     ScrCommand("read_liberty", "lib", <<>>), ScrVerb(ScrClock) >>
ScrMinBasics ==
  << ScrBasics[1], ScrBasics[2], [ScrBasics[3] EXCEPT !.flags = {"-min"}], ScrBasics[4] >>
MCScrOpenings == {<<>>, ScrBasics, ScrMinBasics}

MCScrCommands == Range(ScrBasics) \cup
  { [ScrCommand("read_liberty", "minlib", <<>>) EXCEPT !.flags = {"-min"}],
    ScrCommand("read_verilog", "other.v", <<>>), ScrCommand("read_spef", "top.spef", <<>>),
    [ScrCommand("source", "more.sdc", <<ScrIn("clk"), ScrLine("set_max_time_borrow", "warned", {}, {})>>)
       EXCEPT !.sdc_file = TRUE],
    ScrCommand("source", "procs.tcl", <<>>),
    ScrCommand("read_sdc", "gone.sdc", <<>>),
    [ScrCommand("report_checks", "none", <<>>) EXCEPT !.min = TRUE, !.unprinted = {"-from"}],
    [ScrCommand("report_wns", "none", <<>>) EXCEPT !.min = TRUE, !.max = FALSE],
    ScrCommand("report_worst_slack", "none", <<>>),
    ScrVerb(ScrIn("late_clk")),
    ScrOther(ScrLine("unset_clock", "noted", {"late_clk"}, {"clk"})),
    ScrOther(ScrLine("set_resistance", "refused", {}, {"late_clk"})),
    ScrRefused, ScrLatency, ScrUnits, ScrCommand("read_liberty", "none", <<>>),
    ScrOther(ScrTcl), ScrCommand("other", "puts", <<>>) }

\* A script that passes over its units, a refused line and a latency on its way to a job.
MCScrSilent ==
  { <<ScrBasics[1], ScrBasics[2], ScrVerb(ScrClock), ScrUnits, ScrRefused, ScrLatency,
      ScrBasics[3]>> }
MCScrSilentCommands == Range(ScrBasics) \cup {ScrUnits, ScrRefused, ScrLatency}
=============================================================================
