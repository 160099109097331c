------------------------------ MODULE FrontEnd ------------------------------
(***************************************************************************)
(* The parts in front of the analysis: the readers of the constraint file, *)
(* the constants and the clock relations, the loading of a job, the        *)
(* command line and the Tcl adapter. One behaviour is of one part, the     *)
(* `reader`; the variables of the others stay Idle.                        *)
(***************************************************************************)
EXTENDS Integers, Sequences, FiniteSets

CONSTANTS
  Readers,     \* the parts at work: one in each behaviour
  MaxCommands, \* bound on the commands of a constraint file
  MaxCases,    \* bound on the constant commands
  MaxMore,     \* bound on a script's commands after its opening
  Any,         \* a -from or -to that is not given
  Unset,       \* a number that is not there: margin, arrival, delay, slack
  Idle         \* what the variables of the other parts hold

\* The constants of the parts, each under its part's prefix.
CONSTANTS
  DisInsts, DisCells, DisCellOf, DisPortBits, DisBits, DisTopPorts,
  DisMatches, DisCommands,
  ChkNodes, ChkNodeOf, ChkCommands, ChkEarly, ChkLate, ChkRegisterPins,
  ChkPeriod, ChkUncertainty, ChkNoNode,
  DelPorts, DelClockPorts, DelEdges, DelCommands, DelAllBut, DelDefaultDelay,
  DelDefaultSlew, DelCapture, DelUncertainty, DelNoClock,
  ExcClocks, ExcMatches, ExcStatements, ExcPaths, ExcNoClock, ExcNoName,
  ExcStar,
  LdJobTexts, LdSdcFiles, LdNoClockPort,
  SiInsts, SiInPins, SiOutPins, SiSupport, SiFunction, SiDisableOf, SiInPorts,
  SiOutPorts, SiLoads, SiTies, SiArcs, SiCases, SiUnknown, SiNoPin,
  CycClockEdges, CycRelatedCycles, CycFreeCycles,
  CmdCalls, CmdJobs, CmdSlacks,
  ScrCommands, ScrOpenings, ScrMissing, ScrNoFile

-----------------------------------------------------------------------------
(* The parts and their composition                                         *)

VARIABLES
  reader, \* the part at work
  dis_sdc, pins, lib_ports, insts, cells, dis_warned,
  chk_sdc, checks, chk_warned,
  del_sdc, delays, slew,
  exceptions, refused,
  text, job_sdc, job_phase, clocks, primary, setting, applied,
  cases, sim_phase, seeds, value, queue, annotate, sim_warned, sense,
  src, tgt, tgt_cycle, src_cycle, setup, hold, tgt_past_src, src_past_tgt, cyc_phase,
  cli, cli_job, cli_phase, results, lint, said, files, stdout, code,
  script, netlist, design, spef, libs, min_libs, scr_sdc, cmds, ignored, scr_phase,
  scr_job, warnings, blocks

DisVars ==
  <<dis_sdc, pins, lib_ports, insts, cells, dis_warned>>
ChkVars ==
  <<chk_sdc, checks, chk_warned>>
DelVars ==
  <<del_sdc, delays, slew>>
ExcVars ==
  <<exceptions, refused>>
LdVars ==
  <<text, job_sdc, job_phase, clocks, primary, setting, applied>>
SiVars ==
  <<cases, sim_phase, seeds, value, queue, annotate, sim_warned, sense>>
CycVars ==
  <<src, tgt, tgt_cycle, src_cycle, setup, hold, tgt_past_src, src_past_tgt, cyc_phase>>
CmdVars ==
  <<cli, cli_job, cli_phase, results, lint, said, files, stdout, code>>
ScrVars ==
  <<script, netlist, design, spef, libs, min_libs, scr_sdc, cmds, ignored, scr_phase,
    scr_job, warnings, blocks>>
vars ==
  <<reader, DisVars, ChkVars, DelVars, ExcVars, LdVars, SiVars, CycVars, CmdVars, ScrVars>>

Dis == INSTANCE Disables WITH
  Insts <- DisInsts, Cells <- DisCells, CellOf <- DisCellOf, PortBits <- DisPortBits,
  Bits <- DisBits, TopPorts <- DisTopPorts, Matches <- DisMatches,
  Commands <- DisCommands, sdc <- dis_sdc, warned <- dis_warned
Chk == INSTANCE DataChecks WITH
  Nodes <- ChkNodes, NodeOf <- ChkNodeOf, Commands <- ChkCommands, Early <- ChkEarly,
  Late <- ChkLate, RegisterPins <- ChkRegisterPins, Period <- ChkPeriod,
  Uncertainty <- ChkUncertainty, NoNode <- ChkNoNode, Unreached <- Unset,
  NoMargin <- Unset, sdc <- chk_sdc, warned <- chk_warned
Del == INSTANCE PortDelays WITH
  Ports <- DelPorts, ClockPorts <- DelClockPorts, ClockEdges <- DelEdges,
  Commands <- DelCommands, AllBut <- DelAllBut, DefaultDelay <- DelDefaultDelay,
  DefaultSlew <- DelDefaultSlew,
  Capture <- DelCapture, Uncertainty <- DelUncertainty, NoClock <- DelNoClock, sdc <- del_sdc
Exc == INSTANCE Exceptions WITH
  Clocks <- ExcClocks, Matches <- ExcMatches, Statements <- ExcStatements,
  MaxExceptions <- MaxCommands, Paths <- ExcPaths, NoClock <- ExcNoClock,
  NoName <- ExcNoName, Star <- ExcStar
Ld == INSTANCE JobLoad WITH
  JobTexts <- LdJobTexts, SdcFiles <- LdSdcFiles, NoClockPort <- LdNoClockPort,
  sdc <- job_sdc, phase <- job_phase
Si == INSTANCE Sim WITH
  Insts <- SiInsts, InPins <- SiInPins, OutPins <- SiOutPins, Support <- SiSupport,
  Function <- SiFunction, DisableOf <- SiDisableOf, InPorts <- SiInPorts,
  OutPorts <- SiOutPorts, Loads <- SiLoads, Ties <- SiTies, Arcs <- SiArcs,
  Cases <- SiCases, Unknown <- SiUnknown, NoPin <- SiNoPin, phase <- sim_phase,
  warned <- sim_warned
Cyc == INSTANCE CycleAccting WITH
  ClockEdges <- CycClockEdges, RelatedCycles <- CycRelatedCycles, FreeCycles <- CycFreeCycles,
  phase <- cyc_phase
Cmd == INSTANCE CommandLine WITH
  Calls <- CmdCalls, Jobs <- CmdJobs, Slacks <- CmdSlacks, None <- Unset,
  job <- cli_job, phase <- cli_phase
Scr == INSTANCE TclAdapter WITH
  Commands <- ScrCommands, Openings <- ScrOpenings, Missing <- ScrMissing,
  NoFile <- ScrNoFile, sdc <- scr_sdc, phase <- scr_phase, job <- scr_job

DisIdle ==
  /\ dis_sdc = Idle /\ pins = Idle /\ lib_ports = Idle /\ insts = Idle /\ cells = Idle
  /\ dis_warned = Idle
ChkIdle ==
  /\ chk_sdc = Idle /\ checks = Idle /\ chk_warned = Idle
DelIdle ==
  /\ del_sdc = Idle /\ delays = Idle /\ slew = Idle
ExcIdle ==
  /\ exceptions = Idle /\ refused = Idle
LdIdle ==
  /\ text = Idle /\ job_sdc = Idle /\ job_phase = Idle /\ clocks = Idle
  /\ primary = Idle /\ setting = Idle /\ applied = Idle
SiIdle ==
  /\ cases = Idle /\ sim_phase = Idle /\ seeds = Idle /\ value = Idle /\ queue = Idle
  /\ annotate = Idle /\ sim_warned = Idle /\ sense = Idle
CycIdle ==
  /\ src = Idle /\ tgt = Idle /\ tgt_cycle = Idle /\ src_cycle = Idle /\ setup = Idle
  /\ hold = Idle /\ tgt_past_src = Idle /\ src_past_tgt = Idle /\ cyc_phase = Idle
CmdIdle ==
  /\ cli = Idle /\ cli_job = Idle /\ cli_phase = Idle /\ results = Idle /\ lint = Idle
  /\ said = Idle /\ files = Idle /\ stdout = Idle /\ code = Idle
ScrIdle ==
  /\ script = Idle /\ netlist = Idle /\ design = Idle /\ spef = Idle /\ libs = Idle
  /\ min_libs = Idle /\ scr_sdc = Idle /\ cmds = Idle /\ ignored = Idle
  /\ scr_phase = Idle /\ scr_job = Idle /\ warnings = Idle /\ blocks = Idle

ASSUME FrontEndAssumption ==
  /\ Dis!ConstantsOK /\ Chk!ConstantsOK /\ Del!ConstantsOK /\ Exc!ConstantsOK
  /\ Ld!ConstantsOK /\ Si!ConstantsOK /\ Cyc!ConstantsOK /\ Cmd!ConstantsOK
  /\ Scr!ConstantsOK

Parts ==
  {"disables", "data_checks", "port_delays", "exceptions", "job", "sim", "cycles",
   "cli", "script"}

ASSUME ReadersAssumption == Readers \subseteq Parts

Init ==
  /\ reader \in Readers
  /\ IF reader = "disables" THEN Dis!Init ELSE DisIdle
  /\ IF reader = "data_checks" THEN Chk!Init ELSE ChkIdle
  /\ IF reader = "port_delays" THEN Del!Init ELSE DelIdle
  /\ IF reader = "exceptions" THEN Exc!Init ELSE ExcIdle
  /\ IF reader = "job" THEN Ld!Init ELSE LdIdle
  /\ IF reader = "sim" THEN Si!Init ELSE SiIdle
  /\ IF reader = "cycles" THEN Cyc!Init ELSE CycIdle
  /\ IF reader = "cli" THEN Cmd!Init ELSE CmdIdle
  /\ IF reader = "script" THEN Scr!Init ELSE ScrIdle

DisStep ==
  /\ reader = "disables" /\ Dis!Next
  /\ UNCHANGED <<reader, ChkVars, DelVars, ExcVars, LdVars, SiVars, CycVars, CmdVars, ScrVars>>
ChkStep ==
  /\ reader = "data_checks" /\ Chk!Next
  /\ UNCHANGED <<reader, DisVars, DelVars, ExcVars, LdVars, SiVars, CycVars, CmdVars, ScrVars>>
DelStep ==
  /\ reader = "port_delays" /\ Del!Next
  /\ UNCHANGED <<reader, DisVars, ChkVars, ExcVars, LdVars, SiVars, CycVars, CmdVars, ScrVars>>
ExcStep ==
  /\ reader = "exceptions" /\ Exc!Next
  /\ UNCHANGED <<reader, DisVars, ChkVars, DelVars, LdVars, SiVars, CycVars, CmdVars, ScrVars>>
LdStep ==
  /\ reader = "job" /\ Ld!Next
  /\ UNCHANGED <<reader, DisVars, ChkVars, DelVars, ExcVars, SiVars, CycVars, CmdVars, ScrVars>>
SiStep ==
  /\ reader = "sim" /\ Si!Next
  /\ UNCHANGED <<reader, DisVars, ChkVars, DelVars, ExcVars, LdVars, CycVars, CmdVars, ScrVars>>
CycStep ==
  /\ reader = "cycles" /\ Cyc!Next
  /\ UNCHANGED <<reader, DisVars, ChkVars, DelVars, ExcVars, LdVars, SiVars, CmdVars, ScrVars>>
CmdStep ==
  /\ reader = "cli" /\ Cmd!Next
  /\ UNCHANGED <<reader, DisVars, ChkVars, DelVars, ExcVars, LdVars, SiVars, CycVars, ScrVars>>
ScrStep ==
  /\ reader = "script" /\ Scr!Next
  /\ UNCHANGED <<reader, DisVars, ChkVars, DelVars, ExcVars, LdVars, SiVars, CycVars, CmdVars>>

Next ==
  \/ DisStep \/ ChkStep \/ DelStep \/ ExcStep \/ LdStep \/ SiStep \/ CycStep \/ CmdStep
  \/ ScrStep

\* A walk over clock cycles and a propagation of constants run to their ends.
Spec ==
  /\ Init /\ [][Next]_vars
  /\ WF_SiVars(SiStep) /\ WF_CycVars(CycStep)

-----------------------------------------------------------------------------
(* The properties of the parts                                             *)

\* The part at work has its types.
TypeOK ==
  CASE reader = "disables" -> Dis!TypeOK
    [] reader = "data_checks" -> Chk!TypeOK
    [] reader = "port_delays" -> Del!TypeOK
    [] reader = "exceptions" -> Exc!TypeOK
    [] reader = "job" -> Ld!TypeOK
    [] reader = "sim" -> Si!TypeOK
    [] reader = "cycles" -> Cyc!TypeOK
    [] reader = "cli" -> Cmd!TypeOK
    [] reader = "script" -> Scr!TypeOK

\* An arc is in the graph unless the file disabled it and did not take that back in
\* the same words (disable.rs:136).
ArcsFollowFile == reader = "disables" => Dis!ArcsFollowFile

\* Disabling whole instances and cells loses no timing check (disable.rs:41).
ChecksSurviveAll == reader = "disables" => Dis!ChecksSurviveAll

\* A data check's margin is that of the last command on its pins and slot
\* (data_check.rs:77).
MarginsFollowFile == reader = "data_checks" => Chk!MarginsFollowFile

\* A data check taken back tightens nothing (data_check.rs:117).
UnsetsOnlyRelax ==
  [][reader = "data_checks" => Chk!UnsetRelaxes]_ChkVars

\* A port's delays and transitions are those still in force (job.rs:107, 280).
SlotsFollowFile == reader = "port_delays" => Del!SlotsFollowFile

\* An -add_delay loses no arrival and relaxes no requirement (job.rs:106).
AddsOnlyWiden ==
  [][reader = "port_delays" => Del!AddWidens]_DelVars

\* A check is dropped exactly where a false path for it covers the path (exc.rs:245).
DroppedByFalsePathOnly == reader = "exceptions" => Exc!DroppedByFalsePathOnly

\* The hold edge moves with the setup edge (exc.rs:323).
HoldFollowsSetup == reader = "exceptions" => Exc!HoldFollowsSetup

\* The order of the exceptions in the file is immaterial (exc.rs:299).
OrderImmaterial == reader = "exceptions" => Exc!OrderImmaterial

\* A job that loads can be analysed (job.rs:580).
LoadedIsRunnable == reader = "job" => Ld!LoadedIsRunnable

\* No constraint that can move a slack is silently dropped (job.rs:889).
SaidOrApplied == reader = "job" => Ld!SaidOrApplied

\* "Explicit .sta values are kept where SDC is silent" (job.rs:599).
ExplicitKept == reader = "job" => Ld!ExplicitKept

\* The constants are those the whole netlist settles at (sim.rs:210).
ValuesAreTheClosure == reader = "sim" => Si!ValuesAreTheClosure

\* A constraint that contradicts the netlist is said (sim.rs:303).
ConflictsSaid == reader = "sim" => Si!ConflictsSaid

\* Timing arcs carry the transitions the constants leave free (sim.rs:385).
TimedIsWhatSwitches == reader = "sim" => Si!TimedIsWhatSwitches

\* The work list of the propagation runs empty (sim.rs:341).
Settles == reader = "sim" => Si!Settles

\* The setup and hold relations of two clocks are the closest there are (sta.rs:154).
RelationIsClosest == reader = "cycles" => Cyc!RelationIsClosest

\* The walk over the cycles of two clocks ends (sta.rs:182).
WalkEnds == reader = "cycles" => Cyc!WalkEnds

\* The exit code of --fail-on-violation agrees with every report (main.rs:397).
GateTellsTheVerdict == reader = "cli" => Cmd!GateTellsTheVerdict

\* Success is not reported without its results (main.rs:238).
SuccessDelivers == reader = "cli" => Cmd!SuccessDelivers

\* What a Tcl script asks is in the job or said, but for what is passed over (tcl.rs:152).
AppliedOrSaid == reader = "script" => Scr!AppliedOrSaid

\* Nothing a Tcl script says is dropped in silence (tcl.rs:24, main.rs:764).
NothingSilent == reader = "script" => Scr!NothingSilent

\* A line the constraint reader cannot evaluate costs only itself (tcl.rs:138).
CostsOnlyItself == reader = "script" => Scr!CostsOnlyItself

\* Reports answer a script command by command (tcl.rs:403).
ReportsInOrder == reader = "script" => Scr!ReportsInOrder
=============================================================================
