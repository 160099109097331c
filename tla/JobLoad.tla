------------------------------- MODULE JobLoad ------------------------------
(***************************************************************************)
(* Loading a job (job.rs): parse, load_sdc, merge_sdc_into, validate, and  *)
(* what is said of the constraints that were not applied                   *)
(* (not_applied_warnings and its callers).                                 *)
(*                                                                         *)
(* Of a job file and of a constraint file only what loading tells apart is *)
(* kept: which keys are given, the clocks, and for each command how the    *)
(* reader (vyges_loom) recorded it. A setting's value is where it came     *)
(* from: "default", the "job" file, the "sdc" file, or "zero" - the value  *)
(* the reader has for what a file does not say.                            *)
(***************************************************************************)
EXTENDS Integers, Sequences, FiniteSets, SequencesExt

CONSTANTS
  JobTexts,     \* the job files that may be loaded
  SdcFiles,     \* the constraint files that may be read
  NoClockPort   \* clock_port of a job without a clock

\* Settings both files can give.
Settings == {"input_delay", "output_load", "late_derate", "early_derate",
             "setup_uncertainty", "hold_uncertainty"}

\* How the reader recorded a command that can move a slack: in the record the merge
\* takes, in part or not at all, refused, or kept as written for a consumer.
Records == {"modelled", "read_in_part", "refused", "kept"}

\* Kinds of commands this timer applies though the reader only keeps them, and a
\* kind another of the timers applies.
ModelledHere == {"set_case_analysis", "set_disable_timing", "set_data_check",
                 "set_driving_cell", "set_propagated_clock"}
AppliedElsewhere == {"group_path"}

\* What the constants are.
ConstantsOK ==
  /\ \A t \in JobTexts :
       /\ {t.well_formed, t.design, t.netlist, t.libs, t.scenarios, t.sdc} \subseteq BOOLEAN
       /\ t.given \subseteq Settings
       /\ t.clocks \in Seq(Range(t.clocks))
  /\ \A s \in SdcFiles :
       /\ {s.readable, s.needs_design, s.design_readable} \subseteq BOOLEAN
       /\ s.says \subseteq Settings
       /\ \A c \in s.commands : c.record \in Records
       /\ s.clocks \in Seq(Range(s.clocks))
       /\ \A c \in Range(s.clocks) : c.sources \in Seq(Range(c.sources))

VARIABLES
  text,    \* the job file
  sdc,     \* the constraint file it names
  phase,   \* "parse", "load_sdc", "merge", "loaded" or "failed"
  clocks,  \* job.clocks: <<name, source, period>>
  primary, \* job.clock_port with job.period_ns
  setting, \* where the value of each setting came from
  applied  \* the commands of the constraint file the job took

vars == <<text, sdc, phase, clocks, primary, setting, applied>>

Init ==
  /\ text \in JobTexts
  /\ sdc \in SdcFiles
  /\ phase = "parse"
  /\ clocks = <<>>
  /\ primary = <<NoClockPort, 0>>
  /\ setting = [s \in Settings |-> "default"]
  /\ applied = {}

-----------------------------------------------------------------------------
(* parse and validate                                                      *)

\* A job of several scenarios is validated scenario by scenario.
Valid(t, p) ==
  t.scenarios \/ (t.netlist /\ t.libs /\ p[1] # NoClockPort /\ p[2] > 0)

\* A bad line, no design, or neither a clock nor something that may supply one.
Malformed ==
  \/ ~text.well_formed \/ ~text.design
  \/ text.clocks = <<>> /\ ~text.scenarios /\ ~text.sdc

\* The clock a job file's first `clock:` line gives.
PrimaryOf(cs) == IF cs = <<>> THEN <<NoClockPort, 0>> ELSE <<cs[1][2], cs[1][3]>>

Parse ==
  /\ phase = "parse"
  /\ \/ Malformed /\ phase' = "failed" /\ UNCHANGED <<clocks, primary, setting>>
     \/ /\ ~Malformed
        /\ clocks' = text.clocks
        /\ primary' = PrimaryOf(text.clocks)
        /\ setting' = [s \in Settings |-> IF s \in text.given THEN "job" ELSE "default"]
        /\ phase' = IF text.sdc THEN "load_sdc"
                    ELSE IF Valid(text, primary') THEN "loaded" ELSE "failed"
  /\ UNCHANGED <<text, sdc, applied>>

\* The constraints are read; a file whose queries or generated clocks need the design
\* is read again with the job's netlist and libraries, when it has a netlist.
LoadSdc ==
  /\ phase = "load_sdc"
  /\ phase' = IF sdc.readable /\ (sdc.needs_design /\ text.netlist => sdc.design_readable)
              THEN "merge" ELSE "failed"
  /\ UNCHANGED <<text, sdc, clocks, primary, setting, applied>>

-----------------------------------------------------------------------------
(* merge_sdc_into                                                          *)

\* One entry per source of each clock, in the file's order, all under its name.
Sources(c) == IF c.sources = <<>> THEN <<NoClockPort>> ELSE c.sources
Entries(c) == [i \in DOMAIN Sources(c) |-> <<c.name, Sources(c)[i], c.period>>]

\* A list that keeps only the first source of each clock.
ListedFirst(cs) == [k \in DOMAIN cs |-> Entries(cs[k])[1]]

Listed(cs) == FlattenSeq([k \in DOMAIN cs |-> Entries(cs[k])])

\* A virtual clock is known by its name.
PortOf(entry) == IF entry[2] = NoClockPort THEN entry[1] ELSE entry[2]

\* Settings the merge writes whatever the file says.
AlwaysWritten == {"setup_uncertainty", "hold_uncertainty"}

Merge ==
  /\ phase = "merge"
  /\ \/ sdc.clocks = <<>> /\ UNCHANGED <<clocks, primary>>
     \/ /\ sdc.clocks # <<>>
        /\ clocks' = Listed(sdc.clocks)
        /\ primary' = <<PortOf(clocks'[1]), clocks'[1][3]>>
  /\ setting' = [s \in Settings |->
       IF s \in sdc.says THEN "sdc" ELSE IF s \in AlwaysWritten THEN "zero" ELSE setting[s]]
  /\ applied' = {c \in sdc.commands : c.record = "modelled" \/
                                      (c.record = "kept" /\ c.kind \in ModelledHere)}
  /\ phase' = IF Valid(text, primary') THEN "loaded" ELSE "failed"
  /\ UNCHANGED <<text, sdc>>

Next == Parse \/ LoadSdc \/ Merge

Spec == Init /\ [][Next]_vars

-----------------------------------------------------------------------------
(* What is said of the rest                                                *)

KindsOf(records) == {c.kind : c \in {d \in sdc.commands : d.record \in records}}

\* Warnings that leave out what only some other timer applies.
WarningsOfOwn == KindsOf({"refused"}) \ ModelledHere

\* One line per kind: what the reader refused, what it kept and what it reads and this
\* timer does not, less the kinds modelled here.
NotAppliedWarnings ==
  (KindsOf({"refused", "kept"}) \ ModelledHere)
  \cup (KindsOf({"kept"}) \cap AppliedElsewhere)
  \cup KindsOf({"read_in_part"})

\* The reader's own health line counts what it refused; a command line run prints it.
HealthLine == KindsOf({"refused"})

Said == NotAppliedWarnings \cup HealthLine

-----------------------------------------------------------------------------
(* Properties                                                              *)

\* Phases, clocks and settings have their types (struct StaJob, job.rs:143).
TypeOK ==
  /\ phase \in {"parse", "load_sdc", "merge", "loaded", "failed"}
  /\ setting \in [Settings -> {"default", "job", "sdc", "zero"}]
  /\ applied \subseteq sdc.commands

\* A job that loads can be analysed: wherever its clock came from - the job file, or a
\* constraint file that may state several clocks, clocks on several ports, a virtual
\* one, or one of period zero - it has a netlist, libraries and a first clock with a
\* positive period, and the scalar clock the rest of the engine reads is that clock
\* (validate, job.rs:580; merge_sdc_into, job.rs:632).
LoadedIsRunnable ==
  phase = "loaded" /\ ~text.scenarios =>
    /\ text.netlist /\ text.libs
    /\ clocks # <<>> /\ clocks[1][3] > 0
    /\ primary = <<PortOf(clocks[1]), clocks[1][3]>>
    /\ text.sdc => \A k \in DOMAIN sdc.clocks : \A s \in Range(sdc.clocks[k].sources) :
         <<sdc.clocks[k].name, s, sdc.clocks[k].period>> \in Range(clocks)

\* No constraint is silently dropped on a command line run: what can move a slack and
\* the job did not take is named in a warning ("Never silently drop a constraint",
\* main.rs:649; not_applied_warnings, job.rs:889).
SaidOrApplied ==
  phase = "loaded" /\ text.sdc /\ ~text.scenarios =>
    \A c \in sdc.commands : c \in applied \/ c.kind \in Said

\* "Explicit .sta values are kept where SDC is silent" (job.rs:599).
ExplicitKept ==
  phase = "loaded" => \A s \in text.given \ sdc.says : setting[s] = "job"
=============================================================================
