----------------------------- MODULE TclAdapter -----------------------------
(***************************************************************************)
(* adapt (tcl.rs): a tool script read command by command into a job, the   *)
(* reports it asks for and the notes of what was left out; and render, the *)
(* report blocks. A script grows here by the command that is read next.    *)
(*                                                                         *)
(* A command is a record of its verb and of the arguments adapt looks at.  *)
(* Whether a constraint line reads depends on the lines before it (it may  *)
(* need a clock they define): `needs` and `gives` stand for that, and      *)
(* `fate` for what the merge into the job made of it. Two commands and two *)
(* fates leave no trace at all: PassedOver and Unsaid name them.           *)
(***************************************************************************)
EXTENDS Naturals, Sequences, FiniteSets, SequencesExt

CONSTANTS
  Commands,    \* the commands a script may hold
  Openings,    \* sequences of commands scripts open with
  MaxMore,     \* bound on the commands after the opening
  Missing,     \* the files that cannot be read
  NoFile       \* an argument that is not given; no netlist, design or SPEF yet

\* What the merge made of a constraint line: in the job, warned of by its kind as it can
\* move a slack, listed as not modelled, or refused by the reader - of a kind that moves
\* no slack, or of one this timer models, which no list of the commands left out has; or
\* a clock latency that does not cancel, of which the job path alone warns.
Fates == {"applied", "warned", "noted", "refused", "refused_here", "latency"}

\* The verbs that ask for a report, those that can hold constraint lines, and those that
\* name a part of the job.
ReportVerbs == {"report_checks", "report_wns", "report_tns", "report_worst_slack"}
LineVerbs == {"read_sdc", "source", "sdc_verb", "sdc_command"}
FileVerbs == {"read_verilog", "link_design", "read_spef", "read_liberty"}
Verbs == ReportVerbs \cup LineVerbs \cup FileVerbs \cup {"units", "other"}

\* What the constants are.
ConstantsOK ==
  \A c \in Commands :
    /\ c.verb \in Verbs /\ {c.sdc_file, c.min, c.max} \subseteq BOOLEAN
    /\ c.lines \in Seq(Range(c.lines))
    /\ c.verb = "sdc_command" => Len(c.lines) = 1
    /\ c.lines # <<>> => c.verb \in LineVerbs
    /\ \A l \in Range(c.lines) : l.fate \in Fates /\ l.well_formed \in BOOLEAN

VARIABLES
  script,   \* the commands read so far
  netlist, design, spef,
  libs, min_libs,
  sdc,      \* the combined constraint text: [line, by, at], by what branch and what
            \* command of the script it was added
  cmds,     \* the reports asked for, in order
  ignored,  \* what is noted as left out
  phase,    \* "read", "done" or "failed"
  job,      \* the job: [netlist, design, libs, spef, applied]
  warnings, \* the kinds of constraints warned of
  blocks    \* the report blocks printed

vars == <<script, netlist, design, spef, libs, min_libs, sdc, cmds, ignored,
          phase, job, warnings, blocks>>

NoJob == [netlist |-> NoFile, design |-> NoFile, libs |-> <<>>, spef |-> NoFile, applied |-> {}]

Init ==
  /\ script = <<>>
  /\ netlist = NoFile /\ design = NoFile /\ spef = NoFile
  /\ libs = <<>> /\ min_libs = <<>>
  /\ sdc = <<>> /\ cmds = <<>> /\ ignored = {}
  /\ phase = "read" /\ job = NoJob /\ warnings = {} /\ blocks = <<>>

-----------------------------------------------------------------------------
(* The constraint reader                                                   *)

Given(text) == UNION {text[k].line.gives : k \in DOMAIN text}
Reads(text, line) == line.well_formed /\ line.needs \subseteq Given(text)

\* The text reads to its end.
Parses(text) == \A k \in DOMAIN text : Reads(SubSeq(text, 1, k - 1), text[k].line)

\* A reader that is handed every line.
ForwardedAlways(text, line) == TRUE

\* A line goes to the reader when the text still reads with it, or did not without it.
Forwarded(text, line) == ~Parses(text) \/ Reads(text, line)

By(branch, lines) ==
  [k \in DOMAIN lines |-> [line |-> lines[k], by |-> branch, at |-> Len(script) + 1]]

-----------------------------------------------------------------------------
(* One command                                                             *)

Note(c) == [verb |-> c.verb, file |-> c.file]

\* Whatever a command does not touch.
Files == UNCHANGED <<netlist, design, spef, libs, min_libs>>
Texts == UNCHANGED <<sdc, cmds, phase>>

ReadDesign(c) ==
  /\ c.verb \in {"read_verilog", "link_design", "read_spef"}
  /\ netlist' = IF c.verb = "read_verilog" /\ c.file # NoFile THEN c.file ELSE netlist
  /\ design' = IF c.verb = "link_design" /\ c.file # NoFile THEN c.file ELSE design
  /\ spef' = IF c.verb = "read_spef" /\ c.file # NoFile THEN c.file ELSE spef
  /\ UNCHANGED <<libs, min_libs, ignored>> /\ Texts

\* A library of the min analysis alone is set aside, and said.
ReadLiberty(c) ==
  /\ c.verb = "read_liberty"
  /\ \/ c.file = NoFile /\ UNCHANGED <<libs, min_libs, ignored>>
     \/ /\ c.file # NoFile /\ c.flags = {"-min"}
        /\ min_libs' = Append(min_libs, c.file) /\ ignored' = ignored \cup {Note(c)}
        /\ UNCHANGED libs
     \/ /\ c.file # NoFile /\ c.flags # {"-min"}
        /\ libs' = Append(libs, c.file) /\ UNCHANGED <<min_libs, ignored>>
  /\ UNCHANGED <<netlist, design, spef>> /\ Texts

\* The units of a script (set_cmd_units, set_units) are taken to be the engine's.
SetUnits(c) ==
  /\ c.verb = "units"
  /\ UNCHANGED ignored /\ Files /\ Texts

\* A file read as it is; one that is not there ends the adaptation, and a source of
\* anything else is noted.
ReadSdc(c) ==
  /\ c.verb \in {"read_sdc", "source"}
  /\ \/ /\ c.file = NoFile \/ (c.verb = "source" /\ ~c.sdc_file)
        /\ ignored' = ignored \cup {Note(c)} /\ Texts
     \/ /\ c.file # NoFile /\ (c.verb = "read_sdc" \/ c.sdc_file)
        /\ \/ c.file \in Missing /\ phase' = "failed" /\ UNCHANGED <<sdc, cmds>>
           \/ /\ c.file \notin Missing
              /\ sdc' = sdc \o By("file", c.lines) /\ UNCHANGED <<cmds, phase>>
        /\ UNCHANGED ignored
  /\ Files

\* report_checks has its delay types, its columns and options, each it does not print
\* noted; the others have -min alone.
Report(c) ==
  /\ c.verb \in ReportVerbs
  /\ cmds' = Append(cmds, [what |-> c.verb, min |-> c.min, max |-> c.max])
  /\ ignored' = ignored \cup {[verb |-> c.verb, file |-> o] : o \in c.unprinted}
  /\ Files /\ UNCHANGED <<sdc, phase>>

\* A verb of the fixed list is handed on unread.
SdcVerb(c) ==
  /\ c.verb = "sdc_verb"
  /\ sdc' = sdc \o By("verb", c.lines)
  /\ Files /\ UNCHANGED <<cmds, ignored, phase>>

\* Another command of the reader is handed on if it reads.
SdcCommand(c) ==
  /\ c.verb = "sdc_command"
  /\ \/ /\ Forwarded(sdc, c.lines[1])
        /\ sdc' = sdc \o By("trial", c.lines) /\ UNCHANGED ignored
     \/ /\ ~Forwarded(sdc, c.lines[1])
        /\ ignored' = ignored \cup {Note(c)} /\ UNCHANGED sdc
  /\ Files /\ UNCHANGED <<cmds, phase>>

OtherTcl(c) ==
  /\ c.verb = "other"
  /\ ignored' = ignored \cup {Note(c)}
  /\ Files /\ Texts

\* A script the bounds allow.
Allowed(s) ==
  \E o \in Openings : IsPrefix(s, o) \/ (IsPrefix(o, s) /\ Len(s) <= Len(o) + MaxMore)

ReadCommand(c) ==
  /\ phase = "read" /\ Allowed(Append(script, c))
  /\ script' = Append(script, c)
  /\ \/ ReadDesign(c) \/ ReadLiberty(c) \/ ReadSdc(c) \/ SetUnits(c) \/ Report(c)
     \/ SdcVerb(c) \/ SdcCommand(c) \/ OtherTcl(c)
  /\ UNCHANGED <<job, warnings, blocks>>

-----------------------------------------------------------------------------
(* The end of the script                                                   *)

\* Libraries of the min analysis count when there is no other.
LibsOf == IF libs = <<>> THEN min_libs ELSE libs

Lines == {sdc[k].line : k \in DOMAIN sdc}
HasClock == \E l \in Lines : l.clock

\* An end check that does not look for libraries.
IncompleteButForLibs == design = NoFile \/ netlist = NoFile \/ ~Parses(sdc) \/ ~HasClock

\* No design, netlist, library or clock, or constraints that do not read.
Incomplete ==
  \/ design = NoFile \/ netlist = NoFile \/ LibsOf = <<>>
  \/ ~Parses(sdc) \/ ~HasClock

\* One warning per kind that can move a slack; the other kinds the reader did not
\* model, and its refusals of kinds no warning is about, are noted.
Warned == {l.kind : l \in {m \in Lines : m.fate = "warned"}}

\* Notes without the refusals.
NotedOnly == {l.kind : l \in {m \in Lines : m.fate = "noted"}}

Noted == {l.kind : l \in {m \in Lines : m.fate \in {"noted", "refused"}}} \ Warned

\* Nothing asked for: the default reports.
Defaulted(asked) ==
  IF asked = <<>>
  THEN << [what |-> "report_checks", min |-> FALSE, max |-> TRUE],
          [what |-> "report_wns", min |-> FALSE, max |-> TRUE],
          [what |-> "report_tns", min |-> FALSE, max |-> TRUE] >>
  ELSE asked

Finish ==
  /\ phase = "read"
  /\ \/ Incomplete /\ phase' = "failed" /\ UNCHANGED <<job, cmds, ignored, warnings>>
     \/ /\ ~Incomplete
        /\ job' = [netlist |-> netlist, design |-> design, libs |-> LibsOf, spef |-> spef,
                   applied |-> {l \in Lines : l.fate = "applied"}]
        /\ warnings' = Warned
        /\ ignored' = ignored \cup {[verb |-> "(sdc)", file |-> k] : k \in Noted}
        /\ cmds' = Defaulted(cmds)
        /\ phase' = "done"
  /\ UNCHANGED <<script, netlist, design, spef, libs, min_libs, sdc, blocks>>

-----------------------------------------------------------------------------
(* render                                                                  *)

\* Of a command with both delay types, only the max ends first.
EndsMaxFirst(cmd, paths) ==
  (IF cmd.max /\ "max" \in paths THEN <<"max">> ELSE <<>>) \o
    (IF cmd.min /\ "min" \in paths THEN <<"min">> ELSE <<>>)

\* The ends of a report_checks block, min before max, of the analyses that have paths.
Ends(cmd, paths) ==
  (IF cmd.min /\ "min" \in paths THEN <<"min">> ELSE <<>>) \o
    (IF cmd.max /\ "max" \in paths THEN <<"max">> ELSE <<>>)

\* A worst slack is shown as such, or as zero when it is positive or there is none.
Number(cmd, bad) ==
  IF cmd.what = "report_wns" /\ ~bad THEN "zero" ELSE "value"

Block(cmd, paths, bad) ==
  IF cmd.what = "report_checks" THEN [what |-> cmd.what, shows |-> Ends(cmd, paths)]
  ELSE [what |-> cmd.what,
        shows |-> <<IF cmd.min THEN "min" ELSE "max",
                    Number(cmd, (IF cmd.min THEN "min" ELSE "max") \in bad)>>]

Render ==
  /\ phase = "done" /\ blocks = <<>>
  /\ \E paths \in SUBSET {"min", "max"} : \E bad \in SUBSET paths :
       blocks' = [k \in DOMAIN cmds |-> Block(cmds[k], paths, bad)]
  /\ UNCHANGED <<script, netlist, design, spef, libs, min_libs, sdc, cmds, ignored, phase,
                 job, warnings>>

Next == (\E c \in Commands : ReadCommand(c)) \/ Finish \/ Render

Spec == Init /\ [][Next]_vars

-----------------------------------------------------------------------------
(* Properties                                                              *)

\* An adapted job has a netlist, a design and libraries (struct Adapted, tcl.rs:101).
TypeOK ==
  /\ phase \in {"read", "done", "failed"}
  /\ phase = "done" => {job.netlist, job.design} \cap {NoFile} = {} /\ job.libs # <<>>
  /\ \A k \in DOMAIN sdc : sdc[k].by \in {"file", "verb", "trial"} /\ sdc[k].line.fate \in Fates

\* Whether the job, a warning or a note has a constraint line.
LineSaid(l) ==
  l \in job.applied \/ l.kind \in warnings \/ [verb |-> "(sdc)", file |-> l.kind] \in ignored

\* The last command of a verb that names a file.
LastFile(verb) ==
  LET K == {k \in DOMAIN script : script[k].verb = verb /\ script[k].file # NoFile}
  IN IF K = {} THEN NoFile ELSE script[CHOOSE k \in K : \A j \in K : j <= k].file

\* Whether a command went into the job, its reports or its constraints, or is noted.
CommandHeard(c) ==
  \/ Note(c) \in ignored
  \/ c.verb \in ReportVerbs \cup {"sdc_verb", "sdc_command"}
  \/ c.verb \in FileVerbs \ {"read_liberty"} /\ c.file # NoFile
  \/ c.verb = "read_liberty" /\ c.file \in Range(job.libs)
  \/ c.verb \in {"read_sdc", "source"} /\ c.file # NoFile /\ (c.verb = "read_sdc" \/ c.sdc_file)

\* Whether a line of a command is in the job, warned of or noted, or its command is.
LineHeard(c, l) == LineSaid(l) \/ Note(c) \in ignored

\* The commands adapt passes over without a word: the units of the script, and a read
\* that names no file.
PassedOver(c) == c.verb = "units" \/ (c.verb \in FileVerbs /\ c.file = NoFile)

\* The lines no list of a script has: refused ones of a kind in MODELLED_HERE, and clock
\* latencies that do not cancel.
Unsaid(l) == l.fate \in {"refused_here", "latency"}

\* What a script asks is in the job or said: when it is adapted, the job has the last
\* netlist, design and SPEF it names, every command that is not PassedOver is heard, and
\* so is every constraint line that is not Unsaid (adapt, tcl.rs:152).
AppliedOrSaid ==
  phase = "done" =>
    /\ <<job.netlist, job.design, job.spef>> =
         <<LastFile("read_verilog"), LastFile("link_design"), LastFile("read_spef")>>
    /\ \A k \in DOMAIN script :
         /\ CommandHeard(script[k]) \/ PassedOver(script[k])
         /\ \A l \in Range(script[k].lines) : LineHeard(script[k], l) \/ Unsaid(l)

CommandsHeard == \A k \in DOMAIN script : CommandHeard(script[k])
LinesHeard == \A k \in DOMAIN script : \A l \in Range(script[k].lines) : LineHeard(script[k], l)

\* Nothing an adapted script says is dropped in silence: what is outside the subset is
\* reported as ignored, "never silently dropped" (tcl.rs:24), and "a timing constraint not
\* applied is a warning, with its count" (main.rs:764).
NothingSilent == phase = "done" => CommandsHeard /\ LinesHeard

\* A line the reader cannot evaluate costs only itself: whatever general Tcl is mixed
\* into a script, constraints that fail to read fail first at a line of a constraint
\* file or of a verb of the fixed list, and a command that read where it stood is
\* never left out ("one line it cannot evaluate must not cost the constraints around
\* it", tcl.rs:138).
CostsOnlyItself ==
  /\ \A k \in DOMAIN sdc :
       Parses(SubSeq(sdc, 1, k - 1)) /\ ~Parses(SubSeq(sdc, 1, k)) => sdc[k].by # "trial"
  /\ \A k \in DOMAIN script :
       script[k].verb = "sdc_command" /\ (\A i \in DOMAIN sdc : sdc[i].at # k) =>
         ~script[k].lines[1].well_formed \/
           ~(script[k].lines[1].needs \subseteq
               UNION {sdc[i].line.gives : i \in {j \in DOMAIN sdc : sdc[j].at < k}})

\* The commands of the script that ask for a report, and the place of one among them.
Asked == {k \in DOMAIN script : script[k].verb \in ReportVerbs}
Place(k) == Cardinality({j \in Asked : j <= k})

\* Reports answer the script command by command: one block for each, in its order, of
\* the analysis it asked for - and of both, the min ends before the max ends; a script
\* that asks for none gets the path ends and the two sums (render, tcl.rs:403;
\* Reports::defaulted, tcl.rs:79).
ReportsInOrder ==
  blocks # <<>> =>
    /\ Asked = {} => [k \in DOMAIN blocks |-> blocks[k].what] =
                       <<"report_checks", "report_wns", "report_tns">>
    /\ Asked # {} => Len(blocks) = Cardinality(Asked)
    /\ \A k \in Asked :
         LET block == blocks[Place(k)] IN
         /\ block.what = script[k].verb
         /\ block.what = "report_checks" =>
              /\ Range(block.shows) \subseteq
                   {m \in {"min", "max"} : IF m = "min" THEN script[k].min ELSE script[k].max}
              /\ Len(block.shows) = 2 => block.shows[1] = "min"
         /\ block.what # "report_checks" => (block.shows[1] = "min" <=> script[k].min)
=============================================================================
