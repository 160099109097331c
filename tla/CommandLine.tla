----------------------------- MODULE CommandLine -----------------------------
(***************************************************************************)
(* The command line (main.rs): one invocation from its arguments to its    *)
(* exit code - the job loaded, the scenarios of a multi-corner job run in  *)
(* turn (analyze_mcmm, engine.rs), the files written, the report rendered  *)
(* and the gate of --fail-on-violation.                                    *)
(*                                                                         *)
(* A file that does not load or cannot be written, and an analysis that    *)
(* fails, may happen wherever the code looks for it. A report is its two   *)
(* worst slacks, each None when the check has no endpoint; a lint report   *)
(* whether it has errors and warnings.                                     *)
(***************************************************************************)
EXTENDS Integers, Sequences, FiniteSets, FiniteSetsExt, Functions

CONSTANTS
  Calls,    \* invocations: [verb, path, out, json, gate, quiet, sdf, liberty, pdk]
  Jobs,     \* jobs: [scenarios, libs, sdc]; scenarios is 0 for a single run
  Slacks,   \* worst slacks of a check with endpoints
  None      \* the slack of a check without endpoints

Verbs == {"help", "none", "unknown", "demo", "check", "run", "sdc-lint", "tcl"}
Loading == {"check", "run", "sdc-lint", "tcl"}
Reports == [setup : Slacks \cup {None}, hold : Slacks \cup {None}]
Lints == [errors : BOOLEAN, warnings : BOOLEAN]
NoJob == [scenarios |-> 0, libs |-> FALSE, sdc |-> FALSE]
NotExited == -1

\* What the constants are.
ConstantsOK ==
  /\ Slacks \subseteq Int /\ None \notin Int
  /\ \A c \in Calls :
       /\ c.verb \in Verbs
       /\ {c.path, c.out, c.json, c.gate, c.quiet, c.sdf, c.liberty, c.pdk} \subseteq BOOLEAN
  /\ \A j \in Jobs : j.scenarios \in Nat /\ {j.libs, j.sdc} \subseteq BOOLEAN

VARIABLES
  cli,    \* the arguments
  job,    \* the job loaded
  phase,  \* what comes next
  results,\* the reports of the analyses done
  lint,   \* the lint report
  said,   \* constraints that were not applied were warned of
  files,  \* the files written: "report", "sdf", "liberty"
  stdout, \* what was printed: "usage", "ok", "text" or "json"
  code    \* the exit code

vars == <<cli, job, phase, results, lint, said, files, stdout, code>>

Init ==
  /\ cli \in Calls
  /\ job = NoJob /\ results = <<>> /\ lint = [errors |-> FALSE, warnings |-> FALSE]
  /\ phase = "start"
  /\ said = FALSE /\ files = {} /\ stdout = {} /\ code = NotExited

Exit(c) == code' = c /\ phase' = "exited"
GoTo(p) == phase' = p /\ UNCHANGED code
Results == UNCHANGED <<results, lint>>
Outputs == UNCHANGED <<files, stdout>>

-----------------------------------------------------------------------------
(* Arguments and the job                                                   *)

Refused ==
  cli.verb \in {"none", "unknown"} \/ (cli.verb \in Loading /\ ~cli.path)

Answer ==
  /\ phase = "start"
  /\ \/ Refused /\ Exit(2) /\ UNCHANGED stdout
     \/ cli.verb = "help" /\ Exit(0) /\ stdout' = {"usage"}
  /\ UNCHANGED <<cli, job, said, files>> /\ Results

Demo ==
  /\ phase = "start" /\ cli.verb = "demo"
  /\ \E r \in Reports : results' = <<r>>
  /\ GoTo("emit")
  /\ UNCHANGED <<cli, job, lint, said>> /\ Outputs

\* A job that loads has libraries, unless it has scenarios; a script's job is single
\* and is told what it left out at once.
Load ==
  /\ phase = "start" /\ cli.verb \in Loading /\ ~Refused
  /\ \/ Exit(2) /\ UNCHANGED <<job, said, stdout>>
     \/ \E j \in Jobs :
          /\ cli.verb = "tcl" => j.scenarios = 0
          /\ job' = j
          /\ said' = (cli.verb = "tcl" /\ ~cli.quiet)
          /\ \/ cli.verb = "check" /\ Exit(0) /\ stdout' = {"ok"}
             \/ cli.verb = "run" /\ GoTo("pdk") /\ UNCHANGED stdout
             \/ cli.verb = "sdc-lint" /\ GoTo("lint") /\ UNCHANGED stdout
             \/ cli.verb = "tcl" /\ GoTo("analyze") /\ UNCHANGED stdout
  /\ UNCHANGED <<cli, files>> /\ Results

\* The PDK is only asked for libraries the job does not have.
ResolvePdk ==
  /\ phase = "pdk"
  /\ \/ ~job.libs /\ cli.pdk /\ Exit(2)
     \/ GoTo(IF job.scenarios > 0 THEN "scenario" ELSE "sdc")
  /\ UNCHANGED <<cli, job, said>> /\ Results /\ Outputs

-----------------------------------------------------------------------------
(* Analyses                                                                *)

\* The next scenario, each a full analysis of its own; the first that fails ends the run.
Scenario ==
  /\ phase = "scenario" /\ Len(results) < job.scenarios
  /\ \/ Exit(1) /\ UNCHANGED results
     \/ \E r \in Reports :
          /\ results' = Append(results, r)
          /\ GoTo(IF Len(results') = job.scenarios THEN "emit" ELSE "scenario")
  /\ UNCHANGED <<cli, job, lint, said>> /\ Outputs

\* The constraints are read again for what to warn of; unread, nothing is said.
SayNotApplied ==
  /\ phase = "sdc"
  /\ \/ job.sdc /\ ~cli.quiet /\ said' = TRUE
     \/ UNCHANGED said
  /\ GoTo("sdf")
  /\ UNCHANGED <<cli, job>> /\ Results /\ Outputs

\* A file beside the report: its text may fail to be made, or to be written.
WriteBeside(asked, file, next) ==
  /\ \/ ~asked /\ GoTo(next) /\ UNCHANGED files
     \/ asked /\ Exit(1) /\ UNCHANGED files
     \/ asked /\ GoTo(next) /\ files' = files \cup {file}
  /\ UNCHANGED <<cli, job, said, stdout>> /\ Results

WriteSdf == phase = "sdf" /\ WriteBeside(cli.sdf, "sdf", "liberty")
WriteLibertyJson == phase = "liberty" /\ WriteBeside(cli.liberty, "liberty", "analyze")

Analyze ==
  /\ phase = "analyze"
  /\ \/ Exit(1) /\ UNCHANGED results
     \/ GoTo("emit") /\ \E r \in Reports : results' = <<r>>
  /\ UNCHANGED <<cli, job, lint, said>> /\ Outputs

Lint ==
  /\ phase = "lint"
  /\ \/ Exit(1) /\ UNCHANGED lint
     \/ GoTo("emit") /\ \E r \in Lints : lint' = r
  /\ UNCHANGED <<cli, job, results, said>> /\ Outputs

-----------------------------------------------------------------------------
(* Verdicts                                                                *)

Bad(slack) == slack # None /\ slack < 0

\* The worst of a check over the scenarios that have it (worst_setup, worst_hold).
Worst(slacks) == IF slacks \subseteq {None} THEN None ELSE Min(slacks \ {None})

SetupOf(rs) == {rs[i].setup : i \in DOMAIN rs}
HoldOf(rs) == {rs[i].hold : i \in DOMAIN rs}

\* A gate that looks at setup alone.
ViolatedSetup(rs) == Bad(Worst(SetupOf(rs)))

\* What the gate looks at.
Violated(rs) == Bad(Worst(SetupOf(rs))) \/ Bad(Worst(HoldOf(rs)))

LintFails == lint.errors \/ (cli.gate /\ lint.warnings)

ExitCode ==
  IF cli.verb = "sdc-lint" THEN IF LintFails THEN 3 ELSE 0
  ELSE IF cli.gate /\ Violated(results) THEN 3 ELSE 0

\* A report that cannot be written is only said.
EmitRegardless ==
  /\ phase = "emit"
  /\ \/ cli.out /\ Exit(ExitCode) /\ Outputs
     \/ /\ files' = IF cli.out THEN files \cup {"report"} ELSE files
        /\ stdout' = IF cli.json THEN {"json"} ELSE IF cli.out THEN {} ELSE {"text"}
        /\ Exit(ExitCode)
  /\ UNCHANGED <<cli, job, said>> /\ Results

\* Report and exit: a report that cannot be written is an error of its own, and the
\* JSON is printed beside the file.
Emit ==
  /\ phase = "emit"
  /\ \/ cli.out /\ Exit(1) /\ Outputs
     \/ /\ files' = IF cli.out THEN files \cup {"report"} ELSE files
        /\ stdout' = IF cli.json THEN {"json"} ELSE IF cli.out THEN {} ELSE {"text"}
        /\ Exit(ExitCode)
  /\ UNCHANGED <<cli, job, said>> /\ Results

Next ==
  \/ Answer \/ Demo \/ Load \/ ResolvePdk \/ Scenario \/ SayNotApplied
  \/ WriteSdf \/ WriteLibertyJson \/ Analyze \/ Lint \/ Emit

Spec == Init /\ [][Next]_vars

-----------------------------------------------------------------------------
(* What the other consumers of a report are told                           *)

\* "timing_met" of the JSON report: each check counts only when it has endpoints, and
\* with none there is no verdict.
TimingMet(r) ==
  IF r.setup = None /\ r.hold = None THEN "null"
  ELSE IF (r.setup = None \/ r.setup >= 0) /\ (r.hold = None \/ r.hold >= 0)
       THEN "true" ELSE "false"

\* "met" of the JSON of several scenarios, where no evidence counts as met.
McmmMet(rs) ==
  /\ Worst(SetupOf(rs)) # None => Worst(SetupOf(rs)) >= 0
  /\ Worst(HoldOf(rs)) # None => Worst(HoldOf(rs)) >= 0

\* The row of a scenario, and the violations a report's events count.
Row(r) == [setup |-> Bad(r.setup), hold |-> Bad(r.hold)]
EventViolations(r) == Cardinality({c \in {"setup", "hold"} : Bad(r[c])})

\* The checks a text report shows violated; one without setup endpoints ends there.
TextViolated(r) ==
  IF r.setup = None THEN {} ELSE {c \in {"setup", "hold"} : r[c] # None /\ ~(r[c] >= 0)}

-----------------------------------------------------------------------------
(* Properties                                                              *)

\* Exit codes, files and output are those there are (struct Cli, main.rs:110).
TypeOK ==
  /\ code \in {NotExited, 0, 1, 2, 3} /\ (code = NotExited <=> phase # "exited")
  /\ files \subseteq {"report", "sdf", "liberty"}
  /\ stdout \subseteq {"usage", "ok", "text", "json"} /\ Cardinality(stdout) <= 1
  /\ job \in Jobs \cup {NoJob} /\ results \in Seq(Reports)

Reported == "report" \in files \/ stdout \cap {"text", "json"} # {}

\* Whoever reads the outcome learns the same: where a report came out, --fail-on-violation
\* exits 3 exactly when the JSON says not met, when some event of some scenario counts a
\* violation, when a row of the scenarios is violated, and - for a report with setup
\* endpoints - when its text shows one; and without it the exit is 0 (emit, emit_mcmm,
\* emit_tcl, main.rs:397, 424, 450; report_json, mcmm_json, engine.rs:619, 884).
GateTellsTheVerdict ==
  Reported /\ cli.verb # "sdc-lint" =>
    LET single == job.scenarios = 0 IN
    /\ code = 3 => cli.gate
    /\ code \in {0, 3}
    /\ cli.gate =>
         /\ single => (code = 3 <=> TimingMet(results[1]) = "false")
         /\ ~single => (code = 3 <=> ~McmmMet(results))
         /\ code = 3 <=> \E i \in DOMAIN results : EventViolations(results[i]) > 0
         /\ code = 3 <=> \E i \in DOMAIN results : Row(results[i]) # [setup |-> FALSE, hold |-> FALSE]
         /\ single /\ results[1].setup # None => (code = 3 <=> TextViolated(results[1]) # {})

\* Success is not reported without its results: where the exit is 0 or 3, the report is
\* where it was asked for - in the file, and the JSON on stdout besides - with every
\* scenario in it, and so are the SDF and the Liberty dump of a single run; after an
\* error no report came out, whatever was written before it (write_out, main.rs:238;
\* analyze_mcmm, engine.rs:797).
SuccessDelivers ==
  LET reports == {"demo", "run", "sdc-lint", "tcl"}
      single == cli.verb = "run" /\ job.scenarios = 0
  IN /\ code \in {0, 3} /\ cli.verb \in reports =>
          /\ cli.out => "report" \in files
          /\ cli.json => "json" \in stdout
          /\ ~cli.out => Reported
          /\ job.scenarios > 0 /\ cli.verb = "run" => Len(results) = job.scenarios
          /\ single => (cli.sdf => "sdf" \in files) /\ (cli.liberty => "liberty" \in files)
     /\ code \in {1, 2} => ~Reported
=============================================================================
