------------------------------ MODULE FlowProofs ----------------------------
(***************************************************************************)
(* Proofs about the flows in front of the analysis in FrontEnd - the       *)
(* loading of a job, the command line, the Tcl adapter - for every job,    *)
(* constraint file, invocation and script.                                 *)
(***************************************************************************)
EXTENDS FrontEnd, LeastNatural

-----------------------------------------------------------------------------
(* Loading a job                                                           *)

\* A job with constraints is loaded only through the merge, which takes the commands
\* it models.
LdInv ==
  /\ text \in LdJobTexts /\ job_sdc \in LdSdcFiles
  /\ job_phase = "loaded" /\ text.sdc =>
       applied = {c \in job_sdc.commands :
                    c.record = "modelled" \/ (c.record = "kept" /\ c.kind \in Ld!ModelledHere)}

\* The invariant of the loading holds at first and is kept by every step of it.
LEMMA LdInductive ==
  /\ Ld!Init => LdInv
  /\ LdInv /\ Ld!Next => LdInv'
<1>1. Ld!Init => LdInv
  BY DEF Ld!Init, LdInv
<1>2. ASSUME LdInv, Ld!Parse PROVE LdInv'
  BY <1>2 DEF LdInv, Ld!Parse
<1>3. ASSUME LdInv, Ld!LoadSdc PROVE LdInv'
  BY <1>3 DEF LdInv, Ld!LoadSdc
<1>4. ASSUME LdInv, Ld!Merge PROVE LdInv'
  BY <1>4 DEF LdInv, Ld!Merge
<1> QED
  BY <1>1, <1>2, <1>3, <1>4 DEF Ld!Next

\* The state of the part only moves by its own steps.
LEMMA LdSteps ==
  ASSUME [Next]_vars, reader' = "job"
  PROVE  reader = "job" /\ (Ld!Next \/ UNCHANGED LdVars)
BY DEF Next, vars, DisStep, ChkStep, DelStep, ExcStep, LdStep, SiStep, CycStep, CmdStep, ScrStep

\* The invariant holds whenever the loading of a job is the part at work.
LEMMA LdAlways == Spec => [](reader = "job" => LdInv)
<1>1. Init => (reader = "job" => LdInv)
  BY LdInductive DEF Init
<1>2. (reader = "job" => LdInv) /\ [Next]_vars => (reader = "job" => LdInv)'
  <2>1. SUFFICES ASSUME reader = "job" => LdInv, [Next]_vars, reader' = "job"
                 PROVE  LdInv'
    OBVIOUS
  <2>2. LdInv /\ (Ld!Next \/ UNCHANGED LdVars)
    BY <2>1, LdSteps
  <2>3. CASE UNCHANGED LdVars
    BY <2>2, <2>3 DEF LdVars, LdInv
  <2> QED
    BY <2>2, <2>3, LdInductive
<1> QED
  BY <1>1, <1>2, PTL DEF Spec

\* However the reader recorded a command, the merge takes it or a line names its kind.
LEMMA LdSaid == LdInv => Ld!SaidOrApplied
<1> SUFFICES ASSUME LdInv, job_phase = "loaded", text.sdc, NEW c \in job_sdc.commands
             PROVE  c \in applied \/ c.kind \in Ld!Said
  BY DEF Ld!SaidOrApplied
<1>1. c.record \in Ld!Records
  BY FrontEndAssumption DEF LdInv, Ld!ConstantsOK
<1>2. \A records : c.record \in records => c.kind \in Ld!KindsOf(records)
  BY DEF Ld!KindsOf
<1>3. CASE c.record = "modelled" \/ (c.record = "kept" /\ c.kind \in Ld!ModelledHere)
  BY <1>3 DEF LdInv
<1>4. CASE c.record = "refused"
  BY <1>2, <1>4 DEF Ld!Said, Ld!HealthLine
<1>5. CASE c.record = "read_in_part"
  BY <1>2, <1>5 DEF Ld!Said, Ld!NotAppliedWarnings
<1>6. CASE c.record = "kept" /\ c.kind \notin Ld!ModelledHere
  BY <1>2, <1>6 DEF Ld!Said, Ld!NotAppliedWarnings
<1> QED
  BY <1>1, <1>3, <1>4, <1>5, <1>6 DEF Ld!Records

\* No constraint of a job that loads is dropped in silence: what can move a slack and
\* the job did not take is named in a warning (not_applied_warnings, job.rs:889).
THEOREM DropsAreSaid == Spec => []SaidOrApplied
<1>1. (reader = "job" => LdInv) => SaidOrApplied
  BY LdSaid DEF SaidOrApplied
<1> QED
  BY <1>1, LdAlways, PTL

\* One list after another has the members of both (the entries of two clocks).
LEMMA Joined ==
  ASSUME NEW T, NEW l \in Seq(T), NEW r \in Seq(T)
  PROVE  /\ l \o r \in Seq(T)
         /\ \A j \in DOMAIN l : j \in DOMAIN (l \o r) /\ (l \o r)[j] = l[j]
         /\ \A x \in DOMAIN r : Len(l) + x \in DOMAIN (l \o r) /\ (l \o r)[Len(l) + x] = r[x]
OBVIOUS

\* The lists of a sequence one after another: every member of each is a member of
\* the whole (FlattenSeq, as merge_sdc_into concatenates the clocks' entries).
LEMMA Flattened ==
  ASSUME NEW T, NEW ss \in Seq(Seq(T)), ss # <<>>
  PROVE  /\ Ld!FlattenSeq(ss) \in Seq(T)
         /\ \A k \in DOMAIN ss : \A x \in DOMAIN ss[k] :
              \E j \in DOMAIN Ld!FlattenSeq(ss) : Ld!FlattenSeq(ss)[j] = ss[k][x]
<1> DEFINE n == Len(ss)
           Rec(g) == g = [i \in 1 .. n |-> IF i = 1 THEN ss[i] ELSE g[i - 1] \o ss[i]]
<1>1. n \in Nat \ {0} /\ DOMAIN ss = 1 .. n /\ \A k \in 1 .. n : ss[k] \in Seq(T)
  OBVIOUS
<1> DEFINE flatten == CHOOSE g : Rec(g)
<1>5. Rec(flatten)
  <2>1. \E g : Rec(g)
    BY <1>1, ChainExists DEF ChainOf
  <2> HIDE DEF Rec
  <2> QED
    BY <2>1
<1>6. Ld!FlattenSeq(ss) = flatten[n]
  BY <1>1 DEF Ld!FlattenSeq
<1>7. \A i \in 1 .. n : flatten[i] = IF i = 1 THEN ss[i] ELSE flatten[i - 1] \o ss[i]
  <2> HIDE DEF flatten
  <2> QED
    BY <1>5
<1> HIDE DEF flatten, Rec
<1> DEFINE Good(i) == /\ flatten[i] \in Seq(T)
                      /\ \A k \in 1 .. i : \A x \in DOMAIN ss[k] :
                           \E j \in DOMAIN flatten[i] : flatten[i][j] = ss[k][x]
<1>8. Good(1)
  <2>1. flatten[1] = ss[1] /\ ss[1] \in Seq(T)
    BY <1>1, <1>7
  <2> QED
    BY <2>1
<1>9. ASSUME NEW i \in 1 .. n, i + 1 \in 1 .. n, Good(i) PROVE Good(i + 1)
  <2>1. flatten[i + 1] = flatten[i] \o ss[i + 1] /\ flatten[i] \in Seq(T) /\ ss[i + 1] \in Seq(T)
    <3>1. i + 1 # 1 /\ i + 1 - 1 = i
      BY <1>1
    <3>2. flatten[i + 1] = IF i + 1 = 1 THEN ss[i + 1] ELSE flatten[i + 1 - 1] \o ss[i + 1]
      BY <1>7, <1>9
    <3>3. flatten[i + 1] = flatten[i] \o ss[i + 1]
      BY <3>1, <3>2
    <3>4. flatten[i] \in Seq(T)
      BY <1>9
    <3> QED
      BY <1>1, <1>9, <3>3, <3>4
  <2>2. /\ flatten[i + 1] \in Seq(T)
        /\ \A j \in DOMAIN flatten[i] :
             j \in DOMAIN flatten[i + 1] /\ flatten[i + 1][j] = flatten[i][j]
        /\ \A x \in DOMAIN ss[i + 1] :
             /\ Len(flatten[i]) + x \in DOMAIN flatten[i + 1]
             /\ flatten[i + 1][Len(flatten[i]) + x] = ss[i + 1][x]
    <3> HIDE DEF Good
    <3>1. PICK l \in Seq(T) : l = flatten[i]
      BY <2>1
    <3>2. PICK r \in Seq(T) : r = ss[i + 1]
      BY <2>1
    <3>3. /\ l \o r \in Seq(T)
          /\ \A j \in DOMAIN l : j \in DOMAIN (l \o r) /\ (l \o r)[j] = l[j]
          /\ \A x \in DOMAIN r : Len(l) + x \in DOMAIN (l \o r) /\ (l \o r)[Len(l) + x] = r[x]
      BY Joined, SMTT(40)
    <3>4. flatten[i + 1] = l \o r
      BY <2>1, <3>1, <3>2
    <3> QED
      BY <3>1, <3>2, <3>3, <3>4, Zenon
  <2>3. ASSUME NEW k \in 1 .. i + 1, NEW x \in DOMAIN ss[k]
        PROVE  \E j \in DOMAIN flatten[i + 1] : flatten[i + 1][j] = ss[k][x]
    <3>1. CASE k = i + 1
      <4>1. Len(flatten[i]) + x \in DOMAIN flatten[i + 1] /\ flatten[i + 1][Len(flatten[i]) + x] = ss[k][x]
        BY <2>2, <3>1
      <4> QED
        BY <4>1
    <3>2. CASE k \in 1 .. i
      <4>1. PICK j \in DOMAIN flatten[i] : flatten[i][j] = ss[k][x]
        BY <1>9, <3>2
      <4>2. j \in DOMAIN flatten[i + 1] /\ flatten[i + 1][j] = flatten[i][j]
        BY <2>2
      <4> QED
        BY <4>1, <4>2
    <3> QED
      BY <3>1, <3>2
  <2> QED
    BY <2>2, <2>3
<1>10. Good(n)
  <2> DEFINE Bad == {m \in Nat : m >= 1 /\ m <= n /\ ~Good(m)}
  <2> HIDE DEF Good
  <2>1. SUFFICES ASSUME Bad # {} PROVE FALSE
    BY <1>1
  <2>2. PICK m \in Bad : \A y \in Bad : m <= y
    <3>1. Bad \in SUBSET Nat
      OBVIOUS
    <3> HIDE DEF Bad
    <3> QED
      BY <2>1, <3>1, LeastNat
  <2>3. m \in Nat /\ m > 1 /\ m <= n /\ m - 1 \in 1 .. n /\ m - 1 + 1 = m
    BY <1>1, <1>8
  <2>4. Good(m - 1)
    BY <2>2, <2>3
  <2>5. Good(m - 1 + 1)
    BY <1>9, <2>3, <2>4
  <2> QED
    BY <2>3, <2>5
<1> QED
  BY <1>1, <1>6, <1>10

\* Every source of every clock of a constraint file is an entry of the merged list.
LEMMA ListedSources ==
  ASSUME NEW cs, cs \in Seq(Ld!Range(cs)), cs # <<>>,
         \A c \in Ld!Range(cs) : c.sources \in Seq(Ld!Range(c.sources))
  PROVE  /\ Ld!Listed(cs) # <<>>
         /\ \A k \in DOMAIN cs : \A s \in Ld!Range(cs[k].sources) :
              <<cs[k].name, s, cs[k].period>> \in Ld!Range(Ld!Listed(cs))
<1> DEFINE ss == [k \in DOMAIN cs |-> Ld!Entries(cs[k])]
           T == UNION {Ld!Range(Ld!Entries(cs[k])) : k \in DOMAIN cs}
<1>1. /\ Len(cs) \in Nat \ {0} /\ DOMAIN cs = 1 .. Len(cs)
      /\ \A k \in DOMAIN cs : cs[k] \in Ld!Range(cs)
  BY DEF Ld!Range
<1>2. ASSUME NEW k \in DOMAIN cs
      PROVE  /\ Ld!Sources(cs[k]) \in Seq(Ld!Range(Ld!Sources(cs[k])))
             /\ Ld!Sources(cs[k]) # <<>>
             /\ Ld!Range(cs[k].sources) \subseteq Ld!Range(Ld!Sources(cs[k]))
  <2>1. cs[k].sources \in Seq(Ld!Range(cs[k].sources))
    BY <1>1
  <2>2. CASE cs[k].sources = <<>>
    <3>1. Ld!Sources(cs[k]) = <<LdNoClockPort>> /\ Ld!Range(cs[k].sources) = {}
      BY <2>2 DEF Ld!Sources, Ld!Range
    <3>2. <<LdNoClockPort>> \in Seq({LdNoClockPort}) /\ Ld!Range(<<LdNoClockPort>>) = {LdNoClockPort}
      BY DEF Ld!Range
    <3>3. Ld!Range(Ld!Sources(cs[k])) = {LdNoClockPort}
      BY <3>1, <3>2
    <3>4. Ld!Sources(cs[k]) \in Seq(Ld!Range(Ld!Sources(cs[k])))
      BY <3>1, <3>2, <3>3
    <3>5. Ld!Sources(cs[k]) # <<>>
      BY <3>1
    <3> QED
      BY <3>1, <3>4, <3>5
  <2>3. CASE cs[k].sources # <<>>
    BY <2>1, <2>3 DEF Ld!Sources
  <2> QED
    BY <2>2, <2>3
<1>3. ASSUME NEW k \in DOMAIN cs
      PROVE  /\ Ld!Entries(cs[k]) \in Seq(T)
             /\ DOMAIN Ld!Entries(cs[k]) = DOMAIN Ld!Sources(cs[k])
             /\ \A i \in DOMAIN Ld!Sources(cs[k]) :
                  Ld!Entries(cs[k])[i] = <<cs[k].name, Ld!Sources(cs[k])[i], cs[k].period>>
  <2> DEFINE e == Ld!Entries(cs[k])
             src0 == Ld!Sources(cs[k])
  <2>1. DOMAIN src0 = 1 .. Len(src0) /\ Len(src0) \in Nat
    BY <1>2
  <2>2. e = [i \in DOMAIN src0 |-> <<cs[k].name, src0[i], cs[k].period>>]
    BY DEF Ld!Entries
  <2>3. \A i \in DOMAIN src0 : e[i] \in T
    <3>1. \A i \in DOMAIN e : e[i] \in Ld!Range(e)
      BY DEF Ld!Range
    <3>2. Ld!Range(e) \subseteq T
      OBVIOUS
    <3>3. DOMAIN e = DOMAIN src0
      BY <2>2
    <3> HIDE DEF e, src0, T
    <3> QED
      BY <3>1, <3>2, <3>3, Zenon
  <2> HIDE DEF e, src0, T
  <2>4. e \in Seq(T)
    <3>1. PICK m \in Nat : DOMAIN src0 = 1 .. m
      BY <2>1
    <3>2. e \in [1 .. m -> T]
      BY <2>2, <2>3, <3>1
    <3> QED
      BY <3>2
  <2> QED
    BY <2>2, <2>4 DEF e, src0
<1>4. ss \in Seq(Seq(T)) /\ ss # <<>> /\ DOMAIN ss = DOMAIN cs
      /\ \A k \in DOMAIN cs : ss[k] = Ld!Entries(cs[k])
  <2>1. \A k \in DOMAIN cs : Ld!Entries(cs[k]) \in Seq(T)
    BY <1>3
  <2> HIDE DEF T
  <2> QED
    BY <1>1, <2>1
<1>5. Ld!Listed(cs) = Ld!FlattenSeq(ss)
  BY DEF Ld!Listed
<1> HIDE DEF ss, T
<1>6. /\ Ld!Listed(cs) \in Seq(T)
      /\ \A k \in DOMAIN cs : \A x \in DOMAIN Ld!Entries(cs[k]) :
           \E j \in DOMAIN Ld!Listed(cs) : Ld!Listed(cs)[j] = Ld!Entries(cs[k])[x]
  BY <1>4, <1>5, Flattened
<1>7. Ld!Listed(cs) # <<>>
  <2>1. 1 \in DOMAIN cs
    BY <1>1
  <2>2. 1 \in DOMAIN Ld!Sources(cs[1])
    BY <1>2, <2>1
  <2>3. PICK j \in DOMAIN Ld!Listed(cs) : TRUE
    BY <1>3, <1>6, <2>1, <2>2
  <2> QED
    BY <2>3
<1>8. ASSUME NEW k \in DOMAIN cs, NEW s \in Ld!Range(cs[k].sources)
      PROVE  <<cs[k].name, s, cs[k].period>> \in Ld!Range(Ld!Listed(cs))
  <2>1. s \in Ld!Range(Ld!Sources(cs[k]))
    BY <1>2
  <2>2. PICK i \in DOMAIN Ld!Sources(cs[k]) : Ld!Sources(cs[k])[i] = s
    BY <2>1 DEF Ld!Range
  <2>3. PICK j \in DOMAIN Ld!Listed(cs) : Ld!Listed(cs)[j] = <<cs[k].name, s, cs[k].period>>
    BY <1>3, <1>6, <2>2, ZenonT(60)
  <2> QED
    BY <2>3 DEF Ld!Range
<1> QED
  BY <1>7, <1>8

\* Until the merge, the clocks and the scalar clock are the job file's.
ClocksInv ==
  /\ job_phase \in {"load_sdc", "merge"} =>
       text.sdc /\ clocks = text.clocks /\ primary = Ld!PrimaryOf(text.clocks)
  /\ Ld!LoadedIsRunnable

\* The first clock of the job file is its scalar clock when the job is valid
\* (validate, job.rs).
LEMMA OwnClock ==
  ASSUME NEW t, NEW cs, cs \in Seq(Ld!Range(cs)), Ld!Valid(t, Ld!PrimaryOf(cs)), ~t.scenarios
  PROVE  /\ t.netlist /\ t.libs /\ cs # <<>> /\ cs[1][3] > 0
         /\ Ld!PrimaryOf(cs) = <<Ld!PortOf(cs[1]), cs[1][3]>>
<1>1. cs # <<>>
  BY DEF Ld!Valid, Ld!PrimaryOf
<1>2. Ld!PrimaryOf(cs) = <<cs[1][2], cs[1][3]>> /\ cs[1][2] # LdNoClockPort
  BY <1>1 DEF Ld!Valid, Ld!PrimaryOf
<1> QED
  BY <1>1, <1>2 DEF Ld!Valid, Ld!PortOf

\* Loading keeps ClocksInv (parse, load_sdc, merge_sdc_into, job.rs).
LEMMA ClocksStep ==
  ASSUME LdInv, ClocksInv, Ld!Next
  PROVE  ClocksInv'
<1>1. /\ text.clocks \in Seq(Ld!Range(text.clocks))
      /\ job_sdc.clocks \in Seq(Ld!Range(job_sdc.clocks))
      /\ \A c \in Ld!Range(job_sdc.clocks) : c.sources \in Seq(Ld!Range(c.sources))
      /\ text.sdc \in BOOLEAN
  BY FrontEndAssumption DEF LdInv, Ld!ConstantsOK
<1>2. UNCHANGED <<text, job_sdc>>
  BY DEF Ld!Next, Ld!Parse, Ld!LoadSdc, Ld!Merge
<1>3. CASE Ld!Parse
  <2>1. CASE job_phase' \in {"load_sdc", "failed"}
    BY <1>3, <2>1 DEF Ld!Parse, ClocksInv, Ld!LoadedIsRunnable
  <2>2. CASE job_phase' = "loaded"
    <3>1. /\ clocks' = text.clocks /\ primary' = Ld!PrimaryOf(text.clocks)
          /\ Ld!Valid(text, primary') /\ ~text.sdc
      BY <1>3, <2>2 DEF Ld!Parse
    <3>2. ~text.scenarios => /\ text.netlist /\ text.libs /\ text.clocks # <<>>
                             /\ text.clocks[1][3] > 0
                             /\ primary' = <<Ld!PortOf(text.clocks[1]), text.clocks[1][3]>>
      BY <1>1, <3>1, OwnClock
    <3> QED
      BY <1>2, <2>2, <3>1, <3>2 DEF ClocksInv, Ld!LoadedIsRunnable
  <2> QED
    BY <1>1, <1>3, <2>1, <2>2 DEF Ld!Parse
<1>4. CASE Ld!LoadSdc
  BY <1>4 DEF Ld!LoadSdc, ClocksInv, Ld!LoadedIsRunnable
<1>5. CASE Ld!Merge
  <2>1. /\ clocks = text.clocks /\ primary = Ld!PrimaryOf(text.clocks)
        /\ job_phase' \in {"loaded", "failed"}
        /\ job_phase' = "loaded" => Ld!Valid(text, primary')
    BY <1>5 DEF Ld!Merge, ClocksInv
  <2> SUFFICES ASSUME job_phase' = "loaded", ~text.scenarios
               PROVE  /\ text.netlist /\ text.libs
                      /\ clocks' # <<>> /\ clocks'[1][3] > 0
                      /\ primary' = <<Ld!PortOf(clocks'[1]), clocks'[1][3]>>
                      /\ \A k \in DOMAIN job_sdc.clocks :
                           \A s \in Ld!Range(job_sdc.clocks[k].sources) :
                             <<job_sdc.clocks[k].name, s, job_sdc.clocks[k].period>> \in Ld!Range(clocks')
    BY <1>2, <2>1 DEF ClocksInv, Ld!LoadedIsRunnable
  <2>2. CASE job_sdc.clocks = <<>> /\ UNCHANGED <<clocks, primary>>
    BY <1>1, <2>1, <2>2, OwnClock
  <2>3. CASE /\ job_sdc.clocks # <<>> /\ clocks' = Ld!Listed(job_sdc.clocks)
             /\ primary' = <<Ld!PortOf(clocks'[1]), clocks'[1][3]>>
    <3>1. clocks'[1][3] > 0 /\ text.netlist /\ text.libs
      BY <2>1, <2>3 DEF Ld!Valid
    <3> QED
      BY <1>1, <2>3, <3>1, ListedSources
  <2> QED
    BY <1>5, <2>2, <2>3 DEF Ld!Merge
<1> QED
  BY <1>3, <1>4, <1>5 DEF Ld!Next

\* A job that loads can be analysed, wherever its clocks came from: it has a netlist,
\* libraries and a first clock of positive period, its scalar clock is that clock, and
\* every source of every clock of its constraint file is an entry of its list (validate,
\* job.rs:580; merge_sdc_into, job.rs:632).
THEOREM LoadedJobsRun == Spec => []LoadedIsRunnable
<1>1. Init => (reader = "job" => ClocksInv)
  BY DEF Init, Ld!Init, ClocksInv, Ld!LoadedIsRunnable
<1>2. (reader = "job" => LdInv) /\ (reader = "job" => ClocksInv) /\ [Next]_vars
        => (reader = "job" => ClocksInv)'
  <2>1. SUFFICES ASSUME reader = "job" => LdInv, reader = "job" => ClocksInv, [Next]_vars,
                        reader' = "job"
                 PROVE  ClocksInv'
    OBVIOUS
  <2>2. LdInv /\ ClocksInv /\ (Ld!Next \/ UNCHANGED LdVars)
    BY <2>1, LdSteps
  <2>3. CASE UNCHANGED LdVars
    BY <2>2, <2>3 DEF LdVars, ClocksInv, Ld!LoadedIsRunnable
  <2> QED
    BY <2>2, <2>3, ClocksStep
<1>3. (reader = "job" => ClocksInv) => LoadedIsRunnable
  BY DEF ClocksInv, LoadedIsRunnable
<1> QED
  BY <1>1, <1>2, <1>3, LdAlways, PTL DEF Spec

-----------------------------------------------------------------------------
(* The command line                                                        *)

\* The verbs that end in a report, and the phases before any analysis is done.
Reporting == {"demo", "run", "sdc-lint", "tcl"}
Before == {"start", "pdk", "sdc", "sdf", "liberty", "analyze", "lint"}

\* Nothing has been reported: no report file, and nothing on stdout.
Silent == "report" \notin files /\ stdout = {}

\* The files beside the report of a single run, and the results of every analysis.
SdfDone == cli.sdf => "sdf" \in files
LibertyDone == cli.liberty => "liberty" \in files
Analyzed ==
  /\ cli.verb \in Reporting
  /\ cli.verb \notin {"run", "sdc-lint"} => cli_job.scenarios = 0
  /\ cli.verb # "sdc-lint" => Len(results) = IF cli_job.scenarios = 0 THEN 1 ELSE cli_job.scenarios
  /\ cli.verb = "run" /\ cli_job.scenarios = 0 => SdfDone /\ LibertyDone

\* The three ways an invocation ends: an error; an answer that is no report; the report,
\* where it was asked for, with the exit code of the gate.
Failed == code \in {1, 2} /\ Silent
Answered ==
  /\ code = 0 /\ cli.verb \in {"help", "check"}
  /\ "report" \notin files /\ stdout \cap {"text", "json"} = {}
Delivered ==
  /\ Analyzed
  /\ code = Cmd!ExitCode
  /\ cli.out => "report" \in files
  /\ stdout = IF cli.json THEN {"json"} ELSE IF cli.out THEN {} ELSE {"text"}

\* What holds between the phase, the analyses done and what came out.
CmdInv ==
  /\ cli \in CmdCalls
  /\ cli_job.scenarios \in Nat
  /\ results \in Seq(Cmd!Reports)
  /\ cli_phase \in Before \cup {"scenario", "emit", "exited"}
  /\ cli_phase # "exited" => code = Cmd!NotExited /\ Silent
  /\ cli_phase \in Before => results = <<>>
  /\ cli_phase = "start" => cli_job.scenarios = 0
  /\ cli_phase \in {"pdk", "scenario", "sdc", "sdf", "liberty"} => cli.verb = "run"
  /\ cli_phase = "scenario" => Len(results) < cli_job.scenarios
  /\ cli_phase \in {"sdc", "sdf", "liberty", "analyze"} => cli_job.scenarios = 0
  /\ cli_phase = "liberty" => SdfDone
  /\ cli_phase = "analyze" => /\ cli.verb \in {"run", "tcl"}
                              /\ cli.verb = "run" => SdfDone /\ LibertyDone
  /\ cli_phase = "lint" => cli.verb = "sdc-lint"
  /\ cli_phase = "emit" => Analyzed
  /\ cli_phase = "exited" => Failed \/ Answered \/ Delivered

\* An invocation starts with nothing analysed and nothing reported (main.rs).
LEMMA CmdInit == Cmd!Init => CmdInv
BY DEF Cmd!Init, CmdInv, Cmd!NoJob, Silent, Before

\* The invariant is kept by every step of an invocation.
LEMMA CmdStepInv == CmdInv /\ Cmd!Next => CmdInv'
<1> USE DEF CmdInv, Before, Silent
<1>1. ASSUME CmdInv, Cmd!Answer PROVE CmdInv'
  <2>1. UNCHANGED <<cli, cli_job, files, results>> /\ cli_phase' = "exited"
    BY <1>1 DEF Cmd!Answer, Cmd!Results, Cmd!Exit
  <2>2. (Failed \/ Answered)'
    BY <1>1 DEF Cmd!Answer, Cmd!Exit, Failed, Answered
  <2> QED
    BY <1>1, <2>1, <2>2
<1>2. ASSUME CmdInv, Cmd!Demo PROVE CmdInv'
  <2>1. UNCHANGED <<cli, cli_job, files, stdout, code>> /\ cli_phase = "start" /\ cli_phase' = "emit"
       /\ cli.verb = "demo"
    BY <1>2 DEF Cmd!Demo, Cmd!GoTo, Cmd!Outputs
  <2>2. PICK r \in Cmd!Reports : results' = <<r>>
    BY <1>2 DEF Cmd!Demo
  <2>3. results' \in Seq(Cmd!Reports) /\ Len(results') = 1 /\ cli_job.scenarios = 0
    BY <1>2, <2>2 DEF Cmd!Demo
  <2>4. Analyzed'
    BY <2>1, <2>3 DEF Analyzed, Reporting
  <2> QED
    BY <1>2, <2>1, <2>3, <2>4
<1>3. ASSUME CmdInv, Cmd!Load PROVE CmdInv'
  <2>1. UNCHANGED <<cli, files, results>>
    BY <1>3 DEF Cmd!Load, Cmd!Results
  <2>2. CASE Cmd!Exit(2) /\ UNCHANGED <<cli_job, said, stdout>>
    <3>1. Failed' /\ cli_phase' = "exited" /\ UNCHANGED cli_job
      BY <1>3, <2>1, <2>2 DEF Cmd!Load, Cmd!Exit, Failed
    <3> QED
      BY <1>3, <2>1, <3>1
  <2>3. ASSUME NEW j \in CmdJobs, cli.verb = "tcl" => j.scenarios = 0, cli_job' = j,
               \/ cli.verb = "check" /\ Cmd!Exit(0) /\ stdout' = {"ok"}
               \/ cli.verb = "run" /\ Cmd!GoTo("pdk") /\ UNCHANGED stdout
               \/ cli.verb = "sdc-lint" /\ Cmd!GoTo("lint") /\ UNCHANGED stdout
               \/ cli.verb = "tcl" /\ Cmd!GoTo("analyze") /\ UNCHANGED stdout
        PROVE  CmdInv'
    <3>1. cli_job'.scenarios \in Nat /\ results' = <<>>
      BY <1>3, <2>1, <2>3, FrontEndAssumption DEF Cmd!ConstantsOK, Cmd!Load
    <3>2. cli_phase' = "exited" => Answered'
      BY <1>3, <2>1, <2>3 DEF Cmd!Exit, Cmd!GoTo, Answered, Cmd!Load
    <3> QED
      BY <1>3, <2>1, <2>3, <3>1, <3>2 DEF Cmd!Exit, Cmd!GoTo, Cmd!Load
  <2> QED
    BY <1>3, <2>2, <2>3 DEF Cmd!Load
<1>4. ASSUME CmdInv, Cmd!ResolvePdk PROVE CmdInv'
  <2>1. UNCHANGED <<cli, cli_job, files, stdout, results>> /\ cli_phase = "pdk"
    BY <1>4 DEF Cmd!ResolvePdk, Cmd!Results, Cmd!Outputs
  <2>2. CASE Cmd!Exit(2)
    BY <1>4, <2>1, <2>2 DEF Cmd!Exit, Failed
  <2>3. CASE Cmd!GoTo(IF cli_job.scenarios > 0 THEN "scenario" ELSE "sdc")
    <3>1. Len(results) = 0
      BY <1>4, <2>1
    <3> QED
      BY <1>4, <2>1, <2>3, <3>1 DEF Cmd!GoTo
  <2> QED
    BY <1>4, <2>2, <2>3 DEF Cmd!ResolvePdk
<1>5. ASSUME CmdInv, Cmd!Scenario PROVE CmdInv'
  <2>1. UNCHANGED <<cli, cli_job, files, stdout>> /\ cli_phase = "scenario"
    BY <1>5 DEF Cmd!Scenario, Cmd!Outputs
  <2>2. CASE Cmd!Exit(1) /\ UNCHANGED results
    BY <1>5, <2>1, <2>2 DEF Cmd!Exit, Failed
  <2>3. ASSUME NEW r \in Cmd!Reports, results' = Append(results, r),
               Cmd!GoTo(IF Len(results') = cli_job.scenarios THEN "emit" ELSE "scenario")
        PROVE  CmdInv'
    <3>1. results' \in Seq(Cmd!Reports) /\ Len(results') = Len(results) + 1 /\ Len(results) \in Nat
      BY <1>5, <2>3
    <3>2. Len(results') <= cli_job.scenarios /\ Len(results') > 0
      BY <1>5, <2>1, <3>1
    <3>3. code' = code /\ cli_phase' = IF Len(results') = cli_job.scenarios THEN "emit" ELSE "scenario"
      BY <2>3 DEF Cmd!GoTo
    <3>4. Len(results') = cli_job.scenarios => Analyzed'
      BY <1>5, <2>1, <3>1, <3>2 DEF Analyzed, Reporting
    <3> QED
      BY <1>5, <2>1, <3>1, <3>2, <3>3, <3>4
  <2> QED
    BY <1>5, <2>2, <2>3 DEF Cmd!Scenario
<1>6. ASSUME CmdInv, Cmd!SayNotApplied PROVE CmdInv'
  BY <1>6 DEF Cmd!SayNotApplied, Cmd!Results, Cmd!Outputs, Cmd!GoTo
<1>7. ASSUME CmdInv, Cmd!WriteSdf PROVE CmdInv'
  <2>1. UNCHANGED <<cli, cli_job, stdout, results>> /\ cli_phase = "sdf"
    BY <1>7 DEF Cmd!WriteSdf, Cmd!WriteBeside, Cmd!Results
  <2>2. \/ Cmd!Exit(1) /\ UNCHANGED files
        \/ Cmd!GoTo("liberty") /\ "report" \notin files' /\ SdfDone'
    BY <1>7, <2>1 DEF Cmd!WriteSdf, Cmd!WriteBeside, SdfDone
  <2> QED
    BY <1>7, <2>1, <2>2 DEF Cmd!Exit, Cmd!GoTo, Failed
<1>8. ASSUME CmdInv, Cmd!WriteLibertyJson PROVE CmdInv'
  <2>1. UNCHANGED <<cli, cli_job, stdout, results>> /\ cli_phase = "liberty"
    BY <1>8 DEF Cmd!WriteLibertyJson, Cmd!WriteBeside, Cmd!Results
  <2>2. \/ Cmd!Exit(1) /\ UNCHANGED files
        \/ Cmd!GoTo("analyze") /\ "report" \notin files' /\ SdfDone' /\ LibertyDone'
    BY <1>8, <2>1 DEF Cmd!WriteLibertyJson, Cmd!WriteBeside, SdfDone, LibertyDone
  <2> QED
    BY <1>8, <2>1, <2>2 DEF Cmd!Exit, Cmd!GoTo, Failed
<1>9. ASSUME CmdInv, Cmd!Analyze PROVE CmdInv'
  <2>1. UNCHANGED <<cli, cli_job, files, stdout>> /\ cli_phase = "analyze"
    BY <1>9 DEF Cmd!Analyze, Cmd!Outputs
  <2>2. CASE Cmd!Exit(1) /\ UNCHANGED results
    BY <1>9, <2>1, <2>2 DEF Cmd!Exit, Failed
  <2>3. ASSUME NEW r \in Cmd!Reports, results' = <<r>>, Cmd!GoTo("emit")
        PROVE  CmdInv'
    <3>1. results' \in Seq(Cmd!Reports) /\ Len(results') = 1
      BY <2>3
    <3>2. Analyzed'
      BY <1>9, <2>1, <3>1 DEF Analyzed, Reporting, SdfDone, LibertyDone
    <3> QED
      BY <1>9, <2>1, <2>3, <3>1, <3>2 DEF Cmd!GoTo
  <2> QED
    BY <1>9, <2>2, <2>3 DEF Cmd!Analyze
<1>10. ASSUME CmdInv, Cmd!Lint PROVE CmdInv'
  <2>1. UNCHANGED <<cli, cli_job, files, stdout, results>> /\ cli_phase = "lint"
    BY <1>10 DEF Cmd!Lint, Cmd!Outputs
  <2>2. Cmd!Exit(1) \/ Cmd!GoTo("emit")
    BY <1>10 DEF Cmd!Lint
  <2> QED
    BY <1>10, <2>1, <2>2 DEF Cmd!Exit, Cmd!GoTo, Failed, Analyzed, Reporting
<1>11. ASSUME CmdInv, Cmd!Emit PROVE CmdInv'
  <2>1. UNCHANGED <<cli, cli_job, results, lint>> /\ cli_phase = "emit" /\ Analyzed
    BY <1>11 DEF Cmd!Emit, Cmd!Results
  <2>2. CASE Cmd!Exit(1) /\ Cmd!Outputs
    BY <1>11, <2>1, <2>2 DEF Cmd!Exit, Cmd!Outputs, Failed
  <2>3. CASE /\ files' = IF cli.out THEN files \cup {"report"} ELSE files
             /\ stdout' = IF cli.json THEN {"json"} ELSE IF cli.out THEN {} ELSE {"text"}
             /\ Cmd!Exit(Cmd!ExitCode)
    <3>1. Analyzed'
      BY <2>1, <2>3 DEF Analyzed, SdfDone, LibertyDone
    <3>2. Cmd!ExitCode' = Cmd!ExitCode
      BY <2>1 DEF Cmd!ExitCode, Cmd!LintFails, Cmd!Violated, Cmd!SetupOf, Cmd!HoldOf
    <3>3. Delivered'
      BY <2>1, <2>3, <3>1, <3>2 DEF Delivered, Cmd!Exit
    <3> QED
      BY <1>11, <2>1, <2>3, <3>3 DEF Cmd!Exit
  <2> QED
    BY <1>11, <2>2, <2>3 DEF Cmd!Emit
<1> QED
  BY <1>1, <1>2, <1>3, <1>4, <1>5, <1>6, <1>7, <1>8, <1>9, <1>10, <1>11 DEF Cmd!Next

\* The state of the part only moves by its own steps.
LEMMA CmdSteps ==
  ASSUME [Next]_vars, reader' = "cli"
  PROVE  reader = "cli" /\ (Cmd!Next \/ UNCHANGED CmdVars)
BY DEF Next, vars, DisStep, ChkStep, DelStep, ExcStep, LdStep, SiStep, CycStep, CmdStep, ScrStep

\* The invariant holds whenever the command line is the part at work.
LEMMA CmdAlways == Spec => [](reader = "cli" => CmdInv)
<1>1. Init => (reader = "cli" => CmdInv)
  BY CmdInit DEF Init
<1>2. (reader = "cli" => CmdInv) /\ [Next]_vars => (reader = "cli" => CmdInv)'
  <2>1. SUFFICES ASSUME reader = "cli" => CmdInv, [Next]_vars, reader' = "cli"
                 PROVE  CmdInv'
    OBVIOUS
  <2>2. CmdInv /\ (Cmd!Next \/ UNCHANGED CmdVars)
    BY <2>1, CmdSteps
  <2>3. CASE UNCHANGED CmdVars
    <3>1. UNCHANGED <<cli, cli_job, cli_phase, results, lint, files, stdout, code>>
      BY <2>3 DEF CmdVars
    <3>2. Cmd!ExitCode' = Cmd!ExitCode
      BY <3>1 DEF Cmd!ExitCode, Cmd!LintFails, Cmd!Violated, Cmd!SetupOf, Cmd!HoldOf
    <3> QED
      BY <2>2, <3>1, <3>2
      DEF CmdInv, Silent, SdfDone, LibertyDone, Analyzed, Failed, Answered, Delivered
  <2> QED
    BY <2>2, <2>3, CmdStepInv
<1> QED
  BY <1>1, <1>2, PTL DEF Spec

\* No report comes out of an error, and a report that comes out is where it was asked for.
LEMMA CmdDelivers == CmdInv => Cmd!SuccessDelivers
<1> SUFFICES ASSUME CmdInv PROVE Cmd!SuccessDelivers
  OBVIOUS
<1>1. CASE cli_phase # "exited"
  BY <1>1 DEF CmdInv, Cmd!SuccessDelivers, Cmd!NotExited
<1>2. CASE Failed
  BY <1>2 DEF Failed, Silent, Cmd!SuccessDelivers, Cmd!Reported
<1>3. CASE Answered
  BY <1>3 DEF Answered, Cmd!SuccessDelivers
<1>4. CASE Delivered
  <2>1. code \in {0, 3}
    BY <1>4 DEF Delivered, Cmd!ExitCode
  <2>2. ~cli.out => Cmd!Reported
    BY <1>4 DEF Delivered, Cmd!Reported
  <2> QED
    BY <1>4, <2>1, <2>2
    DEF Delivered, Analyzed, SdfDone, LibertyDone, Cmd!SuccessDelivers
<1> QED
  BY <1>1, <1>2, <1>3, <1>4 DEF CmdInv

\* An exit of 0 or 3 comes with the report and the files that were asked for, and an
\* error with no report (write_out, main.rs:238; analyze_mcmm, engine.rs:797).
THEOREM NoSuccessWithoutReport == Spec => []SuccessDelivers
<1>1. (reader = "cli" => CmdInv) => SuccessDelivers
  BY CmdDelivers DEF SuccessDelivers
<1> QED
  BY <1>1, CmdAlways, PTL

\* A slack is bad when it is a number below zero.
LEMMA WorstIsBad ==
  ASSUME NEW S \in SUBSET (CmdSlacks \cup {Unset}), IsFiniteSet(S)
  PROVE  /\ Cmd!Worst(S) # Unset => Cmd!Worst(S) \in Int
         /\ Cmd!Bad(Cmd!Worst(S)) <=> \E s \in S : Cmd!Bad(s)
<1>1. CmdSlacks \subseteq Int /\ Unset \notin Int
  BY FrontEndAssumption DEF Cmd!ConstantsOK
<1>2. CASE S \subseteq {Unset}
  BY <1>2 DEF Cmd!Worst, Cmd!Bad
<1>3. CASE ~(S \subseteq {Unset})
  <2> DEFINE T == S \ {Unset}
  <2>1. T \in SUBSET Int /\ T # {} /\ T \in SUBSET S
    BY <1>1, <1>3
  <2>2. IsFiniteSet(T)
    BY <2>1, FS_Subset
  <2>3. Cmd!Min(T) \in T /\ \A y \in T : Cmd!Min(T) <= y
    <3> HIDE DEF T
    <3> QED
      BY <2>1, <2>2, LeastOfFinite DEF Cmd!Min
  <2>4. Cmd!Worst(S) = Cmd!Min(T)
    BY <1>3 DEF Cmd!Worst
  <2>5. \A s \in S : Cmd!Bad(s) <=> s \in T /\ s < 0
    BY DEF Cmd!Bad
  <2> HIDE DEF T
  <2>6. Cmd!Worst(S) \in Int /\ Cmd!Worst(S) # Unset
    BY <1>1, <2>1, <2>3, <2>4
  <2>7. Cmd!Bad(Cmd!Worst(S)) <=> Cmd!Min(T) < 0
    BY <2>4, <2>6 DEF Cmd!Bad
  <2>8. Cmd!Min(T) < 0 <=> \E s \in T : s < 0
    <3>1. ASSUME NEW m \in T, \A y \in T : m <= y PROVE m < 0 <=> \E s \in T : s < 0
      <4>1. \A s \in T : s \in Int /\ m \in Int /\ (s < 0 => m < 0)
        BY <2>1, <3>1
      <4> QED
        BY <4>1
    <3> QED
      BY <2>3, <3>1
  <2> QED
    BY <2>1, <2>5, <2>6, <2>7, <2>8
<1> QED
  BY <1>2, <1>3

\* Some check of a report is violated.
Violates(r) == Cmd!Bad(r.setup) \/ Cmd!Bad(r.hold)

\* However the outcome is told, it tells whether a check of some report is violated.
LEMMA SomeViolates ==
  ASSUME NEW rs \in Seq(Cmd!Reports)
  PROVE  /\ Cmd!Violated(rs) <=> \E i \in DOMAIN rs : Violates(rs[i])
         /\ ~Cmd!McmmMet(rs) <=> \E i \in DOMAIN rs : Violates(rs[i])
<1> DEFINE S == Cmd!SetupOf(rs)
           H == Cmd!HoldOf(rs)
<1>1. \A i \in DOMAIN rs : rs[i].setup \in CmdSlacks \cup {Unset} /\ rs[i].hold \in CmdSlacks \cup {Unset}
  <2>1. \A i \in DOMAIN rs : rs[i] \in Cmd!Reports
    OBVIOUS
  <2> QED
    BY <2>1 DEF Cmd!Reports
<1>2. S \in SUBSET (CmdSlacks \cup {Unset}) /\ H \in SUBSET (CmdSlacks \cup {Unset})
  BY <1>1 DEF Cmd!SetupOf, Cmd!HoldOf
<1>3. IsFiniteSet(S) /\ IsFiniteSet(H)
  <2> DEFINE f == [i \in DOMAIN rs |-> rs[i].setup]
             g == [i \in DOMAIN rs |-> rs[i].hold]
  <2>1. S = {f[i] : i \in DOMAIN rs} /\ H = {g[i] : i \in DOMAIN rs}
    BY DEF Cmd!SetupOf, Cmd!HoldOf
  <2>2. /\ DOMAIN f = DOMAIN rs /\ f = [i \in DOMAIN rs |-> f[i]]
        /\ DOMAIN g = DOMAIN rs /\ g = [i \in DOMAIN rs |-> g[i]]
    OBVIOUS
  <2>3. IsFiniteSet(DOMAIN rs)
    BY DomainFinite
  <2> HIDE DEF f, g, S, H
  <2>4. IsFiniteSet(S)
    BY <2>1, <2>2, <2>3, ImageFinite
  <2>5. IsFiniteSet(H)
    BY <2>1, <2>2, <2>3, ImageFinite
  <2> QED
    BY <2>4, <2>5
<1>4. /\ (\E s \in S : Cmd!Bad(s)) <=> \E i \in DOMAIN rs : Cmd!Bad(rs[i].setup)
      /\ (\E s \in H : Cmd!Bad(s)) <=> \E i \in DOMAIN rs : Cmd!Bad(rs[i].hold)
  BY DEF Cmd!SetupOf, Cmd!HoldOf
<1> HIDE DEF S, H
<1>5. /\ Cmd!Worst(S) # Unset => Cmd!Worst(S) \in Int
      /\ Cmd!Bad(Cmd!Worst(S)) <=> \E s \in S : Cmd!Bad(s)
  BY <1>2, <1>3, WorstIsBad
<1>6. /\ Cmd!Worst(H) # Unset => Cmd!Worst(H) \in Int
      /\ Cmd!Bad(Cmd!Worst(H)) <=> \E s \in H : Cmd!Bad(s)
  BY <1>2, <1>3, WorstIsBad
<1>7. Cmd!Violated(rs) <=> Cmd!Bad(Cmd!Worst(S)) \/ Cmd!Bad(Cmd!Worst(H))
  BY DEF Cmd!Violated, S, H
<1>8. Cmd!McmmMet(rs) <=> /\ Cmd!Worst(S) # Unset => Cmd!Worst(S) >= 0
                          /\ Cmd!Worst(H) # Unset => Cmd!Worst(H) >= 0
  BY DEF Cmd!McmmMet, S, H
<1>9. ~Cmd!McmmMet(rs) <=> Cmd!Bad(Cmd!Worst(S)) \/ Cmd!Bad(Cmd!Worst(H))
  BY <1>5, <1>6, <1>8 DEF Cmd!Bad
<1>10. (\E i \in DOMAIN rs : Violates(rs[i])) <=>
         (\E s \in S : Cmd!Bad(s)) \/ (\E s \in H : Cmd!Bad(s))
  BY <1>4 DEF Violates
<1> QED
  BY <1>5, <1>6, <1>7, <1>9, <1>10

\* The other ways one report tells it: its JSON, its events, its row, its text.
LEMMA ReportTells ==
  ASSUME NEW r \in Cmd!Reports
  PROVE  /\ Cmd!TimingMet(r) = "false" <=> Violates(r)
         /\ Cmd!EventViolations(r) > 0 <=> Violates(r)
         /\ Cmd!Row(r) # [setup |-> FALSE, hold |-> FALSE] <=> Violates(r)
         /\ r.setup # Unset => (Cmd!TextViolated(r) # {} <=> Violates(r))
<1>1. r.setup \in Int \cup {Unset} /\ r.hold \in Int \cup {Unset} /\ Unset \notin Int
  BY FrontEndAssumption DEF Cmd!ConstantsOK, Cmd!Reports
<1>2. Cmd!TimingMet(r) = "false" <=> Violates(r)
  BY <1>1 DEF Cmd!TimingMet, Violates, Cmd!Bad
<1>3. Cmd!EventViolations(r) > 0 <=> Violates(r)
  <2> DEFINE B == {c \in {"setup", "hold"} : Cmd!Bad(r[c])}
  <2>1. B # {} <=> Violates(r)
    BY DEF Violates
  <2>2. IsFiniteSet(B)
    <3>1. IsFiniteSet({"setup"} \cup {"hold"})
      BY FS_Singleton, FS_AddElement
    <3>2. {"setup"} \cup {"hold"} = {"setup", "hold"} /\ B \in SUBSET {"setup", "hold"}
      OBVIOUS
    <3> HIDE DEF B
    <3> QED
      BY <3>1, <3>2, FS_Subset
  <2>3. Cmd!EventViolations(r) = Cardinality(B)
    BY DEF Cmd!EventViolations, Cmd!Cardinality, Cardinality
  <2> HIDE DEF B
  <2>4. Cardinality(B) \in Nat /\ (Cardinality(B) = 0 <=> B = {})
    BY <2>2, FS_EmptySet, FS_CardinalityType
  <2> QED
    BY <2>1, <2>3, <2>4
<1>4. Cmd!Row(r) # [setup |-> FALSE, hold |-> FALSE] <=> Violates(r)
  BY DEF Cmd!Row, Violates, Cmd!Bad
<1>5. r.setup # Unset => (Cmd!TextViolated(r) # {} <=> Violates(r))
  <2>1. \A c \in {"setup", "hold"} : r[c] # Unset /\ ~(r[c] >= 0) <=> Cmd!Bad(r[c])
    BY <1>1 DEF Cmd!Bad
  <2>2. r.setup # Unset => Cmd!TextViolated(r) = {c \in {"setup", "hold"} : Cmd!Bad(r[c])}
    BY <2>1 DEF Cmd!TextViolated
  <2> QED
    BY <2>2 DEF Violates
<1> QED
  BY <1>2, <1>3, <1>4, <1>5

\* The exit code of the gate is what every reader of the outcome sees.
LEMMA CmdGate == CmdInv => Cmd!GateTellsTheVerdict
<1> SUFFICES ASSUME CmdInv, Cmd!Reported, cli.verb # "sdc-lint" PROVE Cmd!GateTellsTheVerdict
  BY DEF Cmd!GateTellsTheVerdict
<1> DEFINE bad == \E i \in DOMAIN results : Violates(results[i])
<1>1. Delivered
  BY DEF CmdInv, Silent, Failed, Answered, Cmd!Reported
<1>2. results \in Seq(Cmd!Reports) /\ \A i \in DOMAIN results : results[i] \in Cmd!Reports
  BY DEF CmdInv
<1>3. /\ Cmd!Violated(results) <=> bad
      /\ ~Cmd!McmmMet(results) <=> bad
  BY <1>2, SomeViolates
<1>4. code = IF cli.gate /\ Cmd!Violated(results) THEN 3 ELSE 0
  BY <1>1 DEF Delivered, Cmd!ExitCode
<1>5. code \in {0, 3} /\ (code = 3 => cli.gate) /\ (cli.gate => (code = 3 <=> bad))
  BY <1>3, <1>4
<1>6. ASSUME cli_job.scenarios = 0
      PROVE  /\ results[1] \in Cmd!Reports
             /\ bad <=> Violates(results[1])
  <2>1. Len(results) = 1
    BY <1>1, <1>6 DEF Delivered, Analyzed
  <2>2. DOMAIN results = {1}
    BY <1>2, <2>1
  <2> QED
    BY <1>2, <2>2
<1>7. /\ bad <=> \E i \in DOMAIN results : Cmd!EventViolations(results[i]) > 0
      /\ bad <=> \E i \in DOMAIN results : Cmd!Row(results[i]) # [setup |-> FALSE, hold |-> FALSE]
  BY <1>2, ReportTells
<1>8. cli_job.scenarios = 0 =>
        /\ Cmd!TimingMet(results[1]) = "false" <=> bad
        /\ results[1].setup # Unset => (Cmd!TextViolated(results[1]) # {} <=> bad)
  BY <1>6, ReportTells
<1> HIDE DEF bad
<1> QED
  BY <1>3, <1>5, <1>7, <1>8 DEF Cmd!GateTellsTheVerdict

\* With --fail-on-violation the exit is 3 exactly when the JSON, the events, the rows of
\* the scenarios and the text tell of a violation; without it a report exits 0 (emit,
\* emit_mcmm, emit_tcl, main.rs:397, 424, 450).
THEOREM GateAgrees == Spec => []GateTellsTheVerdict
<1>1. (reader = "cli" => CmdInv) => GateTellsTheVerdict
  BY CmdGate DEF GateTellsTheVerdict
<1> QED
  BY <1>1, CmdAlways, PTL

-----------------------------------------------------------------------------
(* The Tcl adapter                                                         *)

\* The constraint lines scripts hold, and the entries of the combined text.
ScriptLines == UNION {Scr!Range(c.lines) : c \in ScrCommands}
Entry == [line : ScriptLines, by : {"file", "verb", "trial"}, at : Nat]

\* The j-th line of a text reads where it stands.
ReadsAt(s, j) ==
  s[j].line.well_formed /\ s[j].line.needs \subseteq UNION {s[i].line.gives : i \in 1 .. j - 1}

\* A text parses up to a line when every line up to it reads where it stands.
LEMMA ParsesPrefix ==
  ASSUME NEW s \in Seq(Entry), NEW k \in 0 .. Len(s)
  PROVE  Scr!Parses(SubSeq(s, 1, k)) <=> \A j \in 1 .. k : ReadsAt(s, j)
<1> DEFINE t == SubSeq(s, 1, k)
<1>1. Len(s) \in Nat /\ DOMAIN s = 1 .. Len(s)
  OBVIOUS
<1>2. t \in Seq(Entry) /\ Len(t) = k /\ DOMAIN t = 1 .. k /\ \A i \in 1 .. k : t[i] = s[i]
  BY <1>1
<1>3. ASSUME NEW j \in 1 .. k
      PROVE  Scr!Reads(SubSeq(t, 1, j - 1), t[j].line) <=> ReadsAt(s, j)
  <2> HIDE DEF t
  <2> DEFINE u == SubSeq(t, 1, j - 1)
  <2>1. DOMAIN u = 1 .. j - 1 /\ \A i \in 1 .. j - 1 : u[i] = t[i] /\ i \in 1 .. k
    BY <1>1, <1>2
  <2>2. \A i \in 1 .. j - 1 : u[i] = s[i]
    BY <1>2, <2>1
  <2> HIDE DEF u
  <2>3. {u[i].line.gives : i \in DOMAIN u} = {s[i].line.gives : i \in 1 .. j - 1}
    BY <2>1, <2>2
  <2>4. Scr!Given(u) = UNION {s[i].line.gives : i \in 1 .. j - 1}
    BY <2>3 DEF Scr!Given
  <2>5. t[j] = s[j]
    BY <1>2
  <2> QED
    BY <2>4, <2>5 DEF u, Scr!Reads, ReadsAt
<1> HIDE DEF t
<1>4. Scr!Parses(t) <=> \A j \in 1 .. k : Scr!Reads(SubSeq(t, 1, j - 1), t[j].line)
  BY <1>2 DEF Scr!Parses
<1> QED
  BY <1>3, <1>4 DEF t

\* The commands of a verb that name a file; f is the file of the last of a script, or
\* none when there is no such command.
FileCommands(verb) == {c \in ScrCommands : c.verb = verb /\ c.file # ScrNoFile}
Latest(s, verb, f) ==
  \/ f = ScrNoFile /\ \A k \in DOMAIN s : s[k] \notin FileCommands(verb)
  \/ \E k \in DOMAIN s : IsLast(s, FileCommands(verb), k) /\ f = s[k].file

\* One command more: its own file is the latest if it names one.
LEMMA LatestAfter ==
  ASSUME NEW s \in Seq(ScrCommands), NEW c \in ScrCommands, NEW verb, NEW f, Latest(s, verb, f)
  PROVE  Latest(Append(s, c), verb, IF c.verb = verb /\ c.file # ScrNoFile THEN c.file ELSE f)
<1> DEFINE t == Append(s, c)
           S == FileCommands(verb)
<1>1. /\ DOMAIN t = 1 .. Len(s) + 1 /\ DOMAIN s = 1 .. Len(s) /\ Len(s) \in Nat
      /\ t[Len(s) + 1] = c /\ \A j \in DOMAIN s : t[j] = s[j]
  OBVIOUS
<1>2. \A k : IsLast(t, S, k) <=> IF c \in S THEN k = Len(s) + 1 ELSE IsLast(s, S, k)
  BY LastAfter
<1>3. c \in S <=> c.verb = verb /\ c.file # ScrNoFile
  BY DEF FileCommands
<1> HIDE DEF t, S
<1>4. CASE c \in S
  <2>1. IsLast(t, S, Len(s) + 1) /\ Len(s) + 1 \in DOMAIN t
    BY <1>1, <1>2, <1>4
  <2> QED
    BY <1>1, <1>3, <1>4, <2>1 DEF Latest, S, t
<1>5. CASE c \notin S
  <2>1. CASE f = ScrNoFile /\ \A k \in DOMAIN s : s[k] \notin S
    <3>1. \A k \in DOMAIN t : t[k] \notin S
      BY <1>1, <1>5, <2>1
    <3> QED
      BY <1>3, <1>5, <2>1, <3>1 DEF Latest, S, t
  <2>2. ASSUME NEW k \in DOMAIN s, IsLast(s, S, k), f = s[k].file
        PROVE  Latest(t, verb, f)
    <3>1. IsLast(t, S, k) /\ k \in DOMAIN t /\ t[k] = s[k]
      BY <1>1, <1>2, <1>5, <2>2
    <3> QED
      BY <2>2, <3>1 DEF Latest, S
  <2> QED
    BY <1>3, <1>5, <2>1, <2>2 DEF Latest, S, t
<1> QED
  BY <1>4, <1>5

\* There is at most one last command, so the file is the one the script names last.
LEMMA LatestIsLastFile ==
  ASSUME script \in Seq(ScrCommands), NEW verb, NEW f, Latest(script, verb, f)
  PROVE  f = Scr!LastFile(verb)
<1> DEFINE K == {k \in DOMAIN script : script[k].verb = verb /\ script[k].file # ScrNoFile}
<1>1. \A k \in DOMAIN script : script[k] \in FileCommands(verb) <=> k \in K
  BY DEF FileCommands
<1>2. Scr!LastFile(verb) = IF K = {} THEN ScrNoFile
                          ELSE script[CHOOSE k \in K : \A j \in K : j <= k].file
  BY DEF Scr!LastFile
<1>3. CASE f = ScrNoFile /\ \A k \in DOMAIN script : script[k] \notin FileCommands(verb)
  BY <1>1, <1>2, <1>3
<1>4. ASSUME NEW k \in DOMAIN script, IsLast(script, FileCommands(verb), k), f = script[k].file
      PROVE  f = Scr!LastFile(verb)
  <2>1. K \subseteq Int /\ k \in K /\ \A j \in K : j <= k
    BY <1>1, <1>4 DEF IsLast
  <2> DEFINE last == CHOOSE h \in K : \A j \in K : j <= h
  <2> HIDE DEF K
  <2>2. last \in K /\ \A j \in K : j <= last
    BY <2>1
  <2> HIDE DEF last
  <2>3. last = k
    BY <2>1, <2>2
  <2> QED
    BY <1>2, <1>4, <2>1, <2>3 DEF last
<1> QED
  BY <1>3, <1>4 DEF Latest

\* The combined text has its types, and its entries come from commands that were read.
TextInv ==
  /\ script \in Seq(ScrCommands) /\ scr_sdc \in Seq(Entry)
  /\ \A i \in DOMAIN scr_sdc : scr_sdc[i].at <= Len(script)

\* A command of the reader that is not in the text did not read where it stood.
LeftOut(k) ==
  script[k].verb = "sdc_command" /\ (\A i \in DOMAIN scr_sdc : scr_sdc[i].at # k) =>
    ~script[k].lines[1].well_formed \/
      ~(script[k].lines[1].needs \subseteq
          UNION {scr_sdc[i].line.gives : i \in {j \in DOMAIN scr_sdc : scr_sdc[j].at < k}})

\* A line that was tried reads, if the lines before it do.
Tried(i) == scr_sdc[i].by = "trial" /\ (\A j \in 1 .. i - 1 : ReadsAt(scr_sdc, j)) => ReadsAt(scr_sdc, i)

CostInv ==
  /\ TextInv
  /\ \A k \in DOMAIN script : LeftOut(k)
  /\ \A i \in DOMAIN scr_sdc : Tried(i)

\* What a command adds to the text.
Added(c, branch) == scr_sdc' = scr_sdc \o Scr!By(branch, c.lines)

\* The three ways a command treats the text: its lines are added unread, a line is
\* added that reads or follows one that does not, and nothing is added.
LEMMA ScrText ==
  ASSUME NEW c \in ScrCommands, Scr!ReadCommand(c)
  PROVE  /\ script' = Append(script, c)
         /\ \/ \E branch \in {"file", "verb"} : Added(c, branch) /\ c.verb # "sdc_command"
            \/ Added(c, "trial") /\ c.verb = "sdc_command" /\ Scr!Forwarded(scr_sdc, c.lines[1])
            \/ /\ scr_sdc' = scr_sdc
               /\ c.verb = "sdc_command" => ~Scr!Forwarded(scr_sdc, c.lines[1])
               /\ c.lines = <<>> \/ Scr!Note(c) \in ignored' \/ scr_phase' = "failed"
<1>0. c.lines # <<>> => c.verb \in Scr!LineVerbs
  BY FrontEndAssumption DEF Scr!ConstantsOK
<1>1. script' = Append(script, c)
  BY DEF Scr!ReadCommand
<1>2. CASE Scr!ReadDesign(c) \/ Scr!ReadLiberty(c) \/ Scr!Report(c) \/ Scr!SetUnits(c) \/ Scr!OtherTcl(c)
  <2>1. c.verb \notin Scr!LineVerbs /\ scr_sdc' = scr_sdc
    BY <1>2 DEF Scr!ReadDesign, Scr!ReadLiberty, Scr!Report, Scr!SetUnits, Scr!OtherTcl, Scr!Texts,
                Scr!ReportVerbs, Scr!LineVerbs
  <2> QED
    BY <1>0, <1>1, <2>1 DEF Scr!LineVerbs
<1>3. CASE Scr!ReadSdc(c)
  BY <1>1, <1>3 DEF Scr!ReadSdc, Scr!Texts, Added
<1>4. CASE Scr!SdcVerb(c)
  BY <1>1, <1>4 DEF Scr!SdcVerb, Added
<1>5. CASE Scr!SdcCommand(c)
  BY <1>1, <1>5 DEF Scr!SdcCommand, Added
<1> QED
  BY <1>2, <1>3, <1>4, <1>5 DEF Scr!ReadCommand

\* The text with the lines of a command added.
LEMMA TextGrows ==
  ASSUME TextInv, NEW c \in ScrCommands, NEW branch \in {"file", "verb", "trial"},
         Added(c, branch)
  PROVE  /\ scr_sdc' \in Seq(Entry) /\ Len(scr_sdc') = Len(scr_sdc) + Len(c.lines)
         /\ Len(scr_sdc) \in Nat /\ Len(c.lines) \in Nat
         /\ DOMAIN scr_sdc = 1 .. Len(scr_sdc) /\ DOMAIN scr_sdc' = 1 .. Len(scr_sdc) + Len(c.lines)
         /\ \A i \in DOMAIN scr_sdc : scr_sdc'[i] = scr_sdc[i]
         /\ \A i \in DOMAIN scr_sdc' \ DOMAIN scr_sdc :
              scr_sdc'[i].by = branch /\ scr_sdc'[i].at = Len(script) + 1
         /\ \A k \in 1 .. Len(c.lines) : scr_sdc'[Len(scr_sdc) + k].line = c.lines[k]
<1> DEFINE b == Scr!By(branch, c.lines)
           n == Len(scr_sdc)
           m == Len(c.lines)
<1>1. c.lines \in Seq(Scr!Range(c.lines)) /\ Scr!Range(c.lines) \subseteq ScriptLines
  BY FrontEndAssumption DEF Scr!ConstantsOK, ScriptLines
<1>2. c.lines \in Seq(ScriptLines) /\ m \in Nat /\ DOMAIN c.lines = 1 .. m
      /\ \A k \in 1 .. m : c.lines[k] \in ScriptLines
  <2>1. \A S, T : S \subseteq T => Seq(S) \subseteq Seq(T)
    OBVIOUS
  <2> QED
    BY <1>1, <2>1
<1>3. n \in Nat /\ DOMAIN scr_sdc = 1 .. n /\ Len(script) \in Nat
  BY DEF TextInv
<1>4. \A k \in 1 .. m : /\ b[k] \in Entry
                        /\ b[k].line = c.lines[k] /\ b[k].by = branch /\ b[k].at = Len(script) + 1
  BY <1>2, <1>3 DEF Scr!By, Entry
<1>5. b \in Seq(Entry) /\ Len(b) = m
  <2>1. b = [k \in 1 .. m |-> b[k]]
    BY <1>2 DEF Scr!By
  <2> HIDE DEF b, m
  <2>2. m \in Nat /\ \A k \in 1 .. m : b[k] \in Entry
    BY <1>2, <1>4
  <2>3. [k \in 1 .. m |-> b[k]] \in Seq(Entry)
    BY <2>2
  <2>4. Len([k \in 1 .. m |-> b[k]]) = m
    BY <2>2
  <2> QED
    BY <2>1, <2>3, <2>4, Zenon
<1>6. scr_sdc' = scr_sdc \o b
  BY DEF Added
<1> HIDE DEF b, n, m
<1>7. scr_sdc \in Seq(Entry)
  BY DEF TextInv
<1>8. scr_sdc' \in Seq(Entry) /\ Len(scr_sdc') = n + m /\ DOMAIN scr_sdc' = 1 .. n + m
  <2>1. scr_sdc' \in Seq(Entry)
    BY <1>5, <1>6, <1>7
  <2>2. \A s, t \in Seq(Entry) : Len(s \o t) = Len(s) + Len(t)
    OBVIOUS
  <2>3. Len(scr_sdc') = n + m
    BY <1>5, <1>6, <1>7, <2>2, Zenon DEF n
  <2> QED
    BY <2>1, <2>3
<1>9. /\ \A i \in 1 .. n : scr_sdc'[i] = scr_sdc[i]
      /\ \A i \in 1 .. n + m : i > n => scr_sdc'[i] = b[i - n]
  BY <1>2, <1>3, <1>5, <1>6, <1>7 DEF n
<1>10. \A i \in DOMAIN scr_sdc' \ DOMAIN scr_sdc :
         scr_sdc'[i].by = branch /\ scr_sdc'[i].at = Len(script) + 1
  <2> SUFFICES ASSUME NEW i \in 1 .. n + m, i > n
               PROVE  scr_sdc'[i].by = branch /\ scr_sdc'[i].at = Len(script) + 1
    BY <1>2, <1>3, <1>8
  <2>1. i - n \in 1 .. m
    BY <1>2, <1>3
  <2> QED
    BY <1>4, <1>9, <2>1
<1>11. \A k \in 1 .. m : scr_sdc'[n + k].line = c.lines[k]
  <2> SUFFICES ASSUME NEW k \in 1 .. m PROVE scr_sdc'[n + k].line = c.lines[k]
    OBVIOUS
  <2>1. n + k \in 1 .. n + m /\ n + k > n /\ (n + k) - n = k
    BY <1>2, <1>3
  <2>2. scr_sdc'[n + k] = b[k]
    BY <1>9, <2>1
  <2> QED
    BY <1>4, <2>2
<1> QED
  BY <1>2, <1>3, <1>8, <1>9, <1>10, <1>11 DEF n, m

\* What the reader can evaluate at the end of the text, by its lines.
LEMMA ForwardedAtEnd ==
  ASSUME TextInv, NEW line
  PROVE  /\ Scr!Given(scr_sdc) = UNION {scr_sdc[i].line.gives : i \in DOMAIN scr_sdc}
         /\ Scr!Parses(scr_sdc) <=> \A j \in DOMAIN scr_sdc : ReadsAt(scr_sdc, j)
<1>1. Len(scr_sdc) \in 0 .. Len(scr_sdc) /\ DOMAIN scr_sdc = 1 .. Len(scr_sdc)
  BY DEF TextInv
<1>2. SubSeq(scr_sdc, 1, Len(scr_sdc)) = scr_sdc
  BY DEF TextInv
<1>3. Scr!Parses(SubSeq(scr_sdc, 1, Len(scr_sdc))) <=> \A j \in 1 .. Len(scr_sdc) : ReadsAt(scr_sdc, j)
  BY <1>1, ParsesPrefix DEF TextInv
<1> QED
  BY <1>1, <1>2, <1>3 DEF Scr!Given

\* A command more, read or left out, disturbs what was said of those before it, and the
\* same is true of it.
LEMMA CostStep ==
  ASSUME CostInv, NEW c \in ScrCommands, Scr!ReadCommand(c)
  PROVE  CostInv'
<1>1. TextInv
  BY DEF CostInv
<1>n. PICK n \in Nat : n = Len(script)
  BY <1>1 DEF TextInv
<1>m. PICK m \in Nat : m = Len(scr_sdc)
  BY <1>1 DEF TextInv
<1>2. /\ script' \in Seq(ScrCommands) /\ n \in Nat /\ Len(script') = n + 1
      /\ DOMAIN script = 1 .. n /\ DOMAIN script' = 1 .. n + 1
      /\ script'[n + 1] = c /\ \A k \in 1 .. n : script'[k] = script[k]
  <2>1. script' = Append(script, c)
    BY ScrText
  <2> QED
    BY <1>1, <1>n, <2>1 DEF TextInv
<1>3. m \in Nat /\ DOMAIN scr_sdc = 1 .. m /\ scr_sdc \in Seq(Entry)
  BY <1>1, <1>m DEF TextInv
<1>4. \A i \in 1 .. m : scr_sdc[i].at \in Int /\ scr_sdc[i].at <= n
  <2>1. \A i \in 1 .. m : scr_sdc[i] \in Entry
    BY <1>3
  <2>2. \A e \in Entry : e.at \in Int
    BY DEF Entry
  <2> QED
    BY <1>1, <1>n, <1>3, <2>1, <2>2 DEF TextInv
\* The text is a prefix of the next; what is new comes from this command.
<1> DEFINE Grows(branch) ==
             /\ scr_sdc' \in Seq(Entry)
             /\ DOMAIN scr_sdc \subseteq DOMAIN scr_sdc'
             /\ DOMAIN scr_sdc' \subseteq Int /\ \A i \in DOMAIN scr_sdc' : i > 0
             /\ \A i \in DOMAIN scr_sdc : scr_sdc'[i] = scr_sdc[i]
             /\ \A i \in DOMAIN scr_sdc' \ DOMAIN scr_sdc :
                  i > m /\ scr_sdc'[i].by = branch /\ scr_sdc'[i].at = n + 1
<1>5. ASSUME NEW branch \in {"file", "verb", "trial"}, Added(c, branch) \/ scr_sdc' = scr_sdc
      PROVE  Grows(branch)
  <2>1. CASE scr_sdc' = scr_sdc
    BY <1>3, <2>1
  <2>2. CASE Added(c, branch)
    <3>1. /\ scr_sdc' \in Seq(Entry)
          /\ Len(c.lines) \in Nat /\ DOMAIN scr_sdc' = 1 .. m + Len(c.lines)
          /\ \A i \in DOMAIN scr_sdc : scr_sdc'[i] = scr_sdc[i]
          /\ \A i \in DOMAIN scr_sdc' \ DOMAIN scr_sdc :
               scr_sdc'[i].by = branch /\ scr_sdc'[i].at = n + 1
      BY <1>1, <1>n, <1>m, <2>2, TextGrows
    <3> QED
      BY <1>3, <3>1
  <2> QED
    BY <1>5, <2>1, <2>2
<1>6. ASSUME NEW branch, Grows(branch)
      PROVE  /\ TextInv'
             /\ \A k \in 1 .. n : LeftOut(k)'
             /\ \A i \in DOMAIN scr_sdc : Tried(i)'
  <2>1. TextInv'
    <3>1. \A i \in DOMAIN scr_sdc' : scr_sdc'[i].at <= Len(script')
      BY <1>2, <1>3, <1>4, <1>6
    <3> QED
      BY <1>2, <1>6, <3>1 DEF TextInv
  <2>2. ASSUME NEW k \in 1 .. n PROVE LeftOut(k)'
    <3>1. {i \in DOMAIN scr_sdc' : scr_sdc'[i].at < k} = {i \in DOMAIN scr_sdc : scr_sdc[i].at < k}
      BY <1>2, <1>3, <1>4, <1>6
    <3> DEFINE E == {i \in DOMAIN scr_sdc : scr_sdc[i].at < k}
    <3>2. {scr_sdc'[i].line.gives : i \in E} = {scr_sdc[i].line.gives : i \in E}
      BY <1>6
    <3>3. (\A i \in DOMAIN scr_sdc' : scr_sdc'[i].at # k) => \A i \in DOMAIN scr_sdc : scr_sdc[i].at # k
      BY <1>6
    <3>4. LeftOut(k)
      BY <1>2 DEF CostInv
    <3>5. script'[k] = script[k]
      BY <1>2
    <3>6. UNION {scr_sdc'[i].line.gives : i \in {j \in DOMAIN scr_sdc' : scr_sdc'[j].at < k}}
            = UNION {scr_sdc[i].line.gives : i \in {j \in DOMAIN scr_sdc : scr_sdc[j].at < k}}
      BY <3>1, <3>2
    <3> QED
      BY <3>3, <3>4, <3>5, <3>6 DEF LeftOut
  <2>3. ASSUME NEW i \in DOMAIN scr_sdc PROVE Tried(i)'
    <3>1. \A j \in 1 .. i : j \in DOMAIN scr_sdc /\ scr_sdc'[j] = scr_sdc[j]
      BY <1>3, <1>6
    <3>2. ASSUME NEW j \in 1 .. i PROVE ReadsAt(scr_sdc', j) <=> ReadsAt(scr_sdc, j)
      <4>1. \A h \in 1 .. j - 1 : scr_sdc'[h] = scr_sdc[h]
        BY <1>3, <3>1
      <4>2. {scr_sdc'[h].line.gives : h \in 1 .. j - 1} = {scr_sdc[h].line.gives : h \in 1 .. j - 1}
        BY <4>1
      <4> QED
        BY <3>1, <4>2 DEF ReadsAt
    <3>3. Tried(i)
      BY DEF CostInv
    <3>4. i \in 1 .. i /\ 1 .. i - 1 \subseteq 1 .. i
      BY <1>3
    <3> QED
      BY <3>1, <3>2, <3>3, <3>4 DEF Tried
  <2> QED
    BY <2>1, <2>2, <2>3
<1>7. /\ Scr!Given(scr_sdc) = UNION {scr_sdc[i].line.gives : i \in DOMAIN scr_sdc}
      /\ Scr!Parses(scr_sdc) <=> \A j \in DOMAIN scr_sdc : ReadsAt(scr_sdc, j)
  BY <1>1, ForwardedAtEnd
<1>8. CASE \E branch \in {"file", "verb"} : Added(c, branch) /\ c.verb # "sdc_command"
  <2>1. PICK branch \in {"file", "verb"} : Added(c, branch) /\ c.verb # "sdc_command"
    BY <1>8
  <2>2. Grows(branch)
    BY <1>5, <2>1
  <2>3. \A i \in DOMAIN scr_sdc' \ DOMAIN scr_sdc : Tried(i)'
    BY <2>1, <2>2 DEF Tried
  <2>4. LeftOut(n + 1)'
    BY <1>2, <2>1 DEF LeftOut
  <2> HIDE DEF Grows
  <2>5. TextInv' /\ (\A k \in 1 .. n : LeftOut(k)') /\ \A i \in DOMAIN scr_sdc : Tried(i)'
    BY <1>6, <2>2
  <2>6. \A k \in DOMAIN script' : k \in 1 .. n \/ k = n + 1
    BY <1>2
  <2> QED
    BY <2>3, <2>4, <2>5, <2>6 DEF CostInv
<1>9. CASE Added(c, "trial") /\ c.verb = "sdc_command" /\ Scr!Forwarded(scr_sdc, c.lines[1])
  <2>1. Grows("trial")
    BY <1>5, <1>9
  <2>2. Len(c.lines) = 1
    BY <1>9, FrontEndAssumption DEF Scr!ConstantsOK
  <2>3. DOMAIN scr_sdc' = 1 .. m + 1 /\ scr_sdc'[m + 1].line = c.lines[1]
        /\ scr_sdc'[m + 1].at = n + 1
    <3>1. /\ DOMAIN scr_sdc' = 1 .. m + 1
          /\ \A k \in 1 .. 1 : scr_sdc'[m + k].line = c.lines[k]
      BY <1>1, <1>m, <1>9, <2>2, TextGrows
    <3>2. 1 \in 1 .. 1 /\ m + 1 \in DOMAIN scr_sdc' \ DOMAIN scr_sdc
      BY <1>3, <3>1
    <3>3. scr_sdc'[m + 1].at = n + 1
      BY <2>1, <3>2
    <3> QED
      BY <3>1, <3>2, <3>3
  <2>4. Tried(m + 1)'
    <3> SUFFICES ASSUME \A j \in 1 .. m : ReadsAt(scr_sdc', j) PROVE ReadsAt(scr_sdc', m + 1)
      BY <1>3 DEF Tried
    <3>1. ASSUME NEW j \in 1 .. m PROVE ReadsAt(scr_sdc, j)
      <4>1. \A h \in 1 .. j - 1 : scr_sdc'[h] = scr_sdc[h]
        BY <1>3, <2>1
      <4>2. {scr_sdc'[h].line.gives : h \in 1 .. j - 1} = {scr_sdc[h].line.gives : h \in 1 .. j - 1}
        BY <4>1
      <4>3. scr_sdc'[j] = scr_sdc[j]
        BY <1>3, <2>1
      <4> QED
        BY <4>2, <4>3 DEF ReadsAt
    <3>2. Scr!Reads(scr_sdc, c.lines[1])
      BY <1>3, <1>7, <1>9, <3>1 DEF Scr!Forwarded
    <3>3. {scr_sdc'[h].line.gives : h \in 1 .. m} = {scr_sdc[h].line.gives : h \in 1 .. m}
      BY <1>3, <2>1
    <3>4. (m + 1) - 1 = m
      BY <1>3
    <3> QED
      BY <1>3, <1>7, <2>3, <3>2, <3>3, <3>4 DEF Scr!Reads, ReadsAt
  <2>5. LeftOut(n + 1)'
    <3>1. m + 1 \in DOMAIN scr_sdc'
      BY <1>3, <2>3
    <3> QED
      BY <2>3, <3>1 DEF LeftOut
  <2> HIDE DEF Grows
  <2>6. TextInv' /\ (\A k \in 1 .. n : LeftOut(k)') /\ \A i \in DOMAIN scr_sdc : Tried(i)'
    BY <1>6, <2>1
  <2>7. \A k \in DOMAIN script' : k \in 1 .. n \/ k = n + 1
    BY <1>2
  <2>8. \A i \in DOMAIN scr_sdc' : i \in DOMAIN scr_sdc \/ i = m + 1
    BY <1>3, <2>3
  <2> QED
    BY <2>4, <2>5, <2>6, <2>7, <2>8 DEF CostInv
<1>10. CASE scr_sdc' = scr_sdc /\ (c.verb = "sdc_command" => ~Scr!Forwarded(scr_sdc, c.lines[1]))
  <2>1. Grows("file")
    BY <1>5, <1>10
  <2>2. LeftOut(n + 1)'
    <3> SUFFICES ASSUME c.verb = "sdc_command"
                 PROVE  ~c.lines[1].well_formed \/
                          ~(c.lines[1].needs \subseteq
                              UNION {scr_sdc[i].line.gives : i \in {j \in DOMAIN scr_sdc : scr_sdc[j].at < n + 1}})
      BY <1>2, <1>10 DEF LeftOut
    <3>1. ~Scr!Reads(scr_sdc, c.lines[1])
      BY <1>10 DEF Scr!Forwarded
    <3>2. {j \in DOMAIN scr_sdc : scr_sdc[j].at < n + 1} = DOMAIN scr_sdc
      BY <1>2, <1>3, <1>4
    <3> QED
      BY <1>7, <3>1, <3>2 DEF Scr!Reads
  <2> HIDE DEF Grows
  <2>3. TextInv' /\ (\A k \in 1 .. n : LeftOut(k)') /\ \A i \in DOMAIN scr_sdc : Tried(i)'
    BY <1>6, <2>1
  <2>4. \A k \in DOMAIN script' : k \in 1 .. n \/ k = n + 1
    BY <1>2
  <2> QED
    BY <1>10, <2>2, <2>3, <2>4 DEF CostInv
<1> QED
  BY <1>8, <1>9, <1>10, ScrText

\* A command to read constraints that names no constraint file.
NoConstraints(c) ==
  c.verb \in {"read_sdc", "source"} /\ (c.file = ScrNoFile \/ (c.verb = "source" /\ ~c.sdc_file))

\* What became of a command: a library is timed with or noted, its lines are in the
\* text or it is noted, and a command that is not the timer's is noted.
Heard(c) ==
  /\ c.verb = "read_liberty" /\ c.file # ScrNoFile => c.file \in Scr!Range(libs) \/ Scr!Note(c) \in ignored
  /\ scr_phase # "failed" =>
       \A l \in Scr!Range(c.lines) : l \in Scr!Lines \/ Scr!Note(c) \in ignored
  /\ c.verb = "other" \/ NoConstraints(c) => Scr!Note(c) \in ignored

\* The job of a script that is adapted, and what is said of the lines not in it.
Adapted ==
  /\ scr_job.netlist = netlist /\ scr_job.design = design /\ scr_job.spef = spef
  /\ scr_job.libs = Scr!LibsOf
  /\ scr_job.applied = {l \in Scr!Lines : l.fate = "applied"}
  /\ warnings = Scr!Warned
  /\ \A kind \in Scr!Noted : [verb |-> "(sdc)", file |-> kind] \in ignored

ScrFiles == {c.file : c \in ScrCommands}

HeardInv ==
  /\ libs \in Seq(ScrFiles)
  /\ Latest(script, "read_verilog", netlist)
  /\ Latest(script, "link_design", design)
  /\ Latest(script, "read_spef", spef)
  /\ \A k \in DOMAIN script : Heard(script[k])
  /\ scr_phase = "done" => Adapted

ScrInv == CostInv /\ HeardInv

\* A command of the design replaces the file of its kind, and no other does.
LEMMA ScrLatest ==
  ASSUME NEW c \in ScrCommands, Scr!ReadCommand(c)
  PROVE  /\ netlist' = IF c.verb = "read_verilog" /\ c.file # ScrNoFile THEN c.file ELSE netlist
         /\ design' = IF c.verb = "link_design" /\ c.file # ScrNoFile THEN c.file ELSE design
         /\ spef' = IF c.verb = "read_spef" /\ c.file # ScrNoFile THEN c.file ELSE spef
<1>1. CASE Scr!ReadDesign(c)
  BY <1>1 DEF Scr!ReadDesign
<1>2. CASE Scr!ReadLiberty(c) \/ Scr!ReadSdc(c) \/ Scr!Report(c) \/ Scr!SdcVerb(c)
           \/ Scr!SdcCommand(c) \/ Scr!SetUnits(c) \/ Scr!OtherTcl(c)
  <2>1. c.verb \notin {"read_verilog", "link_design", "read_spef"}
    BY <1>2 DEF Scr!ReadLiberty, Scr!ReadSdc, Scr!Report, Scr!SdcVerb, Scr!SdcCommand, Scr!SetUnits, Scr!OtherTcl,
                Scr!ReportVerbs
  <2>2. UNCHANGED <<netlist, design, spef>>
    BY <1>2 DEF Scr!ReadLiberty, Scr!ReadSdc, Scr!Report, Scr!SdcVerb, Scr!SdcCommand, Scr!SetUnits, Scr!OtherTcl,
                Scr!Files
  <2> QED
    BY <2>1, <2>2
<1> QED
  BY <1>1, <1>2 DEF Scr!ReadCommand

\* Nothing noted, no library and no line in the text is lost by a later command, and a
\* command is heard when it is read.
LEMMA HeardAfter ==
  ASSUME CostInv, HeardInv, NEW c \in ScrCommands, Scr!ReadCommand(c)
  PROVE  /\ ignored \subseteq ignored'
         /\ libs' \in Seq(ScrFiles) /\ Scr!Range(libs) \subseteq Scr!Range(libs')
         /\ Scr!Lines \subseteq Scr!Lines'
         /\ scr_phase = "read"
         /\ Heard(c)'
<1>1. TextInv
  BY DEF CostInv
<1>2. /\ ignored \subseteq ignored' /\ scr_phase = "read"
      /\ c.verb = "other" \/ NoConstraints(c) => Scr!Note(c) \in ignored'
  BY DEF NoConstraints, Scr!ReadCommand, Scr!ReadDesign, Scr!ReadLiberty, Scr!ReadSdc, Scr!Report, Scr!SdcVerb,
         Scr!SdcCommand, Scr!SetUnits, Scr!OtherTcl, Scr!ReportVerbs
<1>3. \/ libs' = libs /\ (c.verb = "read_liberty" /\ c.file # ScrNoFile => Scr!Note(c) \in ignored')
      \/ libs' = Append(libs, c.file)
  BY DEF Scr!ReadCommand, Scr!ReadDesign, Scr!ReadLiberty, Scr!ReadSdc, Scr!Report, Scr!SdcVerb,
         Scr!SdcCommand, Scr!SetUnits, Scr!OtherTcl, Scr!ReportVerbs, Scr!Files
<1>4. /\ libs' \in Seq(ScrFiles) /\ Scr!Range(libs) \subseteq Scr!Range(libs')
      /\ c.verb = "read_liberty" /\ c.file # ScrNoFile =>
           c.file \in Scr!Range(libs') \/ Scr!Note(c) \in ignored'
  <2>1. libs \in Seq(ScrFiles) /\ c.file \in ScrFiles
    BY DEF HeardInv, ScrFiles
  <2>2. CASE libs' = Append(libs, c.file)
    <3>1. /\ libs' \in Seq(ScrFiles) /\ Len(libs) \in Nat /\ DOMAIN libs = 1 .. Len(libs)
          /\ DOMAIN libs' = 1 .. Len(libs) + 1
          /\ libs'[Len(libs) + 1] = c.file /\ \A k \in 1 .. Len(libs) : libs'[k] = libs[k]
      BY <2>1, <2>2
    <3>2. Len(libs) + 1 \in DOMAIN libs' /\ DOMAIN libs \subseteq DOMAIN libs'
      BY <3>1
    <3> QED
      BY <3>1, <3>2 DEF Scr!Range
  <2> QED
    BY <1>3, <2>1, <2>2
<1>5. /\ Scr!Lines \subseteq Scr!Lines'
      /\ scr_phase' # "failed" =>
           \A l \in Scr!Range(c.lines) : l \in Scr!Lines' \/ Scr!Note(c) \in ignored'
  <2>1. ASSUME NEW branch \in {"file", "verb", "trial"}, Added(c, branch)
        PROVE  Scr!Lines \subseteq Scr!Lines' /\ Scr!Range(c.lines) \subseteq Scr!Lines'
    <3> PICK m \in Nat : m = Len(scr_sdc)
      BY <1>1 DEF TextInv
    <3> PICK p \in Nat : p = Len(c.lines)
      BY <1>1, <2>1, TextGrows
    <3>1. /\ DOMAIN scr_sdc = 1 .. m /\ DOMAIN scr_sdc' = 1 .. m + p
          /\ \A i \in DOMAIN scr_sdc : scr_sdc'[i] = scr_sdc[i]
          /\ \A k \in 1 .. p : scr_sdc'[m + k].line = c.lines[k]
      BY <1>1, <2>1, TextGrows
    <3>2. DOMAIN scr_sdc \subseteq DOMAIN scr_sdc' /\ \A k \in 1 .. p : m + k \in DOMAIN scr_sdc'
      BY <3>1
    <3>3. DOMAIN c.lines = 1 .. p
      BY FrontEndAssumption DEF Scr!ConstantsOK
    <3>4. Scr!Lines \subseteq Scr!Lines'
      BY <3>1, <3>2 DEF Scr!Lines
    <3>5. ASSUME NEW k \in 1 .. p PROVE c.lines[k] \in Scr!Lines'
      <4>1. scr_sdc'[m + k].line = c.lines[k] /\ m + k \in DOMAIN scr_sdc'
        BY <3>1, <3>2
      <4> QED
        BY <4>1 DEF Scr!Lines
    <3>6. \A l \in Scr!Range(c.lines) : \E k \in 1 .. p : l = c.lines[k]
      BY <3>3 DEF Scr!Range
    <3> QED
      BY <3>4, <3>5, <3>6
  <2>2. CASE scr_sdc' = scr_sdc /\ (c.lines = <<>> \/ Scr!Note(c) \in ignored' \/ scr_phase' = "failed")
    <3>1. c.lines = <<>> => Scr!Range(c.lines) = {}
      BY DEF Scr!Range
    <3> QED
      BY <2>2, <3>1 DEF Scr!Lines
  <2> QED
    BY <2>1, <2>2, ScrText
<1>6. Heard(c)'
  BY <1>2, <1>4, <1>5 DEF Heard, NoConstraints, Scr!Note
<1> QED
  BY <1>2, <1>4, <1>5, <1>6

\* A script starts with nothing read and nothing said (tcl.rs).
LEMMA ScrInit == Scr!Init => ScrInv
<1> SUFFICES ASSUME Scr!Init PROVE ScrInv
  OBVIOUS
<1>1. /\ script = <<>> /\ scr_sdc = <<>> /\ libs = <<>> /\ scr_phase = "read"
      /\ netlist = ScrNoFile /\ design = ScrNoFile /\ spef = ScrNoFile
  BY DEF Scr!Init
<1>2. CostInv
  BY <1>1 DEF CostInv, TextInv
<1>3. HeardInv
  BY <1>1 DEF HeardInv, Latest
<1> QED
  BY <1>2, <1>3 DEF ScrInv

\* What does not touch the script, its text, files, notes and job keeps the invariant.
LEMMA ScrKept ==
  ASSUME ScrInv,
         UNCHANGED <<script, netlist, design, spef, libs, min_libs, scr_sdc, ignored,
                   scr_phase, scr_job, warnings>>
  PROVE  ScrInv'
<1>1. CostInv'
  BY DEF ScrInv, CostInv, TextInv, LeftOut, Tried, ReadsAt
<1>2. Scr!Lines' = Scr!Lines /\ Scr!LibsOf' = Scr!LibsOf
  BY DEF Scr!Lines, Scr!LibsOf
<1>3. Scr!Warned' = Scr!Warned /\ Scr!Noted' = Scr!Noted
  BY <1>2 DEF Scr!Warned, Scr!Noted
<1>4. scr_phase' = "done" => Adapted'
  BY <1>2, <1>3 DEF ScrInv, HeardInv, Adapted
<1>5. \A k \in DOMAIN script : Heard(script[k])'
  BY <1>2 DEF ScrInv, HeardInv, Heard, NoConstraints, Scr!Note
<1> QED
  BY <1>1, <1>4, <1>5 DEF ScrInv, HeardInv, Latest

\* The invariant is kept by every command read, by the end of the script and by the
\* report.
LEMMA ScrStepInv == ScrInv /\ Scr!Next => ScrInv'
<1>1. ASSUME ScrInv, NEW c \in ScrCommands, Scr!ReadCommand(c) PROVE ScrInv'
  <2>1. CostInv /\ HeardInv
    BY <1>1 DEF ScrInv
  <2>2. CostInv'
    BY <1>1, <2>1, CostStep
  <2>3. script' = Append(script, c) /\ script \in Seq(ScrCommands)
    BY <1>1, <2>1, ScrText DEF CostInv, TextInv
  <2>4. /\ ignored \subseteq ignored'
        /\ libs' \in Seq(ScrFiles) /\ Scr!Range(libs) \subseteq Scr!Range(libs')
        /\ Scr!Lines \subseteq Scr!Lines'
        /\ scr_phase = "read"
        /\ Heard(c)'
    BY <1>1, <2>1, HeardAfter
  <2>5. scr_phase' # "done"
    BY <1>1, <2>4 DEF Scr!ReadCommand, Scr!ReadDesign, Scr!ReadLiberty, Scr!ReadSdc, Scr!Report,
                      Scr!SdcVerb, Scr!SdcCommand, Scr!SetUnits, Scr!OtherTcl, Scr!Texts
  <2>6. /\ Latest(script, "read_verilog", netlist)
        /\ Latest(script, "link_design", design)
        /\ Latest(script, "read_spef", spef)
    BY <2>1 DEF HeardInv
  <2>7. /\ netlist' = IF c.verb = "read_verilog" /\ c.file # ScrNoFile THEN c.file ELSE netlist
        /\ design' = IF c.verb = "link_design" /\ c.file # ScrNoFile THEN c.file ELSE design
        /\ spef' = IF c.verb = "read_spef" /\ c.file # ScrNoFile THEN c.file ELSE spef
    BY <1>1, ScrLatest
  <2>8. Latest(script', "read_verilog", netlist')
    BY <1>1, <2>3, <2>6, <2>7, LatestAfter
  <2>9. Latest(script', "link_design", design')
    BY <1>1, <2>3, <2>6, <2>7, LatestAfter
  <2>10. Latest(script', "read_spef", spef')
    BY <1>1, <2>3, <2>6, <2>7, LatestAfter
  <2>11. ASSUME NEW d, Heard(d) PROVE Heard(d)'
    BY <2>4, <2>11 DEF Heard, NoConstraints, Scr!Note
  <2>12. ASSUME NEW k \in DOMAIN script' PROVE Heard(script[k])'
    <3>1. CASE k \in DOMAIN script
      <4>1. PICK d : d = script[k] /\ Heard(d)
        BY <2>1, <3>1 DEF HeardInv
      <4>2. script'[k] = d
        BY <2>3, <3>1, <4>1
      <4>3. Heard(d)'
        BY <2>11, <4>1
      <4> QED
        BY <4>2, <4>3 DEF Heard, NoConstraints, Scr!Note
    <3>2. CASE k \notin DOMAIN script
      <4>1. k = Len(script) + 1 /\ script'[k] = c
        BY <2>3, <3>2
      <4> QED
        BY <2>4, <4>1 DEF Heard, NoConstraints, Scr!Note
    <3> QED
      BY <3>1, <3>2
  <2>13. HeardInv'
    BY <2>4, <2>5, <2>8, <2>9, <2>10, <2>12 DEF HeardInv, Latest
  <2> QED
    BY <2>2, <2>13 DEF ScrInv
<1>2. ASSUME ScrInv, Scr!Finish PROVE ScrInv'
  <2>1. CostInv /\ HeardInv
    BY <1>2 DEF ScrInv
  <2>2. /\ UNCHANGED <<script, netlist, design, spef, libs, min_libs, scr_sdc>>
        /\ scr_phase = "read" /\ ignored \subseteq ignored'
    BY <1>2 DEF Scr!Finish
  <2>3. CostInv'
    BY <2>1, <2>2 DEF CostInv, TextInv, LeftOut, Tried, ReadsAt
  <2>4. Scr!Lines' = Scr!Lines /\ Scr!LibsOf' = Scr!LibsOf
    BY <2>2 DEF Scr!Lines, Scr!LibsOf
  <2>5. scr_phase' = "done" => Adapted'
    <3> SUFFICES ASSUME scr_phase' = "done" PROVE Adapted'
      OBVIOUS
    <3>1. /\ scr_job' = [netlist |-> netlist, design |-> design, libs |-> Scr!LibsOf, spef |-> spef,
                         applied |-> {l \in Scr!Lines : l.fate = "applied"}]
          /\ warnings' = Scr!Warned
          /\ ignored' = ignored \cup {[verb |-> "(sdc)", file |-> kind] : kind \in Scr!Noted}
      BY <1>2 DEF Scr!Finish
    <3>2. Scr!Warned' = Scr!Warned /\ Scr!Noted' = Scr!Noted
      BY <2>4 DEF Scr!Warned, Scr!Noted
    <3> QED
      BY <2>2, <2>4, <3>1, <3>2 DEF Adapted
  <2>6. \A k \in DOMAIN script : Heard(script[k])'
    BY <2>1, <2>2, <2>4 DEF HeardInv, Heard, NoConstraints, Scr!Note
  <2>7. HeardInv'
    BY <2>1, <2>2, <2>5, <2>6 DEF HeardInv, Latest
  <2> QED
    BY <2>3, <2>7 DEF ScrInv
<1>3. ASSUME ScrInv, Scr!Render PROVE ScrInv'
  <2>1. UNCHANGED <<script, netlist, design, spef, libs, min_libs, scr_sdc, ignored,
                  scr_phase, scr_job, warnings>>
    BY <1>3 DEF Scr!Render
  <2> QED
    BY <1>3, <2>1, ScrKept
<1> QED
  BY <1>1, <1>2, <1>3 DEF Scr!Next

\* The state of the part only moves by its own steps.
LEMMA ScrSteps ==
  ASSUME [Next]_vars, reader' = "script"
  PROVE  reader = "script" /\ (Scr!Next \/ UNCHANGED ScrVars)
BY DEF Next, vars, DisStep, ChkStep, DelStep, ExcStep, LdStep, SiStep, CycStep, CmdStep, ScrStep

\* The invariant holds whenever the Tcl adapter is the part at work.
LEMMA ScrAlways == Spec => [](reader = "script" => ScrInv)
<1>1. Init => (reader = "script" => ScrInv)
  BY ScrInit DEF Init
<1>2. (reader = "script" => ScrInv) /\ [Next]_vars => (reader = "script" => ScrInv)'
  <2>1. SUFFICES ASSUME reader = "script" => ScrInv, [Next]_vars, reader' = "script"
                 PROVE  ScrInv'
    OBVIOUS
  <2>2. ScrInv /\ (Scr!Next \/ UNCHANGED ScrVars)
    BY <2>1, ScrSteps
  <2>3. CASE UNCHANGED ScrVars
    <3>1. UNCHANGED <<script, netlist, design, spef, libs, min_libs, scr_sdc, ignored, scr_phase,
                      scr_job, warnings>>
      BY <2>3 DEF ScrVars
    <3> QED
      BY <2>2, <3>1, ScrKept
  <2> QED
    BY <2>2, <2>3, ScrStepInv
<1> QED
  BY <1>1, <1>2, PTL DEF Spec

\* Every line of the text is in the job, warned of or noted, unless it is of a fate that
\* no list has.
LEMMA LineIsSaid ==
  ASSUME Adapted, CostInv, NEW l \in Scr!Lines
  PROVE  Scr!LineSaid(l) \/ Scr!Unsaid(l)
<1>1. l.fate \in Scr!Fates
  <2>1. l \in ScriptLines
    <3>1. PICK i \in DOMAIN scr_sdc : l = scr_sdc[i].line
      BY DEF Scr!Lines
    <3>2. scr_sdc[i] \in Entry
      BY DEF CostInv, TextInv
    <3> QED
      BY <3>1, <3>2 DEF Entry
  <2> QED
    BY <2>1, FrontEndAssumption DEF ScriptLines, Scr!ConstantsOK
<1>2. CASE l.fate = "applied"
  BY <1>2 DEF Adapted, Scr!LineSaid
<1>3. CASE l.fate = "warned"
  BY <1>3 DEF Adapted, Scr!LineSaid, Scr!Warned
<1>4. CASE l.fate \in {"noted", "refused"}
  <2>1. l.kind \in Scr!Warned \/ l.kind \in Scr!Noted
    BY <1>4 DEF Scr!Noted
  <2> QED
    BY <2>1 DEF Adapted, Scr!LineSaid
<1>5. CASE l.fate \in {"refused_here", "latency"}
  BY <1>5 DEF Scr!Unsaid
<1> QED
  BY <1>1, <1>2, <1>3, <1>4, <1>5 DEF Scr!Fates

\* The invariant gives AppliedOrSaid: what a script asks is in the job or said, but for
\* the commands and the fates that are named.
LEMMA ScrSays == ScrInv => Scr!AppliedOrSaid
<1> SUFFICES ASSUME ScrInv, scr_phase = "done" PROVE Scr!AppliedOrSaid
  BY DEF Scr!AppliedOrSaid
<1>1. CostInv /\ HeardInv /\ Adapted /\ script \in Seq(ScrCommands)
  BY DEF ScrInv, HeardInv, CostInv, TextInv
<1>2. <<scr_job.netlist, scr_job.design, scr_job.spef>> =
        <<Scr!LastFile("read_verilog"), Scr!LastFile("link_design"), Scr!LastFile("read_spef")>>
  <2>1. netlist = Scr!LastFile("read_verilog")
    BY <1>1, LatestIsLastFile DEF HeardInv
  <2>2. design = Scr!LastFile("link_design")
    BY <1>1, LatestIsLastFile DEF HeardInv
  <2>3. spef = Scr!LastFile("read_spef")
    BY <1>1, LatestIsLastFile DEF HeardInv
  <2> QED
    BY <1>1, <2>1, <2>2, <2>3 DEF Adapted
<1>3. ASSUME NEW k \in DOMAIN script, NEW c, c = script[k]
      PROVE  /\ Scr!CommandHeard(c) \/ Scr!PassedOver(c)
             /\ \A l \in Scr!Range(c.lines) : Scr!LineHeard(c, l) \/ Scr!Unsaid(l)
  <2>1. Heard(c)
    BY <1>1, <1>3 DEF HeardInv
  <2>2. c.file \in Scr!Range(libs) => c.file \in Scr!Range(scr_job.libs)
    BY <1>1 DEF Adapted, Scr!LibsOf, Scr!Range
  <2>3. \A l \in Scr!Range(c.lines) : Scr!LineHeard(c, l) \/ Scr!Unsaid(l)
    BY <1>1, <2>1, LineIsSaid DEF Heard, Scr!LineHeard
  <2>4. c.verb \in Scr!Verbs
    <3>1. c \in ScrCommands
      BY <1>1, <1>3
    <3> QED
      BY <3>1, FrontEndAssumption DEF Scr!ConstantsOK
  <2>5. Scr!CommandHeard(c) \/ Scr!PassedOver(c)
    BY <2>1, <2>2, <2>4
    DEF Heard, NoConstraints, Scr!CommandHeard, Scr!PassedOver, Scr!Verbs, Scr!ReportVerbs,
        Scr!LineVerbs, Scr!FileVerbs
  <2> QED
    BY <2>3, <2>5
<1> QED
  BY <1>2, <1>3 DEF Scr!AppliedOrSaid

\* What a script that is adapted asks is in the job or said: its files are the last
\* named, every library and command is timed with or noted unless it is one that is
\* PassedOver, and every line unless it is Unsaid (adapt, tcl.rs:152, 300).
THEOREM ScriptsAreHeard == Spec => []AppliedOrSaid
<1>1. (reader = "script" => ScrInv) => AppliedOrSaid
  BY ScrSays DEF AppliedOrSaid
<1> QED
  BY <1>1, ScrAlways, PTL

\* The invariant gives CostsOnlyItself.
LEMMA ScrCosts == ScrInv => Scr!CostsOnlyItself
<1> SUFFICES ASSUME ScrInv PROVE Scr!CostsOnlyItself
  OBVIOUS
<1>1. CostInv /\ TextInv /\ scr_sdc \in Seq(Entry)
  BY DEF ScrInv, CostInv, TextInv
<1>2. \A k \in DOMAIN script : LeftOut(k)
  BY <1>1 DEF CostInv
<1>3. ASSUME NEW k \in DOMAIN scr_sdc, Scr!Parses(SubSeq(scr_sdc, 1, k - 1)), ~Scr!Parses(SubSeq(scr_sdc, 1, k))
      PROVE  scr_sdc[k].by # "trial"
  <2>1. k \in 1 .. Len(scr_sdc) /\ Len(scr_sdc) \in Nat
    BY <1>1
  <2>2. k \in 0 .. Len(scr_sdc) /\ k - 1 \in 0 .. Len(scr_sdc)
    BY <2>1
  <2>3. \A j \in 1 .. k - 1 : ReadsAt(scr_sdc, j)
    BY <1>1, <1>3, <2>2, ParsesPrefix
  <2>4. ~\A j \in 1 .. k : ReadsAt(scr_sdc, j)
    BY <1>1, <1>3, <2>2, ParsesPrefix
  <2>5. ~ReadsAt(scr_sdc, k)
    <3>1. \A j \in 1 .. k : j \in 1 .. k - 1 \/ j = k
      BY <2>1
    <3> QED
      BY <2>3, <2>4, <3>1
  <2> QED
    BY <1>1, <2>3, <2>5 DEF CostInv, Tried
<1> QED
  BY <1>2, <1>3 DEF Scr!CostsOnlyItself, LeftOut

\* A text that does not read fails first at a line that was added unread, and a command
\* of the reader is left out only if it did not read where it stood (tcl.rs:138).
THEOREM LinesCostThemselves == Spec => []CostsOnlyItself
<1>1. (reader = "script" => ScrInv) => CostsOnlyItself
  BY ScrCosts DEF CostsOnlyItself
<1> QED
  BY <1>1, ScrAlways, PTL

-----------------------------------------------------------------------------
(* The reports of a script                                                 *)

\* The place of a command counts those up to it.
LEMMA PlaceCounts ==
  \A k : /\ Scr!Place(k) = Cardinality({j \in Scr!Asked : j <= k})
         /\ Scr!Place(k)' = Cardinality({j \in Scr!Asked' : j <= k})
<1>1. \A S : Scr!Cardinality(S) = Cardinality(S)
  BY DEF Scr!Cardinality, Cardinality
<1> QED
  BY <1>1 DEF Scr!Place

\* One command more is the last that asks for a report, if it does.
LEMMA AskedAfter ==
  ASSUME script \in Seq(ScrCommands), NEW c \in ScrCommands, script' = Append(script, c),
         IsFiniteSet(Scr!Asked)
  PROVE  /\ IsFiniteSet(Scr!Asked)'
         /\ \A k \in Scr!Asked : Scr!Place(k)' = Scr!Place(k) /\ script'[k] = script[k]
         /\ c.verb \notin Scr!ReportVerbs => Scr!Asked' = Scr!Asked
         /\ c.verb \in Scr!ReportVerbs =>
              /\ Scr!Asked' = Scr!Asked \cup {Len(script) + 1}
              /\ Len(script) + 1 \notin Scr!Asked
              /\ script'[Len(script) + 1] = c
              /\ Cardinality(Scr!Asked)' = Cardinality(Scr!Asked) + 1
              /\ \A k : k = Len(script) + 1 => Scr!Place(k)' = Cardinality(Scr!Asked) + 1
<1> DEFINE n == Len(script)
<1>1. /\ DOMAIN script = 1 .. n /\ DOMAIN script' = 1 .. n + 1 /\ n \in Nat
      /\ script'[n + 1] = c /\ \A k \in 1 .. n : script'[k] = script[k]
  OBVIOUS
<1> HIDE DEF n
<1>2. /\ Scr!Asked \subseteq 1 .. n
      /\ Scr!Asked' = IF c.verb \in Scr!ReportVerbs THEN Scr!Asked \cup {n + 1} ELSE Scr!Asked
  <2>1. Scr!Asked' = {k \in 1 .. n + 1 : script'[k].verb \in Scr!ReportVerbs}
    BY <1>1 DEF Scr!Asked
  <2>2. Scr!Asked = {k \in 1 .. n : script[k].verb \in Scr!ReportVerbs}
    BY <1>1 DEF Scr!Asked
  <2> QED
    BY <1>1, <2>1, <2>2
<1>3. \A k \in Scr!Asked : Scr!Place(k)' = Scr!Place(k)
  <2> SUFFICES ASSUME NEW k \in Scr!Asked PROVE Scr!Place(k)' = Scr!Place(k)
    OBVIOUS
  <2>1. {j \in Scr!Asked' : j <= k} = {j \in Scr!Asked : j <= k}
    BY <1>1, <1>2
  <2> QED
    BY <2>1 DEF Scr!Place
<1>4. CASE c.verb \notin Scr!ReportVerbs
  BY <1>1, <1>2, <1>3, <1>4
<1>5. CASE c.verb \in Scr!ReportVerbs
  <2>1. Scr!Asked' = Scr!Asked \cup {n + 1} /\ n + 1 \notin Scr!Asked
    BY <1>1, <1>2, <1>5
  <2>2. /\ IsFiniteSet(Scr!Asked')
        /\ Cardinality(Scr!Asked') = Cardinality(Scr!Asked) + 1
    <3>1. /\ IsFiniteSet(Scr!Asked \cup {n + 1})
          /\ Cardinality(Scr!Asked \cup {n + 1})
               = IF n + 1 \in Scr!Asked THEN Cardinality(Scr!Asked) ELSE Cardinality(Scr!Asked) + 1
      BY FS_AddElement
    <3> QED
      BY <2>1, <3>1
  <2>3. \A k : k = n + 1 => Scr!Place(k)' = Cardinality(Scr!Asked')
    <3> SUFFICES ASSUME NEW k, k = n + 1 PROVE Scr!Place(k)' = Cardinality(Scr!Asked')
      OBVIOUS
    <3>1. Scr!Asked' \subseteq 1 .. n + 1
      BY <1>1, <1>2
    <3>2. \A j \in Scr!Asked' : j <= k
      BY <1>1, <3>1
    <3>3. {j \in Scr!Asked' : j <= k} = Scr!Asked'
      BY <3>2, Zenon
    <3> QED
      BY <3>3, PlaceCounts
  <2> QED
    BY <1>1, <1>2, <1>3, <1>5, <2>1, <2>2, <2>3 DEF n
<1> QED
  BY <1>4, <1>5

\* The place of a command is a position of the list.
LEMMA PlaceInRange ==
  ASSUME IsFiniteSet(Scr!Asked), Scr!Asked \subseteq Nat, NEW k \in Scr!Asked
  PROVE  Scr!Place(k) \in 1 .. Cardinality(Scr!Asked) /\ Cardinality(Scr!Asked) \in Nat
<1> DEFINE S == {j \in Scr!Asked : j <= k}
<1>1. S \subseteq Scr!Asked /\ k \in S
  OBVIOUS
<1>2. /\ IsFiniteSet(S) /\ Cardinality(S) \in Nat /\ Cardinality(Scr!Asked) \in Nat
      /\ Cardinality(S) <= Cardinality(Scr!Asked)
  BY <1>1, FS_Subset, FS_CardinalityType
<1>3. Cardinality(S) # 0
  BY <1>1, <1>2, FS_EmptySet
<1>4. Scr!Place(k) = Cardinality(S)
  BY PlaceCounts
<1> QED
  BY <1>2, <1>3, <1>4

\* What a command asks for.
Wanted(c) == [what |-> c.verb, min |-> c.min, max |-> c.max]

\* The list has what each command asked for, at its place.
Recorded ==
  /\ Len(cmds) = Cardinality(Scr!Asked)
  /\ \A k \in Scr!Asked : cmds[Scr!Place(k)] = Wanted(script[k])

\* The list of reports while the script is read and after, and the blocks made of it.
OrderInv ==
  /\ script \in Seq(ScrCommands) /\ IsFiniteSet(Scr!Asked)
  /\ cmds \in Seq([what : Scr!ReportVerbs, min : BOOLEAN, max : BOOLEAN])
  /\ scr_phase = "read" \/ Scr!Asked # {} => Recorded
  /\ scr_phase = "done" /\ Scr!Asked = {} => cmds = Scr!Defaulted(<<>>)
  /\ blocks # <<>> =>
       /\ scr_phase = "done"
       /\ \E paths, bad : blocks = [k \in DOMAIN cmds |-> Scr!Block(cmds[k], paths, bad)]

\* A step that reads no command and leaves the list alone keeps the record.
LEMMA RecordKept ==
  ASSUME UNCHANGED <<script, cmds>>
  PROVE  /\ Scr!Asked' = Scr!Asked /\ (Recorded <=> Recorded')
         /\ (IsFiniteSet(Scr!Asked) <=> IsFiniteSet(Scr!Asked)')
BY DEF Scr!Asked, Scr!Place, Recorded

\* Reading a command adds what it asks for at the end of the list, if anything
\* (adapt, tcl.rs:152).
LEMMA OrderRead ==
  ASSUME OrderInv, NEW c \in ScrCommands, Scr!ReadCommand(c)
  PROVE  OrderInv'
<1>1. /\ scr_phase = "read" /\ script' = Append(script, c) /\ script' \in Seq(ScrCommands)
      /\ blocks' = blocks /\ blocks = <<>>
      /\ scr_phase' # "done"
  <2>1. scr_phase' # "done"
    BY DEF Scr!ReadCommand, Scr!ReadDesign, Scr!ReadLiberty, Scr!ReadSdc, Scr!Report,
           Scr!SdcVerb, Scr!SdcCommand, Scr!SetUnits, Scr!OtherTcl, Scr!Texts
  <2> QED
    BY <2>1 DEF Scr!ReadCommand, OrderInv
<1>2. Recorded /\ IsFiniteSet(Scr!Asked) /\ script \in Seq(ScrCommands)
  BY <1>1 DEF OrderInv
<1>3. \A k \in Scr!Asked : Scr!Place(k)' = Scr!Place(k) /\ script'[k] = script[k]
                           /\ Scr!Place(k) \in 1 .. Len(cmds)
  <2>1. Scr!Asked \subseteq Nat
    BY <1>2 DEF Scr!Asked
  <2> QED
    BY <1>1, <1>2, <2>1, AskedAfter, PlaceInRange DEF Recorded
<1>4. IsFiniteSet(Scr!Asked)'
  BY <1>1, <1>2, AskedAfter
<1>5. CASE c.verb \in Scr!ReportVerbs
  <2>1. cmds' = Append(cmds, Wanted(c))
    BY <1>5 DEF Scr!ReadCommand, Scr!ReadDesign, Scr!ReadLiberty, Scr!ReadSdc, Scr!Report,
           Scr!SdcVerb, Scr!SdcCommand, Scr!SetUnits, Scr!OtherTcl, Scr!Texts, Scr!ReportVerbs, Wanted
  <2>2. Wanted(c) \in [what : Scr!ReportVerbs, min : BOOLEAN, max : BOOLEAN]
    BY <1>5, FrontEndAssumption DEF Wanted, Scr!ConstantsOK
  <2>3. /\ cmds' \in Seq([what : Scr!ReportVerbs, min : BOOLEAN, max : BOOLEAN])
        /\ Len(cmds') = Len(cmds) + 1 /\ cmds'[Len(cmds) + 1] = Wanted(c) /\ Len(cmds) \in Nat
        /\ \A i \in 1 .. Len(cmds) : cmds'[i] = cmds[i]
    BY <2>1, <2>2 DEF OrderInv
  <2>4. /\ Scr!Asked' = Scr!Asked \cup {Len(script) + 1}
        /\ script'[Len(script) + 1] = c
        /\ Cardinality(Scr!Asked)' = Cardinality(Scr!Asked) + 1
        /\ \A k : k = Len(script) + 1 => Scr!Place(k)' = Cardinality(Scr!Asked) + 1
    BY <1>1, <1>2, <1>5, AskedAfter
  <2>5. Recorded'
    <3>1. Len(cmds') = Cardinality(Scr!Asked)'
      BY <1>2, <2>3, <2>4 DEF Recorded
    <3>2. ASSUME NEW k \in Scr!Asked' PROVE cmds'[Scr!Place(k)'] = Wanted(script'[k])
      <4>1. CASE k \in Scr!Asked
        BY <1>2, <1>3, <2>3, <4>1 DEF Recorded
      <4>2. CASE k = Len(script) + 1
        BY <1>2, <2>3, <2>4, <4>2 DEF Recorded
      <4> QED
        BY <2>4, <3>2, <4>1, <4>2
    <3>3. \A k \in Scr!Asked' : cmds'[Scr!Place(k)'] = Wanted(script'[k])
      BY <3>2
    <3> QED
      BY <3>1, <3>3 DEF Recorded, Wanted
  <2> QED
    BY <1>1, <1>4, <2>3, <2>5 DEF OrderInv
<1>6. CASE c.verb \notin Scr!ReportVerbs
  <2>1. cmds' = cmds
    BY <1>6 DEF Scr!ReadCommand, Scr!ReadDesign, Scr!ReadLiberty, Scr!ReadSdc, Scr!Report,
           Scr!SdcVerb, Scr!SdcCommand, Scr!SetUnits, Scr!OtherTcl, Scr!Texts
  <2>2. Scr!Asked' = Scr!Asked
    BY <1>1, <1>2, <1>6, AskedAfter
  <2>3. Recorded'
    BY <1>2, <1>3, <2>1, <2>2 DEF Recorded, Wanted
  <2> QED
    BY <1>1, <1>4, <2>1, <2>3 DEF OrderInv
<1> QED
  BY <1>5, <1>6

\* At the end of the script the list stays or is the default one (tcl.rs:79), and the
\* blocks answer the list.
LEMMA OrderStep == OrderInv /\ Scr!Next => OrderInv'
<1>1. ASSUME OrderInv, NEW c \in ScrCommands, Scr!ReadCommand(c) PROVE OrderInv'
  BY <1>1, OrderRead
<1>2. ASSUME OrderInv, Scr!Finish PROVE OrderInv'
  <2>1. scr_phase = "read" /\ script' = script /\ blocks' = blocks /\ blocks = <<>> /\ Recorded
    BY <1>2 DEF Scr!Finish, OrderInv
  <2>2. /\ Scr!Asked' = Scr!Asked /\ IsFiniteSet(Scr!Asked)'
        /\ \A k : Scr!Place(k)' = Scr!Place(k)
    BY <1>2, <2>1 DEF Scr!Asked, Scr!Place, OrderInv
  <2>3. CASE cmds' = cmds /\ scr_phase' = "failed"
    <3>1. Recorded'
      BY <2>1, <2>3, RecordKept
    <3> QED
      BY <1>2, <2>1, <2>2, <2>3, <3>1 DEF OrderInv
  <2>4. CASE cmds' = Scr!Defaulted(cmds) /\ scr_phase' = "done"
    <3>1. cmds = <<>> <=> Len(cmds) = 0
      BY <1>2 DEF OrderInv
    <3>2. Len(cmds) = 0 <=> Scr!Asked = {}
      BY <1>2, <2>1, FS_EmptySet DEF Recorded, OrderInv
    <3>3. CASE Scr!Asked = {}
      <4>1. cmds' = Scr!Defaulted(<<>>)
        BY <2>4, <3>1, <3>2, <3>3
      <4>2. cmds' \in Seq([what : Scr!ReportVerbs, min : BOOLEAN, max : BOOLEAN])
        BY <4>1 DEF Scr!Defaulted, Scr!ReportVerbs
      <4> QED
        BY <1>2, <2>1, <2>2, <2>4, <3>3, <4>1, <4>2 DEF OrderInv
    <3>4. CASE Scr!Asked # {}
      <4>1. cmds' = cmds
        BY <2>4, <3>1, <3>2, <3>4 DEF Scr!Defaulted
      <4>2. Recorded'
        BY <2>1, <4>1, RecordKept
      <4> QED
        BY <1>2, <2>1, <2>2, <2>4, <3>4, <4>1, <4>2 DEF OrderInv
    <3> QED
      BY <3>3, <3>4
  <2> QED
    BY <1>2, <2>3, <2>4 DEF Scr!Finish
<1>3. ASSUME OrderInv, Scr!Render PROVE OrderInv'
  <2>1. /\ UNCHANGED <<script, cmds, scr_phase>> /\ scr_phase = "done"
        /\ \E paths, bad : blocks' = [k \in DOMAIN cmds |-> Scr!Block(cmds[k], paths, bad)]
    BY <1>3 DEF Scr!Render
  <2>2. Scr!Asked' = Scr!Asked /\ (Recorded <=> Recorded') /\ IsFiniteSet(Scr!Asked)'
    BY <1>3, <2>1, RecordKept DEF OrderInv
  <2> QED
    BY <1>3, <2>1, <2>2 DEF OrderInv
<1> QED
  BY <1>1, <1>2, <1>3 DEF Scr!Next

\* A block shows the analyses its entry of the list asks for, the min ends first.
LEMMA BlockAnswers ==
  ASSUME NEW cmd \in [what : Scr!ReportVerbs, min : BOOLEAN, max : BOOLEAN], NEW paths, NEW bad
  PROVE  LET b == Scr!Block(cmd, paths, bad) IN
         /\ b.what = cmd.what
         /\ b.what = "report_checks" =>
              /\ Scr!Range(b.shows) \subseteq
                   {m \in {"min", "max"} : IF m = "min" THEN cmd.min ELSE cmd.max}
              /\ Len(b.shows) = 2 => b.shows[1] = "min"
         /\ b.what # "report_checks" => (b.shows[1] = "min" <=> cmd.min)
<1> DEFINE b == Scr!Block(cmd, paths, bad)
<1>1. b.what = cmd.what
  BY DEF Scr!Block
<1>2. CASE cmd.what = "report_checks"
  <2> DEFINE lo == cmd.min /\ "min" \in paths
             hi == cmd.max /\ "max" \in paths
             asks == {m \in {"min", "max"} : IF m = "min" THEN cmd.min ELSE cmd.max}
  <2>1. b.shows = (IF lo THEN <<"min">> ELSE <<>>) \o (IF hi THEN <<"max">> ELSE <<>>)
    BY <1>2 DEF Scr!Block, Scr!Ends
  <2>2. (lo => "min" \in asks) /\ (hi => "max" \in asks)
    OBVIOUS
  <2> HIDE DEF lo, hi, asks
  <2>3. ASSUME NEW seq, seq = b.shows
        PROVE  (\A i \in DOMAIN seq : seq[i] \in asks) /\ (Len(seq) = 2 => seq[1] = "min")
    <3>1. CASE ~lo /\ ~hi
      <4>1. seq = <<>>
        BY <2>1, <2>3, <3>1
      <4> QED
        BY <4>1
    <3>2. CASE lo /\ ~hi
      <4>1. seq = <<"min">>
        BY <2>1, <2>3, <3>2
      <4> QED
        BY <2>2, <3>2, <4>1
    <3>3. CASE ~lo /\ hi
      <4>1. seq = <<"max">>
        BY <2>1, <2>3, <3>3
      <4> QED
        BY <2>2, <3>3, <4>1
    <3>4. CASE lo /\ hi
      <4>1. seq = <<"min">> \o <<"max">>
        BY <2>1, <2>3, <3>4
      <4>2. Len(seq) = 2 /\ DOMAIN seq = 1 .. 2 /\ seq[1] = "min" /\ seq[2] = "max"
        BY <4>1
      <4> QED
        BY <2>2, <3>4, <4>2
    <3> QED
      BY <3>1, <3>2, <3>3, <3>4
  <2>4. Scr!Range(b.shows) \subseteq asks /\ (Len(b.shows) = 2 => b.shows[1] = "min")
    BY <2>3 DEF Scr!Range
  <2> QED
    BY <1>1, <1>2, <2>4 DEF asks
<1>3. CASE cmd.what # "report_checks"
  BY <1>1, <1>3 DEF Scr!Block
<1> QED
  BY <1>1, <1>2, <1>3

\* The reports answer the script command by command.
LEMMA OrderAnswers == OrderInv => Scr!ReportsInOrder
<1> SUFFICES ASSUME OrderInv, blocks # <<>> PROVE Scr!ReportsInOrder
  BY DEF Scr!ReportsInOrder
<1>1. PICK paths, bad : blocks = [k \in DOMAIN cmds |-> Scr!Block(cmds[k], paths, bad)]
  BY DEF OrderInv
<1>2. /\ scr_phase = "done" /\ IsFiniteSet(Scr!Asked) /\ Scr!Asked \subseteq Nat
      /\ cmds \in Seq([what : Scr!ReportVerbs, min : BOOLEAN, max : BOOLEAN])
  BY DEF OrderInv, Scr!Asked
<1>3. /\ DOMAIN cmds = 1 .. Len(cmds) /\ Len(cmds) \in Nat /\ DOMAIN blocks = 1 .. Len(cmds)
      /\ Len(blocks) = Len(cmds)
      /\ \A k \in 1 .. Len(cmds) :
           /\ blocks[k] = Scr!Block(cmds[k], paths, bad)
           /\ cmds[k] \in [what : Scr!ReportVerbs, min : BOOLEAN, max : BOOLEAN]
  <2>1. /\ DOMAIN cmds = 1 .. Len(cmds) /\ Len(cmds) \in Nat
        /\ \A k \in 1 .. Len(cmds) :
             cmds[k] \in [what : Scr!ReportVerbs, min : BOOLEAN, max : BOOLEAN]
    <3> DEFINE Wants == [what : Scr!ReportVerbs, min : BOOLEAN, max : BOOLEAN]
    <3>1. cmds \in Seq(Wants)
      BY <1>2
    <3> HIDE DEF Wants
    <3>2. /\ DOMAIN cmds = 1 .. Len(cmds) /\ Len(cmds) \in Nat
          /\ \A k \in 1 .. Len(cmds) : cmds[k] \in Wants
      BY <3>1
    <3> QED
      BY <3>2 DEF Wants
  <2>2. blocks = [k \in 1 .. Len(cmds) |-> Scr!Block(cmds[k], paths, bad)]
    BY <1>1, <2>1
  <2>3. Len(blocks) = Len(cmds)
    BY <2>1, <2>2
  <2>4. /\ DOMAIN blocks = 1 .. Len(cmds)
        /\ \A k \in 1 .. Len(cmds) : blocks[k] = Scr!Block(cmds[k], paths, bad)
    BY <2>2, Zenon
  <2> QED
    BY <2>1, <2>3, <2>4
<1>4. CASE Scr!Asked = {}
  <2>1. cmds = Scr!Defaulted(<<>>)
    BY <1>2, <1>4 DEF OrderInv
  <2>2. /\ Len(cmds) = 3 /\ cmds[1].what = "report_checks" /\ cmds[2].what = "report_wns"
        /\ cmds[3].what = "report_tns"
    BY <2>1 DEF Scr!Defaulted
  <2>3. \A k \in 1 .. 3 : blocks[k].what = cmds[k].what
    BY <1>3, <2>2, BlockAnswers
  <2>4. [k \in DOMAIN blocks |-> blocks[k].what]
          = <<"report_checks", "report_wns", "report_tns">>
    BY <1>3, <2>2, <2>3
  <2> QED
    BY <1>4, <2>4 DEF Scr!ReportsInOrder
<1>5. CASE Scr!Asked # {}
  <2>1. Recorded
    BY <1>5 DEF OrderInv
  <2>2. Len(blocks) = Cardinality(Scr!Asked)
    BY <1>3, <2>1 DEF Recorded
  <2>3. ASSUME NEW k \in Scr!Asked
        PROVE  /\ Scr!Place(k) \in 1 .. Len(cmds)
               /\ cmds[Scr!Place(k)].what = script[k].verb
               /\ cmds[Scr!Place(k)].min = script[k].min
               /\ cmds[Scr!Place(k)].max = script[k].max
    <3>1. Scr!Place(k) \in 1 .. Len(cmds)
      BY <1>2, <2>1, <2>3, PlaceInRange DEF Recorded
    <3>2. cmds[Scr!Place(k)] = Wanted(script[k])
      BY <2>1, <2>3 DEF Recorded
    <3> QED
      BY <3>1, <3>2 DEF Wanted
  <2>4. ASSUME NEW k \in Scr!Asked
        PROVE  LET block == blocks[Scr!Place(k)] IN
               /\ block.what = script[k].verb
               /\ block.what = "report_checks" =>
                    /\ Scr!Range(block.shows) \subseteq
                         {m \in {"min", "max"} :
                            IF m = "min" THEN script[k].min ELSE script[k].max}
                    /\ Len(block.shows) = 2 => block.shows[1] = "min"
               /\ block.what # "report_checks" => (block.shows[1] = "min" <=> script[k].min)
    <3> DEFINE cmd == cmds[Scr!Place(k)]
    <3>1. /\ cmd \in [what : Scr!ReportVerbs, min : BOOLEAN, max : BOOLEAN]
          /\ blocks[Scr!Place(k)] = Scr!Block(cmd, paths, bad)
          /\ cmd.what = script[k].verb /\ cmd.min = script[k].min /\ cmd.max = script[k].max
      BY <1>3, <2>3, <2>4
    <3> HIDE DEF cmd
    <3> QED
      BY <3>1, BlockAnswers
  <2> QED
    BY <1>5, <2>2, <2>4 DEF Scr!ReportsInOrder, Scr!Cardinality, Cardinality
<1> QED
  BY <1>4, <1>5

\* A script's reports answer it command by command: one block each, in its order, of the
\* analyses it asked for, min ends first; a script without any gets the default three.
THEOREM ReportsAnswer == Spec => []ReportsInOrder
<1>1. Init => (reader = "script" => OrderInv)
  <2>1. Scr!Init => OrderInv
    <3>1. Scr!Init => Scr!Asked = {} /\ cmds = <<>> /\ blocks = <<>> /\ script = <<>> /\ scr_phase = "read"
      BY DEF Scr!Init, Scr!Asked
    <3>2. IsFiniteSet({}) /\ Cardinality({}) = 0
      BY FS_EmptySet
    <3>3. Scr!Init => Recorded
      BY <3>1, <3>2 DEF Recorded
    <3> QED
      BY <3>1, <3>2, <3>3 DEF OrderInv
  <2> QED
    BY <2>1 DEF Init
<1>2. (reader = "script" => OrderInv) /\ [Next]_vars => (reader = "script" => OrderInv)'
  <2>1. SUFFICES ASSUME reader = "script" => OrderInv, [Next]_vars, reader' = "script"
                 PROVE  OrderInv'
    OBVIOUS
  <2>2. OrderInv /\ (Scr!Next \/ UNCHANGED ScrVars)
    BY <2>1, ScrSteps
  <2>3. CASE UNCHANGED ScrVars
    <3>1. UNCHANGED <<script, cmds, scr_phase, blocks>>
      BY <2>3 DEF ScrVars
    <3>2. Scr!Asked' = Scr!Asked /\ (Recorded <=> Recorded') /\ IsFiniteSet(Scr!Asked)'
      BY <2>2, <3>1, RecordKept DEF OrderInv
    <3> QED
      BY <2>2, <3>1, <3>2 DEF OrderInv
  <2> QED
    BY <2>2, <2>3, OrderStep
<1>3. (reader = "script" => OrderInv) => ReportsInOrder
  BY OrderAnswers DEF ReportsInOrder
<1> QED
  BY <1>1, <1>2, <1>3, PTL DEF Spec

-----------------------------------------------------------------------------
(* Types of the flows                                                      *)

\* The phases of a loading, where a setting may come from, and what is taken.
LdTyped ==
  /\ job_phase \in {"parse", "load_sdc", "merge", "loaded", "failed"}
  /\ setting \in [Ld!Settings -> {"default", "job", "sdc", "zero"}]
  /\ applied \subseteq job_sdc.commands

\* The types hold whenever the loading of a job is the part at work (job.rs:143).
LEMMA LdTypes == Spec => [](reader = "job" => Ld!TypeOK)
<1>1. Init => (reader = "job" => LdTyped)
  BY DEF Init, Ld!Init, LdTyped
<1>2. (reader = "job" => LdTyped) /\ [Next]_vars => (reader = "job" => LdTyped)'
  <2>1. SUFFICES ASSUME reader = "job" => LdTyped, [Next]_vars, reader' = "job"
                 PROVE  LdTyped'
    OBVIOUS
  <2>2. LdTyped /\ (Ld!Next \/ UNCHANGED LdVars)
    BY <2>1, LdSteps
  <2>3. CASE UNCHANGED LdVars
    BY <2>2, <2>3 DEF LdVars, LdTyped
  <2>4. CASE Ld!Parse
    BY <2>2, <2>4 DEF LdTyped, Ld!Parse
  <2>5. CASE Ld!LoadSdc
    BY <2>2, <2>5 DEF LdTyped, Ld!LoadSdc
  <2>6. CASE Ld!Merge
    BY <2>2, <2>6 DEF LdTyped, Ld!Merge
  <2> QED
    BY <2>2, <2>3, <2>4, <2>5, <2>6 DEF Ld!Next
<1>3. (reader = "job" => LdTyped) => (reader = "job" => Ld!TypeOK)
  BY DEF LdTyped, Ld!TypeOK
<1> QED
  BY <1>1, <1>2, <1>3, PTL DEF Spec

\* The exit code and the phase agree, and files, prints and job are of their kinds.
CodeTyped == code \in {-1, 0, 1, 2, 3} /\ (code = -1 <=> cli_phase # "exited")
OutTyped ==
  /\ files \subseteq {"report", "sdf", "liberty"}
  /\ stdout \in {{}, {"usage"}, {"ok"}, {"text"}, {"json"}}
CmdTyped == CodeTyped /\ OutTyped /\ cli_job \in CmdJobs \cup {Cmd!NoJob}

\* Every stage of an invocation keeps them.
LEMMA CmdTypedStep == CmdTyped /\ Cmd!Next => CmdTyped'
<1> SUFFICES ASSUME CmdTyped, Cmd!Next PROVE CmdTyped'
  OBVIOUS
<1>1. Cmd!ExitCode \in {0, 3}
  BY DEF Cmd!ExitCode
<1>2. \/ \E c \in {0, 1, 2, 3} : code' = c /\ cli_phase' = "exited"
      \/ code' = code /\ cli_phase # "exited" /\ cli_phase' # "exited"
  <2>1. CASE Cmd!Answer \/ Cmd!Demo \/ Cmd!Load
    BY <2>1 DEF Cmd!Answer, Cmd!Demo, Cmd!Load, Cmd!Exit, Cmd!GoTo
  <2>2. CASE Cmd!ResolvePdk \/ Cmd!Scenario \/ Cmd!SayNotApplied
    BY <2>2 DEF Cmd!ResolvePdk, Cmd!Scenario, Cmd!SayNotApplied, Cmd!Exit, Cmd!GoTo
  <2>3. CASE Cmd!WriteSdf \/ Cmd!WriteLibertyJson
    BY <2>3 DEF Cmd!WriteSdf, Cmd!WriteLibertyJson, Cmd!WriteBeside, Cmd!Exit, Cmd!GoTo
  <2>4. CASE Cmd!Analyze \/ Cmd!Lint
    BY <2>4 DEF Cmd!Analyze, Cmd!Lint, Cmd!Exit, Cmd!GoTo
  <2>5. CASE Cmd!Emit
    BY <1>1, <2>5 DEF Cmd!Emit, Cmd!Exit
  <2> QED
    BY <2>1, <2>2, <2>3, <2>4, <2>5 DEF Cmd!Next
<1>3. CodeTyped'
  BY <1>2 DEF CmdTyped, CodeTyped
<1>4. /\ files' \subseteq files \cup {"report", "sdf", "liberty"}
      /\ stdout' \in {stdout, {}, {"usage"}, {"ok"}, {"text"}, {"json"}}
      /\ cli_job' \in {cli_job} \cup CmdJobs
  <2>1. CASE Cmd!Answer \/ Cmd!Demo
    BY <2>1 DEF Cmd!Answer, Cmd!Demo, Cmd!Outputs
  <2>2. CASE Cmd!ResolvePdk \/ Cmd!Scenario \/ Cmd!SayNotApplied
    BY <2>2 DEF Cmd!ResolvePdk, Cmd!Scenario, Cmd!SayNotApplied, Cmd!Outputs
  <2>3. CASE Cmd!WriteSdf \/ Cmd!WriteLibertyJson
    BY <2>3 DEF Cmd!WriteSdf, Cmd!WriteLibertyJson, Cmd!WriteBeside
  <2>4. CASE Cmd!Analyze \/ Cmd!Lint
    BY <2>4 DEF Cmd!Analyze, Cmd!Lint, Cmd!Outputs
  <2>5. CASE Cmd!Emit
    BY <2>5 DEF Cmd!Emit, Cmd!Outputs
  <2>6. CASE Cmd!Load
    BY <2>6 DEF Cmd!Load
  <2> QED
    BY <2>1, <2>2, <2>3, <2>4, <2>5, <2>6 DEF Cmd!Next
<1> QED
  BY <1>3, <1>4 DEF CmdTyped, OutTyped

\* The types hold whenever the command line is the part at work (main.rs).
LEMMA CmdTypes == Spec => [](reader = "cli" => Cmd!TypeOK)
<1>1. Init => (reader = "cli" => CmdTyped)
  BY DEF Init, Cmd!Init, CmdTyped, CodeTyped, OutTyped, Cmd!NotExited
<1>2. (reader = "cli" => CmdTyped) /\ [Next]_vars => (reader = "cli" => CmdTyped)'
  <2>1. SUFFICES ASSUME reader = "cli" => CmdTyped, [Next]_vars, reader' = "cli"
                 PROVE  CmdTyped'
    OBVIOUS
  <2>2. CmdTyped /\ (Cmd!Next \/ UNCHANGED CmdVars)
    BY <2>1, CmdSteps
  <2>3. CASE UNCHANGED CmdVars
    BY <2>2, <2>3 DEF CmdVars, CmdTyped, CodeTyped, OutTyped
  <2> QED
    BY <2>2, <2>3, CmdTypedStep
<1>3. (reader = "cli" => CmdInv) /\ (reader = "cli" => CmdTyped) => (reader = "cli" => Cmd!TypeOK)
  <2>1. SUFFICES ASSUME CmdInv, CmdTyped PROVE Cmd!TypeOK
    OBVIOUS
  <2>2. stdout \subseteq {"usage", "ok", "text", "json"} /\ Cmd!Cardinality(stdout) <= 1
    <3>1. Cardinality({}) = 0 /\ \A w : Cardinality({w}) = 1
      BY FS_EmptySet, FS_Singleton
    <3>2. stdout \subseteq {"usage", "ok", "text", "json"} /\ Cardinality(stdout) <= 1
      <4>1. stdout = {} \/ \E w \in {"usage", "ok", "text", "json"} : stdout = {w}
        BY <2>1 DEF CmdTyped, OutTyped
      <4>2. Cardinality(stdout) \in {0, 1}
        BY <3>1, <4>1
      <4> QED
        BY <4>1, <4>2
    <3>3. Cmd!Cardinality(stdout) = Cardinality(stdout)
      BY DEF Cmd!Cardinality, Cardinality
    <3> QED
      BY <3>2, <3>3
  <2>3. results \in Seq(Cmd!Reports)
    BY <2>1 DEF CmdInv
  <2> QED
    BY <2>1, <2>2, <2>3 DEF CmdTyped, CodeTyped, OutTyped, Cmd!NotExited, Cmd!TypeOK
<1> QED
  BY <1>1, <1>2, <1>3, CmdAlways, PTL DEF Spec

\* A script that is adapted had a netlist, a design and libraries.
ScrTyped ==
  /\ scr_phase \in {"read", "done", "failed"}
  /\ scr_phase = "done" =>
       {scr_job.netlist, scr_job.design} \cap {ScrNoFile} = {} /\ scr_job.libs # <<>>

\* The types hold whenever the Tcl adapter is the part at work (tcl.rs:152).
LEMMA ScrTypes == Spec => [](reader = "script" => Scr!TypeOK)
<1>1. Init => (reader = "script" => ScrTyped)
  BY DEF Init, Scr!Init, ScrTyped
<1>2. (reader = "script" => ScrTyped) /\ [Next]_vars => (reader = "script" => ScrTyped)'
  <2>1. SUFFICES ASSUME reader = "script" => ScrTyped, [Next]_vars, reader' = "script"
                 PROVE  ScrTyped'
    OBVIOUS
  <2>2. ScrTyped /\ (Scr!Next \/ UNCHANGED ScrVars)
    BY <2>1, ScrSteps
  <2>3. CASE UNCHANGED ScrVars
    BY <2>2, <2>3 DEF ScrVars, ScrTyped
  <2>4. ASSUME NEW c \in ScrCommands, Scr!ReadCommand(c) PROVE ScrTyped'
    <3>1. scr_phase' \in {"read", "failed"}
      BY <2>4 DEF Scr!ReadCommand, Scr!ReadDesign, Scr!ReadLiberty, Scr!ReadSdc, Scr!Report,
                  Scr!SdcVerb, Scr!SdcCommand, Scr!SetUnits, Scr!OtherTcl, Scr!Texts
    <3> QED
      BY <3>1 DEF ScrTyped
  <2>5. CASE Scr!Finish
    BY <2>2, <2>5 DEF ScrTyped, Scr!Finish, Scr!Incomplete
  <2>6. CASE Scr!Render
    BY <2>2, <2>6 DEF ScrTyped, Scr!Render
  <2> QED
    BY <2>2, <2>3, <2>4, <2>5, <2>6 DEF Scr!Next
<1>3. (reader = "script" => ScrInv) /\ (reader = "script" => ScrTyped)
      => (reader = "script" => Scr!TypeOK)
  <2>1. SUFFICES ASSUME ScrInv, ScrTyped PROVE Scr!TypeOK
    OBVIOUS
  <2>2. \A l \in ScriptLines : l.fate \in Scr!Fates
    BY FrontEndAssumption DEF ScriptLines, Scr!ConstantsOK
  <2>3. \A k \in DOMAIN scr_sdc : scr_sdc[k] \in Entry
    BY <2>1 DEF ScrInv, CostInv, TextInv
  <2>4. \A k \in DOMAIN scr_sdc : scr_sdc[k].by \in {"file", "verb", "trial"}
                                  /\ scr_sdc[k].line \in ScriptLines
    BY <2>3 DEF Entry
  <2> QED
    BY <2>1, <2>2, <2>4 DEF ScrTyped, Scr!TypeOK
<1> QED
  BY <1>1, <1>2, <1>3, ScrAlways, PTL DEF Spec
=============================================================================
