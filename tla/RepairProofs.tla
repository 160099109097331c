---------------------------- MODULE RepairProofs ----------------------------
(***************************************************************************)
(* Proofs about the planners of Repair, for every set of sites, every      *)
(* finite set of slacks, every noise threshold and every mode.             *)
(***************************************************************************)
EXTENDS Repair, LeastNatural

\* The worst hold slack of a report is one of its slacks, and no slack is worse.
LEMMA WhsType ==
  ASSUME NEW t \in Timings
  PROVE  Whs(t) \in Int /\ \A e \in Endpoints : Whs(t) <= t.hold[e]
<1> DEFINE T == {t.hold[e] : e \in Endpoints}
<1>1. t.hold \in [Endpoints -> Slacks]
  BY DEF Timings
<1>2. T \subseteq Slacks /\ T # {}
  BY <1>1, SitesAssumption
<1>3. T \in SUBSET Int /\ IsFiniteSet(T)
  BY <1>2, SlacksAssumption, FS_Subset
<1>4. \E x \in T : \A y \in T : x <= y
  <2> HIDE DEF T
  <2> QED
    BY <1>2, <1>3, LeastOfFinite
<1>5. Whs(t) \in T /\ \A e \in Endpoints : Whs(t) <= t.hold[e]
  BY <1>4 DEF Whs
<1> QED
  BY <1>3, <1>5

-----------------------------------------------------------------------------
(* The moves of the plan, and the inductive invariant                      *)

Plan == [i \in DOMAIN fixes |-> fixes[i].move]

\* Between candidates the timer holds the plan; while one is judged, the
\* checkpoint does, and the netlist is the checkpoint's with the candidate added.
CandidateInv ==
  pc = "judge" =>
    /\ snapshot \in [timing : Timings, netlist : Seq(Moves)]
    /\ snapshot.netlist = Plan
    /\ metrics.after = snapshot.timing
    /\ \E mv \in Moves :
         /\ netlist = Append(snapshot.netlist, mv)
         /\ mv.name = IF mv.kind = "insert" THEN seq ELSE -1

\* Every inserted cell of the plan has a number below the next one.
NamesBelow == \A i \in DOMAIN fixes : fixes[i].move.name < seq

\* The bounds of HarmBounded, and the report they hold of: the checkpoint's while a
\* candidate is judged.
LowWns == Floor(metrics.before.wns) - Eps * FixesFor("hold")
LowWhs == Floor(Whs(metrics.before)) - Eps * FixesFor("setup")

BoundInv ==
  IF pc = "judge" THEN snapshot.timing.wns >= LowWns /\ Whs(snapshot.timing) >= LowWhs
                  ELSE timing.wns >= LowWns /\ Whs(timing) >= LowWhs

IInv == TypeOK /\ PlanMatchesTimer /\ CandidateInv /\ NamesBelow

-----------------------------------------------------------------------------
(* Typing and the plan                                                     *)

\* A new plan is empty and so is the timer's netlist of its moves.
LEMMA InitIInv == Init => IInv
<1> SUFFICES ASSUME Init PROVE IInv
  OBVIOUS
<1>1. TypeOK
  BY OptionsAssumption, StartsAssumption DEF Init, TypeOK, Checks, Sites
<1>2. PlanMatchesTimer
  BY DEF Init, PlanMatchesTimer
<1>3. CandidateInv /\ NamesBelow
  BY DEF Init, CandidateInv, NamesBelow
<1> QED
  BY <1>1, <1>2, <1>3 DEF IInv

\* Staging a candidate of the current attempt.
LEMMA TryIInv ==
  ASSUME IInv, pc \in {"swap", "insert", "upsize"}, left' \in Nat,
         NEW mv \in Moves, mv.name = IF mv.kind = "insert" THEN seq ELSE -1,
         Try(mv)
  PROVE  IInv'
<1> USE DEF IInv, Try
<1>1. TypeOK'
  BY DEF TypeOK
<1>2. CandidateInv'
  <2>1. netlist \in Seq(Moves) /\ timing \in Timings /\ netlist = Plan /\ metrics.after = timing
    BY DEF TypeOK, PlanMatchesTimer, Plan
  <2> QED
    BY <2>1 DEF CandidateInv, Plan
<1>3. PlanMatchesTimer' /\ NamesBelow'
  BY DEF PlanMatchesTimer, NamesBelow
<1> QED
  BY <1>1, <1>2, <1>3

\* A member of a sequence is in the set the sequence is over.
LEMMA SeqElement ==
  ASSUME NEW S, NEW s \in Seq(S), NEW i \in DOMAIN s
  PROVE  s[i] \in S
OBVIOUS

\* A kept candidate becomes the plan's next fix (Plan::keep).
LEMMA KeepIInv == IInv /\ Keep => IInv'
<1> SUFFICES ASSUME IInv, Keep PROVE IInv'
  OBVIOUS
<1> USE DEF IInv
<1>1. PICK mv \in Moves : /\ netlist = Append(snapshot.netlist, mv)
                          /\ mv.name = IF mv.kind = "insert" THEN seq ELSE -1
  BY DEF CandidateInv, Keep
<1>2. snapshot.netlist \in Seq(Moves) /\ snapshot.netlist = Plan
  BY DEF CandidateInv, Keep
<1>3. Candidate = mv
  BY <1>1, <1>2 DEF Candidate
<1> DEFINE fix == [move |-> mv, check |-> CheckOf(mv)]
<1>4. fix \in [move : Moves, check : Checks] /\ fixes' = Append(fixes, fix)
  BY <1>3 DEF Keep, CheckOf, Checks
<1>5. fixes \in Seq([move : Moves, check : Checks]) /\ seq \in Nat
  BY DEF TypeOK
<1>6. TypeOK'
  <2>1. fixes' \in Seq([move : Moves, check : Checks])
    BY <1>4, <1>5
  <2>2. set_aside' \in [Checks -> BOOLEAN]
    BY DEF TypeOK, Keep, Revived, Checks
  <2>3. seq' \in Nat
    BY <1>5 DEF Keep, SeqAfter
  <2>4. rejected' \subseteq Sites /\ metrics' \in [before : Timings, after : Timings]
    BY DEF TypeOK, Keep
  <2> QED
    BY <2>1, <2>2, <2>3, <2>4 DEF TypeOK, Keep
<1>7. PlanMatchesTimer'
  <2>1. DOMAIN fixes' = 1 .. Len(fixes) + 1 /\ DOMAIN fixes = 1 .. Len(fixes)
    BY <1>4, <1>5
  <2>2. \A i \in DOMAIN fixes' :
          fixes'[i] = IF i = Len(fixes) + 1 THEN fix ELSE fixes[i]
    BY <1>4, <1>5, <2>1
  <2>3. Len(snapshot.netlist) = Len(fixes) /\ \A i \in DOMAIN fixes : snapshot.netlist[i] = fixes[i].move
    BY <1>2, <2>1, <1>5 DEF Plan
  <2>4. netlist = [i \in 1 .. Len(fixes) + 1 |->
                     IF i = Len(fixes) + 1 THEN mv ELSE fixes[i].move]
    <3>1. netlist \in Seq(Moves) /\ Len(netlist) = Len(fixes) + 1
      BY <1>1, <1>2, <2>3, <1>5
    <3>2. \A i \in 1 .. Len(fixes) + 1 :
            netlist[i] = IF i = Len(fixes) + 1 THEN mv ELSE fixes[i].move
      BY <1>1, <1>2, <2>1, <2>3, <1>5
    <3>3. netlist = [i \in 1 .. Len(fixes) + 1 |-> netlist[i]]
      BY <3>1
    <3> QED
      BY <3>2, <3>3
  <2>5. netlist' = [i \in DOMAIN fixes' |-> fixes'[i].move]
    BY <2>1, <2>2, <2>4 DEF Keep
  <2>6. metrics'.after = timing'
    BY DEF TypeOK, Keep
  <2> QED
    BY <2>5, <2>6 DEF PlanMatchesTimer
<1>8. CandidateInv'
  BY DEF CandidateInv, Keep
<1>9. NamesBelow'
  <2> SUFFICES ASSUME NEW i \in DOMAIN fixes' PROVE fixes'[i].move.name < seq'
    BY DEF NamesBelow
  <2>1. seq' >= seq /\ mv.name < seq'
    BY <1>1, <1>3, <1>5 DEF Keep, SeqAfter
  <2>2. CASE i = Len(fixes) + 1
    BY <1>4, <1>5, <2>1, <2>2
  <2>3. CASE i # Len(fixes) + 1
    <3>1. i \in DOMAIN fixes /\ fixes'[i] = fixes[i]
      BY <1>4, <1>5, <2>3
    <3>2. fixes[i].move.name < seq /\ fixes[i].move.name \in Int
      <4>1. fixes[i] \in [move : Moves, check : Checks]
        BY <3>1, <1>5, SeqElement
      <4>2. fixes[i].move \in Moves
        BY <4>1
      <4> QED
        BY <3>1, <4>2 DEF NamesBelow, Moves
    <3>3. seq' \in Int /\ fixes'[i].move.name = fixes[i].move.name
      BY <1>6, <3>1 DEF TypeOK
    <3> QED
      BY <2>1, <3>2, <3>3, <1>5
  <2> QED
    BY <2>2, <2>3
<1> QED
  BY <1>6, <1>7, <1>8, <1>9

\* A rejected one leaves the netlist the checkpoint has (Timer::restore).
LEMMA RevertIInv == IInv /\ Revert => IInv'
<1> SUFFICES ASSUME IInv, Revert PROVE IInv'
  OBVIOUS
<1> USE DEF IInv
<1>1. PICK mv \in Moves : netlist = Append(snapshot.netlist, mv)
  BY DEF CandidateInv, Revert
<1>2. /\ snapshot \in [timing : Timings, netlist : Seq(Moves)]
      /\ snapshot.netlist = Plan /\ metrics.after = snapshot.timing
  BY DEF CandidateInv, Revert
<1>3. Candidate = mv
  BY <1>1, <1>2 DEF Candidate
<1>4. pc' \in {"choose", "swap", "upsize"}
  BY <1>3 DEF Revert, GiveUp, Moves
<1>5. tried' \in [Checks -> SUBSET Sites] /\ rejected' \subseteq Sites
  BY DEF TypeOK, Revert, GiveUp, Checks
<1>6. TypeOK'
  BY <1>2, <1>4, <1>5 DEF TypeOK, Revert
<1>7. PlanMatchesTimer'
  BY <1>2 DEF PlanMatchesTimer, Revert, Plan
<1>8. CandidateInv' /\ NamesBelow'
  BY <1>4 DEF CandidateInv, NamesBelow, Revert
<1> QED
  BY <1>6, <1>7, <1>8

\* Every step of a planner keeps the invariant.
LEMMA NextIInv == IInv /\ [Next]_vars => IInv'
<1> SUFFICES ASSUME IInv, [Next]_vars PROVE IInv'
  OBVIOUS
<1> USE DEF IInv
<1>1. CASE Finish
  BY <1>1 DEF Finish, TypeOK, PlanMatchesTimer, CandidateInv, NamesBelow
<1>2. CASE BeginHold
  <2>1. target' \in Sites
    BY <1>2 DEF BeginHold, WorstHold, HoldCandidates, Sites
  <2>2. left' \in Nat
    BY <1>2, OptionsAssumption DEF BeginHold
  <2> QED
    BY <1>2, <2>1, <2>2
    DEF BeginHold, Choosing, TypeOK, PlanMatchesTimer, CandidateInv, NamesBelow
<1>3. CASE BeginSetup
  <2>1. target' \in Sites
    BY <1>3 DEF BeginSetup, SetupCandidates, Sites, TypeOK, Timings
  <2>2. left' \in Nat
    BY <1>3, OptionsAssumption DEF BeginSetup
  <2> QED
    BY <1>3, <2>1, <2>2
    DEF BeginSetup, Choosing, TypeOK, PlanMatchesTimer, CandidateInv, NamesBelow
<1>4. CASE Exhausted
  <2>1. set_aside' \in [Checks -> BOOLEAN]
    <3> DEFINE c == NextCheck
    <3>1. set_aside \in [Checks -> BOOLEAN] /\ set_aside' = [set_aside EXCEPT ![c] = TRUE]
      BY <1>4 DEF Exhausted, TypeOK
    <3> HIDE DEF c
    <3> QED
      BY <3>1, Zenon
  <2>2. pc = "choose" /\ UNCHANGED <<timing, netlist, snapshot, pc, target, left, fixes,
                                    rejected, tried, seq, metrics>>
    BY <1>4 DEF Exhausted, Choosing
  <2>3. TypeOK'
    BY <2>1, <2>2 DEF TypeOK
  <2>4. PlanMatchesTimer' /\ CandidateInv' /\ NamesBelow'
    BY <2>2 DEF PlanMatchesTimer, CandidateInv, NamesBelow
  <2> QED
    BY <2>3, <2>4
<1>5. CASE TrySwap
  <2>1. [kind |-> "swap", site |-> target, name |-> -1] \in Moves /\ left' \in Nat
    BY <1>5 DEF TrySwap, TypeOK, Moves
  <2> QED
    BY <1>5, <2>1, TryIInv DEF TrySwap
<1>6. CASE TryUpsize
  <2>1. [kind |-> "upsize", site |-> target, name |-> -1] \in Moves /\ left' \in Nat
    BY <1>6 DEF TryUpsize, TypeOK, Moves
  <2> QED
    BY <1>6, <2>1, TryIInv DEF TryUpsize
<1>7. CASE TryInsert
  <2>1. [kind |-> "insert", site |-> target, name |-> seq] \in Moves /\ left' \in Nat
    BY <1>7 DEF TryInsert, TypeOK, Moves
  <2> QED
    BY <1>7, <2>1, TryIInv DEF TryInsert
<1>8. CASE SwapsSpent
  BY <1>8 DEF SwapsSpent, TypeOK, PlanMatchesTimer, CandidateInv, NamesBelow
<1>9. CASE InsertRefused
  BY <1>9 DEF InsertRefused, GiveUp, TypeOK, PlanMatchesTimer, CandidateInv, NamesBelow, Checks
<1>10. CASE UpsizesSpent
  BY <1>10 DEF UpsizesSpent, GiveUp, TypeOK, PlanMatchesTimer, CandidateInv, NamesBelow, Checks
<1>11. CASE UpdateFails
  <2>1. netlist' \in Seq(Moves)
    BY <1>11 DEF UpdateFails, TypeOK, Moves
  <2> QED
    BY <1>11, <2>1 DEF UpdateFails, TypeOK, PlanMatchesTimer, CandidateInv, NamesBelow
<1>12. CASE Keep
  BY <1>12, KeepIInv
<1>13. CASE Revert
  BY <1>13, RevertIInv
<1>14. CASE UNCHANGED vars
  BY <1>14 DEF vars, TypeOK, PlanMatchesTimer, CandidateInv, NamesBelow, Plan
<1> QED
  BY <1>1, <1>2, <1>3, <1>4, <1>5, <1>6, <1>7, <1>8, <1>9, <1>10, <1>11, <1>12, <1>13, <1>14
  DEF Next, Attempt

-----------------------------------------------------------------------------
(* The bound on the harm done                                              *)

\* One more fix for check c counts one more for c and none more for the other.
LEMMA CountOneMore ==
  ASSUME TypeOK, NEW fix \in [move : Moves, check : Checks], fixes' = Append(fixes, fix),
         NEW c \in Checks
  PROVE  /\ FixesFor(c) \in Nat
         /\ FixesFor(c)' = FixesFor(c) + IF fix.check = c THEN 1 ELSE 0
<1> DEFINE F == {i \in DOMAIN fixes : fixes[i].check = c}
           n == Len(fixes) + 1
<1>1. fixes \in Seq([move : Moves, check : Checks]) /\ DOMAIN fixes = 1 .. Len(fixes)
  BY DEF TypeOK
<1>2. IsFiniteSet(F) /\ n \notin F
  <2>1. IsFiniteSet(1 .. Len(fixes))
    BY <1>1, FS_Interval
  <2>2. F \subseteq 1 .. Len(fixes) /\ n \notin 1 .. Len(fixes)
    BY <1>1
  <2> QED
    BY <2>1, <2>2, FS_Subset
<1>3. F' = IF fix.check = c THEN F \cup {n} ELSE F
  <2>1. DOMAIN fixes' = DOMAIN fixes \cup {n}
    BY <1>1
  <2>2. fixes'[n] = fix /\ \A i \in DOMAIN fixes : fixes'[i] = fixes[i]
    BY <1>1
  <2> QED
    BY <2>1, <2>2
<1>4. Cardinality(F \cup {n}) = Cardinality(F) + 1 /\ Cardinality(F) \in Nat
  BY <1>2, FS_AddElement, FS_CardinalityType
<1>5. FixesFor(c) = Cardinality(F) /\ FixesFor(c)' = Cardinality(F')
  BY DEF FixesFor
<1> HIDE DEF F
<1>6. CASE fix.check = c
  BY <1>3, <1>4, <1>5, <1>6
<1>7. CASE fix.check # c
  <2>1. F' = F
    BY <1>3, <1>7
  <2>2. FixesFor(c)' = FixesFor(c)
    BY <1>5, <2>1
  <2> QED
    BY <1>4, <1>5, <1>7, <2>2
<1> QED
  BY <1>6, <1>7

\* The bound moves only with the fixes.
LEMMA BoundKept ==
  ASSUME UNCHANGED <<fixes, metrics>>
  PROVE  LowWns' = LowWns /\ LowWhs' = LowWhs
BY DEF LowWns, LowWhs, FixesFor

\* A kept fix stays within the bound of the check it was not for, and improves the
\* other.
LEMMA KeepBound ==
  ASSUME IInv, BoundInv, Keep
  PROVE  timing.wns >= LowWns' /\ Whs(timing) >= LowWhs'
<1>1. PICK mv \in Moves : netlist = Append(snapshot.netlist, mv)
  BY DEF IInv, CandidateInv, Keep
<1>2. snapshot \in [timing : Timings, netlist : Seq(Moves)]
  BY DEF IInv, CandidateInv, Keep
<1>3. Candidate = mv
  BY <1>1, <1>2 DEF Candidate
<1> DEFINE before == snapshot.timing
           fix == [move |-> mv, check |-> CheckOf(mv)]
<1>4. fix \in [move : Moves, check : Checks] /\ fixes' = Append(fixes, fix)
  BY <1>3 DEF Keep, CheckOf, Checks
<1>5. /\ FixesFor("hold") \in Nat /\ FixesFor("setup") \in Nat
      /\ FixesFor("hold")' = FixesFor("hold") + IF fix.check = "hold" THEN 1 ELSE 0
      /\ FixesFor("setup")' = FixesFor("setup") + IF fix.check = "setup" THEN 1 ELSE 0
  BY <1>4, CountOneMore DEF IInv, Checks
<1>6. before \in Timings /\ timing \in Timings /\ metrics.before \in Timings
  BY <1>2 DEF IInv, TypeOK
<1>7. /\ before.wns \in Int /\ timing.wns \in Int /\ metrics.before.wns \in Int
      /\ Whs(before) \in Int /\ Whs(timing) \in Int /\ Whs(metrics.before) \in Int
  BY <1>6, WhsType, SlacksAssumption DEF Timings
<1>8. metrics'.before = metrics.before
  BY DEF Keep, IInv, TypeOK
<1>9. before.wns >= LowWns /\ Whs(before) >= LowWhs
  BY DEF BoundInv, Keep
<1>10. Earns(before, timing, fix.check)
  BY <1>3 DEF Keep
<1>11. Eps \in Nat
  BY SlacksAssumption
<1>12. /\ LowWns' = Floor(metrics.before.wns) - Eps * FixesFor("hold")'
       /\ LowWhs' = Floor(Whs(metrics.before)) - Eps * FixesFor("setup")'
  BY <1>8 DEF LowWns, LowWhs
<1>13. Floor(metrics.before.wns) \in Int /\ Floor(Whs(metrics.before)) \in Int
       /\ Floor(metrics.before.wns) <= 0 /\ Floor(Whs(metrics.before)) <= 0
  BY <1>7 DEF Floor
<1>14. CASE fix.check = "hold"
  <2>1. /\ Eps * FixesFor("hold")' = Eps * FixesFor("hold") + Eps
        /\ FixesFor("setup")' = FixesFor("setup")
        /\ Eps * FixesFor("hold") \in Nat /\ Eps * FixesFor("setup") \in Nat
    BY <1>5, <1>11, <1>14
  <2>2. LowWns' = LowWns - Eps /\ LowWhs' = LowWhs /\ LowWns' <= 0
    BY <1>11, <1>12, <1>13, <2>1 DEF LowWns, LowWhs
  <2>3. Whs(timing) - Whs(before) > Eps /\ ~Harmed(before.wns, timing.wns)
    BY <1>10, <1>14 DEF Earns
  <2>4. LowWns \in Int /\ LowWhs \in Int
    BY <1>13, <2>1 DEF LowWns, LowWhs
  <2> QED
    BY <1>7, <1>9, <1>11, <2>2, <2>3, <2>4 DEF Harmed
<1>15. CASE fix.check = "setup"
  <2>1. /\ Eps * FixesFor("setup")' = Eps * FixesFor("setup") + Eps
        /\ FixesFor("hold")' = FixesFor("hold")
        /\ Eps * FixesFor("hold") \in Nat /\ Eps * FixesFor("setup") \in Nat
    BY <1>5, <1>11, <1>15
  <2>2. LowWhs' = LowWhs - Eps /\ LowWns' = LowWns /\ LowWhs' <= 0
    BY <1>11, <1>12, <1>13, <2>1 DEF LowWns, LowWhs
  <2>3. timing.wns - before.wns > Eps /\ ~Harmed(Whs(before), Whs(timing))
    BY <1>10, <1>15 DEF Earns
  <2>4. LowWns \in Int /\ LowWhs \in Int
    BY <1>13, <2>1 DEF LowWns, LowWhs
  <2> QED
    BY <1>7, <1>9, <1>11, <2>2, <2>3, <2>4 DEF Harmed
<1> QED
  BY <1>14, <1>15 DEF CheckOf

\* A new plan has done no harm.
LEMMA InitBound == Init => BoundInv
<1> SUFFICES ASSUME Init PROVE BoundInv
  OBVIOUS
<1>1. timing \in Timings /\ metrics.before = timing /\ fixes = <<>> /\ pc = "choose"
  BY StartsAssumption DEF Init
<1>2. timing.wns \in Int /\ Whs(timing) \in Int /\ Eps \in Nat
  BY <1>1, WhsType, SlacksAssumption DEF Timings
<1>3. FixesFor("hold") = 0 /\ FixesFor("setup") = 0
  <2>1. \A c \in Checks : {i \in DOMAIN fixes : fixes[i].check = c} = {}
    BY <1>1
  <2> QED
    BY <2>1, FS_EmptySet DEF FixesFor, Checks
<1> QED
  BY <1>1, <1>2, <1>3 DEF BoundInv, LowWns, LowWhs, Floor

\* No step passes the bound: only a kept fix moves the timing and the count.
LEMMA NextBound == IInv /\ BoundInv /\ [Next]_vars => BoundInv'
<1> SUFFICES ASSUME IInv, BoundInv, [Next]_vars PROVE BoundInv'
  OBVIOUS
<1>1. CASE Keep
  BY <1>1, KeepBound DEF Keep, BoundInv
<1>2. CASE Revert
  <2>1. UNCHANGED <<fixes, metrics>> /\ pc = "judge" /\ timing' = snapshot.timing
    BY <1>2 DEF Revert
  <2>2. pc' # "judge"
    BY <1>2 DEF Revert, GiveUp, IInv, CandidateInv, Candidate, Moves
  <2> QED
    BY <2>1, <2>2, BoundKept DEF BoundInv
<1>3. CASE TrySwap \/ TryUpsize \/ TryInsert
  <2>1. /\ UNCHANGED <<fixes, metrics>> /\ pc # "judge" /\ pc' = "judge"
        /\ snapshot'.timing = timing
    BY <1>3 DEF TrySwap, TryUpsize, TryInsert, Try
  <2> QED
    BY <2>1, BoundKept DEF BoundInv
<1>4. CASE \/ Finish \/ BeginHold \/ BeginSetup \/ Exhausted \/ SwapsSpent
           \/ InsertRefused \/ UpsizesSpent \/ UpdateFails
  <2>1. UNCHANGED <<fixes, metrics, timing>> /\ pc # "judge" /\ pc' # "judge"
    BY <1>4 DEF Finish, BeginHold, BeginSetup, Exhausted, SwapsSpent, InsertRefused,
                UpsizesSpent, UpdateFails, GiveUp, Choosing
  <2> QED
    BY <2>1, BoundKept DEF BoundInv
<1>5. CASE UNCHANGED vars
  BY <1>5, BoundKept DEF vars, BoundInv
<1> QED
  BY <1>1, <1>2, <1>3, <1>4, <1>5 DEF Next, Attempt

-----------------------------------------------------------------------------
(* What a plan leaves untried                                              *)

\* The sites of each check a report t shows violated and that are not given up on.
HoldUntried(t) == {e \in HoldPins : HaveDelayCell /\ t.hold[e] < 0 /\ e \notin tried["hold"]}
SetupUntried(t) == IF t.wns >= 0 THEN {} ELSE t.path \ tried["setup"]

\* The timing the round began with: the checkpoint's while a candidate is judged.
RoundTiming == IF pc = "judge" THEN snapshot.timing ELSE timing

\* A check set aside has nothing untried, because only a kept fix of the other check
\* changes the timing, and such a fix revives it; no attempt is made for a check set
\* aside or not the planner's; and one that is not the planner's is never set aside.
AsideInv ==
  /\ set_aside["hold"] => HoldUntried(RoundTiming) = {}
  /\ set_aside["setup"] => SetupUntried(RoundTiming) = {}
  /\ pc \in {"swap", "insert"} => ~set_aside["hold"] /\ Mode # "setup"
  /\ pc = "upsize" => ~set_aside["setup"] /\ Mode # "hold"
  /\ pc = "judge" => IF Candidate.kind = "upsize" THEN ~set_aside["setup"] /\ Mode # "hold"
                                                  ELSE ~set_aside["hold"] /\ Mode # "setup"
  /\ Mode = "hold" => ~set_aside["setup"]
  /\ Mode = "setup" => ~set_aside["hold"]

DoneInv == AsideInv /\ NothingLeftUntried

\* A new plan has set no check aside (plan_repair, repair.rs).
LEMMA InitDone == Init => DoneInv
BY DEF Init, DoneInv, AsideInv, NothingLeftUntried, Checks

\* The check of a round is one not set aside (plan_repair's choice of check).
LEMMA ChosenNotAside ==
  ASSUME NEW c \in Checks, Choosing(c)
  PROVE  ~set_aside[c] /\ (Mode # "both" => Mode = c)
BY DEF Choosing, NextCheck, Checks

\* The candidate being judged is of the kind that was tried (attempt_hold, attempt_setup).
LEMMA CandidateTried ==
  ASSUME TypeOK, NEW mv, netlist' = Append(netlist, mv)
  PROVE  Candidate' = mv
<1>1. netlist \in Seq(Moves) /\ Len(netlist) \in Nat
  BY DEF TypeOK
<1>2. Len(netlist') = Len(netlist) + 1 /\ netlist'[Len(netlist) + 1] = mv
  BY <1>1
<1>3. Candidate' = netlist'[Len(netlist')]
  BY DEF Candidate
<1> QED
  BY <1>2, <1>3

\* Every round keeps AsideInv (repair.rs, the three planners' loops).
LEMMA NextAside ==
  ASSUME IInv, AsideInv, [Next]_vars
  PROVE  AsideInv'
<1>1. CASE Finish
  BY <1>1 DEF Finish, AsideInv, HoldUntried, SetupUntried, RoundTiming
<1>2. CASE BeginHold
  <2>1. ~set_aside["hold"] /\ Mode # "setup"
    BY <1>2, ChosenNotAside DEF BeginHold, Checks
  <2>2. /\ pc = "choose" /\ pc' \in {"swap", "insert"}
        /\ UNCHANGED <<timing, netlist, snapshot, tried, set_aside>>
    BY <1>2 DEF BeginHold, Choosing
  <2> QED
    BY <2>1, <2>2 DEF AsideInv, HoldUntried, SetupUntried, RoundTiming
<1>3. CASE BeginSetup
  <2>1. ~set_aside["setup"] /\ Mode # "hold"
    BY <1>3, ChosenNotAside DEF BeginSetup, Checks
  <2>2. /\ pc = "choose" /\ pc' = "upsize"
        /\ UNCHANGED <<timing, netlist, snapshot, tried, set_aside>>
    BY <1>3 DEF BeginSetup, Choosing
  <2> QED
    BY <2>1, <2>2 DEF AsideInv, HoldUntried, SetupUntried, RoundTiming
<1>4. CASE Exhausted
  <2>1. PICK c \in Checks : /\ Choosing(c) /\ set_aside' = [set_aside EXCEPT ![c] = TRUE]
                            /\ c = "hold" => HoldCandidates = {}
                            /\ c = "setup" => SetupCandidates = {}
    <3>1. CASE Choosing("hold") /\ HoldCandidates = {}
      BY <1>4, <3>1 DEF Exhausted, Choosing, Checks
    <3>2. CASE Choosing("setup") /\ SetupCandidates = {}
      BY <1>4, <3>2 DEF Exhausted, Choosing, Checks
    <3> QED
      BY <1>4, <3>1, <3>2 DEF Exhausted
  <2>2. pc = "choose" /\ UNCHANGED <<timing, netlist, snapshot, pc, tried>>
    BY <1>4 DEF Exhausted, Choosing
  <2>3. set_aside'[c] /\ \A d \in Checks : d # c => set_aside'[d] = set_aside[d]
    BY <2>1 DEF IInv, TypeOK
  <2>4. Mode # "both" => Mode = c
    BY <2>1, ChosenNotAside
  <2>5. CASE c = "hold"
    <3>1. HoldUntried(timing) = {} /\ set_aside'["setup"] = set_aside["setup"]
      BY <2>1, <2>3, <2>5 DEF HoldCandidates, HoldUntried, Checks
    <3> QED
      BY <2>2, <2>4, <2>5, <3>1 DEF AsideInv, HoldUntried, SetupUntried, RoundTiming
  <2>6. CASE c = "setup"
    <3>1. SetupUntried(timing) = {} /\ set_aside'["hold"] = set_aside["hold"]
      BY <2>1, <2>3, <2>6 DEF SetupCandidates, SetupUntried, Checks
    <3> QED
      BY <2>2, <2>4, <2>6, <3>1 DEF AsideInv, HoldUntried, SetupUntried, RoundTiming
  <2> QED
    BY <2>5, <2>6 DEF Checks
<1>5. CASE TrySwap \/ TryUpsize \/ TryInsert
  <2>1. PICK mv : /\ Try(mv) /\ pc \in {"swap", "insert", "upsize"}
                  /\ (mv.kind = "upsize") = (pc = "upsize")
    BY <1>5 DEF TrySwap, TryUpsize, TryInsert
  <2>2. Candidate' = mv
    BY <2>1, CandidateTried DEF Try, IInv
  <2>3. /\ pc' = "judge" /\ snapshot'.timing = timing
        /\ UNCHANGED <<tried, set_aside>>
    BY <2>1 DEF Try
  <2>4. RoundTiming = timing /\ RoundTiming' = timing
    BY <2>1, <2>3 DEF RoundTiming
  <2>5. HoldUntried(RoundTiming)' = HoldUntried(RoundTiming)
        /\ SetupUntried(RoundTiming)' = SetupUntried(RoundTiming)
    BY <2>3, <2>4 DEF HoldUntried, SetupUntried
  <2>6. IF mv.kind = "upsize" THEN ~set_aside["setup"] /\ Mode # "hold"
                              ELSE ~set_aside["hold"] /\ Mode # "setup"
    BY <2>1 DEF AsideInv
  <2> QED
    BY <2>2, <2>3, <2>5, <2>6 DEF AsideInv
<1>6. CASE SwapsSpent
  BY <1>6 DEF SwapsSpent, AsideInv, HoldUntried, SetupUntried, RoundTiming
<1>7. CASE InsertRefused \/ UpsizesSpent
  <2>1. PICK c \in Checks : GiveUp(c)
    BY <1>7 DEF InsertRefused, UpsizesSpent, Checks
  <2>2. /\ pc # "judge" /\ pc' = "choose"
        /\ UNCHANGED <<timing, set_aside>>
    BY <1>7 DEF InsertRefused, UpsizesSpent, GiveUp
  <2>3. \A d \in Checks : tried[d] \subseteq tried'[d]
    BY <2>1 DEF GiveUp, IInv, TypeOK
  <2> QED
    BY <2>2, <2>3 DEF AsideInv, HoldUntried, SetupUntried, RoundTiming, Checks
<1>8. CASE UpdateFails
  BY <1>8 DEF UpdateFails, AsideInv, HoldUntried, SetupUntried, RoundTiming
<1>9. CASE Keep
  <2>1. pc = "judge" /\ pc' = "choose" /\ UNCHANGED <<timing, tried>>
    BY <1>9 DEF Keep
  <2>2. CASE Mode = "both" /\ Candidate.kind = "upsize"
    <3>1. set_aside' = [set_aside EXCEPT !["hold"] = FALSE] /\ ~set_aside["setup"]
      BY <1>9, <2>1, <2>2 DEF Keep, Revived, CheckOf, Other, AsideInv
    <3>2. ~set_aside'["hold"] /\ ~set_aside'["setup"]
      BY <3>1 DEF IInv, TypeOK, Checks
    <3> QED
      BY <2>1, <3>2 DEF AsideInv
  <2>3. CASE Mode = "both" /\ Candidate.kind # "upsize"
    <3>1. set_aside' = [set_aside EXCEPT !["setup"] = FALSE] /\ ~set_aside["hold"]
      BY <1>9, <2>1, <2>3 DEF Keep, Revived, CheckOf, Other, AsideInv
    <3>2. ~set_aside'["hold"] /\ ~set_aside'["setup"]
      BY <3>1 DEF IInv, TypeOK, Checks
    <3> QED
      BY <2>1, <3>2 DEF AsideInv
  <2>4. CASE Mode # "both"
    <3>1. set_aside' = set_aside
      BY <1>9, <2>4 DEF Keep
    <3>2. ~set_aside["hold"] /\ ~set_aside["setup"]
      BY <2>1, <2>4, OptionsAssumption DEF AsideInv
    <3> QED
      BY <2>1, <3>1, <3>2 DEF AsideInv
  <2> QED
    BY <2>2, <2>3, <2>4
<1>10. CASE Revert
  <2>1. /\ pc = "judge" /\ timing' = snapshot.timing /\ UNCHANGED set_aside
    BY <1>10 DEF Revert
  <2>2. Candidate.kind \in {"swap", "insert", "upsize"}
    <3>1. PICK mv \in Moves : netlist = Append(snapshot.netlist, mv)
      BY <2>1 DEF IInv, CandidateInv
    <3>2. snapshot.netlist \in Seq(Moves)
      BY <2>1 DEF IInv, CandidateInv
    <3> QED
      BY <3>1, <3>2 DEF Candidate, Moves
  <2>3. \/ pc' = "choose"
        \/ pc' = "swap" /\ Candidate.kind = "swap"
        \/ pc' = "upsize" /\ Candidate.kind = "upsize"
    BY <1>10, <2>2 DEF Revert, GiveUp
  <2>4. \A d \in Checks : tried[d] \subseteq tried'[d]
    BY <1>10 DEF Revert, GiveUp, IInv, TypeOK
  <2>5. RoundTiming = snapshot.timing /\ RoundTiming' = snapshot.timing
    BY <2>1, <2>3 DEF RoundTiming
  <2>6. /\ HoldUntried(RoundTiming)' \subseteq HoldUntried(RoundTiming)
        /\ SetupUntried(RoundTiming)' \subseteq SetupUntried(RoundTiming)
    BY <2>4, <2>5 DEF HoldUntried, SetupUntried, Checks
  <2> QED
    BY <2>1, <2>3, <2>6 DEF AsideInv
<1>11. CASE UNCHANGED vars
  BY <1>11 DEF vars, AsideInv, HoldUntried, SetupUntried, RoundTiming, Candidate
<1> QED
  BY <1>1, <1>2, <1>3, <1>4, <1>5, <1>6, <1>7, <1>8, <1>9, <1>10, <1>11 DEF Next, Attempt

\* A plan ends only when its limit is reached or each of its checks is met or set
\* aside (plan_repair's loop condition).
LEMMA FinishLeavesNothing ==
  ASSUME IInv, AsideInv, Finish
  PROVE  NothingLeftUntried'
<1>1. /\ pc = "choose" /\ UNCHANGED <<timing, tried, fixes>>
      /\ LimitReached \/ NextCheck = "none"
  BY DEF Finish
<1>2. LimitReached' = LimitReached /\ HoldCandidates' = HoldCandidates
      /\ SetupCandidates' = SetupCandidates
  BY <1>1 DEF LimitReached, HoldCandidates, SetupCandidates
<1>3. HoldCandidates = HoldUntried(timing) /\ SetupCandidates = SetupUntried(timing)
      /\ RoundTiming = timing
  BY <1>1 DEF HoldCandidates, HoldUntried, SetupCandidates, SetupUntried, RoundTiming
<1>4. timing \in Timings /\ timing.hold \in [Endpoints -> Slacks] /\ Slacks \subseteq Int
  BY SlacksAssumption DEF IInv, TypeOK, Timings
<1>5. Whs(timing) >= 0 => HoldCandidates = {}
  <2>1. \A e \in HoldPins : timing.hold[e] \in Int /\ Whs(timing) <= timing.hold[e]
    BY <1>4, WhsType DEF Endpoints
  <2>2. Whs(timing) \in Int
    BY <1>4, WhsType
  <2> QED
    BY <2>1, <2>2 DEF HoldCandidates
<1>6. timing.wns >= 0 => SetupCandidates = {}
  BY DEF SetupCandidates
<1>7. Whs(timing) \in Int /\ timing.wns \in Int
  BY <1>4, WhsType DEF Timings
<1>8. (NextCheck = "none" /\ Mode # "setup") => (set_aside["hold"] \/ Whs(timing) >= 0)
  BY <1>7, OptionsAssumption DEF NextCheck
<1>9. (NextCheck = "none" /\ Mode # "hold") => (set_aside["setup"] \/ timing.wns >= 0)
  BY <1>7, OptionsAssumption DEF NextCheck
<1>10. NextCheck = "none" => /\ (Mode # "setup" => HoldCandidates = {})
                            /\ (Mode # "hold" => SetupCandidates = {})
  BY <1>3, <1>5, <1>6, <1>8, <1>9 DEF AsideInv
<1> QED
  BY <1>1, <1>2, <1>10 DEF NothingLeftUntried

\* Every step keeps DoneInv (repair.rs).
LEMMA NextDone == IInv /\ DoneInv /\ [Next]_vars => DoneInv'
<1> SUFFICES ASSUME IInv, DoneInv, [Next]_vars PROVE DoneInv'
  OBVIOUS
<1>1. AsideInv'
  BY NextAside DEF DoneInv
<1>2. NothingLeftUntried'
  <2>1. CASE Finish
    BY <2>1, FinishLeavesNothing DEF DoneInv
  <2>2. CASE UNCHANGED vars
    BY <2>2 DEF vars, DoneInv, NothingLeftUntried, LimitReached, HoldCandidates, SetupCandidates
  <2>3. CASE Next /\ ~Finish
    <3>1. CASE Revert
      <4>1. pc' = "choose" \/ pc' = Candidate.kind
        BY <3>1 DEF Revert, GiveUp
      <4>2. Candidate.kind # "done"
        <5>1. PICK mv \in Moves : netlist = Append(snapshot.netlist, mv)
          BY <3>1 DEF IInv, CandidateInv, Revert
        <5>2. snapshot.netlist \in Seq(Moves)
          BY <3>1 DEF IInv, CandidateInv, Revert
        <5> QED
          BY <5>1, <5>2 DEF Candidate, Moves
      <4> QED
        BY <4>1, <4>2 DEF NothingLeftUntried
    <3>2. CASE ~Revert
      <4>1. pc' # "done"
        BY <2>3, <3>2 DEF Next, Attempt, BeginHold, BeginSetup, Exhausted, Choosing, TrySwap,
           TryUpsize, TryInsert, Try, SwapsSpent, InsertRefused, UpsizesSpent, GiveUp,
           UpdateFails, Keep
      <4> QED
        BY <4>1 DEF NothingLeftUntried
    <3> QED
      BY <3>1, <3>2
  <2> QED
    BY <2>1, <2>2, <2>3
<1> QED
  BY <1>1, <1>2 DEF DoneInv

-----------------------------------------------------------------------------
(* Progress                                                                *)

\* The check the current attempt is for; the attempt goes on while its candidate is judged.
Attempting(check) ==
  IF check = "setup" THEN pc = "upsize" \/ (pc = "judge" /\ Candidate.kind = "upsize")
                     ELSE pc \in {"swap", "insert"} \/ (pc = "judge" /\ Candidate.kind # "upsize")

\* An attempt is for a check the round began with violated, at a site not given up on.
AttemptInv ==
  /\ Attempting("hold") => target \notin tried["hold"] /\ Whs(RoundTiming) < 0
  /\ Attempting("setup") => target \notin tried["setup"] /\ RoundTiming.wns < 0

\* The candidate being judged is one that was staged (Candidate of judge).
LEMMA Judged ==
  ASSUME IInv, pc = "judge"
  PROVE  /\ Candidate \in Moves
         /\ snapshot \in [timing : Timings, netlist : Seq(Moves)]
         /\ metrics.after = snapshot.timing
<1>1. PICK mv \in Moves : netlist = Append(snapshot.netlist, mv)
  BY DEF IInv, CandidateInv
<1>2. snapshot.netlist \in Seq(Moves)
  BY DEF IInv, CandidateInv
<1> QED
  BY <1>1, <1>2 DEF Candidate, IInv, CandidateInv

\* Every step keeps AttemptInv (attempt_hold, attempt_setup, repair.rs).
LEMMA NextAttempt ==
  ASSUME IInv, AttemptInv, [Next]_vars
  PROVE  AttemptInv'
<1>1. CASE BeginHold
  <2>1. /\ target' \in HoldPins /\ timing.hold[target'] < 0 /\ target' \notin tried["hold"]
        /\ pc' \in {"swap", "insert"} /\ UNCHANGED <<timing, tried>>
    BY <1>1 DEF BeginHold, WorstHold, HoldCandidates
  <2>2. timing \in Timings /\ timing.hold[target'] \in Int
    BY <2>1, SlacksAssumption DEF IInv, TypeOK, Timings, Endpoints
  <2>3. Whs(timing) < 0
    BY <2>1, <2>2, WhsType DEF Endpoints
  <2>4. RoundTiming' = timing
    BY <2>1 DEF RoundTiming
  <2> QED
    BY <2>1, <2>3, <2>4 DEF AttemptInv, Attempting
<1>2. CASE BeginSetup
  <2>1. /\ target' \in SetupCandidates /\ pc' = "upsize" /\ UNCHANGED <<timing, tried>>
    BY <1>2 DEF BeginSetup
  <2>2. timing.wns \in Int
    BY SlacksAssumption DEF IInv, TypeOK, Timings
  <2>3. timing.wns < 0 /\ target' \notin tried["setup"]
    BY <2>1, <2>2 DEF SetupCandidates
  <2> QED
    BY <2>1, <2>3 DEF AttemptInv, Attempting, RoundTiming
<1>3. CASE TrySwap \/ TryUpsize \/ TryInsert
  <2>1. PICK mv : /\ Try(mv) /\ pc \in {"swap", "insert", "upsize"}
                  /\ (mv.kind = "upsize") = (pc = "upsize")
    BY <1>3 DEF TrySwap, TryUpsize, TryInsert
  <2>2. Candidate' = mv
    BY <2>1, CandidateTried DEF Try, IInv
  <2>3. pc' = "judge" /\ snapshot'.timing = timing /\ UNCHANGED <<tried, target>>
    BY <2>1 DEF Try
  <2>4. RoundTiming = timing /\ RoundTiming' = timing
    BY <2>1, <2>3 DEF RoundTiming
  <2>5. Attempting("hold")' = Attempting("hold") /\ Attempting("setup")' = Attempting("setup")
    BY <2>1, <2>2, <2>3 DEF Attempting
  <2> QED
    BY <2>3, <2>4, <2>5 DEF AttemptInv
<1>4. CASE SwapsSpent
  BY <1>4 DEF SwapsSpent, AttemptInv, Attempting, RoundTiming
<1>5. CASE Revert
  <2>1. /\ pc = "judge" /\ timing' = snapshot.timing /\ UNCHANGED target
    BY <1>5 DEF Revert
  <2>2. \/ pc' = "choose"
        \/ pc' = "swap" /\ Candidate.kind = "swap" /\ UNCHANGED tried
        \/ pc' = "upsize" /\ Candidate.kind = "upsize" /\ UNCHANGED tried
    BY <1>5, <2>1, Judged DEF Revert, GiveUp, Moves
  <2>3. RoundTiming = snapshot.timing /\ RoundTiming' = snapshot.timing
    BY <2>1, <2>2 DEF RoundTiming
  <2> QED
    BY <2>1, <2>2, <2>3 DEF AttemptInv, Attempting
<1>6. CASE Finish \/ InsertRefused \/ UpsizesSpent \/ UpdateFails \/ Keep
  <2>1. pc' \in {"choose", "done", "failed"}
    BY <1>6 DEF Finish, InsertRefused, UpsizesSpent, UpdateFails, Keep, GiveUp
  <2> QED
    BY <2>1 DEF AttemptInv, Attempting
<1>7. CASE Exhausted
  <2>1. pc' = "choose"
    BY <1>7 DEF Exhausted, Choosing
  <2> QED
    BY <2>1 DEF AttemptInv, Attempting
<1>8. CASE UNCHANGED vars
  BY <1>8 DEF vars, AttemptInv, Attempting, RoundTiming, Candidate
<1> QED
  BY <1>1, <1>2, <1>3, <1>4, <1>5, <1>6, <1>7, <1>8 DEF Next, Attempt

\* What a fix gains its own check is more than the noise, counted up to the noise.
LEMMA CappedGain ==
  ASSUME NEW b \in Int, NEW a \in Int, b < 0, a - b > Eps
  PROVE  Capped(a) - Capped(b) > Eps
BY SlacksAssumption DEF Capped

\* What it costs the other is the noise at most.
LEMMA CappedLoss ==
  ASSUME NEW b \in Int, NEW a \in Int, ~Harmed(b, a)
  PROVE  Capped(b) - Capped(a) <= Eps
BY SlacksAssumption DEF Capped, Harmed

\* A kept fix makes the plan worth more (judge; Plan::keep).
LEMMA KeepWorth ==
  ASSUME IInv, AttemptInv, Keep
  PROVE  Worth' > Worth
<1> DEFINE b == snapshot.timing
           a == timing
<1>1. b \in Timings /\ a \in Timings /\ metrics.after = b /\ metrics'.after = a
  BY Judged DEF Keep, IInv, TypeOK
<1>2. Whs(a) \in Int /\ Whs(b) \in Int /\ a.wns \in Int /\ b.wns \in Int
  BY <1>1, WhsType, SlacksAssumption DEF Timings
<1>3. \A s \in Int : Capped(s) \in Int
  BY SlacksAssumption DEF Capped
<1>4. Worth = Capped(Whs(b)) + Capped(b.wns) /\ Worth' = Capped(Whs(a)) + Capped(a.wns)
  <2>1. \A t : Capped(Whs(t)) + Capped(t.wns) = Capped(Whs(t)) + Capped(t.wns)
    OBVIOUS
  <2> QED
    BY <1>1 DEF Worth, Capped, Whs
<1>5. Earns(b, a, CheckOf(Candidate)) /\ pc = "judge" /\ RoundTiming = b
  BY DEF Keep, RoundTiming
<1>6. CASE Candidate.kind = "upsize"
  <2>1. b.wns < 0 /\ a.wns - b.wns > Eps /\ ~Harmed(Whs(b), Whs(a))
    BY <1>5, <1>6 DEF AttemptInv, Attempting, Earns, CheckOf
  <2>2. /\ Capped(a.wns) - Capped(b.wns) > Eps
        /\ Capped(Whs(b)) - Capped(Whs(a)) <= Eps
    BY <1>2, <2>1, CappedGain, CappedLoss
  <2> QED
    BY <1>2, <1>3, <1>4, <2>2, SlacksAssumption
<1>7. CASE Candidate.kind # "upsize"
  <2>1. Whs(b) < 0 /\ Whs(a) - Whs(b) > Eps /\ ~Harmed(b.wns, a.wns)
    BY <1>5, <1>7 DEF AttemptInv, Attempting, Earns, CheckOf
  <2>2. /\ Capped(Whs(a)) - Capped(Whs(b)) > Eps
        /\ Capped(b.wns) - Capped(a.wns) <= Eps
    BY <1>2, <2>1, CappedGain, CappedLoss
  <2> QED
    BY <1>2, <1>3, <1>4, <2>2, SlacksAssumption
<1> QED
  BY <1>6, <1>7

\* A site given up on was not given up on before.
LEMMA GiveUpAdds ==
  ASSUME IInv, NEW c \in Checks, target \notin tried[c], GiveUp(c)
  PROVE  GivenUp \subseteq GivenUp' /\ GivenUp # GivenUp'
<1>1. target \in Sites /\ tried \in [Checks -> SUBSET Sites]
  BY DEF IInv, TypeOK
<1>2. \A d \in Checks : tried'[d] = IF d = c THEN tried[d] \cup {target} ELSE tried[d]
  BY <1>1 DEF GiveUp
<1>3. <<c, target>> \in GivenUp' /\ <<c, target>> \notin GivenUp
  BY <1>1, <1>2 DEF GivenUp
<1>4. GivenUp \subseteq GivenUp'
  BY <1>2 DEF GivenUp
<1> QED
  BY <1>3, <1>4

\* Every step takes the planner closer to its end.
LEMMA StepProgress ==
  ASSUME IInv, AttemptInv, Next
  PROVE  \/ Worth' > Worth
         \/ /\ Worth' = Worth
            /\ \/ GivenUp \subseteq GivenUp' /\ GivenUp # GivenUp'
               \/ /\ GivenUp' = GivenUp
                  /\ \/ Aside \subseteq Aside' /\ Aside # Aside'
                     \/ Aside' = Aside /\ ToGo' < ToGo
<1>1. left \in Nat /\ MaxCandidates \in Nat
  BY OptionsAssumption DEF IInv, TypeOK
<1>2. metrics' = metrics => Worth' = Worth
  BY DEF Worth, Capped, Whs
<1>3. tried' = tried => GivenUp' = GivenUp
  BY DEF GivenUp
<1>4. set_aside' = set_aside => Aside' = Aside
  BY DEF Aside
<1>5. CASE Finish
  <2>1. ToGo' = 0 /\ ToGo = 2 * MaxCandidates + 6
    BY <1>5 DEF Finish, ToGo
  <2> QED
    BY <1>1, <1>2, <1>3, <1>4, <1>5, <2>1 DEF Finish
<1>6. CASE BeginHold
  <2>1. ToGo = 2 * MaxCandidates + 6 /\ ToGo' <= 2 * MaxCandidates + 4 /\ ToGo' \in Int
    BY <1>1, <1>6 DEF BeginHold, Choosing, ToGo
  <2> QED
    BY <1>1, <1>2, <1>3, <1>4, <1>6, <2>1 DEF BeginHold
<1>7. CASE BeginSetup
  <2>1. ToGo = 2 * MaxCandidates + 6 /\ ToGo' <= 2 * MaxCandidates + 4 /\ ToGo' \in Int
    BY <1>1, <1>7 DEF BeginSetup, Choosing, ToGo
  <2> QED
    BY <1>1, <1>2, <1>3, <1>4, <1>7, <2>1 DEF BeginSetup
<1>8. CASE Exhausted
  <2>1. PICK c \in Checks : Choosing(c) /\ set_aside' = [set_aside EXCEPT ![c] = TRUE]
    <3>1. CASE Choosing("hold")
      BY <1>8, <3>1 DEF Exhausted, Choosing, Checks
    <3>2. CASE Choosing("setup")
      BY <1>8, <3>2 DEF Exhausted, Choosing, Checks
    <3> QED
      BY <1>8, <3>1, <3>2 DEF Exhausted
  <2>2. ~set_aside[c]
    BY <2>1, ChosenNotAside
  <2>3. set_aside'[c] /\ \A d \in Checks : d # c => set_aside'[d] = set_aside[d]
    BY <2>1 DEF IInv, TypeOK
  <2>4. Aside \subseteq Aside' /\ Aside # Aside'
    BY <2>2, <2>3 DEF Aside
  <2> QED
    BY <1>2, <1>3, <1>8, <2>4 DEF Exhausted
<1>9. CASE TrySwap \/ TryUpsize
  <2>1. PICK mv : /\ Try(mv) /\ pc \in {"swap", "upsize"} /\ left > 0 /\ left' = left - 1
                  /\ mv.kind # "insert"
    BY <1>9 DEF TrySwap, TryUpsize
  <2>2. Candidate' = mv /\ pc' = "judge"
    BY <2>1, CandidateTried DEF Try, IInv
  <2>3. ToGo = 2 * left + 4 /\ ToGo' = 2 * left' + 5
    BY <2>1, <2>2 DEF ToGo
  <2> QED
    BY <1>1, <1>2, <1>3, <1>4, <2>1, <2>3 DEF Try
<1>10. CASE TryInsert
  <2>1. PICK mv : Try(mv) /\ pc = "insert" /\ mv.kind = "insert"
    BY <1>10 DEF TryInsert
  <2>2. Candidate' = mv /\ pc' = "judge"
    BY <2>1, CandidateTried DEF Try, IInv
  <2>3. ToGo = 3 /\ ToGo' = 2
    BY <2>1, <2>2 DEF ToGo
  <2> QED
    BY <1>2, <1>3, <1>4, <2>1, <2>3 DEF Try
<1>11. CASE SwapsSpent
  <2>1. ToGo = 4 /\ ToGo' = 3
    BY <1>11 DEF SwapsSpent, ToGo
  <2> QED
    BY <1>2, <1>3, <1>4, <1>11, <2>1 DEF SwapsSpent
<1>12. CASE InsertRefused
  <2>1. target \notin tried["hold"]
    BY <1>12 DEF InsertRefused, AttemptInv, Attempting
  <2> QED
    BY <1>2, <1>12, <2>1, GiveUpAdds DEF InsertRefused, Checks
<1>13. CASE UpsizesSpent
  <2>1. target \notin tried["setup"]
    BY <1>13 DEF UpsizesSpent, AttemptInv, Attempting
  <2> QED
    BY <1>2, <1>13, <2>1, GiveUpAdds DEF UpsizesSpent, Checks
<1>14. CASE UpdateFails
  <2>1. ToGo > 0 /\ ToGo' = 0
    BY <1>1, <1>14 DEF UpdateFails, ToGo
  <2> QED
    BY <1>2, <1>3, <1>4, <1>14, <2>1 DEF UpdateFails
<1>15. CASE Keep
  BY <1>15, KeepWorth
<1>16. CASE Revert
  <2>1. pc = "judge" /\ UNCHANGED <<left, set_aside, metrics, target>>
    BY <1>16 DEF Revert
  <2>2. CASE Candidate.kind = "insert"
    <3>1. GiveUp("hold") /\ target \notin tried["hold"]
      BY <1>16, <2>1, <2>2 DEF Revert, AttemptInv, Attempting
    <3> QED
      BY <1>2, <2>1, <3>1, GiveUpAdds DEF Checks
  <2>3. CASE Candidate.kind # "insert"
    <3>1. pc' \in {"swap", "upsize"} /\ UNCHANGED tried
      BY <1>16, <2>1, <2>3, Judged DEF Revert, Moves
    <3>2. ToGo = 2 * left + 5 /\ ToGo' = 2 * left + 4
      BY <2>1, <2>3, <3>1 DEF ToGo
    <3> QED
      BY <1>1, <1>2, <1>3, <1>4, <2>1, <3>1, <3>2
  <2> QED
    BY <2>2, <2>3
<1> QED
  BY <1>5, <1>6, <1>7, <1>8, <1>9, <1>10, <1>11, <1>12, <1>13, <1>14, <1>15, <1>16
  DEF Next, Attempt

-----------------------------------------------------------------------------
(* The theorems                                                            *)

\* The planner's variables have their types in every reachable state.
THEOREM PlannerTypes == Spec => []TypeOK
<1>1. IInv => TypeOK
  BY DEF IInv
<1> QED
  BY InitIInv, NextIInv, <1>1, PTL DEF Spec

\* Whatever is tried and rolled back, the timer holds exactly the plan's fixes and
\* the plan's slacks are the timer's (plan_repair and Plan::keep, repair.rs).
THEOREM PlanIsTheTimers == Spec => []PlanMatchesTimer
<1>1. IInv => PlanMatchesTimer
  BY DEF IInv
<1> QED
  BY InitIInv, NextIInv, <1>1, PTL DEF Spec

\* However the two checks' fixes alternate, and whatever an update may return,
\* neither check ends up violated by more than it began with but for the noise
\* threshold once per fix of the other (plan_repair and judge).
THEOREM HarmIsBounded == Spec => []HarmBounded
<1>1. BoundInv => HarmBounded
  BY DEF BoundInv, HarmBounded, LowWns, LowWhs
<1> QED
  BY InitIInv, NextIInv, InitBound, NextBound, <1>1, PTL DEF Spec

\* No inserted cell is given a name an earlier one has, so no site is given up on
\* because of a clash (`seq`, attempt_hold).
THEOREM NamesAreFresh == Spec => []FreshNames
<1>1. IInv => FreshNames
  <2> SUFFICES ASSUME IInv, pc # "judge", pc # "failed" PROVE seq \notin Names
    BY DEF FreshNames
  <2>1. netlist = Plan /\ seq \in Nat
    BY DEF IInv, PlanMatchesTimer, TypeOK, Plan
  <2>2. \A i \in DOMAIN netlist : netlist[i].name < seq
    BY <2>1 DEF Plan, IInv, NamesBelow
  <2> QED
    BY <2>1, <2>2 DEF Names
<1> QED
  BY InitIInv, NextIInv, <1>1, PTL DEF Spec

\* A plan that ends before its limit has given up on every site its checks still show
\* violated, also when a check set aside was revived by the other's fixes
\* (plan_repair, repair.rs).
THEOREM NothingIsLeft == Spec => []NothingLeftUntried
<1>1. DoneInv => NothingLeftUntried
  BY DEF DoneInv
<1> QED
  BY InitIInv, NextIInv, InitDone, NextDone, <1>1, PTL DEF Spec

\* No plan alternates between its two checks for ever: each step makes the plan worth
\* more, or gives up a site for good, or sets a check aside, or shortens the attempt
\* (plan_repair's note on termination, repair.rs).
THEOREM StepsProgress == Spec => EveryStepProgresses
<1>1. Init => AttemptInv
  BY DEF Init, AttemptInv, Attempting
<1>2. IInv /\ AttemptInv /\ [Next]_vars => AttemptInv'
  BY NextAttempt
<1>3. IInv /\ AttemptInv /\ [Next]_vars =>
        [ \/ Worth' > Worth
          \/ /\ Worth' = Worth
             /\ \/ GivenUp \subseteq GivenUp' /\ GivenUp # GivenUp'
                \/ /\ GivenUp' = GivenUp
                   /\ \/ Aside \subseteq Aside' /\ Aside # Aside'
                      \/ Aside' = Aside /\ ToGo' < ToGo ]_vars
  BY StepProgress
<1> QED
  BY InitIInv, NextIInv, <1>1, <1>2, <1>3, PTL DEF Spec, EveryStepProgresses

\* And what a plan may become worth is bounded: twice the noise (judge).
THEOREM WorthBounded == Spec => [](Worth <= 2 * Eps)
<1>1. IInv => Worth <= 2 * Eps
  <2> SUFFICES ASSUME IInv PROVE Worth <= 2 * Eps
    OBVIOUS
  <2>1. metrics.after \in Timings
    BY DEF IInv, TypeOK
  <2>2. Whs(metrics.after) \in Int /\ metrics.after.wns \in Int
    BY <2>1, WhsType, SlacksAssumption DEF Timings
  <2>3. \A s \in Int : Capped(s) \in Int /\ Capped(s) <= Eps
    BY SlacksAssumption DEF Capped
  <2> QED
    BY <2>2, <2>3, SlacksAssumption DEF Worth
<1> QED
  BY InitIInv, NextIInv, <1>1, PTL DEF Spec
=============================================================================
