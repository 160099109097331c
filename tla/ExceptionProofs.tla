--------------------------- MODULE ExceptionProofs ---------------------------
(***************************************************************************)
(* Proofs about which two clock edges a check is between, in FrontEnd.     *)
(* Timing exceptions, for every file of statements and every path: the     *)
(* scan has one winner, only a false path drops a check, the hold edge     *)
(* follows the setup edge, and the order of the file does not matter.      *)
(* Clock relations, for every two clocks: the walk over their cycles finds *)
(* the closest edges.                                                      *)
(***************************************************************************)
EXTENDS FrontEnd, LeastNatural

-----------------------------------------------------------------------------
(* Priorities                                                              *)

\* What the two checks add to a multicycle written for a check, both or the other.
Fit(e, side) ==
  IF Exc!MinMax(e) = "all" THEN 1 ELSE IF (Exc!MinMax(e) = "min") = side THEN 2 ELSE 0

\* An exception is written for setup, for hold or for both.
LEMMA MinMaxOf == \A e : Exc!MinMax(e) \in {"max", "min", "all"}
BY DEF Exc!MinMax

\* How specific the sides are is a multiple of four, at most 108.
LEMMA SpecificityOf == \A e : \E q \in 0 .. 27 : Exc!Specificity(e) = 4 * q
<1> SUFFICES ASSUME NEW e PROVE \E q \in 0 .. 27 : Exc!Specificity(e) = 4 * q
  OBVIOUS
<1> DEFINE a == Exc!HasObject(Exc!From(e))
           b == Exc!HasObject(Exc!To(e))
           c == Exc!HasClock(Exc!From(e))
           d == Exc!HasClock(Exc!To(e))
           q == (IF a THEN 16 ELSE 0) + (IF b THEN 8 ELSE 0) + (IF c THEN 2 ELSE 0) + (IF d THEN 1 ELSE 0)
<1>1. Exc!Specificity(e) = (IF a THEN 64 ELSE 0) + (IF b THEN 32 ELSE 0)
                             + (IF c THEN 8 ELSE 0) + (IF d THEN 4 ELSE 0)
  BY DEF Exc!Specificity, Exc!Bit
<1> HIDE DEF a, b, c, d
<1>2. q \in 0 .. 27 /\ Exc!Specificity(e) = 4 * q
  BY <1>1
<1> QED
  BY <1>2

\* A false path is above 4000, a multicycle between 2000 and 2110.
LEMMA PriorityOf ==
  ASSUME NEW e \in ExcStatements, NEW side \in BOOLEAN
  PROVE  /\ Exc!Priority(e, side) \in Int /\ Exc!Specificity(e) \in Int
         /\ e.kind = "false_path" => Exc!Priority(e, side) \in 4000 .. 4108
         /\ e.kind # "false_path" =>
              /\ e.kind = "multicycle" /\ Exc!Priority(e, side) \in 2000 .. 2110
              /\ Exc!Priority(e, side) = 2000 + Exc!Specificity(e) + Fit(e, side)
         /\ e.n \in Nat
<1>1. e.kind \in {"false_path", "multicycle"} /\ e.n \in Nat
  BY FrontEndAssumption DEF Exc!ConstantsOK
<1>2. PICK q \in 0 .. 27 : Exc!Specificity(e) = 4 * q
  BY SpecificityOf
<1>3. Fit(e, side) \in 0 .. 2
  BY DEF Fit
<1>4. Exc!Priority(e, side) =
        IF e.kind = "false_path" THEN 4000 + Exc!Specificity(e)
        ELSE 2000 + Exc!Specificity(e) + Fit(e, side)
  BY DEF Exc!Priority, Fit
<1> QED
  BY <1>1, <1>2, <1>3, <1>4

-----------------------------------------------------------------------------
(* The scan has one winner                                                 *)

\* A file of statements.
IsFile(file) == DOMAIN file \in SUBSET (Nat \ {0}) /\ \A k \in DOMAIN file : file[k] \in ExcStatements

\* Position i beats every other of K.
Wins(file, K, i, side) == i \in K /\ \A j \in K \ {i} : Exc!Beats(file, i, j, side)

\* Among the positions of highest priority all are false paths, and the first wins; or
\* all are multicycles, and the first of those with the smallest multiplier does.
LEMMA SomeoneWins ==
  ASSUME NEW file, IsFile(file), NEW K \in SUBSET DOMAIN file, K # {}, NEW side \in BOOLEAN
  PROVE  \E i \in K : Wins(file, K, i, side)
<1> DEFINE pri(i) == Exc!Priority(file[i], side)
           T == {5000 - pri(i) : i \in K}
<1>1. /\ K \in SUBSET Nat
      /\ \A i \in K : /\ file[i] \in ExcStatements /\ i \in Nat /\ pri(i) \in Int
                      /\ file[i].n \in Nat
                      /\ file[i].kind = "false_path" => pri(i) \in 4000 .. 4108
                      /\ file[i].kind # "false_path" =>
                           file[i].kind = "multicycle" /\ pri(i) \in 2000 .. 2110
  BY PriorityOf DEF IsFile
<1> HIDE DEF pri
<1>2. PICK h \in K : \A j \in K : pri(h) >= pri(j)
  <2>1. T \in SUBSET Nat /\ T # {}
    <3>1. \A i \in K : 5000 - pri(i) \in Nat
      BY <1>1
    <3> QED
      BY <3>1
  <2>2. PICK x \in T : \A y \in T : x <= y
    <3> HIDE DEF T
    <3> QED
      BY <2>1, LeastNat
  <2>3. PICK h \in K : x = 5000 - pri(h)
    OBVIOUS
  <2>4. \A j \in K : 5000 - pri(h) <= 5000 - pri(j)
    BY <2>2, <2>3
  <2> QED
    BY <1>1, <2>4
<1> DEFINE top == {i \in K : pri(i) = pri(h)}
<1>3. top \in SUBSET Nat /\ h \in top
  BY <1>1
<1>4. ASSUME NEW i \in top, NEW j \in K, j \notin top
      PROVE  pri(i) > pri(j)
  BY <1>1, <1>2, <1>4
<1>5. CASE file[h].kind = "false_path"
  <2>1. \A i \in top : file[i].kind = "false_path"
    BY <1>1, <1>5
  <2>2. PICK i \in top : \A j \in top : i <= j
    <3> HIDE DEF top
    <3> QED
      BY <1>3, LeastNat
  <2>3. ASSUME NEW j \in K \ {i}
        PROVE  Exc!Beats(file, i, j, side)
    <3>1. CASE j \notin top
      BY <1>4, <3>1 DEF Exc!Beats, pri
    <3>2. CASE j \in top
      <4>1. i < j
        BY <1>1, <2>2, <2>3, <3>2
      <4>2. pri(i) = pri(j) /\ file[i].kind # "multicycle"
        BY <2>1, <3>2
      <4> QED
        BY <4>1, <4>2 DEF Exc!Beats, pri
    <3> QED
      BY <3>1, <3>2
  <2> QED
    BY <2>3 DEF Wins
<1>6. CASE file[h].kind # "false_path"
  <2> DEFINE N == {file[i].n : i \in top}
  <2>1. \A i \in top : file[i].kind = "multicycle"
    BY <1>1, <1>6
  <2>2. N \in SUBSET Nat /\ N # {}
    BY <1>1, <1>3
  <2>3. PICK n \in N : \A y \in N : n <= y
    <3> HIDE DEF N
    <3> QED
      BY <2>2, LeastNat
  <2> DEFINE few == {i \in top : file[i].n = n}
  <2>4. few \in SUBSET Nat /\ few # {}
    BY <1>1
  <2>5. PICK i \in few : \A j \in few : i <= j
    <3> HIDE DEF few
    <3> QED
      BY <2>4, LeastNat
  <2>6. ASSUME NEW j \in K \ {i}
        PROVE  Exc!Beats(file, i, j, side)
    <3>1. CASE j \notin top
      BY <1>4, <3>1 DEF Exc!Beats, pri
    <3>2. CASE j \in top
      <4>1. /\ pri(i) = pri(j) /\ file[i].kind = "multicycle" /\ file[j].kind = "multicycle"
        BY <2>1, <3>2
      <4>2. file[i].n < file[j].n \/ (file[i].n = file[j].n /\ i < j)
        <5>1. CASE file[j].n = n
          BY <1>1, <2>5, <2>6, <3>2, <5>1
        <5>2. CASE file[j].n # n
          <6>1. n <= file[j].n /\ n \in Nat /\ file[j].n \in Nat
            BY <1>1, <2>2, <2>3, <3>2
          <6> QED
            BY <5>2, <6>1
        <5> QED
          BY <5>1, <5>2
      <4> QED
        BY <4>1, <4>2 DEF Exc!Beats, pri
    <3> QED
      BY <3>1, <3>2
  <2> QED
    BY <2>6 DEF Wins
<1> QED
  BY <1>5, <1>6

\* Two winners would beat each other.
LEMMA OneWins ==
  ASSUME NEW file, IsFile(file), NEW K \in SUBSET DOMAIN file, NEW side \in BOOLEAN,
         NEW i, NEW j, Wins(file, K, i, side), Wins(file, K, j, side)
  PROVE  i = j
<1> SUFFICES ASSUME i # j PROVE FALSE
  OBVIOUS
<1>1. Exc!Beats(file, i, j, side) /\ Exc!Beats(file, j, i, side)
  BY DEF Wins
<1>2. /\ Exc!Priority(file[i], side) \in Int /\ Exc!Priority(file[j], side) \in Int
      /\ file[i].n \in Nat /\ file[j].n \in Nat /\ i \in Nat /\ j \in Nat
  BY PriorityOf DEF IsFile, Wins
<1> QED
  BY <1>1, <1>2 DEF Exc!Beats

\* The exceptions of a file that can bear on a check of a path.
Candidates(file, skip, side, exactly, mcp_only, path) ==
  {i \in DOMAIN file \ skip :
     /\ Exc!MatchesCheck(file[i], side, exactly)
     /\ Exc!CoversPath(file[i], path)
     /\ mcp_only => file[i].kind = "multicycle"}

\* What Best picks is the winner.
LEMMA BestWins ==
  ASSUME NEW file, IsFile(file), NEW skip, NEW side \in BOOLEAN, NEW exactly \in BOOLEAN,
         NEW mcp_only \in BOOLEAN, NEW path
  PROVE  /\ Candidates(file, skip, side, exactly, mcp_only, path) \in SUBSET DOMAIN file
         /\ Exc!Best(file, skip, side, exactly, mcp_only, path) = 0 <=> Candidates(file, skip, side, exactly, mcp_only, path) = {}
         /\ Candidates(file, skip, side, exactly, mcp_only, path) # {} =>
              Wins(file, Candidates(file, skip, side, exactly, mcp_only, path),
                   Exc!Best(file, skip, side, exactly, mcp_only, path), side)
         /\ \A i : Wins(file, Candidates(file, skip, side, exactly, mcp_only, path), i, side) =>
              Exc!Best(file, skip, side, exactly, mcp_only, path) = i
<1> DEFINE K == Candidates(file, skip, side, exactly, mcp_only, path)
           best == Exc!Best(file, skip, side, exactly, mcp_only, path)
<1>1. best = IF K = {} THEN 0 ELSE CHOOSE i \in K : \A j \in K \ {i} : Exc!Beats(file, i, j, side)
  BY DEF Exc!Best, Candidates
<1>2. K \in SUBSET DOMAIN file
  BY DEF Candidates
<1> HIDE DEF K, best
<1>3. K # {} => Wins(file, K, best, side)
  <2> SUFFICES ASSUME K # {} PROVE Wins(file, K, best, side)
    OBVIOUS
  <2>1. \E i \in K : \A j \in K \ {i} : Exc!Beats(file, i, j, side)
    BY <1>2, SomeoneWins DEF Wins
  <2> QED
    BY <1>1, <2>1 DEF Wins
<1>4. \A i : Wins(file, K, i, side) => best = i
  <2> SUFFICES ASSUME NEW i, Wins(file, K, i, side) PROVE best = i
    OBVIOUS
  <2>1. K # {}
    BY DEF Wins
  <2> QED
    BY <1>2, <1>3, <2>1, OneWins
<1>5. best = 0 <=> K = {}
  <2>1. K # {} => best \in DOMAIN file
    BY <1>2, <1>3 DEF Wins
  <2>2. \A k \in DOMAIN file : k # 0
    BY DEF IsFile
  <2> QED
    BY <1>1, <2>1, <2>2
<1> QED
  BY <1>2, <1>3, <1>4, <1>5 DEF K, best

-----------------------------------------------------------------------------
(* The file read, and what it refuses                                      *)

ExcInv ==
  /\ exceptions \in Seq(ExcStatements)
  /\ refused = {k \in DOMAIN exceptions : Exc!Unmatchable(exceptions[k])}

\* An empty file has no exceptions (exc.rs).
LEMMA ExcInit == Exc!Init => ExcInv
BY DEF Exc!Init, ExcInv

\* A statement read is refused when it cannot be matched, whatever came before it.
LEMMA ExcStepInv == ExcInv /\ Exc!Next => ExcInv'
<1> SUFFICES ASSUME ExcInv, NEW e \in ExcStatements, Exc!State(e) PROVE ExcInv'
  BY DEF Exc!Next
<1> DEFINE t == Append(exceptions, e)
<1>1. /\ exceptions' = t /\ exceptions \in Seq(ExcStatements)
      /\ refused' = IF Exc!Unmatchable(e) THEN refused \cup {Len(t)} ELSE refused
      /\ refused = {k \in DOMAIN exceptions : Exc!Unmatchable(exceptions[k])}
  BY DEF Exc!State, ExcInv
<1>2. /\ t \in Seq(ExcStatements) /\ Len(t) = Len(exceptions) + 1 /\ Len(exceptions) \in Nat
      /\ DOMAIN t = 1 .. Len(t) /\ DOMAIN exceptions = 1 .. Len(exceptions)
      /\ t[Len(t)] = e /\ \A k \in DOMAIN exceptions : t[k] = exceptions[k]
  BY <1>1
<1>3. DOMAIN t = DOMAIN exceptions \cup {Len(t)}
  BY <1>2
<1> HIDE DEF t
<1>4. refused' = {k \in DOMAIN t : Exc!Unmatchable(t[k])}
  <2>1. \A k : k \in {h \in DOMAIN t : Exc!Unmatchable(t[h])} <=>
               \/ k \in DOMAIN exceptions /\ Exc!Unmatchable(exceptions[k])
               \/ k = Len(t) /\ Exc!Unmatchable(e)
    BY <1>2, <1>3
  <2> QED
    BY <1>1, <2>1
<1> QED
  BY <1>1, <1>2, <1>4 DEF ExcInv

\* The file and its refusals only move by their own steps.
LEMMA ExcSteps ==
  ASSUME [Next]_vars, reader' = "exceptions"
  PROVE  reader = "exceptions" /\ (Exc!Next \/ UNCHANGED ExcVars)
BY DEF Next, vars, DisStep, ChkStep, DelStep, ExcStep, LdStep, SiStep, CycStep, CmdStep, ScrStep

\* The invariant holds whenever the exceptions are the part at work.
LEMMA ExcAlways == Spec => [](reader = "exceptions" => ExcInv)
<1>1. Init => (reader = "exceptions" => ExcInv)
  BY ExcInit DEF Init
<1>2. (reader = "exceptions" => ExcInv) /\ [Next]_vars => (reader = "exceptions" => ExcInv)'
  <2>1. SUFFICES ASSUME reader = "exceptions" => ExcInv, [Next]_vars, reader' = "exceptions"
                 PROVE  ExcInv'
    OBVIOUS
  <2>2. ExcInv /\ (Exc!Next \/ UNCHANGED ExcVars)
    BY <2>1, ExcSteps
  <2>3. CASE UNCHANGED ExcVars
    BY <2>2, <2>3 DEF ExcVars, ExcInv
  <2> QED
    BY <2>2, <2>3, ExcStepInv
<1> QED
  BY <1>1, <1>2, PTL DEF Spec

\* Every exception of the file is a statement of one of the two kinds.
LEMMA FileRead ==
  ASSUME ExcInv
  PROVE  /\ IsFile(exceptions) /\ \A i \in DOMAIN exceptions : exceptions[i] \in ExcStatements
         /\ \A i \in DOMAIN exceptions : exceptions[i].kind \in {"false_path", "multicycle"}
BY FrontEndAssumption DEF ExcInv, IsFile, Exc!ConstantsOK

-----------------------------------------------------------------------------
(* What drops a check                                                      *)

\* The false paths that are candidates for a check are those written for it, and one
\* that is a candidate wins over every multicycle.
LEMMA ExcDropped == ExcInv => Exc!DroppedByFalsePathOnly
<1> SUFFICES ASSUME ExcInv, NEW path \in ExcPaths, NEW side \in BOOLEAN
             PROVE  Exc!Dropped(side, path) <=>
                      \E i \in DOMAIN exceptions \ refused :
                        /\ exceptions[i].kind = "false_path"
                        /\ Exc!MinMax(exceptions[i]) # (IF side THEN "max" ELSE "min")
                        /\ Exc!CoversPath(exceptions[i], path)
  BY DEF Exc!DroppedByFalsePathOnly
<1> DEFINE K == Candidates(exceptions, refused, side, FALSE, FALSE, path)
           best == Exc!Best(exceptions, refused, side, FALSE, FALSE, path)
<1>1. Exc!Dropped(side, path) <=> best # 0 /\ exceptions[best].kind = "false_path"
  BY DEF Exc!Dropped, Exc!DroppedIn
<1>2. IsFile(exceptions) /\ \A i \in DOMAIN exceptions : exceptions[i].kind \in {"false_path", "multicycle"}
  BY FileRead
<1>3. /\ K \in SUBSET DOMAIN exceptions
      /\ best = 0 <=> K = {}
      /\ K # {} => Wins(exceptions, K, best, side)
  <2>0. K \in SUBSET DOMAIN exceptions
    BY DEF Candidates
  <2>1. PICK no \in BOOLEAN : no = FALSE
    OBVIOUS
  <2> DEFINE Kn == Candidates(exceptions, refused, side, no, no, path)
             bn == Exc!Best(exceptions, refused, side, no, no, path)
  <2>2. /\ bn = 0 <=> Kn = {}
        /\ Kn # {} => Wins(exceptions, Kn, bn, side)
    BY <1>2, BestWins
  <2>3. Kn = K /\ bn = best
    BY <2>1, Zenon
  <2> HIDE DEF Kn, bn, K, best
  <2> QED
    BY <2>0, <2>2, <2>3
<1>4. ASSUME NEW i \in DOMAIN exceptions \ refused, exceptions[i].kind = "false_path"
      PROVE  i \in K <=> /\ Exc!MinMax(exceptions[i]) # (IF side THEN "max" ELSE "min")
                         /\ Exc!CoversPath(exceptions[i], path)
  BY <1>4, MinMaxOf DEF Candidates, Exc!MatchesCheck
<1>5. K \subseteq DOMAIN exceptions \ refused
  BY DEF Candidates
<1> HIDE DEF K, best
<1>6. ASSUME NEW i \in K, exceptions[i].kind = "false_path"
      PROVE  best # 0 /\ exceptions[best].kind = "false_path"
  <2>1. Wins(exceptions, K, best, side) /\ best # 0
    BY <1>3
  <2>2. CASE best = i
    BY <1>6, <2>1, <2>2
  <2>3. CASE best # i
    <3>1. Exc!Beats(exceptions, best, i, side) /\ best \in DOMAIN exceptions /\ i \in DOMAIN exceptions
      BY <1>3, <2>1, <2>3 DEF Wins
    <3>2. /\ Exc!Priority(exceptions[i], side) \in 4000 .. 4108
          /\ exceptions[best].kind # "false_path" => Exc!Priority(exceptions[best], side) \in 2000 .. 2110
      BY <1>2, <1>6, <3>1, PriorityOf DEF IsFile
    <3> QED
      BY <2>1, <3>1, <3>2 DEF Exc!Beats
  <2> QED
    BY <2>2, <2>3
<1> QED
  BY <1>1, <1>3, <1>4, <1>5, <1>6 DEF Wins

\* A false path written for a check drops it on every path it covers, however specific
\* the multicycles on that path are, and nothing else drops a check (exc.rs:245, 326).
THEOREM FalsePathsDrop == Spec => []DroppedByFalsePathOnly
<1>1. (reader = "exceptions" => ExcInv) => DroppedByFalsePathOnly
  BY ExcDropped DEF DroppedByFalsePathOnly
<1> QED
  BY <1>1, ExcAlways, PTL

-----------------------------------------------------------------------------
(* How the hold edge moves                                                 *)

\* The times a picked multicycle moves an edge by are whole numbers; one written for
\* both checks moves the hold edge by nothing of its own.
LEMMA TermsOf ==
  ASSUME NEW file, IsFile(file), NEW i, i = 0 \/ i \in DOMAIN file, NEW path \in ExcPaths
  PROVE  /\ Exc!SetupTerm(file, i, path) \in Int /\ Exc!HoldTerm(file, i, path) \in Int
         /\ (i # 0 => Exc!MinMax(file[i]) = "all") => Exc!HoldTerm(file, i, path) = 0
<1>1. CASE i = 0
  BY <1>1 DEF Exc!SetupTerm, Exc!HoldTerm
<1>2. CASE i # 0
  <2>1. /\ Exc!Multiplier(file[i], FALSE) \in Nat /\ Exc!Multiplier(file[i], TRUE) \in Nat
        /\ Exc!MinMax(file[i]) = "all" => Exc!Multiplier(file[i], TRUE) = 0
    BY <1>2, FrontEndAssumption DEF Exc!Multiplier, IsFile, Exc!ConstantsOK
  <2>2. Exc!Period(file[i], path) \in Nat
    BY FrontEndAssumption DEF Exc!Period, Exc!ConstantsOK
  <2>3. \A m \in Nat, p \in Nat : m * p \in Int /\ (m - 1) * p \in Int /\ 0 * p = 0
    OBVIOUS
  <2> QED
    BY <1>2, <2>1, <2>2, <2>3 DEF Exc!SetupTerm, Exc!HoldTerm
<1> QED
  BY <1>1, <1>2

\* A multicycle written for setup that wins the hold check wins the setup check too:
\* it is the worst fit there and the best fit here.
LEMMA HoldWinnerWinsSetup ==
  ASSUME NEW file, IsFile(file), NEW K \in SUBSET DOMAIN file, NEW i, Wins(file, K, i, TRUE),
         \A j \in K : file[j].kind = "multicycle" /\ Exc!MinMax(file[j]) \in {"max", "all"},
         Exc!MinMax(file[i]) = "max"
  PROVE  Wins(file, K, i, FALSE)
<1> SUFFICES ASSUME NEW j \in K \ {i} PROVE Exc!Beats(file, i, j, FALSE)
  BY DEF Wins
<1>1. Exc!Beats(file, i, j, TRUE) /\ i \in K
  BY DEF Wins
<1>2. PICK yes \in BOOLEAN, no \in BOOLEAN : yes = TRUE /\ no = FALSE
  OBVIOUS
<1>3. Exc!Beats(file, i, j, yes)
  BY <1>1, <1>2, Zenon
<1>4. ASSUME NEW k \in K, NEW h \in BOOLEAN
      PROVE  /\ Exc!Specificity(file[k]) \in Int /\ Fit(file[k], h) \in Int
             /\ Exc!Priority(file[k], h) = 2000 + Exc!Specificity(file[k]) + Fit(file[k], h)
  <2>1. file[k] \in ExcStatements /\ file[k].kind # "false_path"
    BY DEF IsFile
  <2> QED
    BY <2>1, PriorityOf DEF Fit
<1>5. ASSUME NEW k \in K
      PROVE  \/ Fit(file[k], yes) = 0 /\ Fit(file[k], no) = 2
             \/ Fit(file[k], yes) = 1 /\ Fit(file[k], no) = 1
  BY <1>2 DEF Fit
<1>6. Fit(file[i], yes) = 0 /\ Fit(file[i], no) = 2
  BY <1>2 DEF Fit
<1> DEFINE si == Exc!Specificity(file[i])
           sj == Exc!Specificity(file[j])
           hi == Exc!Priority(file[i], yes)
           hj == Exc!Priority(file[j], yes)
           gi == Exc!Priority(file[i], no)
           gj == Exc!Priority(file[j], no)
           fh == Fit(file[j], yes)
           fg == Fit(file[j], no)
<1>7. si \in Int /\ hi = 2000 + si + 0 /\ gi = 2000 + si + 2
  BY <1>1, <1>4, <1>6
<1>8. sj \in Int /\ hj = 2000 + sj + fh /\ gj = 2000 + sj + fg
  BY <1>4
<1>9. (fh = 0 /\ fg = 2) \/ (fh = 1 /\ fg = 1)
  BY <1>5
<1>10. /\ hi > hj => gi > gj
       /\ hi = hj => gi > gj \/ gi = gj
  <2> HIDE DEF si, sj, hi, hj, gi, gj, fh, fg
  <2> QED
    BY <1>7, <1>8, <1>9
<1>11. Exc!Beats(file, i, j, no)
  BY <1>3, <1>10 DEF Exc!Beats
<1> QED
  BY <1>2, <1>11, Zenon

\* With no multicycle for hold alone the two checks have the same candidates.
LEMMA ExcHold == ExcInv => Exc!HoldFollowsSetup
<1> SUFFICES ASSUME ExcInv, NEW path \in ExcPaths,
                    ~Exc!Dropped(TRUE, path), ~Exc!Dropped(FALSE, path),
                    \A i \in Exc!MulticyclesFor(TRUE, path) : Exc!MinMax(exceptions[i]) = "all"
             PROVE  Exc!Shift(TRUE, path) = Exc!Shift(FALSE, path)
  BY DEF Exc!HoldFollowsSetup
<1> DEFINE C(h, exactly, mcp) == Candidates(exceptions, refused, h, exactly, mcp, path)
           B(h, exactly, mcp) == Exc!Best(exceptions, refused, h, exactly, mcp, path)
           M == {i \in DOMAIN exceptions \ refused :
                   exceptions[i].kind = "multicycle" /\ Exc!CoversPath(exceptions[i], path)}
           late == B(FALSE, FALSE, FALSE)
           early == B(TRUE, FALSE, FALSE)
           again == B(FALSE, TRUE, TRUE)
           both == B(TRUE, TRUE, TRUE)
           st(i) == Exc!SetupTerm(exceptions, i, path)
           ht(i) == Exc!HoldTerm(exceptions, i, path)
<1>1. IsFile(exceptions) /\ \A i \in DOMAIN exceptions : exceptions[i].kind \in {"false_path", "multicycle"}
  BY FileRead
<1>2. M \in SUBSET DOMAIN exceptions
  OBVIOUS
<1>3. \A i \in M : exceptions[i].kind = "multicycle" /\ Exc!MinMax(exceptions[i]) \in {"max", "all"}
  BY MinMaxOf DEF Exc!MulticyclesFor
<1>4. ASSUME NEW i \in DOMAIN exceptions \ refused, exceptions[i].kind = "false_path",
             Exc!CoversPath(exceptions[i], path)
      PROVE  FALSE
  <2>1. /\ ~(Exc!MinMax(exceptions[i]) # "max") /\ ~(Exc!MinMax(exceptions[i]) # "min")
    BY <1>4, ExcDropped DEF Exc!DroppedByFalsePathOnly
  <2> QED
    BY <2>1
<1>5. C(FALSE, FALSE, FALSE) = M
  <2>1. \A i \in DOMAIN exceptions \ refused : i \in C(FALSE, FALSE, FALSE) => i \in M
    BY <1>1, <1>4 DEF Candidates
  <2>2. \A i \in M : i \in C(FALSE, FALSE, FALSE)
    BY <1>3 DEF Candidates, Exc!MatchesCheck
  <2> QED
    BY <2>1, <2>2 DEF Candidates
<1>6. C(TRUE, FALSE, FALSE) = M
  <2>1. \A i \in DOMAIN exceptions \ refused : i \in C(TRUE, FALSE, FALSE) => i \in M
    BY <1>1, <1>4 DEF Candidates
  <2>2. \A i \in M : i \in C(TRUE, FALSE, FALSE)
    BY <1>3 DEF Candidates, Exc!MatchesCheck
  <2> QED
    BY <2>1, <2>2 DEF Candidates
<1>7. C(FALSE, TRUE, TRUE) = M
  <2>1. \A i \in M : i \in C(FALSE, TRUE, TRUE)
    BY <1>3 DEF Candidates, Exc!MatchesCheck
  <2> QED
    BY <2>1 DEF Candidates
<1>8. \A i \in C(TRUE, TRUE, TRUE) : Exc!MinMax(exceptions[i]) = "all"
  BY <1>3 DEF Candidates, Exc!MatchesCheck
<1>9. /\ M = {} => late = 0 /\ early = 0
      /\ M # {} => /\ Wins(exceptions, M, late, FALSE) /\ Wins(exceptions, M, early, TRUE)
                   /\ late # 0 /\ early # 0
      /\ again = late
  <2>1. /\ late = 0 <=> M = {}
        /\ M # {} => Wins(exceptions, M, late, FALSE)
    <3> DEFINE K == C(FALSE, FALSE, FALSE)
    <3>1. /\ late = 0 <=> K = {}
          /\ K # {} => Wins(exceptions, K, late, FALSE)
      BY <1>1, BestWins
    <3>2. K = M
      BY <1>5
    <3> HIDE DEF K, late, M
    <3> QED
      BY <3>1, <3>2
  <2>2. /\ early = 0 <=> M = {}
        /\ M # {} => Wins(exceptions, M, early, TRUE)
    <3> DEFINE K == C(TRUE, FALSE, FALSE)
    <3>1. /\ early = 0 <=> K = {}
          /\ K # {} => Wins(exceptions, K, early, TRUE)
      BY <1>1, BestWins
    <3>2. K = M
      BY <1>6
    <3> HIDE DEF K, early, M
    <3> QED
      BY <3>1, <3>2
  <2>3. /\ again = 0 <=> M = {}
        /\ \A i : Wins(exceptions, M, i, FALSE) => again = i
    <3> DEFINE K == C(FALSE, TRUE, TRUE)
    <3>1. /\ again = 0 <=> K = {}
          /\ \A i : Wins(exceptions, K, i, FALSE) => again = i
      BY <1>1, BestWins
    <3>2. K = M
      BY <1>7
    <3> HIDE DEF K, again, M
    <3> QED
      BY <3>1, <3>2
  <2> QED
    BY <2>1, <2>2, <2>3
<1>10. both = 0 \/ (both \in DOMAIN exceptions /\ Exc!MinMax(exceptions[both]) = "all")
  <2> DEFINE K == C(TRUE, TRUE, TRUE)
  <2>1. /\ K \in SUBSET DOMAIN exceptions
        /\ both = 0 <=> K = {}
        /\ K # {} => Wins(exceptions, K, both, TRUE)
    BY <1>1, BestWins
  <2>2. \A i \in K : Exc!MinMax(exceptions[i]) = "all"
    BY <1>8
  <2> HIDE DEF K, both
  <2> QED
    BY <2>1, <2>2 DEF Wins
<1>11. /\ Exc!Shift(FALSE, path) = IF late = 0 THEN 0 ELSE st(late)
       /\ Exc!Shift(TRUE, path) =
            IF early = 0 THEN 0
            ELSE IF Exc!MinMax(exceptions[early]) # "max" THEN st(again) - ht(early)
                 ELSE st(early) - ht(both)
  BY DEF Exc!Shift, Exc!ShiftIn
<1> HIDE DEF C, B, M, late, early, st, ht, again, both
<1>12. CASE M = {}
  BY <1>9, <1>11, <1>12
<1>13. CASE M # {}
  <2>1. late \in M /\ early \in M
    BY <1>9, <1>13 DEF Wins
  <2>2. st(late) \in Int
    BY <1>1, <1>2, <2>1, TermsOf DEF st
  <2>3. CASE Exc!MinMax(exceptions[early]) # "max"
    <3>1. ht(early) = 0
      <4>1. Exc!MinMax(exceptions[early]) = "all"
        BY <1>3, <2>1, <2>3
      <4> QED
        BY <1>1, <1>2, <2>1, <4>1, TermsOf DEF ht
    <3>2. Exc!Shift(TRUE, path) = st(late) - 0
      BY <1>9, <1>11, <1>13, <2>3, <3>1
    <3>3. Exc!Shift(FALSE, path) = st(late)
      BY <1>9, <1>11, <1>13
    <3>4. st(late) - 0 = st(late)
      BY <2>2
    <3> QED
      BY <3>2, <3>3, <3>4, Zenon
  <2>4. CASE Exc!MinMax(exceptions[early]) = "max"
    <3>1. Wins(exceptions, M, early, FALSE)
      BY <1>1, <1>2, <1>3, <1>9, <1>13, <2>4, HoldWinnerWinsSetup
    <3>2. early = late
      BY <1>1, <1>2, <1>9, <1>13, <3>1, OneWins
    <3>3. ht(both) = 0
      BY <1>1, <1>10, TermsOf DEF ht
    <3>4. Exc!Shift(TRUE, path) = st(late) - 0
      BY <1>9, <1>11, <1>13, <2>4, <3>2, <3>3
    <3>5. Exc!Shift(FALSE, path) = st(late)
      BY <1>9, <1>11, <1>13
    <3>6. st(late) - 0 = st(late)
      BY <2>2
    <3> QED
      BY <3>4, <3>5, <3>6, Zenon
  <2> QED
    BY <2>3, <2>4
<1> QED
  BY <1>12, <1>13

\* On a path both of whose checks are made and no multicycle is written for hold alone,
\* the two capture edges move by the very same time, whichever multicycles the two
\* checks pick ("the setup multicycle moves the hold edge with it", exc.rs:323).
THEOREM HoldFollows == Spec => []HoldFollowsSetup
<1>1. (reader = "exceptions" => ExcInv) => HoldFollowsSetup
  BY ExcHold DEF HoldFollowsSetup
<1> QED
  BY <1>1, ExcAlways, PTL

-----------------------------------------------------------------------------
(* The order of the file                                                   *)

\* A file with its position n and the one before it exchanged, and where each goes.
Swapped(file, n) ==
  [k \in DOMAIN file |-> IF k = n THEN file[n - 1] ELSE IF k = n - 1 THEN file[n] ELSE file[k]]
Moved(n, k) == IF k = n THEN n - 1 ELSE IF k = n - 1 THEN n ELSE k

\* Two statements that do the same to a check they are picked for.
Alike(a, b) ==
  /\ a.kind = b.kind
  /\ a.kind = "multicycle" =>
       a.n = b.n /\ Exc!MinMax(a) = Exc!MinMax(b) /\ Exc!EndClk(a) = Exc!EndClk(b)

\* Two multicycles on a path that the scan cannot tell apart count different clocks.
Contrary(a, b, path) ==
  \E h \in BOOLEAN :
    /\ a.kind = "multicycle" /\ b.kind = "multicycle"
    /\ Exc!CoversPath(a, path) /\ Exc!CoversPath(b, path)
    /\ a.n = b.n /\ Exc!Priority(a, h) = Exc!Priority(b, h)
    /\ Exc!EndClk(a) # Exc!EndClk(b)

\* Two multicycles of one priority are written for the same checks: how specific their
\* sides are differs by fours, how well they fit by at most two.
LEMMA SamePriority ==
  ASSUME NEW a \in ExcStatements, NEW b \in ExcStatements, NEW h \in BOOLEAN,
         Exc!Priority(a, h) = Exc!Priority(b, h)
  PROVE  /\ a.kind = b.kind
         /\ a.kind = "multicycle" => Exc!MinMax(a) = Exc!MinMax(b)
<1>1. a.kind \in {"false_path", "multicycle"} /\ b.kind \in {"false_path", "multicycle"}
  BY FrontEndAssumption DEF Exc!ConstantsOK
<1>2. a.kind = b.kind
  <2>1. /\ a.kind = "false_path" => Exc!Priority(a, h) \in 4000 .. 4108
        /\ a.kind = "multicycle" => Exc!Priority(a, h) \in 2000 .. 2110
        /\ b.kind = "false_path" => Exc!Priority(b, h) \in 4000 .. 4108
        /\ b.kind = "multicycle" => Exc!Priority(b, h) \in 2000 .. 2110
    BY PriorityOf
  <2> QED
    BY <1>1, <2>1
<1>3. ASSUME a.kind = "multicycle"
      PROVE  Exc!MinMax(a) = Exc!MinMax(b)
  <2>1. PICK qa \in 0 .. 27, qb \in 0 .. 27 :
          Exc!Specificity(a) = 4 * qa /\ Exc!Specificity(b) = 4 * qb
    BY SpecificityOf
  <2> DEFINE fa == Fit(a, h)
             fb == Fit(b, h)
             pa == Exc!Priority(a, h)
             pb == Exc!Priority(b, h)
  <2>2. pa = 2000 + 4 * qa + fa /\ pb = 2000 + 4 * qb + fb /\ pa = pb
    BY <1>2, <1>3, <2>1, PriorityOf
  <2>3. fa \in 0 .. 2 /\ fb \in 0 .. 2
    BY DEF Fit
  <2>4. fa = fb
    <3> HIDE DEF fa, fb, pa, pb
    <3> QED
      BY <2>2, <2>3
  <2> QED
    BY <2>4, MinMaxOf DEF Fit
<1> QED
  BY <1>2, <1>3

\* Where the winner goes: with its statement; or, tied with the neighbour it was before,
\* the neighbour that is first now wins, and does the same.
LEMMA SwapWins ==
  ASSUME NEW file, IsFile(file), NEW n \in DOMAIN file, n - 1 \in DOMAIN file,
         NEW K \in SUBSET DOMAIN file, NEW side \in BOOLEAN, NEW i, Wins(file, K, i, side),
         NEW path, \A k \in K : Exc!CoversPath(file[k], path),
         ~Contrary(file[n - 1], file[n], path)
  PROVE  \E j : /\ Wins(Swapped(file, n), {Moved(n, k) : k \in K}, j, side)
                /\ Alike(file[i], Swapped(file, n)[j])
<1> DEFINE t == Swapped(file, n)
           L == {Moved(n, k) : k \in K}
           pri(k) == Exc!Priority(file[k], side)
           tied == /\ pri(n - 1) = pri(n)
                   /\ file[n].kind = "multicycle" => file[n - 1].n = file[n].n
<1>1. DOMAIN file \in SUBSET Nat /\ n \in Nat /\ n - 1 \in Nat /\ n - 1 < n
  BY DEF IsFile
<1>2. /\ \A k \in DOMAIN file : t[Moved(n, k)] = file[k] /\ Moved(n, k) \in DOMAIN file
      /\ Moved(n, n) = n - 1 /\ Moved(n, n - 1) = n
      /\ \A k \in DOMAIN file \ {n - 1, n} : Moved(n, k) = k
  BY <1>1 DEF Swapped, Moved
<1>3. \A k \in DOMAIN file : pri(k) \in Int /\ file[k].n \in Nat /\ file[k] \in ExcStatements
  BY PriorityOf DEF IsFile
<1>4. i \in K /\ i \in DOMAIN file /\ \A m \in K \ {i} : Exc!Beats(file, i, m, side)
  BY DEF Wins
<1>5. pri(n - 1) = pri(n) =>
        /\ file[n - 1].kind = file[n].kind
        /\ file[n].kind = "multicycle" => Exc!MinMax(file[n - 1]) = Exc!MinMax(file[n])
  BY <1>3, SamePriority
<1> HIDE DEF t
<1>6. CASE i \in {n - 1, n} /\ n - 1 \in K /\ n \in K /\ tied
  <2>1. i = n - 1
    <3> SUFFICES ASSUME i = n PROVE FALSE
      BY <1>6
    <3>1. Exc!Beats(file, n, n - 1, side)
      BY <1>1, <1>4, <1>6
    <3> QED
      BY <1>1, <1>3, <1>5, <1>6, <3>1 DEF Exc!Beats
  <2>2. t[n - 1] = file[n] /\ t[n] = file[n - 1]
    BY <1>2
  <2>3. ASSUME NEW l \in L \ {n - 1}
        PROVE  Exc!Beats(t, n - 1, l, side)
    <3>1. PICK m \in K : l = Moved(n, m)
      OBVIOUS
    <3>2. m # n
      BY <1>2, <2>3, <3>1
    <3>3. CASE m = n - 1
      <4>1. l = n
        BY <1>2, <3>1, <3>3
      <4> QED
        BY <1>1, <1>3, <1>5, <1>6, <2>2, <4>1 DEF Exc!Beats
    <3>4. CASE m # n - 1
      <4>1. l = m /\ t[m] = file[m]
        BY <1>2, <3>1, <3>2, <3>4
      <4>2. Exc!Beats(file, n - 1, m, side)
        BY <1>4, <2>1, <3>4
      <4> QED
        BY <1>5, <1>6, <2>2, <4>1, <4>2 DEF Exc!Beats
    <3> QED
      BY <3>3, <3>4
  <2>4. Wins(t, L, n - 1, side)
    <3>1. n - 1 \in L
      BY <1>2, <1>6
    <3> QED
      BY <2>3, <3>1 DEF Wins
  <2>5. Alike(file[i], t[n - 1])
    BY <1>5, <1>6, <2>1, <2>2 DEF Alike, Contrary
  <2> QED
    BY <2>4, <2>5 DEF t
<1>7. CASE ~(i \in {n - 1, n} /\ n - 1 \in K /\ n \in K /\ tied)
  <2> DEFINE j == Moved(n, i)
  <2>1. ASSUME NEW m \in K \ {i}
        PROVE  Exc!Beats(t, j, Moved(n, m), side)
    <3>1. /\ Exc!Beats(file, i, m, side) /\ m \in DOMAIN file
          /\ t[j] = file[i] /\ t[Moved(n, m)] = file[m]
      BY <1>2, <1>4
    <3>2. i \in Nat /\ m \in Nat /\ i # m
      BY <1>1, <1>4
    <3>3. CASE i \in {n - 1, n} /\ m \in {n - 1, n}
      <4>1. (i = n /\ m = n - 1) \/ (i = n - 1 /\ m = n)
        BY <3>2, <3>3
      <4>2. ~tied
        BY <1>4, <1>7, <2>1, <4>1
      <4>3. /\ pri(i) = pri(m) => file[i].kind = file[m].kind
            /\ ~(pri(i) = pri(m) /\ (file[i].kind = "multicycle" => file[i].n = file[m].n))
        BY <1>5, <4>1, <4>2
      <4> QED
        BY <1>3, <1>4, <3>1, <4>3 DEF Exc!Beats
    <3>4. CASE ~(i \in {n - 1, n} /\ m \in {n - 1, n})
      <4>1. i < m => j < Moved(n, m)
        BY <1>1, <3>2, <3>4 DEF Moved
      <4> QED
        BY <3>1, <4>1 DEF Exc!Beats
    <3> QED
      BY <3>3, <3>4
  <2>2. Wins(t, L, j, side)
    <3>1. j \in L
      BY <1>4
    <3> HIDE DEF j
    <3> QED
      BY <2>1, <3>1 DEF Wins, j
  <2>3. Alike(file[i], t[j])
    BY <1>2, <1>4 DEF Alike
  <2> QED
    BY <2>2, <2>3 DEF t
<1> QED
  BY <1>6, <1>7

\* What one file's pick and the other's have in common.
SamePick(file, i, other, j, multi) ==
  /\ i = 0 <=> j = 0
  /\ i # 0 => /\ i \in DOMAIN file /\ j \in DOMAIN other /\ Alike(file[i], other[j])
              /\ multi => file[i].kind = "multicycle"

\* The candidates move with their statements, so the picks are alike.
LEMMA PickSwapped ==
  ASSUME NEW file, IsFile(file), NEW n \in DOMAIN file, n - 1 \in DOMAIN file,
         NEW path, ~Contrary(file[n - 1], file[n], path),
         NEW skip, NEW skipped, \A k \in DOMAIN file : Moved(n, k) \in skipped <=> k \in skip,
         NEW side \in BOOLEAN, NEW exactly \in BOOLEAN, NEW multi \in BOOLEAN
  PROVE  SamePick(file, Exc!Best(file, skip, side, exactly, multi, path),
                  Swapped(file, n), Exc!Best(Swapped(file, n), skipped, side, exactly, multi, path),
                  multi)
<1> DEFINE t == Swapped(file, n)
           K == Candidates(file, skip, side, exactly, multi, path)
           L == Candidates(t, skipped, side, exactly, multi, path)
           i == Exc!Best(file, skip, side, exactly, multi, path)
           j == Exc!Best(t, skipped, side, exactly, multi, path)
<1>1. /\ DOMAIN t = DOMAIN file
      /\ \A k \in DOMAIN file : /\ t[Moved(n, k)] = file[k] /\ Moved(n, k) \in DOMAIN file
                                /\ Moved(n, Moved(n, k)) = k
  BY DEF Swapped, Moved, IsFile
<1>2. IsFile(t)
  BY DEF Swapped, IsFile
<1> HIDE DEF t
<1>3. L = {Moved(n, k) : k \in K}
  <2>1. ASSUME NEW k \in DOMAIN file
        PROVE  k \in K <=> Moved(n, k) \in L
    BY <1>1 DEF Candidates
  <2>2. \A l \in L : l \in DOMAIN file /\ l = Moved(n, Moved(n, l)) /\ Moved(n, l) \in DOMAIN file
    BY <1>1 DEF Candidates
  <2>3. K \subseteq DOMAIN file
    BY DEF Candidates
  <2> HIDE DEF K, L
  <2> QED
    BY <2>1, <2>2, <2>3
<1>4. /\ K \in SUBSET DOMAIN file
      /\ i = 0 <=> K = {}
      /\ K # {} => Wins(file, K, i, side)
  <2>1. K \in SUBSET DOMAIN file
    BY BestWins
  <2>2. i = 0 <=> K = {}
    BY BestWins, SMTT(60)
  <2>3. K # {} => Wins(file, K, i, side)
    BY BestWins
  <2> QED
    BY <2>1, <2>2, <2>3
<1>5. /\ L \in SUBSET DOMAIN t
      /\ j = 0 <=> L = {}
      /\ L # {} => Wins(t, L, j, side)
      /\ \A l : Wins(t, L, l, side) => j = l
  BY <1>2, BestWins, SMTT(40)
<1>6. \A k \in K : Exc!CoversPath(file[k], path) /\ (multi => file[k].kind = "multicycle")
  BY DEF Candidates
<1> HIDE DEF K, L, i, j
<1>7. CASE K = {}
  <2>1. L = {}
    BY <1>3, <1>7
  <2> QED
    BY <1>4, <1>5, <1>7, <2>1 DEF SamePick, t, i, j
<1>8. CASE K # {}
  <2>1. L # {}
    BY <1>3, <1>8
  <2>2. Wins(file, K, i, side) /\ i # 0 /\ i \in K /\ j # 0 /\ j \in L
    BY <1>4, <1>5, <1>8, <2>1 DEF Wins
  <2>3. PICK l : Wins(t, L, l, side) /\ Alike(file[i], t[l])
    BY <1>3, <1>4, <1>6, <2>2, SwapWins DEF t
  <2>4. j = l
    BY <1>5, <2>3
  <2> QED
    BY <1>1, <1>4, <1>5, <1>6, <2>2, <2>3, <2>4 DEF SamePick, t, i, j
<1> QED
  BY <1>7, <1>8

\* Picks that are alike move an edge by the same time.
LEMMA SameTerms ==
  ASSUME NEW file, NEW i, NEW other, NEW j, NEW path, i = 0 <=> j = 0,
         i # 0 => Alike(file[i], other[j]) /\ file[i].kind = "multicycle"
  PROVE  /\ Exc!SetupTerm(file, i, path) = Exc!SetupTerm(other, j, path)
         /\ Exc!HoldTerm(file, i, path) = Exc!HoldTerm(other, j, path)
<1>1. CASE i = 0
  BY <1>1 DEF Exc!SetupTerm, Exc!HoldTerm
<1>2. CASE i # 0
  <2>1. /\ Exc!Multiplier(file[i], FALSE) = Exc!Multiplier(other[j], FALSE)
        /\ Exc!Multiplier(file[i], TRUE) = Exc!Multiplier(other[j], TRUE)
    BY <1>2 DEF Alike, Exc!Multiplier
  <2>2. Exc!Period(file[i], path) = Exc!Period(other[j], path)
    BY <1>2 DEF Alike, Exc!Period
  <2> QED
    BY <1>2, <2>1, <2>2, Zenon DEF Exc!SetupTerm, Exc!HoldTerm
<1> QED
  BY <1>1, <1>2

\* A check is dropped or moved alike by a file and by one with two neighbours exchanged.
LEMMA ExcOrder == ExcInv => Exc!OrderImmaterial
<1> SUFFICES ASSUME ExcInv, NEW n \in 2 .. Len(exceptions), NEW path \in ExcPaths, NEW side \in BOOLEAN
             PROVE  LET swapped == [k \in DOMAIN exceptions |->
                                      IF k = n THEN exceptions[n - 1]
                                      ELSE IF k = n - 1 THEN exceptions[n] ELSE exceptions[k]]
                        skip == {k \in DOMAIN swapped : Exc!Unmatchable(swapped[k])}
                    IN (\E h \in BOOLEAN : Exc!Contradict(n - 1, n, h, path)) \/
                       /\ Exc!DroppedIn(swapped, skip, side, path) <=> Exc!Dropped(side, path)
                       /\ \/ Exc!Dropped(side, path)
                          \/ Exc!ShiftIn(swapped, skip, side, path) = Exc!Shift(side, path)
  BY DEF Exc!OrderImmaterial
<1> DEFINE t == Swapped(exceptions, n)
           skip == {k \in DOMAIN t : Exc!Unmatchable(t[k])}
<1>1. /\ IsFile(exceptions) /\ n \in DOMAIN exceptions /\ n - 1 \in DOMAIN exceptions
      /\ \A k \in DOMAIN exceptions : exceptions[k].kind \in {"false_path", "multicycle"}
  BY FileRead DEF ExcInv
<1>2. SUFFICES ASSUME ~Contrary(exceptions[n - 1], exceptions[n], path)
               PROVE  /\ Exc!DroppedIn(t, skip, side, path) <=> Exc!DroppedIn(exceptions, refused, side, path)
                      /\ \/ Exc!DroppedIn(exceptions, refused, side, path)
                         \/ Exc!ShiftIn(t, skip, side, path) = Exc!ShiftIn(exceptions, refused, side, path)
  BY DEF Contrary, Exc!Contradict, Swapped, Exc!Dropped, Exc!Shift
<1>3. \A k \in DOMAIN exceptions : Moved(n, k) \in skip <=> k \in refused
  BY <1>1 DEF ExcInv, Swapped, Moved, IsFile
<1> HIDE DEF t, skip
<1>4. PICK yes \in BOOLEAN, no \in BOOLEAN : yes = TRUE /\ no = FALSE
  OBVIOUS
<1> DEFINE old(h, x) == Exc!Best(exceptions, refused, h, x, x, path)
           new(h, x) == Exc!Best(t, skip, h, x, x, path)
<1>5. ASSUME NEW h \in BOOLEAN, NEW x \in BOOLEAN
      PROVE  SamePick(exceptions, old(h, x), t, new(h, x), x)
  BY <1>1, <1>2, <1>3, PickSwapped DEF t
<1> DEFINE i == old(side, no)
           j == new(side, no)
           is == old(no, yes)
           js == new(no, yes)
           ih == old(yes, yes)
           jh == new(yes, yes)
<1>6. /\ SamePick(exceptions, i, t, j, no) /\ SamePick(exceptions, is, t, js, yes)
      /\ SamePick(exceptions, ih, t, jh, yes)
  <2> HIDE DEF old, new
  <2> QED
    BY <1>5
<1>7. /\ Exc!Best(exceptions, refused, side, FALSE, FALSE, path) = i
      /\ Exc!Best(t, skip, side, FALSE, FALSE, path) = j
      /\ Exc!Best(exceptions, refused, FALSE, TRUE, TRUE, path) = is
      /\ Exc!Best(t, skip, FALSE, TRUE, TRUE, path) = js
      /\ Exc!Best(exceptions, refused, TRUE, TRUE, TRUE, path) = ih
      /\ Exc!Best(t, skip, TRUE, TRUE, TRUE, path) = jh
  BY <1>4, Zenon
<1> HIDE DEF old, new, i, j, is, js, ih, jh
<1>8. /\ Exc!DroppedIn(exceptions, refused, side, path) <=> i # 0 /\ exceptions[i].kind = "false_path"
      /\ Exc!DroppedIn(t, skip, side, path) <=> j # 0 /\ t[j].kind = "false_path"
  BY <1>7, Zenon DEF Exc!DroppedIn
<1>9. /\ Exc!ShiftIn(exceptions, refused, side, path) =
           IF i = 0 THEN 0 ELSE IF ~side THEN Exc!SetupTerm(exceptions, i, path)
           ELSE IF Exc!MinMax(exceptions[i]) # "max"
                THEN Exc!SetupTerm(exceptions, is, path) - Exc!HoldTerm(exceptions, i, path)
                ELSE Exc!SetupTerm(exceptions, i, path) - Exc!HoldTerm(exceptions, ih, path)
      /\ Exc!ShiftIn(t, skip, side, path) =
           IF j = 0 THEN 0 ELSE IF ~side THEN Exc!SetupTerm(t, j, path)
           ELSE IF Exc!MinMax(t[j]) # "max"
                THEN Exc!SetupTerm(t, js, path) - Exc!HoldTerm(t, j, path)
                ELSE Exc!SetupTerm(t, j, path) - Exc!HoldTerm(t, jh, path)
  BY <1>7, Zenon DEF Exc!ShiftIn
<1>10. Exc!DroppedIn(t, skip, side, path) <=> Exc!DroppedIn(exceptions, refused, side, path)
  BY <1>6, <1>8 DEF SamePick, Alike
<1>11. ASSUME ~Exc!DroppedIn(exceptions, refused, side, path)
       PROVE  Exc!ShiftIn(t, skip, side, path) = Exc!ShiftIn(exceptions, refused, side, path)
  <2>1. /\ Exc!SetupTerm(exceptions, is, path) = Exc!SetupTerm(t, js, path)
        /\ Exc!HoldTerm(exceptions, ih, path) = Exc!HoldTerm(t, jh, path)
    <3>1. /\ is = 0 <=> js = 0
          /\ is # 0 => Alike(exceptions[is], t[js]) /\ exceptions[is].kind = "multicycle"
      BY <1>4, <1>6 DEF SamePick
    <3>2. /\ ih = 0 <=> jh = 0
          /\ ih # 0 => Alike(exceptions[ih], t[jh]) /\ exceptions[ih].kind = "multicycle"
      BY <1>4, <1>6 DEF SamePick
    <3>3. Exc!SetupTerm(exceptions, is, path) = Exc!SetupTerm(t, js, path)
      BY <3>1, SameTerms
    <3>4. Exc!HoldTerm(exceptions, ih, path) = Exc!HoldTerm(t, jh, path)
      BY <3>2, SameTerms
    <3> QED
      BY <3>3, <3>4
  <2>2. i # 0 => exceptions[i].kind = "multicycle" /\ Alike(exceptions[i], t[j])
    BY <1>1, <1>6, <1>8, <1>11 DEF SamePick
  <2>3. i = 0 <=> j = 0
    BY <1>6 DEF SamePick
  <2>4. /\ Exc!SetupTerm(exceptions, i, path) = Exc!SetupTerm(t, j, path)
        /\ Exc!HoldTerm(exceptions, i, path) = Exc!HoldTerm(t, j, path)
    BY <2>2, <2>3, SameTerms
  <2>5. i # 0 => Exc!MinMax(exceptions[i]) = Exc!MinMax(t[j])
    BY <2>2 DEF Alike
  <2>6. CASE i = 0
    BY <1>9, <2>3, <2>6
  <2>7. CASE i # 0
    <3>1. Exc!MinMax(t[j]) = Exc!MinMax(exceptions[i]) /\ j # 0
      BY <2>3, <2>5, <2>7
    <3>2. CASE ~side
      BY <1>9, <2>4, <2>7, <3>1, <3>2
    <3>3. CASE side /\ Exc!MinMax(exceptions[i]) # "max"
      <4>1. /\ Exc!ShiftIn(exceptions, refused, side, path)
                 = Exc!SetupTerm(exceptions, is, path) - Exc!HoldTerm(exceptions, i, path)
            /\ Exc!ShiftIn(t, skip, side, path)
                 = Exc!SetupTerm(t, js, path) - Exc!HoldTerm(t, j, path)
        BY <1>9, <2>7, <3>1, <3>3
      <4> QED
        BY <2>1, <2>4, <4>1
    <3>4. CASE side /\ Exc!MinMax(exceptions[i]) = "max"
      <4>1. /\ Exc!ShiftIn(exceptions, refused, side, path)
                 = Exc!SetupTerm(exceptions, i, path) - Exc!HoldTerm(exceptions, ih, path)
            /\ Exc!ShiftIn(t, skip, side, path)
                 = Exc!SetupTerm(t, j, path) - Exc!HoldTerm(t, jh, path)
        BY <1>9, <2>7, <3>1, <3>4
      <4> QED
        BY <2>1, <2>4, <4>1
    <3> QED
      BY <3>2, <3>3, <3>4
  <2> QED
    BY <2>6, <2>7
<1> QED
  BY <1>10, <1>11

\* Whatever order the same exceptions are stated in, each check of each path is dropped
\* or moved alike, unless two multicycles that cover this very path, of one priority and
\* one multiplier, count different clocks (`tighter`, exc.rs:299).
THEOREM OrderDoesNotMatter == Spec => []OrderImmaterial
<1>1. (reader = "exceptions" => ExcInv) => OrderImmaterial
  BY ExcOrder DEF OrderImmaterial
<1> QED
  BY <1>1, ExcAlways, PTL

-----------------------------------------------------------------------------
(* Types of the exceptions                                                 *)

\* Whatever exceptions a path's checks pick, the times they move by are whole numbers
\* (exc.rs:51).
LEMMA ExcTyped == ExcInv => Exc!TypeOK
<1> SUFFICES ASSUME ExcInv PROVE Exc!TypeOK
  OBVIOUS
<1>1. refused \subseteq DOMAIN exceptions
  BY DEF ExcInv
<1>2. IsFile(exceptions)
  BY FileRead
<1> DEFINE Named(i) == i = 0 \/ i \in DOMAIN exceptions
<1>3. \A side \in BOOLEAN, exactly \in BOOLEAN, mcp_only \in BOOLEAN, path \in ExcPaths :
        Named(Exc!Best(exceptions, refused, side, exactly, mcp_only, path))
  <2> SUFFICES ASSUME NEW side \in BOOLEAN, NEW exactly \in BOOLEAN, NEW mcp_only \in BOOLEAN,
                      NEW path \in ExcPaths
               PROVE  Named(Exc!Best(exceptions, refused, side, exactly, mcp_only, path))
    OBVIOUS
  <2> DEFINE K == Candidates(exceptions, refused, side, exactly, mcp_only, path)
             best == Exc!Best(exceptions, refused, side, exactly, mcp_only, path)
  <2>1. /\ K \in SUBSET DOMAIN exceptions
        /\ best = 0 <=> K = {}
        /\ K # {} => Wins(exceptions, K, best, side)
    BY <1>2, BestWins, SMTT(40)
  <2> HIDE DEF K, best
  <2>2. best = 0 \/ best \in DOMAIN exceptions
    BY <2>1 DEF Wins
  <2> QED
    BY <2>2 DEF best
<1>4. \A i : \A path \in ExcPaths : Named(i) => /\ Exc!SetupTerm(exceptions, i, path) \in Int
                                          /\ Exc!HoldTerm(exceptions, i, path) \in Int
  BY <1>2, TermsOf
<1> HIDE DEF Named
<1>5. ASSUME NEW side \in BOOLEAN, NEW path \in ExcPaths PROVE Exc!Shift(side, path) \in Int
  <2> DEFINE m == Exc!Best(exceptions, refused, side, FALSE, FALSE, path)
             late == Exc!Best(exceptions, refused, FALSE, TRUE, TRUE, path)
             early == Exc!Best(exceptions, refused, TRUE, TRUE, TRUE, path)
             st(i) == Exc!SetupTerm(exceptions, i, path)
             ht(i) == Exc!HoldTerm(exceptions, i, path)
  <2>1. Named(m) /\ Named(late) /\ Named(early)
    BY <1>3, Zenon
  <2>2. Exc!Shift(side, path) = IF m = 0 THEN 0 ELSE IF ~side THEN st(m)
                                ELSE IF Exc!MinMax(exceptions[m]) # "max" THEN st(late) - ht(m)
                                ELSE st(m) - ht(early)
    BY Zenon DEF Exc!Shift, Exc!ShiftIn
  <2> HIDE DEF m, late, early
  <2>3. st(m) \in Int /\ st(late) \in Int /\ ht(m) \in Int /\ ht(early) \in Int
    BY <1>4, <2>1
  <2> HIDE DEF st, ht
  <2> QED
    BY <2>2, <2>3
<1> QED
  BY <1>1, <1>5 DEF Exc!TypeOK

\* The types hold whenever the exceptions are the part at work.
LEMMA ExcTypes == Spec => [](reader = "exceptions" => Exc!TypeOK)
<1>1. (reader = "exceptions" => ExcInv) => (reader = "exceptions" => Exc!TypeOK)
  BY ExcTyped
<1> QED
  BY <1>1, ExcAlways, PTL

-----------------------------------------------------------------------------
(* The walk over clock cycles                                              *)

\* Where the walk stands and the distances it has so far.
CycTyped ==
  /\ src \in CycClockEdges /\ tgt \in CycClockEdges
  /\ cyc_phase \in {"walk", "done"}
  /\ tgt_past_src \in BOOLEAN /\ src_past_tgt \in BOOLEAN
  /\ tgt_cycle \in Int /\ src_cycle \in Int /\ setup \in Int /\ hold \in Int

\* They are whole numbers at first.
LEMMA CycStarts == Cyc!Init => CycTyped
<1>1. \A c \in CycClockEdges : c.period \in Int /\ c.time \in Int
  BY FrontEndAssumption DEF Cyc!ConstantsOK
<1>2. \A c : Cyc!FirstCycle(c) \in Int
  BY DEF Cyc!FirstCycle
<1> SUFFICES ASSUME Cyc!Init PROVE CycTyped
  OBVIOUS
<1>3. /\ src \in CycClockEdges /\ tgt \in CycClockEdges
      /\ tgt_cycle \in Int /\ src_cycle \in Int /\ setup \in Int /\ hold \in Int
  BY <1>1, <1>2 DEF Cyc!Init
<1>4. tgt_past_src \in BOOLEAN /\ src_past_tgt \in BOOLEAN
  BY DEF Cyc!Init
<1>5. cyc_phase \in {"walk", "done"}
  BY Zenon DEF Cyc!Init
<1> QED
  BY <1>3, <1>4, <1>5 DEF CycTyped

\* The smaller of two whole numbers.
LEMMA MinOfTwo ==
  ASSUME NEW m \in Int, NEW n \in Int
  PROVE  Cyc!Min({m, n}) \in Int /\ Cyc!Min({m, n}) <= m /\ Cyc!Min({m, n}) <= n
         /\ (Cyc!Min({m, n}) = m \/ Cyc!Min({m, n}) = n)
<1>1. \E k \in {m, n} : \A y \in {m, n} : k <= y
  <2>1. CASE m <= n
    BY <2>1
  <2>2. CASE n <= m
    BY <2>2
  <2> QED
    BY <2>1, <2>2
<1> QED
  BY <1>1 DEF Cyc!Min

\* The greater of them is one too.
LEMMA MaxOfTwo ==
  ASSUME NEW m \in Int, NEW n \in Int
  PROVE  Cyc!Max({m, n}) \in Int
<1>1. \E k \in {m, n} : \A y \in {m, n} : k >= y
  <2>1. CASE m <= n
    BY <2>1
  <2>2. CASE n <= m
    BY <2>2
  <2> QED
    BY <2>1, <2>2
<1> QED
  BY <1>1 DEF Cyc!Max

\* Every step leaves them so.
LEMMA CycMoves == CycTyped /\ Cyc!Next => CycTyped'
<1>0. \A c \in CycClockEdges : c.period \in Int /\ c.time \in Int
  BY FrontEndAssumption DEF Cyc!ConstantsOK
<1>1. \A a \in Int, b \in Int : Cyc!Min({a, b}) \in Int
  BY MinOfTwo
<1>2. ASSUME CycTyped PROVE Cyc!SrcTime \in Int /\ Cyc!TgtTime \in Int /\ Cyc!FirstCycle(src) \in Int
  <2>1. /\ src_cycle \in Int /\ src.period \in Int /\ src.time \in Int
        /\ tgt_cycle \in Int /\ tgt.period \in Int /\ tgt.time \in Int
    BY <1>0, <1>2 DEF CycTyped
  <2>2. src_cycle * src.period \in Int /\ tgt_cycle * tgt.period \in Int
    BY <2>1
  <2> QED
    BY <2>1, <2>2 DEF Cyc!SrcTime, Cyc!TgtTime, Cyc!SrcStart, Cyc!TgtStart, Cyc!FirstCycle
<1>3. ASSUME CycTyped, Cyc!Compare PROVE CycTyped'
  <2>1. PICK s \in Int, t \in Int : s = Cyc!SrcTime /\ t = Cyc!TgtTime
    BY <1>2, <1>3
  <2>2. t - s \in Int /\ s - t \in Int /\ Cyc!NextSource \in Int
    BY <1>3, <2>1 DEF Cyc!NextSource, CycTyped
  <2> QED
    BY <1>1, <1>3, <2>1, <2>2, ZenonT(60) DEF Cyc!Compare, CycTyped
<1>4. ASSUME CycTyped, Cyc!NextTarget PROVE CycTyped'
  BY <1>2, <1>4 DEF Cyc!NextTarget, CycTyped
<1>5. ASSUME CycTyped, Cyc!Return PROVE CycTyped'
  BY <1>5 DEF Cyc!Return, CycTyped
<1> QED
  BY <1>3, <1>4, <1>5 DEF Cyc!Next

\* Cycles and relations stay whole numbers, of whatever periods (sta.rs:154).
LEMMA CycTypes == Spec => [](reader = "cycles" => Cyc!TypeOK)
<1>1. Init => (reader = "cycles" => CycTyped)
  BY CycStarts DEF Init
<1>2. (reader = "cycles" => CycTyped) /\ [Next]_vars => (reader = "cycles" => CycTyped)'
  <2>1. SUFFICES ASSUME reader = "cycles" => CycTyped, [Next]_vars, reader' = "cycles"
                 PROVE  CycTyped'
    OBVIOUS
  <2>2. CycTyped /\ (Cyc!Next \/ UNCHANGED CycVars)
    BY <2>1 DEF Next, vars, DisStep, ChkStep, DelStep, ExcStep, LdStep, SiStep, CycStep,
                CmdStep, ScrStep
  <2>3. CASE UNCHANGED CycVars
    BY <2>2, <2>3 DEF CycVars, CycTyped
  <2> QED
    BY CycMoves, <2>2, <2>3
<1>3. (reader = "cycles" => CycTyped) => (reader = "cycles" => Cyc!TypeOK)
  BY DEF CycTyped, Cyc!TypeOK
<1> QED
  BY <1>1, <1>2, <1>3, PTL DEF Spec

\* Edges lie inside their periods, where there is one.
EdgesInside == \A c \in CycClockEdges : c.period > 0 => c.time \in 0 .. c.period - 1

\* How long capture edge i comes after launch edge j.
Gap(i, j) == (i * tgt.period + tgt.time) - (j * src.period + src.time)

\* The walk has compared capture edge i with launch edge j.
Compared(i, j) ==
  \/ i < tgt_cycle /\ j * src.period <= (i + 1) * tgt.period
  \/ i = tgt_cycle /\ j < src_cycle

\* What was found allows for the gap d.
Noted(d) ==
  /\ d > 0 => tgt_past_src /\ setup <= d
  /\ d <= 0 => src_past_tgt /\ hold <= -d

\* What the walk knows: every pair it has compared is recorded, and a relation is the gap of
\* some pair.
WalkInv ==
  /\ CycTyped
  /\ src.period > 0 /\ tgt.period > 0 =>
       /\ tgt_cycle >= 0 /\ src_cycle >= 0
       /\ \A i \in Nat, j \in Nat : Compared(i, j) => Noted(Gap(i, j))
       /\ tgt_past_src => setup > 0 /\ \E i \in Nat, j \in Nat : setup = Gap(i, j)
       /\ src_past_tgt => hold >= 0 /\ \E i \in Nat, j \in Nat : hold = -Gap(i, j)
       /\ tgt_cycle = 0 /\ src_cycle = 0 => ~tgt_past_src /\ ~src_past_tgt
       /\ cyc_phase = "done" => tgt_cycle > Cyc!MaxCycle \/ Cyc!InStep

\* Periods and times of the two edges.
LEMMA EdgesTyped ==
  ASSUME CycTyped
  PROVE  /\ src.period \in Nat /\ src.time \in Int /\ tgt.period \in Nat /\ tgt.time \in Int
         /\ \A i \in Int, j \in Int : Gap(i, j) \in Int
<1>1. src.period \in Nat /\ src.time \in Int /\ tgt.period \in Nat /\ tgt.time \in Int
  BY FrontEndAssumption DEF Cyc!ConstantsOK, CycTyped
<1> QED
  BY <1>1 DEF Gap

\* The walk starts at cycle zero of both clocks.
LEMMA FirstIsZero ==
  ASSUME EdgesInside, NEW c \in CycClockEdges, c.period > 0
  PROVE  Cyc!FirstCycle(c) = 0
<1>1. c.period \in Int /\ c.time \in 0 .. c.period - 1
  BY FrontEndAssumption DEF Cyc!ConstantsOK, EdgesInside
<1> QED
  BY <1>1 DEF Cyc!FirstCycle

\* It starts with nothing compared.
LEMMA WalkInit == EdgesInside /\ Cyc!Init => WalkInv
<1> SUFFICES ASSUME EdgesInside, Cyc!Init PROVE WalkInv
  OBVIOUS
<1>1. CycTyped
  BY CycStarts
<1>2. SUFFICES ASSUME src.period > 0, tgt.period > 0
               PROVE  /\ tgt_cycle = 0 /\ src_cycle = 0
                      /\ ~tgt_past_src /\ ~src_past_tgt /\ cyc_phase = "walk"
  <2>1. ASSUME tgt_cycle = 0, src_cycle = 0, NEW i \in Nat, NEW j \in Nat PROVE ~Compared(i, j)
    BY <2>1 DEF Compared
  <2> QED
    BY <1>1, <1>2, <2>1 DEF WalkInv
<1>3. tgt_cycle = 0 /\ src_cycle = 0
  BY <1>1, <1>2, FirstIsZero DEF CycTyped, Cyc!Init
<1> QED
  BY <1>2, <1>3 DEF Cyc!Init

\* One pair more.
LEMMA WalkCompare == WalkInv /\ Cyc!Compare => WalkInv'
<1> SUFFICES ASSUME WalkInv, Cyc!Compare PROVE WalkInv'
  OBVIOUS
<1>1. CycTyped /\ CycTyped'
  BY CycMoves DEF WalkInv, Cyc!Next
<1>2. src' = src /\ tgt' = tgt /\ tgt_cycle' = tgt_cycle /\ src_cycle' = src_cycle + 1
      /\ cyc_phase = "walk" /\ cyc_phase' = "walk"
  BY DEF Cyc!Compare, Cyc!NextSource, Cyc!Walking
<1>3. SUFFICES ASSUME src.period > 0, tgt.period > 0
      PROVE /\ \A i \in Nat, j \in Nat : Compared(i, j)' => Noted(Gap(i, j))'
            /\ tgt_past_src' => setup' > 0 /\ \E i \in Nat, j \in Nat : setup' = Gap(i, j)
            /\ src_past_tgt' => hold' >= 0 /\ \E i \in Nat, j \in Nat : hold' = -Gap(i, j)
  <2>1. \A i \in Nat, j \in Nat : Gap(i, j)' = Gap(i, j)
    BY <1>2 DEF Gap
  <2>2. tgt_cycle' \in Int /\ src_cycle' \in Int /\ src.period > 0 /\ tgt.period > 0 =>
          tgt_cycle' >= 0 /\ src_cycle' >= 0 /\ src_cycle' # 0
    BY <1>1, <1>2 DEF WalkInv, CycTyped
  <2> QED
    BY <1>1, <1>2, <1>3, <2>1, <2>2 DEF WalkInv, CycTyped
<1>4. tgt_cycle \in Nat /\ src_cycle \in Nat /\ setup \in Int /\ hold \in Int
      /\ tgt_past_src \in BOOLEAN /\ src_past_tgt \in BOOLEAN
  BY <1>1, <1>3 DEF WalkInv, CycTyped
<1> DEFINE d == Gap(tgt_cycle, src_cycle)
<1>5. d \in Int /\ d = Cyc!TgtTime - Cyc!SrcTime /\ Cyc!TgtTime \in Int /\ Cyc!SrcTime \in Int
  <2>1. /\ tgt_cycle \in Int /\ src_cycle \in Int /\ src.period \in Int /\ src.time \in Int
        /\ tgt.period \in Int /\ tgt.time \in Int
    <3>1. CycTyped
      BY <1>1
    <3>2. src.period \in Nat /\ src.time \in Int /\ tgt.period \in Nat /\ tgt.time \in Int
      BY <3>1, EdgesTyped
    <3> QED
      BY <1>4, <3>2
  <2>2. tgt_cycle * tgt.period \in Int /\ src_cycle * src.period \in Int
    BY <2>1
  <2> QED
    BY <2>1, <2>2 DEF Gap, Cyc!TgtTime, Cyc!SrcTime, Cyc!TgtStart, Cyc!SrcStart
<1> HIDE DEF d
<1>6. \/ /\ d > 0 /\ tgt_past_src' = TRUE /\ hold' = hold /\ src_past_tgt' = src_past_tgt
         /\ setup' = IF tgt_past_src THEN Cyc!Min({setup, d}) ELSE d
      \/ /\ d <= 0 /\ src_past_tgt' = TRUE /\ setup' = setup /\ tgt_past_src' = tgt_past_src
         /\ hold' = IF src_past_tgt THEN Cyc!Min({hold, -d}) ELSE -d
  <2>1. Cyc!SrcTime - Cyc!TgtTime = -d
    BY <1>5
  <2>2. (Cyc!TgtTime > Cyc!SrcTime <=> d > 0) /\ (Cyc!TgtTime <= Cyc!SrcTime <=> d <= 0)
    BY <1>5
  <2> QED
    BY <1>5, <2>1, <2>2 DEF Cyc!Compare
<1>7. \A i \in Nat, j \in Nat : Compared(i, j)' => Compared(i, j) \/ Gap(i, j) = d
  <2> SUFFICES ASSUME NEW i \in Nat, NEW j \in Nat, Compared(i, j)'
               PROVE  Compared(i, j) \/ Gap(i, j) = d
    OBVIOUS
  <2>1. CASE i = tgt_cycle /\ j < src_cycle + 1
    <3>1. j < src_cycle \/ j = src_cycle
      BY <1>4, <2>1
    <3> QED
      BY <2>1, <3>1 DEF Compared, d
  <2> QED
    BY <1>2, <2>1 DEF Compared
<1>8. \A i \in Nat, j \in Nat : Gap(i, j)' = Gap(i, j) /\ Gap(i, j) \in Int
  <2>1. \A i \in Nat, j \in Nat : Gap(i, j)' = Gap(i, j)
    BY <1>2 DEF Gap
  <2>2. \A i \in Int, j \in Int : Gap(i, j) \in Int
    BY <1>1, EdgesTyped
  <2>3. \A i \in Nat : i \in Int
    OBVIOUS
  <2> QED
    BY <2>1, <2>2, <2>3
<1>9. d = Gap(tgt_cycle, src_cycle)
  BY DEF d
<1>10. CASE d > 0
  <2>1. /\ tgt_past_src' = TRUE /\ hold' = hold /\ src_past_tgt' = src_past_tgt
        /\ setup' = IF tgt_past_src THEN Cyc!Min({setup, d}) ELSE d
    BY <1>5, <1>6, <1>10
  <2>2. setup' \in Int /\ setup' <= d /\ (tgt_past_src => setup' <= setup)
        /\ (setup' = d \/ (tgt_past_src /\ setup' = setup))
    BY <1>4, <1>5, <2>1, MinOfTwo
  <2>3. ASSUME NEW e \in Int, Noted(e) \/ e = d PROVE Noted(e)'
    BY <1>4, <1>5, <1>10, <2>1, <2>2, <2>3 DEF Noted
  <2>4. setup' > 0 /\ \E i \in Nat, j \in Nat : setup' = Gap(i, j)
    BY <1>3, <1>4, <1>9, <1>10, <2>2 DEF WalkInv
  <2>5. src_past_tgt' => hold' >= 0 /\ \E i \in Nat, j \in Nat : hold' = -Gap(i, j)
    BY <1>3, <2>1 DEF WalkInv
  <2> QED
    BY <1>3, <1>7, <1>8, <2>3, <2>4, <2>5 DEF WalkInv
<1>11. CASE d <= 0
  <2>1. /\ src_past_tgt' = TRUE /\ setup' = setup /\ tgt_past_src' = tgt_past_src
        /\ hold' = IF src_past_tgt THEN Cyc!Min({hold, -d}) ELSE -d
    BY <1>5, <1>6, <1>11
  <2>2. hold' \in Int /\ hold' <= -d /\ (src_past_tgt => hold' <= hold)
        /\ (hold' = -d \/ (src_past_tgt /\ hold' = hold))
    <3>1. -d \in Int
      BY <1>5
    <3>2. LET m == Cyc!Min({hold, -d}) IN m \in Int /\ m <= hold /\ m <= -d /\ (m = hold \/ m = -d)
      BY <1>4, <3>1, MinOfTwo
    <3> QED
      BY <1>4, <2>1, <3>1, <3>2
  <2>3. ASSUME NEW e \in Int, Noted(e) \/ e = d PROVE Noted(e)'
    BY <1>4, <1>5, <1>11, <2>1, <2>2, <2>3 DEF Noted
  <2>4. hold' >= 0 /\ \E i \in Nat, j \in Nat : hold' = -Gap(i, j)
    BY <1>3, <1>4, <1>5, <1>9, <1>11, <2>2 DEF WalkInv
  <2>5. tgt_past_src' => setup' > 0 /\ \E i \in Nat, j \in Nat : setup' = Gap(i, j)
    BY <1>3, <2>1 DEF WalkInv
  <2> QED
    BY <1>3, <1>7, <1>8, <2>3, <2>4, <2>5 DEF WalkInv
<1> QED
  BY <1>5, <1>10, <1>11

\* On to the next capture edge: every launch edge up to its period's end was compared.
LEMMA WalkNext == EdgesInside /\ WalkInv /\ Cyc!NextTarget => WalkInv'
<1> SUFFICES ASSUME EdgesInside, WalkInv, Cyc!NextTarget PROVE WalkInv'
  OBVIOUS
<1>1. CycTyped /\ CycTyped'
  BY CycMoves DEF WalkInv, Cyc!Next
<1>2. /\ src' = src /\ tgt' = tgt /\ tgt_cycle' = tgt_cycle + 1 /\ src_cycle' = Cyc!FirstCycle(src)
      /\ setup' = setup /\ hold' = hold /\ tgt_past_src' = tgt_past_src
      /\ src_past_tgt' = src_past_tgt /\ cyc_phase' = "walk" /\ cyc_phase = "walk"
  BY DEF Cyc!NextTarget, Cyc!Walking
<1>3. \A i \in Nat, j \in Nat : Gap(i, j)' = Gap(i, j)
  BY <1>2 DEF Gap
<1>4. SUFFICES ASSUME src.period > 0, tgt.period > 0
               PROVE  /\ tgt_cycle' >= 1 /\ src_cycle' = 0
                      /\ \A i \in Nat, j \in Nat : Compared(i, j)' => Compared(i, j)
  <2>1. \A e : Noted(e)' <=> Noted(e)
    BY <1>2 DEF Noted
  <2>2. tgt_cycle' \in Int /\ tgt_cycle' >= 1 /\ src_cycle' = 0 =>
          tgt_cycle' >= 0 /\ src_cycle' >= 0 /\ tgt_cycle' # 0
    OBVIOUS
  <2> QED
    BY <1>1, <1>2, <1>3, <1>4, <2>1, <2>2 DEF WalkInv, CycTyped
<1>5. /\ tgt_cycle \in Nat /\ src_cycle \in Nat
      /\ src.period \in Nat /\ tgt.period \in Nat
  <2>1. tgt_cycle >= 0 /\ src_cycle >= 0 /\ tgt_cycle \in Int /\ src_cycle \in Int
    BY <1>4 DEF WalkInv, CycTyped
  <2>2. src.period \in Nat /\ tgt.period \in Nat
    BY <1>1, EdgesTyped
  <2> QED
    BY <2>1, <2>2
<1>6. src_cycle' = 0
  BY <1>1, <1>2, <1>4, FirstIsZero DEF CycTyped
<1>7. src_cycle * src.period > (tgt_cycle + 1) * tgt.period
  <2>1. src_cycle * src.period > tgt_cycle * tgt.period + tgt.period
    BY DEF Cyc!NextTarget, Cyc!Beyond, Cyc!SrcStart, Cyc!TgtStart
  <2> QED
    BY <1>5, <2>1
<1>8. ASSUME NEW i \in Nat, NEW j \in Nat, Compared(i, j)' PROVE Compared(i, j)
  <2>1. i < tgt_cycle + 1 /\ j * src.period <= (i + 1) * tgt.period
    BY <1>2, <1>5, <1>6, <1>8 DEF Compared
  <2>2. CASE i = tgt_cycle
    <3>1. j * src.period < src_cycle * src.period
      BY <1>5, <1>7, <2>1, <2>2
    <3>2. j >= src_cycle => j * src.period >= src_cycle * src.period
      BY <1>5
    <3>3. j < src_cycle
      BY <1>5, <3>1, <3>2
    <3> QED
      BY <2>2, <3>3 DEF Compared
  <2>3. CASE i # tgt_cycle
    BY <1>5, <2>1, <2>3 DEF Compared
  <2> QED
    BY <2>2, <2>3
<1> QED
  BY <1>2, <1>5, <1>6, <1>8

\* It returns at the limit or in step.
LEMMA WalkReturn == WalkInv /\ Cyc!Return => WalkInv'
<1> SUFFICES ASSUME WalkInv, Cyc!Return PROVE WalkInv'
  OBVIOUS
<1>1. CycTyped'
  BY CycMoves DEF WalkInv, Cyc!Next
<1>2. /\ UNCHANGED <<src, tgt, tgt_cycle, src_cycle, setup, hold, tgt_past_src, src_past_tgt>>
      /\ tgt_cycle > Cyc!MaxCycle \/ Cyc!InStep
  BY DEF Cyc!Return
<1>3. /\ (Cyc!MaxCycle)' = Cyc!MaxCycle /\ (Cyc!InStep)' = Cyc!InStep
      /\ \A i, j : Gap(i, j)' = Gap(i, j) /\ Compared(i, j)' = Compared(i, j)
      /\ \A e : Noted(e)' = Noted(e)
  BY <1>2 DEF Cyc!MaxCycle, Cyc!InStep, Cyc!SrcStart, Cyc!TgtStart, Gap, Compared, Noted
<1> QED
  BY <1>1, <1>2, <1>3 DEF WalkInv

\* Every step keeps what the walk knows.
LEMMA WalkMoves == EdgesInside /\ WalkInv /\ Cyc!Next => WalkInv'
BY WalkCompare, WalkNext, WalkReturn DEF Cyc!Next

\* The beat is the largest time both periods are multiples of.
LEMMA BeatIs ==
  ASSUME CycTyped, src.period > 0, tgt.period > 0
  PROVE  Periods(src.period, tgt.period, Cyc!Beat, Cyc!CommonCycle, tgt.period \div Cyc!Beat)
<1> DEFINE p == src.period
           q == tgt.period
           S == {h \in 1 .. p : Cyc!Divides(h, p) /\ Cyc!Divides(h, q)}
<1>1. p \in Nat /\ q \in Nat /\ p > 0 /\ q > 0
  BY EdgesTyped
<1>2. Cyc!Beat = Cyc!Max(S)
  BY DEF Cyc!Beat
<1>3. Cyc!CommonCycle = p \div Cyc!Beat
  BY DEF Cyc!CommonCycle
<1> HIDE DEF p, q
<1>4. PICK g \in Nat : g > 0 /\ Combines(g, p, q) /\ MultipleOf(g, p) /\ MultipleOf(g, q)
  BY <1>1, CommonMeasure
<1>5. g \in S
  <2>1. g <= p
    BY <1>1, <1>4, SmallMultiple
  <2>2. p % g = 0 /\ q % g = 0
    BY <1>1, <1>4, RemainderZero
  <2> QED
    BY <1>1, <1>4, <2>1, <2>2 DEF Cyc!Divides
<1>6. ASSUME NEW h \in S PROVE h \in Int /\ h <= g
  <2>1. h \in Nat /\ h > 0 /\ p % h = 0 /\ q % h = 0
    BY <1>1 DEF Cyc!Divides
  <2>2. MultipleOf(h, p) /\ MultipleOf(h, q)
    BY <1>1, <2>1, RemainderZero
  <2>3. MultipleOf(h, g)
    BY <1>1, <1>4, <2>1, <2>2, MeasureIsGreatest
  <2> QED
    BY <1>4, <2>1, <2>3, SmallMultiple
<1> HIDE DEF S
<1>7. Cyc!Max(S) = g
  <2>1. Cyc!Max(S) = CHOOSE x \in S : \A y \in S : x >= y
    BY DEF Cyc!Max
  <2>2. \A y \in S : g >= y
    BY <1>4, <1>6
  <2>3. \A x \in S : (\A y \in S : x >= y) => x = g
    BY <1>4, <1>5, <1>6
  <2> QED
    BY <1>5, <2>1, <2>2, <2>3
<1>8. p \div g \in Nat /\ p = (p \div g) * g /\ q \div g \in Nat /\ q = (q \div g) * g
  BY <1>1, <1>4, WholeQuotient
<1>9. Periods(p, q, g, p \div g, q \div g)
  BY <1>1, <1>4, <1>8 DEF Periods
<1> QED
  BY <1>2, <1>3, <1>7, <1>9 DEF p, q

\* The two closest gaps are what their names say.
LEMMA ClosestAre ==
  ASSUME CycTyped, src.period > 0, tgt.period > 0
  PROVE  /\ Cyc!ClosestAfter \in 1 .. Cyc!Beat
         /\ MultipleOf(Cyc!Beat, Cyc!ClosestAfter - (tgt.time - src.time))
         /\ Cyc!ClosestBefore \in 0 .. Cyc!Beat - 1
         /\ MultipleOf(Cyc!Beat, Cyc!ClosestBefore - (src.time - tgt.time))
<1>1. Cyc!Beat \in Nat /\ Cyc!Beat > 0
  BY BeatIs DEF Periods
<1> DEFINE g == Cyc!Beat
           x == tgt.time - src.time
           y == src.time - tgt.time
<1>2. x \in Int /\ y \in Int
  <2>1. src.time \in Int /\ tgt.time \in Int
    BY EdgesTyped
  <2> QED
    BY <2>1
<1>3. /\ Cyc!ClosestAfter = CHOOSE d \in 1 .. g : (d - x) % g = 0
      /\ Cyc!ClosestBefore = CHOOSE d \in 0 .. g - 1 : (d - y) % g = 0
  BY DEF Cyc!ClosestAfter, Cyc!ClosestBefore, Cyc!Divides
<1> HIDE DEF g, x, y
<1>4. g \in Nat /\ g > 0
  BY <1>1 DEF g
<1>5. \E d \in 1 .. g : (d - x) % g = 0
  <2>1. PICK d \in 1 .. 1 + g - 1 : MultipleOf(g, d - x)
    <3>1. \A l \in Int : \E d \in l .. l + g - 1 : MultipleOf(g, d - x)
      BY <1>2, <1>4, OneInEach
    <3>2. 1 \in Int
      OBVIOUS
    <3> QED
      BY <3>1, <3>2
  <2>2. d \in 1 .. g /\ d - x \in Int
    BY <1>2, <1>4
  <2> QED
    BY <1>4, <2>1, <2>2, RemainderZero
<1>6. \E d \in 0 .. g - 1 : (d - y) % g = 0
  <2>1. PICK d \in 0 .. 0 + g - 1 : MultipleOf(g, d - y)
    <3>1. \A l \in Int : \E d \in l .. l + g - 1 : MultipleOf(g, d - y)
      BY <1>2, <1>4, OneInEach
    <3>2. 0 \in Int
      OBVIOUS
    <3> QED
      BY <3>1, <3>2
  <2>2. d \in 0 .. g - 1 /\ d - y \in Int
    BY <1>2, <1>4
  <2> QED
    BY <1>4, <2>1, <2>2, RemainderZero
<1>7. PICK d \in 1 .. g : d = Cyc!ClosestAfter /\ (d - x) % g = 0
  BY <1>3, <1>5
<1>8. PICK e \in 0 .. g - 1 : e = Cyc!ClosestBefore /\ (e - y) % g = 0
  BY <1>3, <1>6
<1>9. MultipleOf(g, d - x) /\ MultipleOf(g, e - y)
  <2>1. d - x \in Int /\ e - y \in Int
    BY <1>2, <1>4
  <2> QED
    BY <1>4, <1>7, <1>8, <2>1, RemainderZero
<1> QED
  BY <1>7, <1>8, <1>9 DEF g, x, y

\* Every gap differs from that of the first two edges by a multiple of the beat.
LEMMA GapsMeet ==
  ASSUME CycTyped, src.period > 0, tgt.period > 0, NEW i \in Nat, NEW j \in Nat
  PROVE  /\ Gap(i, j) \in Int
         /\ MultipleOf(Cyc!Beat, Gap(i, j) - (tgt.time - src.time))
         /\ MultipleOf(Cyc!Beat, (-Gap(i, j)) - (src.time - tgt.time))
<1> DEFINE g == Cyc!Beat
           p == src.period
           q == tgt.period
           a == src.time
           b == tgt.time
<1>1. Periods(p, q, g, Cyc!CommonCycle, q \div g)
  BY BeatIs
<1>2. a \in Int /\ b \in Int
  BY EdgesTyped
<1> HIDE DEF g, p, q, a, b
<1>3. g \in Int /\ p \in Int /\ q \in Int /\ MultipleOf(g, p) /\ MultipleOf(g, q)
  BY <1>1 DEF Periods, MultipleOf
<1> DEFINE x == i * q
           y == j * p
<1>4. x \in Int /\ y \in Int /\ MultipleOf(g, x) /\ MultipleOf(g, y)
  <2>1. i \in Int /\ j \in Int
    OBVIOUS
  <2>2. MultipleOf(g, i * q) /\ i * q \in Int
    BY <1>3, <2>1, MultiplesTimes
  <2>3. MultipleOf(g, j * p) /\ j * p \in Int
    BY <1>3, <2>1, MultiplesTimes
  <2> QED
    BY <2>2, <2>3
<1>5. Gap(i, j) = (x + b) - (y + a)
  BY DEF Gap, p, q, a, b
<1> HIDE DEF x, y
<1>6. MultipleOf(g, x - y) /\ MultipleOf(g, y - x)
  BY <1>3, <1>4, MultiplesAdd
<1>7. Gap(i, j) \in Int /\ Gap(i, j) - (b - a) = x - y /\ (-Gap(i, j)) - (a - b) = y - x
  BY <1>2, <1>4, <1>5
<1> QED
  BY <1>6, <1>7 DEF g, a, b

\* The closest capture edge follows a launch edge in one of the first K capture periods, which
\* starts no later than the one after it, or the last launch edge before both are back in step.
LEMMA ClosestCapture ==
  ASSUME NEW p, NEW q, NEW g, NEW K, NEW J, Periods(p, q, g, K, J),
         NEW a \in 0 .. p - 1, NEW b \in 0 .. q - 1,
         NEW d \in 1 .. g, MultipleOf(g, d - (b - a))
  PROVE  \E i \in Nat, j \in Nat :
           /\ (i < K /\ j * p <= (i + 1) * q) \/ (i = K /\ j = J - 1)
           /\ d = (i * q + b) - (j * p + a)
<1>1. /\ p \in Nat /\ q \in Nat /\ g \in Nat /\ K \in Nat /\ J \in Nat
      /\ p > 0 /\ q > 0 /\ g > 0 /\ p = K * g /\ q = J * g
  BY DEF Periods
<1>2. K > 0 /\ J > 0 /\ K * q = J * p
  BY InStepAgain
<1>3. a \in Int /\ b \in Int /\ d \in Int /\ 0 <= a /\ a < p /\ 0 <= b /\ b < q /\ 0 < d /\ d <= g
  BY <1>1
<1>4. g <= p /\ g <= q
  <2>1. K * g >= g /\ J * g >= g
    BY <1>1, <1>2
  <2> QED
    BY <1>1, <2>1
<1>5. PICK m \in 0 .. K - 1, n \in Int : d - (b - a) = m * q - n * p
  <2>1. d - (b - a) \in Int
    BY <1>3
  <2> QED
    BY <2>1, EveryMultipleMet
<1>6. m \in Nat /\ m < K
  BY <1>1
<1> DEFINE x == m * q
           y == n * p
<1>7. x \in Int /\ y \in Int /\ x >= 0
  BY <1>1, <1>5, <1>6
<1>8. y = x + b - a - d /\ (m + 1) * q = x + q
  BY <1>1, <1>3, <1>5, <1>6
<1>9. n >= -1
  <2>1. SUFFICES ASSUME n <= -2 PROVE FALSE
    BY <1>5
  <2>2. y <= -(2 * p)
    BY <1>1, <1>5, <2>1
  <2> HIDE DEF x, y
  <2> QED
    BY <1>1, <1>3, <1>4, <1>7, <1>8, <2>2
<1>10. CASE n >= 0
  <2>1. y <= (m + 1) * q
    <3> HIDE DEF x, y
    <3> QED
      BY <1>1, <1>3, <1>7, <1>8
  <2>2. d = (x + b) - (y + a)
    <3> HIDE DEF x, y
    <3> QED
      BY <1>3, <1>7, <1>8
  <2>3. n \in Nat
    BY <1>5, <1>10
  <2> QED
    BY <1>6, <2>1, <2>2, <2>3
<1>11. CASE n = -1
  <2>1. y = -p
    BY <1>1, <1>11
  <2>2. m = 0
    <3>1. x < q
      <4> HIDE DEF x, y
      <4> QED
        BY <1>1, <1>3, <1>4, <1>7, <1>8, <2>1
    <3>2. m >= 1 => x >= q
      BY <1>1, <1>6
    <3> QED
      BY <1>1, <1>6, <1>7, <3>1, <3>2
  <2>3. x = 0
    BY <1>1, <2>2
  <2>4. d = b + p - a
    <3> HIDE DEF x, y
    <3> QED
      BY <1>1, <1>3, <1>8, <2>1, <2>3
  <2>5. J - 1 \in Nat /\ (J - 1) * p = J * p - p
    BY <1>1, <1>2
  <2>6. d = (K * q + b) - ((J - 1) * p + a)
    <3>1. K * q \in Int /\ J * p \in Int
      BY <1>1
    <3> QED
      BY <1>1, <1>2, <1>3, <2>4, <2>5, <3>1
  <2> QED
    BY <1>1, <2>5, <2>6
<1> QED
  BY <1>5, <1>9, <1>10, <1>11

\* The closest launch edge at or after a capture edge is in one of these periods.
LEMMA ClosestLaunch ==
  ASSUME NEW p, NEW q, NEW g, NEW K, NEW J, Periods(p, q, g, K, J),
         NEW a \in 0 .. p - 1, NEW b \in 0 .. q - 1,
         NEW d \in 0 .. g - 1, MultipleOf(g, d - (a - b))
  PROVE  \E i \in Nat, j \in Nat :
           i < K /\ j * p <= (i + 1) * q /\ d = (j * p + a) - (i * q + b)
<1>1. /\ p \in Nat /\ q \in Nat /\ g \in Nat /\ K \in Nat /\ J \in Nat
      /\ p > 0 /\ q > 0 /\ g > 0 /\ p = K * g /\ q = J * g
  BY DEF Periods
<1>2. K > 0 /\ J > 0 /\ K * q = J * p
  BY InStepAgain
<1>3. a \in Int /\ b \in Int /\ d \in Int /\ 0 <= a /\ a < p /\ 0 <= b /\ b < q /\ 0 <= d /\ d < g
  BY <1>1
<1>4. PICK m \in 0 .. K - 1, n \in Int : (a - b) - d = m * q - n * p
  <2>1. d - (a - b) \in Int
    BY <1>3
  <2>2. (-1) * (d - (a - b)) = (a - b) - d
    BY <1>3
  <2>3. MultipleOf(g, (a - b) - d)
    BY <1>1, <2>1, <2>2, MultiplesTimes
  <2>4. (a - b) - d \in Int
    BY <1>3
  <2> QED
    BY <2>3, <2>4, EveryMultipleMet
<1>5. m \in Nat /\ m < K
  BY <1>1
<1> DEFINE x == m * q
           y == n * p
<1>6. x \in Int /\ y \in Int /\ x >= 0
  BY <1>1, <1>4, <1>5
<1>7. y = x + b - a + d /\ (m + 1) * q = x + q
  BY <1>1, <1>3, <1>4, <1>5
<1>8. n \in Nat
  <2>1. SUFFICES ASSUME n <= -1 PROVE FALSE
    BY <1>4
  <2>2. y <= -p
    BY <1>1, <1>4, <2>1
  <2> HIDE DEF x, y
  <2> QED
    BY <1>1, <1>3, <1>6, <1>7, <2>2
<1>9. y <= x + q
  <2>1. y - (x + q) < g
    <3> HIDE DEF x, y
    <3> QED
      BY <1>1, <1>3, <1>6, <1>7
  <2>2. y - (x + q) \in Int
    BY <1>1, <1>6
  <2>3. MultipleOf(g, y - (x + q))
    <3>1. MultipleOf(g, p) /\ MultipleOf(g, q)
      BY <1>1 DEF MultipleOf
    <3> DEFINE z == (m + 1) * q
    <3>2. MultipleOf(g, y) /\ MultipleOf(g, z)
      <4>1. p \in Int /\ q \in Int /\ g \in Int /\ n \in Int /\ m + 1 \in Int
        BY <1>1, <1>4, <1>5
      <4>2. MultipleOf(g, n * p)
        BY <3>1, <4>1, MultiplesTimes
      <4>3. MultipleOf(g, (m + 1) * q)
        BY <3>1, <4>1, MultiplesTimes
      <4> QED
        BY <4>2, <4>3
    <3>3. z \in Int /\ z = x + q
      BY <1>1, <1>5, <1>7
    <3> HIDE DEF x, y, z
    <3>4. MultipleOf(g, y - z)
      <4>1. g \in Int /\ y \in Int /\ z \in Int
        BY <1>1, <1>6, <3>3
      <4> QED
        BY <3>2, <4>1, MultiplesAdd
    <3> QED
      BY <3>3, <3>4
  <2>4. y - (x + q) <= 0
    <3> HIDE DEF x, y
    <3> QED
      BY <1>1, <2>1, <2>2, <2>3, SmallMultiple
  <2> HIDE DEF x, y
  <2> QED
    BY <1>1, <1>6, <2>4
<1>10. d = (y + a) - (x + b)
  <2> HIDE DEF x, y
  <2> QED
    BY <1>3, <1>6, <1>7
<1> QED
  BY <1>5, <1>7, <1>8, <1>9, <1>10

\* When the walk returns within the limit, it has come back in step or beyond: it has compared
\* every pair of the first common cycle and the last pair before its end.
LEMMA CommonCycleWalked ==
  ASSUME WalkInv, src.period > 0, tgt.period > 0, cyc_phase = "done",
         Cyc!CommonCycle <= Cyc!MaxCycle
  PROVE  LET K == Cyc!CommonCycle
             J == tgt.period \div Cyc!Beat
         IN  /\ \A i \in Nat, j \in Nat :
                  i < K /\ j * src.period <= (i + 1) * tgt.period => Compared(i, j)
             /\ Compared(K, J - 1)
<1> DEFINE K == Cyc!CommonCycle
           J == tgt.period \div Cyc!Beat
           p == src.period
           q == tgt.period
<1>1. CycTyped
  BY DEF WalkInv
<1>2. Periods(p, q, Cyc!Beat, K, J)
  BY <1>1, BeatIs
<1>3. /\ tgt_cycle \in Nat /\ src_cycle \in Nat
      /\ tgt_cycle = 0 /\ src_cycle = 0 => ~tgt_past_src
      /\ tgt_cycle > Cyc!MaxCycle \/ Cyc!InStep
  <2>1. tgt_cycle >= 0 /\ src_cycle >= 0 /\ tgt_cycle \in Int /\ src_cycle \in Int
    BY <1>1 DEF WalkInv, CycTyped
  <2> QED
    BY <2>1 DEF WalkInv
<1>4. Cyc!MaxCycle \in Int
  <2>1. CycRelatedCycles \in Int /\ CycFreeCycles \in Int
    BY FrontEndAssumption DEF Cyc!ConstantsOK
  <2>2. (src.period + tgt.period - 1) \div tgt.period \in Int
    <3>1. src.period \in Nat /\ tgt.period \in Nat
      BY <1>1, EdgesTyped
    <3> QED
      BY <3>1
  <2>3. Cyc!Max({(src.period + tgt.period - 1) \div tgt.period, CycFreeCycles}) \in Int
    BY <2>1, <2>2, MaxOfTwo
  <2> QED
    BY <2>1, <2>3 DEF Cyc!MaxCycle
<1>5. \A i \in Nat, j \in Nat :
        (i < tgt_cycle /\ j * p <= (i + 1) * q) \/ (i = tgt_cycle /\ j < src_cycle) => Compared(i, j)
  BY DEF Compared
<1>6. Cyc!InStep => tgt_past_src /\ tgt_cycle * q = src_cycle * p
  BY DEF Cyc!InStep, Cyc!SrcStart, Cyc!TgtStart
<1>7. /\ p \in Nat /\ q \in Nat /\ p > 0 /\ q > 0 /\ K \in Nat /\ J \in Nat /\ K > 0 /\ J > 0
      /\ K * q = J * p
  <2> HIDE DEF p, q, K, J
  <2>1. K > 0 /\ J > 0 /\ K * q = J * p
    BY <1>2, InStepAgain
  <2> QED
    BY <1>2, <2>1 DEF Periods
<1>8. K <= Cyc!MaxCycle
  OBVIOUS
<1> HIDE DEF p, q, K, J
<1>9. tgt_cycle > K \/ (tgt_cycle = K /\ src_cycle = J)
  <2>1. CASE tgt_cycle > Cyc!MaxCycle
    BY <1>3, <1>4, <1>7, <1>8, <2>1
  <2>2. CASE Cyc!InStep
    <3>1. tgt_cycle \in Int /\ src_cycle \in Int /\ tgt_cycle * q = src_cycle * p
      BY <1>3, <1>6, <2>2
    <3>2. PICK t \in Int : tgt_cycle = t * K /\ src_cycle = t * J
      BY <1>2, <3>1, InStepOnly
    <3>3. ~(tgt_cycle = 0 /\ src_cycle = 0)
      BY <1>3, <1>6, <2>2
    <3>4. t # 0
      BY <1>7, <3>2, <3>3
    <3>5. ~(t <= -1)
      <4>1. t <= -1 => t * K <= -K
        BY <1>7
      <4> QED
        BY <1>3, <1>7, <3>2, <4>1
    <3>6. CASE t = 1
      BY <1>7, <3>2, <3>6
    <3>7. CASE t >= 2
      <4>1. t * K >= 2 * K
        BY <1>7, <3>7
      <4> QED
        BY <1>3, <1>7, <3>2, <4>1
    <3> QED
      BY <3>4, <3>5, <3>6, <3>7
  <2> QED
    BY <1>3, <2>1, <2>2
<1>10. ASSUME NEW i \in Nat, NEW j \in Nat, i < K, j * p <= (i + 1) * q PROVE Compared(i, j)
  <2>1. i < tgt_cycle
    BY <1>3, <1>7, <1>9, <1>10
  <2> QED
    BY <1>5, <1>10, <2>1
<1>11. Compared(K, J - 1)
  <2>1. J - 1 \in Nat
    BY <1>7
  <2>2. CASE tgt_cycle = K /\ src_cycle = J
    BY <1>5, <1>7, <2>1, <2>2
  <2>3. CASE tgt_cycle > K
    <3>1. (J - 1) * p = J * p - p /\ (K + 1) * q = K * q + q
      BY <1>7
    <3>2. (J - 1) * p <= (K + 1) * q
      <4>1. J * p \in Int /\ K * q \in Int
        BY <1>7
      <4> QED
        BY <1>7, <3>1, <4>1
    <3> QED
      BY <1>5, <1>7, <2>1, <2>3, <3>2
  <2> QED
    BY <1>9, <2>2, <2>3
<1> QED
  BY <1>10, <1>11 DEF p, q, K, J

\* What is found is never too short, and within the limit it is the closest pair.
LEMMA WalkedIsClosest ==
  ASSUME EdgesInside, WalkInv PROVE Cyc!RelationIsClosest
<1> SUFFICES ASSUME cyc_phase = "done", src.period > 0, tgt.period > 0
             PROVE  /\ Cyc!CommonCycle <= Cyc!MaxCycle => setup = Cyc!ClosestAfter /\ hold = Cyc!ClosestBefore
                    /\ tgt_past_src => setup >= Cyc!ClosestAfter /\ Cyc!Divides(Cyc!Beat, setup - Cyc!ClosestAfter)
                    /\ src_past_tgt => hold >= Cyc!ClosestBefore /\ Cyc!Divides(Cyc!Beat, hold - Cyc!ClosestBefore)
  BY DEF Cyc!RelationIsClosest
<1> DEFINE g == Cyc!Beat
           K == Cyc!CommonCycle
           J == tgt.period \div Cyc!Beat
           A == Cyc!ClosestAfter
           B == Cyc!ClosestBefore
<1>1. CycTyped
  BY DEF WalkInv
<1>2. Periods(src.period, tgt.period, g, K, J)
  BY <1>1, BeatIs
<1>3. g \in Nat /\ g > 0
  BY <1>2 DEF Periods
<1>4. /\ A \in 1 .. g /\ MultipleOf(g, A - (tgt.time - src.time))
      /\ B \in 0 .. g - 1 /\ MultipleOf(g, B - (src.time - tgt.time))
  BY <1>1, ClosestAre
<1>5. /\ src.time \in 0 .. src.period - 1 /\ tgt.time \in 0 .. tgt.period - 1
      /\ setup \in Int /\ hold \in Int
  BY <1>1 DEF EdgesInside, CycTyped
<1>6. tgt.time - src.time \in Int /\ src.time - tgt.time \in Int
  <2>1. src.time \in Int /\ tgt.time \in Int
    BY <1>1, EdgesTyped
  <2> QED
    BY <2>1
<1>7. ASSUME tgt_past_src PROVE setup >= A /\ Cyc!Divides(g, setup - A)
  <2>1. PICK i \in Nat, j \in Nat : setup = Gap(i, j) /\ setup > 0
    BY <1>7 DEF WalkInv
  <2>2. MultipleOf(g, setup - (tgt.time - src.time))
    BY <1>1, <2>1, GapsMeet
  <2> HIDE DEF g, A
  <2>3. A \in 1 .. 1 + g - 1 /\ setup >= 1 /\ 1 \in Int
    BY <1>3, <1>4, <1>5, <2>1
  <2>4. setup >= A /\ MultipleOf(g, setup - A)
    BY <1>3, <1>4, <1>5, <1>6, <2>2, <2>3, NoneBefore
  <2>5. setup - A \in Int
    BY <1>5, <2>3
  <2> QED
    BY <1>3, <2>4, <2>5, RemainderZero DEF Cyc!Divides
<1>8. ASSUME src_past_tgt PROVE hold >= B /\ Cyc!Divides(g, hold - B)
  <2>1. PICK i \in Nat, j \in Nat : hold = -Gap(i, j) /\ hold >= 0
    BY <1>8 DEF WalkInv
  <2>2. MultipleOf(g, hold - (src.time - tgt.time))
    BY <1>1, <2>1, GapsMeet
  <2> HIDE DEF g, B
  <2>3. B \in 0 .. 0 + g - 1 /\ hold >= 0 /\ 0 \in Int
    BY <1>3, <1>4, <1>5, <2>1
  <2>4. hold >= B /\ MultipleOf(g, hold - B)
    BY <1>3, <1>4, <1>5, <1>6, <2>2, <2>3, NoneBefore
  <2>5. hold - B \in Int
    BY <1>5, <2>3
  <2> QED
    BY <1>3, <2>4, <2>5, RemainderZero DEF Cyc!Divides
<1>9. ASSUME K <= Cyc!MaxCycle PROVE setup = A /\ hold = B
  <2>1. /\ \A i \in Nat, j \in Nat :
             i < K /\ j * src.period <= (i + 1) * tgt.period => Compared(i, j)
        /\ Compared(K, J - 1)
    BY <1>9, CommonCycleWalked
  <2>2. \A i \in Nat, j \in Nat : Compared(i, j) => Noted(Gap(i, j))
    BY DEF WalkInv
  <2>3. \A i \in Nat, j \in Nat :
          /\ Gap(i, j) = (i * tgt.period + tgt.time) - (j * src.period + src.time)
          /\ Gap(i, j) \in Int
    BY <1>1, GapsMeet DEF Gap
  <2>4. tgt_past_src /\ setup <= A
    <3>1. PICK i \in Nat, j \in Nat :
             /\ (i < K /\ j * src.period <= (i + 1) * tgt.period) \/ (i = K /\ j = J - 1)
             /\ A = (i * tgt.period + tgt.time) - (j * src.period + src.time)
      <4> HIDE DEF g, K, J, A
      <4> QED
        BY <1>2, <1>4, <1>5, ClosestCapture
    <3>2. Compared(i, j) /\ Gap(i, j) = A
      BY <2>1, <2>3, <3>1
    <3>3. Noted(A)
      BY <2>2, <3>2
    <3>4. A > 0
      BY <1>3, <1>4
    <3> HIDE DEF A
    <3> QED
      BY <3>3, <3>4 DEF Noted
  <2>5. src_past_tgt /\ hold <= B
    <3>1. PICK i \in Nat, j \in Nat :
             /\ i < K /\ j * src.period <= (i + 1) * tgt.period
             /\ B = (j * src.period + src.time) - (i * tgt.period + tgt.time)
      <4> HIDE DEF g, K, J, B
      <4> QED
        BY <1>2, <1>4, <1>5, ClosestLaunch
    <3>2. Compared(i, j) /\ Gap(i, j) \in Int
      BY <2>1, <2>3, <3>1
    <3>3. Gap(i, j) = -B
      <4>1. \A m \in Int, n \in Int : m - n = -(n - m)
        OBVIOUS
      <4>2. src.period \in Nat /\ src.time \in Int /\ tgt.period \in Nat /\ tgt.time \in Int
        BY <1>1, EdgesTyped
      <4>3. (j * src.period + src.time) \in Int /\ (i * tgt.period + tgt.time) \in Int
        BY <4>2
      <4>4. Gap(i, j) = (i * tgt.period + tgt.time) - (j * src.period + src.time)
        BY <2>3
      <4> HIDE DEF B
      <4> QED
        BY <3>1, <4>1, <4>3, <4>4
    <3>4. Noted(Gap(i, j))
      BY <2>2, <3>2
    <3>5. B >= 0 /\ B \in Int
      BY <1>3, <1>4
    <3> HIDE DEF B
    <3>6. Gap(i, j) <= 0 /\ -Gap(i, j) = B
      BY <3>2, <3>3, <3>5
    <3> QED
      BY <3>4, <3>6 DEF Noted
  <2>6. setup >= A /\ hold >= B
    BY <1>7, <1>8, <2>4, <2>5
  <2>7. A \in Int /\ B \in Int
    BY <1>3, <1>4
  <2> HIDE DEF A, B
  <2> QED
    BY <1>5, <2>4, <2>5, <2>6, <2>7
<1> QED
  BY <1>7, <1>8, <1>9

\* Where both clocks' edges lie inside their periods: the setup relation is the closest capture
\* edge after a launch edge and the hold relation the closest at or before one, whenever the
\* clocks come back in step within the limit; beyond it they are those of two real edges and
\* never too short (cycle_accting, sta.rs:154).
THEOREM RelationsAreClosest ==
  ASSUME EdgesInside
  PROVE  Spec => []RelationIsClosest
<1>1. Init => (reader = "cycles" => WalkInv)
  BY WalkInit DEF Init
<1>2. (reader = "cycles" => WalkInv) /\ [Next]_vars => (reader = "cycles" => WalkInv)'
  <2>1. SUFFICES ASSUME reader = "cycles" => WalkInv, [Next]_vars, reader' = "cycles"
                 PROVE  WalkInv'
    OBVIOUS
  <2>2. WalkInv /\ (Cyc!Next \/ UNCHANGED CycVars)
    BY <2>1 DEF Next, vars, DisStep, ChkStep, DelStep, ExcStep, LdStep, SiStep, CycStep,
                CmdStep, ScrStep
  <2>3. CASE UNCHANGED CycVars
    <3>1. UNCHANGED <<src, tgt, tgt_cycle, src_cycle, setup, hold, tgt_past_src, src_past_tgt,
                      cyc_phase>>
      BY <2>3 DEF CycVars
    <3>2. /\ (Cyc!MaxCycle)' = Cyc!MaxCycle /\ (Cyc!InStep)' = Cyc!InStep /\ CycTyped' = CycTyped
          /\ \A i, j : Gap(i, j)' = Gap(i, j) /\ Compared(i, j)' = Compared(i, j)
          /\ \A e : Noted(e)' = Noted(e)
      BY <3>1 DEF Cyc!MaxCycle, Cyc!InStep, Cyc!SrcStart, Cyc!TgtStart, CycTyped, Gap, Compared,
                  Noted
    <3> QED
      BY <2>2, <3>1, <3>2 DEF WalkInv
  <2> QED
    BY WalkMoves, <2>2, <2>3
<1>3. (reader = "cycles" => WalkInv) => RelationIsClosest
  BY WalkedIsClosest DEF RelationIsClosest
<1> QED
  BY <1>1, <1>2, <1>3, PTL DEF Spec
=============================================================================
