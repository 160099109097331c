---------------------------- MODULE TimerProofs ----------------------------
(***************************************************************************)
(* Proofs about the timing session of Timer, for every netlist, library    *)
(* and sequence of client calls, and about the planners' use of it; and,   *)
(* for every client that rolls back over the same graph (SameGraphSpec),   *)
(* that the fast path agrees with a full analysis and never reads past its *)
(* arrays.                                                                 *)
(***************************************************************************)
EXTENDS PlannerSession, TLAPS

-----------------------------------------------------------------------------
(* The session and its checkpoint are each consistent                      *)

\* Netlist s, index idx, staged swaps pend and dirty flag d of one session state.
SessionOK(s, idx, pend, d) ==
  /\ s \in Seq(Inst)
  /\ \A k \in DOMAIN s : s[k].from \in DOMAIN s \cup Ports
  /\ DOMAIN idx = {s[k].name : k \in DOMAIN s}
  /\ \A k \in DOMAIN s : idx[s[k].name] = k
  /\ \A n \in DOMAIN pend :
       n \in DOMAIN idx /\ pend[n] \in Swap /\ pend[n].new = s[idx[n]].cell
  /\ DOMAIN pend # {} => d
  /\ d \in BOOLEAN

WorkingOK == SessionOK(insts, inst_idx, pending, dirty)

SavedOK ==
  saved # NoCheckpoint => SessionOK(saved.insts, saved.inst_idx, saved.pending, saved.dirty)

CountersOK == n_inc \in Nat /\ n_full \in Nat /\ alive \in BOOLEAN

SInv == WorkingOK /\ SavedOK /\ CountersOK

\* An indexed name is that of the instance at its position.
LEMMA IndexedName ==
  ASSUME NEW s, NEW idx, NEW pend, NEW d, SessionOK(s, idx, pend, d), NEW n \in DOMAIN idx
  PROVE  idx[n] \in DOMAIN s /\ s[idx[n]].name = n
BY DEF SessionOK

\* A session begins with its index made from its netlist (Timer::build).
LEMMA InitSInv == Init => SInv
<1> SUFFICES ASSUME Init PROVE SInv
  OBVIOUS
<1>1. insts \in Seq(Inst) /\ \A k \in DOMAIN insts : insts[k].from \in DOMAIN insts \cup Ports
  BY InitInstsAssumption DEF Init
<1>2. DOMAIN inst_idx = {insts[k].name : k \in DOMAIN insts}
  BY DEF Init
<1>3. \A k \in DOMAIN insts : inst_idx[insts[k].name] = k
  BY InitInstsAssumption DEF Init
<1>4. pending = EmptyFcn /\ dirty = FALSE
  BY DEF Init
<1>5. DOMAIN pending = {}
  BY <1>4 DEF EmptyFcn
<1>6. WorkingOK
  BY <1>1, <1>2, <1>3, <1>4, <1>5 DEF WorkingOK, SessionOK
<1>7. SavedOK /\ CountersOK
  BY DEF Init, SavedOK, CountersOK
<1> QED
  BY <1>6, <1>7 DEF SInv

\* A swap rewrites one cell and stages it.
LEMMA ResizeSInv ==
  ASSUME SInv, NEW n \in Names, NEW cell \in Cells \cup {BadCell}, Resize(n, cell)
  PROVE  SInv'
<1> DEFINE k == inst_idx[n]
<1>1. /\ insts \in Seq(Inst) /\ n \in DOMAIN inst_idx
      /\ insts' = [insts EXCEPT ![k].cell = cell]
      /\ pending' = Staged(n, insts[k].cell, cell)
      /\ dirty' = TRUE
      /\ UNCHANGED <<inst_idx, n_inc, n_full, saved, alive>>
  BY DEF SInv, WorkingOK, SessionOK, Resize
<1>2. k \in DOMAIN insts /\ insts[k].name = n
  BY <1>1, IndexedName DEF SInv, WorkingOK
<1>3. insts[k] \in Inst
  BY <1>1, <1>2
<1>4. /\ insts' \in Seq(Inst) /\ DOMAIN insts' = DOMAIN insts
      /\ \A j \in DOMAIN insts : /\ insts'[j].name = insts[j].name
                                 /\ insts'[j].from = insts[j].from
                                 /\ insts'[j].cell = IF j = k THEN cell ELSE insts[j].cell
  <2>1. [insts[k] EXCEPT !.cell = cell] \in Inst
    BY <1>3 DEF Inst
  <2>2. insts' = [insts EXCEPT ![k] = [insts[k] EXCEPT !.cell = cell]]
    BY <1>1
  <2>3. insts' \in Seq(Inst) /\ DOMAIN insts' = DOMAIN insts
    BY <1>1, <1>2, <2>1, <2>2
  <2>4. ASSUME NEW j \in DOMAIN insts
        PROVE  /\ insts'[j].name = insts[j].name
               /\ insts'[j].from = insts[j].from
               /\ insts'[j].cell = IF j = k THEN cell ELSE insts[j].cell
    <3>1. insts'[j] = IF j = k THEN [insts[k] EXCEPT !.cell = cell] ELSE insts[j]
      BY <2>2, <2>4
    <3> HIDE DEF k
    <3> QED
      BY <3>1, <1>3 DEF Inst
  <2> QED
    BY <2>3, <2>4
<1>5. DOMAIN pending' = DOMAIN pending \cup {n}
  BY <1>1 DEF Staged
<1>6. ASSUME NEW m \in DOMAIN pending'
      PROVE  m \in DOMAIN inst_idx' /\ pending'[m] \in Swap
             /\ pending'[m].new = insts'[inst_idx'[m]].cell
  <2>1. m \in DOMAIN inst_idx /\ inst_idx[m] \in DOMAIN insts /\ insts[inst_idx[m]].name = m
    <3>1. m \in DOMAIN inst_idx
      BY <1>1, <1>5 DEF SInv, WorkingOK, SessionOK
    <3> QED
      BY <3>1, IndexedName DEF SInv, WorkingOK
  <2>2. m \in DOMAIN pending =>
          pending[m] \in Swap /\ pending[m].new = insts[inst_idx[m]].cell
    BY DEF SInv, WorkingOK, SessionOK
  <2>3. CASE m = n
    <3>1. /\ n \in DOMAIN pending => pending[n].old \in Cells \cup {BadCell}
          /\ insts[k].cell \in Cells \cup {BadCell}
      BY <2>2, <2>3, <1>3 DEF Swap, Inst
    <3>2. pending'[n] = [old |-> IF n \in DOMAIN pending THEN pending[n].old ELSE insts[k].cell,
                         new |-> cell]
      BY <1>1, <1>5 DEF Staged
    <3>3. insts'[k].cell = cell /\ inst_idx'[m] = k
      BY <1>1, <1>2, <1>4, <2>3
    <3> HIDE DEF k
    <3> QED
      BY <3>1, <3>2, <3>3, <2>1, <2>3, <1>1 DEF Swap
  <2>4. CASE m # n
    <3>1. pending'[m] = pending[m] /\ m \in DOMAIN pending
      BY <1>1, <1>5, <2>4 DEF Staged
    <3>2. inst_idx[m] # k
      BY <1>2, <2>1, <2>4
    <3> QED
      BY <3>1, <3>2, <2>1, <2>2, <1>1, <1>4
  <2> QED
    BY <2>3, <2>4
<1>7. WorkingOK'
  <2>1. \A j \in DOMAIN insts' : insts'[j].from \in DOMAIN insts' \cup Ports
    BY <1>4 DEF SInv, WorkingOK, SessionOK
  <2>2. /\ DOMAIN inst_idx' = {insts'[j].name : j \in DOMAIN insts'}
        /\ \A j \in DOMAIN insts' : inst_idx'[insts'[j].name] = j
    BY <1>1, <1>4 DEF SInv, WorkingOK, SessionOK
  <2> QED
    BY <1>1, <1>4, <1>6, <2>1, <2>2 DEF WorkingOK, SessionOK
<1>8. SavedOK' /\ CountersOK'
  BY <1>1 DEF SInv, SavedOK, CountersOK
<1> QED
  BY <1>7, <1>8 DEF SInv

\* The netlist after an insertion, instance by instance.
LEMMA SplicedNetlist ==
  ASSUME NEW s \in Seq(Inst), NEW k \in DOMAIN s, NEW d \in Delays
  PROVE  LET t == Append([s EXCEPT ![k].from = Len(s) + 1],
                         [name |-> d, cell |-> DelayCell, from |-> s[k].from, ck |-> 0])
         IN  /\ t \in Seq(Inst)
             /\ DOMAIN t = DOMAIN s \cup {Len(s) + 1}
             /\ t[Len(s) + 1] = [name |-> d, cell |-> DelayCell, from |-> s[k].from, ck |-> 0]
             /\ \A j \in DOMAIN s : /\ t[j].name = s[j].name
                                    /\ t[j].cell = s[j].cell
                                    /\ t[j].from = IF j = k THEN Len(s) + 1 ELSE s[j].from
<1> DEFINE u == [s EXCEPT ![k].from = Len(s) + 1]
           e == [name |-> d, cell |-> DelayCell, from |-> s[k].from, ck |-> 0]
<1>1. s[k] \in Inst /\ Len(s) \in Nat /\ DOMAIN s = 1 .. Len(s)
  OBVIOUS
<1>2. [s[k] EXCEPT !.from = Len(s) + 1] \in Inst
  BY <1>1 DEF Inst
<1>3. u = [s EXCEPT ![k] = [s[k] EXCEPT !.from = Len(s) + 1]]
  OBVIOUS
<1>4. u \in Seq(Inst) /\ Len(u) = Len(s) /\ DOMAIN u = DOMAIN s
  BY <1>1, <1>2, <1>3
<1>5. e \in Inst
  BY <1>1, CellsAssumption DEF Inst, Names, Cells
<1>6. ASSUME NEW j \in DOMAIN s
      PROVE  /\ u[j].name = s[j].name
             /\ u[j].cell = s[j].cell
             /\ u[j].from = IF j = k THEN Len(s) + 1 ELSE s[j].from
  <2>1. u[j] = IF j = k THEN [s[k] EXCEPT !.from = Len(s) + 1] ELSE s[j]
    BY <1>3, <1>6
  <2> HIDE DEF u
  <2> QED
    BY <2>1, <1>1 DEF Inst
<1> HIDE DEF u, e
<1>7. /\ Append(u, e) \in Seq(Inst)
      /\ DOMAIN Append(u, e) = DOMAIN s \cup {Len(s) + 1}
      /\ Append(u, e)[Len(s) + 1] = e
      /\ \A j \in DOMAIN s : Append(u, e)[j] = u[j]
  BY <1>1, <1>4, <1>5
<1> QED
  BY <1>6, <1>7 DEF u, e

\* An insertion appends one instance and indexes it; no swap is staged.
LEMMA InsertSInv ==
  ASSUME SInv, NEW n \in Names, NEW d \in Delays, InsertDelay(n, d)
  PROVE  SInv'
<1> DEFINE k == inst_idx[n]
           l == Len(insts) + 1
<1>1. /\ insts \in Seq(Inst) /\ n \in DOMAIN inst_idx /\ d \notin DOMAIN inst_idx
      /\ insts' = Spliced(k, d)
      /\ inst_idx' = [m \in DOMAIN inst_idx \cup {d} |-> IF m = d THEN l ELSE inst_idx[m]]
      /\ dirty' = TRUE
      /\ UNCHANGED <<pending, n_inc, n_full, saved, alive>>
  BY DEF SInv, WorkingOK, SessionOK, InsertDelay
<1>2. k \in DOMAIN insts /\ insts[k].name = n
  BY <1>1, IndexedName DEF SInv, WorkingOK
<1>3. /\ insts' \in Seq(Inst)
      /\ DOMAIN insts' = DOMAIN insts \cup {l}
      /\ insts'[l] = [name |-> d, cell |-> DelayCell, from |-> insts[k].from, ck |-> 0]
      /\ \A j \in DOMAIN insts : /\ insts'[j].name = insts[j].name
                                 /\ insts'[j].cell = insts[j].cell
                                 /\ insts'[j].from = IF j = k THEN l ELSE insts[j].from
  BY <1>1, <1>2, SplicedNetlist DEF Spliced
<1>4. l \notin DOMAIN insts
  BY <1>1
<1> HIDE DEF k, l
<1>5. \A j \in DOMAIN insts' : insts'[j].from \in DOMAIN insts' \cup Ports
  <2>1. \A j \in DOMAIN insts : insts[j].from \in DOMAIN insts \cup Ports
    BY DEF SInv, WorkingOK, SessionOK
  <2>2. insts'[l].from \in DOMAIN insts' \cup Ports
    BY <1>2, <1>3, <2>1
  <2>3. \A j \in DOMAIN insts : insts'[j].from \in DOMAIN insts' \cup Ports
    BY <1>3, <2>1
  <2> QED
    BY <1>3, <2>2, <2>3
<1>6. insts'[l].name = d
  BY <1>3
<1>7. DOMAIN inst_idx = {insts[j].name : j \in DOMAIN insts}
      /\ \A j \in DOMAIN insts : inst_idx[insts[j].name] = j
  BY DEF SInv, WorkingOK, SessionOK
<1>8. DOMAIN inst_idx' = {insts'[j].name : j \in DOMAIN insts'}
  BY <1>1, <1>3, <1>6, <1>7, SMTT(40)
<1>9. \A j \in DOMAIN insts' : inst_idx'[insts'[j].name] = j
  <2>1. inst_idx'[d] = l
    BY <1>1
  <2>2. ASSUME NEW j \in DOMAIN insts PROVE inst_idx'[insts'[j].name] = j
    <3>1. insts[j].name \in DOMAIN inst_idx /\ insts[j].name # d /\ insts'[j].name = insts[j].name
      BY <1>1, <1>3, <1>7
    <3> QED
      BY <3>1, <1>1, <1>7
  <2> QED
    BY <1>3, <1>6, <2>1, <2>2
<1>10. ASSUME NEW m \in DOMAIN pending'
       PROVE  m \in DOMAIN inst_idx' /\ pending'[m] \in Swap
              /\ pending'[m].new = insts'[inst_idx'[m]].cell
  <2>1. m \in DOMAIN inst_idx /\ pending[m] \in Swap /\ pending[m].new = insts[inst_idx[m]].cell
    BY <1>1 DEF SInv, WorkingOK, SessionOK
  <2>2. inst_idx[m] \in DOMAIN insts
    BY <2>1, IndexedName DEF SInv, WorkingOK
  <2>3. m # d /\ inst_idx'[m] = inst_idx[m]
    BY <1>1, <2>1
  <2> QED
    BY <1>1, <1>3, <2>1, <2>2, <2>3
<1>11. WorkingOK'
  BY <1>1, <1>3, <1>5, <1>8, <1>9, <1>10 DEF WorkingOK, SessionOK
<1>12. SavedOK' /\ CountersOK'
  BY <1>1 DEF SInv, SavedOK, CountersOK
<1> QED
  BY <1>11, <1>12 DEF SInv

\* A served update settles the session.
LEMMA SettleSInv ==
  ASSUME SInv, dirty' = FALSE, pending' = EmptyFcn, n_inc' \in Nat, n_full' \in Nat,
         UNCHANGED <<insts, inst_idx, saved, alive>>
  PROVE  SInv'
<1>1. DOMAIN pending' = {}
  BY DEF EmptyFcn
<1>2. /\ insts \in Seq(Inst)
      /\ \A k \in DOMAIN insts : insts[k].from \in DOMAIN insts \cup Ports
      /\ DOMAIN inst_idx = {insts[k].name : k \in DOMAIN insts}
      /\ \A k \in DOMAIN insts : inst_idx[insts[k].name] = k
  BY DEF SInv, WorkingOK, SessionOK
<1>3. SessionOK(insts, inst_idx, pending', FALSE)
  BY <1>1, <1>2 DEF SessionOK
<1>4. WorkingOK'
  BY <1>3 DEF WorkingOK
<1>5. SavedOK' /\ CountersOK'
  BY DEF SInv, SavedOK, CountersOK
<1> QED
  BY <1>4, <1>5 DEF SInv

\* A checkpoint is as consistent as the session (Timer::checkpoint).
LEMMA CheckpointSInv == SInv /\ Checkpoint => SInv'
<1> SUFFICES ASSUME SInv, Checkpoint PROVE SInv'
  OBVIOUS
<1>1. /\ saved'.insts = insts /\ saved'.inst_idx = inst_idx
      /\ saved'.pending = pending /\ saved'.dirty = dirty
  BY DEF Checkpoint
<1>2. UNCHANGED <<insts, inst_idx, pending, dirty, n_inc, n_full, alive>>
  BY DEF Checkpoint
<1>3. WorkingOK' /\ CountersOK'
  BY <1>2 DEF SInv, WorkingOK, CountersOK
<1>4. SavedOK'
  BY <1>1 DEF SInv, WorkingOK, SavedOK
<1> QED
  BY <1>3, <1>4 DEF SInv

\* A restored session is as consistent as the checkpoint (Timer::restore).
LEMMA RestoreSInv == SInv /\ Restore => SInv'
<1> SUFFICES ASSUME SInv, Restore PROVE SInv'
  OBVIOUS
<1>1. /\ insts' = saved.insts /\ inst_idx' = saved.inst_idx
      /\ pending' = saved.pending /\ dirty' = saved.dirty
      /\ saved # NoCheckpoint /\ saved' = NoCheckpoint
      /\ UNCHANGED <<n_inc, n_full, alive>>
  BY DEF Restore
<1>2. WorkingOK'
  BY <1>1 DEF SInv, SavedOK, WorkingOK
<1>3. SavedOK' /\ CountersOK'
  BY <1>1 DEF SInv, SavedOK, CountersOK
<1> QED
  BY <1>2, <1>3 DEF SInv

\* Every call of a client keeps the invariant.
LEMMA NextSInv == SInv /\ [Next]_vars => SInv'
<1> SUFFICES ASSUME SInv, [Next]_vars PROVE SInv'
  OBVIOUS
<1>1. CASE Edit
  BY <1>1, ResizeSInv, InsertSInv DEF Edit
<1>2. CASE UpdateIncremental
  <2>1. dirty' = FALSE /\ pending' = EmptyFcn /\ n_inc' = n_inc + 1
        /\ UNCHANGED <<insts, inst_idx, saved, alive, n_full>>
    BY <1>2 DEF UpdateIncremental
  <2>2. n_inc' \in Nat /\ n_full' \in Nat
    BY <2>1 DEF SInv, CountersOK
  <2> QED
    BY <2>1, <2>2, SettleSInv
<1>3. CASE UpdateFull
  <2>1. dirty' = FALSE /\ pending' = EmptyFcn /\ n_full' = n_full + 1
        /\ UNCHANGED <<insts, inst_idx, saved, alive, n_inc>>
    BY <1>3 DEF UpdateFull
  <2>2. n_inc' \in Nat /\ n_full' \in Nat
    BY <2>1 DEF SInv, CountersOK
  <2> QED
    BY <2>1, <2>2, SettleSInv
<1>4. CASE UpdateError
  BY <1>4 DEF UpdateError, SInv, WorkingOK, SavedOK, CountersOK
<1>5. CASE UpdatePanic
  BY <1>5 DEF UpdatePanic, SInv, WorkingOK, SavedOK, CountersOK
<1>6. CASE Checkpoint
  BY <1>6, CheckpointSInv
<1>7. CASE Keep
  BY <1>7 DEF Keep, SInv, WorkingOK, SavedOK, CountersOK
<1>8. CASE Restore
  BY <1>8, RestoreSInv
<1>9. CASE UNCHANGED vars
  BY <1>9 DEF vars, SInv, WorkingOK, SavedOK, CountersOK
<1> QED
  BY <1>1, <1>2, <1>3, <1>4, <1>5, <1>6, <1>7, <1>8, <1>9 DEF Next, Update

\* The invariant gives the types.
LEMMA SInvTypes == SInv => TypeOK
<1> SUFFICES ASSUME SInv PROVE TypeOK
  OBVIOUS
<1>1. insts \in Seq(Inst)
  BY DEF SInv, WorkingOK, SessionOK
<1>2. ASSUME NEW k \in DOMAIN insts PROVE insts[k].name \in Names
  <2>1. insts[k] \in Inst
    BY <1>1
  <2> QED
    BY <2>1 DEF Inst
<1>3. DOMAIN inst_idx \subseteq Names
  BY <1>2 DEF SInv, WorkingOK, SessionOK
<1>4. \A n \in DOMAIN inst_idx : inst_idx[n] \in DOMAIN insts
  BY IndexedName DEF SInv, WorkingOK
<1> QED
  BY <1>1, <1>3, <1>4 DEF TypeOK, SInv, WorkingOK, SessionOK, CountersOK

\* The session's variables have their types, whatever the client calls (Timer, sta.rs).
THEOREM SessionTypes == Spec => []TypeOK
BY InitSInv, NextSInv, SInvTypes, PTL DEF Spec

\* The name index follows the netlist across every insertion and rollback, also
\* when a checkpoint is restored over another netlist (Checkpoint.inst_idx, sta.rs).
THEOREM IndexFollowsNetlist == Spec => []IndexAgrees
<1>1. SInv => IndexAgrees
  BY DEF SInv, WorkingOK, SessionOK, IndexAgrees
<1> QED
  BY InitSInv, NextSInv, <1>1, PTL DEF Spec

\* The staged swaps are the netlist's own cells, and a clean session has none
\* (Timer::stage, Timer::update).
THEOREM PendingFollowsNetlist == Spec => []PendingAgrees
<1>1. SInv => PendingAgrees
  BY DEF SInv, WorkingOK, SessionOK, PendingAgrees
<1> QED
  BY InitSInv, NextSInv, <1>1, PTL DEF Spec

-----------------------------------------------------------------------------
(* The planners' use of the session: a rejected candidate leaves no trace   *)

\* The session is the kept one, with nothing staged.
AtRest == Settled = kept /\ dirty = FALSE /\ DOMAIN pending = {}

\* The checkpoint an attempt holds is the kept session, taken at rest.
SavedAtRest ==
  /\ kept = [insts |-> saved.insts, inst_idx |-> saved.inst_idx, report |-> saved.report]
  /\ saved.dirty = FALSE
  /\ DOMAIN saved.pending = {}

\* Between attempts, and before its move, the session is at rest; from the checkpoint
\* to the verdict the attempt can roll back to it; a judged session has been updated.
AttemptInv ==
  /\ phase \in {"choose", "stage"} => AtRest
  /\ phase \in {"stage", "update", "judge"} => SavedAtRest
  /\ phase = "judge" => dirty = FALSE /\ DOMAIN pending = {}

\* A plan starts on a session Timer::build has just made (Timer::build, sta.rs).
LEMMA SessionStartsAtRest == SessionInit => AttemptInv
<1> SUFFICES ASSUME SessionInit PROVE AttemptInv
  OBVIOUS
<1>1. phase = "choose" /\ Settled = kept /\ dirty = FALSE /\ pending = EmptyFcn
  BY DEF SessionInit, Init
<1>2. DOMAIN pending = {}
  BY <1>1 DEF EmptyFcn
<1> QED
  BY <1>1, <1>2 DEF AttemptInv, AtRest

\* Each step of an attempt keeps what it can roll back to (repair_hold, repair_setup).
LEMMA AttemptStep ==
  ASSUME AttemptInv, [SessionNext]_svars
  PROVE  AttemptInv'
<1>1. CASE BeginAttempt
  <2>1. /\ AtRest /\ phase' = "stage" /\ UNCHANGED kept
        /\ UNCHANGED <<insts, inst_idx, report, dirty, pending>>
    BY <1>1 DEF BeginAttempt, Checkpoint, AttemptInv
  <2>2. /\ saved'.insts = insts /\ saved'.inst_idx = inst_idx /\ saved'.report = report
        /\ saved'.dirty = dirty /\ saved'.pending = pending
    BY <1>1 DEF BeginAttempt, Checkpoint
  <2> QED
    BY <2>1, <2>2 DEF AttemptInv, AtRest, SavedAtRest, Settled
<1>2. CASE StageMove
  <2>1. /\ SavedAtRest /\ phase' = "update" /\ UNCHANGED kept
        /\ \E n \in Names : \/ \E c \in Cells \cup {BadCell} : Resize(n, c)
                            \/ \E d \in Delays : InsertDelay(n, d)
    BY <1>2 DEF StageMove, Edit, AttemptInv
  <2>2. UNCHANGED saved
    BY <2>1 DEF Resize, InsertDelay
  <2> QED
    BY <2>1, <2>2 DEF AttemptInv, SavedAtRest
<1>3. CASE StageRefused
  BY <1>3 DEF StageRefused, Keep, AttemptInv, AtRest, Settled
<1>4. CASE Retime
  <2>1. /\ SavedAtRest /\ phase' = "judge" /\ UNCHANGED <<kept, saved>>
        /\ dirty' = FALSE /\ pending' = EmptyFcn
    BY <1>4 DEF Retime, UpdateIncremental, UpdateFull, AttemptInv
  <2>2. DOMAIN pending' = {}
    BY <2>1 DEF EmptyFcn
  <2> QED
    BY <2>1, <2>2 DEF AttemptInv, SavedAtRest
<1>5. CASE RetimeFails
  BY <1>5 DEF RetimeFails, AttemptInv
<1>6. CASE KeepFix
  BY <1>6 DEF KeepFix, Keep, AttemptInv, AtRest, Settled
<1>7. CASE Revert
  BY <1>7 DEF Revert, Restore, AttemptInv, AtRest, SavedAtRest, Settled
<1>8. CASE UNCHANGED svars
  BY <1>8 DEF svars, vars, AttemptInv, AtRest, SavedAtRest, Settled
<1> QED
  BY <1>1, <1>2, <1>3, <1>4, <1>5, <1>6, <1>7, <1>8 DEF SessionNext

\* Between two attempts of a plan the session is exactly what the kept fixes made it,
\* whatever was tried, refused or rolled back on the way (repair_hold, repair_setup,
\* Timer::restore).
THEOREM RejectedAreUndone == PlannerSpec => []RejectedLeaveNoTrace
<1>1. AttemptInv => RejectedLeaveNoTrace
  BY DEF AttemptInv, AtRest, RejectedLeaveNoTrace
<1>2. AttemptInv /\ [SessionNext]_svars => AttemptInv'
  BY AttemptStep
<1> QED
  BY SessionStartsAtRest, <1>1, <1>2, PTL DEF PlannerSpec

-----------------------------------------------------------------------------
(* What a graph knows of the session it belongs to                         *)

\* The cell instance k had when the staged swaps p of netlist s began.
CellBefore(s, p, k) == IF s[k].name \in DOMAIN p THEN p[s[k].name].old ELSE s[k].cell

\* The netlists have the same instances on the same nets.
SameShape(t, s) ==
  /\ DOMAIN t = DOMAIN s
  /\ \A k \in DOMAIN s : t[k].name = s[k].name /\ t[k].from = s[k].from /\ t[k].ck = s[k].ck

\* The instances that drive a clock pin or pass the clock on.
ClockCells(s) == (Reach({ClockPort}, s) \cup {s[j].ck : j \in FlopPos}) \cap DOMAIN s

\* Topology t and state st are those of netlist s but for its staged swaps p: shape, cached
\* arcs, overrides, and a clock network no served swap has touched.
GraphOK(t, st, s, p) ==
  /\ SameShape(t, s)
  /\ st.arcs = [k \in DOMAIN s |-> CellBefore(s, p, k)]
  /\ DOMAIN st.over \subseteq DOMAIN s
  /\ \A k \in DOMAIN s :
       CellBefore(s, p, k) = IF k \in DOMAIN st.over THEN st.over[k] ELSE t[k].cell
  /\ st.clk = Reach({ClockPort}, s)
  /\ \A k \in ClockCells(s) : t[k].cell = CellBefore(s, p, k)
  /\ \A k \in FlopPos : CkCap[t[k].cell] = CkCap[CellBefore(s, p, k)]

\* The flops of the netlist the session was built from stay where they were.
FlopsOK(s) ==
  \A k \in FlopPos : k \in DOMAIN s /\ s[k].name \in Flops /\ s[k].cell \in SeqCells \cup {BadCell}

Fresh(r, s) == r.arcs = Full(s).arcs /\ r.clock = Full(s).clock

WorkingGraph == inc # NoGraph => GraphOK(inc.topo, inc.state, insts, pending)
WorkingReport == ~dirty => Fresh(report, insts)
SavedReport == saved # NoCheckpoint => /\ FlopsOK(saved.insts)
                                       /\ ~saved.dirty => Fresh(saved.report, saved.insts)
SavedGraph ==
  saved # NoCheckpoint =>
    /\ saved.fulls \in Nat /\ saved.fulls <= n_full
    /\ saved.fulls = n_full /\ inc # NoGraph =>
         \E st : saved.inc_state = {st} /\ GraphOK(inc.topo, st, saved.insts, saved.pending)

GInv == /\ WorkingGraph /\ WorkingReport /\ SavedReport /\ SavedGraph
        /\ FlopsOK(insts) /\ alive

-----------------------------------------------------------------------------
(* Reach, and the analysis, depend on the shape and on few cells           *)

\* What is reached is the seeds and instances, and depends on the shape only.
LEMMA ReachBounds ==
  ASSUME NEW S, NEW s
  PROVE  S \subseteq Reach(S, s) /\ Reach(S, s) \subseteq S \cup DOMAIN s
BY DEF Reach

\* What is reached depends on the names and drivers only, not on the cells.
LEMMA ReachShape ==
  ASSUME NEW S, NEW s, NEW t, SameShape(t, s)
  PROVE  Reach(S, t) = Reach(S, s)
<1>1. /\ DOMAIN t = DOMAIN s
      /\ \A k \in DOMAIN s : t[k].name = s[k].name /\ t[k].from = s[k].from
  BY DEF SameShape
<1> DEFINE ClosedT(T) == \A k \in DOMAIN t : t[k].name \notin Flops /\ t[k].from \in T => k \in T
           ClosedS(T) == \A k \in DOMAIN s : s[k].name \notin Flops /\ s[k].from \in T => k \in T
<1>2. \A T : ClosedT(T) <=> ClosedS(T)
  BY <1>1
<1>3. /\ Reach(S, t) = S \cup {k \in DOMAIN t : \A T \in SUBSET DOMAIN t :
                                  ClosedT(S \cup T) => k \in S \cup T}
      /\ Reach(S, s) = S \cup {k \in DOMAIN s : \A T \in SUBSET DOMAIN s :
                                  ClosedS(S \cup T) => k \in S \cup T}
  BY DEF Reach
<1> HIDE DEF ClosedT, ClosedS
<1> QED
  BY <1>1, <1>2, <1>3

\* So do the clock cells.
LEMMA ClockCellsShape ==
  ASSUME NEW s, NEW t, SameShape(t, s), FlopPos \subseteq DOMAIN s
  PROVE  ClockCells(t) = ClockCells(s)
<1>1. Reach({ClockPort}, t) = Reach({ClockPort}, s)
  BY ReachShape
<1>2. {t[j].ck : j \in FlopPos} = {s[j].ck : j \in FlopPos} /\ DOMAIN t = DOMAIN s
  BY DEF SameShape
<1> QED
  BY <1>1, <1>2 DEF ClockCells

\* The clock side of a graph whose clock cells and clock loads are the netlist's is the
\* netlist's.
LEMMA ClockSideEqual ==
  ASSUME NEW s, NEW t, SameShape(t, s), FlopPos \subseteq DOMAIN s,
         \A k \in ClockCells(s) : t[k].cell = s[k].cell,
         \A k \in FlopPos : CkCap[t[k].cell] = CkCap[s[k].cell]
  PROVE  ClockSide(t) = ClockSide(s)
<1>1. ClockCells(t) = ClockCells(s)
  BY ClockCellsShape
<1>2. /\ ClockSide(t) = [cells |-> [k \in ClockCells(t) |-> t[k].cell],
                         loads |-> [k \in FlopPos |-> CkCap[t[k].cell]]]
      /\ ClockSide(s) = [cells |-> [k \in ClockCells(s) |-> s[k].cell],
                         loads |-> [k \in FlopPos |-> CkCap[s[k].cell]]]
  BY DEF ClockSide, ClockCells
<1>3. [k \in ClockCells(t) |-> t[k].cell] = [k \in ClockCells(s) |-> s[k].cell]
  BY <1>1
<1>4. [k \in FlopPos |-> CkCap[t[k].cell]] = [k \in FlopPos |-> CkCap[s[k].cell]]
  OBVIOUS
<1> QED
  BY <1>2, <1>3, <1>4

\* A graph just captured is the netlist's, nothing being staged.
LEMMA CapturedGraph ==
  ASSUME NEW s, SimpleCtx, NEW p, DOMAIN p = {}
  PROVE  /\ Capture(s) = [topo |-> s, state |-> Capture(s).state]
         /\ GraphOK(s, Capture(s).state, s, p)
<1> DEFINE st == [arcs |-> Full(s).arcs, setup |-> Full(s).setup, over |-> EmptyFcn,
                  clk |-> Reach({ClockPort}, s)]
<1>1. Capture(s) = [topo |-> s, state |-> st]
  BY DEF Capture
<1>2. \A k : CellBefore(s, p, k) = s[k].cell
  BY DEF CellBefore
<1>3. st.arcs = [k \in DOMAIN s |-> CellBefore(s, p, k)]
  BY <1>2 DEF Full
<1>4. DOMAIN st.over = {}
  BY DEF EmptyFcn
<1>5. st.clk = Reach({ClockPort}, s)
  OBVIOUS
<1> HIDE DEF st
<1>6. GraphOK(s, st, s, p)
  BY <1>2, <1>3, <1>4, <1>5 DEF GraphOK, SameShape, ClockCells
<1> QED
  BY <1>1, <1>6

-----------------------------------------------------------------------------
(* Edits                                                                   *)

\* A swap changes one cell of the netlist.
LEMMA ResizedNetlist ==
  ASSUME SInv, NEW n \in Names, NEW cell \in Cells \cup {BadCell}, Resize(n, cell)
  PROVE  /\ inst_idx[n] \in DOMAIN insts /\ insts[inst_idx[n]].name = n
         /\ SameShape(insts', insts)
         /\ \A j \in DOMAIN insts :
              insts'[j].cell = IF j = inst_idx[n] THEN cell ELSE insts[j].cell
<1> DEFINE k == inst_idx[n]
<1>1. /\ insts \in Seq(Inst) /\ n \in DOMAIN inst_idx
      /\ insts' = [insts EXCEPT ![k].cell = cell]
  BY DEF SInv, WorkingOK, SessionOK, Resize
<1>2. k \in DOMAIN insts /\ insts[k].name = n
  BY <1>1, IndexedName DEF SInv, WorkingOK
<1>3. insts[k] \in Inst
  BY <1>1, <1>2
<1>4. insts' = [insts EXCEPT ![k] = [insts[k] EXCEPT !.cell = cell]]
  BY <1>1
<1>5. DOMAIN insts' = DOMAIN insts
  BY <1>1
<1>6. ASSUME NEW j \in DOMAIN insts
      PROVE  /\ insts'[j].name = insts[j].name /\ insts'[j].from = insts[j].from
             /\ insts'[j].ck = insts[j].ck
             /\ insts'[j].cell = IF j = k THEN cell ELSE insts[j].cell
  <2>1. insts'[j] = IF j = k THEN [insts[k] EXCEPT !.cell = cell] ELSE insts[j]
    BY <1>4, <1>6
  <2> HIDE DEF k
  <2> QED
    BY <2>1, <1>3 DEF Inst
<1> QED
  BY <1>2, <1>5, <1>6 DEF SameShape

\* What the graph compares with is not moved by a swap of the same shape that leaves the
\* settled cells alone.
LEMMA GraphFollows ==
  ASSUME NEW t, NEW st, NEW s, NEW p, NEW s2, NEW p2, GraphOK(t, st, s, p),
         SameShape(s2, s), FlopPos \subseteq DOMAIN s,
         \A k \in DOMAIN s : CellBefore(s2, p2, k) = CellBefore(s, p, k)
  PROVE  GraphOK(t, st, s2, p2)
<1>1. SameShape(t, s2)
  BY DEF GraphOK, SameShape
<1>2. Reach({ClockPort}, s2) = Reach({ClockPort}, s) /\ ClockCells(s2) = ClockCells(s)
  BY ReachShape, ClockCellsShape
<1>3. DOMAIN s2 = DOMAIN s
  BY DEF SameShape
<1>4. st.arcs = [k \in DOMAIN s2 |-> CellBefore(s2, p2, k)]
  BY <1>3 DEF GraphOK
<1>5. \A k \in ClockCells(s2) : k \in DOMAIN s
  BY <1>2 DEF ClockCells
<1> QED
  BY <1>1, <1>2, <1>3, <1>4, <1>5 DEF GraphOK

\* A staged swap leaves the graph, and what each cell was before (Timer::stage).
LEMMA ResizeGInv ==
  ASSUME SInv, GInv, NEW n \in Names, NEW cell \in Cells \cup {BadCell}, Resize(n, cell)
  PROVE  GInv'
<1> DEFINE k == inst_idx[n]
<1>1. /\ k \in DOMAIN insts /\ insts[k].name = n
      /\ SameShape(insts', insts)
      /\ \A j \in DOMAIN insts : insts'[j].cell = IF j = k THEN cell ELSE insts[j].cell
  BY ResizedNetlist
<1>2. /\ pending' = Staged(n, insts[k].cell, cell) /\ dirty' = TRUE
      /\ cell \in Candidates(n)
      /\ UNCHANGED <<report, inc, n_full, saved, alive>>
  BY DEF Resize
<1>3. \A j \in DOMAIN insts : insts[j].name = n => j = k
  BY <1>1 DEF SInv, WorkingOK, SessionOK
<1>4. ASSUME NEW j \in DOMAIN insts
      PROVE  CellBefore(insts', pending', j) = CellBefore(insts, pending, j)
  <2>1. insts'[j].name = insts[j].name
    BY <1>1 DEF SameShape
  <2>2. DOMAIN pending' = DOMAIN pending \cup {n}
    BY <1>2 DEF Staged
  <2>3. CASE j = k
    <3>1. pending'[n].old = IF n \in DOMAIN pending THEN pending[n].old ELSE insts[k].cell
      BY <1>2, <2>2 DEF Staged
    <3> QED
      BY <3>1, <2>1, <2>2, <2>3, <1>1 DEF CellBefore
  <2>4. CASE j # k
    <3>1. insts[j].name # n /\ insts'[j].cell = insts[j].cell
      BY <1>1, <1>3, <2>4
    <3>2. \A m \in DOMAIN pending : m # n => pending'[m] = pending[m]
      BY <1>2, <2>2 DEF Staged
    <3> QED
      BY <3>1, <3>2, <2>1, <2>2 DEF CellBefore
  <2> QED
    BY <2>3, <2>4
<1>5. FlopPos \subseteq DOMAIN insts
  BY DEF GInv, FlopsOK
<1>6. WorkingGraph'
  <2>1. SUFFICES ASSUME inc # NoGraph PROVE GraphOK(inc.topo, inc.state, insts', pending')
    BY <1>2 DEF WorkingGraph
  <2>2. GraphOK(inc.topo, inc.state, insts, pending)
    BY <2>1 DEF GInv, WorkingGraph
  <2> QED
    BY <2>2, <1>1, <1>4, <1>5, GraphFollows
<1>7. FlopsOK(insts')
  <2>1. ASSUME NEW j \in FlopPos
        PROVE  j \in DOMAIN insts' /\ insts'[j].name \in Flops
               /\ insts'[j].cell \in SeqCells \cup {BadCell}
    <3>1. j \in DOMAIN insts /\ insts[j].name \in Flops /\ insts[j].cell \in SeqCells \cup {BadCell}
      BY DEF GInv, FlopsOK
    <3>2. j = k => cell \in SeqCells \cup {BadCell}
      BY <3>1, <1>1, <1>2 DEF Candidates
    <3>3. DOMAIN insts' = DOMAIN insts /\ insts'[j].name = insts[j].name
      BY <3>1, <1>1 DEF SameShape
    <3> HIDE DEF k
    <3> QED
      BY <3>1, <3>2, <3>3, <1>1
  <2> QED
    BY <2>1 DEF FlopsOK
<1>8. WorkingReport' /\ SavedReport' /\ SavedGraph'
  BY <1>2 DEF GInv, WorkingReport, SavedReport, SavedGraph
<1> QED
  BY <1>2, <1>6, <1>7, <1>8 DEF GInv

\* An insertion drops the graph and leaves the flops alone.
LEMMA InsertGInv ==
  ASSUME SInv, GInv, NEW n \in Names, NEW d \in Delays, InsertDelay(n, d)
  PROVE  GInv'
<1> DEFINE k == inst_idx[n]
<1>1. /\ insts \in Seq(Inst) /\ n \in DOMAIN inst_idx
      /\ insts' = Spliced(k, d)
      /\ inc' = NoGraph /\ dirty' = TRUE
      /\ UNCHANGED <<report, n_full, saved, alive>>
  BY DEF SInv, WorkingOK, SessionOK, InsertDelay
<1>2. k \in DOMAIN insts
  BY <1>1, IndexedName DEF SInv, WorkingOK
<1>3. /\ DOMAIN insts \subseteq DOMAIN insts'
      /\ \A j \in DOMAIN insts : insts'[j].name = insts[j].name /\ insts'[j].cell = insts[j].cell
  BY <1>1, <1>2, SplicedNetlist DEF Spliced
<1>4. FlopsOK(insts')
  BY <1>3 DEF GInv, FlopsOK
<1> QED
  BY <1>1, <1>4 DEF GInv, WorkingGraph, WorkingReport, SavedReport, SavedGraph

-----------------------------------------------------------------------------
(* Updates                                                                 *)

\* Nothing is staged of an instance outside Moved; New is the netlist's own cell.
LEMMA MovedCells ==
  ASSUME SInv
  PROVE  /\ \A k \in DOMAIN insts \ Moved : CellBefore(insts, pending, k) = insts[k].cell
         /\ \A k \in Moved : /\ k \in DOMAIN insts
                             /\ New(k) = insts[k].cell
                             /\ CellBefore(insts, pending, k) = Old(k)
<1>1. ASSUME NEW k \in Moved PROVE k \in DOMAIN insts /\ New(k) = insts[k].cell
  <2>1. k \in DOMAIN insts /\ insts[k].name \in DOMAIN pending
    BY DEF Moved
  <2>2. inst_idx[insts[k].name] = k
    BY <2>1 DEF SInv, WorkingOK, SessionOK
  <2> QED
    BY <2>1, <2>2 DEF SInv, WorkingOK, SessionOK, New
<1> QED
  BY <1>1 DEF Moved, CellBefore, Old

\* The walk over the cone of a served update meets neither a swapped clock cell nor a flop
\* whose clock load changes.
LEMMA ServedClock ==
  ASSUME SInv, GInv, inc # NoGraph, Localizable(Cone)
  PROVE  /\ \A k \in ClockCells(insts) : inc.topo[k].cell = insts[k].cell
         /\ \A k \in FlopPos : CkCap[inc.topo[k].cell] = CkCap[insts[k].cell]
<1>1. GraphOK(inc.topo, inc.state, insts, pending)
  BY DEF GInv, WorkingGraph
<1>2. Moved \subseteq Cone
  BY ReachBounds DEF Cone, ConeSeeds
<1>3. FlopPos \subseteq DOMAIN insts
  BY DEF GInv, FlopsOK
<1>4. ASSUME NEW k \in ClockCells(insts) PROVE inc.topo[k].cell = insts[k].cell
  <2>1. k \in DOMAIN insts /\ inc.topo[k].cell = CellBefore(insts, pending, k)
    BY <1>1 DEF GraphOK, ClockCells
  <2>2. k \notin Cone
    <3>1. CASE k \in Reach({ClockPort}, insts)
      BY <3>1, <1>1 DEF GraphOK, Localizable, TouchesClock
    <3>2. CASE \E j \in FlopPos : k = insts[j].ck
      <4>1. PICK j \in FlopPos : k = insts[j].ck
        BY <3>2
      <4>2. j \in DOMAIN inc.topo /\ inc.topo[j].ck = k
        BY <4>1, <1>1, <1>3 DEF GraphOK, SameShape
      <4> QED
        BY <4>2 DEF Localizable, TouchesClock
    <3> QED
      BY <3>1, <3>2 DEF ClockCells
  <2> QED
    BY <2>1, <2>2, <1>2, MovedCells
<1>5. ASSUME NEW k \in FlopPos PROVE CkCap[inc.topo[k].cell] = CkCap[insts[k].cell]
  <2>1. CkCap[inc.topo[k].cell] = CkCap[CellBefore(insts, pending, k)]
    BY <1>1 DEF GraphOK
  <2>2. CASE k \in Moved
    <3>1. New(k) = insts[k].cell /\ CellBefore(insts, pending, k) = Old(k)
      BY <2>2, MovedCells
    <3>2. New(k) \in SeqCells \cup {BadCell}
      BY <3>1 DEF GInv, FlopsOK
    <3>3. New(k) \in SeqCells /\ CkCap[Old(k)] = CkCap[New(k)]
      BY <3>2, <2>2 DEF Localizable, RefusedMoves, CkLoadPreserving
    <3> QED
      BY <2>1, <3>1, <3>3
  <2>3. CASE k \notin Moved
    BY <2>1, <2>3, <1>3, MovedCells
  <2> QED
    BY <2>2, <2>3
<1> QED
  BY <1>4, <1>5

\* The fast path leaves the arcs and the clock side of the netlist it served.
LEMMA IncrementalGInv == SInv /\ GInv /\ UpdateIncremental => GInv'
<1> SUFFICES ASSUME SInv, GInv, UpdateIncremental PROVE GInv'
  OBVIOUS
<1> DEFINE t == inc.topo
           st == IncState(Cone)
<1>1. /\ inc # NoGraph /\ Localizable(Cone)
      /\ report' = IncReport(Cone)
      /\ inc' = [topo |-> t, state |-> st]
      /\ pending' = EmptyFcn /\ dirty' = FALSE
      /\ UNCHANGED <<insts, n_full, saved, alive>>
  BY DEF UpdateIncremental
<1>2. GraphOK(t, inc.state, insts, pending)
  BY <1>1 DEF GInv, WorkingGraph
<1>3. FlopPos \subseteq DOMAIN insts
  BY DEF GInv, FlopsOK
<1>4. DOMAIN pending' = {}
  BY <1>1 DEF EmptyFcn
<1>5. \A k : CellBefore(insts, pending', k) = insts[k].cell
  BY <1>4 DEF CellBefore
<1>6. ASSUME NEW k \in DOMAIN insts PROVE ArcsOf(k) = insts[k].cell
  <2>1. CASE k \in Moved
    BY <2>1, MovedCells DEF ArcsOf, NewOver
  <2>2. CASE k \notin Moved
    <3>1. CellBefore(insts, pending, k) = insts[k].cell
      BY <2>2, MovedCells
    <3>2. insts[k].cell = IF k \in DOMAIN inc.state.over THEN inc.state.over[k] ELSE t[k].cell
      BY <3>1, <1>2 DEF GraphOK
    <3> QED
      BY <3>2, <2>2 DEF ArcsOf, NewOver
  <2> QED
    BY <2>1, <2>2
<1>7. IncArcs(Cone) = [k \in DOMAIN insts |-> insts[k].cell]
  <2>1. DOMAIN inc.state.arcs = DOMAIN insts
    BY <1>2 DEF GraphOK
  <2>2. ASSUME NEW k \in DOMAIN insts, k \notin Cone PROVE inc.state.arcs[k] = insts[k].cell
    <3>1. k \notin Moved
      BY <2>2, ReachBounds DEF Cone, ConeSeeds
    <3>2. CellBefore(insts, pending, k) = insts[k].cell
      BY <3>1, MovedCells
    <3> QED
      BY <3>2, <1>2 DEF GraphOK
  <2> QED
    BY <2>1, <2>2, <1>6 DEF IncArcs
<1>8. /\ \A k \in ClockCells(insts) : t[k].cell = insts[k].cell
      /\ \A k \in FlopPos : CkCap[t[k].cell] = CkCap[insts[k].cell]
  BY <1>1, ServedClock
<1>9. WorkingReport'
  <2>1. SameShape(t, insts)
    BY <1>2 DEF GraphOK
  <2>2. ClockSide(t) = ClockSide(insts)
    BY <2>1, <1>3, <1>8, ClockSideEqual
  <2>3. report'.arcs = [k \in DOMAIN insts |-> insts[k].cell] /\ report'.clock = ClockSide(t)
    BY <1>1, <1>7 DEF IncReport
  <2> QED
    BY <2>2, <2>3, <1>1 DEF WorkingReport, Fresh, Full
<1>10. GraphOK(t, st, insts, pending')
  <2>1. /\ SameShape(t, insts)
        /\ DOMAIN inc.state.over \subseteq DOMAIN insts
        /\ inc.state.clk = Reach({ClockPort}, insts)
    BY <1>2 DEF GraphOK
  <2>2. st.arcs = IncArcs(Cone) /\ st.over = NewOver /\ st.clk = inc.state.clk
    BY DEF IncState
  <2>3. st.arcs = [k \in DOMAIN insts |-> CellBefore(insts, pending', k)]
    BY <2>2, <1>5, <1>7
  <2>4. DOMAIN st.over \subseteq DOMAIN insts
    BY <2>1, <2>2 DEF NewOver, Moved
  <2>5. ASSUME NEW k \in DOMAIN insts
        PROVE  insts[k].cell = IF k \in DOMAIN st.over THEN st.over[k] ELSE t[k].cell
    BY <2>2, <1>6 DEF ArcsOf
  <2> HIDE DEF t, st
  <2> QED
    BY <2>1, <2>2, <2>3, <2>4, <2>5, <1>5, <1>8 DEF GraphOK
<1>11. WorkingGraph'
  BY <1>1, <1>10 DEF WorkingGraph
<1>12. SavedReport' /\ FlopsOK(insts')
  BY <1>1 DEF GInv, SavedReport
<1>13. SavedGraph'
  BY <1>1 DEF GInv, SavedGraph
<1> QED
  BY <1>1, <1>9, <1>11, <1>12, <1>13 DEF GInv

\* A full analysis captures a new graph, under which no older checkpoint is restored.
LEMMA FullGInv == SInv /\ GInv /\ UpdateFull => GInv'
<1> SUFFICES ASSUME SInv, GInv, UpdateFull PROVE GInv'
  OBVIOUS
<1>1. /\ report' = Full(insts) /\ inc' = Capture(insts)
      /\ pending' = EmptyFcn /\ n_full' = n_full + 1
      /\ UNCHANGED <<insts, saved, alive>>
  BY DEF UpdateFull
<1>2. DOMAIN pending' = {}
  BY <1>1 DEF EmptyFcn
<1>3. WorkingGraph'
  <2>1. CASE SimpleCtx
    <3>1. /\ inc' = [topo |-> insts, state |-> Capture(insts).state]
          /\ GraphOK(insts, Capture(insts).state, insts, pending')
      BY <2>1, <1>1, <1>2, CapturedGraph
    <3> QED
      BY <3>1, <1>1 DEF WorkingGraph
  <2>2. CASE ~SimpleCtx
    BY <2>2, <1>1 DEF WorkingGraph, Capture
  <2> QED
    BY <2>1, <2>2
<1>4. WorkingReport' /\ SavedReport' /\ FlopsOK(insts')
  BY <1>1 DEF GInv, WorkingReport, SavedReport, Fresh
<1>5. SavedGraph'
  <2>1. n_full \in Nat
    BY DEF SInv, CountersOK
  <2> QED
    BY <2>1, <1>1 DEF GInv, SavedGraph
<1> QED
  BY <1>1, <1>3, <1>4, <1>5 DEF GInv

\* No cone of a graph that belongs to the session leaves its arrays.
LEMMA NeverOutOfBounds ==
  ASSUME SInv, GInv, inc # NoGraph
  PROVE  InBounds(Cone)
<1>1. GraphOK(inc.topo, inc.state, insts, pending)
  BY DEF GInv, WorkingGraph
<1>2. DOMAIN inc.topo = DOMAIN insts /\ DOMAIN inc.state.arcs = DOMAIN insts
  BY <1>1 DEF GraphOK, SameShape
<1>3. ConeSeeds \subseteq DOMAIN insts \cup Ports
  BY DEF ConeSeeds, Moved, SInv, WorkingOK, SessionOK
<1>4. Cone \subseteq ConeSeeds \cup DOMAIN inc.topo
  BY ReachBounds DEF Cone
<1> QED
  BY <1>2, <1>3, <1>4 DEF InBounds

-----------------------------------------------------------------------------
(* Checkpoints                                                             *)

\* A checkpoint holds the graph's state with the netlist it is for.
LEMMA CheckpointGInv == SInv /\ GInv /\ Checkpoint => GInv'
<1> SUFFICES ASSUME SInv, GInv, Checkpoint PROVE GInv'
  OBVIOUS
<1>1. /\ saved'.insts = insts /\ saved'.report = report /\ saved'.dirty = dirty
      /\ saved'.inc_state = IF inc = NoGraph THEN {} ELSE {inc.state}
      /\ saved'.pending = pending /\ saved'.fulls = n_full
      /\ UNCHANGED <<insts, report, dirty, pending, inc, n_full, alive>>
  BY DEF Checkpoint
<1>2. WorkingGraph' /\ WorkingReport' /\ FlopsOK(insts')
  BY <1>1 DEF GInv, WorkingGraph, WorkingReport
<1>3. SavedReport'
  BY <1>1 DEF GInv, SavedReport, WorkingReport
<1>4. SavedGraph'
  <2>1. n_full \in Nat
    BY DEF SInv, CountersOK
  <2>2. inc # NoGraph => /\ saved'.inc_state = {inc.state}
                         /\ GraphOK(inc.topo, inc.state, saved'.insts, saved'.pending)
    BY <1>1 DEF GInv, WorkingGraph
  <2> QED
    BY <2>1, <2>2, <1>1 DEF SavedGraph
<1> QED
  BY <1>1, <1>2, <1>3, <1>4 DEF GInv

\* A restore with no full analysis since puts back a state for the graph in hand.
LEMMA RestoreGInv == SInv /\ GInv /\ SameGraphRestore => GInv'
<1> SUFFICES ASSUME SInv, GInv, SameGraphRestore PROVE GInv'
  OBVIOUS
<1>1. /\ saved # NoCheckpoint /\ saved.fulls = n_full /\ saved' = NoCheckpoint
      /\ insts' = saved.insts /\ report' = saved.report /\ dirty' = saved.dirty
      /\ pending' = saved.pending /\ inc' = RestoredGraph
      /\ UNCHANGED <<n_full, alive>>
  BY DEF SameGraphRestore, Restore
<1>2. WorkingGraph'
  <2>1. CASE inc = NoGraph
    BY <2>1, <1>1 DEF WorkingGraph, RestoredGraph
  <2>2. CASE inc # NoGraph
    <3>1. PICK st : saved.inc_state = {st} /\ GraphOK(inc.topo, st, saved.insts, saved.pending)
      BY <2>2, <1>1 DEF GInv, SavedGraph
    <3>2. (CHOOSE state \in {st} : TRUE) = st
      OBVIOUS
    <3>3. inc' = [topo |-> inc.topo, state |-> st]
      BY <3>1, <3>2, <2>2, <1>1 DEF RestoredGraph
    <3> QED
      BY <3>1, <3>3, <1>1 DEF WorkingGraph
  <2> QED
    BY <2>1, <2>2
<1>3. WorkingReport' /\ FlopsOK(insts')
  BY <1>1 DEF GInv, WorkingReport, SavedReport
<1>4. SavedReport' /\ SavedGraph'
  BY <1>1 DEF SavedReport, SavedGraph
<1> QED
  BY <1>1, <1>2, <1>3, <1>4 DEF GInv

-----------------------------------------------------------------------------
(* The theorems                                                            *)

\* A session begins with the graph of its netlist (Timer::build).
LEMMA InitGInv == Init => GInv
<1> SUFFICES ASSUME Init PROVE GInv
  OBVIOUS
<1>1. /\ insts = InitInsts /\ report = Full(InitInsts) /\ inc = Capture(InitInsts)
      /\ pending = EmptyFcn /\ saved = NoCheckpoint /\ alive = TRUE
  BY DEF Init
<1>2. DOMAIN pending = {}
  BY <1>1 DEF EmptyFcn
<1>3. WorkingGraph
  <2>1. CASE SimpleCtx
    <3>1. /\ inc = [topo |-> insts, state |-> Capture(insts).state]
          /\ GraphOK(insts, Capture(insts).state, insts, pending)
      BY <2>1, <1>1, <1>2, CapturedGraph
    <3> QED
      BY <3>1 DEF WorkingGraph
  <2>2. CASE ~SimpleCtx
    BY <2>2, <1>1 DEF WorkingGraph, Capture
  <2> QED
    BY <2>1, <2>2
<1>4. FlopsOK(insts)
  BY <1>1, InitInstsAssumption DEF FlopsOK, FlopPos
<1> QED
  BY <1>1, <1>3, <1>4 DEF GInv, WorkingReport, Fresh, SavedReport, SavedGraph

\* Every step of a client that restores over the same graph keeps the invariant.
LEMMA NextGInv == SInv /\ GInv /\ [NextSameGraph]_vars => GInv'
<1> SUFFICES ASSUME SInv, GInv, [NextSameGraph]_vars PROVE GInv'
  OBVIOUS
<1>1. CASE Edit
  BY <1>1, ResizeGInv, InsertGInv DEF Edit
<1>2. CASE UpdateIncremental
  BY <1>2, IncrementalGInv
<1>3. CASE UpdateFull
  BY <1>3, FullGInv
<1>4. CASE UpdateError
  BY <1>4 DEF UpdateError, GInv, WorkingGraph, WorkingReport, SavedReport, SavedGraph
<1>5. CASE UpdatePanic
  BY <1>5, NeverOutOfBounds DEF UpdatePanic
<1>6. CASE Checkpoint
  BY <1>6, CheckpointGInv
<1>7. CASE Keep
  BY <1>7 DEF Keep, GInv, WorkingGraph, WorkingReport, SavedReport, SavedGraph
<1>8. CASE SameGraphRestore
  BY <1>8, RestoreGInv
<1>9. CASE UNCHANGED vars
  BY <1>9 DEF vars, GInv, WorkingGraph, WorkingReport, SavedReport, SavedGraph
<1> QED
  BY <1>1, <1>2, <1>3, <1>4, <1>5, <1>6, <1>7, <1>8, <1>9 DEF NextSameGraph, Update

\* Both invariants hold in every state such a client reaches.
LEMMA SameGraphInvariant == SameGraphSpec => [](SInv /\ GInv)
<1>1. SInv /\ [NextSameGraph]_vars => SInv'
  BY NextSInv DEF NextSameGraph, SameGraphRestore, Next
<1> QED
  BY <1>1, InitSInv, InitGInv, NextGInv, PTL DEF SameGraphSpec

\* A client that rolls back over the same graph never makes the fast path read past the
\* end of a cached array (try_update, inc.rs:549).
THEOREM SameGraphNoPanic == SameGraphSpec => []NoPanic
BY SameGraphInvariant, PTL DEF GInv, NoPanic

\* For such a client every report of a clean session is computed from the netlist's own
\* delay arcs, whichever path served the update ("can never silently diverge", inc.rs:27).
THEOREM SameGraphArcs == SameGraphSpec => []ArcsFaithful
<1>1. GInv => ArcsFaithful
  BY DEF GInv, WorkingReport, Fresh, ArcsFaithful
<1> QED
  BY <1>1, SameGraphInvariant, PTL

\* For such a client the fast path serves no update that changes the clock network the
\* checks rest on (ck_load_preserving and the cone walk, inc.rs:107, 453).
THEOREM SameGraphClock == SameGraphSpec => []ClockFaithful
<1>1. GInv => ClockFaithful
  BY DEF GInv, WorkingReport, Fresh, ClockFaithful
<1> QED
  BY <1>1, SameGraphInvariant, PTL

-----------------------------------------------------------------------------
(* The promise, for clients that swap no flop                              *)

\* The client proposes no sequential cell.
CombinationalOnly == Proposals \cap SeqCells = {}

\* The absence of a checkpoint is not a checkpoint, neither the session's nor the promise's.
NoCheckpointIsNone ==
  /\ \A i, x, r, d, c, p, n :
       NoCheckpoint # [insts |-> i, inst_idx |-> x, report |-> r, dirty |-> d,
                       inc_state |-> c, pending |-> p, fulls |-> n]
  /\ \A s, r, d : NoCheckpoint # [nl |-> s, report |-> r, dirty |-> d]

\* A staged flop has been given an unknown cell.
FlopsStay(s, p) == \A k \in FlopPos : s[k].name \in DOMAIN p => s[k].cell = BadCell

\* The records of the graph hold the tables of the netlist's own flops.
ChecksOK(t, st, s, p) ==
  /\ \A k \in FlopPos : t[k].cell = CellBefore(s, p, k)
  /\ st.setup = [k \in FlopPos |-> CellBefore(s, p, k)]

WorkingChecks == inc # NoGraph => ChecksOK(inc.topo, inc.state, insts, pending)
SavedChecks ==
  saved # NoCheckpoint =>
    /\ FlopsStay(saved.insts, saved.pending)
    /\ ~saved.dirty => saved.report = Full(saved.insts)
    /\ saved.fulls = n_full /\ inc # NoGraph =>
         \E st : saved.inc_state = {st} /\ ChecksOK(inc.topo, st, saved.insts, saved.pending)

HInv == /\ WorkingChecks /\ SavedChecks
        /\ FlopsStay(insts, pending)
        /\ ~dirty => report = Full(insts)

\* A capture holds the checks of the netlist it is made of (build_report).
LEMMA CapturedChecks ==
  ASSUME NEW s, SimpleCtx, NEW p, DOMAIN p = {}
  PROVE  /\ Capture(s) = [topo |-> s, state |-> Capture(s).state]
         /\ ChecksOK(s, Capture(s).state, s, p)
<1>1. \A k : CellBefore(s, p, k) = s[k].cell
  BY DEF CellBefore
<1>2. Capture(s).state.setup = [k \in FlopPos |-> s[k].cell]
  BY DEF Capture, Full
<1>3. ChecksOK(s, Capture(s).state, s, p)
  BY <1>1, <1>2 DEF ChecksOK
<1> QED
  BY <1>3, CapturedGraph

\* A session begins with the checks of its netlist.
LEMMA InitHInv == Init => HInv
<1> SUFFICES ASSUME Init PROVE HInv
  OBVIOUS
<1>1. /\ insts = InitInsts /\ report = Full(InitInsts) /\ inc = Capture(InitInsts)
      /\ pending = EmptyFcn /\ saved = NoCheckpoint
  BY DEF Init
<1>2. DOMAIN pending = {}
  BY <1>1 DEF EmptyFcn
<1>3. WorkingChecks
  <2>1. CASE SimpleCtx
    <3>1. /\ inc = [topo |-> insts, state |-> Capture(insts).state]
          /\ ChecksOK(insts, Capture(insts).state, insts, pending)
      BY <2>1, <1>1, <1>2, CapturedChecks
    <3> QED
      BY <3>1 DEF WorkingChecks
  <2>2. CASE ~SimpleCtx
    BY <2>2, <1>1 DEF WorkingChecks, Capture
  <2> QED
    BY <2>1, <2>2
<1> QED
  BY <1>1, <1>2, <1>3 DEF HInv, SavedChecks, FlopsStay

\* A staged swap leaves the checks the graph has, and the flops.
LEMMA ResizeHInv ==
  ASSUME CombinationalOnly, SInv, GInv, HInv,
         NEW n \in Names, NEW cell \in Cells \cup {BadCell}, Resize(n, cell)
  PROVE  HInv'
<1> DEFINE k == inst_idx[n]
<1>1. /\ k \in DOMAIN insts /\ insts[k].name = n
      /\ SameShape(insts', insts)
      /\ \A j \in DOMAIN insts : insts'[j].cell = IF j = k THEN cell ELSE insts[j].cell
  BY ResizedNetlist
<1>2. /\ pending' = Staged(n, insts[k].cell, cell) /\ dirty' = TRUE
      /\ cell \in Candidates(n)
      /\ UNCHANGED <<report, inc, n_full, saved>>
  BY DEF Resize
<1>3. \A j \in DOMAIN insts : insts[j].name = n => j = k
  BY <1>1 DEF SInv, WorkingOK, SessionOK
<1>4. DOMAIN pending' = DOMAIN pending \cup {n}
  BY <1>2 DEF Staged
<1>5. ASSUME NEW j \in FlopPos
      PROVE  /\ CellBefore(insts', pending', j) = CellBefore(insts, pending, j)
             /\ insts'[j].name \in DOMAIN pending' => insts'[j].cell = BadCell
  <2>1. j \in DOMAIN insts /\ insts[j].name \in Flops
    BY DEF GInv, FlopsOK
  <2>2. insts'[j].name = insts[j].name
    BY <2>1, <1>1 DEF SameShape
  <2>3. CASE j = k
    <3>1. cell = BadCell
      BY <2>1, <2>3, <1>1, <1>2 DEF Candidates, CombinationalOnly
    <3>2. pending'[n].old = IF n \in DOMAIN pending THEN pending[n].old ELSE insts[k].cell
      BY <1>2, <1>4 DEF Staged
    <3> QED
      BY <3>1, <3>2, <2>2, <2>3, <1>1, <1>4 DEF CellBefore
  <2>4. CASE j # k
    <3>1. insts[j].name # n /\ insts'[j].cell = insts[j].cell
      BY <1>1, <1>3, <2>1, <2>4
    <3>2. \A m \in DOMAIN pending : m # n => pending'[m] = pending[m]
      BY <1>2, <1>4 DEF Staged
    <3> QED
      BY <3>1, <3>2, <2>2, <1>4 DEF CellBefore, HInv, FlopsStay
  <2> QED
    BY <2>3, <2>4
<1>6. [j \in FlopPos |-> CellBefore(insts', pending', j)] = [j \in FlopPos |-> CellBefore(insts, pending, j)]
  BY <1>5
<1>7. WorkingChecks'
  BY <1>2, <1>5, <1>6 DEF HInv, WorkingChecks, ChecksOK
<1>8. SavedChecks' /\ FlopsStay(insts', pending')
  BY <1>2, <1>5 DEF HInv, SavedChecks, FlopsStay
<1> QED
  BY <1>2, <1>7, <1>8 DEF HInv

\* An insertion drops the graph and leaves the flops.
LEMMA InsertHInv ==
  ASSUME SInv, GInv, HInv, NEW n \in Names, NEW d \in Delays, InsertDelay(n, d)
  PROVE  HInv'
<1> DEFINE k == inst_idx[n]
<1>1. /\ insts \in Seq(Inst) /\ n \in DOMAIN inst_idx
      /\ insts' = Spliced(k, d)
      /\ inc' = NoGraph /\ dirty' = TRUE
      /\ UNCHANGED <<report, pending, n_full, saved>>
  BY DEF SInv, WorkingOK, SessionOK, InsertDelay
<1>2. k \in DOMAIN insts
  BY <1>1, IndexedName DEF SInv, WorkingOK
<1>3. \A j \in DOMAIN insts : insts'[j].name = insts[j].name /\ insts'[j].cell = insts[j].cell
  BY <1>1, <1>2, SplicedNetlist DEF Spliced
<1>4. FlopsStay(insts', pending')
  BY <1>1, <1>3 DEF HInv, FlopsStay, GInv, FlopsOK
<1> QED
  BY <1>1, <1>4 DEF HInv, WorkingChecks, SavedChecks

\* A served update moves no flop.
LEMMA IncrementalHInv == SInv /\ GInv /\ HInv /\ UpdateIncremental => HInv'
<1> SUFFICES ASSUME SInv, GInv, HInv, UpdateIncremental PROVE HInv'
  OBVIOUS
<1>1. /\ inc # NoGraph /\ Localizable(Cone)
      /\ report' = IncReport(Cone)
      /\ inc' = [topo |-> inc.topo, state |-> IncState(Cone)]
      /\ pending' = EmptyFcn /\ dirty' = FALSE
      /\ UNCHANGED <<insts, n_full, saved>>
  BY DEF UpdateIncremental
<1>2. DOMAIN pending' = {}
  BY <1>1 DEF EmptyFcn
<1>3. ASSUME NEW k \in FlopPos
      PROVE  /\ k \notin Moved
             /\ inc.topo[k].cell = insts[k].cell
             /\ inc.state.setup[k] = insts[k].cell
             /\ CellBefore(insts, pending', k) = insts[k].cell
  <2>1. k \in DOMAIN insts
    BY DEF GInv, FlopsOK
  <2>2. k \notin Moved
    <3>1. SUFFICES ASSUME k \in Moved PROVE FALSE
      OBVIOUS
    <3>2. insts[k].cell = BadCell
      BY <3>1 DEF HInv, FlopsStay, Moved
    <3>3. New(k) = BadCell
      BY <3>1, <3>2, MovedCells
    <3> QED
      BY <3>1, <3>3, <1>1 DEF Localizable, RefusedMoves
  <2>3. CellBefore(insts, pending, k) = insts[k].cell
    BY <2>1, <2>2, MovedCells
  <2> QED
    BY <2>2, <2>3, <1>1, <1>2 DEF HInv, WorkingChecks, ChecksOK, CellBefore
<1>4. /\ IncSetup(Cone) = [k \in FlopPos |-> insts[k].cell]
      /\ IncHold = [k \in FlopPos |-> insts[k].cell]
  BY <1>3 DEF IncSetup, IncHold, ConsOf
<1>5. WorkingChecks'
  <2>1. inc'.state.setup = IncSetup(Cone) /\ inc'.topo = inc.topo
    BY <1>1 DEF IncState
  <2>2. inc'.state.setup = [k \in FlopPos |-> CellBefore(insts, pending', k)]
    BY <2>1, <1>3, <1>4
  <2> QED
    BY <2>1, <2>2, <1>1, <1>3 DEF WorkingChecks, ChecksOK
<1>6. report' = Full(insts')
  <2>1. report'.arcs = Full(insts).arcs /\ report'.clock = Full(insts).clock
    BY <1>1, IncrementalGInv DEF GInv, WorkingReport, Fresh
  <2>2. report' = [arcs |-> IncArcs(Cone), clock |-> ClockSide(inc.topo),
                   setup |-> IncSetup(Cone), hold |-> IncHold]
    BY <1>1 DEF IncReport
  <2>3. Full(insts) = [arcs |-> Full(insts).arcs, clock |-> Full(insts).clock,
                       setup |-> [k \in FlopPos |-> insts[k].cell],
                       hold |-> [k \in FlopPos |-> insts[k].cell]]
    BY DEF Full
  <2>4. IncArcs(Cone) = Full(insts).arcs /\ ClockSide(inc.topo) = Full(insts).clock
    BY <2>1, <2>2
  <2> QED
    BY <2>2, <2>3, <2>4, <1>1, <1>4
<1>7. SavedChecks'
  BY <1>1 DEF HInv, SavedChecks
<1>8. FlopsStay(insts', pending')
  BY <1>2 DEF FlopsStay
<1> QED
  BY <1>5, <1>6, <1>7, <1>8 DEF HInv

\* A full analysis captures the checks of the netlist.
LEMMA FullHInv == SInv /\ GInv /\ HInv /\ UpdateFull => HInv'
<1> SUFFICES ASSUME SInv, GInv, HInv, UpdateFull PROVE HInv'
  OBVIOUS
<1>1. /\ report' = Full(insts) /\ inc' = Capture(insts)
      /\ pending' = EmptyFcn /\ n_full' = n_full + 1
      /\ UNCHANGED <<insts, saved>>
  BY DEF UpdateFull
<1>2. DOMAIN pending' = {}
  BY <1>1 DEF EmptyFcn
<1>3. WorkingChecks'
  <2>1. CASE SimpleCtx
    <3>1. /\ inc' = [topo |-> insts, state |-> Capture(insts).state]
          /\ ChecksOK(insts, Capture(insts).state, insts, pending')
      BY <2>1, <1>1, <1>2, CapturedChecks
    <3> QED
      BY <3>1, <1>1 DEF WorkingChecks
  <2>2. CASE ~SimpleCtx
    BY <2>2, <1>1 DEF WorkingChecks, Capture
  <2> QED
    BY <2>1, <2>2
<1>4. SavedChecks'
  <2>1. n_full \in Nat
    BY DEF SInv, CountersOK
  <2> QED
    BY <2>1, <1>1 DEF GInv, SavedGraph, HInv, SavedChecks
<1>5. FlopsStay(insts', pending')
  BY <1>2 DEF FlopsStay
<1> QED
  BY <1>1, <1>3, <1>4, <1>5 DEF HInv

\* A checkpoint holds the checks with the netlist they are for.
LEMMA CheckpointHInv == SInv /\ HInv /\ Checkpoint => HInv'
<1> SUFFICES ASSUME SInv, HInv, Checkpoint PROVE HInv'
  OBVIOUS
<1>1. /\ saved'.insts = insts /\ saved'.report = report /\ saved'.dirty = dirty
      /\ saved'.inc_state = IF inc = NoGraph THEN {} ELSE {inc.state}
      /\ saved'.pending = pending /\ saved'.fulls = n_full
      /\ UNCHANGED <<insts, report, dirty, pending, inc, n_full>>
  BY DEF Checkpoint
<1>2. inc # NoGraph => /\ saved'.inc_state = {inc.state}
                       /\ ChecksOK(inc.topo, inc.state, saved'.insts, saved'.pending)
  BY <1>1 DEF HInv, WorkingChecks
<1>3. SavedChecks'
  BY <1>1, <1>2 DEF HInv, SavedChecks
<1> QED
  BY <1>1, <1>3 DEF HInv, WorkingChecks

\* A restore over the same graph puts back checks that are the netlist's.
LEMMA RestoreHInv == SInv /\ HInv /\ SameGraphRestore => HInv'
<1> SUFFICES ASSUME SInv, HInv, SameGraphRestore PROVE HInv'
  OBVIOUS
<1>1. /\ saved # NoCheckpoint /\ saved.fulls = n_full /\ saved' = NoCheckpoint
      /\ insts' = saved.insts /\ report' = saved.report /\ dirty' = saved.dirty
      /\ pending' = saved.pending /\ inc' = RestoredGraph
      /\ UNCHANGED n_full
  BY DEF SameGraphRestore, Restore
<1>2. WorkingChecks'
  <2>1. CASE inc = NoGraph
    BY <2>1, <1>1 DEF WorkingChecks, RestoredGraph
  <2>2. CASE inc # NoGraph
    <3>1. PICK st : saved.inc_state = {st} /\ ChecksOK(inc.topo, st, saved.insts, saved.pending)
      BY <2>2, <1>1 DEF HInv, SavedChecks
    <3>2. (CHOOSE state \in {st} : TRUE) = st
      OBVIOUS
    <3>3. inc' = [topo |-> inc.topo, state |-> st]
      BY <3>1, <3>2, <2>2, <1>1 DEF RestoredGraph
    <3> QED
      BY <3>1, <3>3, <1>1 DEF WorkingChecks
  <2> QED
    BY <2>1, <2>2
<1> QED
  BY <1>1, <1>2 DEF HInv, SavedChecks

\* Every step of such a client keeps the invariant.
LEMMA NextHInv ==
  ASSUME CombinationalOnly PROVE SInv /\ GInv /\ HInv /\ [NextSameGraph]_vars => HInv'
<1> SUFFICES ASSUME SInv, GInv, HInv, [NextSameGraph]_vars PROVE HInv'
  OBVIOUS
<1>1. CASE Edit
  BY <1>1, ResizeHInv, InsertHInv DEF Edit
<1>2. CASE UpdateIncremental
  BY <1>2, IncrementalHInv
<1>3. CASE UpdateFull
  BY <1>3, FullHInv
<1>4. CASE UpdateError
  BY <1>4 DEF UpdateError, HInv, WorkingChecks, SavedChecks
<1>5. CASE UpdatePanic
  BY <1>5, NeverOutOfBounds DEF UpdatePanic
<1>6. CASE Checkpoint
  BY <1>6, CheckpointHInv
<1>7. CASE Keep
  BY <1>7 DEF Keep, HInv, WorkingChecks, SavedChecks
<1>8. CASE SameGraphRestore
  BY <1>8, RestoreHInv
<1>9. CASE UNCHANGED vars
  BY <1>9 DEF vars, HInv, WorkingChecks, SavedChecks
<1> QED
  BY <1>1, <1>2, <1>3, <1>4, <1>5, <1>6, <1>7, <1>8, <1>9 DEF NextSameGraph, Update

-----------------------------------------------------------------------------
(* Every step is one of the promise, or invisible to the client            *)

\* A session begins as the promise does.
LEMMA InitOracle == Init => Oracle!OInit
BY DEF Init, Oracle!OInit

\* A served update gives the report the promise gives.
LEMMA UpdateOracle ==
  ASSUME CombinationalOnly
  PROVE  SInv /\ GInv /\ HInv /\ (UpdateIncremental \/ UpdateFull) => Oracle!OUpdate
<1> SUFFICES ASSUME SInv, GInv, HInv, UpdateIncremental \/ UpdateFull PROVE Oracle!OUpdate
  OBVIOUS
<1>1. dirty /\ dirty' = FALSE /\ UNCHANGED <<insts, saved>>
  BY DEF UpdateIncremental, UpdateFull
<1>2. HInv'
  BY IncrementalHInv, FullHInv
<1>3. report' = Full(insts)
  BY <1>1, <1>2 DEF HInv
<1> QED
  BY <1>1, <1>3 DEF Oracle!OUpdate

\* A checkpoint is the promise's checkpoint.
LEMMA CheckpointOracle ==
  ASSUME NoCheckpointIsNone PROVE Checkpoint => Oracle!OCheckpoint
BY DEF NoCheckpointIsNone, Checkpoint, Oracle!OCheckpoint

\* A restore is the promise's restore.
LEMMA RestoreOracle ==
  ASSUME NoCheckpointIsNone PROVE SameGraphRestore => Oracle!ORestore
BY DEF NoCheckpointIsNone, SameGraphRestore, Restore, Oracle!ORestore

\* Every step is one of the promise, or the client sees nothing of it.
LEMMA NextOracle ==
  ASSUME CombinationalOnly, NoCheckpointIsNone
  PROVE  SInv /\ GInv /\ HInv /\ [NextSameGraph]_vars => [Oracle!ONext]_(Oracle!ovars)
<1> SUFFICES ASSUME SInv, GInv, HInv, [NextSameGraph]_vars
             PROVE  Oracle!ONext \/ UNCHANGED Oracle!ovars
  OBVIOUS
<1>1. CASE Edit
  BY <1>1 DEF Edit, Resize, InsertDelay, Oracle!ONext, Oracle!OStage
<1>2. CASE UpdateIncremental \/ UpdateFull
  BY <1>2, UpdateOracle DEF Oracle!ONext
<1>3. CASE UpdateError \/ UpdatePanic
  BY <1>3 DEF UpdateError, UpdatePanic, Oracle!ovars
<1>4. CASE Checkpoint
  BY <1>4, CheckpointOracle DEF Oracle!ONext
<1>5. CASE Keep
  BY <1>5 DEF Keep, Oracle!ONext, Oracle!ODrop
<1>6. CASE SameGraphRestore
  BY <1>6, RestoreOracle DEF Oracle!ONext
<1>7. CASE UNCHANGED vars
  BY <1>7 DEF vars, Oracle!ovars
<1> QED
  BY <1>1, <1>2, <1>3, <1>4, <1>5, <1>6, <1>7 DEF NextSameGraph, Update

\* While no flop is swapped, the session keeps its promise: every update reports what
\* a full analysis of the netlist would, whichever path serves it, and a restore brings
\* back the checkpoint's netlist and report (tests/timer.rs:372).
THEOREM SessionKeepsPromise ==
  ASSUME CombinationalOnly, NoCheckpointIsNone PROVE SameGraphSpec => KeepsPromise
<1>1. Init => Oracle!OInit
  BY InitOracle
<1>2. Init => HInv
  BY InitHInv
<1>3. SInv /\ GInv /\ HInv /\ [NextSameGraph]_vars => HInv'
  BY NextHInv
<1>4. SInv /\ GInv /\ HInv /\ [NextSameGraph]_vars => [Oracle!ONext]_(Oracle!ovars)
  BY NextOracle
<1> QED
  BY <1>1, <1>2, <1>3, <1>4, SameGraphInvariant, PTL
     DEF SameGraphSpec, KeepsPromise, Oracle!OSpec
=============================================================================
