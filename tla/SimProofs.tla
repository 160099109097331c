------------------------------ MODULE SimProofs -----------------------------
(***************************************************************************)
(* Proofs about the constant propagation of FrontEnd (sim.rs), for every   *)
(* netlist, library and list of constraints.                               *)
(***************************************************************************)
EXTENDS FrontEnd, ReaderProofs, ExceptionProofs, FlowProofs

-----------------------------------------------------------------------------
(* Folds                                                                   *)

\* run folds step over the subsets of S, the element that pick names last.
FoldOf(run, base, step, pick, S) ==
  run = [s \in SUBSET S |-> IF s = {} THEN base ELSE step[<<s, run[s \ {pick[s]}]>>]]

\* A finite set has a fold over its subsets: over those of at most m elements, for each
\* m in turn.
LEMMA FoldExists ==
  ASSUME NEW S, IsFiniteSet(S), NEW base, NEW step, NEW pick,
         \A s \in SUBSET S : s # {} => pick[s] \in s
  PROVE  \E g : FoldOf(g, base, step, pick, S)
<1> DEFINE Small(m) == {s \in SUBSET S : Cardinality(s) <= m}
           Rec(g, m) == g = [s \in Small(m) |->
                               IF s = {} THEN base ELSE step[<<s, g[s \ {pick[s]}]>>]]
           Has(m) == \E g : Rec(g, m)
<1>1. \A s \in SUBSET S : /\ IsFiniteSet(s) /\ Cardinality(s) \in Nat
                          /\ s # {} => s \ {pick[s]} \in SUBSET S
                          /\ s # {} => Cardinality(s \ {pick[s]}) = Cardinality(s) - 1
  <2> SUFFICES ASSUME NEW s \in SUBSET S
               PROVE  /\ IsFiniteSet(s) /\ Cardinality(s) \in Nat
                      /\ s # {} => Cardinality(s \ {pick[s]}) = Cardinality(s) - 1
    OBVIOUS
  <2>1. IsFiniteSet(s) /\ Cardinality(s) \in Nat
    BY FS_Subset, FS_CardinalityType
  <2> QED
    BY <2>1, FS_RemoveElement
<1>2. Has(0)
  <2>1. ASSUME NEW s \in Small(0) PROVE s = {}
    <3>1. IsFiniteSet(s) /\ Cardinality(s) \in Nat /\ Cardinality(s) <= 0
      BY <1>1, <2>1
    <3>2. Cardinality(s) = 0
      BY <3>1
    <3> QED
      BY <3>1, <3>2, FS_EmptySet
  <2>2. Rec([s \in Small(0) |-> base], 0)
    <3> HIDE DEF Small
    <3> QED
      BY <2>1
  <2> QED
    BY <2>2
<1>3. ASSUME NEW m \in Nat, Has(m) PROVE Has(m + 1)
  <2>1. PICK g : Rec(g, m)
    BY <1>3
  <2> DEFINE h == [s \in Small(m + 1) |->
                     IF s \in Small(m) THEN g[s]
                     ELSE IF s = {} THEN base ELSE step[<<s, g[s \ {pick[s]}]>>]]
  <2>2. ASSUME NEW s \in Small(m + 1), s # {} PROVE s \ {pick[s]} \in Small(m)
    <3>1. s \in SUBSET S /\ Cardinality(s) <= m + 1
      BY <2>2
    <3>2. PICK c \in Nat : c = Cardinality(s) /\ Cardinality(s \ {pick[s]}) = c - 1
      BY <1>1, <2>2, <3>1
    <3>3. c - 1 <= m
      BY <3>1, <3>2
    <3> QED
      BY <3>1, <3>2, <3>3
  <2>3. Small(m) \subseteq Small(m + 1)
    <3> SUFFICES ASSUME NEW s \in SUBSET S, Cardinality(s) <= m PROVE Cardinality(s) <= m + 1
      OBVIOUS
    <3>1. Cardinality(s) \in Nat
      BY <1>1
    <3> QED
      BY <3>1
  <2> HIDE DEF Small
  <2>4. \A s \in Small(m) : g[s] = IF s = {} THEN base ELSE step[<<s, g[s \ {pick[s]}]>>]
    BY <2>1
  <2>5. \A s \in Small(m + 1) : h[s] = IF s \in Small(m) THEN g[s]
                                       ELSE IF s = {} THEN base ELSE step[<<s, g[s \ {pick[s]}]>>]
    OBVIOUS
  <2>6. h = [s \in Small(m + 1) |-> h[s]]
    OBVIOUS
  <2> HIDE DEF h
  <2>7. ASSUME NEW s \in Small(m + 1)
        PROVE  h[s] = IF s = {} THEN base ELSE step[<<s, h[s \ {pick[s]}]>>]
    <3>1. s # {} => h[s \ {pick[s]}] = g[s \ {pick[s]}]
      BY <2>2, <2>3, <2>5
    <3> QED
      BY <2>4, <2>5, <3>1
  <2>8. Rec(h, m + 1)
    BY <2>6, <2>7
  <2> QED
    BY <2>8
<1>4. \A m \in Nat : Has(m)
  <2> DEFINE Bad == {m \in Nat : ~Has(m)}
  <2> HIDE DEF Has
  <2>1. SUFFICES ASSUME Bad # {} PROVE FALSE
    OBVIOUS
  <2>2. PICK m \in Bad : \A y \in Bad : m <= y
    <3>1. Bad \in SUBSET Nat
      OBVIOUS
    <3> HIDE DEF Bad
    <3> QED
      BY <2>1, <3>1, LeastNat
  <2>3. m \in Nat /\ m # 0 /\ m - 1 \in Nat
    BY <1>2
  <2>4. Has(m - 1)
    BY <2>2, <2>3
  <2>5. Has(m - 1 + 1) /\ m - 1 + 1 = m
    BY <1>3, <2>3, <2>4
  <2> QED
    BY <2>5
<1>5. PICK n \in Nat : n = Cardinality(S)
  BY FS_CardinalityType
<1>6. Small(n) = SUBSET S
  <2>1. \A s \in SUBSET S : Cardinality(s) <= n
    BY <1>5, FS_Subset
  <2> QED
    BY <2>1
<1>7. PICK g : Rec(g, n)
  <2> HIDE DEF Rec
  <2> QED
    BY <1>4
<1> QED
  BY <1>6, <1>7 DEF FoldOf

\* What each step keeps, the fold has.
LEMMA FoldKeeps ==
  ASSUME NEW S, IsFiniteSet(S), NEW V, NEW g, g[{}] \in V,
         \A s \in SUBSET S : s # {} => \E x \in s : g[s \ {x}] \in V => g[s] \in V
  PROVE  \A s \in SUBSET S : g[s] \in V
<1> DEFINE U == {s \in SUBSET S : g[s] \notin V}
<1>1. SUFFICES ASSUME U # {} PROVE FALSE
  OBVIOUS
<1>2. PICK X \in U : \A Y \in SUBSET X : Y # X => Y \notin U
  <2>1. U \in SUBSET (SUBSET S)
    OBVIOUS
  <2> HIDE DEF U
  <2> QED
    BY <1>1, <2>1, SmallestSet
<1>3. X \in SUBSET S /\ X # {} /\ g[X] \notin V
  OBVIOUS
<1>4. PICK x \in X : g[X \ {x}] \in V => g[X] \in V
  BY <1>3
<1>5. X \ {x} \in SUBSET X /\ X \ {x} # X /\ X \ {x} \in SUBSET S
  BY <1>3
<1> QED
  BY <1>2, <1>3, <1>4, <1>5

\* The greatest of the first numbers is the last of them.
LEMMA LastOf ==
  /\ \A n \in Nat : \A s \in SUBSET (1 .. n) : s # {} => Si!Max(s) \in s
  /\ \A k \in Nat : k > 0 => Si!Max(1 .. k) = k /\ (1 .. k) \ {k} = 1 .. k - 1
<1>1. ASSUME NEW n \in Nat, NEW s \in SUBSET (1 .. n), s # {} PROVE Si!Max(s) \in s
  <2>1. IsFiniteSet(s) /\ s \in SUBSET Int
    <3>1. IsFiniteSet(1 .. n)
      BY FS_Interval
    <3>2. s \in SUBSET Int
      OBVIOUS
    <3> QED
      BY <3>1, <3>2, FS_Subset
  <2>2. PICK x \in s : \A y \in s : x >= y
    BY <1>1, <2>1, GreatestOfFinite
  <2> QED
    BY <2>2 DEF Si!Max
<1>2. ASSUME NEW k \in Nat, k > 0 PROVE Si!Max(1 .. k) = k /\ (1 .. k) \ {k} = 1 .. k - 1
  <2>1. k \in 1 .. k /\ \A y \in 1 .. k : k >= y
    BY <1>2
  <2>2. \A x \in 1 .. k : (\A y \in 1 .. k : x >= y) => x = k
    BY <2>1
  <2> QED
    BY <2>1, <2>2 DEF Si!Max
<1> QED
  BY <1>1, <1>2

\* The first numbers, up to each of them.
LEMMA Prefixes ==
  ASSUME NEW n \in Nat
  PROVE  /\ IsFiniteSet(1 .. n) /\ \A s \in SUBSET (1 .. n) : s # {} => Si!Max(s) \in s
         /\ 1 .. 0 = {} /\ 0 \in 0 .. n /\ n \in 0 .. n
         /\ \A k \in 0 .. n : 1 .. k \in SUBSET (1 .. n)
         /\ \A k \in 1 .. n : /\ 1 .. k # {} /\ k \in 0 .. n /\ k - 1 \in 0 .. n
                              /\ Si!Max(1 .. k) = k /\ (1 .. k) \ {k} = 1 .. k - 1
<1>1. ASSUME NEW k \in 1 .. n PROVE k \in Nat /\ k > 0 /\ k \in 1 .. k /\ k \in 0 .. n /\ k - 1 \in 0 .. n
  OBVIOUS
<1>2. ASSUME NEW k \in 1 .. n PROVE Si!Max(1 .. k) = k /\ (1 .. k) \ {k} = 1 .. k - 1
  BY <1>1, LastOf
<1>3. ASSUME NEW k \in 1 .. n PROVE 1 .. k # {}
  BY <1>1
<1>4. 1 .. 0 = {} /\ 0 \in 0 .. n /\ n \in 0 .. n /\ \A k \in 0 .. n : 1 .. k \in SUBSET (1 .. n)
  OBVIOUS
<1>5. IsFiniteSet(1 .. n)
  BY FS_Interval
<1>6. \A s \in SUBSET (1 .. n) : s # {} => Si!Max(s) \in s
  BY LastOf
<1> QED
  BY <1>1, <1>2, <1>3, <1>4, <1>5, <1>6

\* g folds op over the sets of the first n numbers, the greatest last, within V.
UpFold(g, n, V, base, op) ==
  /\ g = [s \in SUBSET (1 .. n) |-> g[s]] /\ g[{}] = base
  /\ \A s \in SUBSET (1 .. n) :
       s # {} => g[s \ {Si!Max(s)}] \in V /\ g[s] = op[<<Si!Max(s), g[s \ {Si!Max(s)}]>>]

\* Each step of op stays in V, and from V the fold g takes it.
Stays(op, n, V) == \A k \in 1 .. n : \A u \in V : op[<<k, u>>] \in V
Takes(g, op, n, V) ==
  \A s \in SUBSET (1 .. n) :
    s # {} /\ g[s \ {Si!Max(s)}] \in V => g[s] = op[<<Si!Max(s), g[s \ {Si!Max(s)}]>>]

\* h goes along the first n numbers by op.
Walks(h, op, n) == \A k \in 1 .. n : h[k] = op[<<k, h[k - 1]>>]

\* Such a fold stays where each step stays.
LEMMA UpFoldStays ==
  ASSUME NEW n \in Nat, NEW V, NEW op, Stays(op, n, V),
         NEW g, g[{}] \in V, Takes(g, op, n, V)
  PROVE  \A s \in SUBSET (1 .. n) : g[s] \in V
<1> DEFINE S == 1 .. n
<1>1. IsFiniteSet(S) /\ \A s \in SUBSET S : s # {} => Si!Max(s) \in s
  BY Prefixes
<1>2. /\ \A k \in S : \A u \in V : op[<<k, u>>] \in V
      /\ \A s \in SUBSET S : s # {} /\ g[s \ {Si!Max(s)}] \in V =>
           g[s] = op[<<Si!Max(s), g[s \ {Si!Max(s)}]>>]
  BY DEF Stays, Takes
<1> HIDE DEF S
<1>3. ASSUME NEW s \in SUBSET S, s # {} PROVE \E x \in s : g[s \ {x}] \in V => g[s] \in V
  <2>1. PICK x \in s : x = Si!Max(s)
    BY <1>1, <1>3
  <2>2. g[s \ {x}] \in V => g[s] = op[<<x, g[s \ {x}]>>]
    BY <1>2, <1>3, <2>1
  <2> QED
    BY <1>2, <2>2
<1>4. \A s \in SUBSET S : g[s] \in V
  BY <1>1, <1>3, FoldKeeps
<1> QED
  BY <1>4 DEF S

\* There is one.
LEMMA UpFoldExists ==
  ASSUME NEW n \in Nat, NEW V, NEW base \in V, NEW op, Stays(op, n, V)
  PROVE  \E g : UpFold(g, n, V, base, op)
<1> DEFINE S == 1 .. n
           step == [z \in (SUBSET S) \X V |-> op[<<Si!Max(z[1]), z[2]>>]]
           pick == [s \in SUBSET S |-> Si!Max(s)]
<1>1. IsFiniteSet(S) /\ \A s \in SUBSET S : s # {} => Si!Max(s) \in s
  BY Prefixes
<1>2. PICK g : FoldOf(g, base, step, pick, S)
  BY <1>1, FoldExists
<1>3. \A s \in SUBSET S : s # {} => pick[s] = Si!Max(s)
  OBVIOUS
<1>4. \A s \in SUBSET S : \A u \in V : step[<<s, u>>] = op[<<Si!Max(s), u>>]
  OBVIOUS
<1> HIDE DEF step, pick, S
<1>5. /\ g = [s \in SUBSET S |-> g[s]]
      /\ \A s \in SUBSET S : g[s] = IF s = {} THEN base ELSE step[<<s, g[s \ {pick[s]}]>>]
  BY <1>2 DEF FoldOf
<1>6. g[{}] = base
  BY <1>5
<1>7. \A s \in SUBSET S : s # {} /\ g[s \ {Si!Max(s)}] \in V =>
        g[s] = op[<<Si!Max(s), g[s \ {Si!Max(s)}]>>]
  <2> SUFFICES ASSUME NEW s \in SUBSET S, s # {}, g[s \ {Si!Max(s)}] \in V
               PROVE  g[s] = op[<<Si!Max(s), g[s \ {Si!Max(s)}]>>]
    OBVIOUS
  <2>1. pick[s] = Si!Max(s)
    BY <1>3
  <2>2. g[s] = step[<<s, g[s \ {Si!Max(s)}]>>]
    BY <1>5, <2>1
  <2> QED
    BY <1>4, <2>2
<1>8. \A s \in SUBSET S : g[s] \in V
  <2>1. Takes(g, op, n, V)
    BY <1>7 DEF S, Takes
  <2> QED
    BY <1>6, <2>1, UpFoldStays DEF S
<1>9. \A s \in SUBSET S : s # {} => g[s \ {Si!Max(s)}] \in V
  BY <1>8
<1>10. \A s \in SUBSET S : s # {} => g[s \ {Si!Max(s)}] \in V
                                   /\ g[s] = op[<<Si!Max(s), g[s \ {Si!Max(s)}]>>]
  BY <1>7, <1>9
<1> QED
  BY <1>5, <1>6, <1>10 DEF UpFold, S

\* Read along the first numbers, it goes from state to state.
LEMMA UpFoldAlong ==
  ASSUME NEW n \in Nat, NEW V, NEW base \in V, NEW op, Stays(op, n, V),
         NEW g, g[{}] = base, Takes(g, op, n, V)
  PROVE  \E h \in [0 .. n -> V] : h[0] = base /\ h[n] = g[1 .. n] /\ Walks(h, op, n)
<1>1. \A s \in SUBSET (1 .. n) : g[s] \in V
  BY UpFoldStays
<1>2. PICK h : h = [k \in 0 .. n |-> g[1 .. k]]
  OBVIOUS
<1>3. h \in [0 .. n -> V] /\ h[0] = base /\ h[n] = g[1 .. n]
  <2>1. \A k \in 0 .. n : g[1 .. k] \in V
    BY <1>1, Prefixes
  <2>2. h[0] = g[{}] /\ h[n] = g[1 .. n]
    BY <1>2, Prefixes
  <2> QED
    BY <1>2, <2>1, <2>2
<1>4. ASSUME NEW k \in 1 .. n PROVE h[k] = op[<<k, h[k - 1]>>]
  <2>1. /\ 1 .. k # {} /\ k \in 0 .. n /\ k - 1 \in 0 .. n /\ 1 .. k \in SUBSET (1 .. n)
        /\ Si!Max(1 .. k) = k /\ (1 .. k) \ {k} = 1 .. k - 1
        /\ 1 .. k - 1 \in SUBSET (1 .. n)
    BY Prefixes
  <2>2. g[1 .. k] = op[<<k, g[1 .. k - 1]>>]
    BY <1>1, <2>1 DEF Takes
  <2> QED
    BY <1>2, <2>1, <2>2
<1> QED
  BY <1>3, <1>4 DEF Walks

\* Setting pins, and the outputs of an instance, one after another.
PinsSet(s, list, v) == Si!FoldLeft(LAMBDA u, l : Si!SetPin(u, l, v), s, list)
OutputsSet(s, list) == Si!FoldLeft(LAMBDA u, o : Si!SetValue(u, o, Si!Eval(value, o)), s, list)

\* The states a run of them goes through: h before and after each.
PinsWalk(V, h, t, n, q, v) ==
  /\ h \in [0 .. n -> V] /\ h[0] = t /\ h[n] = PinsSet(t, q, v)
  /\ \A k \in 1 .. n : h[k] = Si!SetPin(h[k - 1], q[k], v)
OutputsWalk(V, h, t, n, q) ==
  /\ h \in [0 .. n -> V] /\ h[0] = t /\ h[n] = OutputsSet(t, q)
  /\ \A k \in 1 .. n : h[k] = Si!SetValue(h[k - 1], q[k], Si!Eval(value, q[k]))

\* Setting pins one after another goes through a state after each (set_pin_value's loop
\* over a net's loads, sim.rs:334).
LEMMA PinFold ==
  ASSUME NEW V, NEW t \in V, NEW v, NEW n \in Nat, NEW q, DOMAIN q = 1 .. n,
         \A u \in V : \A k \in 1 .. n : Si!SetPin(u, q[k], v) \in V
  PROVE  \E h : PinsWalk(V, h, t, n, q, v)
<1> DEFINE S == 1 .. n
           Rec(g) == g = [s \in SUBSET S |->
                            IF s = {} THEN t ELSE Si!SetPin(g[s \ {Si!Max(s)}], q[Si!Max(s)], v)]
           iter == CHOOSE g : Rec(g)
           op == [z \in S \X V |-> Si!SetPin(z[2], q[z[1]], v)]
<1>1. PinsSet(t, q, v) = iter[S]
  BY DEF PinsSet, Si!FoldLeft, Si!MapThenFoldSet
<1>2. \A k \in S : \A u \in V : op[<<k, u>>] = Si!SetPin(u, q[k], v) /\ op[<<k, u>>] \in V
  OBVIOUS
<1> HIDE DEF S, op
<1>3. \A s \in SUBSET S : s # {} => Si!Max(s) \in S
  BY Prefixes DEF S
<1>4. \E g : Rec(g)
  <2>1. PICK g : UpFold(g, n, V, t, op)
    <3>1. Stays(op, n, V)
      BY <1>2 DEF S, Stays
    <3> QED
      BY <3>1, UpFoldExists
  <2>2. /\ g = [s \in SUBSET S |-> g[s]] /\ g[{}] = t
        /\ \A s \in SUBSET S : s # {} => g[s \ {Si!Max(s)}] \in V
                                        /\ g[s] = op[<<Si!Max(s), g[s \ {Si!Max(s)}]>>]
    BY <2>1 DEF UpFold, S
  <2>3. \A s \in SUBSET S : g[s] = IF s = {} THEN t
                                   ELSE Si!SetPin(g[s \ {Si!Max(s)}], q[Si!Max(s)], v)
    BY <1>2, <1>3, <2>2
  <2>4. Rec(g)
    BY <2>2, <2>3
  <2> QED
    BY <2>4
<1>5. Rec(iter)
  <2> HIDE DEF Rec
  <2> QED
    BY <1>4
<1> HIDE DEF iter
<1>6. \A s \in SUBSET S : iter[s] = IF s = {} THEN t
                                    ELSE Si!SetPin(iter[s \ {Si!Max(s)}], q[Si!Max(s)], v)
  BY <1>5
<1> HIDE DEF Rec
<1>7. iter[{}] = t /\ \A s \in SUBSET S : s # {} /\ iter[s \ {Si!Max(s)}] \in V =>
                             iter[s] = op[<<Si!Max(s), iter[s \ {Si!Max(s)}]>>]
  BY <1>2, <1>3, <1>6
<1>8. PICK h \in [0 .. n -> V] : h[0] = t /\ h[n] = iter[1 .. n] /\ Walks(h, op, n)
  <2>1. Stays(op, n, V) /\ Takes(iter, op, n, V)
    BY <1>2, <1>7 DEF S, Stays, Takes
  <2> QED
    BY <1>7, <2>1, UpFoldAlong
<1>9. \A k \in 1 .. n : h[k] = Si!SetPin(h[k - 1], q[k], v)
  <2>1. \A k \in 1 .. n : k - 1 \in 0 .. n
    BY Prefixes
  <2> QED
    BY <1>2, <1>8, <2>1 DEF S, Walks
<1> QED
  BY <1>1, <1>8, <1>9 DEF S, PinsWalk

\* So does setting the outputs of an instance (eval_instance's loop over its updates).
LEMMA ValueFold ==
  ASSUME NEW V, NEW t \in V, NEW n \in Nat, NEW q, DOMAIN q = 1 .. n,
         \A u \in V : \A k \in 1 .. n : Si!SetValue(u, q[k], Si!Eval(value, q[k])) \in V
  PROVE  \E h : OutputsWalk(V, h, t, n, q)
<1> DEFINE S == 1 .. n
           Rec(g) == g = [s \in SUBSET S |->
                            IF s = {} THEN t ELSE Si!SetValue(g[s \ {Si!Max(s)}], q[Si!Max(s)], Si!Eval(value, q[Si!Max(s)]))]
           iter == CHOOSE g : Rec(g)
           op == [z \in S \X V |-> Si!SetValue(z[2], q[z[1]], Si!Eval(value, q[z[1]]))]
<1>1. OutputsSet(t, q) = iter[S]
  BY DEF OutputsSet, Si!FoldLeft, Si!MapThenFoldSet
<1>2. \A k \in S : \A u \in V : op[<<k, u>>] = Si!SetValue(u, q[k], Si!Eval(value, q[k])) /\ op[<<k, u>>] \in V
  OBVIOUS
<1> HIDE DEF S, op
<1>3. \A s \in SUBSET S : s # {} => Si!Max(s) \in S
  BY Prefixes DEF S
<1>4. \E g : Rec(g)
  <2>1. PICK g : UpFold(g, n, V, t, op)
    <3>1. Stays(op, n, V)
      BY <1>2 DEF S, Stays
    <3> QED
      BY <3>1, UpFoldExists
  <2>2. /\ g = [s \in SUBSET S |-> g[s]] /\ g[{}] = t
        /\ \A s \in SUBSET S : s # {} => g[s \ {Si!Max(s)}] \in V
                                        /\ g[s] = op[<<Si!Max(s), g[s \ {Si!Max(s)}]>>]
    BY <2>1 DEF UpFold, S
  <2>3. \A s \in SUBSET S : g[s] = IF s = {} THEN t
                                   ELSE Si!SetValue(g[s \ {Si!Max(s)}], q[Si!Max(s)], Si!Eval(value, q[Si!Max(s)]))
    BY <1>2, <1>3, <2>2
  <2>4. Rec(g)
    BY <2>2, <2>3
  <2> QED
    BY <2>4
<1>5. Rec(iter)
  <2> HIDE DEF Rec
  <2> QED
    BY <1>4
<1> HIDE DEF iter
<1>6. \A s \in SUBSET S : iter[s] = IF s = {} THEN t
                                    ELSE Si!SetValue(iter[s \ {Si!Max(s)}], q[Si!Max(s)], Si!Eval(value, q[Si!Max(s)]))
  BY <1>5
<1> HIDE DEF Rec
<1>7. iter[{}] = t /\ \A s \in SUBSET S : s # {} /\ iter[s \ {Si!Max(s)}] \in V =>
                             iter[s] = op[<<Si!Max(s), iter[s \ {Si!Max(s)}]>>]
  BY <1>2, <1>3, <1>6
<1>8. PICK h \in [0 .. n -> V] : h[0] = t /\ h[n] = iter[1 .. n] /\ Walks(h, op, n)
  <2>1. Stays(op, n, V) /\ Takes(iter, op, n, V)
    BY <1>2, <1>7 DEF S, Stays, Takes
  <2> QED
    BY <1>7, <2>1, UpFoldAlong
<1>9. \A k \in 1 .. n : h[k] = Si!SetValue(h[k - 1], q[k], Si!Eval(value, q[k]))
  <2>1. \A k \in 1 .. n : k - 1 \in 0 .. n
    BY Prefixes
  <2> QED
    BY <1>2, <1>8, <2>1 DEF S, Walks
<1> QED
  BY <1>1, <1>8, <1>9 DEF S, OutputsWalk

-----------------------------------------------------------------------------
(* Sets listed                                                             *)

\* The part's own sets and numbers of elements are the usual ones.
LEMMA OwnSets ==
  ASSUME NEW S
  PROVE  (Si!IsFiniteSet(S) <=> IsFiniteSet(S)) /\ Si!Cardinality(S) = Cardinality(S)
<1>1. Si!IsFiniteSet(S) <=> IsFiniteSet(S)
  BY DEF Si!IsFiniteSet, IsFiniteSet
<1>2. Si!Cardinality(S) = Cardinality(S)
  BY DEF Si!Cardinality, Cardinality
<1> QED
  BY <1>1, <1>2

\* A finite set is listed whole.
LEMMA Listing ==
  ASSUME NEW S, IsFiniteSet(S)
  PROVE  /\ Si!SetToSeq(S) \in Seq(S)
         /\ \E n \in Nat : DOMAIN Si!SetToSeq(S) = 1 .. n
         /\ \A x \in S : \E k \in DOMAIN Si!SetToSeq(S) : Si!SetToSeq(S)[k] = x
<1>1. PICK n \in Nat : n = Cardinality(S) /\ ExistsBijection(1 .. n, S)
  BY FS_CardinalityType
<1>2. PICK f : f \in [1 .. n -> S] /\ Si!IsInjective(f)
  BY <1>1 DEF ExistsBijection, Bijection, Injection, Surjection, Si!IsInjective, IsInjective
<1>3. Si!SetToSeq(S) = CHOOSE g \in [1 .. n -> S] : Si!IsInjective(g)
  BY <1>1, OwnSets DEF Si!SetToSeq
<1> DEFINE q == Si!SetToSeq(S)
<1>4. q \in [1 .. n -> S] /\ Si!IsInjective(q)
  BY <1>2, <1>3
<1> HIDE DEF q
<1>5. q \in Injection(1 .. n, S)
  BY <1>4 DEF Injection, IsInjective, Si!IsInjective
<1>6. Cardinality(1 .. n) = Cardinality(S)
  BY <1>1, FS_Interval
<1>7. q \in Surjection(1 .. n, S)
  BY <1>5, <1>6, FS_Injection
<1>8. q \in Seq(S) /\ DOMAIN q = 1 .. n
  BY <1>4
<1>9. \A x \in S : \E k \in DOMAIN q : q[k] = x
  BY <1>7, <1>8 DEF Surjection
<1> QED
  BY <1>8, <1>9 DEF q

-----------------------------------------------------------------------------
(* Setting a pin                                                           *)

\* What the constants are.
LEMMA SiConst ==
  /\ \A d \in Si!Drivers : SiLoads[d] \subseteq Si!Pins \ Si!Drivers /\ IsFiniteSet(SiLoads[d])
  /\ \A i \in SiInsts : SiInPins[i] \subseteq Si!Inputs /\ SiInPins[i] \cup SiOutPins[i] \subseteq Si!Pins
  /\ \A i \in SiInsts : SiOutPins[i] \subseteq Si!Drivers /\ SiOutPins[i] \cap Si!Inputs = {}
  /\ \A i \in SiInsts : (SiInPins[i] \cup SiOutPins[i]) \cap (SiInPorts \cup SiOutPorts) = {}
  /\ \A i, j \in SiInsts : i # j =>
       (SiInPins[i] \cup SiOutPins[i]) \cap (SiInPins[j] \cup SiOutPins[j]) = {}
  /\ \A p \in Si!Inputs : \E i \in SiInsts : p \in SiInPins[i]
  /\ \A p \in Si!Drivers \ SiInPorts : \E i \in SiInsts : p \in SiOutPins[i]
  /\ Si!Drivers \subseteq Si!Pins /\ IsFiniteSet(Si!Pins)
  /\ Si!Drivers \cap Si!Inputs = {}
<1>1. Si!ConstantsOK
  BY FrontEndAssumption
<1>2. IsFiniteSet(Si!Pins)
  BY <1>1, OwnSets DEF Si!ConstantsOK
<1>3. /\ \A p \in Si!Inputs : \E i \in SiInsts : p \in SiInPins[i]
      /\ \A p \in Si!Drivers \ SiInPorts : \E i \in SiInsts : p \in SiOutPins[i]
  BY DEF Si!Inputs, Si!Drivers
<1>4. \A i \in SiInsts : /\ SiInPins[i] \subseteq Si!Inputs /\ SiOutPins[i] \subseteq Si!Drivers
                         /\ SiInPins[i] \cup SiOutPins[i] \subseteq Si!Pins
  BY DEF Si!Inputs, Si!Drivers, Si!Pins
<1>5. /\ \A i, j \in SiInsts : i # j =>
           (SiInPins[i] \cup SiOutPins[i]) \cap (SiInPins[j] \cup SiOutPins[j]) = {}
      /\ \A i, j \in SiInsts : SiInPins[i] \cap SiOutPins[j] = {}
      /\ \A i \in SiInsts : (SiInPins[i] \cup SiOutPins[i]) \cap (SiInPorts \cup SiOutPorts) = {}
      /\ SiInPorts \cap SiOutPorts = {}
      /\ \A d \in Si!Drivers : SiLoads[d] \subseteq Si!Inputs \cup SiOutPorts
  BY <1>1 DEF Si!ConstantsOK
<1>6. \A i \in SiInsts : SiOutPins[i] \cap Si!Inputs = {}
  BY <1>3, <1>5
<1>7. Si!Drivers \subseteq Si!Pins
  BY DEF Si!Drivers, Si!Pins
<1>8. Si!Drivers \cap Si!Inputs = {} /\ Si!Drivers \cap SiOutPorts = {}
  BY <1>3, <1>5
<1>9. Si!Inputs \cup SiOutPorts \subseteq Si!Pins
  BY DEF Si!Inputs, Si!Pins
<1>10. \A d \in Si!Drivers : SiLoads[d] \subseteq Si!Pins \ Si!Drivers
  BY <1>5, <1>8, <1>9
<1>11. \A d \in Si!Drivers : IsFiniteSet(SiLoads[d])
  BY <1>2, <1>10, FS_Subset
<1> QED
  BY <1>2, <1>3, <1>4, <1>5, <1>6, <1>7, <1>8, <1>10, <1>11

\* A pin's instance is the one it is of.
LEMMA PinInst ==
  ASSUME NEW i \in SiInsts, NEW p \in SiInPins[i] \cup SiOutPins[i]
  PROVE  Si!InstOf(p) = i
<1>1. \A j \in SiInsts : p \in SiInPins[j] \cup SiOutPins[j] => j = i
  BY SiConst
<1> QED
  BY <1>1 DEF Si!InstOf

\* The states of a propagation.
SimStates ==
  [value : [Si!Pins -> Si!Values], queue : Seq(SiInsts), annotate : SUBSET SiInsts,
   warned : SUBSET Si!Pins]

\* An instance with a value on a pin, and one in the queue, is annotated.
Annotated(s) ==
  /\ \A i \in SiInsts : \A p \in SiInPins[i] \cup SiOutPins[i] :
       s.value[p] # SiUnknown => i \in s.annotate
  /\ \A k \in DOMAIN s.queue : s.queue[k] \in s.annotate

\* A pin with a constraint has its value or none.
Obeyed(s) ==
  \A p \in Si!Pins : Si!Constrained(p) => s.value[p] \in {SiUnknown, Si!ValueOf(Si!Constraint(p))}

\* The states a propagation goes through.
Sane == {s \in SimStates : Annotated(s) /\ Obeyed(s)}

InQueue(s, i) == \E k \in DOMAIN s.queue : s.queue[k] = i

\* From s to t nothing queued, annotated or said is lost, and a new value at an input
\* queues its instance.
Onward(s, t) ==
  /\ s.warned \subseteq t.warned /\ s.annotate \subseteq t.annotate
  /\ \A i \in SiInsts : InQueue(s, i) => InQueue(t, i)
  /\ \A i \in SiInsts : \A p \in SiInPins[i] : t.value[p] # s.value[p] => InQueue(t, i)

\* It holds of any number of steps.
LEMMA OnwardTwice ==
  ASSUME NEW s, NEW t, NEW u, Onward(s, t), Onward(t, u)
  PROVE  Onward(s, u)
BY DEF Onward

\* A value that differs from its pin's constraint is said there.
Said(s, p, v) == v # SiUnknown /\ Si!Differs(p, v) => p \in s.warned

\* A queue keeps its instances when one is put behind them.
LEMMA QueueGrows ==
  ASSUME NEW s, s.queue \in Seq(SiInsts), NEW i \in SiInsts
  PROVE  /\ Si!Queued(s, i) \in Seq(SiInsts)
         /\ \E k \in DOMAIN Si!Queued(s, i) : Si!Queued(s, i)[k] = i
         /\ \A k \in DOMAIN s.queue : k \in DOMAIN Si!Queued(s, i) /\ Si!Queued(s, i)[k] = s.queue[k]
         /\ \A k \in DOMAIN Si!Queued(s, i) : Si!Queued(s, i)[k] = i \/ (k \in DOMAIN s.queue /\ Si!Queued(s, i)[k] = s.queue[k])
<1> DEFINE q == s.queue
<1>1. q \in Seq(SiInsts)
  OBVIOUS
<1>2. CASE q # <<>> /\ Si!Last(q) = i
  <2>1. Si!Queued(s, i) = q
    BY <1>2 DEF Si!Queued
  <2>2. Len(q) \in DOMAIN q /\ q[Len(q)] = i
    BY <1>1, <1>2 DEF Si!Last
  <2> QED
    BY <1>1, <2>1, <2>2
<1>3. CASE ~(q # <<>> /\ Si!Last(q) = i)
  <2>1. Si!Queued(s, i) = Append(q, i)
    BY <1>3 DEF Si!Queued
  <2> HIDE DEF q
  <2>2. /\ Append(q, i) \in Seq(SiInsts) /\ Len(q) + 1 \in DOMAIN Append(q, i)
        /\ Append(q, i)[Len(q) + 1] = i
        /\ \A k \in DOMAIN q : k \in DOMAIN Append(q, i) /\ Append(q, i)[k] = q[k]
        /\ \A k \in DOMAIN Append(q, i) : k = Len(q) + 1 \/ k \in DOMAIN q
    BY <1>1
  <2> QED
    BY <2>1, <2>2 DEF q
<1> QED
  BY <1>2, <1>3

\* What becomes of a state when one pin is set: u is reached by setting p to v.
PinSet(s, u, p, v) ==
  /\ u \in Sane /\ Onward(s, u) /\ Said(u, p, v)
  /\ \A r \in Si!Pins : r # p => u.value[r] = s.value[r]
  /\ u.value[p] = IF Si!Differs(p, v) THEN s.value[p] ELSE v

\* A new value at a pin keeps the state sane (the part of set_pin_value past its checks).
LEMMA SettleSane ==
  ASSUME NEW s \in Sane, NEW p \in Si!Pins, NEW v \in Si!Values, ~Si!Differs(p, v)
  PROVE  PinSet(s, Si!Settle(s, p, v), p, v)
<1> DEFINE u == Si!Settle(s, p, v)
<1>1. /\ s \in SimStates /\ Annotated(s) /\ Obeyed(s)
      /\ s.value \in [Si!Pins -> Si!Values] /\ s.queue \in Seq(SiInsts)
      /\ s.annotate \in SUBSET SiInsts /\ s.warned \in SUBSET Si!Pins
  BY DEF Sane, SimStates
<1>2. \A i \in SiInsts : \A r \in SiInPins[i] \cup SiOutPins[i] : r \in Si!Pins
  BY SiConst
<1>3. Si!Constrained(p) => v = Si!ValueOf(Si!Constraint(p))
  BY DEF Si!Differs
<1>4. CASE p \in Si!Inputs
  <2>1. PICK i \in SiInsts : p \in SiInPins[i] /\ Si!InstOf(p) = i
    BY <1>4, SiConst, PinInst
  <2> DEFINE q == Si!Queued(s, i)
  <2>2. /\ q \in Seq(SiInsts) /\ \E k \in DOMAIN q : q[k] = i
        /\ \A k \in DOMAIN s.queue : k \in DOMAIN q /\ q[k] = s.queue[k]
        /\ \A k \in DOMAIN q : q[k] = i \/ (k \in DOMAIN s.queue /\ q[k] = s.queue[k])
    BY <1>1, QueueGrows
  <2> HIDE DEF q
  <2>3. u = [s EXCEPT !.value[p] = v, !.annotate = @ \cup {i}, !.queue = q]
    BY <1>4, <2>1 DEF Si!Settle, q
  <2>4. /\ u \in SimStates /\ u.value = [s.value EXCEPT ![p] = v]
        /\ u.annotate = s.annotate \cup {i} /\ u.queue = q /\ u.warned = s.warned
    <3> DEFINE f == [s.value EXCEPT ![p] = v]
               A == s.annotate \cup {i}
    <3>1. f \in [Si!Pins -> Si!Values] /\ A \in SUBSET SiInsts /\ q \in Seq(SiInsts)
      BY <1>1, <2>2
    <3>2. u = [s EXCEPT !.value = f, !.annotate = A, !.queue = q]
      BY <2>3
    <3> HIDE DEF u, f, A
    <3>3. u = [value |-> f, queue |-> q, annotate |-> A, warned |-> s.warned]
      BY <1>1, <3>2 DEF SimStates
    <3> QED
      BY <1>1, <3>1, <3>3 DEF SimStates, f, A
  <2> HIDE DEF u
  <2>5. u.value[p] = v /\ \A r \in Si!Pins : r # p => u.value[r] = s.value[r]
    BY <1>1, <2>4
  <2>6. \A j \in SiInsts : p \in SiInPins[j] \cup SiOutPins[j] => j = i
    BY <2>1, SiConst
  <2>7. Annotated(u)
    BY <1>1, <1>2, <2>2, <2>4, <2>5, <2>6 DEF Annotated
  <2>8. Obeyed(u)
    BY <1>1, <1>3, <2>5 DEF Obeyed
  <2>9. Onward(s, u)
    <3>1. \A j \in SiInsts : InQueue(s, j) => InQueue(u, j)
      BY <2>2, <2>4 DEF InQueue
    <3>2. InQueue(u, i)
      BY <2>2, <2>4 DEF InQueue
    <3>3. ASSUME NEW j \in SiInsts, NEW r \in SiInPins[j], u.value[r] # s.value[r]
          PROVE  InQueue(u, j)
      BY <1>2, <2>5, <2>6, <3>2, <3>3
    <3> QED
      BY <2>4, <3>1, <3>3 DEF Onward
  <2> QED
    BY <2>4, <2>5, <2>7, <2>8, <2>9 DEF PinSet, Sane, Said, u
<1>5. CASE p \notin Si!Inputs
  <2> DEFINE A == IF p \in SiInPorts \cup SiOutPorts THEN s.annotate ELSE s.annotate \cup {Si!InstOf(p)}
  <2>1. p \notin SiInPorts \cup SiOutPorts => \E i \in SiInsts : p \in SiOutPins[i] /\ Si!InstOf(p) = i
    <3>1. p \notin SiInPorts \cup SiOutPorts => \E i \in SiInsts : p \in SiInPins[i] \cup SiOutPins[i]
      BY DEF Si!Pins
    <3>2. \A i \in SiInsts : p \notin SiInPins[i]
      BY <1>5, SiConst
    <3> QED
      BY <3>1, <3>2, PinInst
  <2>2. A \in SUBSET SiInsts /\ s.annotate \subseteq A
    BY <1>1, <2>1
  <2>3. \A i \in SiInsts : p \in SiInPins[i] \cup SiOutPins[i] => i \in A
    BY SiConst, PinInst
  <2> HIDE DEF A
  <2>4. u = [s EXCEPT !.value[p] = v, !.annotate = A]
    BY <1>5 DEF Si!Settle, A
  <2>5. /\ u \in SimStates /\ u.value = [s.value EXCEPT ![p] = v]
        /\ u.annotate = A /\ u.queue = s.queue /\ u.warned = s.warned
    BY <1>1, <2>2, <2>4, ZenonT(60) DEF SimStates
  <2> HIDE DEF u
  <2>6. u.value[p] = v /\ \A r \in Si!Pins : r # p => u.value[r] = s.value[r]
    BY <1>1, <2>5
  <2>7. Annotated(u)
    <3>1. ASSUME NEW i \in SiInsts, NEW r \in SiInPins[i] \cup SiOutPins[i], u.value[r] # SiUnknown
          PROVE  i \in u.annotate
      <4>1. CASE r = p
        BY <2>3, <2>5, <3>1, <4>1
      <4>2. CASE r # p
        BY <1>1, <1>2, <2>2, <2>5, <2>6, <3>1, <4>2 DEF Annotated
      <4> QED
        BY <4>1, <4>2
    <3>2. \A k \in DOMAIN u.queue : u.queue[k] \in u.annotate
      BY <1>1, <2>2, <2>5 DEF Annotated
    <3> QED
      BY <3>1, <3>2 DEF Annotated
  <2>8. Obeyed(u)
    BY <1>1, <1>3, <2>6 DEF Obeyed
  <2>9. Onward(s, u)
    <3>1. \A i \in SiInsts : \A r \in SiInPins[i] : r # p /\ r \in Si!Pins
      BY <1>5, SiConst
    <3> QED
      BY <2>2, <2>5, <2>6, <3>1 DEF Onward, InQueue
  <2> QED
    BY <2>5, <2>6, <2>7, <2>8, <2>9 DEF PinSet, Sane, Said, u
<1> QED
  BY <1>4, <1>5

\* Setting one pin (set_pin_value, sim.rs:303, up to the net's loads).
LEMMA SetPinDoes ==
  ASSUME NEW s \in Sane, NEW p \in Si!Pins, NEW v \in Si!Values
  PROVE  PinSet(s, Si!SetPin(s, p, v), p, v)
<1> DEFINE u == Si!SetPin(s, p, v)
<1>1. /\ s \in SimStates /\ Annotated(s) /\ Obeyed(s)
      /\ s.value \in [Si!Pins -> Si!Values] /\ s.warned \in SUBSET Si!Pins
  BY DEF Sane, SimStates
<1>2. Onward(s, s)
  BY DEF Onward
<1>3. CASE Si!Differs(p, v) /\ v = SiUnknown
  <2>1. u = s
    BY <1>3 DEF Si!SetPin
  <2> QED
    BY <1>2, <1>3, <2>1 DEF PinSet, Said
<1>4. CASE Si!Differs(p, v) /\ v # SiUnknown
  <2>1. u = [s EXCEPT !.warned = @ \cup {p}]
    BY <1>4 DEF Si!SetPin
  <2>2. /\ u \in SimStates /\ u.value = s.value /\ u.annotate = s.annotate
        /\ u.queue = s.queue /\ u.warned = s.warned \cup {p}
    BY <1>1, <2>1 DEF SimStates
  <2> HIDE DEF u
  <2>3. Annotated(u) /\ Obeyed(u) /\ Onward(s, u) /\ Said(u, p, v)
    BY <1>1, <2>2 DEF Annotated, Obeyed, Onward, InQueue, Said
  <2> QED
    BY <1>4, <2>2, <2>3 DEF PinSet, Sane, u
<1>5. CASE ~Si!Differs(p, v) /\ s.value[p] = v
  <2>1. u = s
    BY <1>5 DEF Si!SetPin
  <2> QED
    BY <1>2, <1>5, <2>1 DEF PinSet, Said
<1>6. CASE ~Si!Differs(p, v) /\ s.value[p] # v
  <2>1. u = Si!Settle(s, p, v)
    BY <1>6 DEF Si!SetPin
  <2> QED
    BY <1>6, <2>1, SettleSane
<1> QED
  BY <1>3, <1>4, <1>5, <1>6

\* What holds after a step and is kept by those that follow holds at the end.
LEMMA Remains ==
  ASSUME NEW n \in Nat, NEW h, NEW P, NEW k \in 0 .. n, h[k] \in P,
         \A j \in 1 .. n : h[j - 1] \in P => h[j] \in P
  PROVE  h[n] \in P
<1> DEFINE T == {j \in Nat : k <= j /\ j <= n /\ h[j] \notin P}
<1>1. SUFFICES ASSUME h[n] \notin P PROVE FALSE
  OBVIOUS
<1>2. T \in SUBSET Nat /\ n \in T
  BY <1>1
<1>3. PICK j \in T : \A x \in T : j <= x
  BY <1>2, LeastNat
<1>4. j \in Nat /\ k <= j /\ j <= n /\ h[j] \notin P /\ j # k
  BY <1>3
<1>5. j - 1 \in Nat /\ k <= j - 1 /\ j - 1 <= n /\ j \in 1 .. n /\ j - 1 < j
  BY <1>4
<1>6. j - 1 \notin T
  BY <1>3, <1>5
<1>7. h[j - 1] \in P
  BY <1>5, <1>6
<1> QED
  BY <1>4, <1>5, <1>7

\* Every pin of a net that its driver's value contradicts is said.
NetsSaid(s) == \A d \in Si!Drivers : \A l \in SiLoads[d] : Said(s, l, s.value[d])

\* The net's pins that v does not contradict take it.
Hands(t, x, p, v) ==
  \A r \in Si!Pins : x.value[r] = IF r \in SiLoads[p] /\ ~Si!Differs(r, v) THEN v ELSE t.value[r]

\* The values that setting one leaves: as they were, or v at p and on its net.
ValuesSet(s, u, p, v) ==
  \/ /\ Si!Differs(p, v) \/ s.value[p] = v
     /\ \A r \in Si!Pins : u.value[r] = s.value[r]
  \/ /\ ~Si!Differs(p, v)
     /\ \A r \in Si!Pins :
          u.value[r] = IF r = p \/ (p \in Si!Drivers /\ r \in SiLoads[p] /\ ~Si!Differs(r, v))
                       THEN v ELSE s.value[r]

\* What becomes of a state when a value is set.
ValueSet(s, u, p, v) ==
  /\ u \in Sane /\ Onward(s, u) /\ Said(u, p, v) /\ ValuesSet(s, u, p, v)
  /\ NetsSaid(s) => NetsSaid(u)
  /\ \A r \in Si!Drivers : r # p => u.value[r] = s.value[r]
  /\ ~Si!Differs(p, v) => u.value[p] = v

\* A driver hands the value it took to its loads.
LEMMA HandsOn ==
  ASSUME NEW t \in Sane, NEW p \in Si!Drivers, NEW v \in Si!Values
  PROVE  \E x \in Sane :
           /\ PinsSet(t, Si!SetToSeq(SiLoads[p]), v) = x
           /\ Onward(t, x) /\ Hands(t, x, p, v)
           /\ \A r \in SiLoads[p] : Said(x, r, v)
<1> DEFINE q == Si!SetToSeq(SiLoads[p])
           Same(u, r) == u.value[r] = t.value[r]
           Took(u, r) == Said(u, r, v) /\ (Si!Differs(r, v) \/ u.value[r] = v)
           Others(u) == \A r \in Si!Pins : r \notin SiLoads[p] \/ Si!Differs(r, v) => Same(u, r)
           V == {u \in Sane : Onward(t, u) /\ Others(u)}
<1>1. SiLoads[p] \subseteq Si!Pins \ Si!Drivers /\ IsFiniteSet(SiLoads[p]) /\ Si!Drivers \subseteq Si!Pins
  BY SiConst
<1>2. /\ q \in Seq(SiLoads[p]) /\ \E n \in Nat : DOMAIN q = 1 .. n
      /\ \A x \in SiLoads[p] : \E k \in DOMAIN q : q[k] = x
  BY <1>1, Listing
<1>3. PICK n \in Nat : DOMAIN q = 1 .. n
  BY <1>2
<1>4. \A k \in 1 .. n : q[k] \in SiLoads[p]
  BY <1>2, <1>3
<1>5. t \in V
  BY DEF Onward
<1>6. ASSUME NEW w \in V, NEW k \in 1 .. n
      PROVE  Si!SetPin(w, q[k], v) \in V /\ PinSet(w, Si!SetPin(w, q[k], v), q[k], v)
  <2> DEFINE u == Si!SetPin(w, q[k], v)
  <2>1. w \in Sane /\ Onward(t, w) /\ Others(w)
    OBVIOUS
  <2>2. q[k] \in Si!Pins /\ q[k] \in SiLoads[p]
    BY <1>1, <1>4
  <2>3. PinSet(w, u, q[k], v)
    BY <2>1, <2>2, SetPinDoes
  <2> HIDE DEF u, q
  <2>4. u \in Sane /\ Onward(w, u) /\ Others(u)
    BY <2>1, <2>2, <2>3 DEF PinSet
  <2>5. Onward(t, u)
    BY <2>1, <2>4, OnwardTwice
  <2> QED
    BY <2>3, <2>4, <2>5 DEF u
<1> HIDE DEF q, V
<1>7. \E h : PinsWalk(V, h, t, n, q, v)
  <2>1. \A w \in V : \A k \in 1 .. n : Si!SetPin(w, q[k], v) \in V
    BY <1>6
  <2> QED
    BY <1>3, <1>5, <2>1, PinFold
<1>71. PICK h \in [0 .. n -> V] :
           /\ h[0] = t /\ \A k \in 1 .. n : h[k] = Si!SetPin(h[k - 1], q[k], v)
           /\ PinsSet(t, q, v) = h[n]
  BY <1>7 DEF PinsWalk
<1>8. \A k \in 1 .. n : k - 1 \in 0 .. n /\ k \in 0 .. n
  BY Prefixes
<1>9. \A k \in 1 .. n : PinSet(h[k - 1], h[k], q[k], v)
  BY <1>6, <1>71, <1>8
<1>10. ASSUME NEW r \in SiLoads[p] PROVE Took(h[n], r)
  <2>1. PICK k \in 1 .. n : q[k] = r
    BY <1>2, <1>3
  <2>0. r \in Si!Pins
    BY <1>1
  <2> DEFINE P == {x \in V : Took(x, r)}
  <2>2. h[k] \in P
    BY <1>71, <1>8, <1>9, <2>1 DEF PinSet
  <2>3. ASSUME NEW j \in 1 .. n, h[j - 1] \in P PROVE h[j] \in P
    <3>1. h[j] \in V
      BY <1>71, <1>8
    <3>2. Took(h[j - 1], r) /\ h[j - 1].warned \subseteq h[j].warned
      BY <1>9, <2>3 DEF Onward, PinSet
    <3>3. Si!Differs(r, v) \/ h[j].value[r] = v
      BY <1>9, <2>0, <3>2 DEF PinSet
    <3> QED
      BY <3>1, <3>2, <3>3 DEF Said
  <2> HIDE DEF P
  <2>4. h[n] \in P
    BY <1>8, <2>2, <2>3, Remains
  <2> QED
    BY <2>4 DEF P
<1>11. n \in 0 .. n
  OBVIOUS
<1>12. h[n] \in V
  BY <1>71, <1>11
<1>13. h[n] \in Sane /\ Onward(t, h[n]) /\ Others(h[n])
  BY <1>12 DEF V
<1>14. Hands(t, h[n], p, v)
  BY <1>10, <1>13 DEF Hands
<1>15. PinsSet(t, Si!SetToSeq(SiLoads[p]), v) = h[n]
  BY <1>71 DEF q
<1> QED
  BY <1>10, <1>13, <1>14, <1>15

\* Setting a value, at a driver at its whole net (set_pin_value, sim.rs:303).
LEMMA SetValueDoes ==
  ASSUME NEW s \in Sane, NEW p \in Si!Pins, NEW v \in Si!Values
  PROVE  ValueSet(s, Si!SetValue(s, p, v), p, v)
<1> DEFINE t == Si!SetPin(s, p, v)
<1>1. PinSet(s, t, p, v)
  BY SetPinDoes
<1>2. Si!Drivers \subseteq Si!Pins
  BY SiConst
<1>3. CASE p \in Si!Drivers /\ ~Si!Differs(p, v) /\ s.value[p] # v
  <2>1. Si!SetValue(s, p, v) = PinsSet(t, Si!SetToSeq(SiLoads[p]), v)
    BY <1>3 DEF Si!SetValue, PinsSet, Si!FoldLeft, Si!MapThenFoldSet
  <2> HIDE DEF t
  <2>2. PICK u \in Sane :
           /\ PinsSet(t, Si!SetToSeq(SiLoads[p]), v) = u
           /\ Onward(t, u) /\ Hands(t, u, p, v)
           /\ \A r \in SiLoads[p] : Said(u, r, v)
    BY <1>1, <1>3, HandsOn DEF PinSet
  <2>3. Onward(s, t) /\ s.warned \subseteq t.warned /\ t.warned \subseteq u.warned /\ Onward(s, u)
    BY <1>1, <2>2, OnwardTwice DEF PinSet, Onward
  <2>4. Said(u, p, v)
    BY <1>3 DEF Said
  <2>5. u.value[p] = v /\ \A r \in Si!Drivers : r # p => u.value[r] = s.value[r]
    BY <1>1, <1>2, <1>3, <2>2, SiConst DEF PinSet, Hands
  <2>6. NetsSaid(s) => NetsSaid(u)
    <3>1. ASSUME NetsSaid(s), NEW d \in Si!Drivers, NEW l \in SiLoads[d]
          PROVE  Said(u, l, u.value[d])
      <4>1. CASE d = p
        BY <2>2, <2>5, <4>1
      <4>2. CASE d # p
        BY <2>3, <2>5, <3>1, <4>2 DEF NetsSaid, Said
      <4> QED
        BY <4>1, <4>2
    <3> QED
      BY <3>1 DEF NetsSaid
  <2>7. ValuesSet(s, u, p, v)
    <3>1. \A r \in Si!Pins : u.value[r] = IF r = p \/ (r \in SiLoads[p] /\ ~Si!Differs(r, v))
                                           THEN v ELSE s.value[r]
      BY <1>1, <1>3, <2>2, <2>5 DEF PinSet, Hands
    <3> QED
      BY <1>3, <3>1 DEF ValuesSet
  <2> QED
    BY <2>1, <2>2, <2>3, <2>4, <2>5, <2>6, <2>7 DEF ValueSet
<1>4. CASE ~(p \in Si!Drivers /\ ~Si!Differs(p, v) /\ s.value[p] # v)
  <2>1. Si!SetValue(s, p, v) = t
    BY <1>4 DEF Si!SetValue
  <2> HIDE DEF t
  <2>2. \A d \in Si!Drivers : t.value[d] = s.value[d]
    BY <1>1, <1>2, <1>4 DEF PinSet
  <2>3. s.warned \subseteq t.warned
    BY <1>1 DEF PinSet, Onward
  <2>4. NetsSaid(s) => NetsSaid(t)
    BY <2>2, <2>3 DEF NetsSaid, Said
  <2>5. ValuesSet(s, t, p, v)
    <3>1. CASE Si!Differs(p, v) \/ s.value[p] = v
      BY <1>1, <3>1 DEF PinSet, ValuesSet
    <3>2. CASE ~Si!Differs(p, v) /\ s.value[p] # v
      <4>1. p \notin Si!Drivers
        BY <1>4, <3>2
      <4> QED
        BY <1>1, <3>2, <4>1 DEF PinSet, ValuesSet
    <3> QED
      BY <3>1, <3>2
  <2> QED
    BY <1>1, <1>2, <2>1, <2>4, <2>5 DEF PinSet, ValueSet
<1> QED
  BY <1>3, <1>4

-----------------------------------------------------------------------------
(* Evaluating an instance                                                  *)

\* What the functions are.
LEMMA FunctionConst ==
  ASSUME NEW i \in SiInsts, NEW o \in Si!Evaluated(i)
  PROVE  /\ o \in SiOutPins[i] /\ o \in Si!Drivers /\ o \in Si!Pins
         /\ SiSupport[o] \subseteq SiInPins[i] /\ SiDisableOf[o] \in SiInPins[i] \cup {SiNoPin}
         /\ SiFunction[o] \in [SUBSET SiSupport[o] -> Si!Levels]
         /\ SiSupport[o] # {} =>
              \E S, T \in SUBSET SiSupport[o] : SiFunction[o][S] # SiFunction[o][T]
<1>1. Si!ConstantsOK
  BY FrontEndAssumption
<1>2. o \in SiOutPins[i] /\ {} \in DOMAIN SiFunction[o]
  BY DEF Si!Evaluated
<1>3. o \in Si!Drivers /\ o \in Si!Pins
  BY <1>2, SiConst
<1>4. SiSupport[o] \subseteq SiInPins[i] /\ SiDisableOf[o] \in SiInPins[i] \cup {SiNoPin}
  BY <1>1, <1>2 DEF Si!ConstantsOK
<1>5. SiFunction[o] \in [SUBSET SiSupport[o] -> Si!Levels]
  BY <1>1, <1>2 DEF Si!ConstantsOK
<1>6. SiSupport[o] # {} =>
        \E S, T \in SUBSET SiSupport[o] : SiFunction[o][S] # SiFunction[o][T]
  BY <1>1, <1>2 DEF Si!ConstantsOK
<1> QED
  BY <1>2, <1>3, <1>4, <1>5, <1>6

\* An output evaluates to a level or to nothing.
LEMMA EvalValue ==
  ASSUME NEW vals, NEW i \in SiInsts, NEW o \in Si!Evaluated(i)
  PROVE  Si!Eval(vals, o) \in Si!Levels \cup {SiUnknown} /\ Si!Eval(vals, o) \in Si!Values
<1> DEFINE X == Si!Outcomes(vals, o)
<1>1. SiFunction[o] \in [SUBSET SiSupport[o] -> Si!Levels]
  BY FunctionConst
<1>2. {} \in SUBSET Si!Free(vals, SiSupport[o])
  OBVIOUS
<1>3. \A F \in SUBSET Si!Free(vals, SiSupport[o]) :
        Si!One(vals, SiSupport[o]) \cup F \in SUBSET SiSupport[o]
  BY DEF Si!Free, Si!One
<1>4. X \subseteq Si!Levels /\ X # {}
  BY <1>1, <1>2, <1>3 DEF Si!Outcomes
<1>5. Si!Eval(vals, o) = SiUnknown \/ Si!Eval(vals, o) = CHOOSE v \in X : TRUE
  BY DEF Si!Eval
<1> HIDE DEF X
<1>6. (CHOOSE v \in X : TRUE) \in X
  BY <1>4
<1> QED
  BY <1>4, <1>5, <1>6 DEF Si!Values

\* It evaluates alike where its instance's inputs are alike.
LEMMA EvalLocal ==
  ASSUME NEW v, NEW w, NEW i \in SiInsts, NEW o \in Si!Evaluated(i),
         \A p \in SiInPins[i] : v[p] = w[p]
  PROVE  Si!Eval(v, o) = Si!Eval(w, o)
<1>1. SiSupport[o] \subseteq SiInPins[i] /\ SiDisableOf[o] \in SiInPins[i] \cup {SiNoPin}
  BY FunctionConst
<1>2. Si!One(v, SiSupport[o]) = Si!One(w, SiSupport[o])
  BY <1>1 DEF Si!One
<1>3. Si!Free(v, SiSupport[o]) = Si!Free(w, SiSupport[o])
  BY <1>1 DEF Si!Free
<1>4. Si!Outcomes(v, o) = Si!Outcomes(w, o)
  BY <1>2, <1>3 DEF Si!Outcomes
<1>5. SiDisableOf[o] # SiNoPin => v[SiDisableOf[o]] = w[SiDisableOf[o]]
  BY <1>1
<1> QED
  BY <1>4, <1>5 DEF Si!Eval

\* With no value at its inputs an output that reads some is not known.
LEMMA EvalOfNothing ==
  ASSUME NEW vals, NEW i \in SiInsts, NEW o \in Si!Evaluated(i), SiSupport[o] # {},
         \A p \in SiInPins[i] : vals[p] = SiUnknown
  PROVE  Si!Eval(vals, o) = SiUnknown
<1>1. /\ SiSupport[o] \subseteq SiInPins[i] /\ SiFunction[o] \in [SUBSET SiSupport[o] -> Si!Levels]
      /\ \E S, T \in SUBSET SiSupport[o] : SiFunction[o][S] # SiFunction[o][T]
  BY FunctionConst
<1>2. SiUnknown \notin Si!Levels
  BY FrontEndAssumption DEF Si!ConstantsOK
<1>3. Si!One(vals, SiSupport[o]) = {} /\ Si!Free(vals, SiSupport[o]) = SiSupport[o]
  BY <1>1, <1>2 DEF Si!One, Si!Free, Si!Levels
<1>4. \A F \in SUBSET SiSupport[o] : {} \cup F = F
  OBVIOUS
<1>5. \A F \in SUBSET SiSupport[o] : SiFunction[o][F] \in Si!Outcomes(vals, o)
  BY <1>3, <1>4 DEF Si!Outcomes
<1>6. PICK S \in SUBSET SiSupport[o], T \in SUBSET SiSupport[o] : SiFunction[o][S] # SiFunction[o][T]
  BY <1>1
<1> DEFINE X == Si!Outcomes(vals, o)
<1>7. SiFunction[o][S] \in X /\ SiFunction[o][T] \in X
  BY <1>5
<1>8. Si!Eval(vals, o) = SiUnknown \/ Si!Cardinality(X) = 1
  BY DEF Si!Eval
<1>9. X \subseteq Si!Levels
  BY <1>1, <1>3, <1>4 DEF Si!Outcomes
<1> HIDE DEF X
<1>10. IsFiniteSet(X)
  <2>1. IsFiniteSet({"0", "1"})
    <3>1. IsFiniteSet({"0"}) /\ {"0", "1"} = {"0"} \cup {"1"}
      BY FS_Singleton
    <3> QED
      BY <3>1, FS_AddElement
  <2> QED
    BY <1>9, <2>1, FS_Subset DEF Si!Levels
<1>11. Cardinality(X) = 1 => \E x : X = {x}
  BY <1>10, FS_Singleton
<1>12. Si!Cardinality(X) = Cardinality(X)
  BY OwnSets
<1>13. ~(\E x : X = {x})
  BY <1>6, <1>7
<1> QED
  BY <1>8, <1>11, <1>12, <1>13

\* The outputs of an instance set to what they evaluate to (eval_instance, sim.rs:352).
LEMMA OutputsDo ==
  ASSUME NEW s \in Sane, NEW i \in SiInsts
  PROVE  \E x \in Sane :
           /\ OutputsSet(s, Si!SetToSeq({o \in Si!Evaluated(i) : Si!Eval(value, o) # value[o]})) = x
           /\ Onward(s, x) /\ (NetsSaid(s) => NetsSaid(x))
           /\ \A o \in Si!Evaluated(i) : Si!Eval(value, o) # value[o] => Said(x, o, Si!Eval(value, o))
<1> DEFINE U == {o \in Si!Evaluated(i) : Si!Eval(value, o) # value[o]}
           q == Si!SetToSeq(U)
           V == {u \in Sane : Onward(s, u) /\ (NetsSaid(s) => NetsSaid(u))}
<1>1. \A o \in U : o \in Si!Pins /\ Si!Eval(value, o) \in Si!Values
  BY FunctionConst, EvalValue
<1>2. IsFiniteSet(U)
  <2>1. IsFiniteSet(Si!Pins) /\ U \subseteq Si!Pins
    BY <1>1, SiConst
  <2> QED
    BY <2>1, FS_Subset
<1> HIDE DEF U
<1>3. q \in Seq(U) /\ (\E n \in Nat : DOMAIN q = 1 .. n) /\ \A x \in U : \E k \in DOMAIN q : q[k] = x
  BY <1>2, Listing
<1>4. PICK n \in Nat : DOMAIN q = 1 .. n
  BY <1>3
<1>5. \A k \in 1 .. n : q[k] \in U
  BY <1>3, <1>4
<1>6. s \in V
  BY DEF Onward
<1>7. ASSUME NEW w \in V, NEW k \in 1 .. n
      PROVE  LET u == Si!SetValue(w, q[k], Si!Eval(value, q[k]))
             IN u \in V /\ Said(u, q[k], Si!Eval(value, q[k])) /\ Onward(w, u)
  <2> DEFINE u == Si!SetValue(w, q[k], Si!Eval(value, q[k]))
  <2>1. w \in Sane /\ Onward(s, w) /\ (NetsSaid(s) => NetsSaid(w))
    OBVIOUS
  <2>2. q[k] \in Si!Pins /\ Si!Eval(value, q[k]) \in Si!Values
    BY <1>1, <1>5
  <2>3. ValueSet(w, u, q[k], Si!Eval(value, q[k]))
    BY <2>1, <2>2, SetValueDoes
  <2> HIDE DEF u, q
  <2>4. /\ u \in Sane /\ Onward(w, u) /\ Said(u, q[k], Si!Eval(value, q[k]))
        /\ NetsSaid(w) => NetsSaid(u)
    BY <2>3 DEF ValueSet
  <2>5. Onward(s, u)
    BY <2>1, <2>4, OnwardTwice
  <2>6. u \in V
    BY <2>1, <2>4, <2>5
  <2> QED
    BY <2>4, <2>6 DEF u
<1> HIDE DEF q, V
<1>8. \E h : OutputsWalk(V, h, s, n, q)
  <2>1. \A w \in V : \A k \in 1 .. n : Si!SetValue(w, q[k], Si!Eval(value, q[k])) \in V
    BY <1>7
  <2> QED
    BY <1>4, <1>6, <2>1, ValueFold
<1>9. PICK h \in [0 .. n -> V] :
           /\ h[0] = s /\ \A k \in 1 .. n : h[k] = Si!SetValue(h[k - 1], q[k], Si!Eval(value, q[k]))
           /\ OutputsSet(s, q) = h[n]
  BY <1>8 DEF OutputsWalk
<1>10. \A k \in 1 .. n : k - 1 \in 0 .. n /\ k \in 0 .. n
  BY Prefixes
<1>11. \A k \in 1 .. n : Said(h[k], q[k], Si!Eval(value, q[k])) /\ Onward(h[k - 1], h[k])
  BY <1>7, <1>9, <1>10
<1>12. ASSUME NEW o \in U PROVE Said(h[n], o, Si!Eval(value, o))
  <2>1. PICK k \in 1 .. n : q[k] = o
    BY <1>3, <1>4
  <2> DEFINE P == {x \in V : Said(x, o, Si!Eval(value, o))}
  <2>2. h[k] \in P
    BY <1>9, <1>10, <1>11, <2>1
  <2>3. ASSUME NEW j \in 1 .. n, h[j - 1] \in P PROVE h[j] \in P
    <3>1. h[j] \in V
      BY <1>9, <1>10
    <3>2. Said(h[j - 1], o, Si!Eval(value, o)) /\ h[j - 1].warned \subseteq h[j].warned
      BY <1>11, <2>3 DEF Onward
    <3> QED
      BY <3>1, <3>2 DEF Said
  <2> HIDE DEF P
  <2>4. h[n] \in P
    BY <1>10, <2>2, <2>3, Remains
  <2> QED
    BY <2>4 DEF P
<1>13. n \in 0 .. n
  OBVIOUS
<1>14. h[n] \in V
  BY <1>9, <1>13
<1>15. h[n] \in Sane /\ Onward(s, h[n]) /\ (NetsSaid(s) => NetsSaid(h[n]))
  BY <1>14 DEF V
<1>16. OutputsSet(s, Si!SetToSeq({o \in Si!Evaluated(i) : Si!Eval(value, o) # value[o]})) = h[n]
  BY <1>9 DEF q, U
<1>17. \A o \in Si!Evaluated(i) : Si!Eval(value, o) # value[o] => Said(h[n], o, Si!Eval(value, o))
  BY <1>12 DEF U
<1> QED
  BY <1>15, <1>16, <1>17

\* An output's value that its constraint contradicts is said, unless its instance is
\* still to be evaluated.
EvalSaid(s, i) ==
  \A o \in Si!Evaluated(i) : SiSupport[o] # {} => Said(s, o, Si!Eval(s.value, o))
EvalsSaid(s) == \A i \in SiInsts : InQueue(s, i) \/ EvalSaid(s, i)

\* That stays so.
LEMMA EvalsStaySaid ==
  ASSUME NEW s, NEW u, Onward(s, u), NEW i \in SiInsts,
         InQueue(s, i) \/ \A o \in Si!Evaluated(i) : SiSupport[o] # {} => Said(u, o, Si!Eval(s.value, o))
  PROVE  InQueue(u, i) \/ EvalSaid(u, i)
<1>1. CASE InQueue(s, i)
  BY <1>1 DEF Onward
<1>2. CASE \E p \in SiInPins[i] : u.value[p] # s.value[p]
  BY <1>2 DEF Onward
<1>3. CASE ~InQueue(s, i) /\ \A p \in SiInPins[i] : u.value[p] = s.value[p]
  <2>1. ASSUME NEW o \in Si!Evaluated(i), SiSupport[o] # {} PROVE Said(u, o, Si!Eval(u.value, o))
    <3>1. Si!Eval(u.value, o) = Si!Eval(s.value, o)
      BY <1>3, EvalLocal
    <3> QED
      BY <1>3, <2>1, <3>1
  <2> QED
    BY <2>1 DEF EvalSaid
<1> QED
  BY <1>1, <1>2, <1>3

-----------------------------------------------------------------------------
(* Seeds and constraints                                                   *)

\* g holds the joins of the first lists of ss, one more at each step.
Joins(g, ss, T) ==
  /\ g \in [1 .. Len(ss) -> Seq(T)] /\ g[1] = ss[1]
  /\ \A k \in 1 .. Len(ss) : k # 1 => g[k] = g[k - 1] \o ss[k]

\* The lists of a sequence one after another.
LEMMA Flat ==
  ASSUME NEW T, NEW ss \in Seq(Seq(T)), ss # <<>>
  PROVE  \E g : Joins(g, ss, T) /\ Si!FlattenSeq(ss) = g[Len(ss)]
<1> DEFINE n == Len(ss)
           Rec(g) == g = [i \in 1 .. n |-> IF i = 1 THEN ss[i] ELSE g[i - 1] \o ss[i]]
           flatten == CHOOSE g : Rec(g)
<1>1. n \in Nat \ {0} /\ \A k \in 1 .. n : ss[k] \in Seq(T)
  OBVIOUS
<1>2. Rec(flatten)
  <2>1. \E g : Rec(g)
    BY <1>1, ChainExists DEF ChainOf
  <2> HIDE DEF Rec
  <2> QED
    BY <2>1
<1>3. Si!FlattenSeq(ss) = flatten[n]
  BY <1>1 DEF Si!FlattenSeq
<1>4. flatten = [i \in 1 .. n |-> flatten[i]]
      /\ \A i \in 1 .. n : flatten[i] = IF i = 1 THEN ss[i] ELSE flatten[i - 1] \o ss[i]
  <2> HIDE DEF flatten
  <2> QED
    BY <1>2
<1> HIDE DEF flatten, Rec
<1>5. \A i \in 1 .. n : flatten[i] \in Seq(T)
  <2> DEFINE Bad == {m \in Nat : m >= 1 /\ m <= n /\ flatten[m] \notin Seq(T)}
  <2>0. SUFFICES ASSUME NEW i \in 1 .. n, flatten[i] \notin Seq(T) PROVE FALSE
    OBVIOUS
  <2>1. i \in Bad
    BY <1>1, <2>0
  <2>2. PICK m \in Bad : \A y \in Bad : m <= y
    <3>1. Bad \in SUBSET Nat
      OBVIOUS
    <3> HIDE DEF Bad
    <3> QED
      BY <2>1, <3>1, LeastNat
  <2>3. m \in 1 .. n /\ flatten[m] \notin Seq(T)
    BY <1>1, <2>2
  <2>4. m # 1
    BY <1>1, <1>4, <2>3
  <2>5. m - 1 \in Nat /\ m - 1 >= 1 /\ m - 1 <= n /\ m - 1 \notin Bad
    BY <1>1, <2>2, <2>3, <2>4
  <2>6. flatten[m - 1] \in Seq(T)
    BY <2>5
  <2>7. flatten[m] = flatten[m - 1] \o ss[m] /\ ss[m] \in Seq(T)
    BY <1>1, <1>4, <2>3, <2>4
  <2> QED
    BY <2>3, <2>6, <2>7
<1>6. 1 \in 1 .. n
  BY <1>1
<1>7. Joins(flatten, ss, T)
  BY <1>4, <1>5, <1>6 DEF Joins
<1> QED
  BY <1>3, <1>7

\* What is set on a pin by a list of pins and values: its last value, if any.
SetsPin(l, p) == \E j \in DOMAIN l : l[j][1] = p
SetsLast(l, p, v) ==
  \E j \in DOMAIN l : l[j][1] = p /\ l[j][2] = v /\ \A k \in DOMAIN l : l[k][1] = p => k <= j

\* Of two lists one after the other the second decides where it says anything.
LEMMA SetsJoined ==
  ASSUME NEW T, NEW l \in Seq(T), NEW r \in Seq(T), NEW p, NEW v
  PROVE  /\ l \o r \in Seq(T)
         /\ SetsLast(r, p, v) => SetsLast(l \o r, p, v)
         /\ SetsLast(l, p, v) /\ ~SetsPin(r, p) => SetsLast(l \o r, p, v)
         /\ ~SetsPin(l, p) /\ ~SetsPin(r, p) => ~SetsPin(l \o r, p)
<1> DEFINE t == l \o r
<1>1. /\ t \in Seq(T) /\ DOMAIN t = 1 .. Len(l) + Len(r)
      /\ DOMAIN l = 1 .. Len(l) /\ DOMAIN r = 1 .. Len(r) /\ Len(l) \in Nat /\ Len(r) \in Nat
      /\ \A j \in DOMAIN l : t[j] = l[j]
      /\ \A j \in DOMAIN r : t[Len(l) + j] = r[j]
  OBVIOUS
<1> HIDE DEF t
<1>2. /\ \A j \in DOMAIN l : j \in DOMAIN t
      /\ \A j \in DOMAIN r : Len(l) + j \in DOMAIN t
      /\ \A k \in DOMAIN t : k \in DOMAIN l \/ (k - Len(l) \in DOMAIN r /\ t[k] = r[k - Len(l)])
  <2>1. ASSUME NEW k \in DOMAIN t, k \notin DOMAIN l
        PROVE  k - Len(l) \in DOMAIN r /\ t[k] = r[k - Len(l)]
    <3>1. k - Len(l) \in 1 .. Len(r) /\ Len(l) + (k - Len(l)) = k
      BY <1>1, <2>1
    <3> QED
      BY <1>1, <3>1
  <2> QED
    BY <1>1, <2>1
<1>3. ASSUME SetsLast(r, p, v) PROVE SetsLast(t, p, v)
  <2>1. PICK j \in DOMAIN r : r[j][1] = p /\ r[j][2] = v /\ \A k \in DOMAIN r : r[k][1] = p => k <= j
    BY <1>3 DEF SetsLast
  <2>2. Len(l) + j \in DOMAIN t /\ t[Len(l) + j] = r[j]
    BY <1>1, <1>2
  <2>3. ASSUME NEW k \in DOMAIN t, t[k][1] = p PROVE k <= Len(l) + j
    <3>1. CASE k \in DOMAIN l
      BY <1>1, <3>1
    <3>2. CASE k - Len(l) \in DOMAIN r /\ t[k] = r[k - Len(l)]
      <4>1. k - Len(l) <= j
        BY <2>1, <2>3, <3>2
      <4>2. k \in Int /\ Len(l) \in Int /\ j \in Int
        BY <1>1
      <4> QED
        BY <4>1, <4>2
    <3> QED
      BY <1>2, <3>1, <3>2
  <2> QED
    BY <2>1, <2>2, <2>3 DEF SetsLast
<1>4. ASSUME SetsLast(l, p, v), ~SetsPin(r, p) PROVE SetsLast(t, p, v)
  <2>1. PICK j \in DOMAIN l : l[j][1] = p /\ l[j][2] = v /\ \A k \in DOMAIN l : l[k][1] = p => k <= j
    BY <1>4 DEF SetsLast
  <2>2. \A k \in DOMAIN t : t[k][1] = p => k \in DOMAIN l /\ t[k] = l[k]
    BY <1>1, <1>2, <1>4 DEF SetsPin
  <2> QED
    BY <1>1, <1>2, <2>1, <2>2 DEF SetsLast
<1>5. ASSUME ~SetsPin(l, p), ~SetsPin(r, p) PROVE ~SetsPin(t, p)
  BY <1>1, <1>2, <1>5 DEF SetsPin
<1> QED
  BY <1>1, <1>3, <1>4, <1>5 DEF t

\* The entries a file may hold: a pin, and a value or "x".
Entries == Si!Pins \X (Si!Levels \cup Si!Transitions \cup {"x"})

\* A command's list has its value at each of its pins.
LEMMA PinsListed ==
  ASSUME NEW c \in SiCases, NEW p
  PROVE  /\ Si!PinsOf(c) \in Seq(Entries)
         /\ p \in c.pins => SetsLast(Si!PinsOf(c), p, c.value)
         /\ p \notin c.pins => ~SetsPin(Si!PinsOf(c), p)
<1> DEFINE q == Si!SetToSeq(c.pins)
           l == Si!PinsOf(c)
<1>1. c.pins \subseteq Si!Pins /\ c.value \in Si!Levels \cup Si!Transitions \cup {"x"}
  BY FrontEndAssumption DEF Si!ConstantsOK
<1>2. IsFiniteSet(c.pins)
  BY <1>1, SiConst, FS_Subset
<1>3. q \in Seq(c.pins) /\ (\E n \in Nat : DOMAIN q = 1 .. n) /\ \A x \in c.pins : \E k \in DOMAIN q : q[k] = x
  BY <1>2, Listing
<1>4. PICK n \in Nat : DOMAIN q = 1 .. n
  BY <1>3
<1>5. Si!Cardinality(c.pins) = n
  <2>1. q \in [1 .. Si!Cardinality(c.pins) -> c.pins]
    <3>1. Cardinality(c.pins) \in Nat /\ ExistsBijection(1 .. Cardinality(c.pins), c.pins)
      BY <1>2, FS_CardinalityType
    <3>2. PICK f : f \in [1 .. Cardinality(c.pins) -> c.pins] /\ Si!IsInjective(f)
      BY <3>1 DEF ExistsBijection, Bijection, Injection, Surjection, Si!IsInjective, IsInjective
    <3> QED
      BY <3>2, OwnSets DEF Si!SetToSeq
  <2>2. Si!Cardinality(c.pins) \in Nat
    BY <1>2, OwnSets, FS_CardinalityType
  <2> QED
    BY <1>4, <2>1, <2>2
<1>6. l = [k \in 1 .. n |-> <<q[k], c.value>>]
  BY <1>5 DEF Si!PinsOf
<1>7. \A k \in 1 .. n : q[k] \in c.pins
  BY <1>3, <1>4
<1> HIDE DEF q, l
<1>8. l \in Seq(Entries) /\ DOMAIN l = 1 .. n
  BY <1>1, <1>6, <1>7 DEF Entries
<1>9. \A k \in 1 .. n : l[k][1] = q[k] /\ l[k][2] = c.value
  BY <1>6
<1>10. ASSUME p \in c.pins PROVE SetsLast(l, p, c.value)
  <2>1. PICK i \in 1 .. n : q[i] = p
    BY <1>3, <1>4, <1>10
  <2> DEFINE K == {k \in 1 .. n : q[k] = p}
  <2>2. K \in SUBSET Int /\ IsFiniteSet(K) /\ K # {}
    <3>1. IsFiniteSet(1 .. n) /\ K \subseteq 1 .. n
      BY FS_Interval
    <3> QED
      BY <2>1, <3>1, FS_Subset
  <2> HIDE DEF K
  <2>3. PICK j \in K : \A k \in K : j >= k
    BY <2>2, GreatestOfFinite
  <2> QED
    BY <1>8, <1>9, <2>3 DEF SetsLast, K
<1>11. p \notin c.pins => ~SetsPin(l, p)
  BY <1>7, <1>8, <1>9 DEF SetsPin
<1> QED
  BY <1>8, <1>10, <1>11 DEF l

\* The commands of one kind that name a pin.
Naming(cs, case, p) == {k \in DOMAIN cs : p \in cs[k].pins /\ cs[k].case = case}

\* The greatest of some of a file's commands is one of them and behind the others.
LEMMA GreatestNaming ==
  ASSUME NEW cs \in Seq(SiCases), NEW K \in SUBSET DOMAIN cs, K # {}
  PROVE  Si!Max(K) \in K /\ \A k \in K : k <= Si!Max(K)
<1>1. K \in SUBSET Int /\ IsFiniteSet(K)
  <2>1. DOMAIN cs = 1 .. Len(cs) /\ Len(cs) \in Nat
    OBVIOUS
  <2>2. IsFiniteSet(1 .. Len(cs))
    BY <2>1, FS_Interval
  <2> QED
    BY <2>1, <2>2, FS_Subset
<1>2. \E x \in K : \A y \in K : x >= y
  BY <1>1, GreatestOfFinite
<1>3. Si!Max(K) \in K /\ \A y \in K : Si!Max(K) >= y
  BY <1>2 DEF Si!Max
<1> QED
  BY <1>1, <1>3

\* The commands of one kind set a pin to the value of the last that names it.
LEMMA SeedsOfCases ==
  ASSUME NEW cs \in Seq(SiCases), NEW case \in BOOLEAN, NEW p
  PROVE  /\ Si!SeedsOf(cs, case) \in Seq(Entries)
         /\ Naming(cs, case, p) = {} => ~SetsPin(Si!SeedsOf(cs, case), p)
         /\ Naming(cs, case, p) # {} =>
              SetsLast(Si!SeedsOf(cs, case), p, cs[Si!Max(Naming(cs, case, p))].value)
<1> DEFINE n == Len(cs)
           ss == [k \in DOMAIN cs |-> IF cs[k].case = case THEN Si!PinsOf(cs[k]) ELSE <<>>]
           K == Naming(cs, case, p)
<1>1. n \in Nat /\ DOMAIN cs = 1 .. n /\ \A k \in 1 .. n : cs[k] \in SiCases
  OBVIOUS
<1>2. \A k \in 1 .. n : Si!PinsOf(cs[k]) \in Seq(Entries)
  BY <1>1, PinsListed
<1>3. ss \in Seq(Seq(Entries)) /\ Len(ss) = n
  BY <1>1, <1>2
<1>4. Si!SeedsOf(cs, case) = Si!FlattenSeq(ss)
  BY DEF Si!SeedsOf
<1>5. \A k \in 1 .. n : /\ ss[k] \in Seq(Entries)
                        /\ k \in K => SetsLast(ss[k], p, cs[k].value)
                        /\ k \notin K => ~SetsPin(ss[k], p)
  <2> SUFFICES ASSUME NEW k \in 1 .. n
               PROVE  /\ ss[k] \in Seq(Entries)
                      /\ k \in K => SetsLast(ss[k], p, cs[k].value)
                      /\ k \notin K => ~SetsPin(ss[k], p)
    OBVIOUS
  <2>1. k \in DOMAIN cs /\ cs[k] \in SiCases
    BY <1>1
  <2>2. ss[k] = IF cs[k].case = case THEN Si!PinsOf(cs[k]) ELSE <<>>
    BY <2>1
  <2>3. /\ Si!PinsOf(cs[k]) \in Seq(Entries)
        /\ p \in cs[k].pins => SetsLast(Si!PinsOf(cs[k]), p, cs[k].value)
        /\ p \notin cs[k].pins => ~SetsPin(Si!PinsOf(cs[k]), p)
    BY <2>1, PinsListed
  <2>4. ~SetsPin(<<>>, p)
    BY DEF SetsPin
  <2>5. k \in K <=> p \in cs[k].pins /\ cs[k].case = case
    BY <2>1 DEF Naming
  <2> HIDE DEF ss, K
  <2>6. CASE cs[k].case = case
    BY <2>2, <2>3, <2>5, <2>6
  <2>7. CASE cs[k].case # case
    BY <2>2, <2>4, <2>5, <2>7
  <2> QED
    BY <2>6, <2>7
<1>6. K \in SUBSET DOMAIN cs /\ K \subseteq 1 .. n
  BY <1>1 DEF Naming
<1> HIDE DEF K
<1>7. CASE n = 0
  <2>1. Si!FlattenSeq(ss) = <<>> /\ K = {}
    BY <1>1, <1>3, <1>6, <1>7 DEF Si!FlattenSeq
  <2>2. ~SetsPin(<<>>, p) /\ <<>> \in Seq(Entries)
    BY DEF SetsPin
  <2> QED
    BY <1>4, <2>1, <2>2 DEF K
<1>8. CASE n # 0
  <2> HIDE DEF ss
  <2>1. PICK g : Joins(g, ss, Entries) /\ Si!FlattenSeq(ss) = g[n]
    BY <1>3, <1>8, Flat, SMTT(40)
  <2>2. /\ \A k \in 1 .. n : g[k] \in Seq(Entries)
        /\ g[1] = ss[1] /\ \A k \in 1 .. n : k # 1 => g[k] = g[k - 1] \o ss[k]
    BY <1>3, <2>1 DEF Joins
  <2> DEFINE Good(m) == /\ (\A k \in K : k > m) => ~SetsPin(g[m], p)
                        /\ \A j \in K : j <= m /\ (\A k \in K : k <= m => k <= j) =>
                             SetsLast(g[m], p, cs[j].value)
  <2>3. 1 \in 1 .. n /\ Good(1)
    <3>1. 1 \in 1 .. n
      BY <1>1, <1>8
    <3>2. (\A k \in K : k > 1) => 1 \notin K
      OBVIOUS
    <3>3. \A j \in K : j <= 1 => j = 1
      BY <1>6
    <3> QED
      BY <1>5, <2>2, <3>1, <3>2, <3>3
  <2>4. ASSUME NEW m \in 1 .. n, m # 1, Good(m - 1) PROVE Good(m)
    <3>0. m - 1 \in 1 .. n
      BY <1>1, <2>4
    <3>1. g[m - 1] \in Seq(Entries) /\ ss[m] \in Seq(Entries) /\ g[m] = g[m - 1] \o ss[m]
      BY <1>5, <2>2, <2>4, <3>0
    <3>2. /\ \A v : SetsLast(ss[m], p, v) => SetsLast(g[m], p, v)
          /\ \A v : SetsLast(g[m - 1], p, v) /\ ~SetsPin(ss[m], p) => SetsLast(g[m], p, v)
          /\ ~SetsPin(g[m - 1], p) /\ ~SetsPin(ss[m], p) => ~SetsPin(g[m], p)
      BY <3>1, SetsJoined
    <3>3. ASSUME \A k \in K : k > m PROVE ~SetsPin(g[m], p)
      <4>1. m \notin K /\ \A k \in K : k > m - 1
        BY <1>6, <3>3
      <4> QED
        BY <1>5, <2>4, <3>2, <4>1
    <3>4. ASSUME NEW j \in K, j <= m, \A k \in K : k <= m => k <= j
          PROVE  SetsLast(g[m], p, cs[j].value)
      <4>1. CASE m \in K
        <5>1. j = m
          BY <1>6, <3>4, <4>1
        <5> QED
          BY <1>5, <3>2, <4>1, <5>1
      <4>2. CASE m \notin K
        <5>1. j <= m - 1 /\ \A k \in K : k <= m - 1 => k <= j
          <6>1. j \in Int /\ m \in Int /\ j # m /\ \A k \in K : k \in Int
            BY <1>6, <3>4, <4>2
          <6> QED
            BY <3>4, <6>1
        <5>2. SetsLast(g[m - 1], p, cs[j].value)
          BY <2>4, <5>1
        <5> QED
          BY <1>5, <3>2, <4>2, <5>2
      <4> QED
        BY <4>1, <4>2
    <3> QED
      BY <3>3, <3>4
  <2> HIDE DEF Good
  <2>5. Good(n)
    <3> DEFINE Bad == {m \in Nat : m >= 1 /\ m <= n /\ ~Good(m)}
    <3>1. SUFFICES ASSUME ~Good(n) PROVE FALSE
      OBVIOUS
    <3>2. n \in Bad /\ Bad \in SUBSET Nat
      BY <1>1, <1>8, <3>1
    <3>3. PICK m \in Bad : \A y \in Bad : m <= y
      <4> HIDE DEF Bad
      <4> QED
        BY <3>2, LeastNat
    <3>4. m \in 1 .. n /\ ~Good(m) /\ m # 1
      BY <1>1, <2>3, <3>3
    <3>5. m - 1 \in Nat /\ m - 1 >= 1 /\ m - 1 <= n /\ m - 1 \notin Bad
      BY <1>1, <3>3, <3>4
    <3>6. Good(m - 1)
      BY <3>5
    <3> QED
      BY <2>4, <3>4, <3>6
  <2>6. K = {} => ~SetsPin(g[n], p)
    BY <2>5 DEF Good
  <2>7. K # {} => SetsLast(g[n], p, cs[Si!Max(K)].value)
    <3>1. ASSUME K # {} PROVE Si!Max(K) \in K /\ Si!Max(K) <= n /\ \A k \in K : k <= Si!Max(K)
      <4>1. Si!Max(K) \in K /\ \A k \in K : k <= Si!Max(K)
        BY <1>6, <3>1, GreatestNaming
      <4> QED
        BY <1>6, <4>1
    <3> QED
      BY <2>5, <3>1 DEF Good
  <2>8. n \in 1 .. n
    BY <1>1, <1>8
  <2> QED
    BY <1>4, <2>1, <2>2, <2>6, <2>7, <2>8 DEF K
<1> QED
  BY <1>7, <1>8

\* The list of constraints has the ruling command's value last on each pin, and the
\* constraint on a pin is that value (set_constraints, sim.rs:262).
LEMMA ConstraintRules ==
  ASSUME cases \in Seq(SiCases), NEW p
  PROVE  /\ Si!Constraints(cases) \in Seq(Entries)
         /\ Si!Ruling(p) # {} =>
              Si!Constrained(p) /\ Si!Constraint(p) = cases[Si!Max(Si!Ruling(p))].value
<1> DEFINE l == Si!LogicSeeds(cases)
           r == Si!CaseSeeds(cases)
           L == Naming(cases, FALSE, p)
           R == Naming(cases, TRUE, p)
<1>1. /\ l \in Seq(Entries) /\ (L = {} => ~SetsPin(l, p))
      /\ L # {} => SetsLast(l, p, cases[Si!Max(L)].value)
  BY SeedsOfCases DEF Si!LogicSeeds
<1>2. /\ r \in Seq(Entries) /\ (R = {} => ~SetsPin(r, p))
      /\ R # {} => SetsLast(r, p, cases[Si!Max(R)].value)
  BY SeedsOfCases DEF Si!CaseSeeds
<1>3. Si!Constraints(cases) = l \o r
  BY DEF Si!Constraints
<1>4. Si!Ruling(p) = IF R # {} THEN R ELSE L
  BY DEF Si!Ruling, Naming
<1> HIDE DEF l, r, L, R
<1>5. /\ l \o r \in Seq(Entries)
      /\ \A v : SetsLast(r, p, v) => SetsLast(l \o r, p, v)
      /\ \A v : SetsLast(l, p, v) /\ ~SetsPin(r, p) => SetsLast(l \o r, p, v)
  BY <1>1, <1>2, SetsJoined
<1> DEFINE c == Si!Constraints(cases)
           v == cases[Si!Max(Si!Ruling(p))].value
<1>6. ASSUME Si!Ruling(p) # {} PROVE SetsLast(c, p, v)
  <2>1. CASE R # {}
    BY <1>2, <1>3, <1>4, <1>5, <2>1
  <2>2. CASE R = {}
    BY <1>1, <1>2, <1>3, <1>4, <1>5, <1>6, <2>2
  <2> QED
    BY <2>1, <2>2
<1>7. ASSUME Si!Ruling(p) # {} PROVE Si!Constrained(p) /\ Si!Constraint(p) = v
  <2> DEFINE K == {k \in DOMAIN c : c[k][1] = p}
             m == CHOOSE k \in K : \A j \in K : j <= k
  <2>1. Si!Constraint(p) = (IF K = {} THEN SiUnknown ELSE c[m][2]) /\ (Si!Constrained(p) <=> K # {})
    BY DEF Si!Constraint, Si!Constrained
  <2>2. c \in Seq(Entries)
    BY <1>3, <1>5
  <2>3. PICK j \in K : c[j][2] = v /\ \A k \in K : k <= j
    <3> HIDE DEF c, v
    <3> QED
      BY <1>6, <1>7 DEF SetsLast
  <2>4. K \subseteq Int
    BY <2>2
  <2> HIDE DEF K, c, v
  <2>5. m \in K /\ \A k \in K : k <= m
    BY <2>3
  <2> HIDE DEF m
  <2>6. m = j
    <3>1. m \in Int /\ j \in Int /\ m <= j /\ j <= m
      BY <2>3, <2>4, <2>5
    <3> QED
      BY <3>1
  <2> QED
    BY <2>1, <2>3, <2>6
<1> QED
  BY <1>3, <1>5, <1>7

-----------------------------------------------------------------------------
(* The invariant                                                           *)

\* The values the netlist gives: its ties and the outputs of its tie cells.
Given == SiTies \cup {<<o, SiFunction[o][{}]>> : o \in Si!TieCells}

\* A given value is still to be seeded, or was said where its constraint differs.
GivenSaid(s, list) ==
  \A t \in Given : (\E k \in DOMAIN list : list[k] = t) \/ Said(s, t[1], t[2])

\* A state of the propagation: sane, and what contradicts a constraint said.
SaidState(s) == s \in Sane /\ NetsSaid(s) /\ EvalsSaid(s)

SimInv ==
  /\ cases \in Seq(SiCases)
  /\ SaidState(Si!State)
  /\ seeds \in Seq(Entries) /\ GivenSaid(Si!State, seeds)
  /\ sim_phase \in {"seed", "propagate", "senses", "done"}
  /\ sim_phase # "seed" => seeds = <<>>
  /\ sim_phase \in {"senses", "done"} => queue = <<>>
  /\ sim_phase = "done" =>
       sense = [a \in SiArcs |-> IF a[1] \in annotate THEN Si!SenseOf(a[2], a[3]) ELSE "library"]

\* The constraints stay as they are.
LEMMA SameConstraints ==
  ASSUME cases' = cases, NEW p, NEW v
  PROVE  /\ (Si!Constrained(p))' = Si!Constrained(p) /\ (Si!Constraint(p))' = Si!Constraint(p)
         /\ (Si!Differs(p, v))' = Si!Differs(p, v)
<1>1. (Si!Constraints(cases))' = Si!Constraints(cases)
  OBVIOUS
<1>2. (Si!Constrained(p))' = Si!Constrained(p) /\ (Si!Constraint(p))' = Si!Constraint(p)
  BY <1>1 DEF Si!Constrained, Si!Constraint
<1> QED
  BY <1>2 DEF Si!Differs

\* So a step that leaves a sound state behind leaves one for the invariant.
LEMMA SoundNext ==
  ASSUME NEW u, (Si!State)' = u, cases' = cases, SaidState(u)
  PROVE  (SaidState(Si!State))'
<1>1. \A p, v : (Si!Constrained(p))' = Si!Constrained(p) /\ (Si!Constraint(p))' = Si!Constraint(p)
                /\ (Si!Differs(p, v))' = Si!Differs(p, v)
  BY SameConstraints
<1>2. (Si!State \in Sane)'
  BY <1>1 DEF SaidState, Sane, SimStates, Annotated, Obeyed
<1>3. (NetsSaid(Si!State))'
  BY <1>1 DEF SaidState, NetsSaid, Said
<1>4. (EvalsSaid(Si!State))'
  BY <1>1 DEF SaidState, EvalsSaid, EvalSaid, Said, InQueue
<1> QED
  BY <1>2, <1>3, <1>4 DEF SaidState

\* The values given stay seeded or said.
LEMMA GivenNext ==
  ASSUME NEW u, (Si!State)' = u, cases' = cases, NEW list, seeds' = list, GivenSaid(u, list)
  PROVE  (GivenSaid(Si!State, seeds))'
<1>1. \A p, v : (Si!Differs(p, v))' = Si!Differs(p, v)
  BY SameConstraints
<1> QED
  BY <1>1 DEF GivenSaid, Given, Said

\* What is given: a level at each.
LEMMA GivenConst ==
  /\ Given \subseteq Entries /\ \A t \in Given : t[2] \in Si!Levels
  /\ IsFiniteSet(SiTies) /\ IsFiniteSet({<<o, SiFunction[o][{}]>> : o \in Si!TieCells})
<1> DEFINE C == {<<o, SiFunction[o][{}]>> : o \in Si!TieCells}
           f == [o \in Si!TieCells |-> <<o, SiFunction[o][{}]>>]
<1>1. SiTies \subseteq Si!Pins \X Si!Levels /\ IsFiniteSet(SiTies)
  BY FrontEndAssumption, OwnSets DEF Si!ConstantsOK
<1>2. \A o \in Si!TieCells : o \in Si!Pins /\ SiFunction[o][{}] \in Si!Levels
  <2> SUFFICES ASSUME NEW o \in Si!TieCells
               PROVE  o \in Si!Pins /\ SiFunction[o][{}] \in Si!Levels
    OBVIOUS
  <2>1. o \in Si!Drivers \ SiInPorts /\ {} \in DOMAIN SiFunction[o]
    BY DEF Si!TieCells
  <2>2. PICK i \in SiInsts : o \in SiOutPins[i]
    BY <2>1, SiConst
  <2>3. o \in Si!Evaluated(i)
    BY <2>1, <2>2 DEF Si!Evaluated
  <2>4. o \in Si!Pins /\ SiFunction[o] \in [SUBSET SiSupport[o] -> Si!Levels]
    BY <2>3, FunctionConst
  <2> QED
    BY <2>4
<1>3. IsFiniteSet(Si!TieCells)
  BY <1>2, SiConst, FS_Subset
<1>4. IsFiniteSet({f[o] : o \in Si!TieCells})
  BY <1>3, ImageFinite
<1>5. {f[o] : o \in Si!TieCells} = C
  OBVIOUS
<1>6. C \subseteq Si!Pins \X Si!Levels
  BY <1>2
<1> HIDE DEF C, f
<1>7. IsFiniteSet(C)
  BY <1>4, <1>5
<1>8. Given = SiTies \cup C
  BY DEF Given, C
<1>9. Given \subseteq Si!Pins \X Si!Levels
  BY <1>1, <1>6, <1>8
<1> QED
  BY <1>1, <1>7, <1>9 DEF C, Entries

\* The propagation starts with the invariant.
LEMMA SimInit == Si!Init => SimInv
<1> SUFFICES ASSUME Si!Init PROVE SimInv
  OBVIOUS
<1> DEFINE s == Si!State
           C == {<<o, SiFunction[o][{}]>> : o \in Si!TieCells}
           a == Si!SetToSeq(SiTies)
           b == Si!Constraints(cases)
           c == Si!SetToSeq(C)
<1>1. /\ cases \in Seq(SiCases) /\ sim_phase = "seed" /\ seeds = a \o b \o c
      /\ s = [value |-> [p \in Si!Pins |-> SiUnknown], queue |-> <<>>, annotate |-> {}, warned |-> {}]
  BY SMTT(40) DEF Si!Init, Si!State
<1> HIDE DEF s
<1>2. /\ s.value = [p \in Si!Pins |-> SiUnknown] /\ s.queue = <<>> /\ s.annotate = {} /\ s.warned = {}
  BY <1>1
<1>3. s \in SimStates
  BY <1>1 DEF SimStates, Si!Values
<1>4. \A i \in SiInsts : \A p \in SiInPins[i] \cup SiOutPins[i] : p \in Si!Pins
  BY SiConst
<1>5. Annotated(s) /\ Obeyed(s)
  BY <1>2, <1>4 DEF Annotated, Obeyed
<1>6. NetsSaid(s)
  BY <1>2, SiConst DEF NetsSaid, Said
<1>7. EvalsSaid(s)
  <2> SUFFICES ASSUME NEW i \in SiInsts, NEW o \in Si!Evaluated(i), SiSupport[o] # {}
               PROVE  Said(s, o, Si!Eval(s.value, o))
    BY DEF EvalsSaid, EvalSaid
  <2>1. \A p \in SiInPins[i] : s.value[p] = SiUnknown
    BY <1>2, <1>4
  <2>2. Si!Eval(s.value, o) = SiUnknown
    BY <2>1, EvalOfNothing
  <2> QED
    BY <2>2 DEF Said
<1>8. Given \subseteq Entries /\ IsFiniteSet(SiTies) /\ IsFiniteSet(C)
  BY GivenConst
<1>9. Given = SiTies \cup C
  BY DEF Given
<1>10. b \in Seq(Entries)
  BY <1>1, ConstraintRules
<1> HIDE DEF C
<1>11. a \in Seq(SiTies) /\ \A x \in SiTies : \E k \in DOMAIN a : a[k] = x
  BY <1>8, Listing
<1>12. c \in Seq(C) /\ \A x \in C : \E k \in DOMAIN c : c[k] = x
  BY <1>8, Listing
<1>13. a \in Seq(Entries) /\ c \in Seq(Entries)
  BY <1>8, <1>9, <1>11, <1>12
<1> HIDE DEF a, b, c
<1>14. /\ seeds \in Seq(Entries)
       /\ \A j \in DOMAIN a : j \in DOMAIN seeds /\ seeds[j] = a[j]
       /\ \A j \in DOMAIN c : Len(a \o b) + j \in DOMAIN seeds /\ seeds[Len(a \o b) + j] = c[j]
  <2> DEFINE d == a \o b
  <2>1. d \in Seq(Entries) /\ \A j \in DOMAIN a : j \in DOMAIN d /\ d[j] = a[j]
    BY <1>10, <1>13
  <2> HIDE DEF d
  <2>2. /\ d \o c \in Seq(Entries)
        /\ \A j \in DOMAIN d : j \in DOMAIN (d \o c) /\ (d \o c)[j] = d[j]
        /\ \A j \in DOMAIN c : Len(d) + j \in DOMAIN (d \o c) /\ (d \o c)[Len(d) + j] = c[j]
    BY <1>13, <2>1
  <2>3. seeds = d \o c
    BY <1>1 DEF d
  <2> QED
    BY <2>1, <2>2, <2>3 DEF d
<1>15. GivenSaid(s, seeds)
  BY <1>9, <1>11, <1>12, <1>14 DEF GivenSaid
<1> QED
  BY <1>1, <1>3, <1>5, <1>6, <1>7, <1>14, <1>15 DEF SimInv, SaidState, Sane, s

\* The state a step leaves.
LEMMA Updated ==
  ASSUME NEW u \in Sane, Si!Update(u)
  PROVE  (Si!State)' = u
<1>1. u = [value |-> u.value, queue |-> u.queue, annotate |-> u.annotate, warned |-> u.warned]
  BY DEF Sane, SimStates
<1> QED
  BY <1>1 DEF Si!Update, Si!State

\* What was said stays so along a step that loses nothing.
LEMMA StaysSaid ==
  ASSUME NEW s, NEW u, Onward(s, u), NEW p, NEW v, Said(s, p, v)
  PROVE  Said(u, p, v)
BY DEF Onward, Said

\* Seeding a value keeps the invariant.
LEMMA SimSeed == SimInv /\ Si!Seed => SimInv'
<1> SUFFICES ASSUME SimInv, Si!Seed PROVE SimInv'
  OBVIOUS
<1> DEFINE s == Si!State
           p == Head(seeds)[1]
           v == Si!ValueOf(Head(seeds)[2])
           u == Si!SetValue(s, p, v)
<1>1. /\ cases \in Seq(SiCases) /\ s \in Sane /\ NetsSaid(s) /\ EvalsSaid(s)
      /\ seeds \in Seq(Entries) /\ GivenSaid(s, seeds)
  BY DEF SimInv, SaidState
<1>2. /\ sim_phase = "seed" /\ seeds # <<>> /\ seeds' = Tail(seeds) /\ Si!Update(u)
      /\ cases' = cases /\ sim_phase' = sim_phase
  BY DEF Si!Seed
<1>3. Head(seeds) \in Entries /\ Tail(seeds) \in Seq(Entries)
  BY <1>1, <1>2
<1>4. p \in Si!Pins /\ v \in Si!Values
  BY <1>3 DEF Entries, Si!ValueOf, Si!Values
<1>5. ValueSet(s, u, p, v)
  BY <1>1, <1>4, SetValueDoes
<1>6. u \in Sane /\ Onward(s, u) /\ Said(u, p, v) /\ NetsSaid(u)
  BY <1>1, <1>5 DEF ValueSet
<1> HIDE DEF s, u
<1>7. EvalsSaid(u)
  <2> SUFFICES ASSUME NEW i \in SiInsts PROVE InQueue(u, i) \/ EvalSaid(u, i)
    BY DEF EvalsSaid
  <2>1. InQueue(s, i) \/ \A o \in Si!Evaluated(i) : SiSupport[o] # {} => Said(u, o, Si!Eval(s.value, o))
    BY <1>1, <1>6, StaysSaid DEF EvalsSaid, EvalSaid
  <2> QED
    BY <1>6, <2>1, EvalsStaySaid
<1>8. GivenSaid(u, Tail(seeds))
  <2> SUFFICES ASSUME NEW t \in Given
               PROVE  (\E k \in DOMAIN Tail(seeds) : Tail(seeds)[k] = t) \/ Said(u, t[1], t[2])
    BY DEF GivenSaid
  <2>1. CASE Said(s, t[1], t[2])
    BY <1>6, <2>1, StaysSaid
  <2>2. CASE \E k \in DOMAIN seeds : seeds[k] = t
    <3>1. PICK k \in DOMAIN seeds : seeds[k] = t
      BY <2>2
    <3>2. CASE k = 1
      <4>1. Head(seeds) = t
        BY <1>1, <1>2, <3>1, <3>2
      <4>2. t[2] \in Si!Levels
        BY GivenConst
      <4>3. v = t[2]
        BY <4>1, <4>2 DEF Si!ValueOf, Si!Levels
      <4> QED
        BY <1>6, <4>1, <4>3
    <3>3. CASE k # 1
      <4>1. k - 1 \in DOMAIN Tail(seeds) /\ Tail(seeds)[k - 1] = seeds[k]
        BY <1>1, <1>2, <3>1, <3>3
      <4> QED
        BY <3>1, <4>1
    <3> QED
      BY <3>2, <3>3
  <2> QED
    BY <1>1, <2>1, <2>2 DEF GivenSaid
<1>9. (Si!State)' = u
  BY <1>2, <1>6, Updated
<1>10. (SaidState(Si!State))'
  BY <1>2, <1>6, <1>7, <1>9, SoundNext DEF SaidState
<1>11. (GivenSaid(Si!State, seeds))'
  BY <1>2, <1>8, <1>9, GivenNext
<1> QED
  BY <1>1, <1>2, <1>3, <1>10, <1>11 DEF SimInv

\* A state with another queue.
LEMMA Requeued ==
  ASSUME NEW v, NEW q, NEW a, NEW w, NEW r, NEW s,
         s = [value |-> v, queue |-> q, annotate |-> a, warned |-> w]
  PROVE  /\ [s EXCEPT !.queue = r] = [value |-> v, queue |-> r, annotate |-> a, warned |-> w]
         /\ [s EXCEPT !.queue = r].value = v /\ [s EXCEPT !.queue = r].queue = r
         /\ [s EXCEPT !.queue = r].annotate = a /\ [s EXCEPT !.queue = r].warned = w
OBVIOUS

\* An instance taken from the queue: its state, but for the queue, and what is made of it.
LEMMA Dequeued ==
  ASSUME SimInv, Si!EvalInstance
  PROVE  \E i \in SiInsts, x \in Sane :
           /\ x.value = value /\ (Si!State).value = value /\ x.warned = (Si!State).warned
           /\ \A j \in SiInsts : j # i /\ InQueue(Si!State, j) => InQueue(x, j)
           /\ Si!Update(OutputsSet(x, Si!SetToSeq({o \in Si!Evaluated(i) : Si!Eval(value, o) # value[o]})))
<1> DEFINE s == Si!State
           i == Head(queue)
           q == Si!SetToSeq({o \in Si!Evaluated(i) : Si!Eval(value, o) # value[o]})
           w == [s EXCEPT !.queue = Tail(queue)]
<1>1. s \in Sane
  BY DEF SimInv, SaidState
<1>2. queue # <<>>
  BY DEF Si!EvalInstance
<1>3. Si!Update(OutputsSet(w, q))
  BY DEF Si!EvalInstance, OutputsSet, Si!FoldLeft, Si!MapThenFoldSet
<1>4. s = [value |-> value, queue |-> queue, annotate |-> annotate, warned |-> sim_warned]
  BY DEF Si!State
<1>5. queue \in Seq(SiInsts) /\ i \in SiInsts /\ Tail(queue) \in Seq(SiInsts)
  <2>1. queue \in Seq(SiInsts)
    BY <1>1, <1>4 DEF Sane, SimStates
  <2> QED
    BY <1>2, <2>1
<1>6. /\ w = [value |-> value, queue |-> Tail(queue), annotate |-> annotate, warned |-> sim_warned]
      /\ w.value = value /\ w.queue = Tail(queue) /\ w.annotate = s.annotate /\ w.warned = s.warned
      /\ s.value = value /\ s.queue = queue
  <2>1. /\ s.value = value /\ s.queue = queue /\ s.annotate = annotate /\ s.warned = sim_warned
    BY <1>4
  <2> DEFINE r == Tail(queue)
  <2> HIDE DEF s, r
  <2>2. /\ [s EXCEPT !.queue = r] = [value |-> value, queue |-> r, annotate |-> annotate, warned |-> sim_warned]
        /\ [s EXCEPT !.queue = r].value = value /\ [s EXCEPT !.queue = r].queue = r
        /\ [s EXCEPT !.queue = r].annotate = annotate /\ [s EXCEPT !.queue = r].warned = sim_warned
    BY <1>4, Requeued
  <2> QED
    BY <2>1, <2>2 DEF r
<1> HIDE DEF s, w
<1>7. \A k \in DOMAIN Tail(queue) : k + 1 \in DOMAIN queue /\ Tail(queue)[k] = queue[k + 1]
  BY <1>2, <1>5
<1>8. w \in Sane
  <2>1. w \in SimStates
    BY <1>1, <1>4, <1>5, <1>6 DEF Sane, SimStates
  <2>2. Annotated(w)
    BY <1>1, <1>6, <1>7 DEF Sane, Annotated
  <2>3. Obeyed(w)
    BY <1>1, <1>6 DEF Sane, Obeyed
  <2> QED
    BY <2>1, <2>2, <2>3 DEF Sane
<1>9. \A j \in SiInsts : j # i /\ InQueue(s, j) => InQueue(w, j)
  <2> SUFFICES ASSUME NEW j \in SiInsts, j # i, InQueue(s, j) PROVE InQueue(w, j)
    OBVIOUS
  <2>1. PICK k \in DOMAIN queue : queue[k] = j
    BY <1>6 DEF InQueue
  <2>2. k # 1
    BY <1>2, <1>5, <2>1
  <2>3. k - 1 \in DOMAIN Tail(queue) /\ Tail(queue)[k - 1] = queue[k]
    BY <1>2, <1>5, <2>1, <2>2
  <2> QED
    BY <1>6, <2>1, <2>3 DEF InQueue
<1> QED
  BY <1>3, <1>5, <1>6, <1>8, <1>9 DEF s

\* Evaluating an instance keeps the invariant.
LEMMA SimEval == SimInv /\ Si!EvalInstance => SimInv'
<1> SUFFICES ASSUME SimInv, Si!EvalInstance PROVE SimInv'
  OBVIOUS
<1> DEFINE s == Si!State
<1>1. /\ cases \in Seq(SiCases) /\ s \in Sane /\ NetsSaid(s) /\ EvalsSaid(s)
      /\ seeds \in Seq(Entries) /\ GivenSaid(s, seeds)
      /\ sim_phase # "seed" => seeds = <<>>
  BY DEF SimInv, SaidState
<1>2. /\ sim_phase = "propagate" /\ cases' = cases /\ sim_phase' = sim_phase /\ seeds' = seeds
  BY DEF Si!EvalInstance
<1>3. PICK i \in SiInsts, w \in Sane :
           /\ w.value = value /\ s.value = value /\ w.warned = s.warned
           /\ \A j \in SiInsts : j # i /\ InQueue(s, j) => InQueue(w, j)
           /\ Si!Update(OutputsSet(w, Si!SetToSeq({o \in Si!Evaluated(i) : Si!Eval(value, o) # value[o]})))
  BY Dequeued
<1> HIDE DEF s
<1>4. NetsSaid(w)
  BY <1>1, <1>3 DEF NetsSaid, Said
<1>5. PICK u \in Sane :
           /\ OutputsSet(w, Si!SetToSeq({o \in Si!Evaluated(i) : Si!Eval(value, o) # value[o]})) = u
           /\ Onward(w, u) /\ (NetsSaid(w) => NetsSaid(u))
           /\ \A o \in Si!Evaluated(i) : Si!Eval(value, o) # value[o] => Said(u, o, Si!Eval(value, o))
  BY OutputsDo
<1>6. Si!Update(u) /\ NetsSaid(u)
  BY <1>3, <1>4, <1>5
<1>7. \A o \in Si!Evaluated(i) : Said(u, o, Si!Eval(value, o))
  <2> SUFFICES ASSUME NEW o \in Si!Evaluated(i), Si!Eval(value, o) = value[o]
               PROVE  Said(u, o, value[o])
    BY <1>5
  <2>1. o \in Si!Pins
    BY FunctionConst
  <2>2. Si!Constrained(o) => value[o] \in {SiUnknown, Si!ValueOf(Si!Constraint(o))}
    BY <1>3, <2>1 DEF Sane, Obeyed
  <2> QED
    BY <2>2 DEF Said, Si!Differs
<1>8. EvalsSaid(u)
  <2> SUFFICES ASSUME NEW j \in SiInsts PROVE InQueue(u, j) \/ EvalSaid(u, j)
    BY DEF EvalsSaid
  <2>1. CASE j = i
    <3>1. \A o \in Si!Evaluated(j) : SiSupport[o] # {} => Said(u, o, Si!Eval(w.value, o))
      BY <1>3, <1>7, <2>1
    <3> QED
      BY <1>5, <3>1, EvalsStaySaid
  <2>2. CASE j # i
    <3>1. InQueue(s, j) => InQueue(w, j)
      BY <1>3, <2>2
    <3>2. EvalSaid(s, j) => \A o \in Si!Evaluated(j) : SiSupport[o] # {} => Said(u, o, Si!Eval(w.value, o))
      <4> SUFFICES ASSUME EvalSaid(s, j), NEW o \in Si!Evaluated(j), SiSupport[o] # {}
                   PROVE  Said(u, o, Si!Eval(w.value, o))
        OBVIOUS
      <4>1. Said(s, o, Si!Eval(s.value, o))
        BY DEF EvalSaid
      <4>2. Said(w, o, Si!Eval(w.value, o))
        BY <1>3, <4>1 DEF Said
      <4> QED
        BY <1>5, <4>2, StaysSaid
    <3>3. InQueue(w, j) \/ \A o \in Si!Evaluated(j) : SiSupport[o] # {} => Said(u, o, Si!Eval(w.value, o))
      BY <1>1, <3>1, <3>2 DEF EvalsSaid
    <3> QED
      BY <1>5, <3>3, EvalsStaySaid
  <2> QED
    BY <2>1, <2>2
<1>9. GivenSaid(u, seeds)
  <2> SUFFICES ASSUME NEW t \in Given
               PROVE  (\E k \in DOMAIN seeds : seeds[k] = t) \/ Said(u, t[1], t[2])
    BY DEF GivenSaid
  <2>1. (\E k \in DOMAIN seeds : seeds[k] = t) \/ Said(s, t[1], t[2])
    BY <1>1 DEF GivenSaid
  <2>2. Said(s, t[1], t[2]) => Said(w, t[1], t[2])
    BY <1>3 DEF Said
  <2>3. Said(w, t[1], t[2]) => Said(u, t[1], t[2])
    BY <1>5, StaysSaid
  <2> QED
    BY <2>1, <2>2, <2>3
<1>10. (Si!State)' = u
  BY <1>6, Updated
<1>11. (SaidState(Si!State))'
  BY <1>2, <1>6, <1>8, <1>10, SoundNext DEF SaidState
<1>12. (GivenSaid(Si!State, seeds))'
  BY <1>2, <1>9, <1>10, GivenNext
<1> QED
  BY <1>1, <1>2, <1>11, <1>12 DEF SimInv

\* The senses are of the values alone.
LEMMA SameSenses ==
  ASSUME value' = value, NEW x, NEW o
  PROVE  (Si!SenseOf(x, o))' = Si!SenseOf(x, o)
BY DEF Si!SenseOf, Si!FunctionSense, Si!Raises, Si!Lowers

\* A step that changes no value keeps the invariant.
LEMMA SimStill ==
  ASSUME SimInv, Si!Seeded \/ Si!Propagated \/ Si!FindDisabledEdges \/ UNCHANGED SiVars
  PROVE  SimInv'
<1> DEFINE u == Si!State
<1>1. /\ cases \in Seq(SiCases) /\ SaidState(u) /\ seeds \in Seq(Entries) /\ GivenSaid(u, seeds)
  BY DEF SimInv
<1>2. cases' = cases /\ seeds' = seeds /\ value' = value /\ queue' = queue /\ annotate' = annotate
      /\ (Si!State)' = u
  BY DEF Si!Seeded, Si!Propagated, Si!FindDisabledEdges, SiVars, Si!State
<1> HIDE DEF u
<1>3. (SaidState(Si!State))' /\ (GivenSaid(Si!State, seeds))'
  BY <1>1, <1>2, SoundNext, GivenNext
<1>4. \A x, o : (Si!SenseOf(x, o))' = Si!SenseOf(x, o)
  BY <1>2, SameSenses
<1>5. /\ sim_phase' \in {"seed", "propagate", "senses", "done"}
      /\ sim_phase' # "seed" => seeds' = <<>>
      /\ sim_phase' \in {"senses", "done"} => queue' = <<>>
  BY <1>2 DEF SimInv, Si!Seeded, Si!Propagated, Si!FindDisabledEdges, SiVars
<1>6. sim_phase' = "done" =>
        sense' = [a \in SiArcs |-> IF a[1] \in annotate THEN Si!SenseOf(a[2], a[3]) ELSE "library"]
  BY DEF SimInv, Si!Seeded, Si!Propagated, Si!FindDisabledEdges, SiVars
<1>7. (sim_phase = "done" =>
        sense = [a \in SiArcs |-> IF a[1] \in annotate THEN Si!SenseOf(a[2], a[3]) ELSE "library"])'
  BY <1>2, <1>4, <1>6
<1> QED
  BY <1>1, <1>2, <1>3, <1>5, <1>7 DEF SimInv

\* The part at work in a step, seen from the propagation.
LEMMA SiPart ==
  ASSUME [Next]_vars, reader' = "sim"
  PROVE  reader = "sim" /\ (Si!Next \/ UNCHANGED SiVars)
BY DEF Next, DisStep, ChkStep, DelStep, ExcStep, LdStep, SiStep, CycStep, CmdStep, ScrStep, vars

\* The invariant holds throughout a propagation.
LEMMA SimAlways == Spec => [](reader = "sim" => SimInv)
<1>1. Init => (reader = "sim" => SimInv)
  BY SimInit DEF Init
<1>2. (reader = "sim" => SimInv) /\ [Next]_vars => (reader = "sim" => SimInv)'
  <2>1. SUFFICES ASSUME reader = "sim" => SimInv, [Next]_vars, reader' = "sim" PROVE SimInv'
    OBVIOUS
  <2>2. SimInv /\ (Si!Next \/ UNCHANGED SiVars)
    BY <2>1, SiPart
  <2> QED
    BY <2>2, SimSeed, SimEval, SimStill DEF Si!Next
<1> QED
  BY <1>1, <1>2, PTL DEF Spec

-----------------------------------------------------------------------------
(* The closure                                                             *)

\* Where v has a value w has it too.
Below(v, w) == \A p \in Si!Pins : v[p] \in {SiUnknown, w[p]}

\* Of what an output can be, more values leave less.
LEMMA FewerOutcomes ==
  ASSUME NEW v, NEW w, Below(v, w), NEW i \in SiInsts, NEW o \in Si!Evaluated(i)
  PROVE  Si!Outcomes(w, o) \subseteq Si!Outcomes(v, o) /\ Si!Outcomes(w, o) # {}
<1> DEFINE S == SiSupport[o]
<1>1. S \subseteq Si!Pins
  BY FunctionConst, SiConst
<1>2. SiUnknown \notin Si!Levels /\ "1" \in Si!Levels
  BY FrontEndAssumption DEF Si!ConstantsOK, Si!Levels
<1> HIDE DEF S
<1>3. \A p \in S : /\ v[p] = "1" => w[p] = "1"
                   /\ v[p] \in Si!Levels => w[p] = v[p]
                   /\ w[p] = "1" /\ v[p] # "1" => v[p] \notin Si!Levels
  BY <1>1, <1>2 DEF Below
<1>4. /\ Si!One(v, S) \subseteq Si!One(w, S) /\ Si!Free(w, S) \subseteq Si!Free(v, S)
      /\ Si!One(w, S) \ Si!One(v, S) \subseteq Si!Free(v, S)
  BY <1>3 DEF Si!One, Si!Free
<1>5. ASSUME NEW F \in SUBSET Si!Free(w, S)
      PROVE  \E G \in SUBSET Si!Free(v, S) : Si!One(w, S) \cup F = Si!One(v, S) \cup G
  <2> DEFINE G == (Si!One(w, S) \ Si!One(v, S)) \cup F
  <2>1. G \in SUBSET Si!Free(v, S) /\ Si!One(w, S) \cup F = Si!One(v, S) \cup G
    BY <1>4
  <2> QED
    BY <2>1
<1>6. Si!Outcomes(w, o) \subseteq Si!Outcomes(v, o)
  <2> SUFFICES ASSUME NEW F \in SUBSET Si!Free(w, S)
               PROVE  SiFunction[o][Si!One(w, S) \cup F] \in Si!Outcomes(v, o)
    BY DEF Si!Outcomes, S
  <2>1. PICK G \in SUBSET Si!Free(v, S) : Si!One(w, S) \cup F = Si!One(v, S) \cup G
    BY <1>5
  <2>2. SiFunction[o][Si!One(v, S) \cup G] \in Si!Outcomes(v, o)
    BY DEF Si!Outcomes, S
  <2> QED
    BY <2>1, <2>2
<1>7. {} \in SUBSET Si!Free(w, S)
  OBVIOUS
<1>8. Si!Outcomes(w, o) # {}
  BY <1>7 DEF Si!Outcomes, S
<1> QED
  BY <1>6, <1>8

\* One outcome is a set of one.
LEMMA OneOutcome ==
  ASSUME NEW v, NEW i \in SiInsts, NEW o \in Si!Evaluated(i), Si!Cardinality(Si!Outcomes(v, o)) = 1
  PROVE  \E x : Si!Outcomes(v, o) = {x}
<1> DEFINE X == Si!Outcomes(v, o)
<1>1. SiFunction[o] \in [SUBSET SiSupport[o] -> Si!Levels]
  BY FunctionConst
<1>2. \A F \in SUBSET Si!Free(v, SiSupport[o]) :
        Si!One(v, SiSupport[o]) \cup F \in SUBSET SiSupport[o]
  BY DEF Si!Free, Si!One
<1>3. X \subseteq Si!Levels
  BY <1>1, <1>2 DEF Si!Outcomes
<1>4. IsFiniteSet({"0", "1"})
  <2>1. IsFiniteSet({"0"}) /\ {"0", "1"} = {"0"} \cup {"1"}
    BY FS_Singleton
  <2> QED
    BY <2>1, FS_AddElement
<1> HIDE DEF X
<1>5. IsFiniteSet(X)
  BY <1>3, <1>4, FS_Subset DEF Si!Levels
<1>6. Cardinality(X) = 1
  BY OwnSets DEF X
<1> QED
  BY <1>5, <1>6, FS_Singleton DEF X

\* More values at its inputs give an output its value and never another.
LEMMA EvalRises ==
  ASSUME NEW v, NEW w, Below(v, w), NEW i \in SiInsts, NEW o \in Si!Evaluated(i)
  PROVE  Si!Eval(v, o) \in {SiUnknown, Si!Eval(w, o)}
<1> DEFINE Off(x) == SiDisableOf[o] # SiNoPin /\ x[SiDisableOf[o]] # "0"
<1>1. SUFFICES ASSUME Si!Eval(v, o) # SiUnknown PROVE Si!Eval(v, o) = Si!Eval(w, o)
  OBVIOUS
<1>2. ~Off(v) /\ Si!Cardinality(Si!Outcomes(v, o)) = 1
  BY <1>1 DEF Si!Eval
<1>3. PICK x : Si!Outcomes(v, o) = {x}
  BY <1>2, OneOutcome
<1>4. Si!Outcomes(w, o) = Si!Outcomes(v, o)
  <2>1. Si!Outcomes(w, o) \subseteq Si!Outcomes(v, o) /\ Si!Outcomes(w, o) # {}
    BY FewerOutcomes
  <2> QED
    BY <1>3, <2>1
<1>5. ~Off(w)
  <2>1. SiDisableOf[o] # SiNoPin => SiDisableOf[o] \in Si!Pins
    BY FunctionConst, SiConst
  <2>2. SiUnknown # "0"
    BY FrontEndAssumption DEF Si!ConstantsOK, Si!Levels
  <2> QED
    BY <1>2, <2>1, <2>2 DEF Below
<1> QED
  BY <1>2, <1>4, <1>5 DEF Si!Eval

\* So does a round.
LEMMA SettledRises ==
  ASSUME NEW v, NEW w, Below(v, w), NEW p \in Si!Pins
  PROVE  Si!Settled(v, p) \in {SiUnknown, Si!Settled(w, p)}
<1>1. CASE Si!Ruling(p) # {} \/ \E x \in Si!Levels : <<p, x>> \in SiTies
  BY <1>1 DEF Si!Settled
<1>2. CASE Si!Ruling(p) = {} /\ (~\E x \in Si!Levels : <<p, x>> \in SiTies) /\ Si!DriverOf(p) # {}
  <2> DEFINE d == CHOOSE d \in Si!DriverOf(p) : TRUE
  <2>1. d \in Si!Pins
    BY <1>2, SiConst DEF Si!DriverOf
  <2>2. Si!Settled(v, p) = v[d] /\ Si!Settled(w, p) = w[d]
    BY <1>2 DEF Si!Settled
  <2> QED
    BY <2>1, <2>2 DEF Below
<1>3. CASE /\ Si!Ruling(p) = {} /\ (~\E x \in Si!Levels : <<p, x>> \in SiTies) /\ Si!DriverOf(p) = {}
           /\ p \in Si!Drivers \ SiInPorts /\ {} \in DOMAIN SiFunction[p]
  <2>1. PICK i \in SiInsts : p \in Si!Evaluated(i)
    BY <1>3, SiConst DEF Si!Evaluated
  <2>2. Si!Settled(v, p) = Si!Eval(v, p) /\ Si!Settled(w, p) = Si!Eval(w, p)
    BY <1>3 DEF Si!Settled
  <2> QED
    BY <2>1, <2>2, EvalRises
<1>4. CASE /\ Si!Ruling(p) = {} /\ (~\E x \in Si!Levels : <<p, x>> \in SiTies) /\ Si!DriverOf(p) = {}
           /\ ~(p \in Si!Drivers \ SiInPorts /\ {} \in DOMAIN SiFunction[p])
  BY <1>4 DEF Si!Settled
<1> QED
  BY <1>1, <1>2, <1>3, <1>4

\* A pin is constrained when a command rules it, and then to its value.
LEMMA RulingConstrains ==
  ASSUME cases \in Seq(SiCases), NEW p
  PROVE  /\ Si!Constrained(p) <=> Si!Ruling(p) # {}
         /\ Si!Constrained(p) =>
              /\ Si!Constraint(p) = cases[Si!Max(Si!Ruling(p))].value
              /\ Si!Constraint(p) \in Si!Levels \cup Si!Transitions \cup {"x"}
<1> DEFINE l == Si!LogicSeeds(cases)
           r == Si!CaseSeeds(cases)
<1>1. /\ l \in Seq(Entries) /\ (Naming(cases, FALSE, p) = {} => ~SetsPin(l, p))
      /\ r \in Seq(Entries) /\ (Naming(cases, TRUE, p) = {} => ~SetsPin(r, p))
  BY SeedsOfCases DEF Si!LogicSeeds, Si!CaseSeeds
<1>2. ~SetsPin(l, p) /\ ~SetsPin(r, p) => ~SetsPin(l \o r, p)
  <2> HIDE DEF l, r
  <2> QED
    BY <1>1, SetsJoined
<1>3. Si!Ruling(p) = IF Naming(cases, TRUE, p) # {} THEN Naming(cases, TRUE, p) ELSE Naming(cases, FALSE, p)
  BY DEF Si!Ruling, Naming
<1>4. Si!Constrained(p) <=> SetsPin(l \o r, p)
  BY DEF Si!Constrained, Si!Constraints, SetsPin
<1> HIDE DEF l, r
<1>5. Si!Ruling(p) = {} => ~Si!Constrained(p)
  BY <1>1, <1>2, <1>3, <1>4
<1>6. Si!Ruling(p) # {} => Si!Constrained(p) /\ Si!Constraint(p) = cases[Si!Max(Si!Ruling(p))].value
  BY ConstraintRules
<1>7. Si!Ruling(p) # {} => cases[Si!Max(Si!Ruling(p))] \in SiCases
  <2>1. SUFFICES ASSUME Si!Ruling(p) # {} PROVE Si!Max(Si!Ruling(p)) \in DOMAIN cases
    OBVIOUS
  <2>2. Si!Ruling(p) \in SUBSET DOMAIN cases
    BY <1>3 DEF Naming
  <2> QED
    BY <2>1, <2>2, GreatestNaming
<1>8. \A c \in SiCases : c.value \in Si!Levels \cup Si!Transitions \cup {"x"}
  BY FrontEndAssumption DEF Si!ConstantsOK
<1> QED
  BY <1>5, <1>6, <1>7, <1>8

\* A round gives a pin one of its values.
LEMMA SettledTyped ==
  ASSUME cases \in Seq(SiCases), NEW v \in [Si!Pins -> Si!Values], NEW p \in Si!Pins
  PROVE  Si!Settled(v, p) \in Si!Values
<1>0. \A x \in Si!Levels \cup Si!Transitions \cup {"x"} : Si!ValueOf(x) \in Si!Values
  BY DEF Si!ValueOf, Si!Values
<1>1. CASE Si!Ruling(p) # {}
  <2>1. Si!Settled(v, p) = Si!ValueOf(Si!Constraint(p))
    BY <1>1, RulingConstrains DEF Si!Settled
  <2> QED
    BY <1>0, <1>1, <2>1, RulingConstrains
<1>2. CASE Si!Ruling(p) = {} /\ \E x \in Si!Levels : <<p, x>> \in SiTies
  <2>1. Si!Settled(v, p) = CHOOSE x \in Si!Levels : <<p, x>> \in SiTies
    BY <1>2 DEF Si!Settled
  <2> QED
    BY <1>2, <2>1 DEF Si!Values
<1>3. CASE Si!Ruling(p) = {} /\ (~\E x \in Si!Levels : <<p, x>> \in SiTies) /\ Si!DriverOf(p) # {}
  <2> DEFINE d == CHOOSE d \in Si!DriverOf(p) : TRUE
  <2>1. d \in Si!Pins
    BY <1>3, SiConst DEF Si!DriverOf
  <2>2. Si!Settled(v, p) = v[d]
    BY <1>3 DEF Si!Settled
  <2> QED
    BY <2>1, <2>2
<1>4. CASE /\ Si!Ruling(p) = {} /\ (~\E x \in Si!Levels : <<p, x>> \in SiTies) /\ Si!DriverOf(p) = {}
           /\ p \in Si!Drivers \ SiInPorts /\ {} \in DOMAIN SiFunction[p]
  <2>1. PICK i \in SiInsts : p \in Si!Evaluated(i)
    BY <1>4, SiConst DEF Si!Evaluated
  <2>2. Si!Settled(v, p) = Si!Eval(v, p)
    BY <1>4 DEF Si!Settled
  <2> QED
    BY <2>1, <2>2, EvalValue
<1>5. CASE /\ Si!Ruling(p) = {} /\ (~\E x \in Si!Levels : <<p, x>> \in SiTies) /\ Si!DriverOf(p) = {}
           /\ ~(p \in Si!Drivers \ SiInPorts /\ {} \in DOMAIN SiFunction[p])
  BY <1>5 DEF Si!Settled, Si!Values
<1> QED
  BY <1>1, <1>2, <1>3, <1>4, <1>5

\* The rounds one by one: all pins without a value, and then what one round makes of them.
RoundByRound(f) ==
  /\ f \in [Nat -> [Si!Pins -> Si!Values]]
  /\ f[0] = [p \in Si!Pins |-> SiUnknown]
  /\ \A n \in Nat : f[n + 1] = [p \in Si!Pins |-> Si!Settled(f[n], p)]
  /\ \A n \in Nat : Si!Rounds[n] = {<<p, f[n][p]>> : p \in Si!Pins}

\* The pairs of pins and values say what the values are.
LEMMA ValuesOfPairs ==
  ASSUME NEW v \in [Si!Pins -> Si!Values]
  PROVE  Si!ValuesIn({<<p, v[p]>> : p \in Si!Pins}) = v
<1> DEFINE X == {<<p, v[p]>> : p \in Si!Pins}
<1>1. ASSUME NEW p \in Si!Pins PROVE (CHOOSE x \in Si!Values : <<p, x>> \in X) = v[p]
  <2>1. v[p] \in Si!Values /\ \A x \in Si!Values : <<p, x>> \in X <=> x = v[p]
    OBVIOUS
  <2> HIDE DEF X
  <2> QED
    BY <2>1
<1> HIDE DEF X
<1>2. Si!ValuesIn(X) = [p \in Si!Pins |-> v[p]]
  BY <1>1 DEF Si!ValuesIn
<1> QED
  BY <1>2 DEF X

\* There are these rounds.
LEMMA RoundsAre ==
  ASSUME cases \in Seq(SiCases)
  PROVE  \E f : RoundByRound(f)
<1> DEFINE D == [Si!Pins -> Si!Values]
           base == [p \in Si!Pins |-> SiUnknown]
           step == [v \in D |-> [p \in Si!Pins |-> Si!Settled(v, p)]]
           Pair(v) == {<<p, v[p]>> : p \in Si!Pins}
           Rec(g) == g = [n \in Nat |-> IF n = 0 THEN Si!Pins \X {SiUnknown} ELSE Si!Round(g[n - 1])]
<1>1. base \in D
  BY DEF Si!Values
<1>2. step \in [D -> D]
  <2>1. \A v \in D : [p \in Si!Pins |-> Si!Settled(v, p)] \in D
    BY SettledTyped
  <2> HIDE DEF D
  <2> QED
    BY <2>1
<1>3. PICK f \in [Nat -> D] : f[0] = base /\ \A n \in Nat : f[n + 1] = step[f[n]]
  <2> HIDE DEF D, base, step
  <2>1. \E g \in [Nat -> D] : Repeats(g, base, step)
    BY <1>1, <1>2, RepeatExists
  <2> QED
    BY <2>1 DEF Repeats
<1>4. \A n \in Nat : f[n] \in D /\ f[n + 1] = [p \in Si!Pins |-> Si!Settled(f[n], p)]
  <2> HIDE DEF D
  <2> QED
    BY <1>3
<1>5. ASSUME NEW n \in Nat PROVE Si!Round(Pair(f[n])) = Pair(f[n + 1])
  <2>1. f[n] \in D
    BY <1>4
  <2>2. Si!ValuesIn(Pair(f[n])) = f[n]
    BY <2>1, ValuesOfPairs
  <2> HIDE DEF Pair
  <2>3. Si!Round(Pair(f[n])) = {<<p, Si!Settled(f[n], p)>> : p \in Si!Pins}
    BY <2>2 DEF Si!Round
  <2>4. \A p \in Si!Pins : f[n + 1][p] = Si!Settled(f[n], p)
    BY <1>4
  <2> QED
    BY <2>3, <2>4 DEF Pair
<1>6. Pair(f[0]) = Si!Pins \X {SiUnknown}
  BY <1>3
<1> HIDE DEF D, base, step, Pair
<1>7. \E g : Rec(g)
  <2> DEFINE g == [n \in Nat |-> Pair(f[n])]
  <2>1. ASSUME NEW n \in Nat, n # 0 PROVE g[n] = Si!Round(g[n - 1])
    <3>1. n - 1 \in Nat /\ (n - 1) + 1 = n
      BY <2>1
    <3>2. Si!Round(Pair(f[n - 1])) = Pair(f[(n - 1) + 1])
      BY <1>5, <3>1
    <3> QED
      BY <3>1, <3>2
  <2>2. g[0] = Si!Pins \X {SiUnknown} /\ g = [n \in Nat |-> g[n]]
    BY <1>6
  <2> HIDE DEF g
  <2>3. Rec(g)
    BY <2>1, <2>2
  <2> QED
    BY <2>3
<1>8. Rec(Si!Rounds)
  <2> DEFINE r == CHOOSE g : Rec(g)
  <2>1. Rec(r)
    <3> HIDE DEF Rec
    <3> QED
      BY <1>7
  <2>2. Si!Rounds = r
    BY DEF Si!Rounds
  <2> HIDE DEF r, Rec
  <2> QED
    BY <2>1, <2>2
<1>9. \A n \in Nat : Si!Rounds[n] = IF n = 0 THEN Si!Pins \X {SiUnknown} ELSE Si!Round(Si!Rounds[n - 1])
  <2> DEFINE r == Si!Rounds
  <2>1. Rec(r)
    BY <1>8
  <2> HIDE DEF r
  <2>2. \A n \in Nat : r[n] = IF n = 0 THEN Si!Pins \X {SiUnknown} ELSE Si!Round(r[n - 1])
    BY <2>1
  <2> QED
    BY <2>2 DEF r
<1>10. \A n \in Nat : Si!Rounds[n] = Pair(f[n])
  <2> DEFINE S == {n \in Nat : Si!Rounds[n] = Pair(f[n])}
  <2>1. 0 \in S
    BY <1>6, <1>9
  <2>2. ASSUME NEW n \in Nat, n \in S PROVE n + 1 \in S
    <3>1. n + 1 \in Nat /\ n + 1 # 0 /\ (n + 1) - 1 = n
      OBVIOUS
    <3>2. Si!Rounds[n + 1] = Si!Round(Si!Rounds[n])
      BY <1>9, <3>1
    <3>3. Si!Rounds[n] = Pair(f[n])
      BY <2>2
    <3> QED
      BY <1>5, <3>1, <3>2, <3>3
  <2>3. \A n \in Nat : n \in S => n + 1 \in S
    BY <2>2
  <2> HIDE DEF S
  <2>4. Nat \subseteq S
    BY <2>1, <2>3, Counting
  <2> QED
    BY <2>4 DEF S
<1>11. RoundByRound(f)
  BY <1>3, <1>4, <1>10 DEF RoundByRound, D, base, Pair
<1> QED
  BY <1>11

\* They come to rest after as many rounds as there are pins.
LEMMA RoundsRest ==
  ASSUME NEW f, RoundByRound(f), NEW N, N = Cardinality(Si!Pins)
  PROVE  N \in Nat /\ f[N + 1] = f[N]
<1> DEFINE K(n) == {p \in Si!Pins : f[n][p] # SiUnknown}
<1>1. \A n \in Nat : /\ f[n] \in [Si!Pins -> Si!Values] /\ n + 1 \in Nat
                     /\ \A p \in Si!Pins : f[n + 1][p] = Si!Settled(f[n], p)
                     /\ f[n + 1] = [p \in Si!Pins |-> Si!Settled(f[n], p)]
  BY DEF RoundByRound
<1>2. N \in Nat /\ IsFiniteSet(Si!Pins)
  BY SiConst, FS_CardinalityType
<1>3. \A n \in Nat : Below(f[n], f[n + 1])
  <2> DEFINE S == {n \in Nat : Below(f[n], f[n + 1])}
  <2>1. 0 \in S
    BY DEF Below, RoundByRound
  <2>2. ASSUME NEW n \in Nat, n \in S PROVE n + 1 \in S
    <3>1. Below(f[n], f[n + 1]) /\ n + 1 \in Nat
      BY <2>2
    <3>2. ASSUME NEW p \in Si!Pins PROVE f[n + 1][p] \in {SiUnknown, f[(n + 1) + 1][p]}
      <4>1. f[n + 1][p] = Si!Settled(f[n], p) /\ f[(n + 1) + 1][p] = Si!Settled(f[n + 1], p)
        BY <1>1, <3>1
      <4> QED
        BY <3>1, <4>1, SettledRises
    <3> QED
      BY <3>1, <3>2 DEF Below
  <2>3. \A n \in Nat : n \in S => n + 1 \in S
    BY <2>2
  <2> HIDE DEF S
  <2>4. Nat \subseteq S
    BY <2>1, <2>3, Counting
  <2> QED
    BY <2>4 DEF S
<1>4. \A n \in Nat : K(n) \in SUBSET Si!Pins /\ IsFiniteSet(K(n)) /\ Cardinality(K(n)) \in Nat
  <2> SUFFICES ASSUME NEW n \in Nat PROVE IsFiniteSet(K(n)) /\ Cardinality(K(n)) \in Nat
    OBVIOUS
  <2>1. K(n) \in SUBSET Si!Pins
    OBVIOUS
  <2> HIDE DEF K
  <2> QED
    BY <1>2, <2>1, FS_Subset, FS_CardinalityType
<1>5. ASSUME NEW n \in Nat, f[n] # f[n + 1] PROVE K(n) \subseteq K(n + 1) /\ K(n) # K(n + 1)
  <2>1. Below(f[n], f[n + 1])
    BY <1>3
  <2>2. PICK p \in Si!Pins : f[n][p] # f[n + 1][p]
    <3>1. f[n] \in [Si!Pins -> Si!Values] /\ f[n + 1] \in [Si!Pins -> Si!Values]
      BY <1>1
    <3> QED
      BY <1>5, <3>1
  <2>3. p \notin K(n) /\ p \in K(n + 1)
    BY <2>1, <2>2 DEF Below
  <2>4. K(n) \subseteq K(n + 1)
    BY <2>1 DEF Below
  <2> QED
    BY <2>3, <2>4
<1>6. \A n \in Nat : f[n] = f[n + 1] \/ n <= Cardinality(K(n))
  <2> DEFINE S == {n \in Nat : f[n] = f[n + 1] \/ n <= Cardinality(K(n))}
  <2>1. 0 \in S
    <3>1. Cardinality(K(0)) \in Nat
      BY <1>4
    <3> HIDE DEF K
    <3> QED
      BY <3>1
  <2>2. ASSUME NEW n \in Nat, n \in S PROVE n + 1 \in S
    <3>1. CASE f[n] = f[n + 1]
      <4>1. n + 1 \in Nat /\ f[(n + 1) + 1] = [p \in Si!Pins |-> Si!Settled(f[n + 1], p)]
        BY <1>1
      <4>2. f[n + 1] = [p \in Si!Pins |-> Si!Settled(f[n], p)]
        BY <1>1
      <4>3. f[n + 1] = f[(n + 1) + 1]
        BY <3>1, <4>1, <4>2
      <4> QED
        BY <4>1, <4>3
    <3>2. CASE f[n] # f[n + 1] /\ n <= Cardinality(K(n))
      <4> DEFINE A == K(n)
                 B == K(n + 1)
      <4>1. A \in SUBSET B /\ A # B /\ IsFiniteSet(B) /\ Cardinality(A) \in Nat /\ Cardinality(B) \in Nat
        <5>1. n + 1 \in Nat
          OBVIOUS
        <5> HIDE DEF K
        <5> QED
          BY <1>4, <1>5, <3>2, <5>1
      <4> HIDE DEF A, B
      <4>2. Cardinality(A) <= Cardinality(B) /\ Cardinality(A) # Cardinality(B)
        BY <4>1, FS_Subset
      <4>3. n + 1 <= Cardinality(B)
        <5>1. n <= Cardinality(A)
          BY <3>2 DEF A
        <5> QED
          BY <4>1, <4>2, <5>1
      <4> QED
        BY <4>3 DEF B
    <3> QED
      BY <2>2, <3>1, <3>2
  <2>3. \A n \in Nat : n \in S => n + 1 \in S
    BY <2>2
  <2> HIDE DEF S
  <2>4. Nat \subseteq S
    BY <2>1, <2>3, Counting
  <2> QED
    BY <2>4 DEF S
<1>7. CASE N <= Cardinality(K(N))
  <2>1. K(N) \in SUBSET Si!Pins /\ Cardinality(K(N)) \in Nat
    BY <1>2, <1>4
  <2> HIDE DEF K
  <2>2. Cardinality(K(N)) <= N
    BY <1>2, <2>1, FS_Subset
  <2>3. Cardinality(Si!Pins) = Cardinality(K(N))
    BY <1>2, <1>7, <2>1, <2>2
  <2>4. K(N) = Si!Pins
    BY <1>2, <2>1, <2>3, FS_Subset
  <2>5. \A p \in Si!Pins : f[N][p] = f[N + 1][p]
    BY <1>2, <1>3, <2>4 DEF Below, K
  <2>6. f[N] \in [Si!Pins -> Si!Values] /\ f[N + 1] \in [Si!Pins -> Si!Values]
    BY <1>1, <1>2
  <2> QED
    BY <1>2, <2>5, <2>6
<1> QED
  BY <1>2, <1>6, <1>7

\* The netlist ties a pin once, and one that nothing drives, and disables no tie cell.
TiesApart ==
  /\ \A t, u \in SiTies : t[1] = u[1] => t = u
  /\ \A t \in SiTies : \A d \in Si!Drivers : t[1] # d /\ t[1] \notin SiLoads[d]
  /\ \A o \in Si!TieCells : SiDisableOf[o] = SiNoPin

\* Values that agree with the constraints, with what is given, along nets and across gates.
Closed(v) ==
  /\ v \in [Si!Pins -> Si!Values]
  /\ \A p \in Si!Pins : Si!Constrained(p) => v[p] = Si!ValueOf(Si!Constraint(p))
  /\ \A t \in Given : Si!Constrained(t[1]) \/ v[t[1]] = t[2]
  /\ \A d \in Si!Drivers : \A l \in SiLoads[d] : Si!Constrained(l) \/ v[l] = v[d]
  /\ \A i \in SiInsts : \A o \in Si!Evaluated(i) : Si!Constrained(o) \/ v[o] = Si!Eval(v, o)

\* A round gives such values nothing new.
LEMMA ClosedSettled ==
  ASSUME cases \in Seq(SiCases), NEW v, Closed(v), NEW p \in Si!Pins
  PROVE  Si!Settled(v, p) \in {SiUnknown, v[p]}
<1>1. CASE Si!Ruling(p) # {}
  BY <1>1, RulingConstrains DEF Si!Settled, Closed
<1>2. CASE Si!Ruling(p) = {} /\ \E x \in Si!Levels : <<p, x>> \in SiTies
  <2> DEFINE x == CHOOSE x \in Si!Levels : <<p, x>> \in SiTies
  <2>1. Si!Settled(v, p) = x /\ <<p, x>> \in SiTies
    BY <1>2 DEF Si!Settled
  <2> HIDE DEF x
  <2>2. <<p, x>> \in Given /\ <<p, x>>[1] = p /\ <<p, x>>[2] = x
    BY <2>1 DEF Given
  <2>3. ~Si!Constrained(p)
    BY <1>2, RulingConstrains
  <2>4. v[p] = x
    BY <2>2, <2>3 DEF Closed
  <2> QED
    BY <2>1, <2>4
<1>3. CASE Si!Ruling(p) = {} /\ (~\E x \in Si!Levels : <<p, x>> \in SiTies) /\ Si!DriverOf(p) # {}
  <2> DEFINE d == CHOOSE d \in Si!DriverOf(p) : TRUE
  <2>1. d \in Si!Drivers /\ p \in SiLoads[d]
    BY <1>3 DEF Si!DriverOf
  <2>2. Si!Settled(v, p) = v[d]
    BY <1>3 DEF Si!Settled
  <2> HIDE DEF d
  <2>3. ~Si!Constrained(p)
    BY <1>3, RulingConstrains
  <2>4. v[p] = v[d]
    BY <2>1, <2>3 DEF Closed
  <2> QED
    BY <2>2, <2>4
<1>4. CASE /\ Si!Ruling(p) = {} /\ (~\E x \in Si!Levels : <<p, x>> \in SiTies) /\ Si!DriverOf(p) = {}
           /\ p \in Si!Drivers \ SiInPorts /\ {} \in DOMAIN SiFunction[p]
  <2>1. PICK i \in SiInsts : p \in Si!Evaluated(i)
    BY <1>4, SiConst DEF Si!Evaluated
  <2>2. Si!Settled(v, p) = Si!Eval(v, p)
    BY <1>4 DEF Si!Settled
  <2>3. ~Si!Constrained(p)
    BY <1>4, RulingConstrains
  <2>4. v[p] = Si!Eval(v, p)
    BY <2>1, <2>3 DEF Closed
  <2> QED
    BY <2>2, <2>4
<1>5. CASE /\ Si!Ruling(p) = {} /\ (~\E x \in Si!Levels : <<p, x>> \in SiTies) /\ Si!DriverOf(p) = {}
           /\ ~(p \in Si!Drivers \ SiInPorts /\ {} \in DOMAIN SiFunction[p])
  BY <1>5 DEF Si!Settled
<1> QED
  BY <1>1, <1>2, <1>3, <1>4, <1>5

\* A tie cell evaluates to its value.
LEMMA TieCellEval ==
  ASSUME TiesApart, NEW v, NEW o \in Si!TieCells
  PROVE  Si!Eval(v, o) = SiFunction[o][{}]
<1>1. SiSupport[o] = {} /\ SiDisableOf[o] = SiNoPin
  BY DEF Si!TieCells, TiesApart
<1>2. Si!One(v, SiSupport[o]) = {} /\ Si!Free(v, SiSupport[o]) = {}
  BY <1>1 DEF Si!One, Si!Free
<1>3. \A F \in SUBSET {} : {} \cup F = {}
  OBVIOUS
<1>4. Si!Outcomes(v, o) = {SiFunction[o][{}]}
  BY <1>2, <1>3 DEF Si!Outcomes
<1>5. Si!Cardinality(Si!Outcomes(v, o)) = 1
  BY <1>4, OwnSets, FS_Singleton
<1>6. Si!Eval(v, o) = CHOOSE x \in Si!Outcomes(v, o) : TRUE
  BY <1>1, <1>5 DEF Si!Eval
<1> QED
  BY <1>4, <1>6

\* An evaluated output is a tie cell's or reads something; no net, no tie drives it.
LEMMA EvaluatedAre ==
  ASSUME TiesApart, NEW i \in SiInsts, NEW o \in Si!Evaluated(i)
  PROVE  /\ o \in Si!Drivers \ SiInPorts /\ {} \in DOMAIN SiFunction[o]
         /\ SiSupport[o] = {} => o \in Si!TieCells
         /\ Si!DriverOf(o) = {} /\ \A x : <<o, x>> \notin SiTies
<1>1. o \in SiOutPins[i] /\ {} \in DOMAIN SiFunction[o] /\ o \in Si!Drivers /\ o \notin SiInPorts
  BY SiConst DEF Si!Evaluated
<1>2. Si!DriverOf(o) = {}
  BY <1>1, SiConst DEF Si!DriverOf
<1>3. ASSUME NEW x, <<o, x>> \in SiTies PROVE FALSE
  <2>1. <<o, x>>[1] = o
    OBVIOUS
  <2> QED
    BY <1>1, <1>3, <2>1 DEF TiesApart
<1> QED
  BY <1>1, <1>2, <1>3 DEF Si!TieCells

\* What a round leaves as it is is closed.
LEMMA RestIsClosed ==
  ASSUME cases \in Seq(SiCases), TiesApart, NEW v \in [Si!Pins -> Si!Values],
         \A p \in Si!Pins : v[p] = Si!Settled(v, p)
  PROVE  Closed(v)
<1>1. ASSUME NEW p \in Si!Pins, Si!Constrained(p) PROVE v[p] = Si!ValueOf(Si!Constraint(p))
  <2>1. Si!Ruling(p) # {} /\ Si!Constraint(p) = cases[Si!Max(Si!Ruling(p))].value
    BY <1>1, RulingConstrains
  <2>2. Si!Settled(v, p) = Si!ValueOf(cases[Si!Max(Si!Ruling(p))].value)
    BY <2>1 DEF Si!Settled
  <2> QED
    BY <2>1, <2>2
<1>2. ASSUME NEW i \in SiInsts, NEW o \in Si!Evaluated(i), ~Si!Constrained(o)
      PROVE  v[o] = Si!Eval(v, o)
  <2>1. Si!Ruling(o) = {} /\ o \in Si!Pins
    BY <1>2, RulingConstrains, FunctionConst
  <2>2. Si!Settled(v, o) = Si!Eval(v, o)
    BY <2>1, EvaluatedAre DEF Si!Settled
  <2> QED
    BY <2>1, <2>2
<1>3. ASSUME NEW t \in Given, ~Si!Constrained(t[1]) PROVE v[t[1]] = t[2]
  <2>1. CASE t \in SiTies
    <3>1. t \in Si!Pins \X Si!Levels
      BY <2>1, FrontEndAssumption DEF Si!ConstantsOK
    <3>2. PICK p \in Si!Pins, x \in Si!Levels : t = <<p, x>>
      BY <3>1
    <3>3. \A y : <<p, y>> \in SiTies => y = x
      <4> SUFFICES ASSUME NEW y, <<p, y>> \in SiTies PROVE y = x
        OBVIOUS
      <4>1. <<p, y>>[1] = t[1]
        BY <3>2
      <4>2. <<p, y>> = t
        BY <2>1, <4>1 DEF TiesApart
      <4> QED
        BY <3>2, <4>2
    <3>4. (CHOOSE y \in Si!Levels : <<p, y>> \in SiTies) = x
      BY <2>1, <3>2, <3>3
    <3>5. Si!Ruling(p) = {} /\ \E y \in Si!Levels : <<p, y>> \in SiTies
      BY <1>3, <2>1, <3>2, RulingConstrains
    <3>6. Si!Settled(v, p) = x
      BY <3>4, <3>5 DEF Si!Settled
    <3> QED
      BY <3>2, <3>6
  <2>2. CASE t \in {<<o, SiFunction[o][{}]>> : o \in Si!TieCells}
    <3>1. PICK o \in Si!TieCells : t = <<o, SiFunction[o][{}]>>
      BY <2>2
    <3>2. PICK i \in SiInsts : o \in Si!Evaluated(i)
      BY SiConst DEF Si!TieCells, Si!Evaluated
    <3>3. v[o] = Si!Eval(v, o)
      BY <1>2, <1>3, <3>1, <3>2
    <3> QED
      BY <3>1, <3>3, TieCellEval
  <2> QED
    BY <2>1, <2>2 DEF Given
<1>4. ASSUME NEW d \in Si!Drivers, NEW l \in SiLoads[d], ~Si!Constrained(l) PROVE v[l] = v[d]
  <2>1. Si!Ruling(l) = {} /\ l \in Si!Pins
    BY <1>4, RulingConstrains, SiConst
  <2>2. \A x : <<l, x>> \notin SiTies
    <3> SUFFICES ASSUME NEW x, <<l, x>> \in SiTies PROVE FALSE
      OBVIOUS
    <3>1. <<l, x>>[1] = l
      OBVIOUS
    <3> QED
      BY <3>1 DEF TiesApart
  <2>3. Si!DriverOf(l) = {d}
    <3>1. \A e \in Si!Drivers : e # d => SiLoads[e] \cap SiLoads[d] = {}
      BY FrontEndAssumption DEF Si!ConstantsOK
    <3> QED
      BY <3>1 DEF Si!DriverOf
  <2>4. (CHOOSE e \in Si!DriverOf(l) : TRUE) = d
    BY <2>3
  <2>5. Si!Settled(v, l) = v[d]
    BY <2>1, <2>2, <2>3, <2>4 DEF Si!Settled
  <2> QED
    BY <2>1, <2>5
<1> QED
  BY <1>1, <1>2, <1>3, <1>4 DEF Closed

\* Of closed values the rounds reach no more than those.
LEMMA RoundsBelow ==
  ASSUME cases \in Seq(SiCases), NEW f, RoundByRound(f), NEW v, Closed(v)
  PROVE  \A n \in Nat : Below(f[n], v)
<1> DEFINE S == {n \in Nat : Below(f[n], v)}
<1>1. 0 \in S
  BY DEF Below, RoundByRound
<1>2. ASSUME NEW n \in Nat, n \in S PROVE n + 1 \in S
  <2>1. Below(f[n], v) /\ n + 1 \in Nat
    BY <1>2
  <2>2. ASSUME NEW p \in Si!Pins PROVE f[n + 1][p] \in {SiUnknown, v[p]}
    <3>1. f[n + 1][p] = Si!Settled(f[n], p)
      BY ZenonT(60) DEF RoundByRound
    <3>2. f[n + 1][p] \in {SiUnknown, Si!Settled(v, p)}
      BY <2>1, <3>1, SettledRises
    <3> QED
      BY <3>2, ClosedSettled
  <2> QED
    BY <2>1, <2>2 DEF Below
<1>3. \A n \in Nat : n \in S => n + 1 \in S
  BY <1>2
<1> HIDE DEF S
<1>4. Nat \subseteq S
  BY <1>1, <1>3, Counting
<1> QED
  BY <1>4 DEF S

\* Where the rounds come to rest are the least closed values.
LEMMA LeastClosed ==
  ASSUME cases \in Seq(SiCases), TiesApart
  PROVE  \E w : /\ Closed(w) /\ \A v : Closed(v) => Below(w, v)
                /\ {<<p, w[p]>> : p \in Si!Pins} = Si!Rounds[Si!Cardinality(Si!Pins)]
<1>1. PICK f : RoundByRound(f)
  BY RoundsAre
<1>2. PICK N \in Nat : N = Cardinality(Si!Pins) /\ f[N + 1] = f[N]
  BY <1>1, RoundsRest
<1>3. /\ f[N] \in [Si!Pins -> Si!Values] /\ f[N + 1] = [p \in Si!Pins |-> Si!Settled(f[N], p)]
      /\ Si!Rounds[N] = {<<p, f[N][p]>> : p \in Si!Pins}
  BY <1>1 DEF RoundByRound
<1>4. \A p \in Si!Pins : f[N][p] = Si!Settled(f[N], p)
  BY <1>2, <1>3
<1>5. Closed(f[N])
  BY <1>3, <1>4, RestIsClosed
<1>6. \A v : Closed(v) => Below(f[N], v)
  BY <1>1, RoundsBelow
<1> QED
  BY <1>2, <1>3, <1>5, <1>6, OwnSets

-----------------------------------------------------------------------------
(* Values only rise                                                        *)

\* Along a net a driver's value is at every pin that no constraint holds.
Handed(s) ==
  \A d \in Si!Drivers : \A l \in SiLoads[d] : Si!Constrained(l) \/ s.value[l] = s.value[d]

\* u has the values of s, and instead of some of them the ones of w.
Rises(s, u, w) == \A r \in Si!Pins : u.value[r] \in {s.value[r], w[r]}

\* Below w that is to have more values.
LEMMA RisesBelow ==
  ASSUME NEW s, NEW u, NEW w, Below(s.value, w), Rises(s, u, w)
  PROVE  Below(u.value, w) /\ Below(s.value, u.value)
BY DEF Below, Rises

\* A value of closed ones, set at a pin that has its value from no net, or set against a
\* constraint, keeps below them.
LEMMA SetRises ==
  ASSUME NEW w, Closed(w), NEW s, Handed(s), NEW p \in Si!Pins, NEW v \in Si!Values,
         NEW u, ValuesSet(s, u, p, v),
         Si!Constrained(p) \/ (v = w[p] /\ \A d \in Si!Drivers : p \notin SiLoads[d])
  PROVE  Rises(s, u, w) /\ Handed(u)
<1>1. Si!Drivers \subseteq Si!Pins /\ \A d \in Si!Drivers : SiLoads[d] \subseteq Si!Pins \ Si!Drivers
  BY SiConst
<1>2. CASE \A r \in Si!Pins : u.value[r] = s.value[r]
  BY <1>1, <1>2 DEF Rises, Handed
<1>3. CASE ~Si!Differs(p, v) /\
           \A r \in Si!Pins :
             u.value[r] = IF r = p \/ (p \in Si!Drivers /\ r \in SiLoads[p] /\ ~Si!Differs(r, v))
                          THEN v ELSE s.value[r]
  <2>1. v = w[p]
    BY <1>3 DEF Closed, Si!Differs
  <2>2. p \in Si!Drivers => \A r \in SiLoads[p] : ~Si!Differs(r, v) => v = w[r]
    BY <1>1, <2>1 DEF Closed, Si!Differs
  <2>3. Rises(s, u, w)
    BY <1>3, <2>1, <2>2 DEF Rises
  <2>4. ASSUME NEW d \in Si!Drivers, NEW l \in SiLoads[d], ~Si!Constrained(l)
        PROVE  u.value[l] = u.value[d]
    <3>1. l \in Si!Pins /\ d \in Si!Pins /\ l # p /\ ~Si!Differs(l, v) /\ s.value[l] = s.value[d]
      BY <1>1, <2>4 DEF Handed, Si!Differs
    <3>2. CASE d = p
      BY <1>3, <3>1, <3>2
    <3>3. CASE d # p
      <4>1. p \in Si!Drivers => l \notin SiLoads[p] /\ d \notin SiLoads[p]
        BY <1>1, <3>3, FrontEndAssumption DEF Si!ConstantsOK
      <4> QED
        BY <1>3, <3>1, <3>3, <4>1
    <3> QED
      BY <3>2, <3>3
  <2> QED
    BY <2>3, <2>4 DEF Handed
<1> QED
  BY <1>2, <1>3 DEF ValuesSet

\* Where no constraint holds an output has the value it evaluates to, or none yet.
OutputKept(s, o) == Si!Constrained(o) \/ s.value[o] \in {SiUnknown, Si!Eval(s.value, o)}
EvalsKept(s) == \A i \in SiInsts : \A o \in Si!Evaluated(i) : OutputKept(s, o)

\* An instance still to be evaluated has its turn; the others have their outputs' values.
Current(s, i) ==
  \A o \in Si!Evaluated(i) :
    SiSupport[o] = {} \/ Si!Constrained(o) \/ s.value[o] = Si!Eval(s.value, o)
EvalsCurrent(s) == \A i \in SiInsts : InQueue(s, i) \/ Current(s, i)

\* A pin with a constraint or a given value has it, or it is in the list.
Owed(s, list, w) ==
  \A p \in Si!Pins : Si!Constrained(p) \/ (\E t \in Given : t[1] = p) =>
    s.value[p] = w[p] \/ \E k \in DOMAIN list : list[k][1] = p /\ Si!ValueOf(list[k][2]) = w[p]

\* The list holds given values and values of constrained pins.
SeedsSound(list) == \A k \in DOMAIN list : Si!Constrained(list[k][1]) \/ list[k] \in Given

\* A state on the way to w.
Rising(s, list, w) ==
  /\ Below(s.value, w) /\ Handed(s) /\ EvalsKept(s) /\ EvalsCurrent(s)
  /\ Owed(s, list, w) /\ SeedsSound(list)

\* More values keep an output as it is kept.
LEMMA KeptRises ==
  ASSUME NEW s, NEW u, Below(s.value, u.value), NEW i \in SiInsts, NEW o \in Si!Evaluated(i),
         OutputKept(s, o), u.value[o] \in {s.value[o], Si!Eval(s.value, o)}
  PROVE  OutputKept(u, o)
BY EvalRises DEF OutputKept

\* And an instance current whose inputs are as they were.
LEMMA CurrentStays ==
  ASSUME NEW s, NEW u, Onward(s, u), NEW i \in SiInsts,
         InQueue(s, i) \/
           \A o \in Si!Evaluated(i) :
             SiSupport[o] = {} \/ Si!Constrained(o) \/ u.value[o] = Si!Eval(s.value, o)
  PROVE  InQueue(u, i) \/ Current(u, i)
<1>1. CASE InQueue(s, i)
  BY <1>1 DEF Onward
<1>2. CASE \E p \in SiInPins[i] : u.value[p] # s.value[p]
  BY <1>2 DEF Onward
<1>3. CASE ~InQueue(s, i) /\ \A p \in SiInPins[i] : u.value[p] = s.value[p]
  <2>1. \A o \in Si!Evaluated(i) : Si!Eval(u.value, o) = Si!Eval(s.value, o)
    BY <1>3, EvalLocal
  <2> QED
    BY <1>3, <2>1 DEF Current
<1> QED
  BY <1>1, <1>2, <1>3

\* What is given to a pin no constraint holds: no net drives the pin, and if it is an
\* output then a tie cell's.
LEMMA GivenPin ==
  ASSUME TiesApart, NEW w, Closed(w), NEW t \in Given, ~Si!Constrained(t[1])
  PROVE  /\ Si!ValueOf(t[2]) = w[t[1]] /\ \A d \in Si!Drivers : t[1] \notin SiLoads[d]
         /\ \A i \in SiInsts : \A o \in Si!Evaluated(i) :
              o = t[1] => SiSupport[o] = {} /\ \A v : Si!Eval(v, o) = Si!ValueOf(t[2])
<1>1. t[2] \in Si!Levels /\ Si!ValueOf(t[2]) = t[2]
  <2>1. t[2] \in Si!Levels
    BY GivenConst
  <2> QED
    BY <2>1 DEF Si!ValueOf, Si!Levels
<1>2. w[t[1]] = t[2]
  BY DEF Closed
<1>3. CASE t \in SiTies
  <2>1. \A d \in Si!Drivers : t[1] # d /\ t[1] \notin SiLoads[d]
    BY <1>3 DEF TiesApart
  <2>2. \A i \in SiInsts : \A o \in Si!Evaluated(i) : o \in Si!Drivers
    BY FunctionConst
  <2> QED
    BY <1>1, <1>2, <2>1, <2>2
<1>4. CASE t \in {<<o, SiFunction[o][{}]>> : o \in Si!TieCells}
  <2>1. PICK c \in Si!TieCells : t = <<c, SiFunction[c][{}]>>
    BY <1>4
  <2>2. c \in Si!Drivers /\ SiSupport[c] = {}
    BY DEF Si!TieCells
  <2>3. \A d \in Si!Drivers : c \notin SiLoads[d]
    BY <2>2, SiConst
  <2>4. \A v : Si!Eval(v, c) = SiFunction[c][{}]
    BY TieCellEval
  <2> QED
    BY <1>1, <1>2, <2>1, <2>2, <2>3, <2>4
<1> QED
  BY <1>3, <1>4 DEF Given

\* Seeding a value keeps on the way.
LEMMA SeedRises ==
  ASSUME TiesApart, NEW w, Closed(w), NEW s, NEW list \in Seq(Entries), list # <<>>,
         Rising(s, list, w),
         NEW u, ValueSet(s, u, Head(list)[1], Si!ValueOf(Head(list)[2]))
  PROVE  Rising(u, Tail(list), w)
<1> DEFINE p == Head(list)[1]
           v == Si!ValueOf(Head(list)[2])
<1>1. /\ Head(list) = list[1] /\ 1 \in DOMAIN list /\ list[1] \in Entries
      /\ \A k \in DOMAIN Tail(list) : k + 1 \in DOMAIN list /\ Tail(list)[k] = list[k + 1]
      /\ \A k \in DOMAIN list : k # 1 => k - 1 \in DOMAIN Tail(list) /\ Tail(list)[k - 1] = list[k]
  OBVIOUS
<1>2. p \in Si!Pins /\ v \in Si!Values
  BY <1>1 DEF Entries, Si!ValueOf, Si!Values
<1>3. Below(s.value, w) /\ Handed(s) /\ EvalsKept(s) /\ EvalsCurrent(s) /\ Owed(s, list, w) /\ SeedsSound(list)
  BY DEF Rising
<1>4. /\ u \in Sane /\ Onward(s, u) /\ ValuesSet(s, u, p, v)
      /\ \A r \in Si!Drivers : r # p => u.value[r] = s.value[r]
      /\ ~Si!Differs(p, v) => u.value[p] = v
  BY DEF ValueSet
<1>5. Si!Constrained(p) \/
        /\ v = w[p] /\ \A d \in Si!Drivers : p \notin SiLoads[d]
        /\ \A i \in SiInsts : \A o \in Si!Evaluated(i) :
             o = p => SiSupport[o] = {} /\ \A x : Si!Eval(x, o) = v
  <2>1. Si!Constrained(p) \/ Head(list) \in Given
    BY <1>1, <1>3 DEF SeedsSound
  <2> QED
    BY <2>1, GivenPin
<1> HIDE DEF p, v
<1>6. Rises(s, u, w) /\ Handed(u)
  BY <1>2, <1>3, <1>4, <1>5, SetRises
<1>7. Below(u.value, w) /\ Below(s.value, u.value)
  BY <1>3, <1>6, RisesBelow
<1>8. \A i \in SiInsts : \A o \in Si!Evaluated(i) : o \in Si!Drivers /\ o \in Si!Pins
  BY FunctionConst
<1>9. EvalsKept(u)
  <2> SUFFICES ASSUME NEW i \in SiInsts, NEW o \in Si!Evaluated(i), ~Si!Constrained(o)
               PROVE  OutputKept(u, o)
    BY DEF EvalsKept, OutputKept
  <2>1. CASE o # p
    <3>1. u.value[o] = s.value[o] /\ OutputKept(s, o)
      BY <1>3, <1>4, <1>8, <2>1 DEF EvalsKept
    <3> QED
      BY <1>7, <3>1, KeptRises
  <2>2. CASE o = p
    <3>1. v = w[p] /\ Si!Eval(u.value, o) = v
      BY <1>5, <2>2
    <3> QED
      BY <1>7, <1>8, <2>2, <3>1 DEF OutputKept, Below
  <2> QED
    BY <2>1, <2>2
<1>10. EvalsCurrent(u)
  <2> SUFFICES ASSUME NEW i \in SiInsts PROVE InQueue(u, i) \/ Current(u, i)
    BY DEF EvalsCurrent
  <2>1. ASSUME Current(s, i), NEW o \in Si!Evaluated(i), SiSupport[o] # {}, ~Si!Constrained(o)
        PROVE  u.value[o] = Si!Eval(s.value, o)
    <3>1. o # p
      BY <1>5, <2>1
    <3>2. u.value[o] = s.value[o]
      BY <1>4, <1>8, <3>1
    <3> QED
      BY <2>1, <3>2 DEF Current
  <2>2. InQueue(s, i) \/ Current(s, i)
    BY <1>3 DEF EvalsCurrent
  <2> QED
    BY <1>4, <2>1, <2>2, CurrentStays
<1>11. Owed(u, Tail(list), w)
  <2> SUFFICES ASSUME NEW r \in Si!Pins, Si!Constrained(r) \/ (\E t \in Given : t[1] = r)
               PROVE  u.value[r] = w[r] \/
                        \E k \in DOMAIN Tail(list) : Tail(list)[k][1] = r /\ Si!ValueOf(Tail(list)[k][2]) = w[r]
    BY DEF Owed
  <2>1. CASE s.value[r] = w[r]
    BY <1>6, <2>1 DEF Rises
  <2>2. CASE \E k \in DOMAIN list : list[k][1] = r /\ Si!ValueOf(list[k][2]) = w[r]
    <3>1. PICK k \in DOMAIN list : list[k][1] = r /\ Si!ValueOf(list[k][2]) = w[r]
      BY <2>2
    <3>2. CASE k = 1
      <4>1. p = r /\ v = w[r]
        BY <1>1, <3>1, <3>2 DEF p, v
      <4>2. ~Si!Differs(p, v)
        BY <1>2, <4>1 DEF Closed, Si!Differs
      <4> QED
        BY <1>4, <4>1, <4>2
    <3>3. CASE k # 1
      BY <1>1, <3>1, <3>3
    <3> QED
      BY <3>2, <3>3
  <2> QED
    BY <1>3, <2>1, <2>2 DEF Owed
<1>12. SeedsSound(Tail(list))
  BY <1>1, <1>3 DEF SeedsSound
<1> QED
  BY <1>6, <1>7, <1>9, <1>10, <1>11, <1>12 DEF Rising

\* The outputs of an instance set to what they evaluate to, on the way to w.
LEMMA OutputsRise ==
  ASSUME NEW w, Closed(w), NEW s \in Sane, s.value = value, Below(value, w), Handed(s),
         NEW i \in SiInsts, \A o \in Si!Evaluated(i) : OutputKept(s, o)
  PROVE  LET U == {o \in Si!Evaluated(i) : Si!Eval(value, o) # value[o]}
         IN \E x \in Sane :
              /\ OutputsSet(s, Si!SetToSeq(U)) = x /\ Onward(s, x) /\ Rises(s, x, w) /\ Handed(x)
              /\ \A o \in Si!Evaluated(i) : Si!Constrained(o) \/ x.value[o] = Si!Eval(value, o)
              /\ \A r \in Si!Drivers \ Si!Evaluated(i) : x.value[r] = s.value[r]
<1> DEFINE U == {o \in Si!Evaluated(i) : Si!Eval(value, o) # value[o]}
           q == Si!SetToSeq(U)
           Has(u, o) == Si!Constrained(o) \/ u.value[o] = w[o]
           V == {u \in Sane : /\ Onward(s, u) /\ Rises(s, u, w) /\ Handed(u)
                              /\ \A r \in Si!Drivers \ U : u.value[r] = s.value[r]}
<1>1. \A o \in Si!Evaluated(i) : /\ o \in Si!Pins /\ o \in Si!Drivers /\ Si!Eval(value, o) \in Si!Values
                                 /\ \A d \in Si!Drivers : o \notin SiLoads[d]
  BY FunctionConst, EvalValue, SiConst
<1>2. \A o \in U : o \in Si!Evaluated(i) /\ (Si!Constrained(o) \/ Si!Eval(value, o) = w[o])
  <2> SUFFICES ASSUME NEW o \in U, ~Si!Constrained(o) PROVE Si!Eval(value, o) = w[o]
    OBVIOUS
  <2>1. OutputKept(s, o) /\ Si!Eval(value, o) # value[o]
    OBVIOUS
  <2>2. Si!Eval(value, o) # SiUnknown
    BY <2>1 DEF OutputKept
  <2>3. Si!Eval(value, o) = Si!Eval(w, o)
    BY <2>2, EvalRises
  <2> QED
    BY <2>3 DEF Closed
<1>3. IsFiniteSet(U)
  <2>1. IsFiniteSet(Si!Pins) /\ U \subseteq Si!Pins
    BY <1>1, SiConst
  <2> QED
    BY <2>1, FS_Subset
<1>4. \A o \in Si!Evaluated(i) \ U : Si!Eval(value, o) = value[o]
  OBVIOUS
<1> HIDE DEF U
<1>5. q \in Seq(U) /\ (\E n \in Nat : DOMAIN q = 1 .. n) /\ \A x \in U : \E k \in DOMAIN q : q[k] = x
  BY <1>3, Listing
<1>6. PICK n \in Nat : DOMAIN q = 1 .. n
  BY <1>5
<1>7. \A k \in 1 .. n : q[k] \in U
  BY <1>5, <1>6
<1>8. s \in V
  BY DEF Onward, Rises
<1>9. ASSUME NEW x \in V, NEW k \in 1 .. n
      PROVE  LET u == Si!SetValue(x, q[k], Si!Eval(value, q[k]))
             IN u \in V /\ Has(u, q[k]) /\ Rises(x, u, w)
  <2> DEFINE o == q[k]
             v == Si!Eval(value, q[k])
             u == Si!SetValue(x, o, v)
  <2>1. x \in Sane /\ Onward(s, x) /\ Rises(s, x, w) /\ Handed(x) /\ \A r \in Si!Drivers \ U : x.value[r] = s.value[r]
    OBVIOUS
  <2>2. /\ o \in U /\ o \in Si!Pins /\ v \in Si!Values
        /\ Si!Constrained(o) \/ (v = w[o] /\ \A d \in Si!Drivers : o \notin SiLoads[d])
    BY <1>1, <1>2, <1>7
  <2>3. ValueSet(x, u, o, v)
    BY <2>1, <2>2, SetValueDoes
  <2> HIDE DEF u, o, v, q
  <2>4. /\ u \in Sane /\ Onward(x, u) /\ ValuesSet(x, u, o, v)
        /\ \A r \in Si!Drivers : r # o => u.value[r] = x.value[r]
        /\ ~Si!Differs(o, v) => u.value[o] = v
    BY <2>3 DEF ValueSet
  <2>5. Rises(x, u, w) /\ Handed(u)
    BY <2>1, <2>2, <2>4, SetRises
  <2>6. Onward(s, u) /\ Rises(s, u, w)
    BY <2>1, <2>4, <2>5, OnwardTwice DEF Rises
  <2>7. \A r \in Si!Drivers \ U : u.value[r] = s.value[r]
    BY <2>1, <2>2, <2>4
  <2>8. u \in V
    BY <2>4, <2>5, <2>6, <2>7
  <2>9. Has(u, o)
    BY <2>2, <2>4 DEF Si!Differs
  <2> QED
    BY <2>5, <2>8, <2>9 DEF u, o, v
<1> HIDE DEF q, V, Has
<1>10. \E h : OutputsWalk(V, h, s, n, q)
  <2>1. \A x \in V : \A k \in 1 .. n : Si!SetValue(x, q[k], Si!Eval(value, q[k])) \in V
    BY <1>9
  <2> QED
    BY <1>6, <1>8, <2>1, ValueFold
<1>11. PICK h \in [0 .. n -> V] :
           /\ h[0] = s /\ \A k \in 1 .. n : h[k] = Si!SetValue(h[k - 1], q[k], Si!Eval(value, q[k]))
           /\ OutputsSet(s, q) = h[n]
  BY <1>10 DEF OutputsWalk
<1>12. \A k \in 1 .. n : k - 1 \in 0 .. n /\ k \in 0 .. n
  BY Prefixes
<1>13. \A k \in 1 .. n : Has(h[k], q[k]) /\ Rises(h[k - 1], h[k], w)
  BY <1>9, <1>11, <1>12
<1>14. ASSUME NEW o \in U PROVE Has(h[n], o)
  <2>1. PICK k \in 1 .. n : q[k] = o
    BY <1>5, <1>6
  <2> DEFINE P == {x \in V : Has(x, o)}
  <2>2. h[k] \in P
    BY <1>11, <1>12, <1>13, <2>1
  <2>3. ASSUME NEW j \in 1 .. n, h[j - 1] \in P PROVE h[j] \in P
    <3>1. h[j] \in V /\ Rises(h[j - 1], h[j], w) /\ Has(h[j - 1], o)
      BY <1>11, <1>12, <1>13, <2>3
    <3>2. Has(h[j], o)
      BY <1>1, <1>2, <3>1 DEF Has, Rises
    <3> QED
      BY <3>1, <3>2
  <2> HIDE DEF P
  <2>4. h[n] \in P
    BY <1>12, <2>2, <2>3, Remains
  <2> QED
    BY <2>4 DEF P
<1>15. n \in 0 .. n
  OBVIOUS
<1>16. h[n] \in V
  BY <1>11, <1>15
<1>17. /\ h[n] \in Sane /\ Onward(s, h[n]) /\ Rises(s, h[n], w) /\ Handed(h[n])
       /\ \A r \in Si!Drivers \ U : h[n].value[r] = s.value[r]
  BY <1>16 DEF V
<1>18. ASSUME NEW o \in Si!Evaluated(i), ~Si!Constrained(o) PROVE h[n].value[o] = Si!Eval(value, o)
  <2>1. CASE o \in U
    BY <1>2, <1>14, <1>18, <2>1 DEF Has
  <2>2. CASE o \notin U
    BY <1>1, <1>4, <1>17, <2>2
  <2> QED
    BY <2>1, <2>2
<1>19. \A r \in Si!Drivers \ Si!Evaluated(i) : h[n].value[r] = s.value[r]
  BY <1>2, <1>17
<1>20. OutputsSet(s, Si!SetToSeq({o \in Si!Evaluated(i) : Si!Eval(value, o) # value[o]})) = h[n]
  BY <1>11 DEF q, U
<1> QED
  BY <1>17, <1>18, <1>19, <1>20

\* Evaluating an instance, of its state the one without it in the queue, keeps on the way.
LEMMA EvalsRise ==
  ASSUME NEW w, Closed(w), NEW list, NEW s, NEW x \in Sane, x.value = s.value, s.value = value,
         NEW i \in SiInsts, \A j \in SiInsts : j # i /\ InQueue(s, j) => InQueue(x, j),
         Rising(s, list, w)
  PROVE  LET U == {o \in Si!Evaluated(i) : Si!Eval(value, o) # value[o]}
         IN Rising(OutputsSet(x, Si!SetToSeq(U)), list, w)
<1> DEFINE U == {o \in Si!Evaluated(i) : Si!Eval(value, o) # value[o]}
           u == OutputsSet(x, Si!SetToSeq(U))
<1>1. Below(s.value, w) /\ Handed(s) /\ EvalsKept(s) /\ EvalsCurrent(s) /\ Owed(s, list, w) /\ SeedsSound(list)
  BY DEF Rising
<1>2. Handed(x) /\ \A j \in SiInsts : \A o \in Si!Evaluated(j) : OutputKept(x, o)
  BY <1>1 DEF Handed, EvalsKept, OutputKept
<1>3. /\ u \in Sane /\ Onward(x, u) /\ Rises(x, u, w) /\ Handed(u)
      /\ \A o \in Si!Evaluated(i) : Si!Constrained(o) \/ u.value[o] = Si!Eval(value, o)
      /\ \A r \in Si!Drivers \ Si!Evaluated(i) : u.value[r] = x.value[r]
  BY <1>1, <1>2, OutputsRise
<1> HIDE DEF u
<1>4. Below(u.value, w) /\ Below(x.value, u.value)
  BY <1>1, <1>3, RisesBelow
<1>5. \A j \in SiInsts : \A o \in Si!Evaluated(j) :
        o \in Si!Drivers /\ o \in Si!Pins /\ (j # i => o \notin Si!Evaluated(i))
  <2> SUFFICES ASSUME NEW j \in SiInsts, NEW o \in Si!Evaluated(j), j # i PROVE o \notin Si!Evaluated(i)
    BY FunctionConst
  <2> QED
    BY SiConst DEF Si!Evaluated
<1>6. EvalsKept(u)
  <2> SUFFICES ASSUME NEW j \in SiInsts, NEW o \in Si!Evaluated(j), ~Si!Constrained(o)
               PROVE  OutputKept(u, o)
    BY DEF EvalsKept, OutputKept
  <2>1. u.value[o] \in {x.value[o], Si!Eval(x.value, o)}
    BY <1>3, <1>5
  <2> QED
    BY <1>2, <1>4, <2>1, KeptRises
<1>7. EvalsCurrent(u)
  <2> SUFFICES ASSUME NEW j \in SiInsts PROVE InQueue(u, j) \/ Current(u, j)
    BY DEF EvalsCurrent
  <2>1. CASE j = i
    <3>1. \A o \in Si!Evaluated(j) : Si!Constrained(o) \/ u.value[o] = Si!Eval(x.value, o)
      BY <1>3, <2>1
    <3> QED
      BY <1>3, <3>1, CurrentStays
  <2>2. CASE j # i
    <3>1. InQueue(x, j) \/ Current(s, j)
      BY <1>1, <2>2 DEF EvalsCurrent
    <3>2. \A o \in Si!Evaluated(j) : u.value[o] = x.value[o]
      BY <1>3, <1>5, <2>2
    <3>3. InQueue(x, j) \/ \A o \in Si!Evaluated(j) :
                             SiSupport[o] = {} \/ Si!Constrained(o) \/ u.value[o] = Si!Eval(x.value, o)
      BY <3>1, <3>2 DEF Current
    <3> QED
      BY <1>3, <3>3, CurrentStays
  <2> QED
    BY <2>1, <2>2
<1>8. Owed(u, list, w)
  BY <1>1, <1>3 DEF Owed, Rises
<1> QED
  BY <1>1, <1>3, <1>4, <1>6, <1>7, <1>8 DEF Rising, u

-----------------------------------------------------------------------------
(* The invariant of the closure                                            *)

\* Whatever closed values there are, the propagation is on the way to them.
CloseInv == \A w : Closed(w) => Rising(Si!State, seeds, w)

\* The constraint on a pin is in the list of them.
LEMMA ConstraintListed ==
  ASSUME cases \in Seq(SiCases), NEW p, Si!Constrained(p)
  PROVE  LET b == Si!Constraints(cases)
         IN \E k \in DOMAIN b : b[k][1] = p /\ b[k][2] = Si!Constraint(p)
<1> DEFINE b == Si!Constraints(cases)
           K == {k \in DOMAIN b : b[k][1] = p}
           m == CHOOSE k \in K : \A j \in K : j <= k
<1>1. Si!Constraint(p) = (IF K = {} THEN SiUnknown ELSE b[m][2]) /\ K # {}
  BY DEF Si!Constraint, Si!Constrained
<1>2. b \in Seq(Entries)
  BY ConstraintRules
<1> HIDE DEF b
<1>3. DOMAIN b \subseteq Int /\ IsFiniteSet(DOMAIN b)
  BY <1>2, DomainFinite
<1>4. K \in SUBSET Int /\ IsFiniteSet(K)
  BY <1>3, FS_Subset
<1> HIDE DEF K
<1>5. PICK x \in K : \A y \in K : x >= y
  BY <1>1, <1>4, GreatestOfFinite
<1>6. \A y \in K : y <= x
  BY <1>4, <1>5
<1>7. m \in K
  BY <1>6
<1> HIDE DEF m
<1>8. Si!Constraint(p) = b[m][2]
  BY <1>1
<1> QED
  BY <1>7, <1>8 DEF K, b

\* Two lists one after the other hold what either holds.
InList(l, x) == \E k \in DOMAIN l : l[k] = x
LEMMA InListJoined ==
  ASSUME NEW T, NEW l \in Seq(T), NEW r \in Seq(T)
  PROVE  l \o r \in Seq(T) /\ \A x : InList(l \o r, x) <=> InList(l, x) \/ InList(r, x)
<1> DEFINE t == l \o r
<1>1. /\ t \in Seq(T) /\ DOMAIN t = 1 .. Len(l) + Len(r)
      /\ DOMAIN l = 1 .. Len(l) /\ DOMAIN r = 1 .. Len(r) /\ Len(l) \in Nat /\ Len(r) \in Nat
      /\ \A j \in DOMAIN l : t[j] = l[j]
      /\ \A j \in DOMAIN r : t[Len(l) + j] = r[j]
  OBVIOUS
<1> HIDE DEF t
<1>2. /\ \A j \in DOMAIN l : j \in DOMAIN t
      /\ \A j \in DOMAIN r : Len(l) + j \in DOMAIN t
      /\ \A k \in DOMAIN t : k \in DOMAIN l \/ (k - Len(l) \in DOMAIN r /\ t[k] = r[k - Len(l)])
  <2>1. ASSUME NEW k \in DOMAIN t, k \notin DOMAIN l
        PROVE  k - Len(l) \in DOMAIN r /\ t[k] = r[k - Len(l)]
    <3>1. k - Len(l) \in 1 .. Len(r) /\ Len(l) + (k - Len(l)) = k
      BY <1>1, <2>1
    <3> QED
      BY <1>1, <3>1
  <2> QED
    BY <1>1, <2>1
<1>3. \A x : InList(t, x) => InList(l, x) \/ InList(r, x)
  BY <1>1, <1>2 DEF InList
<1>4. \A x : InList(l, x) \/ InList(r, x) => InList(t, x)
  BY <1>1, <1>2 DEF InList
<1> QED
  BY <1>1, <1>3, <1>4 DEF t

\* The list the propagation starts with.
LEMMA SeedsHeld ==
  ASSUME Si!Init, NEW x
  PROVE  InList(seeds, x) <=> x \in Given \/ InList(Si!Constraints(cases), x)
<1> DEFINE C == {<<o, SiFunction[o][{}]>> : o \in Si!TieCells}
           a == Si!SetToSeq(SiTies)
           b == Si!Constraints(cases)
           c == Si!SetToSeq(C)
<1>1. cases \in Seq(SiCases) /\ seeds = a \o b \o c
  BY DEF Si!Init
<1>2. Given = SiTies \cup C /\ Given \subseteq Entries /\ IsFiniteSet(SiTies) /\ IsFiniteSet(C)
  BY GivenConst DEF Given
<1>3. b \in Seq(Entries)
  BY <1>1, ConstraintRules
<1> HIDE DEF C
<1>4. a \in Seq(SiTies) /\ \A y \in SiTies : \E k \in DOMAIN a : a[k] = y
  BY <1>2, Listing
<1>5. c \in Seq(C) /\ \A y \in C : \E k \in DOMAIN c : c[k] = y
  BY <1>2, Listing
<1> HIDE DEF a, b, c
<1>6. a \in Seq(Entries) /\ c \in Seq(Entries)
  BY <1>2, <1>4, <1>5
<1>7. a \o b \in Seq(Entries) /\ (InList(a \o b, x) <=> InList(a, x) \/ InList(b, x))
  BY <1>3, <1>6, InListJoined
<1> DEFINE d == a \o b
<1> HIDE DEF d
<1>8. InList(d \o c, x) <=> InList(d, x) \/ InList(c, x)
  BY <1>6, <1>7, InListJoined DEF d
<1>9. InList(a, x) <=> x \in SiTies
  BY <1>4 DEF InList
<1>10. InList(c, x) <=> x \in C
  BY <1>5 DEF InList
<1> QED
  BY <1>1, <1>2, <1>7, <1>8, <1>9, <1>10 DEF b, d

\* The propagation starts on the way.
LEMMA CloseInit == TiesApart /\ Si!Init => CloseInv
<1> SUFFICES ASSUME TiesApart, Si!Init, NEW w, Closed(w) PROVE Rising(Si!State, seeds, w)
  BY DEF CloseInv
<1> DEFINE s == Si!State
<1>1. cases \in Seq(SiCases) /\ s.value = [p \in Si!Pins |-> SiUnknown]
  <2>1. cases \in Seq(SiCases)
    BY DEF Si!Init
  <2>2. s.value = value /\ value = [p \in Si!Pins |-> SiUnknown]
    BY DEF Si!Init, Si!State
  <2> QED
    BY <2>1, <2>2
<1> HIDE DEF s
<1>2. \A p \in Si!Pins : s.value[p] = SiUnknown
  BY <1>1
<1>3. Below(s.value, w)
  BY <1>2 DEF Below
<1>4. Handed(s)
  BY <1>2, SiConst DEF Handed
<1>5. \A i \in SiInsts : \A o \in Si!Evaluated(i) : s.value[o] = SiUnknown
  BY <1>2, FunctionConst
<1>6. EvalsKept(s)
  BY <1>5 DEF EvalsKept, OutputKept
<1>7. EvalsCurrent(s)
  <2> SUFFICES ASSUME NEW i \in SiInsts, NEW o \in Si!Evaluated(i), SiSupport[o] # {}
               PROVE  s.value[o] = Si!Eval(s.value, o)
    BY DEF EvalsCurrent, Current
  <2>1. \A p \in SiInPins[i] : s.value[p] = SiUnknown
    BY <1>2, SiConst
  <2> QED
    BY <1>5, <2>1, EvalOfNothing
<1>8. Owed(s, seeds, w)
  <2> SUFFICES ASSUME NEW p \in Si!Pins, Si!Constrained(p) \/ \E t \in Given : t[1] = p
               PROVE  \E k \in DOMAIN seeds : seeds[k][1] = p /\ Si!ValueOf(seeds[k][2]) = w[p]
    BY DEF Owed
  <2>1. CASE Si!Constrained(p)
    <3> DEFINE b == Si!Constraints(cases)
    <3>1. PICK k \in DOMAIN b : b[k][1] = p /\ b[k][2] = Si!Constraint(p)
      BY <1>1, <2>1, ConstraintListed
    <3>2. InList(seeds, b[k])
      BY <3>1, SeedsHeld DEF InList
    <3>3. Si!ValueOf(b[k][2]) = w[p]
      BY <2>1, <3>1 DEF Closed
    <3> HIDE DEF b
    <3> QED
      BY <3>1, <3>2, <3>3 DEF InList
  <2>2. CASE ~Si!Constrained(p)
    <3>1. PICK t \in Given : t[1] = p
      BY <2>2
    <3>2. Si!ValueOf(t[2]) = w[p]
      BY <2>2, <3>1, GivenPin
    <3>3. InList(seeds, t)
      BY SeedsHeld
    <3> QED
      BY <3>1, <3>2, <3>3 DEF InList
  <2> QED
    BY <2>1, <2>2
<1>9. SeedsSound(seeds)
  <2> SUFFICES ASSUME NEW k \in DOMAIN seeds, seeds[k] \notin Given
               PROVE  Si!Constrained(seeds[k][1])
    BY DEF SeedsSound
  <2>1. InList(seeds, seeds[k])
    BY DEF InList
  <2>2. InList(Si!Constraints(cases), seeds[k])
    BY <2>1, SeedsHeld
  <2> QED
    BY <2>2 DEF InList, Si!Constrained
<1> QED
  BY <1>3, <1>4, <1>6, <1>7, <1>8, <1>9 DEF Rising, s

\* Closed values stay closed while the constraints stay.
LEMMA SameClosed ==
  ASSUME cases' = cases, NEW CONSTANT w
  PROVE  (Closed(w))' <=> Closed(w)
<1>1. \A p : (Si!Constrained(p))' = Si!Constrained(p) /\ (Si!Constraint(p))' = Si!Constraint(p)
  BY SameConstraints
<1> QED
  BY <1>1 DEF Closed, Given

\* A step that leaves a state on the way leaves one for the invariant.
LEMMA CloseNext ==
  ASSUME NEW u, (Si!State)' = u, cases' = cases, NEW list, seeds' = list,
         \A w : Closed(w) => Rising(u, list, w)
  PROVE  CloseInv'
<1>1. \A p : (Si!Constrained(p))' = Si!Constrained(p)
  BY SameConstraints
<1>2. SUFFICES ASSUME NEW CONSTANT w, (Closed(w))' PROVE (Rising(Si!State, seeds, w))'
  BY DEF CloseInv
<1>3. Rising(u, list, w)
  BY <1>2, SameClosed
<1> QED
  BY <1>1, <1>3 DEF Rising, Handed, EvalsKept, OutputKept, EvalsCurrent, Current, InQueue, Owed, SeedsSound, Below, Given

\* Each step keeps on the way.
LEMMA CloseSeed == TiesApart /\ SimInv /\ CloseInv /\ Si!Seed => CloseInv'
<1> SUFFICES ASSUME TiesApart, SimInv, CloseInv, Si!Seed PROVE CloseInv'
  OBVIOUS
<1> DEFINE s == Si!State
           p == Head(seeds)[1]
           v == Si!ValueOf(Head(seeds)[2])
           u == Si!SetValue(s, p, v)
<1>1. s \in Sane /\ seeds \in Seq(Entries)
  BY DEF SimInv, SaidState
<1>2. seeds # <<>> /\ seeds' = Tail(seeds) /\ Si!Update(u) /\ cases' = cases
  BY DEF Si!Seed
<1>3. Head(seeds) \in Entries
  BY <1>1, <1>2
<1>4. p \in Si!Pins /\ v \in Si!Values
  BY <1>3 DEF Entries, Si!ValueOf, Si!Values
<1>5. ValueSet(s, u, p, v)
  BY <1>1, <1>4, SetValueDoes
<1> HIDE DEF s, u
<1>6. (Si!State)' = u
  BY <1>2, <1>5, Updated DEF ValueSet
<1>7. ASSUME NEW w, Closed(w) PROVE Rising(u, Tail(seeds), w)
  <2>1. Rising(s, seeds, w)
    BY <1>7 DEF CloseInv, s
  <2> QED
    BY <1>1, <1>2, <1>5, <1>7, <2>1, SeedRises
<1> QED
  BY <1>2, <1>6, <1>7, CloseNext

LEMMA CloseEval == SimInv /\ CloseInv /\ Si!EvalInstance => CloseInv'
<1> SUFFICES ASSUME SimInv, CloseInv, Si!EvalInstance PROVE CloseInv'
  OBVIOUS
<1> DEFINE s == Si!State
<1>1. PICK i \in SiInsts, x \in Sane :
           /\ x.value = value /\ s.value = value
           /\ \A j \in SiInsts : j # i /\ InQueue(s, j) => InQueue(x, j)
           /\ Si!Update(OutputsSet(x, Si!SetToSeq({o \in Si!Evaluated(i) : Si!Eval(value, o) # value[o]})))
  BY Dequeued
<1> DEFINE u == OutputsSet(x, Si!SetToSeq({o \in Si!Evaluated(i) : Si!Eval(value, o) # value[o]}))
<1>2. cases' = cases /\ seeds' = seeds
  BY DEF Si!EvalInstance
<1>3. u \in Sane
  BY <1>1, OutputsDo
<1>4. ASSUME NEW w, Closed(w) PROVE Rising(u, seeds, w)
  <2>1. Rising(s, seeds, w)
    BY <1>4 DEF CloseInv
  <2> HIDE DEF s
  <2> QED
    BY <1>1, <1>4, <2>1, EvalsRise
<1> HIDE DEF s, u
<1>5. (Si!State)' = u
  BY <1>1, <1>3, Updated DEF u
<1> QED
  BY <1>2, <1>4, <1>5, CloseNext

LEMMA CloseStill ==
  ASSUME SimInv, CloseInv, Si!Seeded \/ Si!Propagated \/ Si!FindDisabledEdges \/ UNCHANGED SiVars
  PROVE  CloseInv'
<1> DEFINE u == Si!State
<1>1. cases' = cases /\ seeds' = seeds /\ (Si!State)' = u
  BY DEF Si!Seeded, Si!Propagated, Si!FindDisabledEdges, SiVars, Si!State
<1>2. \A w : Closed(w) => Rising(u, seeds, w)
  BY DEF CloseInv
<1> HIDE DEF u
<1> QED
  BY <1>1, <1>2, CloseNext

\* At the end the values are closed, below all closed ones, and so where the rounds end.
LEMMA SimCloses == TiesApart /\ SimInv /\ CloseInv => Si!ValuesAreTheClosure
<1> SUFFICES ASSUME TiesApart, SimInv, CloseInv, sim_phase = "done"
             PROVE  {<<p, value[p]>> : p \in Si!Pins} = Si!Rounds[Si!Cardinality(Si!Pins)]
  BY DEF Si!ValuesAreTheClosure
<1> DEFINE s == Si!State
<1>1. cases \in Seq(SiCases) /\ s \in Sane /\ seeds = <<>> /\ queue = <<>>
  BY DEF SimInv, SaidState
<1>2. PICK w : /\ Closed(w) /\ \A v : Closed(v) => Below(w, v)
               /\ {<<p, w[p]>> : p \in Si!Pins} = Si!Rounds[Si!Cardinality(Si!Pins)]
  BY <1>1, LeastClosed
<1>3. Rising(s, seeds, w)
  BY <1>2 DEF CloseInv
<1>4. s.value = value /\ s.queue = <<>>
  BY <1>1 DEF Si!State
<1> HIDE DEF s
<1>5. Below(value, w) /\ Handed(s) /\ EvalsCurrent(s) /\ Owed(s, seeds, w)
  BY <1>3, <1>4 DEF Rising
<1>6. value \in [Si!Pins -> Si!Values]
  BY <1>1, <1>4 DEF Sane, SimStates
<1>7. \A p \in Si!Pins : Si!Constrained(p) \/ (\E t \in Given : t[1] = p) => value[p] = w[p]
  BY <1>1, <1>4, <1>5 DEF Owed
<1>8. \A p \in Si!Pins : Si!Constrained(p) => value[p] = Si!ValueOf(Si!Constraint(p))
  BY <1>2, <1>7 DEF Closed
<1>9. \A t \in Given : Si!Constrained(t[1]) \/ value[t[1]] = t[2]
  <2>1. \A t \in Given : t[1] \in Si!Pins
    BY GivenConst DEF Entries
  <2> QED
    BY <1>2, <1>7, <2>1 DEF Closed
<1>10. ASSUME NEW i \in SiInsts, NEW o \in Si!Evaluated(i), ~Si!Constrained(o)
       PROVE  value[o] = Si!Eval(value, o)
  <2>1. CASE SiSupport[o] # {}
    <3>1. ~InQueue(s, i)
      BY <1>4 DEF InQueue
    <3> QED
      BY <1>4, <1>5, <1>10, <2>1, <3>1 DEF EvalsCurrent, Current
  <2>2. CASE SiSupport[o] = {}
    <3>1. o \in Si!TieCells
      BY <2>2, EvaluatedAre
    <3> DEFINE t == <<o, SiFunction[o][{}]>>
    <3>2. t \in Given /\ t[1] = o /\ t[2] = SiFunction[o][{}]
      BY <3>1 DEF Given
    <3> HIDE DEF t
    <3>3. value[o] = SiFunction[o][{}]
      BY <1>9, <1>10, <3>2
    <3> QED
      BY <3>1, <3>3, TieCellEval
  <2> QED
    BY <2>1, <2>2
<1>11. Closed(value)
  BY <1>4, <1>5, <1>6, <1>8, <1>9, <1>10 DEF Closed, Handed
<1>12. Below(w, value)
  BY <1>2, <1>11
<1>13. \A p \in Si!Pins : value[p] = w[p]
  BY <1>5, <1>12 DEF Below
<1>14. {<<p, value[p]>> : p \in Si!Pins} = {<<p, w[p]>> : p \in Si!Pins}
  BY <1>13
<1> QED
  BY <1>2, <1>14

-----------------------------------------------------------------------------
(* Theorems                                                                *)

\* A constraint that contradicts the netlist is said (set_pin_value, sim.rs:303).
LEMMA SimSays == SimInv => Si!ConflictsSaid
<1> SUFFICES ASSUME SimInv, sim_phase = "done", NEW p \in Si!Pins, Si!Ruling(p) # {},
                    NEW x,
                    x \in {value[d] : d \in Si!DriverOf(p)} \cup {v \in Si!Levels : <<p, v>> \in SiTies}
                          \cup (IF p \in Si!Drivers \ SiInPorts /\ {} \in DOMAIN SiFunction[p]
                                THEN {Si!Eval(value, p)} ELSE {}),
                    x \notin {SiUnknown, Si!ValueOf(cases[Si!Max(Si!Ruling(p))].value)}
             PROVE  p \in sim_warned
  BY DEF Si!ConflictsSaid
<1> DEFINE s == Si!State
<1>1. /\ cases \in Seq(SiCases) /\ NetsSaid(s) /\ EvalsSaid(s)
      /\ GivenSaid(s, <<>>) /\ queue = <<>>
  BY DEF SimInv, SaidState
<1>2. s.value = value /\ s.queue = queue /\ s.warned = sim_warned
  BY DEF Si!State
<1> HIDE DEF s
<1>3. Si!Constrained(p) /\ Si!Constraint(p) = cases[Si!Max(Si!Ruling(p))].value
  BY <1>1, ConstraintRules
<1>4. SUFFICES Said(s, p, x)
  BY <1>2, <1>3 DEF Said, Si!Differs
<1>5. \A t \in Given : Said(s, t[1], t[2])
  BY <1>1 DEF GivenSaid
<1>6. CASE \E d \in Si!DriverOf(p) : x = value[d]
  BY <1>1, <1>2, <1>6 DEF NetsSaid, Si!DriverOf
<1>7. CASE <<p, x>> \in SiTies
  BY <1>5, <1>7 DEF Given
<1>8. CASE p \in Si!Drivers \ SiInPorts /\ {} \in DOMAIN SiFunction[p] /\ x = Si!Eval(value, p)
  <2>1. PICK i \in SiInsts : p \in SiOutPins[i]
    BY <1>8, SiConst
  <2>2. p \in Si!Evaluated(i)
    BY <1>8, <2>1 DEF Si!Evaluated
  <2>3. CASE SiSupport[p] # {}
    <3>1. ~InQueue(s, i)
      BY <1>1, <1>2 DEF InQueue
    <3> QED
      BY <1>1, <1>2, <1>8, <2>2, <2>3, <3>1 DEF EvalsSaid, EvalSaid
  <2>4. CASE SiSupport[p] = {}
    <3>1. <<p, SiFunction[p][{}]>> \in Given
      BY <1>8, <2>4 DEF Given, Si!TieCells
    <3>2. Si!One(value, SiSupport[p]) = {} /\ Si!Free(value, SiSupport[p]) = {}
      BY <2>4 DEF Si!One, Si!Free
    <3>3. \A F \in SUBSET {} : {} \cup F = {}
      OBVIOUS
    <3>4. Si!Outcomes(value, p) = {SiFunction[p][{}]}
      BY <3>2, <3>3 DEF Si!Outcomes
    <3>5. x = SiUnknown \/ x = CHOOSE v \in Si!Outcomes(value, p) : TRUE
      BY <1>8 DEF Si!Eval
    <3>6. x = SiFunction[p][{}]
      BY <3>4, <3>5
    <3>7. <<p, SiFunction[p][{}]>>[1] = p /\ <<p, SiFunction[p][{}]>>[2] = SiFunction[p][{}]
      OBVIOUS
    <3> QED
      BY <1>5, <3>1, <3>6, <3>7
  <2> QED
    BY <2>3, <2>4
<1> QED
  BY <1>6, <1>7, <1>8

\* Timing follows what can still switch (find_disabled_edges, sim.rs:385).
LEMMA SimTimes == SimInv => Si!TimedIsWhatSwitches
<1> SUFFICES ASSUME SimInv, sim_phase = "done", NEW a \in SiArcs,
                    NEW x \in Si!Transitions, NEW y \in Si!Transitions,
                    a[2] \in SiSupport[a[3]], Si!Affected(a[1])
             PROVE  Si!Carries(a, x, y) <=>
                      /\ ~Si!Held(a[2]) /\ ~Si!Held(a[3])
                      /\ ~(SiDisableOf[a[3]] # SiNoPin /\ value[SiDisableOf[a[3]]] = "1")
                      /\ Si!Passes(a[2], x) /\ Si!Passes(a[3], y) /\ Si!Moves(a, x, y)
  BY DEF Si!TimedIsWhatSwitches
<1>1. a[1] \in SiInsts /\ a[2] \in SiInPins[a[1]] /\ a[3] \in SiOutPins[a[1]]
  BY FrontEndAssumption DEF Si!ConstantsOK
<1>2. a[1] \in annotate
  <2>1. Annotated(Si!State)
    BY DEF SimInv, SaidState, Sane
  <2> QED
    BY <1>1, <2>1 DEF Annotated, Si!State, Si!Affected
<1>3. sense[a] = Si!SenseOf(a[2], a[3])
  BY <1>2 DEF SimInv
<1>4. CASE Si!Held(a[2]) \/ Si!Held(a[3])
  BY <1>4 DEF Si!Carries, Si!Built
<1>5. CASE ~Si!Held(a[2]) /\ SiDisableOf[a[3]] # SiNoPin /\ value[SiDisableOf[a[3]]] = "1"
  <2>1. sense[a] = "none"
    BY <1>3, <1>5 DEF Si!SenseOf, Si!Held
  <2> QED
    BY <1>5, <2>1 DEF Si!Carries, Si!Pairs
<1>6. CASE ~Si!Held(a[2]) /\ ~Si!Held(a[3])
           /\ ~(SiDisableOf[a[3]] # SiNoPin /\ value[SiDisableOf[a[3]]] = "1")
  <2>1. sense[a] = Si!FunctionSense(a[2], a[3])
    BY <1>3, <1>6 DEF Si!SenseOf, Si!Held
  <2>2. Si!Pairs(sense[a], x, y) <=> IF x = y THEN Si!Raises(a[2], a[3]) ELSE Si!Lowers(a[2], a[3])
    BY <2>1 DEF Si!FunctionSense, Si!Pairs
  <2>3. Si!Moves(a, x, y) <=> IF x = y THEN Si!Raises(a[2], a[3]) ELSE Si!Lowers(a[2], a[3])
    <3>1. CASE x = "rise" /\ y = "rise"
      BY <3>1, Zenon DEF Si!Moves, Si!Raises
    <3>2. CASE x = "rise" /\ y = "fall"
      BY <3>2 DEF Si!Moves, Si!Lowers
    <3>3. CASE x = "fall" /\ y = "rise"
      BY <3>3 DEF Si!Moves, Si!Lowers
    <3>4. CASE x = "fall" /\ y = "fall"
      BY <3>4 DEF Si!Moves, Si!Raises
    <3> QED
      BY <3>1, <3>2, <3>3, <3>4 DEF Si!Transitions
  <2> QED
    BY <1>6, <2>2, <2>3 DEF Si!Carries, Si!Built
<1> QED
  BY <1>4, <1>5, <1>6

\* A constraint that contradicts the netlist is said, whatever the netlist, the
\* functions and the constraints (set_pin_value, sim.rs:303).
THEOREM ContradictionsAreSaid == Spec => []ConflictsSaid
<1>1. (reader = "sim" => SimInv) => ConflictsSaid
  BY SimSays DEF ConflictsSaid
<1> QED
  BY <1>1, SimAlways, PTL

\* Timing arcs carry exactly the transitions that the constants leave free
\* (find_disabled_edges, sim.rs:385).
THEOREM SwitchingIsTimed == Spec => []TimedIsWhatSwitches
<1>1. (reader = "sim" => SimInv) => TimedIsWhatSwitches
  BY SimTimes DEF TimedIsWhatSwitches
<1> QED
  BY <1>1, SimAlways, PTL

\* The values are the ones rounds over the whole netlist settle at, whatever the order of
\* the work list (run, sim.rs:210).
THEOREM ValuesAreClosed ==
  ASSUME TiesApart
  PROVE  Spec => []ValuesAreTheClosure
<1>1. Init => (reader = "sim" => CloseInv)
  BY CloseInit DEF Init
<1>2. (reader = "sim" => SimInv) /\ (reader = "sim" => CloseInv) /\ [Next]_vars
        => (reader = "sim" => CloseInv)'
  <2>1. SUFFICES ASSUME reader = "sim" => SimInv, reader = "sim" => CloseInv, [Next]_vars, reader' = "sim"
                 PROVE  CloseInv'
    OBVIOUS
  <2>2. SimInv /\ CloseInv /\ (Si!Next \/ UNCHANGED SiVars)
    BY <2>1, SiPart
  <2> QED
    BY <2>2, CloseSeed, CloseEval, CloseStill DEF Si!Next
<1>3. (reader = "sim" => SimInv) /\ (reader = "sim" => CloseInv) => ValuesAreTheClosure
  BY SimCloses DEF ValuesAreTheClosure
<1> QED
  BY <1>1, <1>2, <1>3, SimAlways, PTL DEF Spec

-----------------------------------------------------------------------------
(* Types of the propagation                                                *)

\* An arc has the sense of its cell or one the constants leave it.
SenseTyped == sense \in [SiArcs -> {"library", "none", "positive", "negative", "nonunate"}]

\* The types hold whenever the constants are the part at work (sim.rs:120, 219).
LEMMA SiTypes == Spec => [](reader = "sim" => Si!TypeOK)
<1>1. \A x, o : Si!SenseOf(x, o) \in {"library", "none", "positive", "negative", "nonunate"}
  BY DEF Si!SenseOf, Si!FunctionSense
<1>2. Init => (reader = "sim" => SenseTyped)
  BY DEF Init, Si!Init, SenseTyped
<1>3. (reader = "sim" => SenseTyped) /\ [Next]_vars => (reader = "sim" => SenseTyped)'
  <2>1. SUFFICES ASSUME reader = "sim" => SenseTyped, [Next]_vars, reader' = "sim"
                 PROVE  SenseTyped'
    OBVIOUS
  <2>2. SenseTyped /\ (Si!Next \/ UNCHANGED SiVars)
    BY <2>1, SiPart
  <2>3. CASE Si!FindDisabledEdges
    BY <1>1, <2>3 DEF Si!FindDisabledEdges, SenseTyped
  <2>4. CASE Si!Seed \/ Si!Seeded \/ Si!EvalInstance \/ Si!Propagated \/ UNCHANGED SiVars
    <3>1. UNCHANGED sense
      BY <2>4 DEF Si!Seed, Si!Seeded, Si!EvalInstance, Si!Propagated, SiVars
    <3> QED
      BY <2>2, <3>1 DEF SenseTyped
  <2> QED
    BY <2>2, <2>3, <2>4 DEF Si!Next
<1>4. (reader = "sim" => SimInv) /\ (reader = "sim" => SenseTyped) => (reader = "sim" => Si!TypeOK)
  <2>1. SUFFICES ASSUME SimInv, SenseTyped PROVE Si!TypeOK
    OBVIOUS
  <2>2. Si!State \in SimStates /\ Annotated(Si!State)
    BY <2>1 DEF SimInv, SaidState, Sane
  <2>3. /\ value \in [Si!Pins -> Si!Values] /\ queue \in Seq(SiInsts)
        /\ annotate \subseteq SiInsts /\ sim_warned \subseteq Si!Pins
        /\ \A k \in DOMAIN queue : queue[k] \in annotate
    BY <2>2 DEF SimStates, Annotated, Si!State
  <2> QED
    BY <2>1, <2>3 DEF SimInv, SenseTyped, Si!TypeOK, Si!Range
<1> QED
  BY <1>1, <1>2, <1>3, <1>4, SimAlways, PTL DEF Spec

-----------------------------------------------------------------------------
(* Types of the front end                                                  *)

\* Whichever part is at work, its variables keep their types: a file, a job, a netlist,
\* a pair of clocks, an invocation or a script takes it through no other values.
THEOREM PartTypes == Spec => []TypeOK
<1> DEFINE Known == reader \in Parts
<1>1. Init => Known
  BY ReadersAssumption DEF Init
<1>2. Known /\ [Next]_vars => Known'
  BY DEF Next, vars, DisStep, ChkStep, DelStep, ExcStep, LdStep, SiStep, CycStep, CmdStep, ScrStep
<1>3. /\ Known
      /\ reader = "disables" => Dis!TypeOK
      /\ reader = "data_checks" => Chk!TypeOK
      /\ reader = "port_delays" => Del!TypeOK
      /\ reader = "exceptions" => Exc!TypeOK
      /\ reader = "job" => Ld!TypeOK
      /\ reader = "sim" => Si!TypeOK
      /\ reader = "cycles" => Cyc!TypeOK
      /\ reader = "cli" => Cmd!TypeOK
      /\ reader = "script" => Scr!TypeOK
      => TypeOK
  BY DEF TypeOK, Parts
<1> QED
  BY <1>1, <1>2, <1>3, DisTypes, ChkTypes, PortTypes, ExcTypes, LdTypes, SiTypes, CycTypes,
     CmdTypes, ScrTypes, PTL DEF Spec
=============================================================================
