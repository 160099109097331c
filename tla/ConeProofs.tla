----------------------------- MODULE ConeProofs -----------------------------
(***************************************************************************)
(* Proofs about IncCone: the loads, for every netlist, library, set of     *)
(* clock pins and sequence of swaps; the arrivals and slews, for every     *)
(* netlist and library that keeps to what the fast path takes for granted. *)
(***************************************************************************)
EXTENDS IncCone, LeastNatural

-----------------------------------------------------------------------------
(* Sums over finite sets (SumFunction, as the code adds up pin by pin)     *)

\* The element a sum takes next.
Next1(s) == CHOOSE x \in s : TRUE

\* g is the running sum of f over the subsets of S.
Running(run, f, S) ==
  run = [s \in SUBSET S |-> IF s = {} THEN 0 ELSE f[Next1(s)] + run[s \ {Next1(s)}]]

\* A member of a set is taken from it.
LEMMA NextIn ==
  ASSUME NEW s, s # {}
  PROVE  Next1(s) \in s
BY DEF Next1

\* A finite set has a running sum over its subsets: over those of at most m elements,
\* for each m in turn.
LEMMA RunningExists ==
  ASSUME NEW S, IsFiniteSet(S), NEW f
  PROVE  \E g : Running(g, f, S)
<1> DEFINE Small(m) == {s \in SUBSET S : Cardinality(s) <= m}
           Rec(g, m) == g = [s \in Small(m) |->
                               IF s = {} THEN 0 ELSE f[Next1(s)] + g[s \ {Next1(s)}]]
           Has(m) == \E g : Rec(g, m)
<1>1. \A s \in SUBSET S : /\ IsFiniteSet(s) /\ Cardinality(s) \in Nat
                          /\ s # {} => s \ {Next1(s)} \in SUBSET S
                          /\ s # {} => Cardinality(s \ {Next1(s)}) = Cardinality(s) - 1
  <2> SUFFICES ASSUME NEW s \in SUBSET S
               PROVE  /\ IsFiniteSet(s) /\ Cardinality(s) \in Nat
                      /\ s # {} => Cardinality(s \ {Next1(s)}) = Cardinality(s) - 1
    OBVIOUS
  <2>1. IsFiniteSet(s) /\ Cardinality(s) \in Nat
    BY FS_Subset, FS_CardinalityType
  <2> QED
    BY <2>1, NextIn, FS_RemoveElement
<1>2. Has(0)
  <2>1. ASSUME NEW s \in Small(0) PROVE s = {}
    <3>1. IsFiniteSet(s) /\ Cardinality(s) \in Nat /\ Cardinality(s) <= 0
      BY <1>1, <2>1
    <3>2. Cardinality(s) = 0
      BY <3>1
    <3> QED
      BY <3>1, <3>2, FS_EmptySet
  <2>2. Rec([s \in Small(0) |-> 0], 0)
    <3> HIDE DEF Small
    <3> QED
      BY <2>1
  <2> QED
    BY <2>2
<1>3. ASSUME NEW m \in Nat, Has(m) PROVE Has(m + 1)
  <2>1. PICK g : Rec(g, m)
    BY <1>3
  <2> DEFINE h == [s \in Small(m + 1) |->
                     IF s \in Small(m) THEN g[s]
                     ELSE IF s = {} THEN 0 ELSE f[Next1(s)] + g[s \ {Next1(s)}]]
  <2>2. ASSUME NEW s \in Small(m + 1), s # {} PROVE s \ {Next1(s)} \in Small(m)
    BY <1>1, <2>2
  <2>3. Small(m) \subseteq Small(m + 1)
    <3> SUFFICES ASSUME NEW s \in SUBSET S, Cardinality(s) <= m PROVE Cardinality(s) <= m + 1
      OBVIOUS
    <3>1. Cardinality(s) \in Nat
      BY <1>1
    <3> QED
      BY <3>1
  <2> HIDE DEF Small
  <2>4. \A s \in Small(m) : g[s] = IF s = {} THEN 0 ELSE f[Next1(s)] + g[s \ {Next1(s)}]
    BY <2>1
  <2>5. \A s \in Small(m + 1) : h[s] = IF s \in Small(m) THEN g[s]
                                       ELSE IF s = {} THEN 0 ELSE f[Next1(s)] + g[s \ {Next1(s)}]
    OBVIOUS
  <2>6. h = [s \in Small(m + 1) |-> h[s]]
    OBVIOUS
  <2> HIDE DEF h
  <2>7. ASSUME NEW s \in Small(m + 1)
        PROVE  h[s] = IF s = {} THEN 0 ELSE f[Next1(s)] + h[s \ {Next1(s)}]
    <3>1. s # {} => h[s \ {Next1(s)}] = g[s \ {Next1(s)}]
      BY <2>2, <2>3, <2>5
    <3> QED
      BY <2>4, <2>5, <3>1
  <2>8. Rec(h, m + 1)
    BY <2>6, <2>7
  <2> QED
    BY <2>8
<1>4. \A m \in Nat : Has(m)
  <2> DEFINE Bad == {m \in Nat : ~Has(m)}
  <2> HIDE DEF Has
  <2>1. SUFFICES ASSUME Bad # {} PROVE FALSE
    OBVIOUS
  <2>2. PICK m \in Bad : \A y \in Bad : m <= y
    <3>1. Bad \in SUBSET Nat
      OBVIOUS
    <3> HIDE DEF Bad
    <3> QED
      BY <2>1, <3>1, LeastNat
  <2>3. m \in Nat /\ m # 0 /\ m - 1 \in Nat
    BY <1>2
  <2>4. Has(m - 1)
    BY <2>2, <2>3
  <2>5. Has(m - 1 + 1) /\ m - 1 + 1 = m
    BY <1>3, <2>3, <2>4
  <2> QED
    BY <2>5
<1>5. PICK n \in Nat : n = Cardinality(S)
  BY FS_CardinalityType
<1>6. Small(n) = SUBSET S
  <2>1. \A s \in SUBSET S : Cardinality(s) <= n
    BY <1>5, FS_Subset
  <2> QED
    BY <2>1
<1>7. PICK g : Rec(g, n)
  <2> HIDE DEF Rec
  <2> QED
    BY <1>4
<1> QED
  BY <1>6, <1>7 DEF Running

\* The sum over a finite set, of a function whose domain it is.
LEMMA SumIsRunning ==
  ASSUME NEW f, IsFiniteSet(DOMAIN f)
  PROVE  \E g : Running(g, f, DOMAIN f) /\ SumFunction(f) = g[DOMAIN f]
<1> DEFINE iter == CHOOSE g : Running(g, f, DOMAIN f)
<1>1. Running(iter, f, DOMAIN f)
  BY RunningExists
<1>2. SumFunction(f) = iter[DOMAIN f]
  BY DEF SumFunction, SumFunctionOnSet, FoldFunctionOnSet, MapThenFoldSet, Running, Next1
<1> QED
  BY <1>1, <1>2

\* Whichever element is taken last, run is the sum of the others and of it.
AnyNext(run, f, S) ==
  \A s \in SUBSET S : run[s] \in Int /\ \A x \in s : run[s] = f[x] + run[s \ {x}]

\* A running sum of integers is one, and is the same whichever element is added last.
LEMMA AnyOrder ==
  ASSUME NEW S, IsFiniteSet(S), NEW f \in [S -> Int], NEW g, Running(g, f, S)
  PROVE  AnyNext(g, f, S)
<1> DEFINE Good(s) == g[s] \in Int /\ \A x \in s : g[s] = f[x] + g[s \ {x}]
           U == {s \in SUBSET S : ~Good(s)}
<1>1. SUFFICES ASSUME U # {} PROVE FALSE
  BY DEF AnyNext
<1>2. U \in SUBSET (SUBSET S)
  OBVIOUS
<1>3. PICK X \in U : \A Y \in SUBSET X : Y # X => Y \notin U
  <2> HIDE DEF U
  <2> QED
    BY <1>1, <1>2, SmallestSet
<1>4. X \in SUBSET S /\ ~Good(X) /\ \A Y \in SUBSET X : Y \in SUBSET S /\ (Y # X => Good(Y))
  <2> HIDE DEF Good
  <2> QED
    BY <1>3
<1>5. \A s \in SUBSET S : g[s] = IF s = {} THEN 0 ELSE f[Next1(s)] + g[s \ {Next1(s)}]
  BY DEF Running
<1>6. X # {}
  <2>1. g[{}] = 0
    BY <1>5
  <2>2. Good({})
    BY <2>1
  <2> HIDE DEF Good
  <2> QED
    BY <1>4, <2>2
<1>7. PICK y \in X : g[X] = f[y] + g[X \ {y}]
  BY <1>4, <1>5, <1>6, NextIn
<1> DEFINE Less(x) == X \ {x}
<1>8. \A x \in X : /\ f[x] \in Int /\ Less(x) \in SUBSET S /\ Good(Less(x))
                  /\ \A z \in Less(x) : Less(x) \ {z} \in SUBSET S /\ Good(Less(x) \ {z})
  <2> SUFFICES ASSUME NEW x \in X
               PROVE  /\ f[x] \in Int /\ Less(x) \in SUBSET S /\ Good(Less(x))
                      /\ \A z \in Less(x) : Less(x) \ {z} \in SUBSET S /\ Good(Less(x) \ {z})
    OBVIOUS
  <2>1. f[x] \in Int /\ Less(x) \in SUBSET X /\ Less(x) # X
    BY <1>4
  <2>2. \A z \in Less(x) : Less(x) \ {z} \in SUBSET X /\ Less(x) \ {z} # X
    OBVIOUS
  <2> HIDE DEF Good, Less
  <2> QED
    BY <1>4, <2>1, <2>2
<1>9. g[Less(y)] \in Int /\ g[X] \in Int
  <2>1. f[y] \in Int /\ g[Less(y)] \in Int
    BY <1>8
  <2> QED
    BY <1>7, <2>1
<1>10. ASSUME NEW x \in X PROVE g[X] = f[x] + g[Less(x)]
  <2>1. CASE x = y
    BY <1>7, <2>1
  <2>2. CASE x # y
    <3>1. x \in Less(y) /\ y \in Less(x) /\ Less(y) \ {x} = Less(x) \ {y}
      BY <2>2
    <3>2. /\ f[x] \in Int /\ f[y] \in Int /\ g[Less(x)] \in Int
          /\ g[Less(y) \ {x}] \in Int
      BY <1>8, <3>1
    <3>3. g[Less(y)] = f[x] + g[Less(y) \ {x}]
      BY <1>8, <3>1
    <3>4. g[Less(x)] = f[y] + g[Less(x) \ {y}]
      BY <1>8, <3>1
    <3>5. g[X] = f[y] + g[Less(y)]
      BY <1>7
    <3> HIDE DEF Less
    <3>6. PICK r : r = g[Less(y) \ {x}]
      OBVIOUS
    <3>7. r \in Int /\ g[Less(y)] = f[x] + r /\ g[Less(x)] = f[y] + r
      BY <3>1, <3>2, <3>3, <3>4, <3>6
    <3>8. g[X] = f[y] + (f[x] + r)
      BY <3>5, <3>7
    <3>9. f[y] + (f[x] + r) = f[x] + (f[y] + r)
      BY <3>2, <3>7
    <3> QED
      BY <3>7, <3>8, <3>9
  <2> QED
    BY <2>1, <2>2
<1> QED
  BY <1>4, <1>9, <1>10

\* g sums f over the subsets of S, whichever element is taken next.
Sums(run, f, S) ==
  SumFunction(f) = run[S] /\ run[{}] = 0 /\ AnyNext(run, f, S)

\* A sum of integers is a running sum that takes any element next.
LEMMA SumInAnyOrder ==
  ASSUME NEW S, IsFiniteSet(S), NEW f \in [S -> Int]
  PROVE  \E g : Sums(g, f, S)
<1>1. DOMAIN f = S
  OBVIOUS
<1>2. PICK g : Running(g, f, S) /\ SumFunction(f) = g[S]
  BY <1>1, SumIsRunning
<1>3. AnyNext(g, f, S)
  BY <1>1, <1>2, AnyOrder
<1>4. g[{}] = 0
  BY <1>2 DEF Running
<1> QED
  BY <1>2, <1>3, <1>4 DEF Sums

\* k is f with h added on T.
Shifted(k, f, h, S, T) == \A x \in S : k[x] = f[x] + IF x \in T THEN h[x] ELSE 0

\* The whole moves by the sum of what its parts move by.
LEMMA SumMoves ==
  ASSUME NEW S, IsFiniteSet(S), NEW T \in SUBSET S,
         NEW f \in [S -> Int], NEW k \in [S -> Int], NEW h \in [T -> Int],
         Shifted(k, f, h, S, T)
  PROVE  /\ SumFunction(k) = SumFunction(f) + SumFunction(h)
         /\ SumFunction(k) \in Int /\ SumFunction(f) \in Int /\ SumFunction(h) \in Int
<1>0. \A x \in S : k[x] = f[x] + IF x \in T THEN h[x] ELSE 0
  BY DEF Shifted
<1>1. DOMAIN f = S /\ DOMAIN k = S /\ DOMAIN h = T /\ IsFiniteSet(T)
  BY FS_Subset
<1>5. h \in [T -> Int] /\ IsFiniteSet(T)
  BY <1>1
<1>6. PICK gf : Sums(gf, f, S)
  BY SumInAnyOrder
<1>9. PICK gk : Sums(gk, k, S)
  BY SumInAnyOrder
<1>10. PICK gh : Sums(gh, h, T)
  BY <1>5, SumInAnyOrder
<1>2. /\ SumFunction(f) = gf[S] /\ gf[{}] = 0
      /\ \A s \in SUBSET S : gf[s] \in Int /\ \A x \in s : gf[s] = f[x] + gf[s \ {x}]
  BY <1>6 DEF Sums, AnyNext
<1>3. /\ SumFunction(k) = gk[S] /\ gk[{}] = 0
      /\ \A s \in SUBSET S : gk[s] \in Int /\ \A x \in s : gk[s] = k[x] + gk[s \ {x}]
  BY <1>9 DEF Sums, AnyNext
<1>4. /\ SumFunction(h) = gh[T] /\ gh[{}] = 0
      /\ \A s \in SUBSET T : gh[s] \in Int /\ \A x \in s : gh[s] = h[x] + gh[s \ {x}]
  BY <1>10 DEF Sums, AnyNext
<1> DEFINE Good(s) == gk[s] = gf[s] + gh[s \cap T]
           U == {s \in SUBSET S : ~Good(s)}
<1>7. U = {}
  <2> SUFFICES ASSUME U # {} PROVE FALSE
    OBVIOUS
  <2>1. U \in SUBSET (SUBSET S)
    OBVIOUS
  <2>2. PICK X \in U : \A Y \in SUBSET X : Y # X => Y \notin U
    <3> HIDE DEF U
    <3> QED
      BY <2>1, SmallestSet
  <2>3. X \in SUBSET S /\ ~Good(X) /\ \A Y \in SUBSET X : Y \in SUBSET S /\ (Y # X => Good(Y))
    <3> HIDE DEF Good
    <3> QED
      BY <2>2
  <2>4. X # {}
    <3>1. {} \cap T = {}
      OBVIOUS
    <3>2. Good({})
      BY <1>2, <1>3, <1>4, <3>1
    <3> HIDE DEF Good
    <3> QED
      BY <2>3, <3>2
  <2>5. PICK x \in X : TRUE
    BY <2>4
  <2>6. /\ gk[X] = k[x] + gk[X \ {x}] /\ gf[X] = f[x] + gf[X \ {x}]
        /\ gk[X \ {x}] = gf[X \ {x}] + gh[(X \ {x}) \cap T]
        /\ k[x] \in Int /\ f[x] \in Int /\ gf[X \ {x}] \in Int
        /\ gh[(X \ {x}) \cap T] \in Int /\ k[x] = f[x] + IF x \in T THEN h[x] ELSE 0
    <3>1. /\ X \ {x} \in SUBSET S /\ (X \ {x}) \cap T \in SUBSET T /\ x \in S
          /\ Good(X \ {x})
      <4>1. X \ {x} \in SUBSET X /\ X \ {x} # X /\ x \in X
        BY <2>5
      <4>2. (X \ {x}) \cap T \in SUBSET T
        OBVIOUS
      <4> HIDE DEF Good
      <4> QED
        BY <2>3, <4>1, <4>2
    <3>2. gf[X \ {x}] \in Int /\ gh[(X \ {x}) \cap T] \in Int
      BY <1>2, <1>3, <1>4, <3>1
    <3>3. gk[X] = k[x] + gk[X \ {x}] /\ gf[X] = f[x] + gf[X \ {x}]
      BY <1>2, <1>3, <1>4, <2>3
    <3> QED
      BY <1>0, <2>3, <3>1, <3>2, <3>3
  <2>7. CASE x \in T
    <3>1. X \cap T \in SUBSET T /\ x \in X \cap T /\ (X \cap T) \ {x} = (X \ {x}) \cap T
      BY <2>7
    <3>2. gh[X \cap T] = h[x] + gh[(X \ {x}) \cap T] /\ h[x] \in Int
      <4>1. gh[X \cap T] = h[x] + gh[(X \cap T) \ {x}]
        BY <1>2, <1>3, <1>4, <3>1
      <4>2. h[x] \in Int
        BY <2>7
      <4> QED
        BY <3>1, <4>1, <4>2
    <3>3. gk[X] = gf[X] + gh[X \cap T]
      BY <2>6, <2>7, <3>2
    <3> QED
      BY <2>3, <3>3
  <2>8. CASE x \notin T
    <3>1. (X \ {x}) \cap T = X \cap T
      BY <2>8
    <3>2. PICK a \in Int, b \in Int, c \in Int :
            a = f[x] /\ b = gf[X \ {x}] /\ c = gh[X \cap T]
      BY <2>6, <3>1
    <3>3. gk[X] = (a + 0) + (b + c) /\ gf[X] = a + b
      BY <2>6, <2>8, <3>1, <3>2
    <3>4. gk[X] = gf[X] + c
      BY <3>3
    <3> QED
      BY <2>3, <3>2, <3>4
  <2> QED
    BY <2>7, <2>8
<1>8. S \in SUBSET S /\ T \in SUBSET T /\ S \cap T = T
  OBVIOUS
<1> QED
  BY <1>2, <1>3, <1>4, <1>7, <1>8

\* A sum of capacitances is not negative.
LEMMA SumNat ==
  ASSUME NEW S, IsFiniteSet(S), NEW f \in [S -> Nat]
  PROVE  SumFunction(f) \in Nat
<1>1. DOMAIN f = S /\ f \in [S -> Int]
  OBVIOUS
<1>2. PICK g : Sums(g, f, S)
  BY <1>1, SumInAnyOrder
<1>3. \A s \in SUBSET S : g[s] \in Int /\ \A x \in s : g[s] = f[x] + g[s \ {x}]
  BY <1>2 DEF Sums, AnyNext
<1>4. g[{}] = 0 /\ SumFunction(f) = g[S]
  BY <1>2 DEF Sums
<1> DEFINE U == {s \in SUBSET S : g[s] \notin Nat}
<1>5. U = {}
  <2> SUFFICES ASSUME U # {} PROVE FALSE
    OBVIOUS
  <2>1. U \in SUBSET (SUBSET S)
    OBVIOUS
  <2>2. PICK X \in U : \A Y \in SUBSET X : Y # X => Y \notin U
    <3> HIDE DEF U
    <3> QED
      BY <2>1, SmallestSet
  <2>3. PICK x \in X : TRUE
    BY <1>4
  <2>4. g[X \ {x}] \in Nat /\ f[x] \in Nat
    BY <2>2
  <2>5. g[X] = f[x] + g[X \ {x}]
    BY <1>3, <2>3
  <2> QED
    BY <2>4, <2>5
<1> QED
  BY <1>4, <1>5

-----------------------------------------------------------------------------
(* The loads                                                               *)

\* An assignment of cells to gates that the library holds.
IsNetlist(c) == \A g \in Gates : c[g] \in CellsOf(g)

\* The capacitances of the pins on u's net under c.
Caps(c, u) == [gp \in Sinks(u) |-> Lib[c[gp[1]]].cap[gp[2]]]

\* The pins on a net are finitely many, each of a gate.
LEMMA SinksFinite ==
  ASSUME NEW u
  PROVE  IsFiniteSet(Sinks(u)) /\ \A gp \in Sinks(u) : gp[1] \in Gates /\ gp[2] \in Pins(gp[1])
<1> DEFINE pinsOf == [g \in Gates |-> {g} \X Pins(g)]
           all == UNION {pinsOf[g] : g \in Gates}
<1>1. IsFiniteSet(Gates)
  <2>1. Order = [i \in DOMAIN Order |-> Order[i]]
    BY NetlistAssumption
  <2>2. IsFiniteSet(DOMAIN Order)
    BY NetlistAssumption, DomainFinite
  <2> QED
    BY <2>1, <2>2, ImageFinite DEF Gates
<1>2. \A g \in Gates : IsFiniteSet(pinsOf[g])
  <2> SUFFICES ASSUME NEW g \in Gates PROVE IsFiniteSet({g} \X Pins(g))
    OBVIOUS
  <2>1. IsFiniteSet(Pins(g))
    BY NetlistAssumption, DomainFinite DEF Pins
  <2> QED
    BY <2>1, FS_Singleton, FS_Product
<1>3. IsFiniteSet({pinsOf[g] : g \in Gates})
  <2>1. DOMAIN pinsOf = Gates /\ pinsOf = [g \in Gates |-> pinsOf[g]]
    OBVIOUS
  <2> HIDE DEF pinsOf
  <2> QED
    BY <1>1, <2>1, ImageFinite
<1>4. IsFiniteSet(all)
  BY <1>2, <1>3, FS_UNION
<1>5. Sinks(u) \subseteq all
  BY DEF Sinks
<1>6. \A gp \in all : gp[1] \in Gates /\ gp[2] \in Pins(gp[1])
  OBVIOUS
<1> QED
  BY <1>4, <1>5, <1>6, FS_Subset

\* Capacitances are not negative.
LEMMA CapsTyped ==
  ASSUME NEW c, IsNetlist(c), NEW u
  PROVE  Caps(c, u) \in [Sinks(u) -> Nat]
<1>1. ASSUME NEW gp \in Sinks(u) PROVE Lib[c[gp[1]]].cap[gp[2]] \in Nat
  <2>1. gp[1] \in Gates /\ gp[2] \in Pins(gp[1])
    BY SinksFinite
  <2>2. Lib[c[gp[1]]].cap \in [Pins(gp[1]) -> Nat]
    BY <2>1, NetlistAssumption DEF IsNetlist
  <2> QED
    BY <2>1, <2>2
<1> QED
  BY <1>1 DEF Caps

\* The loads of a netlist are whole numbers.
LEMMA LoadsTyped ==
  ASSUME NEW c, IsNetlist(c)
  PROVE  DOMAIN Loads(c) = Nodes /\ \A u \in Nodes : Loads(c)[u] = SumFunction(Caps(c, u)) /\ Loads(c)[u] \in Nat
BY CapsTyped, SinksFinite, SumNat DEF Loads, Caps

\* The loads of two netlists with the same cells are the same.
LEMMA LoadsAgree ==
  ASSUME NEW c, NEW d, \A g \in Gates : c[g] = d[g]
  PROVE  Loads(c) = Loads(d)
<1>1. ASSUME NEW u PROVE Caps(c, u) = Caps(d, u)
  BY SinksFinite DEF Caps
<1> QED
  BY <1>1 DEF Loads, Caps

\* The cells as of the last update: what is staged remembers its own.
Before == [g \in Gates |-> IF g \in Staged THEN old[g] ELSE cell[g]]

\* The cached loads are those of the last update's netlist.
CInv ==
  /\ DOMAIN cell = Gates /\ IsNetlist(cell) /\ IsNetlist(base)
  /\ Staged \subseteq Gates /\ IsNetlist(Before)
  /\ DOMAIN over \subseteq Gates
  /\ swaps \in 0 .. MaxSwaps
  /\ load = Loads(Before)

\* The differences of the swapped data pins make the loads of the netlist as it is,
\* because the clock pins' are unchanged or the fast path declines (try_update,
\* inc.rs:400).
LEMMA MovedLoadsExact ==
  ASSUME CInv, ~Declined
  PROVE  MovedLoads = Loads(cell)
<1>1. ASSUME NEW u \in Nodes PROVE MovedLoads[u] = Loads(cell)[u]
  <2> DEFINE S == Sinks(u)
             T == MovedSinks(u)
             f == Caps(Before, u)
             k == Caps(cell, u)
             h == [gp \in T |-> Lib[cell[gp[1]]].cap[gp[2]] - Lib[old[gp[1]]].cap[gp[2]]]
  <2>1. IsFiniteSet(S) /\ T \in SUBSET S /\ \A gp \in S : gp[1] \in Gates
    BY SinksFinite DEF MovedSinks
  <2>2. f \in [S -> Nat] /\ k \in [S -> Nat]
    BY CapsTyped DEF CInv
  <2>3. \A gp \in S : /\ f[gp] = Lib[Before[gp[1]]].cap[gp[2]]
                      /\ k[gp] = Lib[cell[gp[1]]].cap[gp[2]]
    BY DEF Caps
  <2>4. \A gp \in T : Before[gp[1]] = old[gp[1]]
    BY <2>1 DEF MovedSinks, Before
  <2>5. \A gp \in T : h[gp] = k[gp] - f[gp]
    BY <2>1, <2>3, <2>4
  <2>6. ASSUME NEW gp \in S, gp \notin T PROVE k[gp] = f[gp]
    <3>1. CASE gp[1] \notin Staged
      BY <2>1, <2>3, <2>6, <3>1 DEF Before
    <3>2. CASE gp[1] \in Staged
      <4>1. gp \in ClockPins
        BY <2>6, <3>2 DEF MovedSinks
      <4>2. Lib[cell[gp[1]]].cap[gp[2]] = Lib[old[gp[1]]].cap[gp[2]]
        BY <3>2, <4>1 DEF Declined
      <4> QED
        BY <2>1, <2>3, <2>6, <3>2, <4>2 DEF Before
    <3> QED
      BY <3>1, <3>2
  <2>7. MovedLoads[u] = load[u] + SumFunction(h)
    BY DEF MovedLoads
  <2>8. load[u] = SumFunction(f) /\ Loads(cell)[u] = SumFunction(k)
    BY LoadsTyped DEF CInv
  <2>9. DOMAIN h = T /\ h = [gp \in T |-> h[gp]]
    OBVIOUS
  <2> HIDE DEF S, T, f, k, h
  <2>10. f \in [S -> Int] /\ k \in [S -> Int] /\ h \in [T -> Int]
    <3>1. f \in [S -> Int] /\ k \in [S -> Int]
      BY <2>2
    <3>2. \A gp \in T : h[gp] \in Int
      BY <2>1, <2>5, <3>1
    <3> QED
      BY <2>9, <3>1, <3>2
  <2>11. \A gp \in S : k[gp] = f[gp] + IF gp \in T THEN h[gp] ELSE 0
    <3> SUFFICES ASSUME NEW gp \in S PROVE k[gp] = f[gp] + IF gp \in T THEN h[gp] ELSE 0
      OBVIOUS
    <3>1. k[gp] \in Int /\ f[gp] \in Int
      BY <2>10
    <3> QED
      BY <2>5, <2>6, <3>1
  <2>12. SumFunction(k) = SumFunction(f) + SumFunction(h)
    <3>1. Shifted(k, f, h, S, T)
      BY <2>11 DEF Shifted
    <3> QED
      BY <2>1, <2>10, <3>1, SumMoves
  <2> QED
    BY <2>7, <2>8, <2>12
<1>2. DOMAIN MovedLoads = Nodes /\ MovedLoads = [u \in Nodes |-> MovedLoads[u]]
  BY DEF MovedLoads
<1>3. DOMAIN Loads(cell) = Nodes /\ Loads(cell) = [u \in Nodes |-> Loads(cell)[u]]
  BY DEF Loads
<1> QED
  BY <1>1, <1>2, <1>3

\* A session begins with its netlist's loads (build_report's capture).
LEMMA InitC == Init => CInv
<1> SUFFICES ASSUME Init PROVE CInv
  OBVIOUS
<1>1. cell = InitCell /\ base = InitCell /\ Staged = {} /\ DOMAIN over = {}
      /\ load = Loads(InitCell) /\ swaps = 0
  BY DEF Init, EmptyFcn, Staged
<1>2. DOMAIN InitCell = Gates /\ \A g \in Gates : InitCell[g] \in CellsOf(g)
  BY NetlistAssumption DEF CellsOf
<1>3. \A g \in Gates : Before[g] = cell[g]
  BY <1>1 DEF Before
<1>4. load = Loads(Before)
  BY <1>1, <1>3, LoadsAgree
<1> QED
  BY <1>1, <1>2, <1>3, <1>4, NetlistAssumption DEF CInv, IsNetlist

\* Once nothing is staged, the netlist of the last update is the netlist.
LEMMA SettledC ==
  ASSUME CInv, old' = EmptyFcn, UNCHANGED <<cell, swaps>>, IsNetlist(base'),
         DOMAIN over' \subseteq Gates, load' = Loads(cell)
  PROVE  CInv'
<1>1. Staged' = {}
  BY DEF Staged, EmptyFcn
<1>2. \A g \in Gates : Before'[g] = cell[g]
  BY <1>1 DEF Before
<1>3. Loads(cell) = Loads(Before')
  BY <1>2, LoadsAgree
<1>4. Loads(Before)' = Loads(Before')
  BY DEF Loads, Sinks, Nodes, Gates, Pins
<1>5. IsNetlist(Before)' /\ IsNetlist(cell)'
  BY <1>2 DEF CInv, IsNetlist
<1> QED
  BY <1>1, <1>3, <1>4, <1>5 DEF CInv, IsNetlist

\* Staging a swap keeps the cells of the last update, however often a gate is swapped
\* (Timer::stage).
LEMMA SwapC ==
  ASSUME CInv, NEW g \in Gates, NEW c \in Swappable[g], Swap(g, c)
  PROVE  CInv'
<1>1. /\ swaps < MaxSwaps /\ swaps' = swaps + 1 /\ cell' = [cell EXCEPT ![g] = c]
      /\ old' = [h \in Staged \cup {g} |-> IF h \in Staged THEN old[h] ELSE cell[h]]
      /\ UNCHANGED <<base, over, load>>
  BY DEF Swap
<1>2. Staged' = Staged \cup {g} /\ Staged \subseteq Gates
  BY <1>1 DEF Staged, CInv
<1>3. DOMAIN cell' = Gates /\ \A h \in Gates : cell'[h] = IF h = g THEN c ELSE cell[h]
  BY <1>1 DEF CInv
<1>4. c \in CellsOf(g)
  BY DEF CellsOf
<1>5. \A h \in Gates : Before'[h] = Before[h]
  <2> SUFFICES ASSUME NEW h \in Gates PROVE Before'[h] = Before[h]
    OBVIOUS
  <2>1. Before'[h] = IF h \in Staged' THEN old'[h] ELSE cell'[h]
    BY DEF Before
  <2>2. Before[h] = IF h \in Staged THEN old[h] ELSE cell[h]
    BY DEF Before
  <2>3. h \in Staged \cup {g} => old'[h] = IF h \in Staged THEN old[h] ELSE cell[h]
    BY <1>1
  <2> QED
    BY <1>2, <1>3, <2>1, <2>2, <2>3
<1>6. Loads(Before) = Loads(Before') /\ Loads(Before)' = Loads(Before')
  <2>1. Loads(Before) = Loads(Before')
    BY <1>5, LoadsAgree
  <2> QED
    BY <2>1 DEF Loads, Sinks, Nodes, Gates, Pins
<1>7. swaps' \in 0 .. MaxSwaps
  BY <1>1, NetlistAssumption DEF CInv
<1>8. IsNetlist(cell)' /\ IsNetlist(base)' /\ IsNetlist(Before)'
  BY <1>1, <1>3, <1>4, <1>5 DEF CInv, IsNetlist
<1> QED
  BY <1>1, <1>2, <1>3, <1>6, <1>7, <1>8 DEF CInv

\* Every step keeps the invariant (try_update, inc.rs; Timer::update, sta.rs).
LEMMA NextC == CInv /\ [Next]_vars => CInv'
<1> SUFFICES ASSUME CInv, [Next]_vars PROVE CInv'
  OBVIOUS
<1>1. ASSUME NEW g \in Gates, NEW c \in Swappable[g], Swap(g, c) PROVE CInv'
  BY <1>1, SwapC
<1>2. CASE UpdateCone
  <2>1. ~Declined /\ load' = MovedLoads /\ over' = NewOver /\ old' = EmptyFcn
        /\ UNCHANGED <<cell, base, swaps>>
    BY <1>2 DEF UpdateCone
  <2>2. load' = Loads(cell)
    BY <2>1, MovedLoadsExact
  <2>3. DOMAIN over' \subseteq Gates /\ IsNetlist(base')
    BY <2>1 DEF NewOver, CInv
  <2> QED
    BY <2>1, <2>2, <2>3, SettledC
<1>3. CASE UpdateFull
  <2>1. base' = cell /\ over' = EmptyFcn /\ load' = Loads(cell) /\ old' = EmptyFcn
        /\ UNCHANGED <<cell, swaps>>
    BY <1>3 DEF UpdateFull
  <2>2. DOMAIN over' \subseteq Gates /\ IsNetlist(base')
    BY <2>1 DEF EmptyFcn, CInv
  <2> QED
    BY <2>1, <2>2, SettledC
<1>4. CASE UNCHANGED vars
  <2>1. UNCHANGED <<cell, old, base, over, load, swaps>>
    BY <1>4 DEF vars
  <2> QED
    BY <2>1 DEF CInv, IsNetlist, Before, Staged, Loads, Sinks
<1> QED
  BY <1>1, <1>2, <1>3, <1>4 DEF Next

-----------------------------------------------------------------------------
(* Walks over the topological order                                        *)

\* h takes x through the steps 1 to n, each a function of its number and of what it finds.
WalkOf(h, n, op, x) == h = [i \in 0 .. n |-> IF i = 0 THEN x ELSE op[<<i, h[i - 1]>>]]

\* There are such walks, and they stay in V if each step does.
LEMMA WalkExists ==
  ASSUME NEW n \in Nat, NEW V, NEW x \in V, NEW op,
         \A i \in 1 .. n : \A y \in V : op[<<i, y>>] \in V
  PROVE  \E h : WalkOf(h, n, op, x)
<1> DEFINE Has(m) == \E g : WalkOf(g, m, op, x)
<1>1. Has(0)
  <2>1. [i \in 0 .. 0 |-> x] = [i \in 0 .. 0 |-> IF i = 0 THEN x ELSE op[<<i, [j \in 0 .. 0 |-> x][i - 1]>>]]
    OBVIOUS
  <2> QED
    BY <2>1 DEF WalkOf
<1>2. ASSUME NEW m \in Nat, Has(m) PROVE Has(m + 1)
  <2>1. PICK g : WalkOf(g, m, op, x)
    BY <1>2
  <2> DEFINE h == [i \in 0 .. m + 1 |-> IF i <= m THEN g[i] ELSE op[<<i, g[i - 1]>>]]
  <2>2. \A i \in 0 .. m : g[i] = IF i = 0 THEN x ELSE op[<<i, g[i - 1]>>]
    BY <2>1 DEF WalkOf
  <2>3. \A i \in 0 .. m + 1 : h[i] = IF i <= m THEN g[i] ELSE op[<<i, g[i - 1]>>]
    OBVIOUS
  <2>4. h = [i \in 0 .. m + 1 |-> h[i]]
    OBVIOUS
  <2> HIDE DEF h
  <2>5. ASSUME NEW i \in 0 .. m + 1 PROVE h[i] = IF i = 0 THEN x ELSE op[<<i, h[i - 1]>>]
    <3>1. i # 0 => i - 1 \in 0 .. m + 1 /\ i - 1 <= m
      OBVIOUS
    <3>2. i # 0 => h[i - 1] = g[i - 1]
      BY <3>1, <2>3
    <3>3. CASE i <= m
      <4>1. i \in 0 .. m
        BY <3>3
      <4> QED
        BY <2>2, <2>3, <3>2, <3>3, <4>1
    <3>4. CASE ~(i <= m)
      <4>1. i # 0
        BY <3>4
      <4> QED
        BY <2>3, <3>2, <3>4, <4>1
    <3> QED
      BY <3>3, <3>4
  <2>6. WalkOf(h, m + 1, op, x)
    BY <2>4, <2>5 DEF WalkOf
  <2> QED
    BY <2>6
<1>3. \A m \in Nat : Has(m)
  <2> DEFINE Bad == {m \in Nat : ~Has(m)}
  <2> HIDE DEF Has
  <2>1. SUFFICES ASSUME Bad # {} PROVE FALSE
    OBVIOUS
  <2>2. PICK m \in Bad : \A y \in Bad : m <= y
    <3>1. Bad \in SUBSET Nat
      OBVIOUS
    <3> HIDE DEF Bad
    <3> QED
      BY <2>1, <3>1, LeastNat
  <2>3. m \in Nat /\ m # 0 /\ m - 1 \in Nat
    BY <1>1
  <2>4. Has(m - 1)
    BY <2>2, <2>3
  <2>5. Has(m - 1 + 1) /\ m - 1 + 1 = m
    BY <1>2, <2>3, <2>4
  <2> QED
    BY <2>5
<1> QED
  BY <1>3

\* A walk, step by step.
LEMMA WalkSteps ==
  ASSUME NEW n \in Nat, NEW op, NEW x, NEW h, WalkOf(h, n, op, x)
  PROVE  h[0] = x /\ \A i \in 1 .. n : h[i] = op[<<i, h[i - 1]>>]
<1>1. \A i \in 0 .. n : h[i] = IF i = 0 THEN x ELSE op[<<i, h[i - 1]>>]
  BY DEF WalkOf
<1>2. 0 \in 0 .. n /\ \A i \in 1 .. n : i \in 0 .. n /\ i # 0
  OBVIOUS
<1> QED
  BY <1>1, <1>2

\* What one step keeps, every step does.
LEMMA WalkStays ==
  ASSUME NEW n \in Nat, NEW V, NEW h, h[0] \in V,
         \A i \in 1 .. n : h[i - 1] \in V => h[i] \in V
  PROVE  \A i \in 0 .. n : h[i] \in V
<1> DEFINE Bad == {i \in Nat : i <= n /\ h[i] \notin V}
<1>1. SUFFICES ASSUME Bad # {} PROVE FALSE
  OBVIOUS
<1>2. PICK m \in Bad : \A y \in Bad : m <= y
  <2>1. Bad \in SUBSET Nat
    OBVIOUS
  <2> HIDE DEF Bad
  <2> QED
    BY <1>1, <2>1, LeastNat
<1>3. m # 0 /\ m - 1 \in Nat /\ m - 1 <= n /\ m \in 1 .. n
  OBVIOUS
<1>4. h[m - 1] \in V
  BY <1>2, <1>3
<1> QED
  BY <1>3, <1>4

\* h visits the gates in order, and a visit changes nothing but the gate.
Visits(h) ==
  \A i \in 1 .. Len(Order) : \A u \in Nodes : u # Order[i] => h[i][u] = h[i - 1][u]

\* Where a gate stands in the order, and that its inputs stand before it.
LEMMA OrderFacts ==
  /\ Len(Order) \in Nat /\ DOMAIN Order = 1 .. Len(Order)
  /\ \A g \in Gates : \E k \in 1 .. Len(Order) : g = Order[k]
  /\ \A k \in 1 .. Len(Order) : Order[k] \in Gates /\ Order[k] \in Nodes /\ Order[k] \notin Ports
  /\ \A i, j \in 1 .. Len(Order) : Order[i] = Order[j] => i = j
  /\ \A k \in 1 .. Len(Order) : \A p \in Pins(Order[k]) :
       /\ Fanin[Order[k]][p] \in Nodes
       /\ \A i \in k .. Len(Order) : Fanin[Order[k]][p] # Order[i]
<1>1. Len(Order) \in Nat /\ DOMAIN Order = 1 .. Len(Order)
  BY NetlistAssumption
<1>2. \A i, j \in 1 .. Len(Order) : Order[i] = Order[j] => i = j
  BY <1>1, NetlistAssumption
<1>3. \A k \in 1 .. Len(Order) : Order[k] \in Gates /\ Order[k] \in Nodes /\ Order[k] \notin Ports
  BY <1>1, NetlistAssumption DEF Gates, Nodes
<1>4. ASSUME NEW k \in 1 .. Len(Order), NEW p \in Pins(Order[k])
      PROVE  /\ Fanin[Order[k]][p] \in Nodes
             /\ \A i \in k .. Len(Order) : Fanin[Order[k]][p] # Order[i]
  <2>1. Fanin[Order[k]][p] \in Ports \cup {Order[j] : j \in 1 .. k - 1}
    BY <1>1, NetlistAssumption
  <2>2. CASE Fanin[Order[k]][p] \in Ports
    <3>1. \A i \in k .. Len(Order) : Order[i] \notin Ports
      BY <1>1, <1>3
    <3> QED
      BY <2>2, <3>1 DEF Nodes
  <2>3. CASE Fanin[Order[k]][p] \in {Order[j] : j \in 1 .. k - 1}
    <3>1. PICK j \in 1 .. k - 1 : Fanin[Order[k]][p] = Order[j]
      BY <2>3
    <3>2. j \in 1 .. Len(Order) /\ \A i \in k .. Len(Order) : i \in 1 .. Len(Order) /\ i # j
      BY <1>1
    <3> QED
      BY <1>2, <1>3, <3>1, <3>2
  <2> QED
    BY <2>1, <2>2, <2>3
<1>5. \A g \in Gates : \E k \in 1 .. Len(Order) : g = Order[k]
  BY <1>1 DEF Gates
<1> QED
  BY <1>1, <1>2, <1>3, <1>4, <1>5

\* A node the walk does not visit after step k keeps what it has there.
LEMMA NotVisited ==
  ASSUME NEW h, Visits(h), NEW k \in 0 .. Len(Order), NEW u \in Nodes,
         \A i \in k + 1 .. Len(Order) : u # Order[i]
  PROVE  h[Len(Order)][u] = h[k][u]
<1> DEFINE n == Len(Order)
           Bad == {i \in Nat : k <= i /\ i <= n /\ h[i][u] # h[k][u]}
<1>1. n \in Nat /\ k \in Nat
  BY OrderFacts
<1>2. SUFFICES ASSUME Bad # {} PROVE FALSE
  BY <1>1
<1>3. PICK m \in Bad : \A y \in Bad : m <= y
  <2>1. Bad \in SUBSET Nat
    OBVIOUS
  <2> HIDE DEF Bad
  <2> QED
    BY <1>2, <2>1, LeastNat
<1>4. m # k /\ m - 1 \in Nat /\ m - 1 >= k /\ m - 1 <= n /\ m \in k + 1 .. n /\ m \in 1 .. n
  BY <1>1
<1>5. h[m - 1][u] = h[k][u]
  <2>1. m - 1 \notin Bad
    BY <1>1, <1>3, <1>4
  <2> QED
    BY <1>4, <2>1
<1>6. h[m][u] = h[m - 1][u]
  BY <1>4 DEF Visits
<1> QED
  BY <1>5, <1>6

\* At the end a port is as it was, a gate as its visit left it, and that visit found its
\* inputs as they are at the end.
LEMMA VisitsSettle ==
  ASSUME NEW h, Visits(h)
  PROVE  /\ \A u \in Ports : h[Len(Order)][u] = h[0][u]
         /\ \A k \in 1 .. Len(Order) :
              /\ h[Len(Order)][Order[k]] = h[k][Order[k]]
              /\ h[k - 1][Order[k]] = h[0][Order[k]]
              /\ \A p \in Pins(Order[k]) :
                   h[Len(Order)][Fanin[Order[k]][p]] = h[k - 1][Fanin[Order[k]][p]]
<1> DEFINE n == Len(Order)
<1>1. n \in Nat
  BY OrderFacts
<1>2. ASSUME NEW u \in Ports PROVE h[n][u] = h[0][u]
  <2>1. u \in Nodes /\ \A i \in 0 + 1 .. n : u # Order[i]
    BY OrderFacts DEF Nodes
  <2> QED
    BY <1>1, <2>1, NotVisited
<1>3. ASSUME NEW k \in 1 .. n
      PROVE  /\ h[n][Order[k]] = h[k][Order[k]]
             /\ \A p \in Pins(Order[k]) : h[n][Fanin[Order[k]][p]] = h[k - 1][Fanin[Order[k]][p]]
  <2>1. h[n][Order[k]] = h[k][Order[k]]
    <3>1. k \in 0 .. n /\ Order[k] \in Nodes /\ \A i \in k + 1 .. n : i \in 1 .. n /\ i # k
      BY <1>1, OrderFacts
    <3>2. \A i \in k + 1 .. n : Order[k] # Order[i]
      BY <3>1, OrderFacts
    <3> QED
      BY <3>1, <3>2, NotVisited
  <2>2. ASSUME NEW p \in Pins(Order[k])
        PROVE  h[n][Fanin[Order[k]][p]] = h[k - 1][Fanin[Order[k]][p]]
    <3>1. k - 1 \in 0 .. n /\ k - 1 + 1 = k
      BY <1>1
    <3>2. Fanin[Order[k]][p] \in Nodes /\ \A i \in k - 1 + 1 .. n : Fanin[Order[k]][p] # Order[i]
      BY <3>1, OrderFacts
    <3> QED
      BY <3>1, <3>2, NotVisited
  <2> QED
    BY <2>1, <2>2
<1>4. ASSUME NEW k \in 1 .. n PROVE h[k - 1][Order[k]] = h[0][Order[k]]
  <2> DEFINE V == {m \in 0 .. n : m < k => h[m][Order[k]] = h[0][Order[k]]}
             same == [m \in 0 .. n |-> m]
  <2>1. same[0] \in V /\ \A i \in 1 .. n : same[i - 1] \in V => same[i] \in V
    <3>1. same[0] \in V
      BY <1>1
    <3>2. ASSUME NEW i \in 1 .. n, i - 1 \in V PROVE i \in V
      <4>1. i < k => h[i][Order[k]] = h[i - 1][Order[k]]
        <5>1. i < k => Order[k] # Order[i] /\ Order[k] \in Nodes
          BY <1>1, OrderFacts
        <5> QED
          BY <5>1 DEF Visits
      <4> QED
        BY <1>1, <3>2, <4>1
    <3> QED
      BY <1>1, <3>1, <3>2
  <2>2. \A i \in 0 .. n : same[i] \in V
    <3> HIDE DEF V, same
    <3> QED
      BY <1>1, <2>1, WalkStays
  <2>3. k - 1 \in 0 .. n /\ k - 1 < k
    BY <1>1
  <2> QED
    BY <2>2, <2>3
<1> QED
  BY <1>2, <1>3, <1>4

-----------------------------------------------------------------------------
(* One gate                                                                *)

\* A lane has a slew just when something arrives on it; the lanes of every node; and what a
\* job may give the ports.
Lane == {x \in [arr : Int \cup {Never}, slew : Int \cup {NoSlew}] : x.arr = Never <=> x.slew = NoSlew}
LaneSet == [Nodes -> [Edges -> Lane]]
PortGiven == [arr : [Edges -> Int \cup {Never}], slew : Int]

\* The tables, the factors and the ports' arrivals are whole numbers.
Numbers ==
  /\ Never \notin Int /\ NoSlew \notin Int
  /\ Derate \in [Analyses -> Int] /\ IdealSlew \in [Edges -> Int]
  /\ \A x \in Arc : \A s \in Int : \A ld \in Nat : DelayOf(x, s, ld) \in Int /\ SlewOf(x, s, ld) \in Int
  /\ \A ld \in Nat : DriveDelay(ld) \in Int /\ DriveSlew(ld) \in Int
  /\ \A u \in Ports : PortSeeds[u] \subseteq PortGiven

\* Where several arcs drive an output edge, its slew does not depend on which one does.
SlewsAgree ==
  \A g \in Gates : \A c \in CellsOf(g) : \A ol \in Edges : \A x, y \in Enabled(g, c, ol) :
    x = y \/ \A s \in Int : \A t \in Int : \A ld \in Nat : SlewOf(x, s, ld) = SlewOf(y, t, ld)

\* What arrives at a gate: finitely many arrivals and slews.
Arrivals(S) ==
  IsFiniteSet(S) /\ \A x \in S : x.at \in Int /\ x.slew \in Int /\ x.rank \in Nat

\* Arcs of gate g.
ArcsAt(g, arcs) == IsFiniteSet(arcs) /\ \A x \in arcs : x \in Arc /\ x.pin \in Pins(g)

\* Lanes of gate g's pins.
PinsOf(g) == [Pins(g) -> [Edges -> Lane]]

\* The arcs for an output edge whose inputs have a slew.
Loud(ol, arcs, In) == {x \in arcs : x.ol = ol /\ In[x.pin][x.il].slew # NoSlew}

LEMMA ArrivingIs ==
  ASSUME NEW an, NEW ol, NEW arcs, NEW In, NEW ld, NEW ideal
  PROVE  Arriving(an, ol, arcs, In, ld, ideal) =
           {Brought(an, x, In[x.pin][x.il], ld, ideal) : x \in Loud(ol, arcs, In)}
BY DEF Arriving, Loud

\* Arcs of whole numbers bring whole numbers.
LEMMA ArrivingTyped ==
  ASSUME Numbers, NEW an \in Analyses, NEW g \in Gates, NEW ol \in Edges, NEW arcs, ArcsAt(g, arcs),
         NEW In \in PinsOf(g), NEW ld \in Nat, NEW ideal \in BOOLEAN
  PROVE  Arrivals(Arriving(an, ol, arcs, In, ld, ideal))
<1> DEFINE R == Loud(ol, arcs, In)
           f == [x \in R |-> Brought(an, x, In[x.pin][x.il], ld, ideal)]
<1>1. IsFiniteSet(R)
  BY FS_Subset DEF Loud, ArcsAt
<1>2. Arriving(an, ol, arcs, In, ld, ideal) = {f[x] : x \in R}
  BY ArrivingIs
<1>3. IsFiniteSet({f[x] : x \in R})
  <2>1. f = [x \in R |-> f[x]]
    OBVIOUS
  <2> HIDE DEF f, R
  <2> QED
    BY <1>1, <2>1, ImageFinite
<1>4. ASSUME NEW x \in R PROVE f[x].at \in Int /\ f[x].slew \in Int /\ f[x].rank \in Nat
  <2>1. x \in Arc /\ x.pin \in Pins(g) /\ x.pin \in Nat /\ x.il \in Edges /\ x.il \in Nat /\ x.ol = ol
    BY DEF Loud, ArcsAt, Arc, Edges
  <2>2. In[x.pin][x.il] \in Lane /\ In[x.pin][x.il].slew # NoSlew
    BY <2>1 DEF Loud, PinsOf
  <2> DEFINE a == In[x.pin][x.il].arr
             s == In[x.pin][x.il].slew
             d == DelayOf(x, s, ld)
  <2>3. a \in Int /\ s \in Int /\ a # Never
    BY <2>2 DEF Lane, Numbers
  <2>4. d \in Int /\ SlewOf(x, s, ld) \in Int /\ Derate[an] \in Int /\ IdealSlew[ol] \in Int
    <3> HIDE DEF s
    <3> QED
      BY <2>1, <2>3 DEF Numbers
  <2>5. /\ f[x].at = IF ideal THEN a ELSE a + Derate[an] * d
        /\ f[x].slew = IF ideal THEN IdealSlew[ol] ELSE SlewOf(x, s, ld)
        /\ f[x].rank = 2 * x.pin + x.il
    BY <2>1, <2>3 DEF Brought, Later
  <2> HIDE DEF a, s, d, f
  <2>6. Derate[an] * d \in Int
    BY <2>4
  <2> QED
    BY <2>1, <2>3, <2>4, <2>5, <2>6
<1> QED
  BY <1>2, <1>3, <1>4 DEF Arrivals

\* The worst of finitely many numbers is one of them.
LEMMA WorstIn ==
  ASSUME NEW an, NEW S \in SUBSET Int, IsFiniteSet(S), S # {}
  PROVE  Worst(an, S) \in S
<1>1. CASE an = "late"
  <2>1. \E x \in S : \A y \in S : x >= y
    BY GreatestOfFinite
  <2> QED
    BY <1>1, <2>1 DEF Worst, Max
<1>2. CASE an # "late"
  <2>1. \E x \in S : \A y \in S : x <= y
    BY LeastOfFinite
  <2> QED
    BY <1>2, <2>1 DEF Worst, Min
<1> QED
  BY <1>1, <1>2

\* The arrivals and the slews of what arrives are finitely many numbers.
LEMMA ArrivalParts ==
  ASSUME NEW S, Arrivals(S), S # {}
  PROVE  /\ IsFiniteSet({x.at : x \in S}) /\ {x.at : x \in S} \in SUBSET Int /\ {x.at : x \in S} # {}
         /\ IsFiniteSet({x.slew : x \in S}) /\ {x.slew : x \in S} \in SUBSET Int /\ {x.slew : x \in S} # {}
<1>1. IsFiniteSet({x.at : x \in S})
  <2> DEFINE f == [x \in S |-> x.at]
  <2>1. f = [x \in S |-> f[x]] /\ {x.at : x \in S} = {f[x] : x \in S}
    OBVIOUS
  <2>2. DOMAIN f = S /\ IsFiniteSet(S)
    BY DEF Arrivals
  <2> HIDE DEF f
  <2>3. IsFiniteSet({f[x] : x \in S})
    BY <2>1, <2>2, ImageFinite
  <2> QED
    BY <2>1, <2>3
<1>2. IsFiniteSet({x.slew : x \in S})
  <2> DEFINE f == [x \in S |-> x.slew]
  <2>1. f = [x \in S |-> f[x]] /\ {x.slew : x \in S} = {f[x] : x \in S}
    OBVIOUS
  <2>2. DOMAIN f = S /\ IsFiniteSet(S)
    BY DEF Arrivals
  <2> HIDE DEF f
  <2>3. IsFiniteSet({f[x] : x \in S})
    BY <2>1, <2>2, ImageFinite
  <2> QED
    BY <2>1, <2>3
<1>3. \A x \in S : x.at \in Int /\ x.slew \in Int
  BY DEF Arrivals
<1>4. {x.at : x \in S} \in SUBSET Int /\ {x.slew : x \in S} \in SUBSET Int
  BY <1>3
<1>5. {x.at : x \in S} # {} /\ {x.slew : x \in S} # {}
  OBVIOUS
<1> QED
  BY <1>1, <1>2, <1>4, <1>5

\* All that arrives has arrived.
LEMMA AllArrived ==
  ASSUME Numbers, NEW S, Arrivals(S)
  PROVE  Arrived(S) = S
BY DEF Arrived, Arrivals, Numbers

\* What is merged is a lane.
LEMMA MergedTyped ==
  ASSUME Numbers, NEW an, NEW S, Arrivals(S)
  PROVE  Merged(an, S) \in Lane
<1>1. CASE S = {}
  BY <1>1 DEF Merged, Silent, Lane
<1>2. CASE S # {}
  <2>1. Worst(an, {x.at : x \in S}) \in Int /\ Worst(an, {x.slew : x \in S}) \in Int
    BY <1>2, ArrivalParts, WorstIn
  <2>2. Merged(an, S) = [arr |-> Worst(an, {x.at : x \in S}), slew |-> Worst(an, {x.slew : x \in S})]
    BY <1>2, AllArrived DEF Merged
  <2>3. \A a, t \in Int : [arr |-> a, slew |-> t] \in Lane
    BY DEF Lane, Numbers
  <2> QED
    BY <2>1, <2>2, <2>3
<1> QED
  BY <1>1, <1>2

\* There is a first arrival among the worst, and the fast path takes it.
LEMMA WinnerIs ==
  ASSUME Numbers, NEW an, NEW S, Arrivals(S), S # {}
  PROVE  \E e \in S : /\ e.at = Worst(an, {x.at : x \in S})
                      /\ Winner(an, S) = [arr |-> e.at, slew |-> e.slew]
<1> DEFINE W == Worst(an, {x.at : x \in S})
           First(x) == x.at = W /\ \A y \in S : y.at = x.at => x.rank <= y.rank
           ranks == {x.rank : x \in {y \in S : y.at = W}}
<1>1. W \in {x.at : x \in S}
  BY ArrivalParts, WorstIn
<1>2. ranks \in SUBSET Nat /\ ranks # {}
  <2> HIDE DEF W
  <2> QED
    BY <1>1 DEF Arrivals
<1>3. PICK r \in ranks : \A q \in ranks : r <= q
  <2> HIDE DEF ranks
  <2> QED
    BY <1>2, LeastNat
<1>4. PICK x \in S : First(x)
  <2> HIDE DEF W
  <2> QED
    BY <1>3
<1> DEFINE e == CHOOSE y \in S : First(y)
<1>5. e \in S /\ First(e)
  <2> HIDE DEF First
  <2> QED
    BY <1>4
<1>6. Winner(an, S) = [arr |-> e.at, slew |-> e.slew]
  BY AllArrived DEF Winner
<1> HIDE DEF e
<1> QED
  BY <1>5, <1>6

\* One arc's arrival and slew are the worst of each on its own, if the slew is the same
\* whichever arc it is taken from.
LEMMA WinnerIsMerged ==
  ASSUME Numbers, NEW an, NEW S, Arrivals(S), \A x, y \in S : x.slew = y.slew
  PROVE  Winner(an, S) = Merged(an, S) /\ Winner(an, S) \in Lane
<1>0. Arrived(S) = S
  BY AllArrived
<1>1. CASE S = {}
  BY <1>0, <1>1 DEF Winner, Merged, Silent, Lane
<1>2. CASE S # {}
  <2>1. PICK e \in S : /\ e.at = Worst(an, {x.at : x \in S})
                       /\ Winner(an, S) = [arr |-> e.at, slew |-> e.slew]
    BY <1>2, WinnerIs
  <2>2. {x.slew : x \in S} = {e.slew}
    BY <2>1
  <2>3. Worst(an, {x.slew : x \in S}) = e.slew
    BY <1>2, <2>2, ArrivalParts, WorstIn
  <2>4. Merged(an, S) = [arr |-> Worst(an, {x.at : x \in S}), slew |-> Worst(an, {x.slew : x \in S})]
    BY <1>0, <1>2 DEF Merged
  <2>5. Winner(an, S) = Merged(an, S)
    BY <2>1, <2>3, <2>4
  <2> QED
    BY <2>5, MergedTyped
<1> QED
  BY <1>1, <1>2

\* What arrives depends on the arcs' own pins only.
LEMMA ArrivingLocal ==
  ASSUME NEW an, NEW ol, NEW arcs, NEW In, NEW On, NEW ld, NEW ideal,
         \A x \in arcs : In[x.pin] = On[x.pin]
  PROVE  Arriving(an, ol, arcs, In, ld, ideal) = Arriving(an, ol, arcs, On, ld, ideal)
<1>1. Loud(ol, arcs, In) = Loud(ol, arcs, On)
  BY DEF Loud
<1>2. \A x \in Loud(ol, arcs, In) : In[x.pin] = On[x.pin]
  BY DEF Loud
<1>3. {Brought(an, x, In[x.pin][x.il], ld, ideal) : x \in Loud(ol, arcs, In)}
        = {Brought(an, x, On[x.pin][x.il], ld, ideal) : x \in Loud(ol, arcs, On)}
  BY <1>1, <1>2
<1> QED
  BY <1>3, ArrivingIs

-----------------------------------------------------------------------------
(* Forward walks over the gates                                            *)

\* Pins of the gates.
PinSets(pins) == \A g \in Gates : pins[g] \subseteq Pins(g)

\* f walks forward from the nodes S.
FloodWalk(f, S, pins) ==
  f = [i \in 0 .. Len(Order) |-> IF i = 0 THEN S ELSE Reach(f[i - 1], Order[i], pins)]

\* A visit adds a gate or nothing.
LEMMA ReachIs ==
  ASSUME NEW C \in SUBSET Nodes, NEW g \in Gates, NEW pins
  PROVE  /\ Reach(C, g, pins) \in SUBSET Nodes
         /\ \A u : u # g => (u \in Reach(C, g, pins) <=> u \in C)
         /\ g \in Reach(C, g, pins) <=> g \in C \/ \E p \in pins[g] : Fanin[g][p] \in C
<1>1. CASE \E p \in pins[g] : Fanin[g][p] \in C
  BY <1>1 DEF Reach, Nodes
<1>2. CASE ~\E p \in pins[g] : Fanin[g][p] \in C
  BY <1>2 DEF Reach
<1> QED
  BY <1>1, <1>2

LEMMA ReachStays ==
  ASSUME NEW pins
  PROVE  \A C \in SUBSET Nodes : \A g \in Gates : Reach(C, g, pins) \in SUBSET Nodes
BY ReachIs

\* A set that holds S and the gates a pin leads to from it, and nothing else.
Closed(F, S, pins) ==
  /\ S \subseteq F /\ F \subseteq Nodes
  /\ \A u \in Ports : u \in F => u \in S
  /\ \A g \in Gates : g \in F <=> g \in S \/ \E p \in pins[g] : Fanin[g][p] \in F

\* The walk finds it: each gate is visited once, after its inputs.
LEMMA FloodIs ==
  ASSUME NEW S \in SUBSET Nodes, NEW pins, PinSets(pins)
  PROVE  Closed(Flood(S, pins), S, pins)
<1> DEFINE n == Len(Order)
           V == SUBSET Nodes
           op == [q \in (1 .. n) \X V |-> Reach(q[2], Order[q[1]], pins)]
<1>1. n \in Nat /\ S \in V /\ \A k \in 1 .. n : Order[k] \in Gates
  BY OrderFacts
<1>2. ASSUME NEW i \in 1 .. n, NEW y \in V
      PROVE  op[<<i, y>>] = Reach(y, Order[i], pins) /\ op[<<i, y>>] \in V
  <2>1. op[<<i, y>>] = Reach(y, Order[i], pins)
    OBVIOUS
  <2>2. Reach(y, Order[i], pins) \in V
    <3>1. y \in SUBSET Nodes /\ Order[i] \in Gates
      BY <1>1
    <3> QED
      BY <3>1, ReachStays DEF V
  <2> HIDE DEF op
  <2> QED
    BY <2>1, <2>2
<1> HIDE DEF op, V
<1>3. PICK h : WalkOf(h, n, op, S)
  BY <1>1, <1>2, WalkExists
<1>4. h[0] = S /\ \A i \in 1 .. n : h[i] = op[<<i, h[i - 1]>>]
  BY <1>1, <1>3, WalkSteps
<1>5. \A i \in 0 .. n : h[i] \in V
  <2>1. \A i \in 1 .. n : h[i - 1] \in V => h[i] \in V
    BY <1>2, <1>4
  <2>2. h[0] \in V
    BY <1>1, <1>4
  <2> QED
    BY <1>1, <2>1, <2>2, WalkStays
<1>6. FloodWalk(h, S, pins)
  <2>1. ASSUME NEW i \in 0 .. n PROVE h[i] = IF i = 0 THEN S ELSE Reach(h[i - 1], Order[i], pins)
    <3>1. i # 0 => i \in 1 .. n /\ i - 1 \in 0 .. n
      BY <1>1
    <3>2. i # 0 => h[i] = Reach(h[i - 1], Order[i], pins)
      BY <1>2, <1>4, <1>5, <3>1
    <3> QED
      BY <1>4, <3>2
  <2>2. h = [i \in 0 .. n |-> h[i]]
    BY <1>3 DEF WalkOf
  <2> QED
    BY <2>1, <2>2 DEF FloodWalk
<1> DEFINE f == CHOOSE g : FloodWalk(g, S, pins)
<1>7. FloodWalk(f, S, pins)
  BY <1>6
<1>8. Flood(S, pins) = f[n]
  BY DEF Flood, FloodWalk
<1> HIDE DEF f
<1>9. f[0] = S /\ \A i \in 1 .. n : f[i] = Reach(f[i - 1], Order[i], pins)
  <2>1. \A i \in 0 .. n : f[i] = IF i = 0 THEN S ELSE Reach(f[i - 1], Order[i], pins)
    BY <1>7 DEF FloodWalk
  <2> QED
    BY <1>1, <2>1
<1>10. \A i \in 0 .. n : f[i] \in V
  <2>1. ASSUME NEW i \in 1 .. n, f[i - 1] \in V PROVE f[i] \in V
    <3>1. f[i - 1] \in SUBSET Nodes /\ Order[i] \in Gates
      BY <1>1, <2>1 DEF V
    <3>2. Reach(f[i - 1], Order[i], pins) \in SUBSET Nodes
      BY <3>1, ReachStays
    <3> QED
      BY <1>9, <3>2 DEF V
  <2>2. f[0] \in V
    BY <1>1, <1>9
  <2> QED
    BY <1>1, <2>1, <2>2, WalkStays
<1>11. ASSUME NEW i \in 1 .. n
       PROVE  /\ \A u : u # Order[i] => (u \in f[i] <=> u \in f[i - 1])
              /\ Order[i] \in f[i] <=>
                   Order[i] \in f[i - 1] \/ \E p \in pins[Order[i]] : Fanin[Order[i]][p] \in f[i - 1]
  <2>1. i - 1 \in 0 .. n /\ Order[i] \in Gates
    BY <1>1
  <2>2. f[i - 1] \in SUBSET Nodes
    BY <1>10, <2>1 DEF V
  <2>3. f[i] = Reach(f[i - 1], Order[i], pins)
    BY <1>9
  <2> DEFINE C == f[i - 1]
  <2>4. /\ \A u : u # Order[i] => (u \in Reach(C, Order[i], pins) <=> u \in C)
        /\ Order[i] \in Reach(C, Order[i], pins) <=>
             Order[i] \in C \/ \E p \in pins[Order[i]] : Fanin[Order[i]][p] \in C
    <3>1. C \in SUBSET Nodes
      BY <2>2
    <3> HIDE DEF C
    <3> QED
      BY <2>1, <3>1, ReachIs
  <2> QED
    BY <2>3, <2>4
<1> DEFINE b == [i \in 0 .. n |-> [u \in Nodes |-> IF u \in f[i] THEN 1 ELSE 0]]
<1>12. \A i \in 0 .. n : \A u \in Nodes : b[i][u] = IF u \in f[i] THEN 1 ELSE 0
  OBVIOUS
<1> HIDE DEF b
<1>13. Visits(b)
  <2> SUFFICES ASSUME NEW i \in 1 .. n, NEW u \in Nodes, u # Order[i] PROVE b[i][u] = b[i - 1][u]
    BY DEF Visits
  <2>1. i \in 0 .. n /\ i - 1 \in 0 .. n
    BY <1>1
  <2> QED
    BY <1>11, <1>12, <2>1
<1>14. n \in 0 .. n /\ 0 \in 0 .. n /\ \A k \in 1 .. n : k \in 0 .. n /\ k - 1 \in 0 .. n
  BY <1>1
<1>15. \A u \in Ports : u \in f[n] <=> u \in f[0]
  <2>1. \A u \in Ports : b[n][u] = b[0][u] /\ u \in Nodes
    BY <1>13, VisitsSettle DEF Nodes
  <2> QED
    BY <1>12, <1>14, <2>1
<1>16. ASSUME NEW g \in Gates
       PROVE  g \in f[n] <=> g \in f[0] \/ \E p \in pins[g] : Fanin[g][p] \in f[n]
  <2>1. PICK k \in 1 .. n : g = Order[k]
    BY OrderFacts
  <2>2. /\ b[n][g] = b[k][g] /\ b[k - 1][g] = b[0][g]
        /\ \A p \in Pins(g) : b[n][Fanin[g][p]] = b[k - 1][Fanin[g][p]] /\ Fanin[g][p] \in Nodes
    BY <1>13, <2>1, VisitsSettle, OrderFacts
  <2>3. g \in f[n] <=> g \in f[k]
    BY <1>12, <1>14, <2>2 DEF Nodes
  <2>4. g \in f[k - 1] <=> g \in f[0]
    BY <1>12, <1>14, <2>2 DEF Nodes
  <2>5. \A p \in Pins(g) : Fanin[g][p] \in f[n] <=> Fanin[g][p] \in f[k - 1]
    BY <1>12, <1>14, <2>2
  <2>6. \A p \in pins[g] : p \in Pins(g)
    BY DEF PinSets
  <2> QED
    BY <1>11, <2>1, <2>3, <2>4, <2>5, <2>6
<1>17. f[n] \subseteq Nodes
  BY <1>10, <1>14 DEF V
<1>18. S \subseteq f[n]
  <2> SUFFICES ASSUME NEW u \in S PROVE u \in f[n]
    OBVIOUS
  <2>1. u \in Ports \/ u \in Gates
    BY DEF Nodes
  <2> QED
    BY <1>9, <1>15, <1>16, <2>1
<1> QED
  BY <1>8, <1>9, <1>15, <1>16, <1>17, <1>18 DEF Closed

\* From more nodes a walk comes to no fewer.
LEMMA FloodGrows ==
  ASSUME NEW T \in SUBSET Nodes, NEW S \in SUBSET T, NEW pins, PinSets(pins)
  PROVE  Flood(S, pins) \subseteq Flood(T, pins)
<1> DEFINE F == Flood(S, pins)
           H == Flood(T, pins)
           n == Len(Order)
<1>1. Closed(F, S, pins) /\ Closed(H, T, pins)
  BY FloodIs
<1> HIDE DEF F, H
<1>2. \A k \in 1 .. n : Order[k] \in F => Order[k] \in H
  <2> DEFINE Bad == {k \in Nat : k \in 1 .. n /\ Order[k] \in F /\ Order[k] \notin H}
  <2>1. SUFFICES ASSUME Bad # {} PROVE FALSE
    BY OrderFacts
  <2>2. PICK k \in Bad : \A j \in Bad : k <= j
    <3>1. Bad \in SUBSET Nat
      OBVIOUS
    <3> HIDE DEF Bad
    <3> QED
      BY <2>1, <3>1, LeastNat
  <2>3. k \in 1 .. n /\ Order[k] \in Gates /\ Order[k] \in F /\ Order[k] \notin H
    BY OrderFacts
  <2>4. PICK p \in pins[Order[k]] : Fanin[Order[k]][p] \in F
    BY <1>1, <2>3 DEF Closed
  <2>5. p \in Pins(Order[k]) /\ Fanin[Order[k]][p] \notin H
    BY <1>1, <2>3, <2>4 DEF Closed, PinSets
  <2>6. Fanin[Order[k]][p] \in Ports \cup {Order[j] : j \in 1 .. k - 1}
    BY <2>3, <2>5, OrderFacts, NetlistAssumption
  <2>7. CASE Fanin[Order[k]][p] \in Ports
    BY <1>1, <2>4, <2>5, <2>7 DEF Closed
  <2>8. CASE Fanin[Order[k]][p] \in {Order[j] : j \in 1 .. k - 1}
    <3>1. PICK j \in 1 .. k - 1 : Fanin[Order[k]][p] = Order[j]
      BY <2>8
    <3>2. j \in Nat /\ j \in 1 .. n /\ ~(k <= j)
      BY <2>3, OrderFacts
    <3>3. j \notin Bad
      BY <2>2, <3>2
    <3> QED
      BY <2>4, <2>5, <3>1, <3>2, <3>3
  <2> QED
    BY <2>6, <2>7, <2>8
<1>3. ASSUME NEW u \in F PROVE u \in H
  <2>1. u \in Ports \/ u \in Gates
    BY <1>1 DEF Closed, Nodes
  <2>2. CASE u \in Ports
    BY <1>1, <2>2 DEF Closed
  <2>3. CASE u \in Gates
    BY <1>2, <2>3, OrderFacts
  <2> QED
    BY <2>1, <2>2, <2>3
<1> QED
  BY <1>3 DEF F, H


-----------------------------------------------------------------------------
(* The full pass                                                           *)

\* What the alternatives of a gate must agree on for the graph to stay as it was captured.
Uniform == Numbers /\ PlainSwaps /\ OneThreshold /\ AllCalculated

\* The nodes on a clock, and on an ideal one, in the netlist of the session's start.
ClockNodes == ClockNet(InitCell)
IdealNodes == IdealNet(InitCell)

\* The ports' arrivals and slews are ones a job may give them.
PortsGiven(s) == \A u \in Ports : s[u] \in PortGiven

\* The arcs of a gate's cell, and any of them, are arcs of the gate.
LEMMA CellArcs ==
  ASSUME NEW g \in Gates, NEW c, c \in CellsOf(g), NEW arcs \in SUBSET Lib[c].arcs
  PROVE  ArcsAt(g, arcs)
<1>1. IsFiniteSet(Lib[c].arcs) /\ \A x \in Lib[c].arcs : x \in Arc /\ x.pin \in Pins(g)
  BY NetlistAssumption
<1> QED
  BY <1>1, FS_Subset DEF ArcsAt

\* The pins a path can pass are pins of the gates.
LEMMA BuiltPinSets ==
  ASSUME NEW c, IsNetlist(c)
  PROVE  PinSets(BuiltPins(c)) /\ PinSets(DataPins(c))
<1>1. ASSUME NEW g \in Gates PROVE BuiltPins(c)[g] \subseteq Pins(g)
  <2>1. c[g] \in CellsOf(g)
    BY DEF IsNetlist
  <2>2. \A x \in Lib[c[g]].arcs : x.pin \in Pins(g)
    BY <2>1, NetlistAssumption
  <2> QED
    BY <2>2 DEF BuiltPins, BuiltArcs
<1>2. \A g \in Gates : DataPins(c)[g] \subseteq BuiltPins(c)[g]
  BY DEF DataPins
<1> QED
  BY <1>1, <1>2 DEF PinSets

\* Swaps that keep to PlainSwaps leave the pins, the roots and the nets the graph is built
\* from.
LEMMA SameGraph ==
  ASSUME PlainSwaps, NEW c, IsNetlist(c), NEW d, IsNetlist(d)
  PROVE  /\ BuiltPins(c) = BuiltPins(d) /\ Calculated(c) = Calculated(d)
         /\ ClockNet(c) = ClockNet(d) /\ IdealNet(c) = IdealNet(d)
<1>1. ASSUME NEW g \in Gates, Swappable[g] # {}
      PROVE  /\ {x.pin : x \in BuiltArcs(g, c)} = {x.pin : x \in BuiltArcs(g, d)}
             /\ BuiltArcs(g, c) # {} /\ BuiltArcs(g, d) # {}
  <2>1. c[g] \in CellsOf(g) /\ d[g] \in CellsOf(g)
    BY DEF IsNetlist
  <2>2. BuiltArcs(g, c) = Lib[c[g]].arcs /\ BuiltArcs(g, d) = Lib[d[g]].arcs
    BY <1>1, <2>1 DEF PlainSwaps, BuiltArcs
  <2>3. Lib[c[g]].arcs # {} /\ Lib[d[g]].arcs # {}
    BY <2>1, NetlistAssumption
  <2>4. /\ \A x \in Lib[c[g]].arcs : \E y \in Lib[d[g]].arcs : y.pin = x.pin
        /\ \A x \in Lib[d[g]].arcs : \E y \in Lib[c[g]].arcs : y.pin = x.pin
    BY <1>1, <2>1 DEF PlainSwaps
  <2> QED
    BY <2>2, <2>3, <2>4
<1>2. ASSUME NEW g \in Gates, Swappable[g] = {}
      PROVE  c[g] = d[g]
  BY <1>2 DEF IsNetlist, CellsOf
<1>3. ASSUME NEW g \in Gates
      PROVE  {x.pin : x \in BuiltArcs(g, c)} = {x.pin : x \in BuiltArcs(g, d)}
  <2>1. CASE Swappable[g] # {}
    BY <1>1, <2>1
  <2>2. CASE Swappable[g] = {}
    BY <1>2, <2>2 DEF BuiltArcs
  <2> QED
    BY <2>1, <2>2
<1>4. BuiltPins(c) = BuiltPins(d)
  BY <1>3 DEF BuiltPins
<1>5. Roots(c) = Roots(d)
  <2>1. ASSUME NEW g \in Gates
        PROVE  (BuiltArcs(g, c) = {} /\ \E x \in Lib[c[g]].arcs : HeldAt(g, x.pin))
                 <=> (BuiltArcs(g, d) = {} /\ \E x \in Lib[d[g]].arcs : HeldAt(g, x.pin))
    <3>1. CASE Swappable[g] # {}
      BY <1>1, <3>1
    <3>2. CASE Swappable[g] = {}
      BY <1>2, <3>2 DEF BuiltArcs
    <3> QED
      BY <3>1, <3>2
  <2> QED
    BY <2>1 DEF Roots
<1>6. DataPins(c) = DataPins(d)
  BY <1>4 DEF DataPins
<1> QED
  BY <1>4, <1>5, <1>6 DEF Calculated, ClockNet, IdealNet

\* A gate starts with a cell of its own.
LEMMA InitIsNetlist == IsNetlist(InitCell)
BY NetlistAssumption DEF IsNetlist, CellsOf

\* What an ideal clock reaches, a clock does.
LEMMA IdealIsClock == IdealNodes \subseteq ClockNodes
<1>1. ClockPorts \ Held \in SUBSET Nodes /\ IdealPorts \ Held \in SUBSET (ClockPorts \ Held)
  BY NetlistAssumption DEF Nodes
<1> QED
  BY <1>1, FloodGrows, BuiltPinSets, InitIsNetlist DEF IdealNodes, ClockNodes, IdealNet, ClockNet

\* The graph of every netlist of the session.
LEMMA GraphIs ==
  ASSUME Uniform, NEW c, IsNetlist(c)
  PROVE  /\ BuiltPins(c) = BuiltPins(InitCell) /\ Gates \subseteq Graph(c).calculated
         /\ ClockNet(c) = ClockNodes /\ IdealNet(c) = IdealNodes
         /\ Graph(c).load = Loads(c) /\ Graph(c).clock = ClockNodes /\ Graph(c).ideal = IdealNodes
<1>1. /\ BuiltPins(c) = BuiltPins(InitCell) /\ Calculated(c) = Calculated(InitCell)
      /\ ClockNet(c) = ClockNet(InitCell) /\ IdealNet(c) = IdealNet(InitCell)
  BY SameGraph, InitIsNetlist DEF Uniform
<1>2. Gates \subseteq Calculated(InitCell)
  BY DEF Uniform, AllCalculated
<1> QED
  BY <1>1, <1>2 DEF Graph, ClockNodes, IdealNodes

\* The lanes of a pin on node u's net, where all cells have the same thresholds.
PinOf(ld, L, u) ==
  [l \in Edges |->
     IF L[u][l].slew = NoSlew THEN Silent
     ELSE IF u \in IdealNodes THEN [arr |-> L[u][l].arr, slew |-> IdealSlew[l]]
     ELSE [arr |-> Later(L[u][l].arr, IF u \in Driven THEN DriveDelay(ld[u]) ELSE 0), slew |-> L[u][l].slew]]

\* Those of gate g's pins.
PinsAt(ld, L, g) == [p \in Pins(g) |-> PinOf(ld, L, Fanin[g][p])]

LEMMA PinLanesIs ==
  ASSUME Uniform, NEW c, IsNetlist(c), NEW ld, NEW L, NEW g \in Gates, NEW p \in Pins(g)
  PROVE  PinLanes(c, ld, IdealNodes, L, g, p) = PinOf(ld, L, Fanin[g][p])
<1> DEFINE u == Fanin[g][p]
<1>1. u \in Nodes
  <2>1. \A h \in Gates : \A q \in Pins(h) : Fanin[h][q] \in Nodes
    BY OrderFacts
  <2> QED
    BY <2>1
<1>2. Threshold(c, u) = Threshold(c, g)
  <2>1. g \notin Ports /\ c[g] \in CellsOf(g)
    BY NetlistAssumption DEF IsNetlist
  <2>2. CASE u \in Ports
    BY <2>1, <2>2 DEF Uniform, OneThreshold, Threshold
  <2>3. CASE u \in Gates
    <3>1. u \notin Ports /\ c[u] \in CellsOf(u)
      BY <2>3, NetlistAssumption DEF IsNetlist
    <3> QED
      BY <2>1, <2>3, <3>1 DEF Uniform, OneThreshold, Threshold
  <2> QED
    BY <1>1, <2>2, <2>3 DEF Nodes
<1>3. u \notin Cut
  BY DEF Uniform, AllCalculated
<1> HIDE DEF u
<1>4. \A l : Wire(c, ld, u, g, l, L[u][l].slew) =
               [delay |-> IF u \in Driven THEN DriveDelay(ld[u]) ELSE 0, slew |-> L[u][l].slew]
  BY <1>2 DEF Wire
<1> DEFINE w(l) == Wire(c, ld, u, g, l, L[u][l].slew)
           a(l) == Later(L[u][l].arr, w(l).delay)
<1>5. PinLanes(c, ld, IdealNodes, L, g, p) =
        [l \in Edges |->
           IF L[u][l].slew = NoSlew THEN Silent
           ELSE IF u \in IdealNodes THEN [arr |-> L[u][l].arr, slew |-> IdealSlew[l]]
           ELSE [arr |-> a(l), slew |-> w(l).slew]]
  BY <1>3 DEF PinLanes, u
<1>6. ASSUME NEW l
      PROVE  a(l) = Later(L[u][l].arr, IF u \in Driven THEN DriveDelay(ld[u]) ELSE 0) /\ w(l).slew = L[u][l].slew
  <2>1. w(l) = [delay |-> IF u \in Driven THEN DriveDelay(ld[u]) ELSE 0, slew |-> L[u][l].slew]
    BY <1>4
  <2> HIDE DEF w
  <2>2. w(l).delay = (IF u \in Driven THEN DriveDelay(ld[u]) ELSE 0) /\ w(l).slew = L[u][l].slew
    BY <2>1
  <2> QED
    BY <2>2
<1>7. PinOf(ld, L, u) =
        [l \in Edges |->
           IF L[u][l].slew = NoSlew THEN Silent
           ELSE IF u \in IdealNodes THEN [arr |-> L[u][l].arr, slew |-> IdealSlew[l]]
           ELSE [arr |-> Later(L[u][l].arr, IF u \in Driven THEN DriveDelay(ld[u]) ELSE 0), slew |-> L[u][l].slew]]
  BY DEF PinOf
<1> HIDE DEF w, a
<1>8. PinLanes(c, ld, IdealNodes, L, g, p) = PinOf(ld, L, u)
  BY <1>5, <1>6, <1>7
<1> QED
  BY <1>8 DEF u

\* They are lanes.
LEMMA PinsTyped ==
  ASSUME Uniform, NEW ld \in [Nodes -> Nat], NEW L \in LaneSet, NEW g \in Gates
  PROVE  PinsAt(ld, L, g) \in PinsOf(g)
<1>1. ASSUME NEW u \in Nodes, NEW l \in Edges PROVE PinOf(ld, L, u)[l] \in Lane
  <2> DEFINE x == L[u][l]
             d == IF u \in Driven THEN DriveDelay(ld[u]) ELSE 0
  <2>1. x \in Lane
    BY DEF LaneSet
  <2>2. d \in Int /\ IdealSlew[l] \in Int
    BY DEF Uniform, Numbers
  <2>3. PinOf(ld, L, u)[l] = IF x.slew = NoSlew THEN Silent
                             ELSE IF u \in IdealNodes THEN [arr |-> x.arr, slew |-> IdealSlew[l]]
                             ELSE [arr |-> Later(x.arr, d), slew |-> x.slew]
    BY DEF PinOf
  <2> HIDE DEF x, d
  <2>4. Silent \in Lane
    BY DEF Silent, Lane
  <2>5. CASE x.slew # NoSlew
    <3>1. x.arr \in Int /\ x.slew \in Int /\ x.arr # Never
      BY <2>1, <2>5 DEF Lane
    <3>2. Later(x.arr, d) \in Int
      BY <2>2, <3>1 DEF Later
    <3>3. \A a, t \in Int : [arr |-> a, slew |-> t] \in Lane
      BY DEF Lane, Uniform, Numbers
    <3> QED
      BY <2>2, <2>3, <2>4, <3>1, <3>2, <3>3
  <2> QED
    BY <2>3, <2>4, <2>5
<1>2. \A p \in Pins(g) : Fanin[g][p] \in Nodes
  <2>1. \A h \in Gates : \A q \in Pins(h) : Fanin[h][q] \in Nodes
    BY OrderFacts
  <2> QED
    BY <2>1
<1>3. \A u \in Nodes : PinOf(ld, L, u) \in [Edges -> Lane]
  <2>1. \A u : PinOf(ld, L, u) = [l \in Edges |-> PinOf(ld, L, u)[l]]
    BY DEF PinOf
  <2> QED
    BY <1>1, <2>1
<1> QED
  BY <1>2, <1>3 DEF PinsAt, PinsOf

\* The loads of a netlist are numbers.
LEMMA LoadsNat ==
  ASSUME NEW c, IsNetlist(c)
  PROVE  Loads(c) \in [Nodes -> Nat]
<1>1. \A u \in Nodes : Loads(c)[u] \in Nat
  BY LoadsTyped
<1> QED
  BY <1>1 DEF Loads

\* The lanes of gate g from the lanes L of its inputs.
RelaxAt(an, c, L, g) ==
  [ol \in Edges |-> Merged(an, Arriving(an, ol, Launched(g, c, ClockNodes), PinsAt(Loads(c), L, g),
                                        Loads(c)[g], g \in IdealNodes))]

LEMMA RelaxedIs ==
  ASSUME Uniform, NEW an, NEW c, IsNetlist(c), NEW L, NEW g \in Gates
  PROVE  Relaxed(an, c, Graph(c), L, g) = RelaxAt(an, c, L, g)
<1> DEFINE k == Graph(c)
<1>1. g \in k.calculated /\ k.load = Loads(c) /\ k.clock = ClockNodes /\ k.ideal = IdealNodes
  BY GraphIs
<1> HIDE DEF k
<1>2. [p \in Pins(g) |-> PinLanes(c, k.load, k.ideal, L, g, p)] = PinsAt(Loads(c), L, g)
  BY <1>1, PinLanesIs DEF PinsAt
<1>3. Relaxed(an, c, k, L, g) = RelaxAt(an, c, L, g)
  BY <1>1, <1>2 DEF Relaxed, RelaxAt
<1> QED
  BY <1>3 DEF k

\* They are lanes.
LEMMA RelaxAtTyped ==
  ASSUME Uniform, NEW an \in Analyses, NEW c, IsNetlist(c), NEW L \in LaneSet, NEW g \in Gates
  PROVE  RelaxAt(an, c, L, g) \in [Edges -> Lane]
<1>1. ArcsAt(g, Launched(g, c, ClockNodes))
  BY CellArcs DEF Launched, BuiltArcs, IsNetlist
<1>2. Loads(c)[g] \in Nat /\ PinsAt(Loads(c), L, g) \in PinsOf(g) /\ (g \in IdealNodes) \in BOOLEAN
  BY LoadsNat, LoadsTyped, PinsTyped DEF Nodes
<1>3. Numbers
  BY DEF Uniform
<1>4. \A ol \in Edges :
        Merged(an, Arriving(an, ol, Launched(g, c, ClockNodes), PinsAt(Loads(c), L, g),
                            Loads(c)[g], g \in IdealNodes)) \in Lane
  BY <1>1, <1>2, <1>3, ArrivingTyped, MergedTyped
<1> QED
  BY <1>4 DEF RelaxAt

\* The lanes before any gate is visited are lanes.
LEMMA StartTyped ==
  ASSUME Uniform, NEW c, IsNetlist(c), NEW s, PortsGiven(s)
  PROVE  StartLanes(s, Loads(c)) \in LaneSet
<1>1. \A u \in Nodes : Loads(c)[u] \in Nat
  BY LoadsTyped
<1> DEFINE lane(u, l) ==
             IF u \notin Ports \/ u \in Held \/ s[u].arr[l] = Never THEN Silent
             ELSE [arr |-> s[u].arr[l], slew |-> IF u \in Driven THEN DriveSlew(Loads(c)[u]) ELSE s[u].slew]
<1>2. ASSUME NEW u \in Nodes, NEW l \in Edges PROVE lane(u, l) \in Lane
  <2>1. Silent \in Lane
    BY DEF Silent, Lane
  <2>2. CASE u \in Ports /\ s[u].arr[l] # Never
    <3>1. s[u].arr[l] \in Int /\ s[u].slew \in Int
      BY <2>2 DEF PortsGiven, PortGiven
    <3>2. DriveSlew(Loads(c)[u]) \in Int
      BY <1>1 DEF Uniform, Numbers
    <3>3. \A a, t \in Int : [arr |-> a, slew |-> t] \in Lane
      BY DEF Lane, Uniform, Numbers
    <3> QED
      BY <2>1, <3>1, <3>2, <3>3
  <2> QED
    BY <2>1, <2>2
<1>3. StartLanes(s, Loads(c)) = [u \in Nodes |-> [l \in Edges |-> lane(u, l)]]
  BY DEF StartLanes
<1> HIDE DEF lane
<1> QED
  BY <1>2, <1>3 DEF LaneSet

\* f takes the full pass from gate to gate.
RelaxWalk(f, an, c, s) ==
  f = [i \in 0 .. Len(Order) |->
         IF i = 0 THEN StartLanes(s, Loads(c)) ELSE RelaxNode(an, c, Graph(c), f[i - 1], Order[i])]

\* A visit computes the gate's lanes and leaves the others alone.
LEMMA RelaxNodeIs ==
  ASSUME Uniform, NEW an \in Analyses, NEW c, IsNetlist(c), NEW L \in LaneSet, NEW g \in Gates
  PROVE  /\ RelaxNode(an, c, Graph(c), L, g) = [L EXCEPT ![g] = RelaxAt(an, c, L, g)]
         /\ RelaxNode(an, c, Graph(c), L, g) \in LaneSet
<1>1. RelaxNode(an, c, Graph(c), L, g) = [L EXCEPT ![g] = RelaxAt(an, c, L, g)]
  BY RelaxedIs DEF RelaxNode
<1>2. RelaxAt(an, c, L, g) \in [Edges -> Lane]
  BY RelaxAtTyped
<1> QED
  BY <1>1, <1>2 DEF LaneSet

\* The full pass gives the ports what the job does and every gate what its inputs, as they
\* are at the end, bring it: each is visited once, after its inputs (relax, sta.rs).
LEMMA RelaxIs ==
  ASSUME Uniform, NEW an \in Analyses, NEW c, IsNetlist(c), NEW s, PortsGiven(s)
  PROVE  /\ Relax(an, c, s) \in LaneSet
         /\ \A u \in Ports : Relax(an, c, s)[u] = StartLanes(s, Loads(c))[u]
         /\ \A g \in Gates : Relax(an, c, s)[g] = RelaxAt(an, c, Relax(an, c, s), g)
<1> DEFINE n == Len(Order)
           x0 == StartLanes(s, Loads(c))
           op == [q \in (1 .. n) \X LaneSet |-> RelaxNode(an, c, Graph(c), q[2], Order[q[1]])]
<1>0. Graph(c).load = Loads(c)
  BY DEF Graph
<1>1. n \in Nat /\ x0 \in LaneSet /\ \A k \in 1 .. n : Order[k] \in Gates
  BY OrderFacts, StartTyped
<1>2. ASSUME NEW i \in 1 .. n, NEW y \in LaneSet
      PROVE  op[<<i, y>>] = RelaxNode(an, c, Graph(c), y, Order[i]) /\ op[<<i, y>>] \in LaneSet
  <2>1. op[<<i, y>>] = RelaxNode(an, c, Graph(c), y, Order[i])
    OBVIOUS
  <2>2. RelaxNode(an, c, Graph(c), y, Order[i]) \in LaneSet
    BY <1>1, RelaxNodeIs
  <2> HIDE DEF op
  <2> QED
    BY <2>1, <2>2
<1> HIDE DEF op, x0
<1>3. PICK h : WalkOf(h, n, op, x0)
  BY <1>1, <1>2, WalkExists
<1>4. h[0] = x0 /\ \A i \in 1 .. n : h[i] = op[<<i, h[i - 1]>>]
  BY <1>1, <1>3, WalkSteps
<1>5. \A i \in 0 .. n : h[i] \in LaneSet
  <2>1. h[0] \in LaneSet
    BY <1>1, <1>4
  <2>2. \A i \in 1 .. n : h[i - 1] \in LaneSet => h[i] \in LaneSet
    BY <1>1, <1>2, <1>4
  <2> QED
    BY <1>1, <2>1, <2>2, WalkStays
<1>6. RelaxWalk(h, an, c, s)
  <2>1. ASSUME NEW i \in 0 .. n
        PROVE  h[i] = IF i = 0 THEN x0 ELSE RelaxNode(an, c, Graph(c), h[i - 1], Order[i])
    <3>1. i # 0 => i \in 1 .. n /\ i - 1 \in 0 .. n
      BY <1>1
    <3>2. i # 0 => h[i - 1] \in LaneSet
      BY <1>5, <3>1
    <3>3. i # 0 => h[i] = RelaxNode(an, c, Graph(c), h[i - 1], Order[i])
      BY <1>2, <1>4, <3>1, <3>2
    <3> QED
      BY <1>4, <3>3
  <2>2. h = [i \in 0 .. n |-> h[i]]
    BY <1>3 DEF WalkOf
  <2> QED
    BY <2>1, <2>2 DEF RelaxWalk, x0
<1> DEFINE f == CHOOSE g : RelaxWalk(g, an, c, s)
<1>7. RelaxWalk(f, an, c, s)
  BY <1>6
<1>8. Relax(an, c, s) = f[n]
  BY <1>0 DEF Relax, RelaxWalk
<1> HIDE DEF f
<1>9. /\ f[0] = x0
      /\ \A i \in 1 .. n : f[i] = RelaxNode(an, c, Graph(c), f[i - 1], Order[i])
  <2>1. \A i \in 0 .. n : f[i] = IF i = 0 THEN x0 ELSE RelaxNode(an, c, Graph(c), f[i - 1], Order[i])
    BY <1>7 DEF RelaxWalk, x0
  <2> QED
    BY <1>1, <2>1
<1>10. \A i \in 0 .. n : f[i] \in LaneSet
  <2>1. f[0] \in LaneSet
    BY <1>1, <1>9
  <2>2. \A i \in 1 .. n : f[i - 1] \in LaneSet => f[i] \in LaneSet
    BY <1>1, <1>9, RelaxNodeIs
  <2> QED
    BY <1>1, <2>1, <2>2, WalkStays
<1>11. ASSUME NEW i \in 1 .. n
       PROVE  f[i - 1] \in LaneSet /\ f[i] = [f[i - 1] EXCEPT ![Order[i]] = RelaxAt(an, c, f[i - 1], Order[i])]
  <2>1. i - 1 \in 0 .. n /\ Order[i] \in Gates
    BY <1>1
  <2>2. f[i - 1] \in LaneSet
    BY <1>10, <2>1
  <2>3. f[i] = RelaxNode(an, c, Graph(c), f[i - 1], Order[i])
    BY <1>9
  <2> QED
    BY <2>1, <2>2, <2>3, RelaxNodeIs
<1>12. Visits(f)
  BY <1>11 DEF Visits, LaneSet
<1>13. ASSUME NEW g \in Gates PROVE f[n][g] = RelaxAt(an, c, f[n], g)
  <2>1. PICK k \in 1 .. n : g = Order[k]
    BY OrderFacts
  <2>2. f[n][g] = f[k][g] /\ \A p \in Pins(g) : f[n][Fanin[g][p]] = f[k - 1][Fanin[g][p]]
    <3>1. /\ f[n][Order[k]] = f[k][Order[k]]
          /\ \A p \in Pins(Order[k]) : f[n][Fanin[Order[k]][p]] = f[k - 1][Fanin[Order[k]][p]]
      BY <1>12, VisitsSettle
    <3> QED
      BY <2>1, <3>1
  <2>3. f[k][g] = RelaxAt(an, c, f[k - 1], g)
    BY <1>11, <2>1 DEF LaneSet, Nodes
  <2>4. PinsAt(Loads(c), f[n], g) = PinsAt(Loads(c), f[k - 1], g)
    BY <2>2 DEF PinsAt, PinOf
  <2>6. RelaxAt(an, c, f[n], g) = RelaxAt(an, c, f[k - 1], g)
    BY <2>4 DEF RelaxAt
  <2> QED
    BY <2>2, <2>3, <2>6
<1>14. \A u \in Ports : f[n][u] = x0[u]
  BY <1>9, <1>12, VisitsSettle
<1>15. f[n] \in LaneSet
  BY <1>1, <1>10
<1> QED
  BY <1>8, <1>13, <1>14, <1>15 DEF x0


-----------------------------------------------------------------------------
(* The cone                                                                *)

\* The seeds are nodes.
LEMMA SeedsAreNodes ==
  ASSUME CInv
  PROVE  Seeds \in SUBSET Nodes
<1>1. \A g \in Staged : g \in Gates /\ \A p \in Pins(g) : Fanin[g][p] \in Nodes
  <2>1. \A g \in Gates : \A p \in Pins(g) : Fanin[g][p] \in Nodes
    BY OrderFacts
  <2> QED
    BY <2>1 DEF CInv
<1>2. Staged \in SUBSET Nodes
  BY <1>1 DEF Nodes
<1>3. \A gp \in UNION {{g} \X Pins(g) : g \in Staged} : Fanin[gp[1]][gp[2]] \in Nodes
  BY <1>1
<1> QED
  BY <1>2, <1>3 DEF Seeds

\* The cone holds the seeds and whatever a captured pin leads to from it, and nothing else
\* (try_update, inc.rs:442).
LEMMA ConeIs ==
  ASSUME CInv
  PROVE  Closed(Cone, Seeds, BuiltPins(base))
BY SeedsAreNodes, BuiltPinSets, FloodIs DEF Cone, CInv

-----------------------------------------------------------------------------
(* The fast path                                                           *)

\* The cached state is what a full pass of the last update's netlist computes, the captured
\* arcs with the overrides are that netlist's, and where the cached pins have the lanes of
\* their drivers as they are, the full pass gives them the same.
LInv ==
  /\ CInv
  /\ cell = [g \in Gates |-> cell[g]]
  /\ PortsGiven(seed)
  /\ \A g \in Staged : Swappable[g] # {}
  /\ \A g \in DOMAIN over : Swappable[g] # {}
  /\ \A g \in Gates : Before[g] = IF g \in DOMAIN over THEN over[g] ELSE base[g]
  /\ \A u \in bare : u \notin Driven /\ u \notin ClockNodes
  /\ lanes = FullLanes(Before, seed)

\* What the netlist and the library keep to, for the fast path to be exact.
Plain == Uniform /\ SlewsAgree /\ PlainDrivers /\ PlainFlops

\* The swapped data pins' drivers are seeds.
LEMMA SeedDrivers ==
  ASSUME NEW gp \in ClockPins \cup (UNION {{g} \X Pins(g) : g \in Gates}), gp \notin ClockPins,
         gp[1] \in Staged
  PROVE  Fanin[gp[1]][gp[2]] \in Seeds
<1>1. PICK g \in Gates : gp \in {g} \X Pins(g)
  OBVIOUS
<1>2. gp[1] = g /\ gp \in UNION {{h} \X Pins(h) : h \in Staged}
  BY <1>1
<1> QED
  BY <1>2 DEF Seeds

\* A node whose cone the swap does not touch has the load it had: what is swapped on its net
\* is a clock pin, with the load it had.
LEMMA LoadStays ==
  ASSUME CInv, ~Declined, NEW u \in Nodes, u \notin Seeds
  PROVE  Loads(cell)[u] = Loads(Before)[u]
<1>1. ASSUME NEW gp \in Sinks(u)
      PROVE  Lib[cell[gp[1]]].cap[gp[2]] = Lib[Before[gp[1]]].cap[gp[2]]
  <2>1. gp[1] \in Gates /\ gp \in UNION {{g} \X Pins(g) : g \in Gates} /\ Fanin[gp[1]][gp[2]] = u
    BY SinksFinite DEF Sinks
  <2>2. CASE gp[1] \notin Staged
    BY <2>1, <2>2 DEF Before
  <2>3. CASE gp[1] \in Staged
    <3>1. gp \in ClockPins
      BY <2>1, <2>3, SeedDrivers
    <3>2. Lib[cell[gp[1]]].cap[gp[2]] = Lib[old[gp[1]]].cap[gp[2]]
      BY <2>3, <3>1 DEF Declined
    <3> QED
      BY <2>1, <2>3, <3>2 DEF Before
  <2> QED
    BY <2>2, <2>3
<1>2. Caps(cell, u) = Caps(Before, u)
  BY <1>1 DEF Caps
<1>3. Loads(cell)[u] = SumFunction(Caps(cell, u)) /\ Loads(Before)[u] = SumFunction(Caps(Before, u))
  BY LoadsTyped DEF CInv
<1> QED
  BY <1>2, <1>3

\* A port with a driving cell is in no cone.
LEMMA DrivenOutside ==
  ASSUME LInv, PlainDrivers, NEW u \in Driven
  PROVE  u \in Ports /\ u \in Nodes /\ u \notin Cone /\ u \notin Seeds
<1>1. u \in Ports /\ u \in Nodes /\ u \notin Gates
  BY NetlistAssumption DEF Nodes
<1>2. u \notin Staged
  BY <1>1 DEF LInv, CInv
<1>3. ASSUME NEW gp \in (UNION {{g} \X Pins(g) : g \in Staged}) \ ClockPins
      PROVE  Fanin[gp[1]][gp[2]] # u
  <2>1. PICK g \in Staged : gp \in {g} \X Pins(g)
    OBVIOUS
  <2>2. g \in Gates /\ Swappable[g] # {} /\ gp[1] = g /\ gp[2] \in Pins(g) /\ gp = <<g, gp[2]>>
    BY <2>1 DEF LInv, CInv
  <2>3. <<g, gp[2]>> \notin ClockPins
    BY <1>3, <2>2
  <2>4. Fanin[g][gp[2]] \notin Driven
    BY <2>2, <2>3 DEF PlainDrivers
  <2> QED
    BY <2>2, <2>4
<1>4. u \notin Seeds
  BY <1>2, <1>3 DEF Seeds
<1>5. u \notin Cone
  BY <1>1, <1>4, ConeIs DEF LInv, Closed
<1> QED
  BY <1>1, <1>4, <1>5

\* The nets whose pins have their driver's lanes as they are have no driving cell and no
\* ideal clock.
LEMMA MovedBareIs ==
  ASSUME LInv, ~Declined, Plain, NEW u \in MovedBare
  PROVE  u \notin Driven /\ u \notin ClockNodes /\ u \notin IdealNodes
<1>1. ClockNet(base) = ClockNodes
  BY GraphIs DEF LInv, CInv, Plain
<1>2. CASE u \in bare
  BY <1>2, IdealIsClock DEF LInv
<1>3. CASE u \in Cone
  <2>1. u \notin ClockNodes
    BY <1>1, <1>3 DEF Declined
  <2> QED
    BY <1>3, <2>1, DrivenOutside, IdealIsClock DEF Plain
<1> QED
  BY <1>2, <1>3 DEF MovedBare

\* No gate in the cone is launched by a clock: one that a clock launches is reached through
\* its clock pin, and then the fast path declines.
LEMMA ConeUnclocked ==
  ASSUME LInv, ~Declined, Plain, NEW g \in Gates, g \in Cone
  PROVE  ~Clocked(g)
<1>1. g \in Seeds \/ \E p \in BuiltPins(base)[g] : Fanin[g][p] \in Cone
  BY ConeIs DEF LInv, Closed
<1>2. CASE g \in Staged
  BY <1>2 DEF LInv, Plain, Uniform, PlainSwaps
<1>3. CASE g \in Seeds /\ g \notin Staged
  <2>1. PICK gp \in (UNION {{h} \X Pins(h) : h \in Staged}) \ ClockPins : g = Fanin[gp[1]][gp[2]]
    BY <1>3 DEF Seeds
  <2>2. PICK h \in Staged : gp \in {h} \X Pins(h)
    BY <2>1
  <2>3. h \in Gates /\ Swappable[h] # {} /\ gp[1] = h /\ gp[2] \in Pins(h) /\ gp = <<h, gp[2]>>
    BY <2>2 DEF LInv, CInv
  <2>4. <<h, gp[2]>> \notin ClockPins
    BY <2>1, <2>3
  <2> QED
    BY <2>1, <2>3, <2>4 DEF Plain, PlainDrivers
<1>4. CASE \E p \in BuiltPins(base)[g] : Fanin[g][p] \in Cone
  <2>1. PICK p \in BuiltPins(base)[g] : Fanin[g][p] \in Cone
    BY <1>4
  <2>2. PICK x \in Lib[base[g]].arcs : x.pin = p
    BY <2>1 DEF BuiltPins, BuiltArcs
  <2>3. base[g] \in CellsOf(g)
    BY DEF LInv, CInv, IsNetlist
  <2>4. <<g, x.pin>> \notin ClockPins
    <3>1. <<g, x.pin>>[1] = g /\ <<g, x.pin>>[2] = p
      BY <2>2
    <3>2. Fanin[g][p] \in Cone \ Cut
      BY <2>1 DEF Plain, Uniform, AllCalculated
    <3> QED
      BY <3>1, <3>2 DEF Declined
  <2> QED
    BY <2>2, <2>3, <2>4 DEF Plain, PlainFlops
<1> QED
  BY <1>1, <1>2, <1>3, <1>4

\* The gates that are not staged have the cells of the last update.
LEMMA CellWas ==
  ASSUME LInv, NEW g \in Gates, g \notin Staged
  PROVE  Before[g] = cell[g] /\ cell[g] = IF g \in DOMAIN over THEN over[g] ELSE base[g]
BY DEF LInv, Before

\* In the cone, the arcs of the fast path are those of the full pass.
LEMMA ConeArcs ==
  ASSUME LInv, ~Declined, Plain, NEW g \in Gates, g \in Cone
  PROVE  InEdges(g) = Launched(g, cell, ClockNodes)
<1>1. cell[g] \in CellsOf(g) /\ DOMAIN NewOver = DOMAIN over \cup Staged
  BY DEF LInv, CInv, IsNetlist, NewOver
<1>2. \A x \in Lib[cell[g]].arcs : x.launch = "always"
  BY <1>1, ConeUnclocked DEF Clocked
<1>3. BuiltArcs(g, cell) = Launched(g, cell, ClockNodes)
  BY <1>2 DEF BuiltArcs, Launched
<1>4. CASE g \in DOMAIN NewOver
  <2>1. Swappable[g] # {} /\ NewOver[g] = cell[g]
    BY <1>1, <1>4, CellWas DEF LInv, NewOver
  <2>2. \A x \in Lib[cell[g]].arcs : ~CutAt(g, x.pin)
    BY <1>1, <2>1 DEF Plain, Uniform, PlainSwaps
  <2>3. BuiltArcs(g, cell) = Lib[cell[g]].arcs
    BY <2>2 DEF BuiltArcs
  <2> QED
    BY <1>3, <1>4, <2>1, <2>3 DEF InEdges
<1>5. CASE g \notin DOMAIN NewOver
  <2>1. base[g] = cell[g]
    BY <1>1, <1>5, CellWas
  <2> QED
    BY <1>3, <1>5, <2>1 DEF InEdges, BuiltArcs
<1> QED
  BY <1>4, <1>5

\* A gate outside the cone has no input in it, on an arc the full pass uses.
LEMMA OutsideInputs ==
  ASSUME LInv, Plain, NEW g \in Gates, g \notin Cone, NEW x \in Launched(g, cell, ClockNodes)
  PROVE  Fanin[g][x.pin] \notin Cone
<1>1. x.pin \in BuiltPins(cell)[g]
  BY DEF Launched, BuiltPins, Plain, Uniform, AllCalculated
<1>2. BuiltPins(cell) = BuiltPins(base)
  BY GraphIs DEF LInv, CInv, Plain
<1> QED
  BY <1>1, <1>2, ConeIs DEF LInv, Closed

\* A wire without a delay leaves a lane as it is.
LEMMA BareLane ==
  \A x \in Lane : x = IF x.slew = NoSlew THEN Silent ELSE [arr |-> Later(x.arr, 0), slew |-> x.slew]
<1> SUFFICES ASSUME NEW x \in Lane
             PROVE  x = IF x.slew = NoSlew THEN Silent ELSE [arr |-> Later(x.arr, 0), slew |-> x.slew]
  OBVIOUS
<1>1. x = [arr |-> x.arr, slew |-> x.slew]
  BY DEF Lane
<1>2. CASE x.slew = NoSlew
  BY <1>1, <1>2 DEF Lane, Silent
<1>3. CASE x.slew # NoSlew
  <2>1. x.arr \in Int /\ x.arr # Never
    BY <1>3 DEF Lane
  <2>2. Later(x.arr, 0) = x.arr
    BY <2>1 DEF Later
  <2> QED
    BY <1>1, <1>3, <2>2
<1> QED
  BY <1>2, <1>3

\* The pins of the fast path have the lanes the full pass gives them.
LEMMA FastPinsAre ==
  ASSUME LInv, ~Declined, Plain, NEW L \in LaneSet, NEW g \in Gates
  PROVE  FastPins(FastGraph, L, g) = PinsAt(Loads(cell), L, g)
<1> DEFINE k == FastGraph
<1>0. k.bare = MovedBare /\ k.ideal = IdealNodes
  BY GraphIs DEF FastGraph, LInv, CInv, Plain
<1> HIDE DEF k
<1>1. ASSUME NEW p \in Pins(g)
      PROVE  (IF Fanin[g][p] \in k.bare \ Cut THEN L[Fanin[g][p]] ELSE PinLanes(base, load, k.ideal, L, g, p))
               = PinOf(Loads(cell), L, Fanin[g][p])
  <2> DEFINE u == Fanin[g][p]
  <2>1. u \in Nodes
    <3>1. \A h \in Gates : \A q \in Pins(h) : Fanin[h][q] \in Nodes
      BY OrderFacts
    <3> QED
      BY <3>1
  <2>2. Cut = {}
    BY DEF Plain, Uniform, AllCalculated
  <2>3. CASE u \in MovedBare
    <3>1. u \notin Driven /\ u \notin IdealNodes
      BY <2>3, MovedBareIs
    <3>2. ASSUME NEW l \in Edges
          PROVE  L[u][l] = IF L[u][l].slew = NoSlew THEN Silent
                           ELSE [arr |-> Later(L[u][l].arr, 0), slew |-> L[u][l].slew]
      <4>1. L[u][l] \in Lane
        BY <2>1 DEF LaneSet
      <4> QED
        BY <4>1, BareLane
    <3>3. PinOf(Loads(cell), L, u) = [l \in Edges |-> IF L[u][l].slew = NoSlew THEN Silent
                                        ELSE [arr |-> Later(L[u][l].arr, 0), slew |-> L[u][l].slew]]
      BY <3>1 DEF PinOf
    <3>4. L[u] = [l \in Edges |-> L[u][l]]
      BY <2>1 DEF LaneSet
    <3>5. PinOf(Loads(cell), L, u) = L[u]
      <4> HIDE DEF u
      <4> QED
        BY <3>2, <3>3, <3>4
    <3> QED
      BY <1>0, <2>2, <2>3, <3>5
  <2>4. CASE u \notin MovedBare
    <3>1. u \notin Seeds
      BY <2>4, ConeIs DEF LInv, Closed, MovedBare
    <3>2. load[u] = Loads(cell)[u]
      BY <2>1, <3>1, LoadStays DEF LInv, CInv
    <3>3. PinOf(load, L, u) = PinOf(Loads(cell), L, u)
      BY <3>2 DEF PinOf
    <3>4. PinLanes(base, load, IdealNodes, L, g, p) = PinOf(load, L, u)
      BY PinLanesIs DEF LInv, CInv, Plain
    <3> QED
      BY <1>0, <2>4, <3>3, <3>4
  <2> QED
    BY <2>3, <2>4
<1>2. FastPins(k, L, g) = PinsAt(Loads(cell), L, g)
  BY <1>1 DEF FastPins, PinsAt
<1> QED
  BY <1>2 DEF k

\* What the fast path computes for gate g from the lanes L of its inputs.
FastAt(an, L, g) ==
  [ol \in Edges |-> Winner(an, Arriving(an, ol, InEdges(g), PinsAt(Loads(cell), L, g), Loads(cell)[g], FALSE))]

\* In the cone that is what the full pass of the netlist as it is computes from them.
LEMMA FastIsFull ==
  ASSUME LInv, ~Declined, Plain, NEW an \in Analyses, NEW L \in LaneSet, NEW g \in Gates, g \in Cone
  PROVE  FastAt(an, L, g) = RelaxAt(an, cell, L, g) /\ FastAt(an, L, g) \in [Edges -> Lane]
<1> DEFINE arcs == Launched(g, cell, ClockNodes)
           In == PinsAt(Loads(cell), L, g)
           ld == Loads(cell)[g]
<1>1. InEdges(g) = arcs
  BY ConeArcs
<1>2. cell[g] \in CellsOf(g) /\ arcs \in SUBSET Lib[cell[g]].arcs
  BY DEF LInv, CInv, IsNetlist, Launched, BuiltArcs
<1>3. ArcsAt(g, arcs) /\ In \in PinsOf(g) /\ ld \in Nat
  <2>1. IsNetlist(cell)
    BY DEF LInv, CInv
  <2>2. ArcsAt(g, arcs)
    BY <1>2, CellArcs
  <2>3. In \in PinsOf(g)
    BY <2>1, LoadsNat, PinsTyped DEF Plain
  <2> QED
    BY <2>1, <2>2, <2>3, LoadsTyped DEF Nodes
<1>4. ASSUME NEW ol \in Edges
      PROVE  /\ Winner(an, Arriving(an, ol, arcs, In, ld, FALSE)) = Merged(an, Arriving(an, ol, arcs, In, ld, FALSE))
             /\ Winner(an, Arriving(an, ol, arcs, In, ld, FALSE)) \in Lane
  <2> DEFINE S == Arriving(an, ol, arcs, In, ld, FALSE)
             R == Loud(ol, arcs, In)
  <2>1. Arrivals(S)
    <3> HIDE DEF arcs, In, ld
    <3> QED
      BY <1>3, ArrivingTyped DEF Plain, Uniform
  <2>2. S = {Brought(an, x, In[x.pin][x.il], ld, FALSE) : x \in R}
    BY ArrivingIs
  <2>3. ASSUME NEW x \in R, NEW y \in R
        PROVE  Brought(an, x, In[x.pin][x.il], ld, FALSE).slew = Brought(an, y, In[y.pin][y.il], ld, FALSE).slew
    <3>1. x \in Enabled(g, cell[g], ol) /\ y \in Enabled(g, cell[g], ol)
      BY DEF Loud, Enabled, Launched, BuiltArcs
    <3>2. x = y \/ \A s \in Int : \A t \in Int : SlewOf(x, s, ld) = SlewOf(y, t, ld)
      BY <1>2, <1>3, <3>1 DEF Plain, SlewsAgree
    <3>3. In[x.pin][x.il].slew \in Int /\ In[y.pin][y.il].slew \in Int
      <4>1. /\ x.pin \in Pins(g) /\ x.il \in Edges /\ y.pin \in Pins(g) /\ y.il \in Edges
        BY <1>3 DEF Loud, ArcsAt, Arc
      <4>2. In[x.pin][x.il].slew # NoSlew /\ In[y.pin][y.il].slew # NoSlew
        BY DEF Loud
      <4> HIDE DEF In
      <4> QED
        BY <1>3, <4>1, <4>2 DEF PinsOf, Lane
    <3> HIDE DEF In
    <3> QED
      BY <3>2, <3>3 DEF Brought
  <2>4. \A x, y \in S : x.slew = y.slew
    <3> HIDE DEF S, R
    <3> QED
      BY <2>2, <2>3
  <2> HIDE DEF S
  <2>5. Winner(an, S) = Merged(an, S) /\ Winner(an, S) \in Lane
    BY <2>1, <2>4, WinnerIsMerged DEF Plain, Uniform
  <2> QED
    BY <2>5 DEF S
<1>5. FastAt(an, L, g) = [ol \in Edges |-> Winner(an, Arriving(an, ol, arcs, In, ld, FALSE))]
  BY <1>1 DEF FastAt
<1>6. g \notin IdealNodes
  BY MovedBareIs DEF MovedBare
<1>7. RelaxAt(an, cell, L, g) = [ol \in Edges |-> Merged(an, Arriving(an, ol, arcs, In, ld, FALSE))]
  <2>1. (g \in IdealNodes) = FALSE
    BY <1>6
  <2> QED
    BY <2>1 DEF RelaxAt
<1> HIDE DEF arcs, In, ld
<1> QED
  BY <1>4, <1>5, <1>7

\* The gates the fast path recomputes.
Redone == {g \in Gates : g \in Cone /\ InEdges(g) # {}}

\* f takes the fast path from gate to gate.
FastWalk(f, an) ==
  f = [i \in 0 .. Len(Order) |->
         IF i = 0 THEN lanes[an] ELSE RecomputeNode(an, FastGraph, f[i - 1], Order[i])]

\* A visit of such a gate recomputes it; any other changes nothing.
LEMMA RecomputeNodeIs ==
  ASSUME LInv, ~Declined, Plain, NEW an \in Analyses, NEW L \in LaneSet, NEW g \in Gates
  PROVE  LET M == RecomputeNode(an, FastGraph, L, g)
         IN  /\ M \in LaneSet
             /\ M = IF g \in Redone THEN [L EXCEPT ![g] = FastAt(an, L, g)] ELSE L
<1> DEFINE M == RecomputeNode(an, FastGraph, L, g)
           k == FastGraph
<1>0. k.cone = Cone /\ k.load = MovedLoads /\ MovedLoads = Loads(cell)
  BY MovedLoadsExact DEF FastGraph, LInv
<1>1. Recomputed(an, k, L, g) = FastAt(an, L, g)
  <2>1. FastPins(k, L, g) = PinsAt(Loads(cell), L, g)
    BY FastPinsAre
  <2> HIDE DEF k
  <2> QED
    BY <1>0, <2>1 DEF Recomputed, FastAt
<1>2. M = IF g \in Redone THEN [L EXCEPT ![g] = FastAt(an, L, g)] ELSE L
  <2>1. M = IF g \in k.cone /\ InEdges(g) # {} THEN [L EXCEPT ![g] = Recomputed(an, k, L, g)] ELSE L
    BY DEF RecomputeNode
  <2> HIDE DEF k, M
  <2> QED
    BY <1>0, <1>1, <2>1 DEF Redone
<1>3. g \in Redone => FastAt(an, L, g) \in [Edges -> Lane]
  BY FastIsFull DEF Redone
<1> HIDE DEF M, k
<1>4. M \in LaneSet
  BY <1>2, <1>3 DEF LaneSet
<1> QED
  BY <1>2, <1>4 DEF M

\* The fast path leaves what is outside the cone, and gives a gate in it what its inputs, as
\* they are at the end, bring it (try_update, inc.rs:478).
LEMMA ConeLanesIs ==
  ASSUME LInv, ~Declined, Plain, NEW an \in Analyses
  PROVE  /\ ConeLanes(an) \in LaneSet
         /\ \A u \in Nodes : u \in Redone \/ ConeLanes(an)[u] = lanes[an][u]
         /\ \A g \in Redone : ConeLanes(an)[g] = FastAt(an, ConeLanes(an), g)
<1> DEFINE n == Len(Order)
           x0 == lanes[an]
           visit(L, g) == RecomputeNode(an, FastGraph, L, g)
           op == [q \in (1 .. n) \X LaneSet |-> visit(q[2], Order[q[1]])]
<1>0. x0 \in LaneSet
  <2>1. x0 = Relax(an, Before, seed) /\ IsNetlist(Before) /\ PortsGiven(seed)
    BY DEF LInv, CInv, FullLanes
  <2> QED
    BY <2>1, RelaxIs DEF Plain
<1>1. n \in Nat /\ \A k \in 1 .. n : Order[k] \in Gates
  BY OrderFacts
<1>2. ASSUME NEW L \in LaneSet, NEW g \in Gates
      PROVE  /\ visit(L, g) \in LaneSet
             /\ visit(L, g) = IF g \in Redone THEN [L EXCEPT ![g] = FastAt(an, L, g)] ELSE L
  BY RecomputeNodeIs
<1>3. ASSUME NEW i \in 1 .. n, NEW y \in LaneSet
      PROVE  op[<<i, y>>] = visit(y, Order[i]) /\ op[<<i, y>>] \in LaneSet
  <2> HIDE DEF visit
  <2>1. op[<<i, y>>] = visit(y, Order[i])
    OBVIOUS
  <2>2. visit(y, Order[i]) \in LaneSet
    BY <1>1, <1>2
  <2> HIDE DEF op
  <2> QED
    BY <2>1, <2>2
<1> HIDE DEF op, x0, visit
<1>4. PICK h : WalkOf(h, n, op, x0)
  BY <1>0, <1>1, <1>3, WalkExists
<1>5. h[0] = x0 /\ \A i \in 1 .. n : h[i] = op[<<i, h[i - 1]>>]
  BY <1>1, <1>4, WalkSteps
<1>6. \A i \in 0 .. n : h[i] \in LaneSet
  <2>1. \A i \in 1 .. n : h[i - 1] \in LaneSet => h[i] \in LaneSet
    BY <1>3, <1>5
  <2>2. h[0] \in LaneSet
    BY <1>0, <1>5
  <2> QED
    BY <1>1, <2>1, <2>2, WalkStays
<1>7. FastWalk(h, an)
  <2>1. ASSUME NEW i \in 0 .. n PROVE h[i] = IF i = 0 THEN x0 ELSE visit(h[i - 1], Order[i])
    <3>1. i # 0 => i \in 1 .. n /\ i - 1 \in 0 .. n
      BY <1>1
    <3>2. i # 0 => h[i] = visit(h[i - 1], Order[i])
      BY <1>3, <1>5, <1>6, <3>1
    <3> QED
      BY <1>5, <3>2
  <2>2. h = [i \in 0 .. n |-> h[i]]
    BY <1>4 DEF WalkOf
  <2> QED
    BY <2>1, <2>2 DEF FastWalk, x0, visit
<1> DEFINE f == CHOOSE g : FastWalk(g, an)
<1>8. FastWalk(f, an)
  BY <1>7
<1>9. ConeLanes(an) = f[n]
  BY DEF ConeLanes, FastWalk
<1> HIDE DEF f
<1>10. f[0] = x0 /\ \A i \in 1 .. n : f[i] = visit(f[i - 1], Order[i])
  <2>1. \A i \in 0 .. n : f[i] = IF i = 0 THEN x0 ELSE visit(f[i - 1], Order[i])
    BY <1>8 DEF FastWalk, x0, visit
  <2> QED
    BY <1>1, <2>1
<1>11. \A i \in 0 .. n : f[i] \in LaneSet
  <2>1. \A i \in 1 .. n : f[i - 1] \in LaneSet => f[i] \in LaneSet
    BY <1>1, <1>2, <1>10
  <2>2. f[0] \in LaneSet
    BY <1>0, <1>10
  <2> QED
    BY <1>1, <2>1, <2>2, WalkStays
<1>12. ASSUME NEW i \in 1 .. n
       PROVE  /\ f[i - 1] \in LaneSet /\ Order[i] \in Gates
              /\ f[i] = IF Order[i] \in Redone
                        THEN [f[i - 1] EXCEPT ![Order[i]] = FastAt(an, f[i - 1], Order[i])] ELSE f[i - 1]
  <2>1. i - 1 \in 0 .. n /\ Order[i] \in Gates
    BY <1>1
  <2>2. f[i - 1] \in LaneSet
    BY <1>11, <2>1
  <2>3. f[i] = visit(f[i - 1], Order[i])
    BY <1>10
  <2> QED
    BY <1>2, <2>1, <2>2, <2>3
<1>13. Visits(f)
  BY <1>12 DEF Visits, LaneSet
<1>14. ASSUME NEW g \in Gates
       PROVE  f[n][g] = IF g \in Redone THEN FastAt(an, f[n], g) ELSE x0[g]
  <2>1. PICK k \in 1 .. n : g = Order[k]
    BY OrderFacts
  <2>2. /\ f[n][g] = f[k][g] /\ f[k - 1][g] = x0[g]
        /\ \A p \in Pins(g) : f[n][Fanin[g][p]] = f[k - 1][Fanin[g][p]]
    <3>1. /\ f[n][Order[k]] = f[k][Order[k]] /\ f[k - 1][Order[k]] = f[0][Order[k]]
          /\ \A p \in Pins(Order[k]) : f[n][Fanin[Order[k]][p]] = f[k - 1][Fanin[Order[k]][p]]
      BY <1>13, VisitsSettle
    <3> QED
      BY <1>10, <2>1, <3>1
  <2>3. CASE g \notin Redone
    BY <1>12, <2>1, <2>2, <2>3
  <2>4. CASE g \in Redone
    <3>1. f[k][g] = FastAt(an, f[k - 1], g)
      BY <1>12, <2>1, <2>4 DEF LaneSet, Nodes
    <3>2. PinsAt(Loads(cell), f[n], g) = PinsAt(Loads(cell), f[k - 1], g)
      BY <2>2 DEF PinsAt, PinOf
    <3>4. FastAt(an, f[n], g) = FastAt(an, f[k - 1], g)
      BY <3>2 DEF FastAt
    <3> QED
      BY <2>2, <2>4, <3>1, <3>4
  <2> QED
    BY <2>3, <2>4
<1>15. \A u \in Ports : f[n][u] = x0[u]
  BY <1>10, <1>13, VisitsSettle
<1>16. f[n] \in LaneSet
  BY <1>1, <1>11
<1>17. \A u \in Nodes : u \in Redone \/ f[n][u] = x0[u]
  BY <1>14, <1>15 DEF Nodes
<1>18. Redone \subseteq Gates
  BY DEF Redone
<1> QED
  BY <1>9, <1>14, <1>16, <1>17, <1>18 DEF x0

\* Gate by gate, the fast path has computed what a full pass of the netlist as it is does.
LEMMA FastPathExact ==
  ASSUME LInv, ~Declined, Plain, NEW an \in Analyses
  PROVE  ConeLanes(an) = Relax(an, cell, seed)
<1> DEFINE F == Relax(an, cell, seed)
           G == ConeLanes(an)
           B == Relax(an, Before, seed)
           n == Len(Order)
<1>1. IsNetlist(cell) /\ IsNetlist(Before) /\ PortsGiven(seed) /\ lanes[an] = B
  BY DEF LInv, CInv, FullLanes
<1>2. /\ F \in LaneSet /\ \A g \in Gates : F[g] = RelaxAt(an, cell, F, g)
      /\ \A u \in Ports : F[u] = StartLanes(seed, Loads(cell))[u]
  BY <1>1, RelaxIs DEF Plain
<1>3. /\ B \in LaneSet /\ \A g \in Gates : B[g] = RelaxAt(an, Before, B, g)
      /\ \A u \in Ports : B[u] = StartLanes(seed, Loads(Before))[u]
  BY <1>1, RelaxIs DEF Plain
<1>4. /\ G \in LaneSet /\ \A u \in Nodes : u \in Redone \/ G[u] = B[u]
      /\ \A g \in Redone : G[g] = FastAt(an, G, g)
  BY <1>1, ConeLanesIs
<1> HIDE DEF F, G, B
<1>5. ASSUME NEW u \in Ports PROVE G[u] = F[u]
  <2>1. u \in Nodes /\ u \notin Redone
    BY NetlistAssumption DEF Nodes, Redone
  <2>2. u \in Driven => Loads(cell)[u] = Loads(Before)[u]
    BY DrivenOutside, LoadStays DEF LInv, Plain
  <2>3. StartLanes(seed, Loads(cell))[u] = StartLanes(seed, Loads(Before))[u]
    BY <2>1, <2>2 DEF StartLanes
  <2> QED
    BY <1>2, <1>3, <1>4, <2>1, <2>3
<1>6. ASSUME NEW g \in Gates, \A p \in Pins(g) : G[Fanin[g][p]] = F[Fanin[g][p]]
      PROVE  G[g] = F[g]
  <2> DEFINE arcs == Launched(g, cell, ClockNodes)
  <2>1. \A x \in arcs : x.pin \in Pins(g)
    <3>1. cell[g] \in CellsOf(g) /\ arcs \in SUBSET Lib[cell[g]].arcs
      BY DEF Launched, BuiltArcs, LInv, CInv, IsNetlist
    <3> QED
      BY <3>1, CellArcs DEF ArcsAt
  <2>2. PinsAt(Loads(cell), G, g) = PinsAt(Loads(cell), F, g)
    BY <1>6 DEF PinsAt, PinOf
  <2>3. RelaxAt(an, cell, G, g) = RelaxAt(an, cell, F, g)
    BY <2>2 DEF RelaxAt
  <2>4. CASE g \in Redone
    <3>1. G[g] = FastAt(an, G, g)
      BY <1>4, <2>4
    <3>2. FastAt(an, G, g) = RelaxAt(an, cell, G, g)
      BY <1>4, <2>4, FastIsFull DEF Redone
    <3> QED
      BY <1>2, <2>3, <3>1, <3>2
  <2>5. CASE g \notin Redone
    <3>1. g \notin Staged
      <4>1. CASE g \in Cone
        <5>1. g \in Staged => InEdges(g) = Lib[cell[g]].arcs /\ cell[g] \in CellsOf(g)
          BY DEF InEdges, NewOver, LInv, CInv, IsNetlist
        <5> QED
          BY <2>5, <4>1, <5>1, NetlistAssumption DEF Redone
      <4>2. CASE g \notin Cone
        BY <4>2, ConeIs DEF LInv, Closed, Seeds
      <4> QED
        BY <4>1, <4>2
    <3>2. Before[g] = cell[g]
      BY <3>1, CellWas
    <3>3. arcs = Launched(g, Before, ClockNodes)
      BY <3>2 DEF Launched, BuiltArcs
    <3>4. ASSUME NEW ol \in Edges
          PROVE  Arriving(an, ol, arcs, PinsAt(Loads(cell), G, g), Loads(cell)[g], g \in IdealNodes)
                   = Arriving(an, ol, arcs, PinsAt(Loads(Before), B, g), Loads(Before)[g], g \in IdealNodes)
      <4>1. CASE g \in Cone
        <5>1. arcs = {}
          BY <2>5, <4>1, ConeArcs DEF Redone
        <5> QED
          BY <5>1 DEF Arriving
      <4>2. CASE g \notin Cone
        <5>1. Loads(cell)[g] = Loads(Before)[g]
          BY <4>2, ConeIs, LoadStays DEF LInv, Closed, Nodes
        <5>2. ASSUME NEW x \in arcs
              PROVE  PinsAt(Loads(cell), G, g)[x.pin] = PinsAt(Loads(Before), B, g)[x.pin]
          <6> DEFINE u == Fanin[g][x.pin]
          <6>1. u \in Nodes /\ u \notin Cone
            BY <1>6, <2>1, <4>2, OrderFacts, OutsideInputs
          <6>2. u \notin Seeds /\ u \notin Redone
            BY <6>1, ConeIs DEF LInv, Closed, Redone
          <6>3. Loads(cell)[u] = Loads(Before)[u] /\ G[u] = B[u]
            BY <1>4, <6>1, <6>2, LoadStays DEF LInv
          <6>4. PinOf(Loads(cell), G, u) = PinOf(Loads(Before), B, u)
            <7> HIDE DEF u
            <7> QED
              BY <6>3 DEF PinOf
          <6> QED
            BY <2>1, <6>4 DEF PinsAt
        <5> HIDE DEF arcs
        <5> QED
          BY <5>1, <5>2, ArrivingLocal
      <4> QED
        BY <4>1, <4>2
    <3>5. RelaxAt(an, cell, G, g) = RelaxAt(an, Before, B, g)
      BY <3>3, <3>4 DEF RelaxAt
    <3> QED
      BY <1>2, <1>3, <1>4, <2>3, <2>5, <3>5 DEF Nodes
  <2> QED
    BY <2>4, <2>5
<1>7. \A g \in Gates : G[g] = F[g]
  <2> DEFINE Bad == {k \in Nat : k \in 1 .. n /\ G[Order[k]] # F[Order[k]]}
  <2>1. SUFFICES ASSUME Bad # {} PROVE FALSE
    BY OrderFacts
  <2>2. PICK k \in Bad : \A j \in Bad : k <= j
    <3>1. Bad \in SUBSET Nat
      OBVIOUS
    <3> HIDE DEF Bad
    <3> QED
      BY <2>1, <3>1, LeastNat
  <2>3. k \in 1 .. n /\ Order[k] \in Gates /\ G[Order[k]] # F[Order[k]]
    BY OrderFacts
  <2>4. ASSUME NEW p \in Pins(Order[k]) PROVE G[Fanin[Order[k]][p]] = F[Fanin[Order[k]][p]]
    <3>1. Fanin[Order[k]][p] \in Ports \cup {Order[j] : j \in 1 .. k - 1}
      BY <2>3, OrderFacts, NetlistAssumption
    <3>2. CASE Fanin[Order[k]][p] \in Ports
      BY <1>5, <3>2
    <3>3. CASE Fanin[Order[k]][p] \in {Order[j] : j \in 1 .. k - 1}
      <4>1. PICK j \in 1 .. k - 1 : Fanin[Order[k]][p] = Order[j]
        BY <3>3
      <4>2. j \in Nat /\ j \in 1 .. n /\ ~(k <= j)
        BY <2>3, OrderFacts
      <4>3. j \notin Bad
        BY <2>2, <4>2
      <4> QED
        BY <4>1, <4>2, <4>3
    <3> QED
      BY <3>1, <3>2, <3>3
  <2> QED
    BY <1>6, <2>3, <2>4
<1>8. \A u \in Nodes : G[u] = F[u]
  BY <1>5, <1>7 DEF Nodes
<1>9. G = F
  BY <1>2, <1>4, <1>8 DEF LaneSet
<1> QED
  BY <1>9 DEF F, G

\* A session begins with a full pass (build_report's capture).
LEMMA InitL ==
  ASSUME Uniform, Init
  PROVE  LInv
<1>1. /\ cell = InitCell /\ base = InitCell /\ Staged = {} /\ DOMAIN over = {}
      /\ load = Loads(InitCell) /\ bare = {} /\ lanes = FullLanes(InitCell, seed)
  BY DEF Init, EmptyFcn, Staged
<1>2. InitCell = [g \in Gates |-> InitCell[g]]
  BY NetlistAssumption
<1>3. Before = cell
  BY <1>1, <1>2 DEF Before
<1>4. PortsGiven(seed)
  BY DEF Init, Uniform, Numbers, PortsGiven
<1> QED
  BY <1>1, <1>2, <1>3, <1>4, InitC DEF LInv

\* What is primed of a constant expression is its arguments.
LEMMA PrimedPasses ==
  /\ FullLanes(Before, seed)' = FullLanes(Before', seed')
  /\ ClockNodes' = ClockNodes
BY DEF FullLanes, Relax, RelaxNode, Relaxed, Graph, StartLanes, PinLanes, Wire, Threshold, Launched,
       BuiltArcs, BuiltPins, DataPins, ClockNet, IdealNet, Calculated, Roots, Flood, Reach, HeldAt, CutAt,
       Arriving, Brought, Arrived, Merged, Worst, Later, Unreached, Silent, Loads, Sinks, Nodes, Gates,
       Pins, Edges, Analyses, ClockNodes

\* Once nothing is staged and a full pass of the netlist as it is would compute the cached
\* state, it is the last update's.
LEMMA SettledL ==
  ASSUME LInv, CInv', old' = EmptyFcn, UNCHANGED <<cell, seed>>,
         \A g \in DOMAIN over' : Swappable[g] # {},
         \A g \in Gates : cell[g] = IF g \in DOMAIN over' THEN over'[g] ELSE base'[g],
         \A u \in bare' : u \notin Driven /\ u \notin ClockNodes, lanes' = FullLanes(cell, seed)
  PROVE  LInv'
<1>1. Staged' = {}
  BY DEF Staged, EmptyFcn
<1>2. Before' = [g \in Gates |-> cell[g]]
  BY <1>1 DEF Before, Gates
<1>3. Before' = cell
  BY <1>2 DEF LInv
<1>4. lanes' = FullLanes(Before, seed)' /\ (\A u \in bare : u \notin Driven /\ u \notin ClockNodes)'
  BY <1>3, PrimedPasses
<1>5. \A g \in Gates : Before'[g] = IF g \in DOMAIN over' THEN over'[g] ELSE base'[g]
  BY <1>3
<1>6. cell' = [g \in Gates |-> cell'[g]] /\ PortsGiven(seed)'
  BY DEF LInv, PortsGiven
<1> QED
  BY <1>1, <1>4, <1>5, <1>6 DEF LInv

\* Staging a swap leaves the netlist of the last update (Timer::stage).
LEMMA SwapL ==
  ASSUME LInv, NEW g \in Gates, NEW c \in Swappable[g], Swap(g, c)
  PROVE  LInv'
<1>1. /\ cell' = [cell EXCEPT ![g] = c]
      /\ old' = [h \in Staged \cup {g} |-> IF h \in Staged THEN old[h] ELSE cell[h]]
      /\ UNCHANGED <<base, over, load, bare, lanes, seed>>
  BY DEF Swap
<1>2. CInv'
  BY SwapC DEF LInv
<1>3. Staged' = Staged \cup {g} /\ DOMAIN cell = Gates /\ Staged \subseteq Gates
  BY <1>1 DEF Staged, LInv, CInv
<1>4. ASSUME NEW h \in Gates
      PROVE  (IF h \in Staged' THEN old'[h] ELSE cell'[h]) = (IF h \in Staged THEN old[h] ELSE cell[h])
  <2>1. h \in Staged' => old'[h] = IF h \in Staged THEN old[h] ELSE cell[h]
    BY <1>1, <1>3
  <2>2. h \notin Staged' => h \notin Staged /\ h # g
    BY <1>3
  <2> QED
    BY <1>1, <1>3, <2>1, <2>2
<1>5. Before' = Before
  <2>1. Before' = [h \in Gates |-> IF h \in Staged' THEN old'[h] ELSE cell'[h]]
    BY DEF Before, Gates
  <2> QED
    BY <1>4, <2>1 DEF Before
<1>6. lanes' = FullLanes(Before, seed)' /\ (\A u \in bare : u \notin Driven /\ u \notin ClockNodes)'
  BY <1>1, <1>5, PrimedPasses DEF LInv
<1>7. cell' = [h \in Gates |-> cell'[h]] /\ \A h \in Staged' : Swappable[h] # {}
  BY <1>1, <1>3 DEF LInv
<1>8. \A h \in Gates : Before'[h] = IF h \in DOMAIN over' THEN over'[h] ELSE base'[h]
  BY <1>1, <1>5 DEF LInv
<1>9. PortsGiven(seed)' /\ \A h \in DOMAIN over' : Swappable[h] # {}
  BY <1>1 DEF LInv, PortsGiven
<1> QED
  BY <1>2, <1>6, <1>7, <1>8, <1>9 DEF LInv

\* Either way of updating leaves what a full pass computes (try_update, inc.rs;
\* Timer::update, sta.rs).
LEMMA UpdateL ==
  ASSUME LInv, Plain, UpdateCone \/ UpdateFull
  PROVE  LInv'
<1>1. CInv'
  BY NextC DEF LInv, Next
<1>2. CASE UpdateCone
  <2>1. /\ ~Declined /\ load' = MovedLoads /\ bare' = MovedBare /\ over' = NewOver
        /\ lanes' = [an \in Analyses |-> ConeLanes(an)] /\ old' = EmptyFcn
        /\ UNCHANGED <<cell, base, seed>>
    BY <1>2 DEF UpdateCone
  <2>2. \A u \in bare' : u \notin Driven /\ u \notin ClockNodes
    BY <2>1, MovedBareIs
  <2>3. lanes' = FullLanes(cell, seed)
    BY <2>1, FastPathExact DEF FullLanes
  <2>4. \A g \in DOMAIN over' : Swappable[g] # {}
    BY <2>1 DEF NewOver, LInv
  <2>5. \A g \in Gates : cell[g] = IF g \in DOMAIN over' THEN over'[g] ELSE base'[g]
    BY <2>1, CellWas DEF NewOver
  <2> QED
    BY <1>1, <2>1, <2>2, <2>3, <2>4, <2>5, SettledL
<1>3. CASE UpdateFull
  <2>1. /\ base' = cell /\ over' = EmptyFcn /\ bare' = {}
        /\ lanes' = FullLanes(cell, seed) /\ old' = EmptyFcn /\ UNCHANGED <<cell, seed>>
    BY <1>3 DEF UpdateFull
  <2>2. DOMAIN over' = {}
    BY <2>1 DEF EmptyFcn
  <2> QED
    BY <1>1, <2>1, <2>2, SettledL
<1> QED
  BY <1>2, <1>3

\* Every step keeps the cached state exact.
LEMMA NextL ==
  ASSUME LInv, [Next]_vars, Plain
  PROVE  LInv'
<1>1. ASSUME NEW g \in Gates, NEW c \in Swappable[g], Swap(g, c) PROVE LInv'
  BY <1>1, SwapL
<1>2. CASE UpdateCone \/ UpdateFull
  BY <1>2, UpdateL
<1>3. CASE UNCHANGED vars
  <2>1. UNCHANGED <<cell, old, base, over, load, bare, lanes, seed, swaps>>
    BY <1>3 DEF vars
  <2>2. CInv'
    BY <1>3, NextC DEF LInv
  <2>3. Before' = Before
    BY <2>1 DEF Before, Staged, Gates
  <2>4. lanes' = FullLanes(Before, seed)' /\ (\A u \in bare : u \notin Driven /\ u \notin ClockNodes)'
    BY <2>1, <2>3, PrimedPasses DEF LInv
  <2>5. /\ cell' = [g \in Gates |-> cell'[g]] /\ PortsGiven(seed)'
        /\ \A g \in Staged' : Swappable[g] # {}
        /\ \A g \in DOMAIN over' : Swappable[g] # {}
        /\ \A g \in Gates : Before'[g] = IF g \in DOMAIN over' THEN over'[g] ELSE base'[g]
    BY <2>1, <2>3 DEF LInv, PortsGiven, Staged
  <2> QED
    BY <2>2, <2>4, <2>5 DEF LInv
<1> QED
  BY <1>1, <1>2, <1>3 DEF Next

\* An output edge that one arc drives has one slew.
LEMMA OneArcAgrees == OneArcPerEdge => SlewsAgree
BY DEF OneArcPerEdge, SlewsAgree

-----------------------------------------------------------------------------
(* The theorems                                                            *)

\* The cached state has its types, and no load goes below zero as the differences of
\* swaps are added up (IncState, inc.rs).
THEOREM ConeTypes == Spec => []TypeOK
<1>1. CInv => TypeOK
  <2> SUFFICES ASSUME CInv PROVE TypeOK
    OBVIOUS
  <2>1. DOMAIN load = Nodes /\ \A u \in Nodes : load[u] \in Nat
    BY LoadsTyped DEF CInv
  <2> QED
    BY <2>1 DEF CInv, IsNetlist, TypeOK
<1> QED
  BY InitC, NextC, <1>1, PTL DEF Spec

\* After an update the cached loads are the sums a full pass forms, for every netlist and
\* library, however swaps of one gate are staged and coalesced and whichever path served
\* them (node_load, inc.rs:406).
THEOREM LoadsStayExact == Spec => []LoadsFaithful
<1>1. CInv => LoadsFaithful
  <2> SUFFICES ASSUME CInv, Staged = {} PROVE load = Loads(cell)
    BY DEF LoadsFaithful
  <2>1. \A g \in Gates : Before[g] = cell[g]
    BY DEF Before
  <2> QED
    BY <2>1, LoadsAgree DEF CInv
<1> QED
  BY InitC, NextC, <1>1, PTL DEF Spec

\* After an update every node has the arrival and slew a full pass computes, in both
\* analyses and on both edges, for every netlist and table, whatever the swaps, the order of
\* the updates and the path that serves each ("the two code paths can never silently
\* diverge", inc.rs:27). What it takes is what try_update asks for nowhere: one threshold in
\* all libraries; a delay calculation no disable keeps from a gate; a library in which a slew
\* does not depend on the arc that wins; and swaps that keep the pins of the arcs and away
\* from arcs disabled or held, from flops and from ports with a driving cell. Parasitics and
\* constants that narrow an arc to one edge need no hypothesis: there the code captures no
\* graph, and the fast path declines (simple_ctx, sta.rs:2023).
THEOREM LanesStayExact ==
  ASSUME Numbers, SlewsAgree, PlainSwaps, PlainDrivers, PlainFlops, OneThreshold, AllCalculated
  PROVE  Spec => []LanesFaithful
<1>0. Plain
  BY DEF Plain, Uniform
<1>1. Init => LInv
  BY <1>0, InitL DEF Plain
<1>2. LInv /\ [Next]_vars => LInv'
  BY <1>0, NextL
<1>3. LInv => LanesFaithful
  <2> SUFFICES ASSUME LInv, Staged = {} PROVE lanes = FullLanes(cell, seed)
    BY DEF LanesFaithful
  <2>1. Before = [g \in Gates |-> cell[g]]
    BY DEF Before
  <2>2. Before = cell
    BY <2>1 DEF LInv
  <2> QED
    BY <2>2 DEF LInv
<1> QED
  BY <1>1, <1>2, <1>3, PTL DEF Spec
=============================================================================
