---------------------------- MODULE LeastNatural ----------------------------
(***************************************************************************)
(* Least elements: of a nonempty set of naturals (the least number that    *)
(* fails a property), and of a finite set of integers (the worst slack);   *)
(* the last of the positions of a file whose command is in a set; the      *)
(* multiples of a number, and of two (the periods of two clocks); and      *)
(* counting up (the rounds of a propagation).                              *)
(***************************************************************************)
EXTENDS Integers, Sequences, FiniteSets, FiniteSetTheorems, WellFoundedInduction, TLAPS

\* The strict-subset order on finite sets is well-founded, and 1..x grows with x.
LEMMA LeastNat ==
  ASSUME NEW T \in SUBSET Nat, T # {}
  PROVE  \E x \in T : \A y \in T : x <= y
<1> DEFINE U == {1 .. x : x \in T}
           R == StrictSubsetOrdering(Nat)
           S == FiniteSubsetsOf(Nat)
<1>1. U \subseteq S
  <2> SUFFICES ASSUME NEW x \in T PROVE 1 .. x \in S
    OBVIOUS
  <2>1. x \in Int /\ 1 .. x \in SUBSET Nat
    OBVIOUS
  <2>2. IsFiniteSet(1 .. x)
    BY <2>1, FS_Interval
  <2> QED
    BY <2>1, <2>2 DEF FiniteSubsetsOf
<1>2. U # {}
  OBVIOUS
<1>3. IsWellFoundedOn(R, S)
  BY FS_StrictSubsetOrderingWellFounded
<1>4. PICK u \in U : \A v \in U : ~(<<v, u>> \in R)
  <2> HIDE DEF U, R, S
  <2> QED
    BY <1>1, <1>2, <1>3, WFMin
<1>5. PICK x \in T : u = 1 .. x
  OBVIOUS
<1>6. ASSUME NEW y \in T, y < x
      PROVE  FALSE
  <2>1. 1 .. y \in U /\ 1 .. y \in SUBSET Nat /\ 1 .. x \in SUBSET Nat
    OBVIOUS
  <2>2. 1 .. y \subseteq 1 .. x
    BY <1>6
  <2>3. x \in 1 .. x /\ x \notin 1 .. y
    BY <1>6
  <2>4. <<1 .. y, 1 .. x>> \in R
    BY <2>1, <2>2, <2>3 DEF StrictSubsetOrdering
  <2> QED
    BY <1>4, <1>5, <2>1, <2>4
<1> QED
  BY <1>6

\* Of some subsets of a finite set there is one with no other inside it.
LEMMA SmallestSet ==
  ASSUME NEW T, IsFiniteSet(T), NEW U \in SUBSET (SUBSET T), U # {}
  PROVE  \E X \in U : \A Y \in SUBSET X : Y # X => Y \notin U
<1> DEFINE R == StrictSubsetOrdering(T)
           S == FiniteSubsetsOf(T)
<1>1. U \subseteq S
  BY FS_FiniteSubsetsOfFinite
<1>2. IsWellFoundedOn(R, S)
  BY FS_StrictSubsetOrderingWellFounded
<1>3. PICK X \in U : \A Y \in U : ~(<<Y, X>> \in R)
  <2> HIDE DEF R, S
  <2> QED
    BY <1>1, <1>2, WFMin
<1>4. ASSUME NEW Y \in SUBSET X, Y # X PROVE Y \notin U
  <2>1. X \in SUBSET T /\ Y \in SUBSET T
    OBVIOUS
  <2>2. <<Y, X>> \in R
    BY <1>4, <2>1 DEF StrictSubsetOrdering
  <2> QED
    BY <1>3, <2>2
<1> QED
  BY <1>4

\* A finite nonempty set of integers has a least element: a smallest set without
\* one has an element to take away, and what is left has a least element.
LEMMA LeastOfFinite ==
  ASSUME NEW T \in SUBSET Int, IsFiniteSet(T), T # {}
  PROVE  \E x \in T : \A y \in T : x <= y
<1> DEFINE NoLeast(X) == ~(\E x \in X : \A y \in X : x <= y)
           U == {X \in SUBSET T : X # {} /\ NoLeast(X)}
<1>1. SUFFICES ASSUME U # {} PROVE FALSE
  OBVIOUS
<1>2. U \in SUBSET (SUBSET T)
  OBVIOUS
<1>4. PICK X \in U : \A Y \in SUBSET X : Y # X => Y \notin U
  <2> HIDE DEF U
  <2> QED
    BY <1>1, <1>2, SmallestSet
<1>5. PICK x \in X : TRUE
  OBVIOUS
<1>6. X \ {x} \notin U
  BY <1>4
<1>7. CASE X \ {x} = {}
  <2>1. \A y \in X : y = x
    BY <1>7
  <2>2. x \in Int
    OBVIOUS
  <2> QED
    BY <2>1, <2>2
<1>8. CASE X \ {x} # {}
  <2>1. PICK m \in X \ {x} : \A y \in X \ {x} : m <= y
    BY <1>6, <1>8
  <2>2. x \in Int /\ m \in Int /\ X \in SUBSET Int
    OBVIOUS
  <2>3. CASE x <= m
    <3>1. \A y \in X : x <= y
      BY <2>1, <2>2, <2>3
    <3> QED
      BY <3>1
  <2>4. CASE m <= x
    <3>1. m \in X /\ \A y \in X : m <= y
      BY <2>1, <2>2, <2>4
    <3> QED
      BY <3>1
  <2> QED
    BY <2>2, <2>3, <2>4
<1> QED
  BY <1>7, <1>8

\* And a greatest, the least of the negated ones.
LEMMA GreatestOfFinite ==
  ASSUME NEW T \in SUBSET Int, IsFiniteSet(T), T # {}
  PROVE  \E x \in T : \A y \in T : x >= y
<1> DEFINE U == {-x : x \in T}
           f == [x \in T |-> -x]
<1>1. U \in SUBSET Int /\ U # {}
  <2>1. \A x \in T : x \in Int
    OBVIOUS
  <2>2. \A x \in Int : -x \in Int
    OBVIOUS
  <2> QED
    BY <2>1, <2>2
<1>2. IsFiniteSet(U)
  <2>1. f \in Surjection(T, U)
    BY DEF Surjection
  <2> QED
    BY <2>1, FS_Surjection
<1>3. PICK u \in U : \A v \in U : u <= v
  <2> HIDE DEF U
  <2> QED
    BY <1>1, <1>2, LeastOfFinite
<1>4. PICK x \in T : u = -x
  OBVIOUS
<1>5. \A y \in T : -x <= -y
  BY <1>3, <1>4
<1>6. \A y \in T : x \in Int /\ y \in Int
  OBVIOUS
<1> QED
  BY <1>5, <1>6

\* What a function takes on a finite set is a finite set.
LEMMA ImageFinite ==
  ASSUME NEW S, IsFiniteSet(S), NEW f, DOMAIN f = S, f = [x \in S |-> f[x]]
  PROVE  IsFiniteSet({f[x] : x \in S})
<1> DEFINE T == {f[x] : x \in S}
<1>1. f \in Surjection(S, T)
  BY DEF Surjection
<1> HIDE DEF T
<1>2. IsFiniteSet(T)
  BY <1>1, FS_Surjection
<1> QED
  BY <1>2 DEF T

\* A sequence has finitely many positions.
LEMMA DomainFinite ==
  ASSUME NEW C, NEW s \in Seq(C)
  PROVE  IsFiniteSet(DOMAIN s)
<1>1. DOMAIN s = 1 .. Len(s) /\ Len(s) \in Int
  OBVIOUS
<1>2. IsFiniteSet(1 .. Len(s))
  BY <1>1, FS_Interval
<1> QED
  BY <1>1, <1>2

-----------------------------------------------------------------------------
(* Last positions                                                          *)

\* Position k of file s is the last whose command is in the set S.
IsLast(s, S, k) == k \in DOMAIN s /\ s[k] \in S /\ \A j \in DOMAIN s : s[j] \in S => j <= k

\* One command more: it is the last if it is in the set, else the last stays.
LEMMA LastAfter ==
  ASSUME NEW C, NEW s \in Seq(C), NEW c \in C, NEW S, NEW k
  PROVE  IsLast(Append(s, c), S, k) <=> IF c \in S THEN k = Len(s) + 1 ELSE IsLast(s, S, k)
<1> DEFINE t == Append(s, c)
<1>1. /\ DOMAIN t = 1 .. Len(s) + 1 /\ DOMAIN s = 1 .. Len(s) /\ Len(s) \in Nat
      /\ t[Len(s) + 1] = c /\ \A j \in DOMAIN s : t[j] = s[j]
  OBVIOUS
<1>2. CASE c \in S
  BY <1>1, <1>2 DEF IsLast
<1>3. CASE c \notin S
  BY <1>1, <1>3 DEF IsLast
<1> QED
  BY <1>2, <1>3

\* A file with a command in the set has a last one.
LEMMA LastExists ==
  ASSUME NEW C, NEW s \in Seq(C), NEW S, NEW i \in DOMAIN s, s[i] \in S
  PROVE  \E k \in DOMAIN s : IsLast(s, S, k)
<1> DEFINE T == {Len(s) - j : j \in {h \in DOMAIN s : s[h] \in S}}
<1>1. DOMAIN s = 1 .. Len(s) /\ Len(s) \in Nat
  OBVIOUS
<1>2. T \in SUBSET Nat /\ T # {}
  BY <1>1
<1>3. PICK x \in T : \A y \in T : x <= y
  <2> HIDE DEF T
  <2> QED
    BY <1>2, LeastNat
<1>4. PICK k \in DOMAIN s : s[k] \in S /\ x = Len(s) - k
  OBVIOUS
<1>5. ASSUME NEW j \in DOMAIN s, s[j] \in S
      PROVE  j <= k
  <2>1. x <= Len(s) - j
    BY <1>3, <1>5
  <2> QED
    BY <2>1, <1>1, <1>4
<1> QED
  BY <1>4, <1>5 DEF IsLast

-----------------------------------------------------------------------------
(* Lists one after another                                                 *)

\* g joins the lists of ss one by one (FlattenSeq of the community modules).
ChainOf(g, ss) == g = [i \in 1 .. Len(ss) |-> IF i = 1 THEN ss[i] ELSE g[i - 1] \o ss[i]]

\* There are such joins.
LEMMA ChainExists ==
  ASSUME NEW ss, Len(ss) \in Nat
  PROVE  \E g : ChainOf(g, ss)
<1> DEFINE n == Len(ss)
           Rec(g, m) == g = [i \in 1 .. m |-> IF i = 1 THEN ss[i] ELSE g[i - 1] \o ss[i]]
           Has(m) == \E g : Rec(g, m)
<1>1. n \in Nat
  OBVIOUS
<1>2. Has(0)
  <2>1. Rec([i \in 1 .. 0 |-> 0], 0)
    OBVIOUS
  <2> QED
    BY <2>1
<1>3. ASSUME NEW m \in Nat, Has(m) PROVE Has(m + 1)
  <2>1. PICK g : Rec(g, m)
    BY <1>3
  <2> DEFINE h == [i \in 1 .. m + 1 |->
                     IF i <= m THEN g[i] ELSE IF i = 1 THEN ss[i] ELSE g[i - 1] \o ss[i]]
  <2>2. \A i \in 1 .. m : g[i] = IF i = 1 THEN ss[i] ELSE g[i - 1] \o ss[i]
    BY <2>1
  <2>3. \A i \in 1 .. m + 1 : h[i] = IF i <= m THEN g[i] ELSE IF i = 1 THEN ss[i] ELSE g[i - 1] \o ss[i]
    OBVIOUS
  <2>4. h = [i \in 1 .. m + 1 |-> h[i]]
    OBVIOUS
  <2> HIDE DEF h
  <2>5. ASSUME NEW i \in 1 .. m + 1 PROVE h[i] = IF i = 1 THEN ss[i] ELSE h[i - 1] \o ss[i]
    <3>1. i # 1 => i - 1 \in 1 .. m /\ i - 1 <= m /\ i - 1 \in 1 .. m + 1
      BY <2>5
    <3>2. i # 1 => h[i - 1] = g[i - 1]
      BY <3>1, <2>3
    <3>3. CASE i <= m
      <4>1. i \in 1 .. m
        BY <3>3
      <4> QED
        BY <2>2, <2>3, <3>2, <3>3, <4>1
    <3>4. CASE ~(i <= m)
      BY <2>3, <3>2, <3>4
    <3> QED
      BY <3>3, <3>4
  <2>6. Rec(h, m + 1)
    BY <2>4, <2>5
  <2> QED
    BY <2>6
<1>4. Has(n)
  <2> DEFINE Bad == {m \in Nat : ~Has(m)}
  <2> HIDE DEF Has
  <2>1. SUFFICES ASSUME Bad # {} PROVE FALSE
    BY <1>1
  <2>2. PICK m \in Bad : \A y \in Bad : m <= y
    <3>1. Bad \in SUBSET Nat
      OBVIOUS
    <3> HIDE DEF Bad
    <3> QED
      BY <2>1, <3>1, LeastNat
  <2>3. m \in Nat /\ m # 0 /\ m - 1 \in Nat
    BY <1>2
  <2>4. Has(m - 1)
    BY <2>2, <2>3
  <2>5. Has(m - 1 + 1) /\ m - 1 + 1 = m
    BY <1>3, <2>3, <2>4
  <2> QED
    BY <2>5
<1> QED
  BY <1>4 DEF ChainOf

-----------------------------------------------------------------------------
(* Multiples                                                               *)

\* n is a multiple of g.
MultipleOf(g, n) == \E q \in Int : n = q * g

\* What the remainder says.
LEMMA RemainderZero ==
  ASSUME NEW g \in Nat, g > 0, NEW n \in Int
  PROVE  n % g = 0 <=> MultipleOf(g, n)
<1>1. n = (n \div g) * g + (n % g) /\ n \div g \in Int /\ n % g \in 0 .. g - 1
  OBVIOUS
<1>2. ASSUME n % g = 0 PROVE MultipleOf(g, n)
  <2>1. n = (n \div g) * g
    BY <1>1, <1>2
  <2> QED
    BY <1>1, <2>1 DEF MultipleOf
<1>3. ASSUME NEW q \in Int, n = q * g PROVE n % g = 0
  <2> DEFINE e == q - n \div g
  <2>1. e \in Int /\ e * g = n % g
    BY <1>1, <1>3
  <2> HIDE DEF e
  <2>2. e <= 0
    <3>1. SUFFICES ASSUME e >= 1 PROVE FALSE
      BY <2>1
    <3>2. e * g >= g
      BY <2>1, <3>1
    <3> QED
      BY <1>1, <2>1, <3>2
  <2>3. e >= 0
    <3>1. SUFFICES ASSUME e <= -1 PROVE FALSE
      BY <2>1
    <3>2. e * g <= -g
      BY <2>1, <3>1
    <3> QED
      BY <1>1, <2>1, <3>2
  <2>4. e = 0
    BY <2>1, <2>2, <2>3
  <2> QED
    BY <2>1, <2>4
<1> QED
  BY <1>2, <1>3 DEF MultipleOf

\* A multiple of g that is smaller than g, either way, is zero.
LEMMA SmallMultiple ==
  ASSUME NEW g \in Nat, g > 0, NEW n \in Int, MultipleOf(g, n), n < g
  PROVE  n <= 0
<1>1. PICK q \in Int : n = q * g
  BY DEF MultipleOf
<1>2. q <= 0
  <2>1. SUFFICES ASSUME q >= 1 PROVE FALSE
    BY <1>1
  <2>2. q * g >= g
    BY <1>1, <2>1
  <2> QED
    BY <1>1, <2>2
<1> QED
  BY <1>1, <1>2

\* Sums and differences of multiples.
LEMMA MultiplesAdd ==
  ASSUME NEW g \in Int, NEW m \in Int, NEW n \in Int, MultipleOf(g, m), MultipleOf(g, n)
  PROVE  MultipleOf(g, m + n) /\ MultipleOf(g, m - n)
<1>1. PICK p \in Int, q \in Int : m = p * g /\ n = q * g
  BY DEF MultipleOf
<1>2. m + n = (p + q) * g /\ m - n = (p - q) * g /\ p + q \in Int /\ p - q \in Int
  BY <1>1
<1> QED
  BY <1>2 DEF MultipleOf

\* A multiple of a multiple.
LEMMA MultiplesTimes ==
  ASSUME NEW g \in Int, NEW m \in Int, NEW k \in Int, MultipleOf(g, m)
  PROVE  MultipleOf(g, k * m)
<1>1. PICK p \in Int : m = p * g
  BY DEF MultipleOf
<1>2. k * m = (k * p) * g /\ k * p \in Int
  BY <1>1
<1> QED
  BY <1>2 DEF MultipleOf

\* n is some of p and some of q.
Combines(n, p, q) == \E u \in Int, v \in Int : n = u * p + v * q

\* The least positive combination divides what it divides.
LEMMA LeastDivides ==
  ASSUME NEW p \in Int, NEW q \in Int, NEW g \in Nat, g > 0, Combines(g, p, q),
         \A n \in Nat : n > 0 /\ Combines(n, p, q) => g <= n,
         NEW n \in Int, Combines(n, p, q)
  PROVE  MultipleOf(g, n)
<1>1. n = (n \div g) * g + (n % g) /\ n \div g \in Int /\ n % g \in 0 .. g - 1
  OBVIOUS
<1> DEFINE d == n \div g
           r == n % g
<1>2. PICK u \in Int, v \in Int : g = u * p + v * q
  BY DEF Combines
<1>3. PICK x \in Int, y \in Int : n = x * p + y * q
  BY DEF Combines
<1>4. n = d * g + r /\ d \in Int /\ r \in 0 .. g - 1
  BY <1>1
<1> HIDE DEF d, r
<1>5. r = (x - d * u) * p + (y - d * v) * q
  <2>1. d * g = (d * u) * p + (d * v) * q
    BY <1>2, <1>4
  <2> QED
    BY <1>3, <1>4, <2>1
<1>6. Combines(r, p, q)
  <2>1. x - d * u \in Int /\ y - d * v \in Int
    BY <1>2, <1>3, <1>4
  <2> QED
    BY <1>5, <2>1 DEF Combines
<1>7. r = 0
  BY <1>4, <1>6
<1> QED
  BY <1>4, <1>7 DEF MultipleOf

\* Two positive numbers have a common divisor that combines them.
LEMMA CommonMeasure ==
  ASSUME NEW p \in Nat, p > 0, NEW q \in Nat, q > 0
  PROVE  \E g \in Nat : g > 0 /\ Combines(g, p, q) /\ MultipleOf(g, p) /\ MultipleOf(g, q)
<1> DEFINE T == {n \in Nat : n > 0 /\ Combines(n, p, q)}
<1>1. Combines(p, p, q) /\ Combines(q, p, q)
  <2>1. p = 1 * p + 0 * q /\ q = 0 * p + 1 * q /\ 0 \in Int /\ 1 \in Int
    OBVIOUS
  <2> QED
    BY <2>1 DEF Combines
<1>2. PICK g \in T : \A n \in T : g <= n
  <2>1. T \in SUBSET Nat /\ T # {}
    BY <1>1
  <2> HIDE DEF T
  <2> QED
    BY <2>1, LeastNat
<1>3. \A n \in Nat : n > 0 /\ Combines(n, p, q) => g <= n
  BY <1>2
<1>4. g \in Nat /\ g > 0 /\ Combines(g, p, q)
  BY <1>2
<1> HIDE DEF T
<1> QED
  BY <1>1, <1>3, <1>4, LeastDivides

\* A number with that property divides by every common divisor.
LEMMA MeasureIsGreatest ==
  ASSUME NEW p \in Int, NEW q \in Int, NEW g \in Int, Combines(g, p, q),
         NEW h \in Int, MultipleOf(h, p), MultipleOf(h, q)
  PROVE  MultipleOf(h, g)
<1>1. PICK u \in Int, v \in Int : g = u * p + v * q
  BY DEF Combines
<1>2. MultipleOf(h, u * p) /\ MultipleOf(h, v * q)
  BY <1>1, MultiplesTimes
<1>3. u * p \in Int /\ v * q \in Int
  BY <1>1
<1> QED
  BY <1>1, <1>2, <1>3, MultiplesAdd

\* A number that is a multiple is so often the other.
LEMMA WholeQuotient ==
  ASSUME NEW g \in Nat, g > 0, NEW n \in Nat, MultipleOf(g, n)
  PROVE  n \div g \in Nat /\ n = (n \div g) * g
<1>1. n = (n \div g) * g + (n % g) /\ n \div g \in Int /\ n % g = 0
  BY RemainderZero
<1>2. n \div g >= 0
  OBVIOUS
<1> QED
  BY <1>1, <1>2

\* In each stretch of g numbers there is one that differs from x by a multiple of g.
LEMMA OneInEach ==
  ASSUME NEW g \in Nat, g > 0, NEW x \in Int, NEW l \in Int
  PROVE  \E d \in l .. l + g - 1 : MultipleOf(g, d - x)
<1> DEFINE r == (x - l) % g
           k == (x - l) \div g
<1>1. x - l = k * g + r /\ k \in Int /\ r \in 0 .. g - 1
  OBVIOUS
<1> HIDE DEF r, k
<1>2. l + r \in l .. l + g - 1
  BY <1>1
<1>3. (l + r) - x = (-k) * g /\ -k \in Int
  BY <1>1
<1> QED
  BY <1>2, <1>3 DEF MultipleOf

\* Of two such numbers, the one in a stretch is not the greater.
LEMMA NoneBefore ==
  ASSUME NEW g \in Nat, g > 0, NEW x \in Int, NEW l \in Int,
         NEW d \in l .. l + g - 1, MultipleOf(g, d - x),
         NEW e \in Int, e >= l, MultipleOf(g, e - x)
  PROVE  e >= d /\ MultipleOf(g, e - d)
<1>1. d \in Int /\ d < l + g
  OBVIOUS
<1>2. MultipleOf(g, (d - x) - (e - x)) /\ MultipleOf(g, (e - x) - (d - x))
  <2>1. d - x \in Int /\ e - x \in Int /\ g \in Int
    BY <1>1
  <2> QED
    BY <2>1, MultiplesAdd
<1>3. (d - x) - (e - x) = d - e /\ (e - x) - (d - x) = e - d /\ d - e \in Int
  BY <1>1
<1>4. d - e < g
  BY <1>1
<1>5. d - e <= 0
  BY <1>2, <1>3, <1>4, SmallMultiple
<1> QED
  BY <1>1, <1>2, <1>3, <1>5

-----------------------------------------------------------------------------
(* Two periods                                                             *)

\* p and q are K and J times g, which is the largest number they are both multiples of.
Periods(p, q, g, K, J) ==
  /\ p \in Nat /\ q \in Nat /\ g \in Nat /\ K \in Nat /\ J \in Nat
  /\ p > 0 /\ q > 0 /\ g > 0 /\ p = K * g /\ q = J * g /\ Combines(g, p, q)

\* Equal products have equal factors.
LEMMA Cancel ==
  ASSUME NEW g \in Nat, g > 0, NEW m \in Int, NEW n \in Int, m * g = n * g
  PROVE  m = n
<1> DEFINE e == m - n
<1>1. e \in Int /\ e * g = 0 /\ m = n + e
  OBVIOUS
<1> HIDE DEF e
<1>2. ~(e >= 1)
  <2>1. e >= 1 => e * g >= g
    BY <1>1
  <2> QED
    BY <1>1, <2>1
<1>3. ~(e <= -1)
  <2>1. e <= -1 => e * g <= -g
    BY <1>1
  <2> QED
    BY <1>1, <2>1
<1> QED
  BY <1>1, <1>2, <1>3

\* The two clocks come back in step after K periods of one and J of the other.
LEMMA InStepAgain ==
  ASSUME NEW p, NEW q, NEW g, NEW K, NEW J, Periods(p, q, g, K, J)
  PROVE  K > 0 /\ J > 0 /\ K * q = J * p
<1>1. /\ p \in Nat /\ q \in Nat /\ g \in Nat /\ K \in Nat /\ J \in Nat
      /\ p > 0 /\ q > 0 /\ g > 0 /\ p = K * g /\ q = J * g
  BY DEF Periods
<1>2. K # 0 /\ J # 0
  BY <1>1
<1>3. K * (J * g) = J * (K * g)
  BY <1>1
<1> QED
  BY <1>1, <1>2, <1>3

\* They are in step nowhere else.
LEMMA InStepOnly ==
  ASSUME NEW p, NEW q, NEW g, NEW K, NEW J, Periods(p, q, g, K, J),
         NEW i \in Int, NEW j \in Int, i * q = j * p
  PROVE  \E t \in Int : i = t * K /\ j = t * J
<1>1. /\ p \in Int /\ q \in Int /\ g \in Nat /\ K \in Int /\ J \in Int
      /\ g > 0 /\ p = K * g /\ q = J * g
  BY DEF Periods
<1>2. PICK u \in Int, v \in Int : g = u * p + v * q
  BY DEF Periods, Combines
<1>3. 1 = u * K + v * J
  <2>1. u * K + v * J \in Int /\ (u * K + v * J) * g = u * (K * g) + v * (J * g)
    BY <1>1, <1>2
  <2>2. (u * K + v * J) * g = 1 * g
    BY <1>1, <1>2, <2>1
  <2> HIDE DEF Periods
  <2> QED
    BY <1>1, <2>1, <2>2, Cancel
<1>4. i * J = j * K
  <2>1. i * J \in Int /\ j * K \in Int /\ (i * J) * g = i * (J * g) /\ (j * K) * g = j * (K * g)
    BY <1>1
  <2>2. (i * J) * g = (j * K) * g
    BY <1>1, <2>1
  <2> QED
    BY <1>1, <2>1, <2>2, Cancel
<1> DEFINE t == i * u + j * v
<1>5. t \in Int
  BY <1>2
<1>6. i = t * K
  <2>1. i = i * (u * K + v * J)
    BY <1>3
  <2>2. i * (u * K + v * J) = (i * u) * K + v * (i * J)
    BY <1>1, <1>2
  <2>3. v * (i * J) = v * (j * K)
    BY <1>4
  <2>4. t * K = (i * u) * K + v * (j * K)
    BY <1>1, <1>2
  <2> QED
    BY <2>1, <2>2, <2>3, <2>4
<1>7. j = t * J
  <2>1. j = j * (u * K + v * J)
    BY <1>3
  <2>2. j * (u * K + v * J) = u * (j * K) + (j * v) * J
    BY <1>1, <1>2
  <2>3. u * (j * K) = u * (i * J)
    BY <1>4
  <2>4. t * J = u * (i * J) + (j * v) * J
    BY <1>1, <1>2
  <2> QED
    BY <2>1, <2>2, <2>3, <2>4
<1> QED
  BY <1>5, <1>6, <1>7

\* Every multiple of g lies between the starts of two of their periods, the first of which is
\* among the first K.
LEMMA EveryMultipleMet ==
  ASSUME NEW p, NEW q, NEW g, NEW K, NEW J, Periods(p, q, g, K, J),
         NEW d \in Int, MultipleOf(g, d)
  PROVE  \E m \in 0 .. K - 1, n \in Int : d = m * q - n * p
<1>1. /\ p \in Int /\ q \in Int /\ g \in Nat /\ K \in Nat /\ J \in Nat
  BY DEF Periods
<1>2. PICK u \in Int, v \in Int : g = u * p + v * q
  BY DEF Periods, Combines
<1>3. PICK k \in Int : d = k * g
  BY DEF MultipleOf
<1>4. K > 0 /\ K * q = J * p
  BY InStepAgain
<1> DEFINE a == k * v
           b == k * u
           m == a % K
           c == a \div K
<1>5. a \in Int /\ b \in Int /\ d = a * q + b * p
  <2>1. k * (u * p + v * q) = (k * v) * q + (k * u) * p
    BY <1>1, <1>2, <1>3
  <2> QED
    BY <1>1, <1>2, <1>3, <2>1
<1> HIDE DEF a, b
<1>6. a = c * K + m /\ c \in Int /\ m \in 0 .. K - 1
  BY <1>1, <1>4, <1>5
<1> HIDE DEF m, c
<1> DEFINE n == -(b + c * J)
<1>7. n \in Int
  BY <1>1, <1>5, <1>6
<1>8. a * q = c * (J * p) + m * q
  <2>1. a * q = c * (K * q) + m * q
    BY <1>1, <1>6
  <2> QED
    BY <1>4, <2>1
<1>9. n * p = -(b * p) - c * (J * p)
  BY <1>1, <1>5, <1>6
<1>10. d = m * q - n * p
  <2>1. a * q \in Int /\ c * (J * p) \in Int /\ m * q \in Int /\ b * p \in Int /\ n * p \in Int
    BY <1>1, <1>5, <1>6, <1>7
  <2> HIDE DEF n
  <2> QED
    BY <1>5, <1>8, <1>9, <2>1
<1> QED
  BY <1>6, <1>7, <1>10

-----------------------------------------------------------------------------
(* Counting up                                                             *)

\* A set of naturals with zero and with the next of each has them all.
LEMMA Counting ==
  ASSUME NEW S, 0 \in S, \A n \in Nat : n \in S => n + 1 \in S
  PROVE  Nat \subseteq S
<1> DEFINE T == Nat \ S
<1>1. SUFFICES ASSUME T # {} PROVE FALSE
  OBVIOUS
<1>2. PICK n \in T : \A y \in T : n <= y
  <2>1. T \in SUBSET Nat
    OBVIOUS
  <2> HIDE DEF T
  <2> QED
    BY <1>1, <2>1, LeastNat
<1>3. n \in Nat /\ n # 0 /\ n - 1 \in Nat /\ ~(n <= n - 1) /\ (n - 1) + 1 = n
  BY <1>2
<1>4. n - 1 \notin T
  BY <1>2, <1>3
<1>5. n - 1 \in S
  BY <1>3, <1>4
<1> QED
  BY <1>3, <1>5

\* f[n] is what step makes of base, n times.
Repeats(f, base, step) == f[0] = base /\ \A n \in Nat : f[n + 1] = step[f[n]]

\* There is such a function.
LEMMA RepeatExists ==
  ASSUME NEW D, NEW base \in D, NEW step \in [D -> D]
  PROVE  \E f \in [Nat -> D] : Repeats(f, base, step)
<1> DEFINE Upto(h, m) == /\ h \in [0 .. m -> D] /\ h[0] = base
                         /\ \A k \in 1 .. m : h[k] = step[h[k - 1]]
           pick == [m \in Nat |-> CHOOSE h : Upto(h, m)]
           f == [n \in Nat |-> pick[n][n]]
<1>1. \A m \in Nat : \E h : Upto(h, m)
  <2> DEFINE S == {m \in Nat : \E h : Upto(h, m)}
  <2>1. 0 \in S
    <3>1. Upto([k \in 0 .. 0 |-> base], 0)
      OBVIOUS
    <3> QED
      BY <3>1
  <2>2. ASSUME NEW m \in Nat, m \in S PROVE m + 1 \in S
    <3>1. PICK h : Upto(h, m)
      BY <2>2
    <3> DEFINE g == [k \in 0 .. m + 1 |-> IF k <= m THEN h[k] ELSE step[h[m]]]
    <3>2. h[m] \in D /\ step[h[m]] \in D
      BY <3>1
    <3>3. \A k \in 0 .. m + 1 : g[k] = IF k <= m THEN h[k] ELSE step[h[m]]
      OBVIOUS
    <3>4. g \in [0 .. m + 1 -> D] /\ g[0] = base
      BY <3>1, <3>2
    <3> HIDE DEF g
    <3>5. ASSUME NEW k \in 1 .. m + 1 PROVE g[k] = step[g[k - 1]]
      <4>1. k \in 0 .. m + 1 /\ k - 1 \in 0 .. m + 1 /\ k - 1 <= m
        OBVIOUS
      <4>2. g[k - 1] = h[k - 1]
        BY <3>3, <4>1
      <4>3. CASE k <= m
        <5>1. k \in 1 .. m
          BY <4>3
        <5> QED
          BY <3>1, <3>3, <4>1, <4>2, <4>3, <5>1
      <4>4. CASE ~(k <= m)
        <5>1. k - 1 = m
          BY <4>4
        <5> QED
          BY <3>3, <4>1, <4>2, <4>4, <5>1
      <4> QED
        BY <4>3, <4>4
    <3>6. Upto(g, m + 1)
      BY <3>4, <3>5
    <3> QED
      BY <3>6
  <2> HIDE DEF Upto
  <2>3. \A m \in Nat : m \in S => m + 1 \in S
    BY <2>2
  <2> HIDE DEF S
  <2>4. Nat \subseteq S
    BY <2>1, <2>3, Counting
  <2> QED
    BY <2>4 DEF S
<1>2. \A m \in Nat : Upto(pick[m], m)
  <2> HIDE DEF Upto
  <2> QED
    BY <1>1
<1>3. ASSUME NEW m \in Nat, NEW h, NEW g, Upto(h, m), Upto(g, m + 1)
      PROVE  g[m] = h[m]
  <2> DEFINE S == {k \in Nat : k <= m => g[k] = h[k]}
  <2>1. 0 \in S
    BY <1>3
  <2>2. ASSUME NEW k \in Nat, k \in S PROVE k + 1 \in S
    <3>1. SUFFICES ASSUME k + 1 <= m PROVE g[k + 1] = h[k + 1]
      OBVIOUS
    <3>2. k + 1 \in 1 .. m /\ k + 1 \in 1 .. m + 1 /\ (k + 1) - 1 = k /\ k <= m
      BY <3>1
    <3>3. g[k] = h[k]
      BY <2>2, <3>2
    <3>4. g[k + 1] = step[g[(k + 1) - 1]] /\ h[k + 1] = step[h[(k + 1) - 1]]
      BY <1>3, <3>2
    <3> QED
      BY <3>2, <3>3, <3>4
  <2>3. \A k \in Nat : k \in S => k + 1 \in S
    BY <2>2
  <2> HIDE DEF S
  <2>4. Nat \subseteq S
    BY <2>1, <2>3, Counting
  <2>5. m \in S
    BY <2>4
  <2> QED
    BY <2>5 DEF S
<1>4. ASSUME NEW n \in Nat PROVE f[n] \in D /\ f[n + 1] = step[f[n]]
  <2>1. Upto(pick[n], n) /\ Upto(pick[n + 1], n + 1)
    <3> HIDE DEF Upto, pick
    <3>1. n + 1 \in Nat
      OBVIOUS
    <3> QED
      BY <1>2, <3>1
  <2>2. pick[n + 1][n] = pick[n][n]
    <3> HIDE DEF Upto, pick
    <3> QED
      BY <1>3, <2>1
  <2> HIDE DEF pick
  <2>3. pick[n + 1][n + 1] = step[pick[n + 1][n]]
    <3>1. n + 1 \in 1 .. n + 1 /\ (n + 1) - 1 = n
      OBVIOUS
    <3> QED
      BY <2>1, <3>1
  <2>4. pick[n][n] \in D
    BY <2>1
  <2> QED
    BY <2>2, <2>3, <2>4
<1>5. f[0] = base
  BY <1>2
<1> HIDE DEF pick
<1>6. f \in [Nat -> D]
  BY <1>4
<1>7. Repeats(f, base, step)
  BY <1>4, <1>5 DEF Repeats
<1> QED
  BY <1>6, <1>7
=============================================================================
