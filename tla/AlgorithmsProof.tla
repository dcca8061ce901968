---------------------------- MODULE AlgorithmsProof ----------------------------
(***************************************************************************)
(* The pure parts of the service, for inputs of any size: decimal amounts   *)
(* and the order on them, sums of committed spend, routing, the settlement  *)
(* transaction and the choice of a cluster.                                 *)
(*                                                                          *)
(* Recursion is brought to first-order induction: a recursive function is a *)
(* CHOOSE of one that satisfies its equation, and a lemma builds one, by    *)
(* induction over a set of numbers (NatSet) or over the subsets of a finite *)
(* set (SubsetInduction).                                                   *)
(***************************************************************************)
EXTENDS Algorithms, TLAPS, FiniteSetTheorems, WellFoundedInduction

-----------------------------------------------------------------------------
(* The order on amounts                                                     *)

\* A pad of zeros is a digit string.
LEMMA ZerosType ==
  ASSUME NEW n \in Nat
  PROVE  Zeros(n) \in Seq(Digit) /\ Len(Zeros(n)) = n
  BY DEF Zeros, Digit

\* Two digit strings in a row.
LEMMA Joined ==
  ASSUME NEW s \in Seq(Digit), NEW t \in Seq(Digit)
  PROVE  s \o t \in Seq(Digit) /\ Len(s \o t) = Len(s) + Len(t)
  OBVIOUS

\* align answers a digit string of the width and the scale it is asked for.
LEMMA AlignType ==
  ASSUME NEW i \in Seq(Digit), NEW f \in Seq(Digit), NEW w \in Nat, NEW s \in Nat,
         Len(i) <= w, Len(f) <= s
  PROVE  align(i, f, w, s) \in Seq(Digit) /\ Len(align(i, f, w, s)) = w + s
<1>1. /\ Len(i) \in Nat /\ Len(f) \in Nat
  OBVIOUS
<1>2. w - Len(i) \in Nat /\ s - Len(f) \in Nat
  BY <1>1
<1> DEFINE l == Zeros(w - Len(i))
           r == Zeros(s - Len(f))
<1>3. l \in Seq(Digit) /\ Len(l) = w - Len(i) /\ r \in Seq(Digit) /\ Len(r) = s - Len(f)
  BY <1>2, ZerosType
<1> HIDE DEF l, r
<1>4. l \o i \in Seq(Digit) /\ Len(l \o i) = w
  BY <1>1, <1>3
<1>5. (l \o i) \o f \in Seq(Digit) /\ Len((l \o i) \o f) = w + Len(f)
  BY <1>1, <1>4
<1>6. ((l \o i) \o f) \o r \in Seq(Digit) /\ Len(((l \o i) \o f) \o r) = w + s
  <2> DEFINE q == (l \o i) \o f
  <2>1. q \in Seq(Digit) /\ Len(q) = w + Len(f)
    BY <1>5
  <2> HIDE DEF q
  <2>2. q \o r \in Seq(Digit) /\ Len(q \o r) = Len(q) + Len(r)
    BY <1>3, <2>1, Joined
  <2>3. Len(q \o r) = w + s
    BY <1>1, <1>3, <2>1, <2>2
  <2> QED
    BY <2>2, <2>3 DEF q
<1> QED
  BY <1>6 DEF align, l, r

\* Go's < on two strings of equal length is a strict order's: never both ways.
LEMMA BeforeAsymmetric ==
  ASSUME NEW s \in Seq(Digit), NEW t \in Seq(Digit), Len(s) = Len(t), Before(s, t)
  PROVE  ~Before(t, s)
<1> SUFFICES ASSUME Before(t, s) PROVE FALSE
  OBVIOUS
<1>1. PICK i \in 1 .. Len(s) : s[i] < t[i] /\ \A j \in 1 .. i - 1 : s[j] = t[j]
  BY DEF Before
<1>2. PICK k \in 1 .. Len(s) : t[k] < s[k] /\ \A j \in 1 .. k - 1 : t[j] = s[j]
  BY DEF Before
<1>3. \A j \in 1 .. Len(s) : s[j] \in Int /\ t[j] \in Int
  BY DEF Digit
<1>4. Len(s) \in Nat
  OBVIOUS
<1>5. CASE i < k
  BY <1>1, <1>2, <1>3, <1>4, <1>5
<1>6. CASE k < i
  BY <1>1, <1>2, <1>3, <1>4, <1>6
<1>7. CASE i = k
  BY <1>1, <1>2, <1>3, <1>7
<1> QED
  BY <1>4, <1>5, <1>6, <1>7

\* The strings Cmp compares have one length.
LEMMA Aligned ==
  ASSUME NEW a \in DecimalAmount, NEW b \in DecimalAmount
  PROVE  LET w == Longer(a.integer, b.integer)
             s == Longer(a.fraction, b.fraction)
             at == align(a.integer, a.fraction, w, s)
             bt == align(b.integer, b.fraction, w, s)
         IN  /\ at \in Seq(Digit) /\ bt \in Seq(Digit) /\ Len(at) = Len(bt)
             /\ Longer(b.integer, a.integer) = w /\ Longer(b.fraction, a.fraction) = s
<1> DEFINE w == Longer(a.integer, b.integer)
           s == Longer(a.fraction, b.fraction)
<1>1. /\ a.integer \in Seq(Digit) /\ a.fraction \in Seq(Digit)
      /\ b.integer \in Seq(Digit) /\ b.fraction \in Seq(Digit)
  BY DEF DecimalAmount
<1>2. /\ Len(a.integer) \in Nat /\ Len(a.fraction) \in Nat
      /\ Len(b.integer) \in Nat /\ Len(b.fraction) \in Nat
  BY <1>1
<1>3. /\ w \in Nat /\ Len(a.integer) <= w /\ Len(b.integer) <= w
      /\ s \in Nat /\ Len(a.fraction) <= s /\ Len(b.fraction) <= s
      /\ Longer(b.integer, a.integer) = w /\ Longer(b.fraction, a.fraction) = s
  BY <1>2 DEF Longer
<1> HIDE DEF w, s
<1>4. ASSUME NEW i \in Seq(Digit), NEW f \in Seq(Digit), Len(i) <= w, Len(f) <= s
      PROVE  align(i, f, w, s) \in Seq(Digit) /\ Len(align(i, f, w, s)) = w + s
  BY <1>3, <1>4, AlignType
<1> QED
  BY <1>1, <1>3, <1>4 DEF w, s

\* Cmp is antisymmetric, so an amount compares equal to itself (money.Cmp).
THEOREM CmpAntisymmetric ==
  ASSUME NEW a \in DecimalAmount, NEW b \in DecimalAmount
  PROVE  Cmp(a, b) \in {-1, 0, 1} /\ Cmp(b, a) = 0 - Cmp(a, b) /\ Cmp(a, a) = 0
<1>1. ASSUME NEW x \in DecimalAmount, NEW y \in DecimalAmount
      PROVE  Cmp(x, y) \in {-1, 0, 1} /\ Cmp(y, x) = 0 - Cmp(x, y)
  <2> DEFINE w == Longer(x.integer, y.integer)
             s == Longer(x.fraction, y.fraction)
             xt == align(x.integer, x.fraction, w, s)
             yt == align(y.integer, y.fraction, w, s)
  <2>1. /\ xt \in Seq(Digit) /\ yt \in Seq(Digit) /\ Len(xt) = Len(yt)
        /\ Longer(y.integer, x.integer) = w /\ Longer(y.fraction, x.fraction) = s
    BY Aligned
  <2>2. Cmp(x, y) = IF Before(yt, xt) THEN 1 ELSE IF Before(xt, yt) THEN -1 ELSE 0
    BY DEF Cmp
  <2>3. Cmp(y, x) = IF Before(xt, yt) THEN 1 ELSE IF Before(yt, xt) THEN -1 ELSE 0
    BY <2>1 DEF Cmp
  <2> HIDE DEF xt, yt
  <2>4. ~(Before(xt, yt) /\ Before(yt, xt))
    BY <2>1, BeforeAsymmetric
  <2> QED
    BY <2>2, <2>3, <2>4
<1>2. Cmp(a, a) \in {-1, 0, 1} /\ Cmp(a, a) = 0 - Cmp(a, a)
  BY <1>1
<1> QED
  BY <1>1, <1>2

-----------------------------------------------------------------------------
(* Induction and sums                                                       *)

\* Induction over the natural numbers, on a set of them.
LEMMA NatSet ==
  ASSUME NEW S, S \subseteq Nat, 0 \in S, \A n \in S : n + 1 \in S
  PROVE  S = Nat
<1> DEFINE T == Nat \ S
           R == OpToRel(<, Nat)
<1> SUFFICES ASSUME T # {} PROVE FALSE
  OBVIOUS
<1>1. IsWellFoundedOn(R, Nat)
  BY NatLessThanWellFounded
<1>2. \A x, y \in Nat : x < y => << x, y >> \in R
  BY DEF OpToRel
<1>3. T \subseteq Nat
  OBVIOUS
<1> HIDE DEF R
<1>4. PICK m \in T : \A y \in T : ~ (<< y, m >> \in R)
  <2> HIDE DEF T
  <2> QED
    BY <1>1, <1>3, WFMin
<1>5. m # 0 /\ m \in Nat
  OBVIOUS
<1>6. m - 1 \in Nat /\ m - 1 < m
  BY <1>5
<1>7. m - 1 \notin T
  BY <1>2, <1>4, <1>5, <1>6
<1>8. (m - 1) + 1 \in S
  BY <1>6, <1>7
<1> QED
  BY <1>5, <1>8

\* A set of numbers has a least one.
LEMMA NatMin ==
  ASSUME NEW S, S \subseteq Nat, S # {}
  PROVE  \E m \in S : \A n \in S : m <= n
<1> DEFINE R == OpToRel(<, Nat)
<1>1. IsWellFoundedOn(R, Nat)
  BY NatLessThanWellFounded
<1>2. \A x, y \in Nat : x < y => << x, y >> \in R
  BY DEF OpToRel
<1> HIDE DEF R
<1>3. PICK m \in S : \A y \in S : ~ (<< y, m >> \in R)
  BY <1>1, WFMin
<1>4. \A n \in S : m <= n
  <2> SUFFICES ASSUME NEW n \in S, ~(m <= n) PROVE FALSE
    OBVIOUS
  <2>1. n \in Nat /\ m \in Nat /\ n < m
    OBVIOUS
  <2> QED
    BY <1>2, <1>3, <2>1
<1> QED
  BY <1>4

Hereditary(U, Q) == \A T \in SUBSET U : (\A x \in T : T \ {x} \in Q) => T \in Q
Picks(pick, U) == \A s \in SUBSET U : s # {} => pick[s] \in s
Steps(step, U, V) == \A x \in U, v \in V : step[<< x, v >>] \in V
IsFold(g, U, base, pick, step) == \A s \in SUBSET U :
           g[s] = IF s = {} THEN base ELSE step[<< pick[s], g[s \ {pick[s]}] >>]

\* Induction on the size of the subsets of a finite set.
LEMMA SubsetInduction ==
  ASSUME NEW U, IsFiniteSet(U), NEW Q, Hereditary(U, Q)
  PROVE  SUBSET U \subseteq Q
<1>0. \A T \in SUBSET U : (\A x \in T : T \ {x} \in Q) => T \in Q
  BY DEF Hereditary
<1> DEFINE Good == {n \in Nat : \A T \in SUBSET U : Cardinality(T) = n => T \in Q}
<1>1. \A T \in SUBSET U : IsFiniteSet(T) /\ Cardinality(T) \in Nat
  BY FS_Subset, FS_CardinalityType
<1>2. 0 \in Good
  <2>1. ASSUME NEW T \in SUBSET U, Cardinality(T) = 0 PROVE T \in Q
    BY <1>0, <1>1, <2>1, FS_EmptySet
  <2> QED
    BY <2>1
<1>3. ASSUME NEW n \in Good PROVE n + 1 \in Good
  <2>1. ASSUME NEW T \in SUBSET U, Cardinality(T) = n + 1 PROVE T \in Q
    <3>1. ASSUME NEW x \in T PROVE T \ {x} \in Q
      <4>1. Cardinality(T \ {x}) = n
        BY <1>1, <2>1, FS_RemoveElement
      <4> QED
        BY <4>1
    <3> QED
      BY <1>0, <3>1
  <2> QED
    BY <2>1
<1>4. Good = Nat
  <2>1. Good \subseteq Nat
    OBVIOUS
  <2> HIDE DEF Good
  <2> QED
    BY <1>2, <1>3, <2>1, NatSet
<1> QED
  BY <1>1, <1>4

\* A fold over the subsets of a finite set exists, whatever order it picks in.
LEMMA FoldExists ==
  ASSUME NEW U, IsFiniteSet(U), NEW V, NEW base \in V, NEW pick, NEW step,
         Picks(pick, U), Steps(step, U, V)
  PROVE  \E g \in [SUBSET U -> V] : IsFold(g, U, base, pick, step)
<1> USE DEF Picks, Steps
<1> DEFINE Small(n) == {s \in SUBSET U : Cardinality(s) <= n}
           Next(g, s) == IF s = {} THEN base ELSE step[<< pick[s], g[s \ {pick[s]}] >>]
           Good == {n \in Nat : \E g \in [Small(n) -> V] : \A s \in Small(n) : g[s] = Next(g, s)}
<1>1. \A T \in SUBSET U : IsFiniteSet(T) /\ Cardinality(T) \in Nat
  BY FS_Subset, FS_CardinalityType
<1>a. ASSUME NEW s \in SUBSET U, s # {}
      PROVE  /\ pick[s] \in s /\ s \ {pick[s]} \in SUBSET U
             /\ Cardinality(s \ {pick[s]}) = Cardinality(s) - 1
  BY <1>1, <1>a, FS_RemoveElement
<1>2. 0 \in Good
  <2>1. \A s \in Small(0) : s = {}
    BY <1>1, FS_EmptySet
  <2> DEFINE g == [s \in Small(0) |-> base]
  <2>2. g \in [Small(0) -> V]
    OBVIOUS
  <2>3. \A s \in Small(0) : g[s] = Next(g, s)
    BY <2>1
  <2> QED
    BY <2>2, <2>3
<1>3. ASSUME NEW n \in Good PROVE n + 1 \in Good
  <2>1. PICK g \in [Small(n) -> V] : \A s \in Small(n) : g[s] = Next(g, s)
    OBVIOUS
  <2> DEFINE h == [s \in Small(n + 1) |-> Next(g, s)]
  <2>2. ASSUME NEW s \in Small(n + 1), s # {} PROVE s \ {pick[s]} \in Small(n)
    BY <1>1, <1>a, <2>2
  <2>3. h \in [Small(n + 1) -> V]
    <3>1. ASSUME NEW s \in Small(n + 1) PROVE Next(g, s) \in V
      <4>1. CASE s = {}
        BY <4>1
      <4>2. CASE s # {}
        <5>1. g[s \ {pick[s]}] \in V /\ pick[s] \in U
          BY <1>a, <2>2, <4>2
        <5> QED
          BY <4>2, <5>1
      <4> QED
        BY <4>1, <4>2
    <3> HIDE DEF Next
    <3> QED
      BY <3>1
  <2>4. ASSUME NEW s \in Small(n) PROVE s \in Small(n + 1) /\ h[s] = g[s]
    <3>1. s \in Small(n + 1)
      BY <1>1
    <3> HIDE DEF Next
    <3> QED
      BY <2>1, <3>1
  <2>5. ASSUME NEW s \in Small(n + 1) PROVE h[s] = Next(h, s)
    <3>1. h[s] = Next(g, s)
      OBVIOUS
    <3>2. CASE s = {}
      BY <3>1, <3>2
    <3>3. CASE s # {}
      <4>1. h[s \ {pick[s]}] = g[s \ {pick[s]}]
        BY <2>2, <2>4, <3>3
      <4> HIDE DEF h
      <4> QED
        BY <3>1, <4>1
    <3> QED
      BY <3>2, <3>3
  <2> HIDE DEF h, Next
  <2>6. \E k \in [Small(n + 1) -> V] : \A s \in Small(n + 1) : k[s] = Next(k, s)
    BY <2>3, <2>5
  <2>7. n + 1 \in Nat
    OBVIOUS
  <2> HIDE DEF Small
  <2> QED
    BY <2>6, <2>7
<1>4. Good = Nat
  <2>1. Good \subseteq Nat
    OBVIOUS
  <2> HIDE DEF Good
  <2> QED
    BY <1>2, <1>3, <2>1, NatSet
<1>5. Small(Cardinality(U)) = SUBSET U
  BY <1>1, FS_Subset
<1>6. Cardinality(U) \in Good
  BY <1>1, <1>4
<1>7. PICK g \in [Small(Cardinality(U)) -> V] : \A s \in Small(Cardinality(U)) : g[s] = Next(g, s)
  BY <1>6
<1> QED
  BY <1>5, <1>7 DEF IsFold

\* There is one fold of a step, a base and an order of picking.
LEMMA FoldUnique ==
  ASSUME NEW U, IsFiniteSet(U), NEW base, NEW pick, NEW step, NEW g, NEW h,
         Picks(pick, U), IsFold(g, U, base, pick, step), IsFold(h, U, base, pick, step)
  PROVE  \A s \in SUBSET U : g[s] = h[s]
<1> DEFINE Q == {s \in SUBSET U : g[s] = h[s]}
<1>1. ASSUME NEW T \in SUBSET U, \A x \in T : T \ {x} \in Q PROVE T \in Q
  <2>1. CASE T = {}
    BY <2>1 DEF IsFold
  <2>2. CASE T # {}
    <3>1. g[T \ {pick[T]}] = h[T \ {pick[T]}]
      BY <1>1, <2>2 DEF Picks
    <3> QED
      BY <2>2, <3>1 DEF IsFold
  <2> QED
    BY <2>1, <2>2
<1>2. SUBSET U \subseteq Q
  <2> HIDE DEF Q
  <2>1. Hereditary(U, Q)
    BY <1>1 DEF Hereditary
  <2> QED
    BY <2>1, SubsetInduction
<1> QED
  BY <1>2

Chosen(s) == CHOOSE x \in s : TRUE

\* What the sum of a function is defined as.
LEMMA SumUnfold ==
  ASSUME NEW f
  PROVE SumFunction(f) = (CHOOSE g : g = [s \in SUBSET DOMAIN f |-> IF s = {} THEN 0
                    ELSE f[Chosen(s)] + g[s \ {Chosen(s)}]])[DOMAIN f]
  BY DEF SumFunction, SumFunctionOnSet, FoldFunctionOnSet, MapThenFoldSet, Chosen

IsSumTable(g, U, f) ==
  /\ g \in [SUBSET U -> Int] /\ g[{}] = 0
  /\ \A s \in SUBSET U : \A x \in s : g[s] = f[x] + g[s \ {x}]
  /\ \A T \in SUBSET U : SumFunction([u \in T |-> f[u]]) = g[T]

\* The sum over every subset of a finite set: any element may be taken out first.
LEMMA SumTable ==
  ASSUME NEW U, IsFiniteSet(U), NEW f \in [U -> Int]
  PROVE  \E g : IsSumTable(g, U, f)
<1> DEFINE pick == [s \in SUBSET U |-> Chosen(s)]
           step == [p \in U \X Int |-> f[p[1]] + p[2]]
<1>1. \A s \in SUBSET U : s # {} => pick[s] \in s
  BY DEF Chosen
<1>2. \A x \in U, v \in Int : step[<< x, v >>] \in Int /\ step[<< x, v >>] = f[x] + v
  OBVIOUS
<1>3. PICK g \in [SUBSET U -> Int] : \A s \in SUBSET U :
        g[s] = IF s = {} THEN 0 ELSE step[<< pick[s], g[s \ {pick[s]}] >>]
  <2>1. Steps(step, U, Int) /\ Picks(pick, U)
    BY <1>1, <1>2 DEF Steps, Picks
  <2>2. 0 \in Int
    OBVIOUS
  <2> HIDE DEF pick, step
  <2>3. \E g \in [SUBSET U -> Int] : IsFold(g, U, 0, pick, step)
    BY <2>1, <2>2, FoldExists
  <2> QED
    BY <2>3 DEF IsFold
<1>4. ASSUME NEW s \in SUBSET U, s # {}
      PROVE  Chosen(s) \in s /\ g[s] = f[Chosen(s)] + g[s \ {Chosen(s)}]
  <2>1. pick[s] = Chosen(s) /\ Chosen(s) \in U /\ Chosen(s) \in s
    BY <1>1, <1>4
  <2>2. g[s \ {Chosen(s)}] \in Int
    OBVIOUS
  <2>3. g[s] = step[<< Chosen(s), g[s \ {Chosen(s)}] >>]
    <3> HIDE DEF pick, step
    <3> QED
      BY <1>3, <1>4, <2>1
  <2> HIDE DEF pick, step
  <2> QED
    BY <1>2, <2>1, <2>2, <2>3
<1>5. g[{}] = 0
  BY <1>3
<1> HIDE DEF pick, step
<1>6. \A s \in SUBSET U : \A x \in s : g[s] = f[x] + g[s \ {x}]
  <2> DEFINE Q == {s \in SUBSET U : \A x \in s : g[s] = f[x] + g[s \ {x}]}
  <2>1. ASSUME NEW T \in SUBSET U, \A x \in T : T \ {x} \in Q PROVE T \in Q
    <3> SUFFICES ASSUME NEW x \in T PROVE g[T] = f[x] + g[T \ {x}]
      OBVIOUS
    <3> PICK p : p = Chosen(T)
      OBVIOUS
    <3>1. p \in T /\ g[T] = f[p] + g[T \ {p}]
      BY <1>4
    <3>2. CASE x = p
      BY <3>1, <3>2
    <3>3. CASE x # p
      <4>1. g[T \ {p}] = f[x] + g[(T \ {p}) \ {x}]
        BY <2>1, <3>1, <3>3
      <4>2. g[T \ {x}] = f[p] + g[(T \ {x}) \ {p}]
        BY <2>1, <3>1, <3>3
      <4>3. (T \ {p}) \ {x} = (T \ {x}) \ {p}
        OBVIOUS
      <4>4. \A r \in Int : f[p] + (f[x] + r) = f[x] + (f[p] + r)
        BY <3>1
      <4>5. g[(T \ {x}) \ {p}] \in Int
        BY <3>1
      <4> QED
        BY <3>1, <4>1, <4>2, <4>3, <4>4, <4>5
    <3> QED
      BY <3>2, <3>3
  <2>2. SUBSET U \subseteq Q
    <3> HIDE DEF Q
    <3>1. Hereditary(U, Q)
      BY <2>1 DEF Hereditary
    <3> QED
      BY <3>1, SubsetInduction
  <2> QED
    BY <2>2
<1>7. ASSUME NEW T \in SUBSET U PROVE SumFunction([u \in T |-> f[u]]) = g[T]
  <2> PICK k : k = [u \in T |-> f[u]]
    OBVIOUS
  <2> DEFINE Rec(h) == [s \in SUBSET DOMAIN k |-> IF s = {} THEN 0 ELSE k[Chosen(s)] + h[s \ {Chosen(s)}]]
             h0 == [s \in SUBSET T |-> g[s]]
             h1 == CHOOSE h : h = Rec(h)
  <2>1. DOMAIN k = T /\ \A x \in T : k[x] = f[x]
    OBVIOUS
  <2>2. \A s \in SUBSET T : s # {} => Chosen(s) \in s
    BY <1>4
  <2>3. h0 = Rec(h0)
    <3>1. ASSUME NEW s \in SUBSET T PROVE h0[s] = Rec(h0)[s]
      <4>1. CASE s = {}
        BY <1>5, <2>1, <4>1
      <4>2. CASE s # {}
        <5>1. Chosen(s) \in s /\ h0[s] = f[Chosen(s)] + g[s \ {Chosen(s)}]
          BY <1>4, <4>2
        <5>2. h0[s \ {Chosen(s)}] = g[s \ {Chosen(s)}]
          OBVIOUS
        <5> HIDE DEF h0
        <5> QED
          BY <2>1, <4>2, <5>1, <5>2
      <4> QED
        BY <4>1, <4>2
    <3>2. Rec(h0) = [s \in SUBSET T |-> Rec(h0)[s]]
      BY <2>1
    <3> HIDE DEF Rec
    <3> QED
      BY <3>1, <3>2
  <2>4. h1 = Rec(h1)
    <3> HIDE DEF Rec, h0
    <3> QED
      BY <2>3, Zenon
  <2> HIDE DEF h1
  <2> DEFINE Q == {s \in SUBSET T : h1[s] = g[s]}
  <2>5. ASSUME NEW s \in SUBSET T, \A x \in s : s \ {x} \in Q PROVE s \in Q
    <3>1. h1[s] = IF s = {} THEN 0 ELSE k[Chosen(s)] + h1[s \ {Chosen(s)}]
      BY <2>1, <2>4
    <3>2. CASE s = {}
      BY <1>5, <3>1, <3>2
    <3>3. CASE s # {}
      <4>1. Chosen(s) \in s /\ h1[s \ {Chosen(s)}] = g[s \ {Chosen(s)}]
        BY <2>2, <2>5, <3>3
      <4> QED
        BY <1>4, <2>1, <3>1, <3>3, <4>1
    <3> QED
      BY <3>2, <3>3
  <2>6. IsFiniteSet(T)
    BY FS_Subset
  <2>7. SUBSET T \subseteq Q
    <3> HIDE DEF Q
    <3>1. Hereditary(T, Q)
      BY <2>5 DEF Hereditary
    <3> QED
      BY <2>6, <3>1, SubsetInduction
  <2>8. SumFunction(k) = h1[T]
    <3>1. SumFunction(k) = (CHOOSE h : h = Rec(h))[DOMAIN k]
      BY SumUnfold
    <3> QED
      BY <2>1, <3>1 DEF h1
  <2> QED
    BY <2>7, <2>8
<1> QED
  BY <1>5, <1>6, <1>7 DEF IsSumTable

-----------------------------------------------------------------------------
(* The number a digit string denotes                                        *)

IsValueTable(up, d) ==
  /\ up \in [0 .. Len(d) -> Nat] /\ up[0] = 0
  /\ \A i \in 1 .. Len(d) : up[i] = 10 * up[i - 1] + d[i]

\* The running value of a digit string.
LEMMA ValueTable ==
  ASSUME NEW d \in Seq(Digit)
  PROVE  \E up : IsValueTable(up, d) /\ Value(d) = up[Len(d)]
<1> DEFINE Rec(u, n) == [i \in 0 .. n |-> IF i = 0 THEN 0 ELSE 10 * u[i - 1] + d[i]]
           Good == {n \in Nat : n <= Len(d) => \E u \in [0 .. n -> Nat] : u = Rec(u, n)}
<1>0. Len(d) \in Nat /\ \A i \in 1 .. Len(d) : d[i] \in Nat
  BY DEF Digit
<1>1. 0 \in Good
  <2> DEFINE u == [i \in 0 .. 0 |-> 0]
  <2>1. u \in [0 .. 0 -> Nat] /\ u = Rec(u, 0)
    OBVIOUS
  <2> QED
    BY <2>1
<1>2. ASSUME NEW n \in Good PROVE n + 1 \in Good
  <2>1. n + 1 \in Nat /\ n \in Nat
    OBVIOUS
  <2> SUFFICES ASSUME n + 1 <= Len(d) PROVE \E u \in [0 .. n + 1 -> Nat] : u = Rec(u, n + 1)
    BY <2>1
  <2>2. PICK u \in [0 .. n -> Nat] : u = Rec(u, n)
    BY <1>0, <2>1
  <2> DEFINE v == [i \in 0 .. n + 1 |-> IF i <= n THEN u[i] ELSE 10 * u[n] + d[n + 1]]
  <2>3. v \in [0 .. n + 1 -> Nat]
    BY <1>0, <2>1
  <2>4. ASSUME NEW i \in 0 .. n + 1 PROVE v[i] = IF i = 0 THEN 0 ELSE 10 * v[i - 1] + d[i]
    <3>1. CASE i = 0
      BY <2>1, <2>2, <3>1
    <3>2. CASE i \in 1 .. n
      <4>1. u[i] = 10 * u[i - 1] + d[i]
        BY <2>1, <2>2, <3>2
      <4>2. v[i] = u[i] /\ v[i - 1] = u[i - 1]
        BY <2>1, <3>2
      <4> HIDE DEF v
      <4> QED
        BY <3>2, <4>1, <4>2
    <3>3. CASE i = n + 1
      <4>1. v[i] = 10 * u[n] + d[n + 1] /\ v[n] = u[n] /\ i - 1 = n
        BY <2>1, <3>3
      <4> HIDE DEF v
      <4> QED
        BY <2>1, <3>3, <4>1
    <3> QED
      BY <2>1, <3>1, <3>2, <3>3
  <2>5. v = Rec(v, n + 1)
    <3> DEFINE w == Rec(v, n + 1)
    <3>1. \A i \in 0 .. n + 1 : w[i] = v[i]
      BY <2>4
    <3>2. w = [i \in 0 .. n + 1 |-> w[i]] /\ v = [i \in 0 .. n + 1 |-> v[i]]
      OBVIOUS
    <3> HIDE DEF w, v
    <3>3. w = v
      BY <3>1, <3>2
    <3> QED
      BY <3>3 DEF w
  <2> QED
    BY <2>3, <2>5
<1>3. Good = Nat
  <2>1. Good \subseteq Nat
    OBVIOUS
  <2> HIDE DEF Good
  <2> QED
    BY <1>1, <1>2, <2>1, NatSet
<1>4. \E u : u = Rec(u, Len(d)) /\ u \in [0 .. Len(d) -> Nat]
  BY <1>0, <1>3
<1> DEFINE up == CHOOSE u : u = Rec(u, Len(d))
<1>5. up = Rec(up, Len(d))
  <2> HIDE DEF Rec
  <2> QED
    BY <1>4, Zenon
<1>6. Value(d) = up[Len(d)]
  BY DEF Value
<1> HIDE DEF up
<1>7. up[0] = 0 /\ \A i \in 1 .. Len(d) : up[i] = 10 * up[i - 1] + d[i]
  BY <1>0, <1>5
<1>8. up \in [0 .. Len(d) -> Nat]
  <2> DEFINE N == {n \in Nat : n <= Len(d) => up[n] \in Nat}
  <2>1. 0 \in N
    BY <1>7
  <2>2. ASSUME NEW n \in N PROVE n + 1 \in N
    <3> SUFFICES ASSUME n + 1 <= Len(d) PROVE up[n + 1] \in Nat
      OBVIOUS
    <3>1. n + 1 \in 1 .. Len(d) /\ (n + 1) - 1 = n /\ up[n] \in Nat
      BY <1>0
    <3>2. up[n + 1] = 10 * up[n] + d[n + 1]
      BY <1>7, <3>1
    <3> QED
      BY <1>0, <3>1, <3>2
  <2>3. N = Nat
    <3>1. N \subseteq Nat
      OBVIOUS
    <3> HIDE DEF N
    <3> QED
      BY <2>1, <2>2, <3>1, NatSet
  <2>4. \A i \in 0 .. Len(d) : up[i] \in Nat
    BY <1>0, <2>3
  <2>5. up = [i \in 0 .. Len(d) |-> up[i]]
    <3>1. up = [i \in 0 .. Len(d) |-> Rec(up, Len(d))[i]]
      BY <1>5
    <3> QED
      BY <1>5, <3>1
  <2> HIDE DEF N
  <2> QED
    BY <2>4, <2>5
<1> QED
  BY <1>6, <1>7, <1>8 DEF IsValueTable

\* A digit string denotes a natural number.
LEMMA ValueNat ==
  ASSUME NEW d \in Seq(Digit)
  PROVE  Value(d) \in Nat
<1>1. PICK up : IsValueTable(up, d) /\ Value(d) = up[Len(d)]
  BY ValueTable
<1>2. Len(d) \in 0 .. Len(d)
  OBVIOUS
<1> QED
  BY <1>1, <1>2 DEF IsValueTable

\* One more digit keeps an order of two prefixes.
LEMMA DigitStep ==
  ASSUME NEW a \in Nat, NEW b \in Nat, NEW x \in 0 .. 9, NEW y \in 0 .. 9,
         a < b \/ (a = b /\ x < y)
  PROVE  10 * a + x < 10 * b + y
  OBVIOUS

\* Of two strings of equal length, the one that is not after the other in Go's order
\* denotes no larger number, and a smaller one unless they are one string.
LEMMA ValueOrder ==
  ASSUME NEW s \in Seq(Digit), NEW t \in Seq(Digit), Len(s) = Len(t), ~Before(t, s)
  PROVE  Value(s) <= Value(t) /\ (Value(s) = Value(t) => s = t)
<1>1. PICK us : IsValueTable(us, s) /\ Value(s) = us[Len(s)]
  BY ValueTable
<1>2. PICK ut : IsValueTable(ut, t) /\ Value(t) = ut[Len(t)]
  BY ValueTable
<1> DEFINE L == Len(s)
<1>3. /\ L \in Nat
      /\ \A i \in 1 .. L : s[i] \in 0 .. 9 /\ t[i] \in 0 .. 9
      /\ \A i \in 0 .. L : us[i] \in Nat /\ ut[i] \in Nat
      /\ us[0] = 0 /\ ut[0] = 0
      /\ \A i \in 1 .. L : us[i] = 10 * us[i - 1] + s[i] /\ ut[i] = 10 * ut[i - 1] + t[i]
  <2>1. L \in Nat /\ \A i \in 1 .. L : s[i] \in 0 .. 9 /\ t[i] \in 0 .. 9
    BY DEF Digit
  <2>2. us \in [0 .. L -> Nat] /\ ut \in [0 .. L -> Nat]
    BY <1>1, <1>2 DEF IsValueTable
  <2> QED
    BY <1>1, <1>2, <2>1, <2>2 DEF IsValueTable
<1>4. \A i \in 1 .. L : (\A j \in 1 .. i - 1 : s[j] = t[j]) => s[i] <= t[i]
  <2> SUFFICES ASSUME NEW i \in 1 .. L, \A j \in 1 .. i - 1 : s[j] = t[j], ~(s[i] <= t[i])
               PROVE  FALSE
    OBVIOUS
  <2>1. t[i] < s[i]
    <3>1. s[i] \in Int /\ t[i] \in Int
      <4>1. s[i] \in Digit /\ t[i] \in Digit
        OBVIOUS
      <4> QED
        BY <4>1 DEF Digit
    <3> QED
      BY <3>1
  <2> QED
    BY <2>1 DEF Before
<1> HIDE DEF L
<1> DEFINE Same(n) == us[n] = ut[n] /\ \A j \in 1 .. n : s[j] = t[j]
           Good == {n \in Nat : n <= L => Same(n) \/ us[n] < ut[n]}
<1>5. 0 \in Good
  BY <1>3
<1>6. ASSUME NEW n \in Good PROVE n + 1 \in Good
  <2> SUFFICES ASSUME n + 1 <= L PROVE Same(n + 1) \/ us[n + 1] < ut[n + 1]
    OBVIOUS
  <2>1. /\ n + 1 \in 1 .. L /\ n \in 0 .. L /\ (n + 1) - 1 = n /\ n <= L /\ n \in Nat
    BY <1>3
  <2>2. us[n + 1] = 10 * us[n] + s[n + 1] /\ ut[n + 1] = 10 * ut[n] + t[n + 1]
    BY <1>3, <2>1
  <2>3. s[n + 1] \in 0 .. 9 /\ t[n + 1] \in 0 .. 9 /\ us[n] \in Nat /\ ut[n] \in Nat
    BY <1>3, <2>1
  <2>4. CASE Same(n)
    <3>1. s[n + 1] <= t[n + 1]
      <4>1. \A j \in 1 .. (n + 1) - 1 : s[j] = t[j]
        BY <2>1, <2>4
      <4> QED
        BY <1>4, <2>1, <4>1
    <3>2. CASE s[n + 1] < t[n + 1]
      <4>1. 10 * us[n] + s[n + 1] < 10 * ut[n] + t[n + 1]
        BY <2>3, <2>4, <3>2, DigitStep
      <4> QED
        BY <2>2, <4>1
    <3>3. CASE s[n + 1] = t[n + 1]
      <4>1. us[n + 1] = ut[n + 1]
        BY <2>2, <2>4, <3>3
      <4>2. \A j \in 1 .. n + 1 : s[j] = t[j]
        BY <2>1, <2>4, <3>3
      <4> QED
        BY <4>1, <4>2
    <3> HIDE DEF Same
    <3> QED
      BY <2>3, <3>1, <3>2, <3>3
  <2>5. CASE us[n] < ut[n]
    <3>1. 10 * us[n] + s[n + 1] < 10 * ut[n] + t[n + 1]
      BY <2>3, <2>5, DigitStep
    <3> QED
      BY <2>2, <3>1
  <2> QED
    BY <2>1, <2>4, <2>5
<1>7. Good = Nat
  <2>1. Good \subseteq Nat
    OBVIOUS
  <2> HIDE DEF Good
  <2> QED
    BY <1>5, <1>6, <2>1, NatSet
<1>8. us[L] <= ut[L] /\ (us[L] = ut[L] => \A j \in 1 .. L : s[j] = t[j])
  <2>1. L \in Nat /\ L \in 0 .. L
    BY <1>3
  <2>2. us[L] \in Nat /\ ut[L] \in Nat
    BY <1>3, <2>1
  <2>3. Same(L) \/ us[L] < ut[L]
    BY <1>7, <2>1
  <2> QED
    BY <2>2, <2>3
<1>9. (\A j \in 1 .. L : s[j] = t[j]) => s = t
  BY DEF L
<1> QED
  BY <1>1, <1>2, <1>8, <1>9 DEF L

\* Zeros in front do not change the number.
LEMMA LeadingZeros ==
  ASSUME NEW d \in Seq(Digit), NEW z \in Seq(Digit), NEW k \in Nat, Len(z) = k + Len(d),
         \A i \in 1 .. k : z[i] = 0, \A i \in 1 .. Len(d) : z[k + i] = d[i]
  PROVE  Value(z) = Value(d)
<1>1. PICK ud : IsValueTable(ud, d) /\ Value(d) = ud[Len(d)]
  BY ValueTable
<1>2. PICK uz : IsValueTable(uz, z) /\ Value(z) = uz[Len(z)]
  BY ValueTable
<1> DEFINE L == Len(d)
<1>3. /\ L \in Nat
      /\ ud[0] = 0 /\ \A i \in 1 .. L : ud[i] = 10 * ud[i - 1] + d[i]
      /\ uz[0] = 0 /\ \A i \in 1 .. k + L : uz[i] = 10 * uz[i - 1] + z[i]
  BY <1>1, <1>2 DEF IsValueTable
<1> HIDE DEF L
<1> DEFINE Low == {n \in Nat : n <= k => uz[n] = 0}
<1>4. k \in Low
  <2>1. 0 \in Low
    BY <1>3
  <2>2. ASSUME NEW n \in Low PROVE n + 1 \in Low
    <3> SUFFICES ASSUME n + 1 <= k PROVE uz[n + 1] = 0
      OBVIOUS
    <3>1. n + 1 \in 1 .. k + L /\ (n + 1) - 1 = n /\ uz[n] = 0 /\ z[n + 1] = 0
      BY <1>3
    <3>2. uz[n + 1] = 10 * uz[n] + z[n + 1]
      BY <1>3, <3>1
    <3> QED
      BY <3>1, <3>2
  <2>3. Low = Nat
    <3>1. Low \subseteq Nat
      OBVIOUS
    <3> HIDE DEF Low
    <3> QED
      BY <2>1, <2>2, <3>1, NatSet
  <2> HIDE DEF Low
  <2> QED
    BY <2>3
<1> DEFINE Same == {n \in Nat : n <= L => uz[k + n] = ud[n]}
<1>5. L \in Same
  <2>1. 0 \in Same
    BY <1>3, <1>4
  <2>2. ASSUME NEW n \in Same PROVE n + 1 \in Same
    <3> SUFFICES ASSUME n + 1 <= L PROVE uz[k + (n + 1)] = ud[n + 1]
      OBVIOUS
    <3>1. /\ k + (n + 1) \in 1 .. k + L /\ (k + (n + 1)) - 1 = k + n /\ (n + 1) - 1 = n
          /\ n + 1 \in 1 .. L /\ uz[k + n] = ud[n]
      BY <1>3
    <3>2. z[k + (n + 1)] = d[n + 1]
      BY <3>1 DEF L
    <3>3. uz[k + (n + 1)] = 10 * uz[k + n] + z[k + (n + 1)] /\ ud[n + 1] = 10 * ud[n] + d[n + 1]
      BY <1>3, <3>1
    <3> QED
      BY <3>1, <3>2, <3>3
  <2>3. Same = Nat
    <3>1. Same \subseteq Nat
      OBVIOUS
    <3> HIDE DEF Same
    <3> QED
      BY <2>1, <2>2, <3>1, NatSet
  <2> HIDE DEF Same
  <2> QED
    BY <1>3, <2>3
<1> QED
  BY <1>1, <1>2, <1>3, <1>5 DEF L

\* The digits of an aligned amount, one by one.
LEMMA AlignAt ==
  ASSUME NEW i \in Seq(Digit), NEW f \in Seq(Digit), NEW w \in Nat, NEW s \in Nat,
         Len(i) <= w, Len(f) <= s, NEW n \in 1 .. w + s
  PROVE  align(i, f, w, s)[n] = IF n <= w - Len(i) THEN 0
                                ELSE IF n <= w THEN i[n - (w - Len(i))]
                                ELSE IF n <= w + Len(f) THEN f[n - w] ELSE 0
<1>1. /\ Len(i) \in Nat /\ Len(f) \in Nat
  OBVIOUS
<1>2. w - Len(i) \in Nat /\ s - Len(f) \in Nat
  BY <1>1
<1> DEFINE l == Zeros(w - Len(i))
           r == Zeros(s - Len(f))
<1>3. l \in Seq(Digit) /\ Len(l) = w - Len(i) /\ r \in Seq(Digit) /\ Len(r) = s - Len(f)
  BY <1>2, ZerosType
<1>4. (\A k \in 1 .. Len(l) : l[k] = 0) /\ (\A k \in 1 .. Len(r) : r[k] = 0)
  BY <1>2, <1>3 DEF Zeros
<1> HIDE DEF l, r
<1> DEFINE x == l \o i
<1>5. /\ x \in Seq(Digit) /\ Len(x) = w
      /\ \A k \in 1 .. w : x[k] = IF k <= Len(l) THEN l[k] ELSE i[k - Len(l)]
  <2>1. x \in Seq(Digit) /\ Len(x) = Len(l) + Len(i)
    BY <1>3, Joined
  <2>2. Len(l) + Len(i) = w
    BY <1>1, <1>3
  <2>3. \A k \in 1 .. Len(l) + Len(i) : x[k] = IF k <= Len(l) THEN l[k] ELSE i[k - Len(l)]
    BY <1>3
  <2> HIDE DEF x
  <2> QED
    BY <2>1, <2>2, <2>3
<1> HIDE DEF x
<1> DEFINE y == x \o f
<1>6. /\ y \in Seq(Digit) /\ Len(y) = w + Len(f)
      /\ \A k \in 1 .. w + Len(f) : y[k] = IF k <= w THEN x[k] ELSE f[k - w]
  <2>1. y \in Seq(Digit) /\ Len(y) = Len(x) + Len(f)
    BY <1>5, Joined
  <2>2. \A k \in 1 .. Len(x) + Len(f) : y[k] = IF k <= Len(x) THEN x[k] ELSE f[k - Len(x)]
    BY <1>5
  <2> HIDE DEF y
  <2> QED
    BY <1>5, <2>1, <2>2
<1> HIDE DEF y
<1> DEFINE z == y \o r
<1>7. z[n] = IF n <= w + Len(f) THEN y[n] ELSE r[n - (w + Len(f))]
  BY <1>1, <1>3, <1>6
<1> HIDE DEF z
<1>8. align(i, f, w, s) = z
  BY DEF align, x, y, z, l, r
<1>9. CASE n <= w + Len(f)
  <2>1. z[n] = y[n] /\ n \in 1 .. w + Len(f)
    BY <1>1, <1>7, <1>9
  <2>2. CASE n <= w
    <3>1. n \in 1 .. w /\ y[n] = x[n]
      BY <1>1, <1>6, <2>1, <2>2
    <3>2. x[n] = IF n <= Len(l) THEN l[n] ELSE i[n - Len(l)]
      BY <1>5, <3>1
    <3>3. n <= Len(l) => l[n] = 0
      BY <1>2, <1>3, <1>4, <3>1
    <3> QED
      BY <1>3, <1>8, <2>1, <2>2, <3>1, <3>2, <3>3
  <2>3. CASE ~(n <= w)
    <3>1. y[n] = f[n - w]
      BY <1>6, <2>1, <2>3
    <3>2. ~(n <= w - Len(i))
      BY <1>1, <2>3
    <3> QED
      BY <1>8, <1>9, <2>1, <2>3, <3>1, <3>2
  <2> QED
    BY <2>2, <2>3
<1>10. CASE ~(n <= w + Len(f))
  <2>1. z[n] = r[n - (w + Len(f))] /\ n - (w + Len(f)) \in 1 .. Len(r)
    BY <1>1, <1>3, <1>7, <1>10
  <2> QED
    BY <1>1, <1>4, <1>8, <1>10, <2>1
<1> QED
  BY <1>9, <1>10

\* Alignment to a width does not change the number of base units.
LEMMA UnitsOfAligned ==
  ASSUME NEW a \in DecimalAmount, NEW w \in Nat, NEW u \in Nat, Len(a.integer) <= w, Len(a.fraction) <= u
  PROVE  Value(align(a.integer, a.fraction, w, u)) = Value(a.integer \o a.fraction \o Zeros(u - Len(a.fraction)))
<1> DEFINE i == a.integer
           f == a.fraction
           z == align(i, f, w, u)
           d == i \o f \o Zeros(u - Len(f))
           k == w - Len(i)
<1>1. i \in Seq(Digit) /\ f \in Seq(Digit) /\ Len(i) \in Nat /\ Len(f) \in Nat
  BY DEF DecimalAmount
<1>2. Len(i) <= w /\ Len(f) <= u /\ k \in Nat /\ u - Len(f) \in Nat
  BY <1>1
<1> HIDE DEF i, f
<1>3. z \in Seq(Digit) /\ Len(z) = w + u
  BY <1>1, <1>2, AlignType
<1>4. d = align(i, f, Len(i), u)
  <2>1. Zeros(Len(i) - Len(i)) = << >>
    BY <1>1 DEF Zeros
  <2>2. << >> \o i = i
    BY <1>1
  <2> QED
    BY <2>1, <2>2 DEF align
<1>5. d \in Seq(Digit) /\ Len(d) = Len(i) + u
  <2> HIDE DEF d
  <2> QED
    BY <1>1, <1>2, <1>4, AlignType
<1>6. ASSUME NEW n \in 1 .. k PROVE z[n] = 0
  <2>1. n \in 1 .. w + u /\ n <= w - Len(i)
    BY <1>1
  <2> HIDE DEF z, k
  <2> QED
    BY <1>1, <1>2, <2>1, AlignAt DEF z
<1>7. ASSUME NEW n \in 1 .. Len(d) PROVE z[k + n] = d[n]
  <2>0. n \in Int /\ n >= 1 /\ n <= Len(i) + u
    BY <1>1, <1>5
  <2>1. k + n \in 1 .. w + u /\ n \in 1 .. Len(i) + u /\ k \in Int
    BY <1>1, <1>2, <2>0
  <2>2. z[k + n] = IF k + n <= k THEN 0 ELSE IF k + n <= w THEN i[(k + n) - k]
                   ELSE IF k + n <= w + Len(f) THEN f[(k + n) - w] ELSE 0
    <3> PICK m \in 1 .. w + u : m = k + n
      BY <2>1
    <3>1. align(i, f, w, u)[m] = IF m <= w - Len(i) THEN 0 ELSE IF m <= w THEN i[m - (w - Len(i))]
                   ELSE IF m <= w + Len(f) THEN f[m - w] ELSE 0
      BY <1>1, <1>2, AlignAt
    <3> QED
      BY <3>1
  <2>3. d[n] = IF n <= Len(i) - Len(i) THEN 0 ELSE IF n <= Len(i) THEN i[n - (Len(i) - Len(i))]
                   ELSE IF n <= Len(i) + Len(f) THEN f[n - Len(i)] ELSE 0
    <3> HIDE DEF d
    <3>1. Len(i) \in Nat /\ Len(i) <= Len(i)
      BY <1>1
    <3>2. PICK l \in Nat : l = Len(i)
      BY <1>1
    <3>3. Len(i) <= l /\ n \in 1 .. l + u
      BY <1>1, <2>1, <3>2
    <3>4. align(i, f, l, u)[n] = IF n <= l - Len(i) THEN 0 ELSE IF n <= l THEN i[n - (l - Len(i))]
                                 ELSE IF n <= l + Len(f) THEN f[n - l] ELSE 0
      BY <1>1, <1>2, <3>3, AlignAt
    <3> QED
      BY <1>4, <3>2, <3>4
  <2>4. /\ ~(k + n <= k) /\ ~(n <= Len(i) - Len(i)) /\ (k + n) - k = n /\ n - (Len(i) - Len(i)) = n
        /\ (k + n <= w <=> n <= Len(i)) /\ (k + n <= w + Len(f) <=> n <= Len(i) + Len(f))
        /\ (k + n) - w = n - Len(i)
    BY <1>1, <1>2, <2>0
  <2> HIDE DEF z, d, k
  <2> QED
    BY <2>2, <2>3, <2>4
<1>8. Len(z) = k + Len(d)
  <2>1. w + u = (w - Len(i)) + (Len(i) + u)
    BY <1>1
  <2> HIDE DEF z, d
  <2> QED
    BY <1>3, <1>5, <2>1
<1>9. k \in Nat
  BY <1>2
<1> HIDE DEF z, d, k
<1>10. Value(z) = Value(d)
  BY <1>3, <1>5, <1>6, <1>7, <1>8, <1>9, LeadingZeros
<1> QED
  BY <1>10 DEF z, d, i, f

\* Cmp orders amounts as their numbers of base units are ordered.
LEMMA CmpUnits ==
  ASSUME NEW a \in DecimalAmount, NEW b \in DecimalAmount, NEW u \in Nat, Cmp(a, b) <= 0,
         Len(a.fraction) <= u, Len(b.fraction) <= u
  PROVE  /\ Value(a.integer \o a.fraction \o Zeros(u - Len(a.fraction)))
              <= Value(b.integer \o b.fraction \o Zeros(u - Len(b.fraction)))
         /\ Value(a.integer \o a.fraction \o Zeros(u - Len(a.fraction)))
              = Value(b.integer \o b.fraction \o Zeros(u - Len(b.fraction))) => Cmp(a, b) = 0
<1> DEFINE ai == a.integer
           af == a.fraction
           bi == b.integer
           bf == b.fraction
           w == Longer(ai, bi)
           s == Longer(af, bf)
           at == align(ai, af, w, s)
           bt == align(bi, bf, w, s)
           x == align(ai, af, w, u)
           y == align(bi, bf, w, u)
<1>1. /\ ai \in Seq(Digit) /\ af \in Seq(Digit) /\ bi \in Seq(Digit) /\ bf \in Seq(Digit)
      /\ Len(ai) \in Nat /\ Len(af) \in Nat /\ Len(bi) \in Nat /\ Len(bf) \in Nat
  BY DEF DecimalAmount
<1>2. /\ w \in Nat /\ Len(ai) <= w /\ Len(bi) <= w
      /\ s \in Nat /\ Len(af) <= s /\ Len(bf) <= s
      /\ s <= u
  BY <1>1 DEF Longer
<1>3. Len(af) <= u /\ Len(bf) <= u
  OBVIOUS
<1>4. ~Before(bt, at) /\ (~Before(at, bt) => Cmp(a, b) = 0)
  <2>1. Cmp(a, b) = IF Before(bt, at) THEN 1 ELSE IF Before(at, bt) THEN -1 ELSE 0
    BY DEF Cmp
  <2> HIDE DEF at, bt
  <2> QED
    BY <2>1
<1>5. Value(x) = Value(ai \o af \o Zeros(u - Len(af)))
  BY <1>2, <1>3, UnitsOfAligned
<1>6. Value(y) = Value(bi \o bf \o Zeros(u - Len(bf)))
  BY <1>2, <1>3, UnitsOfAligned
<1> HIDE DEF ai, af, bi, bf, w, s
<1>7. /\ at \in Seq(Digit) /\ Len(at) = w + s /\ bt \in Seq(Digit) /\ Len(bt) = w + s
      /\ x \in Seq(Digit) /\ Len(x) = w + u /\ y \in Seq(Digit) /\ Len(y) = w + u
  BY <1>1, <1>2, <1>3, AlignType
<1>8. ASSUME NEW n \in 1 .. w + u
      PROVE  IF n <= w + s THEN x[n] = at[n] /\ y[n] = bt[n] ELSE x[n] = 0 /\ y[n] = 0
  <2>1. /\ x[n] = IF n <= w - Len(ai) THEN 0 ELSE IF n <= w THEN ai[n - (w - Len(ai))]
                  ELSE IF n <= w + Len(af) THEN af[n - w] ELSE 0
        /\ y[n] = IF n <= w - Len(bi) THEN 0 ELSE IF n <= w THEN bi[n - (w - Len(bi))]
                  ELSE IF n <= w + Len(bf) THEN bf[n - w] ELSE 0
    BY <1>1, <1>2, <1>3, AlignAt
  <2>2. CASE n <= w + s
    <3>1. n \in 1 .. w + s
      BY <1>2, <2>2
    <3>2. /\ at[n] = IF n <= w - Len(ai) THEN 0 ELSE IF n <= w THEN ai[n - (w - Len(ai))]
                  ELSE IF n <= w + Len(af) THEN af[n - w] ELSE 0
          /\ bt[n] = IF n <= w - Len(bi) THEN 0 ELSE IF n <= w THEN bi[n - (w - Len(bi))]
                  ELSE IF n <= w + Len(bf) THEN bf[n - w] ELSE 0
      BY <1>1, <1>2, <3>1, AlignAt
    <3> HIDE DEF x, y, at, bt
    <3> QED
      BY <2>1, <2>2, <3>2
  <2>3. CASE ~(n <= w + s)
    <3>1. /\ ~(n <= w - Len(ai)) /\ ~(n <= w - Len(bi)) /\ ~(n <= w)
          /\ ~(n <= w + Len(af)) /\ ~(n <= w + Len(bf))
      BY <1>1, <1>2, <2>3
    <3> HIDE DEF x, y, at, bt
    <3> QED
      BY <2>1, <2>3, <3>1
  <2> QED
    BY <2>2, <2>3
<1> HIDE DEF x, y, at, bt
<1>9. ~Before(y, x)
  <2> SUFFICES ASSUME Before(y, x) PROVE FALSE
    OBVIOUS
  <2>1. PICK n \in 1 .. w + u : y[n] < x[n] /\ \A j \in 1 .. n - 1 : y[j] = x[j]
    BY <1>7 DEF Before
  <2>2. n <= w + s
    BY <1>8, <2>1
  <2>3. n \in 1 .. w + s
    BY <1>2, <2>2
  <2>4. bt[n] < at[n]
    BY <1>8, <2>1, <2>2
  <2>5. ASSUME NEW j \in 1 .. n - 1 PROVE bt[j] = at[j]
    <3>1. j \in 1 .. w + u /\ j <= w + s
      BY <1>2, <2>2
    <3> QED
      BY <1>8, <2>1, <3>1
  <2> QED
    BY <1>4, <1>7, <2>3, <2>4, <2>5 DEF Before
<1>10. Value(x) <= Value(y) /\ (Value(x) = Value(y) => x = y)
  BY <1>7, <1>9, ValueOrder
<1>11. ASSUME x = y PROVE ~Before(at, bt)
  <2> SUFFICES ASSUME NEW n \in 1 .. w + s, at[n] < bt[n] PROVE FALSE
    BY <1>7 DEF Before
  <2>1. n \in 1 .. w + u /\ n <= w + s
    BY <1>2
  <2>2. at[n] = bt[n]
    BY <1>8, <1>11, <2>1
  <2>3. at[n] \in 0 .. 9
    BY <1>7 DEF Digit
  <2> QED
    BY <2>2, <2>3
<1> QED
  BY <1>4, <1>5, <1>6, <1>10, <1>11 DEF ai, af, bi, bf

\* An amount in units of the u-th digit after the point.
UnitsAt(a, u) == Value(a.integer \o a.fraction \o Zeros(u - Len(a.fraction)))

\* Cmp is the order of the numbers the amounts stand for, however they are written
\* (money.Cmp, align).
THEOREM CmpIsNumeric ==
  ASSUME NEW a \in DecimalAmount, NEW b \in DecimalAmount, NEW u \in Nat,
         Len(a.fraction) <= u, Len(b.fraction) <= u
  PROVE  /\ UnitsAt(a, u) \in Nat /\ UnitsAt(b, u) \in Nat
         /\ Cmp(a, b) = IF UnitsAt(a, u) < UnitsAt(b, u) THEN -1
                        ELSE IF UnitsAt(a, u) = UnitsAt(b, u) THEN 0 ELSE 1
<1>1. ASSUME NEW c \in DecimalAmount, Len(c.fraction) <= u PROVE UnitsAt(c, u) \in Nat
  <2>1. /\ c.integer \in Seq(Digit) /\ c.fraction \in Seq(Digit) /\ u - Len(c.fraction) \in Nat
    BY <1>1 DEF DecimalAmount
  <2>2. c.integer \o c.fraction \o Zeros(u - Len(c.fraction)) \in Seq(Digit)
    BY <2>1, ZerosType, Joined
  <2> QED
    BY <2>2, ValueNat DEF UnitsAt
<1>2. Cmp(a, b) <= 0 => UnitsAt(a, u) <= UnitsAt(b, u) /\ (UnitsAt(a, u) = UnitsAt(b, u) => Cmp(a, b) = 0)
  BY CmpUnits DEF UnitsAt
<1>3. Cmp(b, a) <= 0 => UnitsAt(b, u) <= UnitsAt(a, u) /\ (UnitsAt(b, u) = UnitsAt(a, u) => Cmp(b, a) = 0)
  BY CmpUnits DEF UnitsAt
<1>4. Cmp(b, a) = 0 - Cmp(a, b) /\ Cmp(a, b) \in {-1, 0, 1}
  BY CmpAntisymmetric
<1>5. UnitsAt(a, u) \in Nat /\ UnitsAt(b, u) \in Nat
  BY <1>1
<1> QED
  BY <1>2, <1>3, <1>4, <1>5

\* A cap that can be compared is its digits at the scale of US dollars.
LEMMA MicroUnits ==
  ASSUME NEW a \in DecimalAmount, toMicro(a) >= 0
  PROVE  /\ toMicro(a) = Value(a.integer \o a.fraction \o Zeros(USDScale - Len(a.fraction)))
         /\ Len(a.fraction) <= USDScale /\ toMicro(a) \in Nat /\ toMicro(a) <= MaxUint
<1> DEFINE v == Value(a.integer \o a.fraction \o Zeros(USDScale - Len(a.fraction)))
<1>1. toMicro(a) = IF IsZero(a) THEN CapInvalid
                   ELSE IF USDScale \notin 0 .. MaxFractionDigits THEN BadScale
                   ELSE IF Len(a.fraction) > USDScale THEN TooPrecise
                   ELSE IF v > MaxUint THEN Overflow ELSE v
  BY DEF toMicro, BaseUnits
<1> HIDE DEF v
<1>2. toMicro(a) = v /\ ~(Len(a.fraction) > USDScale) /\ ~(v > MaxUint)
  BY <1>1 DEF CapInvalid, BadScale, TooPrecise, Overflow
<1>3. a.integer \in Seq(Digit) /\ a.fraction \in Seq(Digit) /\ Len(a.fraction) \in Nat
  BY DEF DecimalAmount
<1>4. Len(a.fraction) <= USDScale /\ USDScale - Len(a.fraction) \in Nat
  BY <1>2, <1>3, LimitsAssumption
<1>5. a.integer \o a.fraction \o Zeros(USDScale - Len(a.fraction)) \in Seq(Digit)
  BY <1>3, <1>4, ZerosType, Joined
<1>6. v \in Nat
  BY <1>5, ValueNat DEF v
<1> QED
  BY <1>2, <1>4, <1>6, LimitsAssumption DEF v

\* Two caps that can be compared at all stand in the order of their numbers: what
\* Cmp decides on digits, the checks decide on millionths of a dollar (Cmp, toMicro).
THEOREM CmpMicro ==
  ASSUME NEW a \in DecimalAmount, NEW b \in DecimalAmount, Cmp(a, b) <= 0,
         toMicro(a) >= 0, toMicro(b) >= 0
  PROVE  toMicro(a) <= toMicro(b)
  BY MicroUnits, CmpUnits, LimitsAssumption

\* The value of a prefix is where the running value of the whole stands after it.
LEMMA PrefixValue ==
  ASSUME NEW s \in Seq(Digit), NEW t \in Seq(Digit), NEW up, IsValueTable(up, t), Len(s) <= Len(t),
         \A i \in 1 .. Len(s) : s[i] = t[i]
  PROVE  Value(s) = up[Len(s)]
<1>1. PICK us : IsValueTable(us, s) /\ Value(s) = us[Len(s)]
  BY ValueTable
<1>2. Len(s) \in Nat /\ Len(t) \in Nat
  OBVIOUS
<1> DEFINE Q == {n \in Nat : n <= Len(s) => us[n] = up[n]}
<1>3. 0 \in Q
  BY <1>1 DEF IsValueTable
<1>4. ASSUME NEW n \in Q PROVE n + 1 \in Q
  <2> SUFFICES ASSUME n + 1 <= Len(s) PROVE us[n + 1] = up[n + 1]
    OBVIOUS
  <2>1. n + 1 \in 1 .. Len(s) /\ n + 1 \in 1 .. Len(t) /\ (n + 1) - 1 = n
    BY <1>2
  <2>2. us[n] = up[n] /\ s[n + 1] = t[n + 1]
    BY <1>2, <2>1
  <2>3. us[n + 1] = 10 * us[n] + s[n + 1] /\ up[n + 1] = 10 * up[n] + t[n + 1]
    BY <1>1, <2>1 DEF IsValueTable
  <2> QED
    BY <2>2, <2>3
<1>5. Q = Nat
  <2>1. Q \subseteq Nat
    OBVIOUS
  <2> HIDE DEF Q
  <2> QED
    BY <1>3, <1>4, <2>1, NatSet
<1> QED
  BY <1>1, <1>2, <1>5

\* One more digit.
LEMMA AppendDigit ==
  ASSUME NEW d \in Seq(Digit), NEW x \in Digit
  PROVE  Value(d \o << x >>) = 10 * Value(d) + x
<1>1. PICK t : t = d \o << x >>
  OBVIOUS
<1>2. t \in Seq(Digit) /\ Len(t) = Len(d) + 1 /\ t[Len(d) + 1] = x /\ \A i \in 1 .. Len(d) : t[i] = d[i]
  BY <1>1
<1>3. PICK up : IsValueTable(up, t) /\ Value(t) = up[Len(t)]
  BY <1>2, ValueTable
<1>4. Len(d) \in Nat
  OBVIOUS
<1>5. Value(d) = up[Len(d)]
  BY <1>2, <1>3, <1>4, PrefixValue
<1>6. Len(t) \in 1 .. Len(t) /\ Len(t) - 1 = Len(d)
  BY <1>2, <1>4
<1>7. up[Len(t)] = 10 * up[Len(d)] + t[Len(t)]
  BY <1>3, <1>6 DEF IsValueTable
<1> QED
  BY <1>1, <1>2, <1>3, <1>5, <1>7

\* A string of digits with one more zero behind it.
LEMMA OneMoreZero ==
  ASSUME NEW d \in Seq(Digit), NEW k \in Nat
  PROVE  d \o Zeros(k + 1) = (d \o Zeros(k)) \o << 0 >> /\ d \o Zeros(k) \in Seq(Digit)
<1>1. PICK z : z = Zeros(k)
  OBVIOUS
<1>2. PICK y : y = Zeros(k + 1)
  OBVIOUS
<1>3. z \in Seq(Digit) /\ y \in Seq(Digit) /\ Len(z) = k /\ Len(y) = k + 1
  BY <1>1, <1>2, ZerosType
<1>4. (\A i \in 1 .. k : z[i] = 0) /\ (\A i \in 1 .. k + 1 : y[i] = 0)
  BY <1>1, <1>2 DEF Zeros
<1>5. d \o y = (d \o z) \o << 0 >>
  BY <1>3, <1>4
<1> QED
  BY <1>1, <1>2, <1>3, <1>5, Joined

\* A zero behind multiplies by ten, so Pow10 is a power of ten.
LEMMA TrailingZeros ==
  ASSUME NEW d \in Seq(Digit), NEW k \in Nat
  PROVE  /\ Value(d \o Zeros(k)) = Value(d) * Pow10(k)
         /\ Pow10(k) \in Nat \ {0} /\ Pow10(k + 1) = 10 * Pow10(k) /\ Pow10(0) = 1
<1> DEFINE one == << 1 >>
<1>0. one \in Seq(Digit) /\ 0 \in Digit /\ one = <<>> \o << 1 >> /\ 1 \in Digit /\ <<>> \in Seq(Digit)
  BY DEF Digit
<1>1. Value(<<>>) = 0
  <2>1. PICK up : IsValueTable(up, <<>>) /\ Value(<<>>) = up[Len(<<>>)]
    BY <1>0, ValueTable
  <2> QED
    BY <2>1 DEF IsValueTable
<1>2. Value(one) = 1
  <2>1. Value(<<>> \o << 1 >>) = 10 * Value(<<>>) + 1
    BY <1>0, AppendDigit
  <2>2. Value(one) = Value(<<>> \o << 1 >>)
    BY <1>0, Zenon
  <2> QED
    BY <1>1, <2>1, <2>2
<1>3. ASSUME NEW e \in Seq(Digit) PROVE e \o Zeros(0) = e
  BY DEF Zeros
<1>4. Pow10(0) = 1
  BY <1>0, <1>2, <1>3 DEF Pow10
<1>5. ASSUME NEW e \in Seq(Digit), NEW n \in Nat
      PROVE  Value(e \o Zeros(n + 1)) = 10 * Value(e \o Zeros(n)) /\ Value(e \o Zeros(n)) \in Nat
  <2>1. PICK f : f = e \o Zeros(n)
    OBVIOUS
  <2>2. f \in Seq(Digit) /\ e \o Zeros(n + 1) = f \o << 0 >>
    BY <2>1, OneMoreZero
  <2>3. Value(f) \in Nat /\ Value(f \o << 0 >>) = 10 * Value(f)
    BY <1>0, <2>2, ValueNat, AppendDigit
  <2> QED
    BY <2>1, <2>2, <2>3, Zenon
<1>6. ASSUME NEW n \in Nat PROVE Pow10(n + 1) = 10 * Pow10(n) /\ Pow10(n) \in Nat
  BY <1>0, <1>5 DEF Pow10
<1> HIDE DEF one
<1> DEFINE Q == {n \in Nat : Value(d \o Zeros(n)) = Value(d) * Pow10(n) /\ Pow10(n) # 0}
<1>7. 0 \in Q
  <2>1. Value(d) \in Nat /\ Value(d) * 1 = Value(d)
    BY ValueNat
  <2>2. Value(d \o Zeros(0)) = Value(d)
    BY <1>3, Zenon
  <2> QED
    BY <1>4, <2>1, <2>2
<1>8. ASSUME NEW n \in Q PROVE n + 1 \in Q
  <2>1. PICK v \in Nat : v = Value(d)
    BY ValueNat
  <2>2. PICK p \in Nat : p = Pow10(n)
    BY <1>6
  <2>3. Value(d \o Zeros(n + 1)) = 10 * (v * p) /\ Pow10(n + 1) = 10 * p /\ p # 0
    BY <1>5, <1>6, <2>1, <2>2
  <2>4. 10 * (v * p) = v * (10 * p) /\ 10 * p # 0
    BY <2>3
  <2> QED
    BY <2>1, <2>3, <2>4
<1>9. Q = Nat
  <2>1. Q \subseteq Nat
    OBVIOUS
  <2> HIDE DEF Q
  <2> QED
    BY <1>7, <1>8, <2>1, NatSet
<1> QED
  BY <1>4, <1>6, <1>9

\* Pow10 is a power of ten.
LEMMA Powers ==
  ASSUME NEW k \in Nat
  PROVE  Pow10(k) \in Nat \ {0} /\ Pow10(k + 1) = 10 * Pow10(k) /\ Pow10(0) = 1
<1>1. <<>> \in Seq(Digit)
  OBVIOUS
<1> QED
  BY <1>1, TrailingZeros

\* BaseUnits answers a number, of units or of an error.
LEMMA UnitsInt ==
  ASSUME NEW a \in DecimalAmount, NEW n \in Nat
  PROVE  BaseUnits(a, n) \in Int
<1> DEFINE v == Value(a.integer \o a.fraction \o Zeros(n - Len(a.fraction)))
<1>1. BaseUnits(a, n) = IF n \notin 0 .. MaxFractionDigits THEN BadScale
                        ELSE IF Len(a.fraction) > n THEN TooPrecise
                        ELSE IF v > MaxUint THEN Overflow ELSE v
  BY DEF BaseUnits
<1>2. a.integer \in Seq(Digit) /\ a.fraction \in Seq(Digit) /\ Len(a.fraction) \in Nat
  BY DEF DecimalAmount
<1>3. ASSUME ~(Len(a.fraction) > n) PROVE v \in Int
  <2>1. n - Len(a.fraction) \in Nat
    BY <1>2, <1>3
  <2>2. a.integer \o a.fraction \o Zeros(n - Len(a.fraction)) \in Seq(Digit)
    BY <1>2, <2>1, ZerosType, Joined
  <2>3. v \in Nat
    BY <2>2, ValueNat
  <2> QED
    BY <2>3
<1> HIDE DEF v
<1> QED
  BY <1>1, <1>3 DEF BadScale, TooPrecise, Overflow

\* A product is no smaller when a factor is.
LEMMA ProductGrows ==
  ASSUME NEW a \in Nat, NEW b \in Nat, NEW c \in Nat, a <= b
  PROVE  a * c <= b * c
<1>1. PICK d \in Nat : b = a + d
  <2>1. b - a \in Nat /\ b = a + (b - a)
    OBVIOUS
  <2> QED
    BY <2>1
<1>2. b * c = a * c + d * c /\ d * c \in Nat /\ a * c \in Nat
  BY <1>1
<1> QED
  BY <1>2

\* A quotient and its remainder.
LEMMA Quotient ==
  ASSUME NEW p \in Nat, NEW d \in Nat \ {0}
  PROVE  p \div d \in Nat /\ (p \div d) * d <= p /\ p < (p \div d) * d + d
<1>1. p \div d \in Nat
  OBVIOUS
<1>2. (p \div d) * d <= p /\ p < (p \div d) * d + d
  OBVIOUS
<1> QED
  BY <1>1, <1>2

\* A quotient is the only number between its bounds.
LEMMA QuotientUnique ==
  ASSUME NEW p \in Nat, NEW d \in Nat \ {0}, NEW q \in Nat, q * d <= p, p < q * d + d
  PROVE  p \div d = q
<1>1. PICK r \in Nat : r = p \div d /\ r * d <= p /\ p < r * d + d
  BY Quotient
<1>2. ASSUME NEW a \in Nat, NEW b \in Nat, a + 1 <= b, p < a * d + d, b * d <= p PROVE FALSE
  <2>1. (a + 1) * d <= b * d
    BY <1>2, ProductGrows
  <2>2. (a + 1) * d = a * d + d /\ a * d \in Nat /\ b * d \in Nat
    OBVIOUS
  <2> QED
    BY <1>2, <2>1, <2>2
<1>3. ~(q + 1 <= r) /\ ~(r + 1 <= q)
  BY <1>1, <1>2
<1> QED
  BY <1>1, <1>3

\* Dividing by ten times as much is dividing by ten once more.
LEMMA TenTimesLess ==
  ASSUME NEW p \in Nat, NEW d \in Nat \ {0}
  PROVE  /\ p \div d \in Nat /\ p \div (10 * d) \in Nat /\ (p \div d) % 10 \in 0 .. 9
         /\ p \div d = 10 * (p \div (10 * d)) + ((p \div d) % 10)
<1>1. PICK q \in Nat : q = p \div d /\ q * d <= p /\ p < q * d + d
  BY Quotient
<1>2. PICK r \in Nat : r = q \div 10 /\ q = 10 * r + (q % 10) /\ q % 10 \in 0 .. 9
  <2>1. q \div 10 \in Nat /\ q % 10 \in 0 .. 9
    OBVIOUS
  <2>2. q = 10 * (q \div 10) + (q % 10)
    OBVIOUS
  <2> QED
    BY <2>1, <2>2
<1>3. PICK e \in Nat \ {0} : e = 10 * d
  OBVIOUS
<1>4. r * e <= p
  <2>1. (10 * r) * d <= q * d
    BY <1>2, ProductGrows
  <2>2. r * e = (10 * r) * d /\ r * e \in Nat /\ q * d \in Nat
    BY <1>3
  <2> QED
    BY <1>1, <2>1, <2>2
<1>5. p < r * e + e
  <2>1. (q + 1) * d <= (10 * r + 10) * d
    BY <1>2, ProductGrows
  <2>2. (q + 1) * d = q * d + d /\ (10 * r + 10) * d = r * e + e /\ q * d \in Nat /\ r * e \in Nat
    BY <1>3
  <2> QED
    BY <1>1, <2>1, <2>2
<1>6. p \div e = r
  BY <1>4, <1>5, QuotientUnique
<1> QED
  BY <1>1, <1>2, <1>3, <1>6

\* FormatUint writes a number that has no more digits than two words can hold.
LEMMA FormatDigits ==
  ASSUME NEW n \in Nat, MaxIntegerDigits \in Nat, MaxFractionDigits \in Nat,
         n < Pow10(MaxIntegerDigits + MaxFractionDigits + 1)
  PROVE  FormatUint(n) \in Seq(Digit) /\ Value(FormatUint(n)) = n /\ Len(FormatUint(n)) \in Nat \ {0}
<1> DEFINE K == MaxIntegerDigits + MaxFractionDigits + 1
           Fits(k) == n < Pow10(k) /\ (k > 1 => n >= Pow10(k - 1))
           w == CHOOSE k \in 1 .. K : Fits(k)
           d == [i \in 1 .. w |-> (n \div Pow10(w - i)) % 10]
<1>0. K \in Nat
  OBVIOUS
<1>1. \E k \in 1 .. K : Fits(k)
  <2> DEFINE S == {k \in Nat : k >= 1 /\ n < Pow10(k)}
  <2>1. K \in S
    OBVIOUS
  <2>2. S \subseteq Nat /\ S # {}
    BY <2>1
  <2>3. PICK m \in S : \A k \in S : m <= k
    <3> HIDE DEF S
    <3> QED
      BY <2>2, NatMin
  <2>4. m \in 1 .. K
    BY <2>1, <2>3
  <2>5. ASSUME m > 1 PROVE n >= Pow10(m - 1)
    <3>1. m - 1 \in Nat /\ m - 1 >= 1 /\ m - 1 \notin S
      BY <2>3, <2>5
    <3>2. Pow10(m - 1) \in Nat
      BY <3>1, Powers
    <3> QED
      BY <3>1, <3>2
  <2> QED
    BY <2>3, <2>4, <2>5
<1>2. w \in 1 .. K /\ n < Pow10(w)
  BY <1>1
<1>3. FormatUint(n) = d
  BY DEF FormatUint
<1> HIDE DEF w, K, Fits
<1>4. w \in Nat \ {0}
  BY <1>0, <1>2
<1>5. ASSUME NEW i \in 0 .. w PROVE Pow10(w - i) \in Nat \ {0} /\ n \div Pow10(w - i) \in Nat
  <2>1. w - i \in Nat
    BY <1>4
  <2>2. PICK q \in Nat \ {0} : q = Pow10(w - i)
    BY <2>1, Powers
  <2>3. n \div q \in Nat
    BY Quotient
  <2> QED
    BY <2>2, <2>3
<1>6. ASSUME NEW i \in 1 .. w
      PROVE  /\ (n \div Pow10(w - i)) % 10 \in 0 .. 9
             /\ n \div Pow10(w - i) = 10 * (n \div Pow10(w - (i - 1))) + ((n \div Pow10(w - i)) % 10)
  <2>1. w - i \in Nat /\ (w - i) + 1 = w - (i - 1)
    BY <1>4
  <2>2. Pow10(w - (i - 1)) = 10 * Pow10(w - i) /\ Pow10(w - i) \in Nat \ {0}
    BY <2>1, Powers
  <2> QED
    BY <2>2, TenTimesLess
<1>7. d \in Seq(Digit) /\ Len(d) = w
  BY <1>4, <1>6 DEF Digit
<1>8. PICK up : IsValueTable(up, d) /\ Value(d) = up[Len(d)]
  <2> HIDE DEF d
  <2> QED
    BY <1>7, ValueTable
<1>9. up[0] = 0 /\ \A i \in 1 .. w : up[i] = 10 * up[i - 1] + ((n \div Pow10(w - i)) % 10)
  <2>1. \A i \in 1 .. w : d[i] = (n \div Pow10(w - i)) % 10
    OBVIOUS
  <2> HIDE DEF d
  <2>2. up[0] = 0 /\ \A i \in 1 .. Len(d) : up[i] = 10 * up[i - 1] + d[i]
    BY <1>8 DEF IsValueTable
  <2> QED
    BY <1>7, <2>1, <2>2
<1> DEFINE Q == {i \in Nat : i <= w => up[i] = n \div Pow10(w - i)}
<1>10. 0 \in Q
  <2>1. PICK q \in Nat \ {0} : q = Pow10(w)
    BY <1>4, Powers
  <2>2. n \div q = 0
    BY <1>2, <2>1, QuotientUnique
  <2>3. w - 0 = w
    BY <1>4
  <2> QED
    BY <1>9, <2>1, <2>2, <2>3
<1>11. ASSUME NEW i \in Q PROVE i + 1 \in Q
  <2> SUFFICES ASSUME i + 1 <= w PROVE up[i + 1] = n \div Pow10(w - (i + 1))
    OBVIOUS
  <2>1. i + 1 \in 1 .. w /\ (i + 1) - 1 = i /\ up[i] = n \div Pow10(w - i)
    BY <1>4
  <2> QED
    BY <1>6, <1>9, <2>1
<1>12. Q = Nat
  <2>1. Q \subseteq Nat
    OBVIOUS
  <2> HIDE DEF Q
  <2> QED
    BY <1>10, <1>11, <2>1, NatSet
<1>13. up[w] = n \div Pow10(0) /\ w - w = 0
  BY <1>4, <1>12
<1>14. up[w] = n
  BY <1>13, Powers
<1> HIDE DEF d, Q
<1> QED
  BY <1>3, <1>4, <1>7, <1>8, <1>14

\* A digit string denotes zero only when all its digits are.
LEMMA ZeroValue ==
  ASSUME NEW d \in Seq(Digit), Value(d) = 0, NEW j \in 1 .. Len(d)
  PROVE  d[j] = 0
<1>1. PICK up : IsValueTable(up, d) /\ Value(d) = up[Len(d)]
  BY ValueTable
<1>2. Len(d) \in Nat /\ \A i \in 1 .. Len(d) : d[i] \in 0 .. 9
  BY DEF Digit
<1>3. /\ \A i \in 0 .. Len(d) : up[i] \in Nat
      /\ \A i \in 1 .. Len(d) : up[i] = 10 * up[i - 1] + d[i]
  <2>1. up \in [0 .. Len(d) -> Nat]
    BY <1>1 DEF IsValueTable
  <2> QED
    BY <1>1, <2>1 DEF IsValueTable
<1> SUFFICES ASSUME d[j] # 0 PROVE FALSE
  OBVIOUS
<1> DEFINE Q == {i \in Nat : j + i <= Len(d) => up[j + i] > 0}
<1>4. 0 \in Q
  <2>1. j \in 1 .. Len(d) /\ j - 1 \in 0 .. Len(d) /\ j + 0 = j
    BY <1>2
  <2>2. up[j] = 10 * up[j - 1] + d[j] /\ up[j - 1] \in Nat /\ d[j] \in 0 .. 9
    BY <1>2, <1>3, <2>1
  <2>3. up[j] > 0
    BY <2>2
  <2> QED
    BY <2>1, <2>3
<1>5. ASSUME NEW i \in Q PROVE i + 1 \in Q
  <2> SUFFICES ASSUME j + (i + 1) <= Len(d) PROVE up[j + (i + 1)] > 0
    OBVIOUS
  <2>1. j + (i + 1) \in 1 .. Len(d) /\ (j + (i + 1)) - 1 = j + i /\ j + i \in 0 .. Len(d) /\ up[j + i] > 0
    BY <1>2
  <2>2. /\ up[j + (i + 1)] = 10 * up[j + i] + d[j + (i + 1)]
        /\ up[j + i] \in Nat /\ d[j + (i + 1)] \in 0 .. 9
    BY <1>2, <1>3, <2>1
  <2> QED
    BY <2>1, <2>2
<1>6. Q = Nat
  <2>1. Q \subseteq Nat
    OBVIOUS
  <2> HIDE DEF Q
  <2> QED
    BY <1>4, <1>5, <2>1, NatSet
<1>7. Len(d) - j \in Nat /\ j + (Len(d) - j) = Len(d)
  BY <1>2
<1>8. up[Len(d)] > 0
  <2> PICK k \in Nat : k = Len(d) - j
    BY <1>7
  <2>1. j + k = Len(d) /\ k \in Q
    BY <1>6, <1>7
  <2> QED
    BY <1>2, <2>1
<1> QED
  BY <1>1, <1>8

\* Two digit strings in a row, digit by digit.
IsJoin(r, s, t) ==
  /\ r \in Seq(Digit) /\ Len(r) = Len(s) + Len(t) /\ Len(s) \in Nat /\ Len(t) \in Nat
  /\ \A i \in 1 .. Len(s) : r[i] = s[i]
  /\ \A i \in 1 .. Len(t) : r[Len(s) + i] = t[i]

\* What \o does.
LEMMA JoinedAt ==
  ASSUME NEW s \in Seq(Digit), NEW t \in Seq(Digit)
  PROVE  IsJoin(s \o t, s, t)
<1>1. s \o t \in Seq(Digit) /\ Len(s \o t) = Len(s) + Len(t) /\ Len(s) \in Nat /\ Len(t) \in Nat
  OBVIOUS
<1>2. ASSUME NEW i \in 1 .. Len(s) PROVE (s \o t)[i] = s[i]
  OBVIOUS
<1>3. ASSUME NEW i \in 1 .. Len(t) PROVE (s \o t)[Len(s) + i] = t[i]
  OBVIOUS
<1> QED
  BY <1>1, <1>2, <1>3 DEF IsJoin

\* Two sequences with the same elements are one.
LEMMA SameSequence ==
  ASSUME NEW V, NEW s \in Seq(V), NEW t \in Seq(V), Len(s) = Len(t), \A i \in 1 .. Len(s) : s[i] = t[i]
  PROVE  s = t
  OBVIOUS

\* NewFromBaseUnits answers an amount of the given number of units.
LEMMA ReadBack ==
  ASSUME NEW n \in Nat, MaxIntegerDigits \in Nat, MaxFractionDigits \in Nat,
         n < Pow10(MaxIntegerDigits + MaxFractionDigits + 1), NEW dec \in Nat,
         NEW back \in NewFromBaseUnits(n, dec)
  PROVE  back \in DecimalAmount /\ Len(back.fraction) = dec /\ UnitsAt(back, dec) = n
<1>1. PICK g : g = FormatUint(n)
  OBVIOUS
<1>2. g \in Seq(Digit) /\ Value(g) = n /\ Len(g) \in Nat \ {0}
  BY <1>1, FormatDigits
<1>3. PICK p : p = IF Len(g) <= dec THEN Zeros(dec - Len(g) + 1) \o g ELSE g
  OBVIOUS
<1>4. PICK k \in Nat : /\ p \in Seq(Digit) /\ Len(p) = k + Len(g) /\ Len(p) > dec
                       /\ \A i \in 1 .. k : p[i] = 0
                       /\ \A i \in 1 .. Len(g) : p[k + i] = g[i]
  <2>1. CASE Len(g) <= dec
    <3>0. dec - Len(g) + 1 \in Nat
      BY <1>2, <2>1
    <3>1. PICK m \in Nat : m = dec - Len(g) + 1
      BY <3>0
    <3>2. PICK z : z = Zeros(m)
      OBVIOUS
    <3>3. z \in Seq(Digit) /\ Len(z) = m /\ \A i \in 1 .. m : z[i] = 0
      BY <3>2, ZerosType DEF Zeros
    <3>4. p = z \o g
      BY <1>3, <2>1, <3>1, <3>2
    <3>5. /\ p \in Seq(Digit) /\ Len(p) = m + Len(g) /\ \A i \in 1 .. m : p[i] = 0
          /\ \A i \in 1 .. Len(g) : p[m + i] = g[i]
      <4>1. /\ p \in Seq(Digit) /\ Len(p) = Len(z) + Len(g) /\ \A i \in 1 .. Len(z) : p[i] = z[i]
            /\ \A i \in 1 .. Len(g) : p[Len(z) + i] = g[i]
        <5>1. IsJoin(p, z, g)
          BY <1>2, <3>3, <3>4, JoinedAt, Zenon
        <5> QED
          BY <5>1 DEF IsJoin
      <4> QED
        BY <3>3, <4>1
    <3>6. Len(p) > dec
      BY <1>2, <3>1, <3>5
    <3> QED
      BY <3>5, <3>6
  <2>2. CASE ~(Len(g) <= dec)
    <3>1. p = g
      BY <1>3, <2>2
    <3>2. p \in Seq(Digit) /\ Len(p) = 0 + Len(g) /\ Len(p) > dec /\ \A i \in 1 .. Len(g) : p[0 + i] = g[i]
      BY <1>2, <2>2, <3>1
    <3> QED
      BY <3>2
  <2> QED
    BY <2>1, <2>2
<1>5. PICK cut \in Nat : cut = Len(p) - dec /\ cut <= Len(p)
  <2>1. Len(p) - dec \in Nat /\ Len(p) - dec <= Len(p)
    BY <1>2, <1>4
  <2> QED
    BY <2>1
<1>6. PICK a : a = SubSeq(p, 1, cut)
  OBVIOUS
<1>7. PICK b : b = SubSeq(p, cut + 1, Len(p))
  OBVIOUS
<1>8. a \in Seq(Digit) /\ Len(a) = cut /\ \A i \in 1 .. cut : a[i] = p[i]
  BY <1>4, <1>5, <1>6
<1>9. b \in Seq(Digit) /\ Len(b) = dec /\ \A i \in 1 .. dec : b[i] = p[cut + i]
  BY <1>4, <1>5, <1>7
<1>10. back = [integer |-> a, fraction |-> b]
  BY <1>1, <1>3, <1>5, <1>6, <1>7 DEF NewFromBaseUnits
<1>11. PICK z : z = a \o b \o Zeros(dec - Len(b))
  OBVIOUS
<1>12. z \in Seq(Digit) /\ Len(z) = Len(p) /\ \A i \in 1 .. Len(p) : z[i] = p[i]
  <2>1. PICK y : y = Zeros(dec - Len(b))
    OBVIOUS
  <2>2. y \in Seq(Digit) /\ Len(y) = 0
    <3>1. dec - Len(b) = 0
      BY <1>9
    <3> QED
      BY <2>1, <3>1, ZerosType
  <2>3. PICK ab : ab = a \o b
    OBVIOUS
  <2>4. z = ab \o y
    BY <1>11, <2>1, <2>3
  <2>5. /\ ab \in Seq(Digit) /\ Len(ab) = Len(a) + Len(b) /\ \A i \in 1 .. Len(a) : ab[i] = a[i]
        /\ \A i \in 1 .. Len(b) : ab[Len(a) + i] = b[i]
    <3>1. IsJoin(ab, a, b)
      BY <1>8, <1>9, <2>3, JoinedAt, Zenon
    <3> QED
      BY <3>1 DEF IsJoin
  <2>6. z \in Seq(Digit) /\ Len(z) = Len(ab) + Len(y) /\ \A i \in 1 .. Len(ab) : z[i] = ab[i]
    <3>1. IsJoin(z, ab, y)
      BY <2>2, <2>4, <2>5, JoinedAt, Zenon
    <3> QED
      BY <3>1 DEF IsJoin
  <2>7. Len(z) = Len(p) /\ Len(ab) = Len(p) /\ Len(p) = cut + dec
    BY <1>4, <1>5, <1>8, <1>9, <2>2, <2>5, <2>6
  <2>8. ASSUME NEW i \in 1 .. Len(p) PROVE ab[i] = p[i]
    <3>1. CASE i <= cut
      BY <1>5, <1>8, <2>5, <3>1
    <3>2. CASE ~(i <= cut)
      <4>1. i - cut \in 1 .. dec /\ cut + (i - cut) = i
        BY <1>5, <2>7, <3>2
      <4> QED
        BY <1>8, <1>9, <2>5, <4>1
    <3> QED
      BY <3>1, <3>2
  <2> QED
    BY <2>6, <2>7, <2>8
<1>13. Value(z) = Value(g)
  <2>1. Len(z) = k + Len(g)
    BY <1>4, <1>12
  <2>2. \A i \in 1 .. k : z[i] = 0
    BY <1>2, <1>4, <1>12
  <2>3. \A i \in 1 .. Len(g) : z[k + i] = g[i]
    BY <1>2, <1>4, <1>12
  <2> QED
    BY <1>2, <1>12, <2>1, <2>2, <2>3, LeadingZeros
<1>14. UnitsAt(back, dec) = Value(z)
  BY <1>10, <1>11 DEF UnitsAt
<1> QED
  BY <1>2, <1>8, <1>9, <1>10, <1>13, <1>14 DEF DecimalAmount

\* A digit further after the point is ten times the number of units.
LEMMA UnitsFiner ==
  ASSUME NEW a \in DecimalAmount, NEW u \in Nat, NEW v \in Nat, Len(a.fraction) <= u, u <= v
  PROVE  UnitsAt(a, u) \in Nat /\ UnitsAt(a, u) * Pow10(v - u) = UnitsAt(a, v)
<1>1. a.integer \in Seq(Digit) /\ a.fraction \in Seq(Digit) /\ Len(a.fraction) \in Nat
  BY DEF DecimalAmount
<1>2. PICK d : d = a.integer \o a.fraction
  OBVIOUS
<1>3. PICK k \in Nat : k = u - Len(a.fraction)
  <2>1. u - Len(a.fraction) \in Nat
    BY <1>1
  <2> QED
    BY <2>1
<1>4. PICK l \in Nat : l = v - u
  OBVIOUS
<1>5. PICK e : e = d \o Zeros(k)
  OBVIOUS
<1>6. d \in Seq(Digit) /\ e \in Seq(Digit)
  BY <1>1, <1>2, <1>3, <1>5, ZerosType, Joined
<1>7. e \o Zeros(l) = d \o Zeros(k + l)
  <2>1. PICK y : y = Zeros(k)
    OBVIOUS
  <2>2. PICK z : z = Zeros(l)
    OBVIOUS
  <2>3. PICK x : x = Zeros(k + l)
    OBVIOUS
  <2>4. /\ y \in Seq(Digit) /\ Len(y) = k /\ \A i \in 1 .. k : y[i] = 0
        /\ z \in Seq(Digit) /\ Len(z) = l /\ \A i \in 1 .. l : z[i] = 0
        /\ x \in Seq(Digit) /\ Len(x) = k + l /\ \A i \in 1 .. k + l : x[i] = 0
    <3>1. Len(y) = k /\ Len(z) = l /\ Len(x) = k + l /\ y \in Seq(Digit) /\ z \in Seq(Digit) /\ x \in Seq(Digit)
      BY <2>1, <2>2, <2>3, ZerosType
    <3> QED
      BY <2>1, <2>2, <2>3, <3>1 DEF Zeros
  <2>5. PICK ez : ez = e \o z
    OBVIOUS
  <2>6. PICK dx : dx = d \o x
    OBVIOUS
  <2>7. /\ Len(e) = Len(d) + Len(y) /\ \A i \in 1 .. Len(d) : e[i] = d[i]
        /\ \A i \in 1 .. Len(y) : e[Len(d) + i] = y[i]
    <3>1. IsJoin(e, d, y)
      BY <1>5, <1>6, <2>1, <2>4, JoinedAt, Zenon
    <3> QED
      BY <3>1 DEF IsJoin
  <2>8. /\ ez \in Seq(Digit) /\ Len(ez) = Len(e) + Len(z) /\ \A i \in 1 .. Len(e) : ez[i] = e[i]
        /\ \A i \in 1 .. Len(z) : ez[Len(e) + i] = z[i]
    <3>1. IsJoin(ez, e, z)
      BY <1>6, <2>4, <2>5, JoinedAt, Zenon
    <3> QED
      BY <3>1 DEF IsJoin
  <2>9. /\ dx \in Seq(Digit) /\ Len(dx) = Len(d) + Len(x) /\ \A i \in 1 .. Len(d) : dx[i] = d[i]
        /\ \A i \in 1 .. Len(x) : dx[Len(d) + i] = x[i]
    <3>1. IsJoin(dx, d, x)
      BY <1>6, <2>4, <2>6, JoinedAt, Zenon
    <3> QED
      BY <3>1 DEF IsJoin
  <2>10. Len(d) \in Nat
    BY <1>6
  <2>11. Len(e) = Len(d) + k /\ Len(ez) = Len(d) + k + l /\ Len(dx) = Len(d) + k + l
    BY <2>4, <2>7, <2>8, <2>9, <2>10
  <2>12. ASSUME NEW i \in 1 .. Len(ez) PROVE ez[i] = dx[i]
    <3>1. CASE i <= Len(d)
      <4>1. i \in 1 .. Len(d) /\ i \in 1 .. Len(e)
        BY <2>10, <2>11, <3>1
      <4> QED
        BY <2>7, <2>8, <2>9, <4>1
    <3>2. CASE i > Len(d) /\ i <= Len(d) + k
      <4>1. i - Len(d) \in 1 .. k /\ Len(d) + (i - Len(d)) = i /\ i \in 1 .. Len(e) /\ i - Len(d) \in 1 .. k + l
        BY <2>10, <2>11, <3>2
      <4>2. ez[i] = e[i]
        BY <2>8, <4>1
      <4>3. e[i] = 0
        BY <2>4, <2>7, <4>1
      <4>4. dx[i] = 0
        BY <2>4, <2>9, <4>1
      <4> QED
        BY <4>2, <4>3, <4>4
    <3>3. CASE i > Len(d) + k
      <4>1. /\ i - (Len(d) + k) \in 1 .. l /\ (Len(d) + k) + (i - (Len(d) + k)) = i
            /\ i - Len(d) \in 1 .. k + l /\ Len(d) + (i - Len(d)) = i
        BY <2>10, <2>11, <3>3
      <4>2. ez[i] = 0
        <5>1. PICK n \in 1 .. l : Len(e) + n = i
          BY <2>11, <4>1
        <5> QED
          BY <2>4, <2>8, <5>1
      <4>3. dx[i] = 0
        BY <2>4, <2>9, <4>1
      <4> QED
        BY <4>2, <4>3
    <3> QED
      BY <2>10, <2>11, <3>1, <3>2, <3>3
  <2>13. ez = dx
    BY <2>8, <2>9, <2>11, <2>12, SameSequence
  <2> QED
    BY <2>2, <2>3, <2>5, <2>6, <2>13, Zenon
<1>8. Value(e) \in Nat /\ Value(e \o Zeros(l)) = Value(e) * Pow10(l)
  BY <1>6, TrailingZeros, ValueNat
<1>9. UnitsAt(a, u) = Value(e)
  BY <1>2, <1>3, <1>5 DEF UnitsAt
<1>10. UnitsAt(a, v) = Value(d \o Zeros(k + l))
  <2>1. v - Len(a.fraction) = k + l
    BY <1>1, <1>3, <1>4
  <2> QED
    BY <1>2, <2>1 DEF UnitsAt
<1>11. Value(e \o Zeros(l)) = Value(d \o Zeros(k + l))
  BY <1>7, Zenon
<1> QED
  BY <1>4, <1>8, <1>9, <1>10, <1>11

\* Zeros in a row are two strings of zeros.
LEMMA ZeroJoin ==
  ASSUME NEW s, NEW t, NEW r, IsJoin(r, s, t), \A i \in 1 .. Len(r) : r[i] = 0
  PROVE  (\A i \in 1 .. Len(s) : s[i] = 0) /\ (\A i \in 1 .. Len(t) : t[i] = 0)
<1>1. PICK m \in Nat : m = Len(s)
  BY DEF IsJoin
<1>2. PICK n \in Nat : n = Len(t)
  BY DEF IsJoin
<1>3. /\ Len(r) = m + n
      /\ \A i \in 1 .. m : r[i] = s[i]
      /\ \A i \in 1 .. n : r[m + i] = t[i]
  BY <1>1, <1>2 DEF IsJoin
<1>4. \A i \in 1 .. m + n : r[i] = 0
  BY <1>3
<1>5. ASSUME NEW i \in 1 .. m PROVE s[i] = 0
  BY <1>3, <1>4
<1>6. ASSUME NEW i \in 1 .. n PROVE t[i] = 0
  <2>1. m + i \in 1 .. m + n
    OBVIOUS
  <2> QED
    BY <1>3, <1>4, <2>1
<1> QED
  BY <1>1, <1>2, <1>5, <1>6

\* An amount of no units is written in zeros.
LEMMA NoUnits ==
  ASSUME NEW a \in DecimalAmount, NEW u \in Nat, Len(a.fraction) <= u, UnitsAt(a, u) = 0
  PROVE  IsZero(a)
<1>1. a.integer \in Seq(Digit) /\ a.fraction \in Seq(Digit) /\ Len(a.fraction) \in Nat
  BY DEF DecimalAmount
<1>2. PICK y : y = Zeros(u - Len(a.fraction))
  OBVIOUS
<1>3. y \in Seq(Digit)
  BY <1>1, <1>2, ZerosType
<1>4. PICK c : c = a.integer \o a.fraction
  OBVIOUS
<1>5. PICK d : d = c \o y
  OBVIOUS
<1>6. IsJoin(c, a.integer, a.fraction)
  BY <1>1, <1>4, JoinedAt, Zenon
<1>7. c \in Seq(Digit)
  BY <1>6 DEF IsJoin
<1>8. IsJoin(d, c, y)
  BY <1>3, <1>5, <1>7, JoinedAt, Zenon
<1>9. d \in Seq(Digit)
  BY <1>8 DEF IsJoin
<1>10. Value(d) = 0
  BY <1>2, <1>4, <1>5 DEF UnitsAt
<1>11. \A i \in 1 .. Len(d) : d[i] = 0
  BY <1>9, <1>10, ZeroValue
<1>12. \A i \in 1 .. Len(c) : c[i] = 0
  BY <1>8, <1>11, ZeroJoin
<1>13. (\A i \in 1 .. Len(a.integer) : a.integer[i] = 0) /\ (\A i \in 1 .. Len(a.fraction) : a.fraction[i] = 0)
  BY <1>6, <1>12, ZeroJoin
<1> QED
  BY <1>1, <1>13 DEF IsZero, Range

-----------------------------------------------------------------------------
(* Committed spend                                                          *)

\* A sum, with one element taken out.
LEMMA SumAdds ==
  ASSUME NEW U, IsFiniteSet(U), NEW f \in [U -> Int], NEW T \in SUBSET U, NEW x \in T
  PROVE  /\ SumFunction([u \in T |-> f[u]]) = f[x] + SumFunction([u \in T \ {x} |-> f[u]])
         /\ SumFunction([u \in T |-> f[u]]) \in Int
<1>a. PICK g : IsSumTable(g, U, f)
  BY SumTable
<1>1. /\ g \in [SUBSET U -> Int]
      /\ \A s \in SUBSET U : \A y \in s : g[s] = f[y] + g[s \ {y}]
      /\ \A R \in SUBSET U : SumFunction([u \in R |-> f[u]]) = g[R]
  BY <1>a DEF IsSumTable
<1>2. T \ {x} \in SUBSET U
  OBVIOUS
<1>3. SumFunction([u \in T |-> f[u]]) = g[T] /\ SumFunction([u \in T \ {x} |-> f[u]]) = g[T \ {x}]
  BY <1>1, <1>2
<1> QED
  BY <1>1, <1>3

\* A sum of integers is an integer.
LEMMA SumInt ==
  ASSUME NEW U, IsFiniteSet(U), NEW f \in [U -> Int], NEW T \in SUBSET U
  PROVE  SumFunction([u \in T |-> f[u]]) \in Int
<1>a. PICK g : IsSumTable(g, U, f)
  BY SumTable
<1>1. /\ g \in [SUBSET U -> Int]
      /\ \A s \in SUBSET U : \A y \in s : g[s] = f[y] + g[s \ {y}]
      /\ \A R \in SUBSET U : SumFunction([u \in R |-> f[u]]) = g[R]
  BY <1>a DEF IsSumTable
<1> QED
  BY <1>1

\* A sum of natural numbers over more of them is no smaller.
LEMMA SumMonotone ==
  ASSUME NEW U, IsFiniteSet(U), NEW f \in [U -> Nat], NEW T \in SUBSET U, NEW S \in SUBSET T
  PROVE  SumFunction([u \in S |-> f[u]]) <= SumFunction([u \in T |-> f[u]])
<1>0. f \in [U -> Int]
  OBVIOUS
<1>a. PICK g : IsSumTable(g, U, f)
  BY <1>0, SumTable
<1>1. /\ g \in [SUBSET U -> Int]
      /\ \A s \in SUBSET U : \A y \in s : g[s] = f[y] + g[s \ {y}]
      /\ \A R \in SUBSET U : SumFunction([u \in R |-> f[u]]) = g[R]
  BY <1>a DEF IsSumTable
<1> DEFINE Q == {R \in SUBSET U : S \subseteq R => g[S] <= g[R]}
<1>2. ASSUME NEW R \in SUBSET U, \A x \in R : R \ {x} \in Q PROVE R \in Q
  <2> SUFFICES ASSUME S \subseteq R PROVE g[S] <= g[R]
    OBVIOUS
  <2>1. CASE S = R
    <3>1. g[R] \in Int
      BY <1>1
    <3> QED
      BY <2>1, <3>1
  <2>2. CASE S # R
    <3>1. PICK x \in R : x \notin S
      BY <2>2
    <3>2. S \subseteq R \ {x} /\ R \ {x} \in Q
      BY <1>2, <3>1
    <3>3. g[S] <= g[R \ {x}]
      BY <3>2
    <3>4. g[R] = f[x] + g[R \ {x}] /\ f[x] \in Nat /\ g[R \ {x}] \in Int /\ g[S] \in Int
      BY <1>1, <3>1
    <3> QED
      BY <3>3, <3>4
  <2> QED
    BY <2>1, <2>2
<1>3. SUBSET U \subseteq Q
  <2> HIDE DEF Q
  <2>1. Hereditary(U, Q)
    BY <1>2 DEF Hereditary
  <2> QED
    BY <2>1, SubsetInduction
<1>4. g[S] <= g[T]
  BY <1>3
<1> QED
  BY <1>1, <1>4

\* The sum of two words, wrapped.
LEMMA WrappedSum ==
  ASSUME NEW n \in Nat, NEW a \in 0 .. n, NEW b \in 0 .. n
  PROVE  (a + b) % (n + 1) = IF a + b <= n THEN a + b ELSE a + b - (n + 1)
<1>1. CASE a + b <= n
  BY <1>1
<1>2. CASE ~(a + b <= n)
  BY <1>2
<1> QED
  BY <1>1, <1>2

\* An addition that does not fail is exact.
LEMMA AddSpendSum ==
  ASSUME NEW total \in Int, total <= MaxUint, NEW value \in Int, AddSpend(total, value) >= 0
  PROVE  /\ total >= 0 /\ value >= 0 /\ AddSpend(total, value) = total + value
         /\ AddSpend(total, value) <= MaxUint
<1> DEFINE sum == (total + value) % (MaxUint + 1)
<1>0. MaxUint \in Nat
  BY LimitsAssumption
<1>1. AddSpend(total, value) = IF total < 0 THEN total ELSE IF value < 0 THEN value
                               ELSE IF sum < value THEN SpendOverflow ELSE sum
  BY DEF AddSpend
<1>2. sum \in 0 .. MaxUint
  BY <1>0
<1> HIDE DEF sum
<1>3. total >= 0 /\ value >= 0 /\ ~(sum < value) /\ AddSpend(total, value) = sum
  BY <1>1 DEF SpendOverflow
<1>4. total \in 0 .. MaxUint /\ value \in 0 .. MaxUint
  BY <1>0, <1>2, <1>3
<1>5. sum = IF total + value <= MaxUint THEN total + value ELSE total + value - (MaxUint + 1)
  BY <1>0, <1>4, WrappedSum DEF sum
<1> QED
  BY <1>0, <1>2, <1>3, <1>4, <1>5


IsSpendTable(k, T, f, first) ==
  /\ k \in [SUBSET T -> Int] /\ k[{}] = first
  /\ \A s \in SUBSET T : s # {} => k[s] = AddSpend(k[s \ {Chosen(s)}], f[Chosen(s)])
  /\ SumSpend(first, f) = k[T]

\* What the running total is defined as.
LEMMA SpendUnfold ==
  ASSUME NEW f, NEW first
  PROVE  SumSpend(first, f) =
           (CHOOSE g : g = [s \in SUBSET DOMAIN f |-> IF s = {} THEN first
                    ELSE AddSpend(g[s \ {Chosen(s)}], f[Chosen(s)])])[DOMAIN f]
  BY DEF SumSpend, FoldFunction, FoldFunctionOnSet, MapThenFoldSet, Chosen

\* The running total over the subsets of the rows.
LEMMA SpendTable ==
  ASSUME NEW T, IsFiniteSet(T), NEW f \in [T -> Int], NEW first \in Int
  PROVE  \E k : IsSpendTable(k, T, f, first)
<1> DEFINE pick == [s \in SUBSET T |-> Chosen(s)]
           step == [p \in T \X Int |-> AddSpend(p[2], f[p[1]])]
           Rec(h) == [s \in SUBSET DOMAIN f |-> IF s = {} THEN first ELSE AddSpend(h[s \ {Chosen(s)}], f[Chosen(s)])]
           k == CHOOSE h : h = Rec(h)
<1>1. ASSUME NEW s \in SUBSET T, s # {} PROVE pick[s] = Chosen(s) /\ Chosen(s) \in s
  BY <1>1 DEF Chosen
<1>2. ASSUME NEW a \in Int, NEW b \in Int PROVE AddSpend(a, b) \in Int
  BY LimitsAssumption DEF AddSpend, SpendOverflow
<1>3. ASSUME NEW x \in T, NEW v \in Int
      PROVE  step[<< x, v >>] = AddSpend(v, f[x]) /\ step[<< x, v >>] \in Int
  BY <1>2
<1>4. PICK g \in [SUBSET T -> Int] : IsFold(g, T, first, pick, step)
  <2>1. Picks(pick, T) /\ Steps(step, T, Int)
    BY <1>1, <1>3 DEF Picks, Steps
  <2> HIDE DEF pick, step
  <2> QED
    BY <2>1, FoldExists
<1> HIDE DEF step
<1>5. ASSUME NEW s \in SUBSET T PROVE g[s] = IF s = {} THEN first ELSE AddSpend(g[s \ {Chosen(s)}], f[Chosen(s)])
  <2>1. CASE s = {}
    BY <1>4, <2>1 DEF IsFold
  <2>2. CASE s # {}
    <3>1. g[s] = step[<< pick[s], g[s \ {pick[s]}] >>]
      BY <1>4, <2>2 DEF IsFold
    <3>2. Chosen(s) \in T /\ g[s \ {Chosen(s)}] \in Int /\ pick[s] = Chosen(s)
      BY <1>1, <2>2
    <3>3. g[s] = step[<< Chosen(s), g[s \ {Chosen(s)}] >>]
      BY <3>1, <3>2
    <3> QED
      BY <1>3, <2>2, <3>2, <3>3
  <2> QED
    BY <2>1, <2>2
<1>6. g = Rec(g)
  <2>1. DOMAIN f = T /\ g = [s \in SUBSET T |-> g[s]]
    OBVIOUS
  <2> QED
    BY <1>5, <2>1
<1>7. k = Rec(k)
  <2> HIDE DEF Rec
  <2> QED
    BY <1>6, Zenon
<1>8. SumSpend(first, f) = k[T]
  <2>1. DOMAIN f = T
    OBVIOUS
  <2>2. SumSpend(first, f) = (CHOOSE h : h = Rec(h))[DOMAIN f]
    BY SpendUnfold
  <2> QED
    BY <2>1, <2>2 DEF k
<1> HIDE DEF k
<1>9. ASSUME NEW s \in SUBSET T PROVE k[s] = IF s = {} THEN first ELSE AddSpend(k[s \ {Chosen(s)}], f[Chosen(s)])
  BY <1>7
<1> DEFINE Q == {s \in SUBSET T : k[s] \in Int}
<1>10. ASSUME NEW s \in SUBSET T, \A x \in s : s \ {x} \in Q PROVE s \in Q
  <2>1. CASE s = {}
    BY <1>9, <2>1
  <2>2. CASE s # {}
    <3>1. Chosen(s) \in s /\ k[s \ {Chosen(s)}] \in Int /\ f[Chosen(s)] \in Int
      BY <1>1, <1>10, <2>2
    <3> QED
      BY <1>2, <1>9, <2>2, <3>1
  <2> QED
    BY <2>1, <2>2
<1>11. SUBSET T \subseteq Q
  <2> HIDE DEF Q
  <2>1. Hereditary(T, Q)
    BY <1>10 DEF Hereditary
  <2> QED
    BY <2>1, SubsetInduction
<1>12. k \in [SUBSET T -> Int]
  <2>1. k = [s \in SUBSET T |-> k[s]]
    BY <1>7
  <2> QED
    BY <1>11, <2>1
<1> QED
  BY <1>8, <1>9, <1>12 DEF IsSpendTable

\* A running total that does not fail is the exact sum of rows that all have a price.
LEMMA SpendIsSum ==
  ASSUME NEW T, IsFiniteSet(T), NEW f \in [T -> Int], NEW first \in 0 .. MaxUint,
         SumSpend(first, f) >= 0
  PROVE  /\ \A x \in T : f[x] >= 0
         /\ SumSpend(first, f) = first + SumFunction([x \in T |-> f[x]])
<1>0. first \in Int /\ first <= MaxUint /\ MaxUint \in Nat
  BY LimitsAssumption
<1>a. PICK k : IsSpendTable(k, T, f, first)
  BY <1>0, SpendTable
<1>1. /\ k \in [SUBSET T -> Int] /\ k[{}] = first
      /\ \A s \in SUBSET T : s # {} => k[s] = AddSpend(k[s \ {Chosen(s)}], f[Chosen(s)])
      /\ SumSpend(first, f) = k[T]
  BY <1>a DEF IsSpendTable
<1>2. PICK g : IsSumTable(g, T, f)
  BY SumTable
<1>3. /\ g \in [SUBSET T -> Int] /\ g[{}] = 0
      /\ \A s \in SUBSET T : \A y \in s : g[s] = f[y] + g[s \ {y}]
      /\ SumFunction([x \in T |-> f[x]]) = g[T]
  BY <1>2 DEF IsSumTable
<1> DEFINE Fits(s) == k[s] <= MaxUint /\ (k[s] >= 0 => (\A x \in s : f[x] >= 0) /\ k[s] = first + g[s])
           Q == {s \in SUBSET T : Fits(s)}
<1>4. ASSUME NEW s \in SUBSET T, \A x \in s : s \ {x} \in Q PROVE s \in Q
  <2>1. CASE s = {}
    BY <1>0, <1>1, <1>3, <2>1
  <2>2. CASE s # {}
    <3> PICK x \in s : x = Chosen(s)
      BY <2>2 DEF Chosen
    <3> DEFINE r == s \ {x}
    <3>1. Fits(r)
      BY <1>4
    <3>2. k[s] = AddSpend(k[r], f[x])
      BY <1>1, <2>2
    <3>3. k[r] \in Int /\ f[x] \in Int /\ g[r] \in Int /\ k[s] \in Int
      BY <1>1, <1>3
    <3>4. g[s] = f[x] + g[r]
      BY <1>3
    <3> HIDE DEF r
    <3>5. CASE k[s] >= 0
      <4>1. k[r] >= 0 /\ f[x] >= 0 /\ k[s] = k[r] + f[x] /\ k[s] <= MaxUint
        BY <3>1, <3>2, <3>3, <3>5, AddSpendSum
      <4>2. \A y \in s : f[y] >= 0
        BY <3>1, <4>1 DEF r
      <4>3. k[s] = first + g[s]
        BY <1>0, <3>1, <3>3, <3>4, <4>1
      <4> QED
        BY <4>1, <4>2, <4>3
    <3>6. CASE ~(k[s] >= 0)
      BY <1>0, <3>3, <3>6
    <3> QED
      BY <3>5, <3>6
  <2> QED
    BY <2>1, <2>2
<1>5. SUBSET T \subseteq Q
  <2> HIDE DEF Q
  <2>1. Hereditary(T, Q)
    BY <1>4 DEF Hereditary
  <2> QED
    BY <2>1, SubsetInduction
<1>6. Fits(T)
  BY <1>5
<1> QED
  BY <1>1, <1>3, <1>6

\* The two-word division answers the exact quotient, or the largest word when the
\* quotient needs two.
LEMMA ScaledExactly ==
  ASSUME NEW u \in 0 .. MaxUint, NEW p \in 0 .. MaxUint
  PROVE  LET value == (u * p) \div Pow10(USDScale)
         IN  /\ scaleToUSD(u, p) = IF value > MaxUint THEN MaxUint ELSE value
             /\ scaleToUSD(u, p) \in 0 .. MaxUint
<1>0. MaxUint \in Nat /\ u \in Nat /\ p \in Nat
  BY LimitsAssumption
<1>1. PICK n \in Nat : n = u * p
  BY <1>0
<1>2. PICK d \in Nat \ {0} : d = Pow10(USDScale)
  BY LimitsAssumption, Powers
<1>3. PICK w \in Nat \ {0} : w = MaxUint + 1
  BY <1>0
<1>4. PICK hi \in Nat : hi = n \div w /\ hi * w <= n /\ n < hi * w + w
  BY Quotient
<1>5. PICK q \in Nat : q = n \div d /\ q * d <= n /\ n < q * d + d
  BY Quotient
<1>6. ASSUME hi >= d PROVE q >= w
  <2> SUFFICES ASSUME q + 1 <= w PROVE FALSE
    OBVIOUS
  <2>1. (q + 1) * d <= w * d /\ d * w <= hi * w
    BY <1>6, ProductGrows
  <2>2. (q + 1) * d = q * d + d /\ w * d = d * w /\ q * d \in Nat /\ d * w \in Nat /\ hi * w \in Nat
    OBVIOUS
  <2> QED
    BY <1>4, <1>5, <2>1, <2>2
<1>7. ASSUME hi + 1 <= d PROVE q < w
  <2> SUFFICES ASSUME w <= q PROVE FALSE
    OBVIOUS
  <2>1. (hi + 1) * w <= d * w /\ w * d <= q * d
    BY <1>7, ProductGrows
  <2>2. (hi + 1) * w = hi * w + w /\ w * d = d * w /\ q * d \in Nat /\ d * w \in Nat /\ hi * w \in Nat
    OBVIOUS
  <2> QED
    BY <1>4, <1>5, <2>1, <2>2
<1>8. scaleToUSD(u, p) = IF hi >= d THEN MaxUint ELSE q
  BY <1>1, <1>2, <1>3, <1>4, <1>5 DEF scaleToUSD
<1> HIDE DEF scaleToUSD
<1>9. (u * p) \div Pow10(USDScale) = q
  BY <1>1, <1>2, <1>5
<1>10. scaleToUSD(u, p) = IF q > MaxUint THEN MaxUint ELSE q
  BY <1>0, <1>3, <1>6, <1>7, <1>8
<1> QED
  BY <1>0, <1>9, <1>10

\* One addition of two words, in full.
LEMMA AddSpendWord ==
  ASSUME NEW total \in 0 .. MaxUint, NEW value \in 0 .. MaxUint
  PROVE  AddSpend(total, value) = IF total + value > MaxUint THEN SpendOverflow ELSE total + value
<1> DEFINE sum == (total + value) % (MaxUint + 1)
<1>0. MaxUint \in Nat
  BY LimitsAssumption
<1>1. AddSpend(total, value) = IF total < 0 THEN total ELSE IF value < 0 THEN value
                               ELSE IF sum < value THEN SpendOverflow ELSE sum
  BY DEF AddSpend
<1>2. sum = IF total + value <= MaxUint THEN total + value ELSE total + value - (MaxUint + 1)
  BY <1>0, WrappedSum
<1> HIDE DEF sum
<1> QED
  BY <1>0, <1>1, <1>2

\* The running total of words is their sum, or the error when the sum is not a word.
LEMMA SpendTotal ==
  ASSUME NEW T, IsFiniteSet(T), NEW f \in [T -> 0 .. MaxUint]
  PROVE  LET exact == SumFunction([x \in T |-> f[x]])
         IN  SumSpend(0, f) = IF exact > MaxUint THEN SpendOverflow ELSE exact
<1>0. 0 \in Int /\ MaxUint \in Nat /\ f \in [T -> Int]
  BY LimitsAssumption
<1>a. PICK k : IsSpendTable(k, T, f, 0)
  BY <1>0, SpendTable
<1>1. /\ k[{}] = 0 /\ SumSpend(0, f) = k[T]
      /\ \A s \in SUBSET T : s # {} => k[s] = AddSpend(k[s \ {Chosen(s)}], f[Chosen(s)])
  BY <1>a DEF IsSpendTable
<1>b. PICK g : IsSumTable(g, T, f)
  BY <1>0, SumTable
<1>2. /\ g \in [SUBSET T -> Int] /\ g[{}] = 0
      /\ \A s \in SUBSET T : \A y \in s : g[s] = f[y] + g[s \ {y}]
      /\ SumFunction([x \in T |-> f[x]]) = g[T]
  BY <1>b DEF IsSumTable
<1> DEFINE Fits(s) == g[s] >= 0 /\ k[s] = IF g[s] > MaxUint THEN SpendOverflow ELSE g[s]
           Q == {s \in SUBSET T : Fits(s)}
<1>3. ASSUME NEW s \in SUBSET T, \A x \in s : s \ {x} \in Q PROVE s \in Q
  <2>1. CASE s = {}
    BY <1>0, <1>1, <1>2, <2>1
  <2>2. CASE s # {}
    <3> PICK x \in s : x = Chosen(s)
      BY <2>2 DEF Chosen
    <3> DEFINE r == s \ {x}
    <3>1. Fits(r)
      BY <1>3
    <3>2. k[s] = AddSpend(k[r], f[x]) /\ g[s] = f[x] + g[r] /\ g[r] \in Int /\ f[x] \in 0 .. MaxUint
      BY <1>1, <1>2, <2>2
    <3> HIDE DEF r
    <3>3. CASE g[r] > MaxUint
      <4>1. k[r] = SpendOverflow
        BY <3>1, <3>3
      <4>2. AddSpend(k[r], f[x]) = SpendOverflow
        BY <4>1 DEF AddSpend, SpendOverflow
      <4> QED
        BY <1>0, <3>2, <3>3, <4>2
    <3>4. CASE ~(g[r] > MaxUint)
      <4>1. k[r] = g[r] /\ g[r] \in 0 .. MaxUint
        BY <1>0, <3>1, <3>2, <3>4
      <4>2. AddSpend(k[r], f[x]) = IF k[r] + f[x] > MaxUint THEN SpendOverflow ELSE k[r] + f[x]
        BY <3>2, <4>1, AddSpendWord
      <4> QED
        BY <1>0, <3>2, <4>1, <4>2
    <3> QED
      BY <3>3, <3>4
  <2> QED
    BY <2>1, <2>2
<1>4. SUBSET T \subseteq Q
  <2> HIDE DEF Q
  <2>1. Hereditary(T, Q)
    BY <1>3 DEF Hereditary
  <2> QED
    BY <2>1, SubsetInduction
<1>5. Fits(T)
  BY <1>4
<1> QED
  BY <1>1, <1>2, <1>5

-----------------------------------------------------------------------------
(* A set laid out in an order                                               *)

\* A strict total order on a set, as pairs.
StrictlyOrders(before, S) ==
  /\ \A x \in S : << x, x >> \notin before
  /\ \A x, y, z \in S : << x, y >> \in before /\ << y, z >> \in before => << x, z >> \in before
  /\ \A x, y \in S : x = y \/ << x, y >> \in before \/ << y, x >> \in before

\* An element's place is a place in the set.
LEMMA PlaceInSet ==
  ASSUME NEW S, IsFiniteSet(S), NEW before, NEW x \in S, << x, x >> \notin before
  PROVE  /\ Places(S, before)[x] \in 1 .. Cardinality(S)
         /\ Cardinality(S) \in Nat
         /\ Places(S, before)[x] = 1 + Cardinality({y \in S : << y, x >> \in before})
<1> DEFINE below == {y \in S : << y, x >> \in before}
<1>1. Places(S, before)[x] = 1 + Cardinality(below)
  BY DEF Places
<1>2. below \in SUBSET S /\ below # S
  OBVIOUS
<1>3. /\ IsFiniteSet(below)
      /\ Cardinality(below) <= Cardinality(S)
      /\ (Cardinality(S) = Cardinality(below) => S = below)
  BY <1>2, FS_Subset
<1>4. Cardinality(below) \in Nat /\ Cardinality(S) \in Nat
  BY <1>3, FS_CardinalityType
<1> HIDE DEF below
<1>5. 1 + Cardinality(below) \in 1 .. Cardinality(S)
  BY <1>2, <1>3, <1>4
<1> QED
  BY <1>1, <1>4, <1>5 DEF below

\* What comes before has the lower place.
LEMMA PlacesFollowOrder ==
  ASSUME NEW S, IsFiniteSet(S), NEW before, StrictlyOrders(before, S),
         NEW x \in S, NEW y \in S, << x, y >> \in before
  PROVE  Places(S, before)[x] < Places(S, before)[y]
<1> DEFINE belowX == {z \in S : << z, x >> \in before}
           belowY == {z \in S : << z, y >> \in before}
<1>1. Places(S, before)[x] = 1 + Cardinality(belowX) /\ Places(S, before)[y] = 1 + Cardinality(belowY)
  BY DEF Places
<1>2. belowX \in SUBSET belowY /\ x \in belowY /\ x \notin belowX /\ belowY \in SUBSET S
  BY DEF StrictlyOrders
<1>3. IsFiniteSet(belowY)
  BY <1>2, FS_Subset
<1> HIDE DEF belowX, belowY
<1>4. /\ IsFiniteSet(belowX)
      /\ Cardinality(belowX) <= Cardinality(belowY)
      /\ (Cardinality(belowY) = Cardinality(belowX) => belowY = belowX)
  BY <1>2, <1>3, FS_Subset
<1>5. Cardinality(belowX) \in Nat /\ Cardinality(belowY) \in Nat
  BY <1>3, <1>4, FS_CardinalityType
<1> QED
  BY <1>1, <1>2, <1>4, <1>5

\* InOrder lays every element out once, at its place.
LEMMA InOrderPlaces ==
  ASSUME NEW S, IsFiniteSet(S), NEW before, StrictlyOrders(before, S)
  PROVE  /\ Cardinality(S) \in Nat
         /\ InOrder(S, before) = [n \in 1 .. Cardinality(S) |-> InOrder(S, before)[n]]
         /\ \A n \in 1 .. Cardinality(S) :
              InOrder(S, before)[n] \in S /\ Places(S, before)[InOrder(S, before)[n]] = n
         /\ \A x \in S : /\ Places(S, before)[x] \in 1 .. Cardinality(S)
                         /\ InOrder(S, before)[Places(S, before)[x]] = x
<1> DEFINE P == Places(S, before)
           C == 1 .. Cardinality(S)
<1>0. Cardinality(S) \in Nat
  BY FS_CardinalityType
<1>1. ASSUME NEW x \in S PROVE P[x] \in C
  BY <1>1, PlaceInSet DEF StrictlyOrders
<1>2. P = [x \in S |-> P[x]]
  BY DEF Places
<1>3. ASSUME NEW x \in S, NEW y \in S, P[x] = P[y] PROVE x = y
  <2>1. ASSUME NEW u \in S, NEW v \in S, << u, v >> \in before PROVE P[u] < P[v]
    BY <2>1, PlacesFollowOrder
  <2>2. P[x] \in Int /\ P[y] \in Int
    BY <1>0, <1>1
  <2>3. x = y \/ << x, y >> \in before \/ << y, x >> \in before
    BY DEF StrictlyOrders
  <2>4. ~(P[x] < P[y]) /\ ~(P[y] < P[x])
    BY <1>3, <2>2
  <2> QED
    BY <2>1, <2>3, <2>4
<1> HIDE DEF P
<1>4. P \in Injection(S, C)
  <2>1. P \in [S -> C]
    BY <1>1, <1>2
  <2> HIDE DEF C
  <2> QED
    BY <2>1, <1>3 DEF Injection, IsInjective
<1>5. IsFiniteSet(C) /\ Cardinality(C) = Cardinality(S)
  BY <1>0, FS_Interval
<1>6. P \in Surjection(S, C)
  <2> HIDE DEF C
  <2> QED
    BY <1>4, <1>5, FS_Injection
<1>7. ASSUME NEW n \in C PROVE \E x \in S : P[x] = n
  BY <1>6 DEF Surjection
<1>8. InOrder(S, before) = [n \in C |-> CHOOSE x \in S : P[x] = n]
  BY DEF InOrder, P
<1>9. ASSUME NEW n \in C PROVE InOrder(S, before)[n] \in S /\ P[InOrder(S, before)[n]] = n
  BY <1>7, <1>8
<1>10. ASSUME NEW x \in S PROVE InOrder(S, before)[P[x]] = x
  <2>1. P[x] \in C
    BY <1>1
  <2>2. InOrder(S, before)[P[x]] \in S /\ P[InOrder(S, before)[P[x]]] = P[x]
    BY <1>9, <2>1
  <2> QED
    BY <1>3, <2>2
<1>11. InOrder(S, before) = [n \in C |-> InOrder(S, before)[n]]
  BY <1>8
<1> QED
  BY <1>0, <1>1, <1>9, <1>10, <1>11 DEF P

-----------------------------------------------------------------------------
(* Routing                                                                  *)

\* A table entry: a price Parse let through, and the path of an offer.
IsEntry(e) ==
  /\ e.cost \in DecimalAmount /\ Len(e.cost.fraction) <= MaxFractionDigits
  /\ e.path \in Int \X Int

\* lessCost compares prices as numbers, then paths.
LEMMA LessCostNumeric ==
  ASSUME NEW a, NEW b, IsEntry(a), IsEntry(b)
  PROVE  /\ Exact(a.cost) \in Nat /\ Exact(b.cost) \in Nat
         /\ lessCost(a, b) <=> \/ Exact(a.cost) < Exact(b.cost)
                               \/ Exact(a.cost) = Exact(b.cost) /\ PathBefore(a.path, b.path)
<1>1. MaxFractionDigits \in Nat
  BY InputsAssumption
<1>2. Exact(a.cost) = UnitsAt(a.cost, MaxFractionDigits) /\ Exact(b.cost) = UnitsAt(b.cost, MaxFractionDigits)
  BY DEF Exact, UnitsAt
<1>3. /\ UnitsAt(a.cost, MaxFractionDigits) \in Nat /\ UnitsAt(b.cost, MaxFractionDigits) \in Nat
      /\ Cmp(a.cost, b.cost) =
           IF UnitsAt(a.cost, MaxFractionDigits) < UnitsAt(b.cost, MaxFractionDigits) THEN -1
           ELSE IF UnitsAt(a.cost, MaxFractionDigits) = UnitsAt(b.cost, MaxFractionDigits) THEN 0 ELSE 1
  BY <1>1, CmpIsNumeric DEF IsEntry
<1> QED
  BY <1>2, <1>3 DEF lessCost

\* The entries of one capability, one for every path, are in a strict order.
LEMMA CostsOrder ==
  ASSUME NEW E, \A e \in E : IsEntry(e), \A a, b \in E : a.path = b.path => a = b
  PROVE  StrictlyOrders({p \in E \X E : lessCost(p[1], p[2])}, E)
<1> DEFINE before == {p \in E \X E : lessCost(p[1], p[2])}
           x(e) == Exact(e.cost)
<1>1. ASSUME NEW a \in E, NEW b \in E
      PROVE  << a, b >> \in before <=> x(a) < x(b) \/ (x(a) = x(b) /\ PathBefore(a.path, b.path))
  <2>1. << a, b >> \in before <=> lessCost(a, b)
    OBVIOUS
  <2> QED
    BY <2>1, LessCostNumeric
<1>2. ASSUME NEW a \in E PROVE x(a) \in Nat /\ a.path[1] \in Int /\ a.path[2] \in Int /\ a.path = << a.path[1], a.path[2] >>
  <2>1. IsEntry(a)
    OBVIOUS
  <2>2. x(a) \in Nat
    BY <2>1, LessCostNumeric
  <2>3. a.path \in Int \X Int
    BY <2>1 DEF IsEntry
  <2> QED
    BY <2>2, <2>3
<1> HIDE DEF before, x
<1>3. ASSUME NEW a \in E PROVE << a, a >> \notin before
  BY <1>1, <1>2 DEF PathBefore
<1>4. ASSUME NEW a \in E, NEW b \in E, NEW c \in E, << a, b >> \in before, << b, c >> \in before
      PROVE  << a, c >> \in before
  BY <1>1, <1>2, <1>4 DEF PathBefore
<1>5. ASSUME NEW a \in E, NEW b \in E, a # b PROVE << a, b >> \in before \/ << b, a >> \in before
  <2>1. a.path # b.path
    BY <1>5
  <2>2. a.path[1] # b.path[1] \/ a.path[2] # b.path[2]
    BY <1>2, <2>1, Zenon
  <2> QED
    BY <1>1, <1>2, <2>2 DEF PathBefore
<1>6. StrictlyOrders(before, E)
  BY <1>3, <1>4, <1>5 DEF StrictlyOrders
<1> QED
  BY <1>6 DEF before

\* An announcement stands for one capability of one open offer of an active agent.
AnnouncementOf(o, c) ==
  [capability |-> c, path |-> SquadPath(o), cost |-> o.price,
   policy |-> [settlement_modes |-> List(o.modes), currencies |-> List({o.mint}),
               direction |-> TextValue(o.direction), agent |-> TextValue(ToString(o.agent))]]

\* The announcements of one capability are finitely many entries, no two under one
\* path.
LEMMA EntriesOfCapability ==
  ASSUME NEW g \in RouteInputs, NEW c
  PROVE  LET E == {a \in Announcements(g.offers, g.active) : a.capability = c}
         IN  /\ IsFiniteSet(E)
             /\ \A e \in E : IsEntry(e)
             /\ \A a, b \in E : a.path = b.path => a = b
<1> DEFINE E == {a \in Announcements(g.offers, g.active) : a.capability = c}
<1>1. ASSUME NEW a \in E PROVE \E o \in g.offers : a = AnnouncementOf(o, c)
  BY DEF Announcements, AnnouncementsForOffer, AnnouncementOf
<1>2. ASSUME NEW o \in g.offers
      PROVE  AnnouncementOf(o, c).path = SquadPath(o) /\ AnnouncementOf(o, c).cost = o.price
  BY DEF AnnouncementOf
<1> HIDE DEF E
<1>3. \A e \in E : IsEntry(e)
  <2> SUFFICES ASSUME NEW e \in E PROVE IsEntry(e)
    OBVIOUS
  <2>1. PICK o \in g.offers : e = AnnouncementOf(o, c)
    BY <1>1
  <2>2. e.path = SquadPath(o) /\ e.cost = o.price
    BY <1>2, <2>1
  <2> QED
    BY <2>2, InputsAssumption DEF IsEntry
<1>4. \A a, b \in E : a.path = b.path => a = b
  <2> SUFFICES ASSUME NEW a \in E, NEW b \in E, a.path = b.path PROVE a = b
    OBVIOUS
  <2>1. PICK o \in g.offers : a = AnnouncementOf(o, c)
    BY <1>1
  <2>2. PICK p \in g.offers : b = AnnouncementOf(p, c)
    BY <1>1
  <2>3. SquadPath(o) = SquadPath(p)
    BY <1>2, <2>1, <2>2
  <2>4. o = p
    BY <2>3, InputsAssumption
  <2> QED
    BY <2>1, <2>2, <2>4
<1>5. IsFiniteSet(E)
  <2> DEFINE origin == [a \in E |-> CHOOSE o \in g.offers : a = AnnouncementOf(o, c)]
  <2>1. ASSUME NEW a \in E PROVE origin[a] \in g.offers /\ a = AnnouncementOf(origin[a], c)
    BY <1>1
  <2>2. origin \in [E -> g.offers]
    BY <2>1
  <2> HIDE DEF origin
  <2>3. origin \in Injection(E, g.offers)
    BY <2>1, <2>2 DEF Injection, IsInjective
  <2>4. IsFiniteSet(g.offers)
    BY InputsAssumption
  <2> QED
    BY <2>3, <2>4, FS_Injection
<1> QED
  BY <1>3, <1>4, <1>5 DEF E

\* A sorted list holds the entries, the cheaper ones first.
LEMMA SortedEntries ==
  ASSUME NEW E, IsFiniteSet(E), \A e \in E : IsEntry(e), \A a, b \in E : a.path = b.path => a = b
  PROVE  /\ Cardinality(E) \in Nat /\ DOMAIN sortEntries(E) = 1 .. Cardinality(E)
         /\ \A i \in DOMAIN sortEntries(E) : sortEntries(E)[i] \in E
         /\ \A e \in E : \E i \in DOMAIN sortEntries(E) : sortEntries(E)[i] = e
         /\ \A i, j \in DOMAIN sortEntries(E) :
              i <= j => Exact(sortEntries(E)[i].cost) <= Exact(sortEntries(E)[j].cost)
<1> DEFINE before == {p \in E \X E : lessCost(p[1], p[2])}
           P == Places(E, before)
<1> PICK s : s = sortEntries(E)
  OBVIOUS
<1>1. StrictlyOrders(before, E)
  BY CostsOrder
<1>2. ASSUME NEW a \in E, NEW b \in E
      PROVE  << a, b >> \in before => Exact(a.cost) <= Exact(b.cost)
  <2>1. << a, b >> \in before => lessCost(a, b)
    OBVIOUS
  <2> QED
    BY <2>1, LessCostNumeric
<1>3. s = InOrder(E, before)
  BY DEF sortEntries
<1> HIDE DEF before
<1>4. /\ Cardinality(E) \in Nat /\ s = [n \in 1 .. Cardinality(E) |-> s[n]]
      /\ \A n \in 1 .. Cardinality(E) : s[n] \in E /\ P[s[n]] = n
      /\ \A x \in E : P[x] \in 1 .. Cardinality(E) /\ s[P[x]] = x
  BY <1>1, <1>3, InOrderPlaces
<1>5. ASSUME NEW a \in E, NEW b \in E, << a, b >> \in before PROVE P[a] < P[b]
  BY <1>1, <1>5, PlacesFollowOrder
<1> HIDE DEF P
<1>6. DOMAIN s = 1 .. Cardinality(E)
  BY <1>4
<1>7. ASSUME NEW i \in DOMAIN s, NEW j \in DOMAIN s, i <= j
      PROVE  Exact(s[i].cost) <= Exact(s[j].cost)
  <2>1. s[i] \in E /\ s[j] \in E /\ P[s[i]] = i /\ P[s[j]] = j
    BY <1>4, <1>6
  <2>2. Exact(s[i].cost) \in Nat
    BY <2>1, LessCostNumeric
  <2>3. s[i] = s[j] \/ << s[i], s[j] >> \in before \/ << s[j], s[i] >> \in before
    BY <1>1, <2>1 DEF StrictlyOrders
  <2>4. << s[j], s[i] >> \notin before
    BY <1>4, <1>5, <1>6, <1>7, <2>1
  <2>5. CASE s[i] = s[j]
    BY <2>2, <2>5
  <2> QED
    BY <1>2, <2>1, <2>3, <2>4, <2>5
<1> QED
  BY <1>4, <1>6, <1>7

\* What the table answers: the first compliant entry of the intent's capability.
LEMMA RouteTaken ==
  ASSUME NEW g \in RouteInputs
  PROVE  LET result == RouteIntent(g.offers, g.active, g.intent)
             announced == {a \in Announcements(g.offers, g.active) :
                             a.capability = NormalizeCapability(g.intent.capability)}
             compliant == {a \in announced : checkPolicy(a.policy, g.intent.constraints)}
         IN  \/ result \in {Internal, InvalidIntent}
             \/ result = RouteNotFound /\ announced = {}
             \/ result = PolicyViolation /\ announced # {} /\ compliant = {}
             \/ /\ result.code = "routed"
                /\ \E best \in compliant :
                     best.path = result.path /\ \A a \in compliant : Exact(best.cost) <= Exact(a.cost)
<1> DEFINE offered == Announcements(g.offers, g.active)
           intent == g.intent
           capability == NormalizeCapability(intent.capability)
           result == RouteIntent(g.offers, g.active, g.intent)
           entries(c) == {a \in offered : a.capability = c}
           announced == entries(capability)
           compliant == {a \in announced : checkPolicy(a.policy, intent.constraints)}
           table == [c \in {a.capability : a \in offered} |-> sortEntries(entries(c))]
<1>1. BuildTable(offered) \in {{}, {table}}
  BY Zenon DEF BuildTable
<1>2. CASE BuildTable(offered) = {}
  <2>1. result = Internal
    BY <1>2 DEF RouteIntent
  <2> QED
    BY <2>1
<1>3. CASE BuildTable(offered) = {table}
  <2>1. result = RouteIn(table, intent)
    <3>1. (CHOOSE t \in {table} : TRUE) = table
      OBVIOUS
    <3> HIDE DEF table
    <3> QED
      BY <1>3, <3>1 DEF RouteIntent
  <2>2. DOMAIN table = {a.capability : a \in offered}
    BY Zenon
  <2>3. capability \in DOMAIN table <=> announced # {}
    BY <2>2
  <2>4. capability \in DOMAIN table => table[capability] = sortEntries(announced)
    BY Zenon
  <2> DEFINE s == table[capability]
             fits == {i \in DOMAIN s : checkPolicy(s[i].policy, intent.constraints)}
             best == CHOOSE i \in fits : \A j \in fits : i <= j
  <2>5. capability \in DOMAIN table =>
        /\ Cardinality(announced) \in Nat /\ DOMAIN s = 1 .. Cardinality(announced)
        /\ \A i \in DOMAIN s : s[i] \in announced
        /\ \A e \in announced : \E i \in DOMAIN s : s[i] = e
        /\ \A i, j \in DOMAIN s : i <= j => Exact(s[i].cost) <= Exact(s[j].cost)
    <3>1. /\ IsFiniteSet(announced)
          /\ \A e \in announced : IsEntry(e)
          /\ \A a, b \in announced : a.path = b.path => a = b
      BY EntriesOfCapability
    <3> HIDE DEF announced, table, capability
    <3>2. /\ Cardinality(announced) \in Nat /\ DOMAIN sortEntries(announced) = 1 .. Cardinality(announced)
          /\ \A i \in DOMAIN sortEntries(announced) : sortEntries(announced)[i] \in announced
          /\ \A e \in announced : \E i \in DOMAIN sortEntries(announced) : sortEntries(announced)[i] = e
          /\ \A i, j \in DOMAIN sortEntries(announced) :
               i <= j => Exact(sortEntries(announced)[i].cost) <= Exact(sortEntries(announced)[j].cost)
      BY <3>1, SortedEntries
    <3> SUFFICES ASSUME capability \in DOMAIN table PROVE s = sortEntries(announced)
      BY <3>2, Zenon
    <3> QED
      BY <2>4
  <2> HIDE DEF table
  <2>7. CASE ~ValidateCapability(intent.capability) \/ intent.payload = {}
    <3>1. result = InvalidIntent
      BY <2>1, <2>7 DEF RouteIn
    <3> QED
      BY <3>1
  <2>8. CASE ~(~ValidateCapability(intent.capability) \/ intent.payload = {}) /\ capability \notin DOMAIN table
    <3>1. result = RouteNotFound
      BY <2>1, <2>8 DEF RouteIn
    <3> QED
      BY <2>3, <2>8, <3>1
  <2>9. CASE ~(~ValidateCapability(intent.capability) \/ intent.payload = {}) /\ capability \in DOMAIN table
    <3>1. result = IF fits = {} THEN PolicyViolation ELSE [code |-> "routed", path |-> s[best].path]
      BY <2>1, <2>9 DEF RouteIn
    <3> HIDE DEF s
    <3>4. compliant = {s[i] : i \in fits}
      <4> HIDE DEF announced, capability
      <4> QED
        BY <2>5, <2>9
    <3>2. CASE fits = {}
      BY <2>3, <2>9, <3>1, <3>2, <3>4
    <3>3. CASE fits # {}
      <4>1. result.code = "routed" /\ result.path = s[best].path
        BY <3>1, <3>3
      <4>2. fits \in SUBSET Nat
        BY <2>5, <2>9
      <4>3. best \in fits /\ \A j \in fits : best <= j
        <5>1. \E i \in fits : \A j \in fits : i <= j
          BY <3>3, <4>2, NatMin
        <5> HIDE DEF fits
        <5> QED
          BY <5>1
      <4> HIDE DEF best, result
      <4>4. s[best] \in compliant
        BY <3>4, <4>3
      <4>5. ASSUME NEW a \in compliant PROVE Exact(s[best].cost) <= Exact(a.cost)
        <5>1. PICK j \in fits : a = s[j]
          BY <3>4
        <5> QED
          BY <2>5, <2>9, <4>3, <5>1
      <4> QED
        BY <4>1, <4>4, <4>5 DEF result
    <3> QED
      BY <3>2, <3>3
  <2> QED
    BY <2>7, <2>8, <2>9
<1> QED
  BY <1>1, <1>2, <1>3

\* The refusals tell themselves apart by their codes.
LEMMA RefusalCodes ==
  /\ RouteNotFound.code = "route not found" /\ PolicyViolation.code = "policy violation"
  /\ InvalidIntent.code = "invalid intent" /\ Internal.code = "internal"
  BY DEF RouteNotFound, PolicyViolation, InvalidIntent, Internal

-----------------------------------------------------------------------------
(* The settlement transaction                                               *)

Holds(s, v) == \E i \in DOMAIN s : s[i] = v

\* Two sequences in a row hold what either holds.
LEMMA HoldsJoined ==
  ASSUME NEW V, NEW s \in Seq(V), NEW t \in Seq(V), NEW v
  PROVE  Holds(s \o t, v) <=> Holds(s, v) \/ Holds(t, v)
<1>1. DOMAIN s = 1 .. Len(s) /\ DOMAIN t = 1 .. Len(t) /\ Len(s) \in Nat /\ Len(t) \in Nat
  OBVIOUS
<1>2. /\ DOMAIN (s \o t) = 1 .. Len(s) + Len(t)
      /\ \A i \in 1 .. Len(s) + Len(t) : (s \o t)[i] = IF i <= Len(s) THEN s[i] ELSE t[i - Len(s)]
  OBVIOUS
<1>3. ASSUME Holds(s \o t, v) PROVE Holds(s, v) \/ Holds(t, v)
  <2>1. PICK i \in 1 .. Len(s) + Len(t) : (s \o t)[i] = v
    BY <1>2, <1>3 DEF Holds
  <2>2. CASE i <= Len(s)
    BY <1>1, <1>2, <2>1, <2>2 DEF Holds
  <2>3. CASE ~(i <= Len(s))
    <3>1. i - Len(s) \in 1 .. Len(t) /\ t[i - Len(s)] = v
      BY <1>1, <1>2, <2>1, <2>3
    <3> QED
      BY <1>1, <3>1 DEF Holds
  <2> QED
    BY <2>2, <2>3
<1>4. ASSUME Holds(s, v) PROVE Holds(s \o t, v)
  <2>1. PICK i \in 1 .. Len(s) : s[i] = v
    BY <1>1, <1>4 DEF Holds
  <2>2. i \in 1 .. Len(s) + Len(t) /\ i <= Len(s)
    BY <1>1
  <2> QED
    BY <1>2, <2>1, <2>2 DEF Holds
<1>5. ASSUME Holds(t, v) PROVE Holds(s \o t, v)
  <2>1. PICK i \in 1 .. Len(t) : t[i] = v
    BY <1>1, <1>5 DEF Holds
  <2>2. i + Len(s) \in 1 .. Len(s) + Len(t) /\ ~(i + Len(s) <= Len(s)) /\ (i + Len(s)) - Len(s) = i
    BY <1>1
  <2>3. (s \o t)[i + Len(s)] = v
    BY <1>2, <2>1, <2>2
  <2> QED
    BY <1>2, <2>2, <2>3 DEF Holds
<1> QED
  BY <1>3, <1>4, <1>5

IsFlatTable(f, ss) ==
  /\ f[1] = ss[1]
  /\ \A i \in 2 .. Len(ss) : f[i] = f[i - 1] \o ss[i]

\* The running concatenation of the sequences.
LEMMA FlatTable ==
  ASSUME NEW V, NEW ss \in Seq(Seq(V)), Len(ss) # 0
  PROVE  \E f : IsFlatTable(f, ss) /\ FlattenSeq(ss) = f[Len(ss)]
<1> DEFINE Cat(s, t) == s \o t
           Rec(u, n) == [i \in 1 .. n |-> IF i = 1 THEN ss[i] ELSE Cat(u[i - 1], ss[i])]
           Good == {n \in Nat : n <= Len(ss) => \E u : u = Rec(u, n)}
<1>0. Len(ss) \in Nat
  OBVIOUS
<1> HIDE DEF Cat
<1>1. 0 \in Good
  <2> DEFINE u == [i \in 1 .. 0 |-> 0]
  <2>1. u = Rec(u, 0)
    OBVIOUS
  <2> QED
    BY <2>1
<1>2. ASSUME NEW n \in Good PROVE n + 1 \in Good
  <2>1. n + 1 \in Nat /\ n \in Nat
    OBVIOUS
  <2> SUFFICES ASSUME n + 1 <= Len(ss) PROVE \E u : u = Rec(u, n + 1)
    BY <2>1
  <2>2. PICK u : u = Rec(u, n)
    BY <1>0, <2>1
  <2> DEFINE new == IF n + 1 = 1 THEN ss[n + 1] ELSE Cat(u[n], ss[n + 1])
             v == [i \in 1 .. n + 1 |-> IF i <= n THEN u[i] ELSE new]
  <2>3. \A i \in 1 .. n : u[i] = IF i = 1 THEN ss[i] ELSE Cat(u[i - 1], ss[i])
    BY <2>1, <2>2
  <2>4. ASSUME NEW i \in 1 .. n + 1 PROVE v[i] = IF i = 1 THEN ss[i] ELSE Cat(v[i - 1], ss[i])
    <3>1. CASE i \in 1 .. n
      <4>1. v[i] = u[i] /\ (i # 1 => v[i - 1] = u[i - 1])
        BY <2>1, <3>1
      <4>2. u[i] = IF i = 1 THEN ss[i] ELSE Cat(u[i - 1], ss[i])
        BY <2>3, <3>1
      <4> HIDE DEF v
      <4> QED
        BY <4>1, <4>2
    <3>2. CASE i = n + 1
      <4>1. v[i] = new /\ (i # 1 => v[i - 1] = u[n])
        BY <2>1, <3>2
      <4> HIDE DEF v
      <4> QED
        BY <3>2, <4>1
    <3> QED
      BY <2>1, <3>1, <3>2
  <2>5. v = Rec(v, n + 1)
    <3> DEFINE w == Rec(v, n + 1)
    <3>1. \A i \in 1 .. n + 1 : w[i] = v[i]
      BY <2>4
    <3>2. w = [i \in 1 .. n + 1 |-> w[i]] /\ v = [i \in 1 .. n + 1 |-> v[i]]
      OBVIOUS
    <3> HIDE DEF w, v
    <3>3. w = v
      BY <3>1, <3>2
    <3> QED
      BY <3>3 DEF w
  <2> QED
    BY <2>5
<1>3. Good = Nat
  <2>1. Good \subseteq Nat
    OBVIOUS
  <2> HIDE DEF Good
  <2> QED
    BY <1>1, <1>2, <2>1, NatSet
<1>4. \E u : u = Rec(u, Len(ss))
  <2>1. Len(ss) \in Good /\ Len(ss) <= Len(ss)
    <3> HIDE DEF Good
    <3> QED
      BY <1>0, <1>3
  <2> HIDE DEF Rec
  <2> QED
    BY <2>1
<1> DEFINE flat == CHOOSE u : u = Rec(u, Len(ss))
<1>5. flat = Rec(flat, Len(ss))
  <2> HIDE DEF Rec
  <2> QED
    BY <1>4, Zenon
<1>6. FlattenSeq(ss) = flat[Len(ss)]
  BY DEF FlattenSeq, Cat
<1> HIDE DEF flat
<1>7. flat[1] = ss[1] /\ \A i \in 2 .. Len(ss) : flat[i] = Cat(flat[i - 1], ss[i])
  <2> PICK k \in Nat : k = Len(ss)
    BY <1>0
  <2>1. \A i \in 1 .. k : flat[i] = IF i = 1 THEN ss[i] ELSE Cat(flat[i - 1], ss[i])
    BY <1>5, Zenon
  <2>2. 1 \in 1 .. k /\ \A i \in 2 .. k : i \in 1 .. k /\ i # 1
    OBVIOUS
  <2>3. flat[1] = ss[1]
    BY <2>1, <2>2, Zenon
  <2>4. \A i \in 2 .. k : flat[i] = Cat(flat[i - 1], ss[i])
    BY <2>1, <2>2, Zenon
  <2> QED
    BY <2>3, <2>4, Zenon
<1>8. IsFlatTable(flat, ss)
  BY <1>7 DEF IsFlatTable, Cat
<1> QED
  BY <1>6, <1>8, Zenon

\* A flattened sequence holds what its parts hold.
LEMMA Flattened ==
  ASSUME NEW V, NEW ss \in Seq(Seq(V))
  PROVE  /\ FlattenSeq(ss) \in Seq(V)
         /\ \A v : Holds(FlattenSeq(ss), v) <=> \E j \in 1 .. Len(ss) : Holds(ss[j], v)
<1>0. Len(ss) \in Nat /\ \A j \in 1 .. Len(ss) : ss[j] \in Seq(V)
  OBVIOUS
<1>1. CASE Len(ss) = 0
  <2>1. FlattenSeq(ss) = ss /\ ss = <<>> /\ DOMAIN ss = {}
    BY <1>1 DEF FlattenSeq
  <2>2. FlattenSeq(ss) \in Seq(V) /\ DOMAIN FlattenSeq(ss) = {}
    BY <2>1
  <2> QED
    BY <1>1, <2>2 DEF Holds
<1>2. CASE Len(ss) # 0
  <2>1. PICK f : IsFlatTable(f, ss) /\ FlattenSeq(ss) = f[Len(ss)]
    BY <1>2, FlatTable
  <2> DEFINE Right(n) == /\ f[n] \in Seq(V)
                         /\ \A v : Holds(f[n], v) <=> \E j \in 1 .. n : Holds(ss[j], v)
             Good == {n \in Nat : n + 1 <= Len(ss) => Right(n + 1)}
  <2>2. 0 \in Good
    <3>1. f[1] = ss[1] /\ ss[1] \in Seq(V)
      BY <1>0, <1>2, <2>1 DEF IsFlatTable
    <3>2. Right(1)
      <4>1. \A v : (\E j \in 1 .. 1 : Holds(ss[j], v)) <=> Holds(ss[1], v)
        OBVIOUS
      <4> QED
        BY <3>1, <4>1, Zenon
    <3> HIDE DEF Right
    <3> QED
      BY <3>2
  <2>3. ASSUME NEW n \in Good PROVE n + 1 \in Good
    <3>0. n \in Nat /\ n + 1 \in Nat /\ (n + 1 <= Len(ss) => Right(n + 1))
      <4> HIDE DEF Right
      <4> QED
        OBVIOUS
    <3> SUFFICES ASSUME (n + 1) + 1 <= Len(ss) PROVE Right((n + 1) + 1)
      <4> HIDE DEF Right
      <4> QED
        BY <3>0
    <3> PICK m \in Nat : m = (n + 1) + 1
      OBVIOUS
    <3>1. m \in 2 .. Len(ss) /\ m - 1 = n + 1 /\ Right(m - 1)
      <4> HIDE DEF Right
      <4> QED
        BY <1>0, <3>0
    <3>2. f[m] = f[m - 1] \o ss[m] /\ f[m - 1] \in Seq(V) /\ ss[m] \in Seq(V)
      <4>1. f[m] = f[m - 1] \o ss[m]
        BY <2>1, <3>1, Zenon DEF IsFlatTable
      <4>2. f[m - 1] \in Seq(V)
        BY <3>1, Zenon
      <4>3. m \in 1 .. Len(ss)
        BY <3>1
      <4> QED
        BY <1>0, <4>1, <4>2, <4>3, Zenon
    <3>3. f[m] \in Seq(V)
      BY <3>2
    <3>4. ASSUME NEW v PROVE Holds(f[m], v) <=> \E j \in 1 .. m : Holds(ss[j], v)
      <4>1. Holds(f[m], v) <=> Holds(f[m - 1], v) \/ Holds(ss[m], v)
        BY <3>2, HoldsJoined
      <4>2. Holds(f[m - 1], v) <=> \E j \in 1 .. m - 1 : Holds(ss[j], v)
        BY <3>1
      <4>3. \A j : j \in 1 .. m <=> j \in 1 .. m - 1 \/ j = m
        BY <3>1
      <4> QED
        BY <4>1, <4>2, <4>3
    <3>5. Right(m)
      BY <3>3, <3>4, Zenon
    <3> HIDE DEF Right
    <3> QED
      BY <3>5
  <2>4. Good = Nat
    <3>1. Good \subseteq Nat
      OBVIOUS
    <3> HIDE DEF Good
    <3> QED
      BY <2>2, <2>3, <3>1, NatSet
  <2>5. Len(ss) - 1 \in Nat /\ (Len(ss) - 1) + 1 = Len(ss)
    BY <1>0, <1>2
  <2>6. Right(Len(ss))
    <3> HIDE DEF Right
    <3>0. Len(ss) - 1 \in Good
      <4> HIDE DEF Good
      <4> QED
        BY <2>4, <2>5
    <3>1. Right((Len(ss) - 1) + 1)
      BY <1>0, <2>5, <3>0
    <3> QED
      BY <2>5, <3>1
  <2> QED
    BY <2>1, <2>6
<1> QED
  BY <1>1, <1>2

AccountUse(K) == [key : K, signer : BOOLEAN, writable : BOOLEAN]

\* Instructions over the keys in K.
AreInstructions(ixs, K) ==
  /\ ixs \in Seq({ixs[i] : i \in DOMAIN ixs})
  /\ \A i \in DOMAIN ixs : ixs[i].program \in K /\ ixs[i].accounts \in Seq(AccountUse(K))

\* What an instruction uses.
Uses(ix, u) == Holds(ix.accounts, u) \/ u = As(ix.program, Plain)

\* The message collects what its instructions use, after the payer.
LEMMA UsesCollected ==
  ASSUME NEW K, NEW payer \in K, NEW ixs, AreInstructions(ixs, K)
  PROVE  /\ AccountUses(ixs, payer) \in Seq(AccountUse(K))
         /\ \A u : Holds(AccountUses(ixs, payer), u)
                     <=> u = As(payer, Pays) \/ \E i \in DOMAIN ixs : Uses(ixs[i], u)
<1> DEFINE A == AccountUse(K)
           part(i) == ixs[i].accounts \o << As(ixs[i].program, Plain) >>
           parts == [i \in DOMAIN ixs |-> part(i)]
           flat == FlattenSeq(parts)
           first == << As(payer, Pays) >>
<1>1. DOMAIN ixs = 1 .. Len(ixs) /\ Len(ixs) \in Nat
  BY DEF AreInstructions
<1>2. ASSUME NEW k \in K PROVE As(k, Plain) \in A /\ As(k, Pays) \in A
  BY DEF AccountUse, As, Plain, Pays
<1> HIDE DEF A
<1>3. ASSUME NEW a \in A, NEW u PROVE << a >> \in Seq(A) /\ (Holds(<< a >>, u) <=> u = a)
  BY DEF Holds
<1>4. ASSUME NEW i \in DOMAIN ixs
      PROVE  part(i) \in Seq(A) /\ \A u : Holds(part(i), u) <=> Uses(ixs[i], u)
  <2> PICK one : one = As(ixs[i].program, Plain)
    OBVIOUS
  <2>1. one \in A /\ ixs[i].accounts \in Seq(A)
    BY <1>2 DEF AreInstructions, A
  <2>2. << one >> \in Seq(A)
    BY <1>3, <2>1
  <2>3. ixs[i].accounts \o << one >> \in Seq(A)
    BY <2>1, <2>2
  <2>4. ASSUME NEW u PROVE Holds(ixs[i].accounts \o << one >>, u) <=> Holds(ixs[i].accounts, u) \/ u = one
    <3>1. Holds(<< one >>, u) <=> u = one
      BY <1>3, <2>1
    <3> QED
      BY <2>1, <2>2, <3>1, HoldsJoined
  <2> QED
    BY <2>3, <2>4, Zenon DEF Uses
<1> HIDE DEF part
<1>5. parts \in Seq(Seq(A)) /\ Len(parts) = Len(ixs)
  <2>1. parts \in [1 .. Len(ixs) -> Seq(A)]
    BY <1>1, <1>4
  <2> HIDE DEF parts
  <2> QED
    BY <1>1, <2>1
<1>6. \A i \in DOMAIN ixs : parts[i] = part(i)
  OBVIOUS
<1> HIDE DEF parts
<1>7. /\ flat \in Seq(A)
      /\ \A u : Holds(flat, u) <=> \E j \in 1 .. Len(parts) : Holds(parts[j], u)
  BY <1>5, Flattened
<1>8. ASSUME NEW u PROVE Holds(flat, u) <=> \E i \in DOMAIN ixs : Uses(ixs[i], u)
  BY <1>1, <1>4, <1>5, <1>6, <1>7
<1> HIDE DEF flat
<1>9. first \in Seq(A) /\ \A u : Holds(first, u) <=> u = As(payer, Pays)
  BY <1>2, <1>3
<1> HIDE DEF first
<1>10. first \o flat \in Seq(A)
  BY <1>7, <1>9
<1>11. ASSUME NEW u PROVE Holds(first \o flat, u) <=> u = As(payer, Pays) \/ \E i \in DOMAIN ixs : Uses(ixs[i], u)
  BY <1>7, <1>8, <1>9, HoldsJoined
<1>12. AccountUses(ixs, payer) = first \o flat
  BY Zenon DEF AccountUses, first, flat, parts, part
<1> QED
  BY <1>10, <1>11, <1>12, Zenon DEF A

ClassOf(k, uses) == AccountClass(k, SigningKeys(uses), WritingKeys(uses))

MessageOrder(uses) ==
  {p \in KeysUsed(uses) \X KeysUsed(uses) :
     \/ ClassOf(p[1], uses) < ClassOf(p[2], uses)
     \/ /\ ClassOf(p[1], uses) = ClassOf(p[2], uses)
        /\ FirstUse(p[1], uses) < FirstUse(p[2], uses)}

\* The accounts of a message are finitely many, in a strict order.
LEMMA MessageOrders ==
  ASSUME NEW A, NEW uses \in Seq(A)
  PROVE  IsFiniteSet(KeysUsed(uses)) /\ StrictlyOrders(MessageOrder(uses), KeysUsed(uses))
<1> DEFINE keys == KeysUsed(uses)
           first(k) == FirstUse(k, uses)
           class(k) == ClassOf(k, uses)
           before == MessageOrder(uses)
<1>1. DOMAIN uses = 1 .. Len(uses) /\ Len(uses) \in Nat
  OBVIOUS
<1>2. ASSUME NEW k \in keys PROVE first(k) \in 1 .. Len(uses) /\ uses[first(k)].key = k
  <2> DEFINE at == {i \in DOMAIN uses : uses[i].key = k}
  <2>1. at # {} /\ at \subseteq Nat
    BY <1>1 DEF KeysUsed
  <2>2. PICK m \in at : \A n \in at : m <= n
    <3> HIDE DEF at
    <3> QED
      BY <2>1, NatMin
  <2>3. m \in DOMAIN uses /\ uses[m].key = k
    OBVIOUS
  <2>4. ASSUME NEW j \in 1 .. m - 1 PROVE uses[j].key # k
    BY <1>1, <2>2, <2>3
  <2>5. \E i \in DOMAIN uses : uses[i].key = k /\ \A j \in 1 .. i - 1 : uses[j].key # k
    BY <2>3, <2>4
  <2> QED
    BY <1>1, <2>5 DEF FirstUse
<1>3. ASSUME NEW k PROVE class(k) \in 1 .. 4
  BY DEF ClassOf, AccountClass
<1>4. ASSUME NEW k \in keys, NEW l \in keys
      PROVE  << k, l >> \in before <=> class(k) < class(l) \/ (class(k) = class(l) /\ first(k) < first(l))
  BY DEF MessageOrder
<1>5. IsFiniteSet(keys)
  <2> DEFINE place == [k \in keys |-> first(k)]
  <2>1. place \in [keys -> 1 .. Len(uses)] /\ \A k \in keys : uses[place[k]].key = k
    BY <1>2
  <2> HIDE DEF place, keys
  <2>2. place \in Injection(keys, 1 .. Len(uses))
    BY <2>1 DEF Injection, IsInjective
  <2>3. IsFiniteSet(1 .. Len(uses))
    BY <1>1, FS_Interval
  <2> QED
    BY <2>2, <2>3, FS_Injection
<1> HIDE DEF keys, first, class, before
<1>6. ASSUME NEW k \in keys PROVE << k, k >> \notin before
  BY <1>1, <1>2, <1>3, <1>4
<1>7. ASSUME NEW k \in keys, NEW l \in keys, NEW m \in keys, << k, l >> \in before, << l, m >> \in before
      PROVE  << k, m >> \in before
  <2>1. /\ first(k) \in Int /\ first(l) \in Int /\ first(m) \in Int
        /\ class(k) \in Int /\ class(l) \in Int /\ class(m) \in Int
    BY <1>1, <1>2, <1>3
  <2>2. /\ class(k) < class(l) \/ (class(k) = class(l) /\ first(k) < first(l))
        /\ class(l) < class(m) \/ (class(l) = class(m) /\ first(l) < first(m))
    BY <1>4, <1>7
  <2>3. class(k) < class(m) \/ (class(k) = class(m) /\ first(k) < first(m))
    BY <2>1, <2>2
  <2> QED
    BY <1>4, <2>3
<1>8. ASSUME NEW k \in keys, NEW l \in keys, k # l PROVE << k, l >> \in before \/ << l, k >> \in before
  <2>1. first(k) # first(l)
    BY <1>2, <1>8
  <2> QED
    BY <1>1, <1>2, <1>3, <1>4, <2>1
<1>9. StrictlyOrders(before, keys)
  BY <1>6, <1>7, <1>8 DEF StrictlyOrders
<1> QED
  BY <1>5, <1>9 DEF keys, before

\* A key some use names, and the classes of the message's accounts.
LEMMA KeysHeld ==
  ASSUME NEW A, NEW uses \in Seq(A)
  PROVE  /\ \A u : Holds(uses, u) => u.key \in KeysUsed(uses)
         /\ \A k : k \in SigningKeys(uses) <=> \E u : Holds(uses, u) /\ u.key = k /\ u.signer
         /\ \A k : k \in WritingKeys(uses) <=> \E u : Holds(uses, u) /\ u.key = k /\ u.writable
  BY DEF Holds, KeysUsed, SigningKeys, WritingKeys

\* Instructions that refer to the accounts of a message by their places.
Calls(ixs, uses) ==
  LET index == Places(KeysUsed(uses), MessageOrder(uses))
  IN  [i \in DOMAIN ixs |->
         [program |-> index[ixs[i].program],
          accounts |-> [j \in DOMAIN ixs[i].accounts |-> index[ixs[i].accounts[j].key]],
          data |-> ixs[i].data]]

\* The parts of a compiled message.
LEMMA MessageParts ==
  ASSUME NEW ixs, NEW payer
  PROVE  LET tx == NewTransaction(ixs, payer)
             uses == AccountUses(ixs, payer)
         IN  /\ tx.version = "legacy"
             /\ tx.keys = InOrder(KeysUsed(uses), MessageOrder(uses))
             /\ tx.signers = Cardinality({k \in KeysUsed(uses) : ClassOf(k, uses) \in {1, 2}})
             /\ tx.instructions = Calls(ixs, uses)
<1> DEFINE uses == AccountUses(ixs, payer)
           keys == KeysUsed(uses)
           count(classes) == Cardinality({k \in keys : ClassOf(k, uses) \in classes})
           order == InOrder(keys, MessageOrder(uses))
           calls == Calls(ixs, uses)
           tx == NewTransaction(ixs, payer)
<1>1. tx = [version |-> "legacy", keys |-> order, signers |-> count({1, 2}),
            readonlySigned |-> count({2}), readonlyUnsigned |-> count({4}),
            signedBy |-> {}, instructions |-> calls]
  BY Zenon DEF NewTransaction, MessageOrder, ClassOf, Calls
<1> HIDE DEF order, count, calls, tx
<1>2. tx.version = "legacy" /\ tx.keys = order /\ tx.signers = count({1, 2}) /\ tx.instructions = calls
  BY <1>1
<1> QED
  BY <1>2, Zenon DEF order, count, calls, tx

\* Signing a message leaves it as it is.
LEMMA SignedParts ==
  ASSUME NEW ixs, NEW payer, NEW wallets
  PROVE  LET tx == NewTransaction(ixs, payer)
         IN  /\ SignedBy(tx, wallets).signedBy = wallets
             /\ SignedBy(tx, wallets).keys = tx.keys /\ SignedBy(tx, wallets).signers = tx.signers
             /\ compile(SignedBy(tx, wallets)) = compile(tx)
<1> DEFINE uses == AccountUses(ixs, payer)
           keys == KeysUsed(uses)
           count(classes) == Cardinality({k \in keys : ClassOf(k, uses) \in classes})
           order == InOrder(keys, MessageOrder(uses))
           calls == Calls(ixs, uses)
           tx == NewTransaction(ixs, payer)
           signed == SignedBy(tx, wallets)
<1>1. tx = [version |-> "legacy", keys |-> order, signers |-> count({1, 2}),
            readonlySigned |-> count({2}), readonlyUnsigned |-> count({4}),
            signedBy |-> {}, instructions |-> calls]
  BY Zenon DEF NewTransaction, MessageOrder, ClassOf, Calls
<1> HIDE DEF order, count, calls, tx
<1>2. /\ signed.signedBy = wallets /\ signed.version = tx.version
      /\ signed.keys = tx.keys /\ signed.signers = tx.signers
      /\ signed.readonlySigned = tx.readonlySigned /\ signed.readonlyUnsigned = tx.readonlyUnsigned
      /\ signed.instructions = tx.instructions
  BY <1>1 DEF SignedBy
<1> HIDE DEF signed
<1>3. compile(signed) = compile(tx)
  BY <1>2, Zenon DEF compile
<1> QED
  BY <1>2, <1>3, Zenon DEF tx, signed

\* What compile reads from a message.
IsCompiled(c, tx) ==
  /\ DOMAIN c = DOMAIN tx.instructions
  /\ \A i \in DOMAIN tx.instructions :
       /\ c[i].program = tx.keys[tx.instructions[i].program]
       /\ c[i].data = tx.instructions[i].data
       /\ DOMAIN c[i].accounts = DOMAIN tx.instructions[i].accounts
       /\ \A j \in DOMAIN tx.instructions[i].accounts :
            c[i].accounts[j].key = IF tx.instructions[i].accounts[j] > Len(tx.keys) THEN Key("none")
                                   ELSE tx.keys[tx.instructions[i].accounts[j]]

\* compile answers one list of instructions for a message whose programs are listed.
LEMMA CompileAnswers ==
  ASSUME NEW tx
  PROVE  /\ \A c \in compile(tx) : IsCompiled(c, tx)
         /\ (/\ tx.version = "legacy"
             /\ \A i \in DOMAIN tx.instructions : ~(tx.instructions[i].program > Len(tx.keys)))
            => compile(tx) # {}
<1> DEFINE n == Len(tx.keys)
           resolve(i) ==
             IF i > n THEN As(Key("none"), Plain)
             ELSE [key |-> tx.keys[i], signer |-> i <= tx.signers,
                   writable |-> IF i <= tx.signers THEN i <= tx.signers - tx.readonlySigned
                                ELSE i <= n - tx.readonlyUnsigned]
           accounts(i) == [j \in DOMAIN tx.instructions[i].accounts |-> resolve(tx.instructions[i].accounts[j])]
           read(i) == [program |-> tx.keys[tx.instructions[i].program], accounts |-> accounts(i),
                       data |-> tx.instructions[i].data]
           all == [i \in DOMAIN tx.instructions |-> read(i)]
<1>1. compile(tx) =
        IF tx.version # "legacy" \/ \E i \in DOMAIN tx.instructions : tx.instructions[i].program > n
        THEN {} ELSE {all}
  BY Zenon DEF compile
<1>2. ASSUME NEW i PROVE resolve(i).key = IF i > n THEN Key("none") ELSE tx.keys[i]
  BY DEF As
<1> HIDE DEF resolve
<1>3. ASSUME NEW i
      PROVE  /\ DOMAIN accounts(i) = DOMAIN tx.instructions[i].accounts
             /\ \A j \in DOMAIN tx.instructions[i].accounts :
                  accounts(i)[j] = resolve(tx.instructions[i].accounts[j])
  OBVIOUS
<1> HIDE DEF accounts
<1>4. ASSUME NEW i \in DOMAIN tx.instructions
      PROVE  /\ all[i].program = tx.keys[tx.instructions[i].program]
             /\ all[i].data = tx.instructions[i].data
             /\ all[i].accounts = accounts(i)
  OBVIOUS
<1>5. DOMAIN all = DOMAIN tx.instructions
  OBVIOUS
<1> HIDE DEF all, n
<1>6. IsCompiled(all, tx)
  <2>1. ASSUME NEW i \in DOMAIN tx.instructions
        PROVE  /\ DOMAIN all[i].accounts = DOMAIN tx.instructions[i].accounts
               /\ \A j \in DOMAIN tx.instructions[i].accounts :
                    all[i].accounts[j].key = IF tx.instructions[i].accounts[j] > n THEN Key("none")
                                             ELSE tx.keys[tx.instructions[i].accounts[j]]
    BY <1>2, <1>3, <1>4
  <2> QED
    BY <1>4, <1>5, <2>1, Zenon DEF IsCompiled, n
<1> QED
  BY <1>1, <1>6, Zenon DEF n

\* The instructions read back are the ones the message was made of, up to flags.
SameCalls(c, ixs) ==
  /\ DOMAIN c = DOMAIN ixs
  /\ \A i \in DOMAIN ixs :
       /\ c[i].program = ixs[i].program /\ c[i].data = ixs[i].data
       /\ DOMAIN c[i].accounts = DOMAIN ixs[i].accounts
       /\ \A j \in DOMAIN ixs[i].accounts : c[i].accounts[j].key = ixs[i].accounts[j].key

\* Compiling loses no account: every reference resolves to the key it stood for.
LEMMA MessageReadsBack ==
  ASSUME NEW K, NEW payer \in K, NEW ixs, AreInstructions(ixs, K)
  PROVE  /\ compile(NewTransaction(ixs, payer)) # {}
         /\ \A c \in compile(NewTransaction(ixs, payer)) : SameCalls(c, ixs)
<1> DEFINE uses == AccountUses(ixs, payer)
           keys == KeysUsed(uses)
           before == MessageOrder(uses)
           index == Places(keys, before)
           order == InOrder(keys, before)
<1> DEFINE tx == NewTransaction(ixs, payer)
<1>1. /\ uses \in Seq(AccountUse(K))
      /\ \A u : Holds(uses, u) <=> u = As(payer, Pays) \/ \E i \in DOMAIN ixs : Uses(ixs[i], u)
  BY UsesCollected
<1>2. ASSUME NEW i \in DOMAIN ixs
      PROVE  ixs[i].program \in keys /\ \A j \in DOMAIN ixs[i].accounts : ixs[i].accounts[j].key \in keys
  <2>1. \A u : Uses(ixs[i], u) => u.key \in keys
    BY <1>1, KeysHeld
  <2>2. As(ixs[i].program, Plain).key \in keys
    BY <2>1 DEF Uses
  <2>3. \A j \in DOMAIN ixs[i].accounts : Holds(ixs[i].accounts, ixs[i].accounts[j])
    BY DEF Holds
  <2> QED
    BY <2>1, <2>2, <2>3 DEF Uses, As
<1>3. IsFiniteSet(keys) /\ StrictlyOrders(before, keys)
  BY <1>1, MessageOrders
<1>4. /\ tx.version = "legacy" /\ tx.keys = order
      /\ tx.instructions = Calls(ixs, uses)
  BY MessageParts
<1> HIDE DEF keys, before, tx
<1>5. /\ Cardinality(keys) \in Nat /\ order = [n \in 1 .. Cardinality(keys) |-> order[n]]
      /\ \A k \in keys : index[k] \in 1 .. Cardinality(keys) /\ order[index[k]] = k
  BY <1>3, InOrderPlaces
<1> HIDE DEF order, index
<1>6. Len(order) = Cardinality(keys)
  BY <1>5
<1>7. ASSUME NEW k \in keys PROVE ~(index[k] > Len(tx.keys)) /\ tx.keys[index[k]] = k
  BY <1>4, <1>5, <1>6
<1>8. DOMAIN tx.instructions = DOMAIN ixs
  BY <1>4 DEF Calls
<1>9. ASSUME NEW i \in DOMAIN ixs
      PROVE  /\ tx.instructions[i].program = index[ixs[i].program]
             /\ tx.instructions[i].data = ixs[i].data
             /\ DOMAIN tx.instructions[i].accounts = DOMAIN ixs[i].accounts
             /\ \A j \in DOMAIN ixs[i].accounts :
                  tx.instructions[i].accounts[j] = index[ixs[i].accounts[j].key]
  BY <1>4 DEF Calls, index, keys, before
<1>10. compile(tx) # {}
  BY <1>2, <1>4, <1>7, <1>8, <1>9, CompileAnswers
<1>11. ASSUME NEW c \in compile(tx) PROVE SameCalls(c, ixs)
  <2>1. IsCompiled(c, tx)
    BY CompileAnswers
  <2>2. DOMAIN c = DOMAIN ixs
    BY <1>8, <2>1 DEF IsCompiled
  <2>3. ASSUME NEW i \in DOMAIN ixs
        PROVE  /\ c[i].program = ixs[i].program /\ c[i].data = ixs[i].data
               /\ DOMAIN c[i].accounts = DOMAIN ixs[i].accounts
               /\ \A j \in DOMAIN ixs[i].accounts : c[i].accounts[j].key = ixs[i].accounts[j].key
    <3>1. /\ c[i].program = tx.keys[tx.instructions[i].program] /\ c[i].data = tx.instructions[i].data
          /\ DOMAIN c[i].accounts = DOMAIN tx.instructions[i].accounts
      BY <1>8, <2>1 DEF IsCompiled
    <3>2. ASSUME NEW j \in DOMAIN ixs[i].accounts PROVE c[i].accounts[j].key = ixs[i].accounts[j].key
      <4>1. c[i].accounts[j].key = IF tx.instructions[i].accounts[j] > Len(tx.keys) THEN Key("none")
                                   ELSE tx.keys[tx.instructions[i].accounts[j]]
        BY <1>8, <1>9, <2>1 DEF IsCompiled
      <4> QED
        BY <1>2, <1>7, <1>9, <4>1
    <3> QED
      BY <1>2, <1>7, <1>9, <3>1, <3>2
  <2> QED
    BY <2>2, <2>3 DEF SameCalls
<1> QED
  BY <1>10, <1>11 DEF tx

\* When nobody but the payer signs, the payer is the message's first account and its
\* only signer.
LEMMA PayerFirst ==
  ASSUME NEW K, NEW payer \in K, NEW ixs, AreInstructions(ixs, K),
         \A i \in DOMAIN ixs : \A u : Uses(ixs[i], u) /\ u.signer => u.key = payer
  PROVE  LET tx == NewTransaction(ixs, payer)
         IN  tx.signers = 1 /\ tx.keys[1] = payer /\ tx.keys # <<>>
<1> DEFINE uses == AccountUses(ixs, payer)
           keys == KeysUsed(uses)
           before == MessageOrder(uses)
           index == Places(keys, before)
           order == InOrder(keys, before)
           class(k) == ClassOf(k, uses)
<1>1. /\ uses \in Seq(AccountUse(K))
      /\ \A u : Holds(uses, u) <=> u = As(payer, Pays) \/ \E i \in DOMAIN ixs : Uses(ixs[i], u)
  BY UsesCollected
<1>2. As(payer, Pays).key = payer /\ As(payer, Pays).signer = TRUE /\ As(payer, Pays).writable = TRUE
  BY DEF As, Pays
<1>3. /\ \A u : Holds(uses, u) => u.key \in keys
      /\ \A k : k \in SigningKeys(uses) <=> \E u : Holds(uses, u) /\ u.key = k /\ u.signer
      /\ \A k : k \in WritingKeys(uses) <=> \E u : Holds(uses, u) /\ u.key = k /\ u.writable
  BY <1>1, KeysHeld
<1>4. payer \in keys /\ payer \in SigningKeys(uses) /\ payer \in WritingKeys(uses)
  BY <1>1, <1>2, <1>3
<1>5. ASSUME NEW k \in SigningKeys(uses) PROVE k = payer
  <2>1. PICK u : Holds(uses, u) /\ u.key = k /\ u.signer
    BY <1>3
  <2> QED
    BY <1>1, <1>2, <2>1
<1>6. class(payer) = 1 /\ \A k : k # payer => class(k) \in {3, 4}
  BY <1>4, <1>5 DEF ClassOf, AccountClass
<1>7. IsFiniteSet(keys) /\ StrictlyOrders(before, keys)
  BY <1>1, MessageOrders
<1>8. {y \in keys : << y, payer >> \in before} = {}
  <2> SUFFICES ASSUME NEW y \in keys, << y, payer >> \in before PROVE FALSE
    OBVIOUS
  <2>1. y # payer
    BY <1>7 DEF StrictlyOrders
  <2>2. class(y) < class(payer) \/ class(y) = class(payer)
    BY DEF MessageOrder
  <2> HIDE DEF class
  <2> QED
    BY <1>6, <2>1, <2>2
<1>9. {k \in keys : class(k) \in {1, 2}} = {payer}
  <2> HIDE DEF keys, class
  <2> QED
    BY <1>4, <1>6
<1> DEFINE tx == NewTransaction(ixs, payer)
<1>10. tx.keys = order /\ tx.signers = Cardinality({k \in keys : class(k) \in {1, 2}})
  BY MessageParts
<1> HIDE DEF keys, before, class, tx
<1>11. tx.signers = 1
  BY <1>9, <1>10, FS_Singleton
<1>12. /\ Cardinality(keys) \in Nat /\ order = [n \in 1 .. Cardinality(keys) |-> order[n]]
       /\ index[payer] \in 1 .. Cardinality(keys) /\ order[index[payer]] = payer
  BY <1>4, <1>7, InOrderPlaces
<1>13. index[payer] = 1
  <2>1. index[payer] = 1 + Cardinality({y \in keys : << y, payer >> \in before})
    BY <1>4 DEF Places
  <2>2. Cardinality({y \in keys : << y, payer >> \in before}) = 0
    BY <1>8, FS_EmptySet, Zenon
  <2> HIDE DEF index
  <2> QED
    BY <2>1, <2>2
<1> HIDE DEF index, order
<1>14. order[1] = payer /\ order # <<>>
  BY <1>12, <1>13
<1> QED
  BY <1>10, <1>11, <1>14 DEF tx

\* The keys a settlement names.
PartyKeys(t) ==
  {Buyer(t), Key(t.seller), Key(t.mint), Key(t.fee.wallet), BuyerATA(t), SellerATA(t),
   Key("associated-token"), Key("token"), Key("memo"), Key("system")}

\* An instruction over the settlement's keys that only the buyer signs.
IsPartOf(ix, t) ==
  /\ ix.program \in PartyKeys(t) /\ ix.accounts \in Seq(AccountUse(PartyKeys(t)))
  /\ \A u : Uses(ix, u) /\ u.signer => u.key = Buyer(t)

\* Each instruction of a settlement is one.
LEMMA SettlementParts ==
  ASSUME NEW t
  PROVE  /\ IsPartOf(CreateATA(t), t) /\ IsPartOf(transferChecked(t), t)
         /\ IsPartOf(MemoInstruction(t), t) /\ IsPartOf(FeeTransfer(t), t)
<1> DEFINE K == PartyKeys(t)
           A == AccountUse(K)
<1>1. /\ Buyer(t) \in K /\ Key(t.seller) \in K /\ Key(t.mint) \in K /\ Key(t.fee.wallet) \in K
      /\ BuyerATA(t) \in K /\ SellerATA(t) \in K
      /\ Key("associated-token") \in K /\ Key("token") \in K /\ Key("memo") \in K /\ Key("system") \in K
  BY DEF PartyKeys
<1> HIDE DEF K
<1>2. ASSUME NEW k
      PROVE  /\ k \in K => As(k, Plain) \in A /\ As(k, Writable) \in A /\ As(k, Signs) \in A /\ As(k, Pays) \in A
             /\ As(k, Plain).signer = FALSE /\ As(k, Writable).signer = FALSE
             /\ As(k, Signs).key = k /\ As(k, Pays).key = k
  BY DEF As, Plain, Writable, Signs, Pays, AccountUse
<1> HIDE DEF A
<1>3. IsPartOf(CreateATA(t), t)
  <2> DEFINE ix == CreateATA(t)
             a1 == As(Buyer(t), Pays)
             a2 == As(SellerATA(t), Writable)
             a3 == As(Key(t.seller), Plain)
             a4 == As(Key(t.mint), Plain)
  <2>1. ix.program = Key("associated-token") /\ ix.accounts = << a1, a2, a3, a4 >>
    BY DEF CreateATA
  <2>2. a1 \in A /\ a2 \in A /\ a3 \in A /\ a4 \in A
    BY <1>1, <1>2
  <2>3. a1.key = Buyer(t) /\ ~a2.signer /\ ~a3.signer /\ ~a4.signer
    BY <1>2
  <2> HIDE DEF ix, a1, a2, a3, a4
  <2>4. << a1, a2, a3, a4 >> \in Seq(A)
    BY <2>2
  <2>5. \A u : Holds(<< a1, a2, a3, a4 >>, u) => u \in {a1, a2, a3, a4}
    BY DEF Holds
  <2> QED
    BY <1>1, <1>2, <2>1, <2>3, <2>4, <2>5 DEF IsPartOf, Uses, ix, K, A
<1>4. IsPartOf(transferChecked(t), t)
  <2> DEFINE ix == transferChecked(t)
             a1 == As(BuyerATA(t), Writable)
             a2 == As(Key(t.mint), Plain)
             a3 == As(SellerATA(t), Writable)
             a4 == As(Buyer(t), Signs)
  <2>1. ix.program = Key("token") /\ ix.accounts = << a1, a2, a3, a4 >>
    BY DEF transferChecked
  <2>2. a1 \in A /\ a2 \in A /\ a3 \in A /\ a4 \in A
    BY <1>1, <1>2
  <2>3. ~a1.signer /\ ~a2.signer /\ ~a3.signer /\ a4.key = Buyer(t)
    BY <1>2
  <2> HIDE DEF ix, a1, a2, a3, a4
  <2>4. << a1, a2, a3, a4 >> \in Seq(A)
    BY <2>2
  <2>5. \A u : Holds(<< a1, a2, a3, a4 >>, u) => u \in {a1, a2, a3, a4}
    BY DEF Holds
  <2> QED
    BY <1>1, <1>2, <2>1, <2>3, <2>4, <2>5 DEF IsPartOf, Uses, ix, K, A
<1>5. IsPartOf(MemoInstruction(t), t)
  <2> DEFINE ix == MemoInstruction(t)
             a1 == As(Buyer(t), Signs)
  <2>1. ix.program = Key("memo") /\ ix.accounts = << a1 >>
    BY DEF MemoInstruction
  <2>2. a1 \in A /\ a1.key = Buyer(t)
    BY <1>1, <1>2
  <2> HIDE DEF ix, a1
  <2>3. << a1 >> \in Seq(A) /\ \A u : Holds(<< a1 >>, u) => u = a1
    BY <2>2 DEF Holds
  <2> QED
    BY <1>1, <1>2, <2>1, <2>2, <2>3 DEF IsPartOf, Uses, ix, K, A
<1>6. IsPartOf(FeeTransfer(t), t)
  <2> DEFINE ix == FeeTransfer(t)
             a1 == As(Buyer(t), Pays)
             a2 == As(Key(t.fee.wallet), Writable)
  <2>1. ix.program = Key("system") /\ ix.accounts = << a1, a2 >>
    BY DEF FeeTransfer
  <2>2. a1 \in A /\ a2 \in A /\ a1.key = Buyer(t) /\ ~a2.signer
    BY <1>1, <1>2
  <2> HIDE DEF ix, a1, a2
  <2>3. << a1, a2 >> \in Seq(A) /\ \A u : Holds(<< a1, a2 >>, u) => u \in {a1, a2}
    BY <2>2 DEF Holds
  <2> QED
    BY <1>1, <1>2, <2>1, <2>2, <2>3 DEF IsPartOf, Uses, ix, K, A
<1> QED
  BY <1>3, <1>4, <1>5, <1>6

\* Three after nothing, and three after one.
LEMMA FourInARow ==
  ASSUME NEW a, NEW b, NEW c, NEW d
  PROVE  << >> \o << b, c, d >> = << b, c, d >> /\ << a >> \o << b, c, d >> = << a, b, c, d >>
<1> PICK A : A = {a, b, c, d}
  OBVIOUS
<1> PICK e : e = << >>
  OBVIOUS
<1> PICK one : one = << a >>
  OBVIOUS
<1> PICK three : three = << b, c, d >>
  OBVIOUS
<1> PICK four : four = << a, b, c, d >>
  OBVIOUS
<1>1. /\ e \in Seq(A) /\ Len(e) = 0
      /\ one \in Seq(A) /\ Len(one) = 1 /\ one[1] = a
      /\ three \in Seq(A) /\ Len(three) = 3 /\ three[1] = b /\ three[2] = c /\ three[3] = d
      /\ four \in Seq(A) /\ Len(four) = 4 /\ four[1] = a /\ four[2] = b /\ four[3] = c /\ four[4] = d
  OBVIOUS
<1>2. ASSUME NEW x \in Seq(A), NEW y \in Seq(A), Len(x) = Len(y), \A i \in 1 .. Len(x) : x[i] = y[i]
      PROVE  x = y
  BY <1>2, SameSequence
<1>3. e \o three = three
  <2> PICK j : j = e \o three
    OBVIOUS
  <2>1. j \in Seq(A) /\ Len(j) = Len(three) /\ \A i \in 1 .. Len(j) : j[i] = three[i]
    BY <1>1
  <2>2. j = three
    BY <1>1, <1>2, <2>1, Zenon
  <2> QED
    BY <2>2
<1>4. one \o three = four
  <2> PICK j : j = one \o three
    OBVIOUS
  <2>1. j \in Seq(A) /\ Len(j) = 4
        /\ j[1] = one[1] /\ j[2] = three[1] /\ j[3] = three[2] /\ j[4] = three[3]
    BY <1>1
  <2>2. \A i \in 1 .. 4 : j[i] = four[i]
    BY <1>1, <2>1
  <2>3. Len(j) = Len(four) /\ \A i \in 1 .. Len(j) : j[i] = four[i]
    BY <1>1, <2>1, <2>2
  <2>4. j = four
    BY <1>1, <1>2, <2>1, <2>3, Zenon
  <2> QED
    BY <2>4
<1> QED
  BY <1>3, <1>4, Zenon

\* The instructions a settlement expects, one after the other.
LEMMA ExpectedOnes ==
  ASSUME NEW t
  PROVE  /\ expectedInstructions(t, TRUE) = << transferChecked(t), MemoInstruction(t), FeeTransfer(t) >>
         /\ expectedInstructions(t, FALSE) =
              << CreateATA(t), transferChecked(t), MemoInstruction(t), FeeTransfer(t) >>
  BY FourInARow, Zenon DEF expectedInstructions

\* They are instructions over the settlement's keys that only the buyer signs.
LEMMA ExpectedCalls ==
  ASSUME NEW t, NEW exists \in BOOLEAN
  PROVE  LET ixs == expectedInstructions(t, exists)
         IN  /\ AreInstructions(ixs, PartyKeys(t))
             /\ \A i \in DOMAIN ixs : \A u : Uses(ixs[i], u) /\ u.signer => u.key = Buyer(t)
<1> DEFINE ixs == expectedInstructions(t, exists)
<1> PICK c : c = CreateATA(t)
  OBVIOUS
<1> PICK tr : tr = transferChecked(t)
  OBVIOUS
<1> PICK m : m = MemoInstruction(t)
  OBVIOUS
<1> PICK f : f = FeeTransfer(t)
  OBVIOUS
<1>1. ixs = << tr, m, f >> \/ ixs = << c, tr, m, f >>
  BY ExpectedOnes, Zenon
<1>2. IsPartOf(c, t) /\ IsPartOf(tr, t) /\ IsPartOf(m, t) /\ IsPartOf(f, t)
  BY SettlementParts
<1> HIDE DEF ixs
<1>3. DOMAIN ixs = 1 .. Len(ixs) /\ ixs \in Seq({ixs[i] : i \in DOMAIN ixs})
  BY <1>1
<1>4. \A i \in DOMAIN ixs : ixs[i] \in {c, tr, m, f}
  BY <1>1
<1>5. \A i \in DOMAIN ixs : IsPartOf(ixs[i], t)
  BY <1>2, <1>4
<1>6. AreInstructions(ixs, PartyKeys(t))
  BY <1>3, <1>5 DEF AreInstructions, IsPartOf
<1> QED
  BY <1>5, <1>6 DEF IsPartOf, ixs

KeysOf(accounts) == [j \in DOMAIN accounts |-> accounts[j].key]

\* What an instruction does, and what several do.
Does(ix) == [does |-> ix.data, program |-> ix.program, on |-> KeysOf(ix.accounts)]
Doings(ixs) == [i \in DOMAIN ixs |-> Does(ixs[i])]

\* A transaction that resolves to the calls of some instructions, none of them on the
\* key of an account out of range, does what they do.
LEMMA EffectsOfCalls ==
  ASSUME NEW tx, NEW c, NEW ixs, IsCompiled(c, tx), SameCalls(c, ixs),
         \A i \in DOMAIN ixs : \A j \in DOMAIN ixs[i].accounts : ixs[i].accounts[j].key # Key("none")
  PROVE  Effects(tx) = Doings(ixs)
<1> DEFINE calls == tx.instructions
           acts(i) == [does |-> calls[i].data, program |-> tx.keys[calls[i].program],
                       on |-> [j \in DOMAIN calls[i].accounts |-> tx.keys[calls[i].accounts[j]]]]
<1>1. Effects(tx) = [i \in DOMAIN calls |-> acts(i)]
  BY Zenon DEF Effects
<1>2. DOMAIN calls = DOMAIN ixs
  BY Zenon DEF IsCompiled, SameCalls
<1>3. ASSUME NEW i \in DOMAIN ixs PROVE acts(i) = Does(ixs[i])
  <2>1. calls[i].data = ixs[i].data /\ tx.keys[calls[i].program] = ixs[i].program
    BY <1>2, Zenon DEF IsCompiled, SameCalls
  <2>2. DOMAIN calls[i].accounts = DOMAIN ixs[i].accounts
    BY <1>2, Zenon DEF IsCompiled, SameCalls
  <2>3. ASSUME NEW j \in DOMAIN ixs[i].accounts
        PROVE  tx.keys[calls[i].accounts[j]] = ixs[i].accounts[j].key
    <3>1. c[i].accounts[j].key = ixs[i].accounts[j].key
      BY Zenon DEF SameCalls
    <3>2. c[i].accounts[j].key = IF calls[i].accounts[j] > Len(tx.keys) THEN Key("none")
                                 ELSE tx.keys[calls[i].accounts[j]]
      BY <1>2, <2>2, Zenon DEF IsCompiled
    <3>3. ixs[i].accounts[j].key # Key("none")
      OBVIOUS
    <3> HIDE DEF calls
    <3> QED
      BY <3>1, <3>2, <3>3, Zenon
  <2>4. [j \in DOMAIN calls[i].accounts |-> tx.keys[calls[i].accounts[j]]]
          = [j \in DOMAIN ixs[i].accounts |-> ixs[i].accounts[j].key]
    BY <2>2, <2>3, Zenon
  <2> QED
    BY <2>1, <2>4, Zenon DEF Does, KeysOf
<1> QED
  BY <1>1, <1>2, <1>3, Zenon DEF Doings

\* No key of a settlement is the key of an account out of range.
LEMMA NoneIsNobody ==
  ASSUME NEW t, "none" \notin {t.buyer, t.seller, t.mint, t.fee.wallet}
  PROVE  Key("none") \notin PartyKeys(t)
<1>1. \A x, y : Key(x) = Key(y) => x = y
  BY DEF Key
<1>2. \A w, m : Key("none") # ATA(w, m)
  BY DEF Key, ATA
<1> QED
  BY <1>1, <1>2 DEF PartyKeys, Buyer, BuyerATA, SellerATA

\* What the expected instructions do is what was agreed.
LEMMA ExpectedAgreed ==
  ASSUME NEW t
  PROVE  /\ Does(CreateATA(t)) = OpensAccount(t)
         /\ << Does(transferChecked(t)), Does(MemoInstruction(t)), Does(FeeTransfer(t)) >> = Agreed(t)
<1>1. ASSUME NEW a, NEW b, NEW c, NEW d
      PROVE  /\ KeysOf(<< a, b, c, d >>) = << a.key, b.key, c.key, d.key >>
             /\ KeysOf(<< a, b >>) = << a.key, b.key >>
             /\ KeysOf(<< a >>) = << a.key >>
  BY DEF KeysOf
<1>2. \A k, f : As(k, f).key = k
  BY DEF As
<1>3. Does(CreateATA(t)) = OpensAccount(t)
  <2>1. KeysOf(CreateATA(t).accounts)
          = << Buyer(t), SellerATA(t), Key(t.seller), Key(t.mint) >>
    <3> DEFINE a1 == As(Buyer(t), Pays)
               a2 == As(SellerATA(t), Writable)
               a3 == As(Key(t.seller), Plain)
               a4 == As(Key(t.mint), Plain)
    <3>1. CreateATA(t).accounts = << a1, a2, a3, a4 >>
      BY DEF CreateATA
    <3>2. a1.key = Buyer(t) /\ a2.key = SellerATA(t) /\ a3.key = Key(t.seller) /\ a4.key = Key(t.mint)
      BY <1>2
    <3> HIDE DEF a1, a2, a3, a4
    <3>3. KeysOf(<< a1, a2, a3, a4 >>) = << a1.key, a2.key, a3.key, a4.key >>
      BY <1>1
    <3> QED
      BY <3>1, <3>2, <3>3
  <2>2. CreateATA(t).data = << "create" >> /\ CreateATA(t).program = Key("associated-token")
    BY DEF CreateATA
  <2> QED
    BY <2>1, <2>2, Zenon DEF Does, OpensAccount, Buyer, SellerATA
<1>4. Does(transferChecked(t)) =
        [does |-> << "transfer", t.amount, t.decimals >>, program |-> Key("token"),
         on |-> << ATA(t.buyer, t.mint), Key(t.mint), ATA(t.seller, t.mint), Key(t.buyer) >>]
  <2>1. KeysOf(transferChecked(t).accounts)
          = << BuyerATA(t), Key(t.mint), SellerATA(t), Buyer(t) >>
    <3> DEFINE a1 == As(BuyerATA(t), Writable)
               a2 == As(Key(t.mint), Plain)
               a3 == As(SellerATA(t), Writable)
               a4 == As(Buyer(t), Signs)
    <3>1. transferChecked(t).accounts = << a1, a2, a3, a4 >>
      BY DEF transferChecked
    <3>2. a1.key = BuyerATA(t) /\ a2.key = Key(t.mint) /\ a3.key = SellerATA(t) /\ a4.key = Buyer(t)
      BY <1>2
    <3> HIDE DEF a1, a2, a3, a4
    <3>3. KeysOf(<< a1, a2, a3, a4 >>) = << a1.key, a2.key, a3.key, a4.key >>
      BY <1>1
    <3> QED
      BY <3>1, <3>2, <3>3
  <2>2. /\ transferChecked(t).data = << "transfer", t.amount, t.decimals >>
        /\ transferChecked(t).program = Key("token")
    BY DEF transferChecked
  <2> QED
    BY <2>1, <2>2, Zenon DEF Does, Buyer, BuyerATA, SellerATA
<1>5. Does(MemoInstruction(t)) =
        [does |-> << "memo", t.tradeID >>, program |-> Key("memo"), on |-> << Key(t.buyer) >>]
  <2>1. KeysOf(MemoInstruction(t).accounts) = << Buyer(t) >>
    <3> DEFINE a1 == As(Buyer(t), Signs)
    <3>1. MemoInstruction(t).accounts = << a1 >> /\ a1.key = Buyer(t)
      BY <1>2 DEF MemoInstruction
    <3> HIDE DEF a1
    <3> QED
      BY <1>1, <3>1, Zenon
  <2>2. MemoInstruction(t).data = << "memo", t.tradeID >> /\ MemoInstruction(t).program = Key("memo")
    BY DEF MemoInstruction, Memo
  <2> QED
    BY <2>1, <2>2, Zenon DEF Does, Buyer
<1>6. Does(FeeTransfer(t)) =
        [does |-> << "lamports", t.fee.lamports >>, program |-> Key("system"),
         on |-> << Key(t.buyer), Key(t.fee.wallet) >>]
  <2>1. KeysOf(FeeTransfer(t).accounts)
          = << Buyer(t), Key(t.fee.wallet) >>
    <3> DEFINE a1 == As(Buyer(t), Pays)
               a2 == As(Key(t.fee.wallet), Writable)
    <3>1. FeeTransfer(t).accounts = << a1, a2 >> /\ a1.key = Buyer(t) /\ a2.key = Key(t.fee.wallet)
      BY <1>2 DEF FeeTransfer
    <3> HIDE DEF a1, a2
    <3> QED
      BY <1>1, <3>1, Zenon
  <2>2. FeeTransfer(t).data = << "lamports", t.fee.lamports >> /\ FeeTransfer(t).program = Key("system")
    BY DEF FeeTransfer
  <2> QED
    BY <2>1, <2>2, Zenon DEF Does, Buyer
<1> QED
  BY <1>3, <1>4, <1>5, <1>6, Zenon DEF Agreed

\* All of them together, with and without the seller's account.
LEMMA ExpectedDo ==
  ASSUME NEW t, NEW exists \in BOOLEAN
  PROVE  LET ixs == expectedInstructions(t, exists)
         IN  Doings(ixs) \in {Agreed(t), << OpensAccount(t) >> \o Agreed(t)}
<1>1. ASSUME NEW a, NEW b, NEW c, NEW d
      PROVE  /\ Doings(<< a, b, c, d >>) = << Does(a), Does(b), Does(c), Does(d) >>
             /\ Doings(<< a, b, c >>) = << Does(a), Does(b), Does(c) >>
  BY DEF Doings
<1>2. ASSUME NEW a, NEW b, NEW c, NEW d
      PROVE  << a >> \o << b, c, d >> = << a, b, c, d >>
  BY FourInARow
<1>3. CASE exists
  <2>1. expectedInstructions(t, exists) = << transferChecked(t), MemoInstruction(t), FeeTransfer(t) >>
    BY <1>3, ExpectedOnes, Zenon
  <2> QED
    <3>1. Doings(<< transferChecked(t), MemoInstruction(t), FeeTransfer(t) >>)
            = << Does(transferChecked(t)), Does(MemoInstruction(t)), Does(FeeTransfer(t)) >>
      BY <1>1
    <3> QED
      BY <2>1, <3>1, ExpectedAgreed, Zenon
<1>4. CASE ~exists
  <2>1. expectedInstructions(t, exists) =
          << CreateATA(t), transferChecked(t), MemoInstruction(t), FeeTransfer(t) >>
    BY <1>4, ExpectedOnes, Zenon
  <2>2. Doings(expectedInstructions(t, exists))
          = << Does(CreateATA(t)), Does(transferChecked(t)), Does(MemoInstruction(t)), Does(FeeTransfer(t)) >>
    <3>1. Doings(<< CreateATA(t), transferChecked(t), MemoInstruction(t), FeeTransfer(t) >>)
            = << Does(CreateATA(t)), Does(transferChecked(t)), Does(MemoInstruction(t)), Does(FeeTransfer(t)) >>
      BY <1>1
    <3> QED
      BY <2>1, <3>1, Zenon
  <2>3. << Does(CreateATA(t)), Does(transferChecked(t)), Does(MemoInstruction(t)), Does(FeeTransfer(t)) >>
          = << OpensAccount(t) >> \o Agreed(t)
    <3> DEFINE After(a, s) == << a >> \o s
    <3>1. << Does(CreateATA(t)), Does(transferChecked(t)), Does(MemoInstruction(t)), Does(FeeTransfer(t)) >>
            = After(Does(CreateATA(t)),
                    << Does(transferChecked(t)), Does(MemoInstruction(t)), Does(FeeTransfer(t)) >>)
      BY <1>2, Zenon
    <3> HIDE DEF After
    <3>2. After(Does(CreateATA(t)),
                << Does(transferChecked(t)), Does(MemoInstruction(t)), Does(FeeTransfer(t)) >>)
            = After(OpensAccount(t), Agreed(t))
      BY ExpectedAgreed, Zenon
    <3> QED
      BY <3>1, <3>2, Zenon DEF After
  <2> QED
    BY <2>2, <2>3, Zenon
<1> QED
  BY <1>3, <1>4

-----------------------------------------------------------------------------
(* The calls                                                                *)

\* A call is given one of the inputs of its kind.
InputOK ==
  /\ \A g \in Given("amount") : g \in AmountInputs
  /\ \A g \in Given("spend") : g \in SpendInputs
  /\ \A g \in Given("route") : g \in RouteInputs
  /\ \A g \in Given("terms") : g \in TermsInputs
  /\ \A g \in Given("transfer") : g \in TransferInputs
  /\ \A g \in Given("config") : g \in ConfigInputs

\* Every call is one of the enumerated ones.
LEMMA InputsAreGiven == AlgorithmsSpec => []InputOK
<1>1. AlgorithmsInit => InputOK
  BY DEF AlgorithmsInit, NoInput, InputOK, Given
<1>2. InputOK /\ [AlgorithmsNext]_input => InputOK'
  <2> SUFFICES ASSUME InputOK, [AlgorithmsNext]_input PROVE InputOK'
    OBVIOUS
  <2>1. CASE UNCHANGED input
    BY <2>1 DEF InputOK, Given
  <2>2. CASE Choose("amount", AmountInputs)
    BY <2>2 DEF Choose, InputOK, Given
  <2>3. CASE Choose("spend", SpendInputs)
    BY <2>3 DEF Choose, InputOK, Given
  <2>4. CASE Choose("route", RouteInputs)
    BY <2>4 DEF Choose, InputOK, Given
  <2>5. CASE Choose("terms", TermsInputs)
    BY <2>5 DEF Choose, InputOK, Given
  <2>6. CASE Choose("transfer", TransferInputs)
    BY <2>6 DEF Choose, InputOK, Given
  <2>7. CASE Choose("config", ConfigInputs)
    BY <2>7 DEF Choose, InputOK, Given
  <2> QED
    BY <2>1, <2>2, <2>3, <2>4, <2>5, <2>6, <2>7 DEF AlgorithmsNext
<1> QED
  BY <1>1, <1>2, PTL DEF AlgorithmsSpec

\* Committed spend is never understated, for any rows and any width of a word: the
\* sum of the saturating values is exact, or it fails (scaleToUSD, AddSpend).
THEOREM SpendIsNeverUnderstated == AlgorithmsSpec => []SpendNeverUnderstated
<1>1. InputOK => SpendNeverUnderstated
  <2> SUFFICES ASSUME InputOK, NEW rows \in Given("spend")
               PROVE  LET value(r) == (r[1] * r[2]) \div Pow10(USDScale)
                          capped(r) == IF value(r) > MaxUint THEN MaxUint ELSE value(r)
                          exact == SumFunction([i \in DOMAIN rows |-> capped(rows[i])])
                          total == SumSpend(0, [i \in DOMAIN rows |-> scaleToUSD(rows[i][1], rows[i][2])])
                      IN  total = IF exact > MaxUint THEN SpendOverflow ELSE exact
    BY DEF SpendNeverUnderstated
  <2> DEFINE value(r) == (r[1] * r[2]) \div Pow10(USDScale)
             capped(r) == IF value(r) > MaxUint THEN MaxUint ELSE value(r)
             T == DOMAIN rows
             f == [i \in T |-> scaleToUSD(rows[i][1], rows[i][2])]
  <2>1. rows \in Seq((0 .. MaxUint) \X (0 .. MaxUint))
    BY InputsAssumption DEF InputOK
  <2>2. T = 1 .. Len(rows) /\ Len(rows) \in Nat
    BY <2>1
  <2>3. IsFiniteSet(T)
    BY <2>2, FS_Interval
  <2>4. ASSUME NEW i \in T
        PROVE  scaleToUSD(rows[i][1], rows[i][2]) = capped(rows[i])
               /\ scaleToUSD(rows[i][1], rows[i][2]) \in 0 .. MaxUint
    <3>1. rows[i][1] \in 0 .. MaxUint /\ rows[i][2] \in 0 .. MaxUint
      BY <2>1
    <3> QED
      BY <3>1, ScaledExactly
  <2>5. f \in [T -> 0 .. MaxUint]
    BY <2>4
  <2>6. [i \in T |-> capped(rows[i])] = [x \in T |-> f[x]]
    <3>1. \A i \in T : f[i] = capped(rows[i])
      BY <2>4
    <3> HIDE DEF f, capped, T
    <3> QED
      BY <3>1
  <2> DEFINE exact == SumFunction([x \in T |-> f[x]])
  <2>7. SumSpend(0, f) = IF exact > MaxUint THEN SpendOverflow ELSE exact
    <3> HIDE DEF f, T
    <3> QED
      BY <2>3, <2>5, SpendTotal
  <2> HIDE DEF capped
  <2>8. SumFunction([i \in T |-> capped(rows[i])]) = exact
    BY <2>6, Zenon
  <2> QED
    BY <2>7, <2>8 DEF capped
<1> QED
  BY <1>1, InputsAreGiven, PTL

\* No single setting moves a deployment onto mainnet-beta or off it, whatever the
\* other settings are (parseSolana, clusterTable).
THEOREM NotOneSettingAway == AlgorithmsSpec => []NotOneSettingFromMainnet
<1>1. InputOK => NotOneSettingFromMainnet
  <2> SUFFICES ASSUME InputOK, NEW env \in Given("config"), NEW name \in supported,
                      parseSolana(env) # {}, env.host # Unset,
                      IsProduction(name) # IsProduction(env.cluster)
               PROVE  parseSolana([env EXCEPT !.cluster = name]) = {}
    BY DEF NotOneSettingFromMainnet
  <2> PICK e : e = [env EXCEPT !.cluster = name]
    OBVIOUS
  <2>1. e.host = env.host /\ e.cluster = name /\ e.ack = env.ack
    BY InputsAssumption DEF InputOK
  <2>2. PICK d \in ParseCluster(env.cluster) : clusterTable(d, env)
    BY DEF parseSolana
  <2>3. d = env.cluster
    BY <2>2 DEF ParseCluster
  <2>4. ~clusterTable(name, e)
    BY <2>1, <2>2, <2>3 DEF clusterTable, IsProduction, Unset
  <2>5. ParseCluster(e.cluster) = {name}
    BY <2>1 DEF ParseCluster
  <2> QED
    BY <2>1, <2>4, <2>5 DEF parseSolana
<1> QED
  BY <1>1, InputsAreGiven, PTL

\* What moves is what was quoted, for an amount of any length, any decimals and any
\* width of a word: the units are exact, they read back as the amount, and only an
\* amount that cannot be carried is refused (NewTerms, BaseUnits, NewFromBaseUnits).
THEOREM AmountsStayExact == AlgorithmsSpec => []AmountsAreExact
<1>1. InputOK => AmountsAreExact
  <2> SUFFICES ASSUME InputOK, NEW g \in Given("amount")
               PROVE  LET registry == [cluster |-> "localnet", tokens |-> {Token("local", g.decimals, "none", "none")}]
                          terms == NewTerms(g.trade, registry, DefaultFee)
                      IN  /\ \A t \in terms :
                               /\ t.amount * Pow10(MaxFractionDigits - g.decimals) = Exact(g.trade.amount)
                               /\ \A back \in NewFromBaseUnits(t.amount, g.decimals) : Cmp(back, g.trade.amount) = 0
                          /\ terms = {} => \/ IsZero(g.trade.amount)
                                           \/ Len(g.trade.amount.fraction) > g.decimals
                                           \/ Exact(g.trade.amount) > MaxUint * Pow10(MaxFractionDigits - g.decimals)
    BY DEF AmountsAreExact
  <2> PICK trade : trade = g.trade
    OBVIOUS
  <2> PICK a : a = trade.amount
    OBVIOUS
  <2> PICK dec : dec = g.decimals
    OBVIOUS
  <2>1. /\ dec \in 0 .. MaxFractionDigits /\ dec \in Nat /\ MaxFractionDigits \in Nat /\ MaxIntegerDigits \in Nat
        /\ a \in DecimalAmount /\ Len(a.fraction) <= MaxFractionDigits /\ MaxUint \in Nat
        /\ MaxUint < Pow10(MaxIntegerDigits + MaxFractionDigits + 1)
        /\ trade.state = "accepted" /\ trade.mode = "onchain" /\ trade.mint = "local"
        /\ {trade.buyer, trade.seller} \subseteq Address
    <3>1. g \in AmountInputs
      BY DEF InputOK
    <3> QED
      BY <3>1, InputsAssumption, LimitsAssumption
  <2> PICK token : token = Token("local", dec, "none", "none")
    OBVIOUS
  <2> PICK registry : registry = [cluster |-> "localnet", tokens |-> {token}]
    OBVIOUS
  <2>2. token.address = "local" /\ token.decimals = dec /\ token.enabled = TRUE
    BY DEF Token
  <2>3. Lookup(registry, trade.mint) = {token}
    BY <2>1, <2>2 DEF Lookup
  <2>4. Enabled(registry, trade.mint) = "ok"
    BY <2>2, <2>3 DEF Enabled
  <2>5. (CHOOSE e \in Lookup(registry, trade.mint) : TRUE) = token
    BY <2>3
  <2> DEFINE units == BaseUnits(a, dec)
             terms == NewTerms(trade, registry, DefaultFee)
             moved == [tradeID |-> trade.id, amount |-> units, decimals |-> dec, mint |-> trade.mint,
                       buyer |-> trade.buyer, seller |-> trade.seller, fee |-> DefaultFee]
  <2>6. terms = IF IsZero(a) \/ units <= 0 THEN {} ELSE {moved}
    <3>1. {trade.buyer, trade.seller} \cap Address = {trade.buyer, trade.seller}
      BY <2>1
    <3> HIDE DEF BaseUnits
    <3> QED
      BY <2>1, <2>2, <2>4, <2>5, <3>1 DEF NewTerms
  <2>7. Len(a.fraction) \in Nat
    BY <2>1 DEF DecimalAmount
  <2>8. units = IF Len(a.fraction) > dec THEN TooPrecise
                ELSE IF UnitsAt(a, dec) > MaxUint THEN Overflow ELSE UnitsAt(a, dec)
    BY <2>1 DEF BaseUnits, UnitsAt
  <2>9. Exact(a) = UnitsAt(a, MaxFractionDigits)
    BY DEF Exact, UnitsAt
  <2> PICK scale \in Nat \ {0} : scale = Pow10(MaxFractionDigits - dec)
    <3>1. MaxFractionDigits - dec \in Nat
      BY <2>1
    <3> QED
      BY <3>1, Powers
  <2>10. Len(a.fraction) <= dec => UnitsAt(a, dec) \in Nat /\ UnitsAt(a, dec) * scale = Exact(a)
    BY <2>1, <2>9, UnitsFiner
  <2> HIDE DEF units
  <2>11. ASSUME NEW t \in terms
         PROVE  t.amount * scale = Exact(a) /\ \A back \in NewFromBaseUnits(t.amount, dec) : Cmp(back, a) = 0
    <3>1. t.amount = units /\ units > 0
      <4>1. ~(units <= 0) /\ t = moved
        BY <2>6, <2>11
      <4>2. units \in Int
        BY <2>1, UnitsInt DEF units
      <4> QED
        BY <4>1, <4>2
    <3>2. Len(a.fraction) <= dec /\ units = UnitsAt(a, dec) /\ units <= MaxUint /\ units \in Nat
      <4>1. ~(Len(a.fraction) > dec) /\ ~(UnitsAt(a, dec) > MaxUint)
        BY <2>8, <3>1 DEF TooPrecise, Overflow
      <4>2. Len(a.fraction) <= dec /\ units = UnitsAt(a, dec)
        BY <2>1, <2>7, <2>8, <4>1
      <4> QED
        BY <2>1, <2>10, <4>1, <4>2
    <3>3. units < Pow10(MaxIntegerDigits + MaxFractionDigits + 1)
      <4>1. MaxIntegerDigits + MaxFractionDigits + 1 \in Nat
        BY <2>1
      <4>2. Pow10(MaxIntegerDigits + MaxFractionDigits + 1) \in Nat
        BY <4>1, Powers
      <4> QED
        BY <2>1, <3>2, <4>2
    <3>4. ASSUME NEW back \in NewFromBaseUnits(units, dec) PROVE Cmp(back, a) = 0
      <4>1. back \in DecimalAmount /\ Len(back.fraction) = dec /\ UnitsAt(back, dec) = units
        BY <2>1, <3>2, <3>3, ReadBack
      <4>2. Len(back.fraction) <= dec
        BY <2>1, <4>1
      <4>3. Cmp(back, a) = IF UnitsAt(back, dec) < UnitsAt(a, dec) THEN -1
                           ELSE IF UnitsAt(back, dec) = UnitsAt(a, dec) THEN 0 ELSE 1
        BY <2>1, <3>2, <4>1, <4>2, CmpIsNumeric
      <4> QED
        BY <3>2, <4>1, <4>3
    <3> QED
      BY <2>10, <3>1, <3>2, <3>4
  <2>12. ASSUME terms = {}, ~IsZero(a), ~(Len(a.fraction) > dec)
         PROVE  Exact(a) > MaxUint * scale
    <3>1. Len(a.fraction) <= dec /\ UnitsAt(a, dec) \in Nat /\ UnitsAt(a, dec) * scale = Exact(a)
      BY <2>1, <2>7, <2>10, <2>12
    <3>2. UnitsAt(a, dec) # 0
      BY <2>1, <2>12, <3>1, NoUnits
    <3>3. UnitsAt(a, dec) > MaxUint
      <4>1. units <= 0
        BY <2>6, <2>12
      <4> QED
        BY <2>8, <2>12, <3>1, <3>2, <4>1
    <3> PICK n \in Nat : n = UnitsAt(a, dec)
      BY <3>1
    <3>4. (MaxUint + 1) * scale <= n * scale
      BY <2>1, <3>3, ProductGrows
    <3>5. (MaxUint + 1) * scale = MaxUint * scale + scale /\ MaxUint * scale \in Nat /\ n * scale \in Nat
      BY <2>1
    <3> QED
      BY <3>1, <3>4, <3>5
  <2> QED
    BY <2>11, <2>12
<1> QED
  BY <1>1, InputsAreGiven, PTL

\* An intent is routed to the cheapest compliant announcement, whatever the offers,
\* their prices and the intent, and refused only for the reason that holds
\* (Table.Route, lessCost, sortEntries).
THEOREM RoutesToTheCheapest == AlgorithmsSpec => []RouteIsCheapest
<1>1. InputOK => RouteIsCheapest
  <2> SUFFICES ASSUME InputOK, NEW g \in Given("route")
               PROVE  LET result == RouteIntent(g.offers, g.active, g.intent)
                          announced == {a \in Announcements(g.offers, g.active) :
                                          a.capability = NormalizeCapability(g.intent.capability)}
                          compliant == {a \in announced : checkPolicy(a.policy, g.intent.constraints)}
                      IN  CASE result.code = "routed" ->
                                 \E best \in compliant :
                                   /\ best.path = result.path
                                   /\ \A a \in compliant : Exact(best.cost) <= Exact(a.cost)
                            [] result = RouteNotFound -> announced = {}
                            [] result = PolicyViolation -> announced # {} /\ compliant = {}
                            [] OTHER -> TRUE
    BY DEF RouteIsCheapest
  <2> DEFINE result == RouteIntent(g.offers, g.active, g.intent)
             announced == {a \in Announcements(g.offers, g.active) :
                             a.capability = NormalizeCapability(g.intent.capability)}
             compliant == {a \in announced : checkPolicy(a.policy, g.intent.constraints)}
  <2>1. g \in RouteInputs
    BY DEF InputOK
  <2>2. \/ result \in {Internal, InvalidIntent}
        \/ result = RouteNotFound /\ announced = {}
        \/ result = PolicyViolation /\ announced # {} /\ compliant = {}
        \/ /\ result.code = "routed"
           /\ \E best \in compliant :
                best.path = result.path /\ \A a \in compliant : Exact(best.cost) <= Exact(a.cost)
    BY <2>1, RouteTaken
  <2> HIDE DEF result, announced, compliant
  <2>3. CASE result \in {Internal, InvalidIntent}
    <3>1. result.code # "routed" /\ result # RouteNotFound /\ result # PolicyViolation
      BY <2>3, RefusalCodes
    <3> QED
      BY <3>1 DEF result, announced, compliant
  <2>4. CASE result = RouteNotFound /\ announced = {}
    <3>1. result.code # "routed" /\ result # PolicyViolation
      BY <2>4, RefusalCodes
    <3> QED
      BY <2>4, <3>1 DEF result, announced, compliant
  <2>5. CASE result = PolicyViolation /\ announced # {} /\ compliant = {}
    <3>1. result.code # "routed" /\ result # RouteNotFound
      BY <2>5, RefusalCodes
    <3> QED
      BY <2>5, <3>1 DEF result, announced, compliant
  <2>6. CASE /\ result.code = "routed"
             /\ \E best \in compliant :
                  best.path = result.path /\ \A a \in compliant : Exact(best.cost) <= Exact(a.cost)
    <3>1. result # RouteNotFound /\ result # PolicyViolation
      BY <2>6, RefusalCodes
    <3> QED
      BY <2>6, <3>1 DEF result, announced, compliant
  <2> QED
    BY <2>2, <2>3, <2>4, <2>5, <2>6
<1> QED
  BY <1>1, InputsAreGiven, PTL

\* The builder's transaction is one the verifier accepts, for any terms: it compiles,
\* and to the instructions expected (Build, Verify).
THEOREM WhatIsBuiltVerifies == AlgorithmsSpec => []BuildVerifies
<1>1. BuildVerifies
  <2> SUFFICES ASSUME NEW t \in Given("terms"), NEW exists \in BOOLEAN
               PROVE  Verify(t, SignedBy(Build(t, exists), {Buyer(t)}))
    BY DEF BuildVerifies
  <2> DEFINE ixs == expectedInstructions(t, exists)
             tx == NewTransaction(ixs, Buyer(t))
             signed == SignedBy(tx, {Buyer(t)})
  <2>1. /\ Buyer(t) \in PartyKeys(t) /\ AreInstructions(ixs, PartyKeys(t))
        /\ \A i \in DOMAIN ixs : \A u : Uses(ixs[i], u) /\ u.signer => u.key = Buyer(t)
    BY ExpectedCalls DEF PartyKeys
  <2> HIDE DEF ixs
  <2>2. tx.signers = 1 /\ tx.keys[1] = Buyer(t) /\ tx.keys # <<>>
    BY <2>1, PayerFirst
  <2>3. /\ signed.signedBy = {Buyer(t)} /\ signed.keys = tx.keys /\ signed.signers = tx.signers
        /\ compile(signed) = compile(tx)
    BY SignedParts
  <2>4. compile(tx) # {}
    BY <2>1, MessageReadsBack
  <2> HIDE DEF signed
  <2>5. checkPayer(t, signed)
    BY <2>2, <2>3 DEF checkPayer
  <2>6. PICK c : c \in compile(signed)
    BY <2>3, <2>4
  <2>7. c \in expectedCanonical(t, exists)
    BY <2>3, <2>6, Zenon DEF expectedCanonical, ixs
  <2>8. c \in expectedCanonical(t, FALSE) \cup expectedCanonical(t, TRUE)
    BY <2>7, Zenon
  <2>9. Verify(t, signed)
    BY <2>5, <2>6, <2>8, Zenon DEF Verify, sameInstructions
  <2> QED
    BY <2>9, Zenon DEF signed, Build, ixs
<1> QED
  BY <1>1, PTL DEF AlgorithmsSpec

\* A verified transaction does what was agreed and nothing more, whatever was
\* submitted and for any terms (Verify, compile, sameInstructions).
THEOREM VerifiedDoesWhatWasAgreed == AlgorithmsSpec => []VerifiedPaysAgreed
<1>1. InputOK => VerifiedPaysAgreed
  <2> SUFFICES ASSUME InputOK, NEW g \in Given("transfer"), Verify(g.terms, g.tx)
               PROVE  /\ Effects(g.tx) \in {Agreed(g.terms), << OpensAccount(g.terms) >> \o Agreed(g.terms)}
                      /\ g.tx.signedBy = {Key(g.terms.buyer)}
    BY Zenon DEF VerifiedPaysAgreed
  <2> DEFINE t == g.terms
             tx == g.tx
  <2>1. "none" \notin {t.buyer, t.seller, t.mint, t.fee.wallet}
    BY InputsAssumption DEF InputOK
  <2>2. checkPayer(t, tx) /\ \E exists \in BOOLEAN : \E c \in compile(tx) : c \in expectedCanonical(t, exists)
    <3>1. \E c \in compile(tx) : c \in expectedCanonical(t, FALSE) \cup expectedCanonical(t, TRUE)
      BY Zenon DEF Verify, sameInstructions
    <3>2. checkPayer(t, tx)
      BY Zenon DEF Verify
    <3> QED
      BY <3>1, <3>2
  <2>3. tx.signedBy = {Key(t.buyer)}
    BY <2>2 DEF checkPayer, Buyer
  <2>4. PICK exists \in BOOLEAN, c \in compile(tx) : c \in expectedCanonical(t, exists)
    BY <2>2
  <2> DEFINE ixs == expectedInstructions(t, exists)
  <2>5. AreInstructions(ixs, PartyKeys(t)) /\ Buyer(t) \in PartyKeys(t)
    BY ExpectedCalls DEF PartyKeys
  <2>6. c \in compile(NewTransaction(ixs, Buyer(t)))
    BY <2>4, Zenon DEF expectedCanonical
  <2>7. Doings(ixs) \in {Agreed(t), << OpensAccount(t) >> \o Agreed(t)}
    BY ExpectedDo
  <2> HIDE DEF t, tx, ixs
  <2>8. SameCalls(c, ixs) /\ IsCompiled(c, tx)
    BY <2>5, <2>6, MessageReadsBack, CompileAnswers
  <2>9. ASSUME NEW i \in DOMAIN ixs, NEW j \in DOMAIN ixs[i].accounts PROVE ixs[i].accounts[j].key # Key("none")
    <3>1. ixs[i].accounts \in Seq(AccountUse(PartyKeys(t)))
      BY <2>5 DEF AreInstructions
    <3>2. ixs[i].accounts[j] \in AccountUse(PartyKeys(t))
      BY <3>1
    <3>3. ixs[i].accounts[j].key \in PartyKeys(t)
      BY <3>2 DEF AccountUse
    <3> QED
      BY <2>1, <3>3, NoneIsNobody
  <2>10. Effects(tx) = Doings(ixs)
    BY <2>8, <2>9, EffectsOfCalls
  <2> QED
    BY <2>3, <2>7, <2>10, Zenon DEF t, tx
<1> QED
  BY <1>1, InputsAreGiven, PTL
================================================================================
