---------------------------- MODULE EtaModelProofs ----------------------------
(***************************************************************************)
(* Theorems about EtaModel, for every cook, chamber, target, window and    *)
(* model of past cooks: the types, the physics estimate against a straight *)
(* line, the fit against the slopes it averages, the curve of a cook       *)
(* against its readings, and the figures of a status against each other.   *)
(*                                                                         *)
(* What a sum, a sorted sequence or a fraction in lowest terms is has to   *)
(* be proved by induction.  It is, in a form that quantifies over sets     *)
(* only: LeastNatural for the numbers, FiniteInduction for finite sets.    *)
(***************************************************************************)
EXTENDS EtaModel, FiniteSetTheorems, SequenceTheorems, WellFoundedInduction, TLAPS

(***************************************************************************)
(* Least elements and sums                                                 *)
(***************************************************************************)

\* Induction, in a form that takes a set for its property.
LEMMA LeastNatural ==
    ASSUME NEW T \in SUBSET Nat, T # {}
    PROVE  \E m \in T : \A k \in T : m <= k
<1> DEFINE R == {p \in Nat \X Nat : p[1] < p[2]}
<1>2. IsWellFoundedOn(R, Nat)
  BY NatLessThanWellFounded DEF OpToRel
<1> HIDE DEF R
<1>3. PICK m \in T : \A k \in T : <<k, m>> \notin R
  BY <1>2, WFMin
<1>4. \A k \in T : ~(k < m)
  BY <1>3 DEF R
<1> QED
  BY <1>4

\* What is left of a finite set without one of its elements.
LEMMA Smaller ==
    ASSUME NEW s, IsFiniteSet(s), s # {}
    PROVE  LET x == CHOOSE x \in s : TRUE
           IN  x \in s /\ IsFiniteSet(s \ {x}) /\ Cardinality(s \ {x}) = Cardinality(s) - 1
  BY FS_RemoveElement

\* The element that a sum takes first.
Pick(s) == CHOOSE x \in s : TRUE

\* Induction over a finite set, by taking out one element after the other.
LEMMA FiniteInduction ==
    ASSUME NEW W, IsFiniteSet(W), NEW G, {} \in G,
           \A s \in SUBSET W : s # {} /\ s \ {Pick(s)} \in G => s \in G
    PROVE  W \in G
<1> DEFINE T == {n \in Nat : \E s \in SUBSET W : Cardinality(s) = n /\ s \notin G}
<1>1. \A s \in SUBSET W : IsFiniteSet(s) /\ Cardinality(s) \in Nat
  BY FS_Subset, FS_CardinalityType
<1> SUFFICES ASSUME T # {} PROVE FALSE
  BY <1>1
<1>2. PICK n \in T : n \in Nat /\ \A k \in T : n <= k
  BY LeastNatural
<1>3. PICK s \in SUBSET W : Cardinality(s) = n /\ s \notin G
  BY <1>2
<1>4. s # {} /\ s \ {Pick(s)} \in SUBSET W /\ Cardinality(s \ {Pick(s)}) = n - 1
  BY <1>1, <1>3, Smaller DEF Pick
<1>5. s \ {Pick(s)} \notin G
  BY <1>3, <1>4
<1>6. n - 1 \in T
  BY <1>1, <1>4, <1>5
<1> HIDE DEF T
<1> QED
  BY <1>2, <1>6

\* F holds the sums of f over the subsets of W, taken one element after the other.
Tallies(F, W, f) ==
    /\ F \in [SUBSET W -> Int]
    /\ SumFunction(f) = F[W] /\ F[{}] = 0
    /\ \A s \in SUBSET W : s # {} => F[s] = f[Pick(s)] + F[s \ {Pick(s)}]

\* A sum over a finite set unfolds: there is such an F.
LEMMA SumUnfolds ==
    ASSUME NEW W, IsFiniteSet(W), NEW f \in [W -> Int]
    PROVE  \E F : Tallies(F, W, f)
<1> DEFINE Step(g, s) == IF s = {} THEN 0
                         ELSE LET x == CHOOSE x \in s : TRUE IN f[x] + g[s \ {x}]
           Sums(g, n) == \A s \in SUBSET W : Cardinality(s) <= n => g[s] = Step(g, s)
           Fs == [SUBSET W -> Int]
<1>1. \A s \in SUBSET W : IsFiniteSet(s) /\ Cardinality(s) \in Nat /\ Cardinality(s) <= Cardinality(W)
  BY FS_Subset, FS_CardinalityType
<1>2. ASSUME NEW g \in Fs, NEW s \in SUBSET W PROVE Step(g, s) \in Int
  BY Smaller, <1>1
<1>3. ASSUME NEW g, NEW h, NEW s \in SUBSET W,
             \A r \in SUBSET W : Cardinality(r) < Cardinality(s) => g[r] = h[r]
      PROVE  Step(g, s) = Step(h, s)
  <2>1. CASE s # {}
    <3> DEFINE x == CHOOSE x \in s : TRUE
    <3>1. x \in s /\ Cardinality(s \ {x}) = Cardinality(s) - 1
      BY <1>1, <2>1, Smaller
    <3>2. s \ {x} \in SUBSET W
      OBVIOUS
    <3>3. g[s \ {x}] = h[s \ {x}]
      BY <1>1, <1>3, <3>1, <3>2
    <3> QED
      BY <3>3
  <2> QED
    BY <2>1
<1> HIDE DEF Step
<1>4. \A n \in Nat : \E g \in Fs : Sums(g, n)
  <2> DEFINE T == {n \in Nat : ~ \E g \in Fs : Sums(g, n)}
  <2> SUFFICES ASSUME T # {} PROVE FALSE
    OBVIOUS
  <2>1. PICK n \in T : n \in Nat /\ \A k \in T : n <= k
    BY LeastNatural
  <2>2. CASE n = 0
    <3> DEFINE g == [s \in SUBSET W |-> 0]
    <3>1. g \in Fs
      OBVIOUS
    <3>2. ASSUME NEW s \in SUBSET W, Cardinality(s) <= 0 PROVE g[s] = Step(g, s)
      <4>1. s = {}
        BY <1>1, <3>2, FS_EmptySet
      <4> QED
        BY <4>1 DEF Step
    <3> QED
      BY <2>1, <2>2, <3>1, <3>2
  <2>3. CASE n # 0
    <3>1. PICK g \in Fs : Sums(g, n - 1)
      <4>1. n - 1 \in Nat
        BY <2>1, <2>3
      <4>2. n - 1 \notin T
        <5> HIDE DEF T
        <5> QED
          BY <2>1, <4>1
      <4> QED
        BY <4>1, <4>2
    <3> DEFINE h == [s \in SUBSET W |-> IF Cardinality(s) <= n - 1 THEN g[s] ELSE Step(g, s)]
    <3>2. /\ h \in Fs
          /\ \A s \in SUBSET W : h[s] = IF Cardinality(s) <= n - 1 THEN g[s] ELSE Step(g, s)
      BY <1>2
    <3> HIDE DEF h
    <3>3. ASSUME NEW s \in SUBSET W, Cardinality(s) <= n PROVE h[s] = Step(h, s)
      <4>1. Step(g, s) = Step(h, s)
        <5>1. \A r \in SUBSET W : Cardinality(r) < Cardinality(s) => g[r] = h[r]
          BY <1>1, <2>1, <3>2, <3>3
        <5> QED
          BY <1>3, <5>1
      <4>2. h[s] = Step(g, s)
        BY <3>1, <3>2
      <4> QED
        BY <4>1, <4>2
    <3>4. Sums(h, n)
      BY <3>3
    <3> QED
      BY <2>1, <3>2, <3>4
  <2> QED
    BY <2>2, <2>3
<1>5. \E g : g = [s \in SUBSET W |-> Step(g, s)]
  <2>1. PICK g \in Fs : Sums(g, Cardinality(W))
    BY <1>1, <1>4
  <2>2. \A s \in SUBSET W : g[s] = Step(g, s)
    BY <1>1, <2>1
  <2>3. g = [s \in SUBSET W |-> Step(g, s)]
    BY <2>2
  <2> QED
    BY <2>3
<1> DEFINE iter == CHOOSE g : g = [s \in SUBSET W |-> Step(g, s)]
<1>6. iter = [s \in SUBSET W |-> Step(iter, s)]
  BY <1>5
<1>7. SumFunction(f) = iter[W]
  BY DEF SumFunction, SumFunctionOnSet, FoldFunctionOnSet, MapThenFoldSet, Step
<1> HIDE DEF iter
<1>8. \A s \in SUBSET W : iter[s] \in Int
  <2> DEFINE T == {n \in Nat : \E s \in SUBSET W : Cardinality(s) = n /\ iter[s] \notin Int}
  <2> SUFFICES ASSUME T # {} PROVE FALSE
    BY <1>1
  <2>1. PICK n \in T : \A k \in T : n <= k
    BY LeastNatural
  <2>2. PICK s \in SUBSET W : Cardinality(s) = n /\ iter[s] \notin Int
    BY <2>1
  <2>3. iter[s] = Step(iter, s) /\ s # {}
    BY <1>6, <2>2 DEF Step
  <2> DEFINE x == CHOOSE x \in s : TRUE
  <2>4. x \in s /\ s \ {x} \in SUBSET W /\ Cardinality(s \ {x}) = n - 1
    BY <1>1, <2>2, <2>3, Smaller
  <2>5. iter[s \ {x}] \in Int
    <3>1. n - 1 \in Nat
      BY <1>1, <2>4
    <3>2. n - 1 \notin T
      BY <2>1, <3>1
    <3> QED
      BY <2>4, <3>1, <3>2
  <2>6. f[x] \in Int
    BY <2>4
  <2>7. Step(iter, s) = f[x] + iter[s \ {x}]
    BY <2>3 DEF Step
  <2> QED
    BY <2>2, <2>3, <2>5, <2>6, <2>7
<1>9. iter \in [SUBSET W -> Int]
  BY <1>6, <1>8
<1>10. \A s \in SUBSET W : s # {} => iter[s] = f[Pick(s)] + iter[s \ {Pick(s)}]
  BY <1>6 DEF Step, Pick
<1>11. iter[{}] = 0
  BY <1>6 DEF Step
<1> QED
  BY <1>7, <1>9, <1>10, <1>11 DEF Tallies

\* The sum of integers is an integer.
LEMMA SumIsInteger ==
    ASSUME NEW W, IsFiniteSet(W), NEW f \in [W -> Int]
    PROVE  SumFunction(f) \in Int
<1>1. PICK F : Tallies(F, W, f)
  BY SumUnfolds
<1> QED
  BY <1>1 DEF Tallies

\* h is a linear combination of f and g.
Combines(W, h, a, f, b, g) ==
    /\ f \in [W -> Int] /\ g \in [W -> Int] /\ h \in [W -> Int]
    /\ a \in Int /\ b \in Int
    /\ \A i \in W : h[i] = a * f[i] + b * g[i]

\* Sums are linear.
LEMMA SumIsLinear ==
    ASSUME NEW W, IsFiniteSet(W), NEW h, NEW a, NEW f, NEW b, NEW g,
           Combines(W, h, a, f, b, g)
    PROVE  SumFunction(h) = a * SumFunction(f) + b * SumFunction(g)
<1> USE DEF Combines
<1>1. PICK F : Tallies(F, W, f)
  BY SumUnfolds
<1>2. PICK G : Tallies(G, W, g)
  BY SumUnfolds
<1>3. PICK H : Tallies(H, W, h)
  BY SumUnfolds
<1> DEFINE Good == {s \in SUBSET W : H[s] = a * F[s] + b * G[s]}
<1>4. {} \in Good
  BY <1>1, <1>2, <1>3 DEF Tallies
<1>5. ASSUME NEW s \in SUBSET W, s # {}, s \ {Pick(s)} \in Good PROVE s \in Good
  <2>1. Pick(s) \in W
    BY <1>5 DEF Pick
  <2>2. s \ {Pick(s)} \in SUBSET W
    OBVIOUS
  <2>3. /\ f[Pick(s)] \in Int /\ g[Pick(s)] \in Int
        /\ F[s \ {Pick(s)}] \in Int /\ G[s \ {Pick(s)}] \in Int
    BY <1>1, <1>2, <2>1, <2>2 DEF Tallies
  <2>4. H[s] = (a * f[Pick(s)] + b * g[Pick(s)])
               + (a * F[s \ {Pick(s)}] + b * G[s \ {Pick(s)}])
    BY <1>3, <1>5, <2>1 DEF Tallies
  <2>5. /\ F[s] = f[Pick(s)] + F[s \ {Pick(s)}]
        /\ G[s] = g[Pick(s)] + G[s \ {Pick(s)}]
    BY <1>1, <1>2, <1>5 DEF Tallies
  <2>6. \A p, q, r, t \in Int : (a * p + b * q) + (a * r + b * t) = a * (p + r) + b * (q + t)
    OBVIOUS
  <2> QED
    BY <2>3, <2>4, <2>5, <2>6
<1>6. W \in Good
  <2> HIDE DEF Good
  <2> QED
    BY <1>4, <1>5, FiniteInduction
<1> QED
  BY <1>1, <1>2, <1>3, <1>6 DEF Tallies

\* The sum of a constant.
LEMMA SumOfConstant ==
    ASSUME NEW W, IsFiniteSet(W), NEW c \in Int, NEW f \in [W -> Int], \A i \in W : f[i] = c
    PROVE  SumFunction(f) = c * Cardinality(W)
<1>1. PICK F : Tallies(F, W, f)
  BY SumUnfolds
<1> DEFINE Good == {s \in SUBSET W : F[s] = c * Cardinality(s)}
<1>2. {} \in Good
  BY <1>1, FS_EmptySet DEF Tallies
<1>3. ASSUME NEW s \in SUBSET W, s # {}, s \ {Pick(s)} \in Good PROVE s \in Good
  <2>1. IsFiniteSet(s) /\ Cardinality(s) \in Nat
    BY FS_Subset, FS_CardinalityType
  <2>2. Pick(s) \in W /\ Cardinality(s \ {Pick(s)}) = Cardinality(s) - 1
    BY <1>3, <2>1, Smaller DEF Pick
  <2>3. F[s] = c + c * (Cardinality(s) - 1)
    BY <1>1, <1>3, <2>2 DEF Tallies
  <2> QED
    BY <2>1, <2>3
<1>4. W \in Good
  <2> HIDE DEF Good
  <2> QED
    BY <1>2, <1>3, FiniteInduction
<1> QED
  BY <1>1, <1>4 DEF Tallies

\* A sum of what is not negative is not, and is positive if one of them is.
LEMMA SumIsPositive ==
    ASSUME NEW W, IsFiniteSet(W), NEW f \in [W -> Int], \A i \in W : f[i] >= 0
    PROVE  SumFunction(f) >= 0 /\ ((\E i \in W : f[i] > 0) => SumFunction(f) > 0)
<1>1. PICK F : Tallies(F, W, f)
  BY SumUnfolds
<1> DEFINE Good == {s \in SUBSET W : F[s] >= 0 /\ \A i \in s : f[i] > 0 => F[s] > 0}
<1>2. {} \in Good
  BY <1>1 DEF Tallies
<1>3. ASSUME NEW s \in SUBSET W, s # {}, s \ {Pick(s)} \in Good PROVE s \in Good
  <2>1. Pick(s) \in W /\ f[Pick(s)] \in Int /\ f[Pick(s)] >= 0
    BY <1>3 DEF Pick
  <2>2. F[s] = f[Pick(s)] + F[s \ {Pick(s)}] /\ F[s \ {Pick(s)}] \in Int
    BY <1>1, <1>3 DEF Tallies
  <2>3. F[s] >= 0
    BY <1>3, <2>1, <2>2
  <2>4. ASSUME NEW i \in s, f[i] > 0 PROVE F[s] > 0
    <3>1. CASE i = Pick(s)
      BY <1>3, <2>1, <2>2, <2>4, <3>1
    <3>2. CASE i \in s \ {Pick(s)}
      <4>1. F[s \ {Pick(s)}] > 0
        BY <1>3, <2>4, <3>2
      <4> QED
        BY <2>1, <2>2, <4>1
    <3> QED
      BY <3>1, <3>2
  <2> QED
    BY <2>3, <2>4
<1>4. W \in Good
  <2> HIDE DEF Good
  <2> QED
    BY <1>2, <1>3, FiniteInduction
<1> QED
  BY <1>1, <1>4 DEF Tallies
(***************************************************************************)
(* Rational numbers                                                        *)
(***************************************************************************)

Positives == Nat \ {0}
Rat == Int \X Positives

\* No smaller denominator will do.
Lowest(q) == \A j \in 1 .. q[2] - 1 : (q[1] * j) % q[2] # 0

Q == {q \in Rat : Lowest(q)}

\* What Ratio chooses.
LEMMA RatioChoice ==
    ASSUME NEW n \in Int, NEW d \in Int, d # 0
    PROVE  \E m \in Int, e \in Positives, k \in Positives, p \in Int :
              /\ Ratio(n, d) = <<p, k>>
              /\ m * d = n * e /\ e * p = m * k
              /\ \A j \in 1 .. k - 1 : (m * j) % e # 0
<1> DEFINE m == IF d < 0 THEN -n ELSE n
           e == Magnitude(d)
           Good == {k \in 1 .. e : (m * k) % e = 0}
           q == CHOOSE k \in 1 .. e : (m * k) % e = 0 /\ \A j \in 1 .. k - 1 : (m * j) % e # 0
<1>1. m \in Int /\ e \in Positives /\ m * d = n * e
  BY DEF Magnitude, Positives
<1>2. Ratio(n, d) = <<(m * q) \div e, q>>
  BY DEF Ratio
<1> HIDE DEF m, e
<1>3. (m * e) % e = 0
  BY <1>1 DEF Positives
<1>4. \E k \in 1 .. e : (m * k) % e = 0 /\ \A j \in 1 .. k - 1 : (m * j) % e # 0
  <2>1. e \in Good /\ Good \in SUBSET Nat
    BY <1>1, <1>3 DEF Positives
  <2>2. PICK k \in Good : \A j \in Good : k <= j
    BY <2>1, LeastNatural
  <2>3. \A j \in 1 .. k - 1 : (m * j) % e # 0
    BY <1>1, <2>2 DEF Positives
  <2> QED
    BY <2>2, <2>3
<1>5. q \in 1 .. e /\ (m * q) % e = 0 /\ \A j \in 1 .. q - 1 : (m * j) % e # 0
  BY <1>4
<1> HIDE DEF q
<1>6. q \in Positives /\ (m * q) \div e \in Int /\ e * ((m * q) \div e) = m * q
  BY <1>1, <1>5 DEF Positives
<1> QED
  BY <1>1, <1>2, <1>5, <1>6

\* A common factor may be dropped.
LEMMA Cancel ==
    ASSUME NEW a \in Int, NEW b \in Int, NEW c \in Int
    PROVE  /\ c # 0 /\ a * c = b * c => a = b
           /\ c > 0 => (a * c <= b * c <=> a <= b) /\ (a * c < b * c <=> a < b)
  OBVIOUS

\* A quotient has the value it should, in lowest terms.
LEMMA RatioValue ==
    ASSUME NEW n \in Int, NEW d \in Int, d # 0
    PROVE  Ratio(n, d) \in Q /\ Ratio(n, d)[1] * d = n * Ratio(n, d)[2]
<1>1. PICK m \in Int, e \in Positives, k \in Positives, p \in Int :
         /\ Ratio(n, d) = <<p, k>>
         /\ m * d = n * e /\ e * p = m * k
         /\ \A j \in 1 .. k - 1 : (m * j) % e # 0
  BY RatioChoice
<1>2. e * (p * d) = e * (n * k)
  BY <1>1 DEF Positives
<1>3. p * d = n * k
  BY <1>2, Cancel DEF Positives
<1>4. ASSUME NEW j \in 1 .. k - 1, (p * j) % k = 0 PROVE FALSE
  <2> DEFINE c == (p * j) \div k
  <2>1. c \in Int /\ p * j = k * c
    BY <1>4 DEF Positives
  <2> HIDE DEF c
  <2>2. (m * j) * k = (e * c) * k
    BY <1>1, <2>1 DEF Positives
  <2>3. m * j = e * c
    BY <2>1, <2>2, Cancel DEF Positives
  <2>4. (m * j) % e = 0
    BY <2>1, <2>3 DEF Positives
  <2> QED
    BY <1>1, <2>4
<1> QED
  BY <1>1, <1>3, <1>4 DEF Q, Rat, Lowest

\* The whole numbers.
LEMMA WholeInQ == \A i \in Int : Whole(i) \in Q
  BY DEF Whole, Q, Rat, Lowest, Positives

\* Numbers in lowest terms are equal when their values are.
LEMMA SameValue ==
    ASSUME NEW a \in Q, NEW b \in Q, a[1] * b[2] = b[1] * a[2]
    PROVE  a = b
<1> USE DEF Q, Rat, Lowest, Positives
<1>1. ASSUME NEW x \in Q, NEW y \in Q, x[1] * y[2] = y[1] * x[2], x[2] < y[2]
      PROVE  FALSE
  <2>1. (y[1] * x[2]) % y[2] = 0
    <3>1. ASSUME NEW i \in Int, NEW k \in Positives PROVE (i * k) % k = 0
      <4> HIDE DEF Q, Rat, Lowest
      <4> QED
        OBVIOUS
    <3>2. x[1] \in Int /\ y[2] \in Positives
      OBVIOUS
    <3> QED
      BY <1>1, <3>1, <3>2
  <2>2. x[2] \in 1 .. y[2] - 1
    BY <1>1
  <2> QED
    BY <2>1, <2>2
<1>2. a[2] = b[2]
  BY <1>1
<1>3. a[1] = b[1]
  <2>1. a[1] \in Int /\ b[1] \in Int /\ b[2] \in Int /\ b[2] # 0
    OBVIOUS
  <2>2. a[1] * b[2] = b[1] * b[2]
    BY <1>2
  <2> QED
    BY <2>1, <2>2, Cancel
<1> QED
  BY <1>2, <1>3

\* A number in lowest terms, as integers.
LEMMA Parts ==
    ASSUME NEW q \in Q
    PROVE  q[1] \in Int /\ q[2] \in Int /\ q[2] > 0 /\ q[2] \in Positives
  BY DEF Q, Rat, Positives

\* To compare with a quotient is to compare with what it was made from.
LEMMA RatioCompares ==
    ASSUME NEW n \in Int, NEW d \in Int, d > 0, NEW q \in Q
    PROVE  /\ Leq(Ratio(n, d), q) <=> n * q[2] <= q[1] * d
           /\ Leq(q, Ratio(n, d)) <=> q[1] * d <= n * q[2]
           /\ Lt(Ratio(n, d), q) <=> n * q[2] < q[1] * d
           /\ Lt(q, Ratio(n, d)) <=> q[1] * d < n * q[2]
<1> DEFINE r == Ratio(n, d)
<1>1. r \in Q /\ r[1] * d = n * r[2]
  BY RatioValue
<1>2. /\ r[1] \in Int /\ r[2] \in Int /\ r[2] > 0
      /\ q[1] \in Int /\ q[2] \in Int /\ q[2] > 0
  BY <1>1, Parts
<1> HIDE DEF r
<1>3. (r[1] * q[2]) * d = (n * q[2]) * r[2]
  <2>1. (r[1] * q[2]) * d = (r[1] * d) * q[2]
    BY <1>2
  <2>2. (n * r[2]) * q[2] = (n * q[2]) * r[2]
    BY <1>2
  <2> QED
    BY <1>1, <2>1, <2>2
<1>4. (q[1] * r[2]) * d = (q[1] * d) * r[2]
  BY <1>2
<1> DEFINE x == r[1] * q[2]
           y == q[1] * r[2]
           u == n * q[2]
           v == q[1] * d
<1>5. /\ x \in Int /\ y \in Int /\ u \in Int /\ v \in Int
      /\ x * d = u * r[2] /\ y * d = v * r[2]
  BY <1>2, <1>3, <1>4
<1> HIDE DEF x, y, u, v
<1>6. (x <= y <=> u <= v) /\ (y <= x <=> v <= u)
  <2>1. (x <= y <=> x * d <= y * d) /\ (y <= x <=> y * d <= x * d)
    BY <1>5, Cancel
  <2>2. (u <= v <=> u * r[2] <= v * r[2]) /\ (v <= u <=> v * r[2] <= u * r[2])
    BY <1>2, <1>5, Cancel
  <2> QED
    BY <1>5, <2>1, <2>2
<1>7. (x < y <=> u < v) /\ (y < x <=> v < u)
  BY <1>5, <1>6
<1> QED
  BY <1>6, <1>7 DEF Leq, Lt, r, x, y, u, v

\* The order of the rationals.
LEMMA OrderOfQ ==
    ASSUME NEW a \in Q, NEW b \in Q, NEW c \in Q
    PROVE  /\ Leq(a, a)
           /\ Leq(a, b) \/ Leq(b, a)
           /\ Leq(a, b) /\ Leq(b, c) => Leq(a, c)
           /\ Leq(a, b) /\ Leq(b, a) => a = b
           /\ Lt(a, b) <=> ~Leq(b, a)
<1>1. /\ a[1] \in Int /\ a[2] \in Int /\ a[2] > 0
      /\ b[1] \in Int /\ b[2] \in Int /\ b[2] > 0
      /\ c[1] \in Int /\ c[2] \in Int /\ c[2] > 0
  BY Parts
<1>2. ASSUME Leq(a, b), Leq(b, c) PROVE Leq(a, c)
  <2>1. a[1] * b[2] <= b[1] * a[2] /\ b[1] * c[2] <= c[1] * b[2]
    BY <1>2 DEF Leq
  <2>2. (a[1] * b[2]) * c[2] <= (b[1] * a[2]) * c[2]
    BY <1>1, <2>1, Cancel
  <2>3. (b[1] * c[2]) * a[2] <= (c[1] * b[2]) * a[2]
    BY <1>1, <2>1, Cancel
  <2>4. /\ (a[1] * b[2]) * c[2] = (a[1] * c[2]) * b[2]
        /\ (b[1] * a[2]) * c[2] = (b[1] * c[2]) * a[2]
        /\ (c[1] * b[2]) * a[2] = (c[1] * a[2]) * b[2]
    BY <1>1
  <2>5. (a[1] * c[2]) * b[2] <= (c[1] * a[2]) * b[2]
    BY <1>1, <2>2, <2>3, <2>4
  <2> QED
    BY <1>1, <2>5, Cancel DEF Leq
<1>3. Leq(a, b) /\ Leq(b, a) => a = b
  BY <1>1, SameValue DEF Leq
<1> QED
  BY <1>1, <1>2, <1>3 DEF Leq, Lt
\* The operations, by their values.
LEMMA Operations ==
    ASSUME NEW a \in Q, NEW b \in Q
    PROVE  /\ Add(a, b) \in Q
           /\ Add(a, b)[1] * (a[2] * b[2]) = (a[1] * b[2] + b[1] * a[2]) * Add(a, b)[2]
           /\ Sub(a, b) \in Q
           /\ Sub(a, b)[1] * (a[2] * b[2]) = (a[1] * b[2] - b[1] * a[2]) * Sub(a, b)[2]
           /\ Mul(a, b) \in Q
           /\ Mul(a, b)[1] * (a[2] * b[2]) = (a[1] * b[1]) * Mul(a, b)[2]
           /\ b[1] # 0 =>
                /\ Div(a, b) \in Q
                /\ Div(a, b)[1] * (a[2] * b[1]) = (a[1] * b[2]) * Div(a, b)[2]
<1>1. /\ a[1] \in Int /\ a[2] \in Int /\ a[2] > 0
      /\ b[1] \in Int /\ b[2] \in Int /\ b[2] > 0
  BY Parts
<1>2. /\ a[2] * b[2] \in Int /\ a[2] * b[2] # 0
      /\ a[1] * b[2] + b[1] * a[2] \in Int /\ a[1] * b[2] - b[1] * a[2] \in Int
      /\ a[1] * b[1] \in Int
      /\ b[1] # 0 => a[1] * b[2] \in Int /\ a[2] * b[1] \in Int /\ a[2] * b[1] # 0
  BY <1>1
<1> QED
  BY <1>2, RatioValue DEF Add, Sub, Mul, Div

(***************************************************************************)
(* The physics estimate                                                    *)
(***************************************************************************)

\* Ln(x) is 2(x - 1) / (x + 1).
LEMMA LnValue ==
    ASSUME NEW x \in Q, x[1] > 0
    PROVE  Ln(x) \in Q /\ Ln(x)[1] * (x[1] + x[2]) = (2 * (x[1] - x[2])) * Ln(x)[2]
<1> DEFINE y == Sub(x, Whole(1))
           z == Add(x, Whole(1))
           w == Mul(Whole(2), y)
           l == Div(w, z)
<1>1. /\ Whole(1) \in Q /\ Whole(1)[1] = 1 /\ Whole(1)[2] = 1
      /\ Whole(2) \in Q /\ Whole(2)[1] = 2 /\ Whole(2)[2] = 1
  BY WholeInQ DEF Whole
<1>2. x[1] \in Int /\ x[2] \in Int /\ x[2] > 0
  BY Parts
<1>3. y \in Q /\ y[1] * (x[2] * 1) = (x[1] * 1 - 1 * x[2]) * y[2]
  BY <1>1, Operations
<1>4. z \in Q /\ z[1] * (x[2] * 1) = (x[1] * 1 + 1 * x[2]) * z[2]
  BY <1>1, Operations
<1> HIDE DEF y, z
<1>5. w \in Q /\ w[1] * (1 * y[2]) = (2 * y[1]) * w[2]
  BY <1>1, <1>3, Operations
<1> HIDE DEF w
<1>6. /\ y[1] \in Int /\ y[2] \in Int /\ y[2] > 0
      /\ z[1] \in Int /\ z[2] \in Int /\ z[2] > 0
      /\ w[1] \in Int /\ w[2] \in Int /\ w[2] > 0
  BY <1>3, <1>4, <1>5, Parts
<1>7. z[1] > 0
  <2>1. z[1] * x[2] = (x[1] + x[2]) * z[2]
    BY <1>2, <1>4, <1>6
  <2>2. (x[1] + x[2]) * z[2] > 0
    BY <1>2, <1>6
  <2>3. z[1] * x[2] > 0 * x[2]
    BY <1>2, <2>1, <2>2
  <2> QED
    BY <1>2, <1>6, <2>3, Cancel
<1>8. l \in Q /\ l[1] * (w[2] * z[1]) = (w[1] * z[2]) * l[2]
  BY <1>4, <1>5, <1>7, Operations
<1> HIDE DEF l
<1>9. l[1] \in Int /\ l[2] \in Int /\ l[2] > 0
  BY <1>8, Parts
<1>10. w[1] * x[2] = (2 * (x[1] - x[2])) * w[2]
  <2>1. y[1] * x[2] = (x[1] - x[2]) * y[2]
    BY <1>2, <1>3, <1>6
  <2>2. w[1] * y[2] = (2 * y[1]) * w[2]
    BY <1>5, <1>6
  <2>3. (w[1] * x[2]) * y[2] = (w[1] * y[2]) * x[2]
    BY <1>2, <1>6
  <2>4. ((2 * y[1]) * w[2]) * x[2] = (2 * w[2]) * (y[1] * x[2])
    BY <1>2, <1>6
  <2>5. (2 * w[2]) * ((x[1] - x[2]) * y[2]) = ((2 * (x[1] - x[2])) * w[2]) * y[2]
    BY <1>2, <1>6
  <2>6. (w[1] * x[2]) * y[2] = ((2 * (x[1] - x[2])) * w[2]) * y[2]
    BY <2>1, <2>2, <2>3, <2>4, <2>5
  <2>7. w[1] * x[2] \in Int /\ (2 * (x[1] - x[2])) * w[2] \in Int /\ y[2] # 0
    BY <1>2, <1>6
  <2> QED
    BY <1>6, <2>6, <2>7, Cancel
<1>11. l[1] * (x[1] + x[2]) = (2 * (x[1] - x[2])) * l[2]
  <2>1. z[1] * x[2] = (x[1] + x[2]) * z[2]
    BY <1>2, <1>4, <1>6
  <2> DEFINE s == x[1] + x[2]
             t == 2 * (x[1] - x[2])
  <2>2. s \in Int /\ t \in Int
    BY <1>2
  <2> HIDE DEF s, t
  <2>3. (l[1] * s) * (w[2] * z[2]) = (l[1] * w[2]) * (s * z[2])
    BY <1>6, <1>9, <2>2
  <2>4. (l[1] * w[2]) * (z[1] * x[2]) = (l[1] * (w[2] * z[1])) * x[2]
    BY <1>2, <1>6, <1>9
  <2>5. ((w[1] * z[2]) * l[2]) * x[2] = (z[2] * l[2]) * (w[1] * x[2])
    BY <1>2, <1>6, <1>9
  <2>6. (z[2] * l[2]) * (t * w[2]) = (t * l[2]) * (w[2] * z[2])
    BY <1>6, <1>9, <2>2
  <2>7. (l[1] * s) * (w[2] * z[2]) = (t * l[2]) * (w[2] * z[2])
    BY <1>8, <1>10, <2>1, <2>3, <2>4, <2>5, <2>6 DEF s, t
  <2>8. w[2] * z[2] \in Int /\ w[2] * z[2] # 0
    BY <1>6
  <2>9. l[1] * s \in Int /\ t * l[2] \in Int
    BY <1>9, <2>2
  <2>10. l[1] * s = t * l[2]
    BY <2>7, <2>8, <2>9, Cancel
  <2> QED
    BY <2>10 DEF s, t
<1> QED
  BY <1>8, <1>11 DEF Ln, l, w, y, z
\* Newton's law, from the chamber down to the target, takes longer than a line.
LEMMA NewtonBound ==
    ASSUME NEW C \in Q, NEW tip \in Int, NEW tgt \in Int, tip < tgt,
           NEW e \in Nat \ {0}, Leq(Whole(e), Sub(C, Whole(tgt)))
    PROVE  LET g == Sub(C, Whole(tip))
               m == Mul(Ln(Div(g, Sub(C, Whole(tgt)))), g)
           IN  m \in Q /\ Leq(Whole(tgt - tip), m)
<1> DEFINE g == Sub(C, Whole(tip))
           t == Sub(C, Whole(tgt))
           x == Div(g, t)
           l == Ln(x)
           m == Mul(l, g)
           G == g[1] * t[2]
           T == t[1] * g[2]
           D == tgt - tip
<1>1. \A i \in Int : Whole(i) \in Q /\ Whole(i)[1] = i /\ Whole(i)[2] = 1
  BY WholeInQ DEF Whole
<1>2. C[1] \in Int /\ C[2] \in Int /\ C[2] > 0
  BY Parts
<1>3. g \in Q /\ g[1] * (C[2] * 1) = (C[1] * 1 - tip * C[2]) * g[2]
  BY <1>1, Operations
<1>4. t \in Q /\ t[1] * (C[2] * 1) = (C[1] * 1 - tgt * C[2]) * t[2]
  BY <1>1, Operations
<1>5. Leq(Whole(e), t)
  OBVIOUS
<1> HIDE DEF g, t
<1>6. /\ g[1] \in Int /\ g[2] \in Int /\ g[2] > 0
      /\ t[1] \in Int /\ t[2] \in Int /\ t[2] > 0
  BY <1>3, <1>4, Parts
<1>7. D \in Int /\ D > 0
  OBVIOUS
<1>8. G - T = D * (g[2] * t[2]) /\ G \in Int /\ T \in Int
  <2>1. g[1] * C[2] = (C[1] - tip * C[2]) * g[2]
    BY <1>2, <1>3, <1>6
  <2>2. t[1] * C[2] = (C[1] - tgt * C[2]) * t[2]
    BY <1>2, <1>4, <1>6
  <2>3. G * C[2] = ((C[1] - tip * C[2]) * g[2]) * t[2]
    <3>1. G * C[2] = (g[1] * C[2]) * t[2]
      BY <1>2, <1>6
    <3> QED
      BY <2>1, <3>1
  <2>4. T * C[2] = ((C[1] - tgt * C[2]) * t[2]) * g[2]
    <3>1. T * C[2] = (t[1] * C[2]) * g[2]
      BY <1>2, <1>6
    <3> QED
      BY <2>2, <3>1
  <2>5. ((C[1] - tip * C[2]) * g[2]) * t[2] - ((C[1] - tgt * C[2]) * t[2]) * g[2]
          = (D * (g[2] * t[2])) * C[2]
    <3> DEFINE p == g[2] * t[2]
               u == C[1] - tip * C[2]
               v == C[1] - tgt * C[2]
    <3>1. p \in Int /\ u \in Int /\ v \in Int /\ u - v = D * C[2]
      BY <1>2, <1>6
    <3>2. (u * g[2]) * t[2] = u * p /\ (v * t[2]) * g[2] = v * p
      BY <1>2, <1>6
    <3> HIDE DEF p, u, v
    <3>3. u * p - v * p = (D * C[2]) * p
      <4>1. u * p - v * p = (u - v) * p
        BY <3>1
      <4> QED
        BY <3>1, <4>1
    <3>4. (D * C[2]) * p = (D * p) * C[2]
      <4> HIDE DEF D
      <4> QED
        BY <1>2, <1>7, <3>1
    <3> QED
      BY <3>2, <3>3, <3>4 DEF p, u, v
  <2>6. G \in Int /\ T \in Int /\ D * (g[2] * t[2]) \in Int
    BY <1>6, <1>7
  <2>7. (G - T) * C[2] = (D * (g[2] * t[2])) * C[2]
    BY <1>2, <2>3, <2>4, <2>5, <2>6
  <2>8. G - T \in Int /\ C[2] # 0
    BY <1>2, <2>6
  <2> QED
    BY <1>2, <2>6, <2>7, <2>8, Cancel
<1>9. t[1] > 0
  <2>1. e * t[2] <= t[1] * 1
    BY <1>1, <1>5 DEF Leq
  <2>2. e * t[2] > 0
    BY <1>6
  <2> QED
    BY <1>6, <2>1, <2>2
<1>10. T > 0 /\ G > T
  <2>1. T > 0
    BY <1>6, <1>9
  <2>2. D * (g[2] * t[2]) > 0
    BY <1>6, <1>7
  <2> QED
    BY <1>8, <2>1, <2>2
<1>11. x \in Q /\ x[1] * (g[2] * t[1]) = (g[1] * t[2]) * x[2]
  BY <1>3, <1>4, <1>9, Operations
<1> HIDE DEF x
<1>12. x[1] \in Int /\ x[2] \in Int /\ x[2] > 0
  BY <1>11, Parts
<1>13. x[1] * T = G * x[2]
  BY <1>6, <1>11, <1>12
<1> HIDE DEF G, T, D
<1>14. x[1] > 0
  <2>1. G * x[2] > 0
    BY <1>8, <1>10, <1>12
  <2>2. 0 * T < x[1] * T
    BY <1>8, <1>13, <2>1
  <2> QED
    BY <1>8, <1>10, <1>12, <2>2, Cancel
<1>15. l \in Q /\ l[1] * (x[1] + x[2]) = (2 * (x[1] - x[2])) * l[2]
  BY <1>11, <1>14, LnValue
<1> HIDE DEF l
<1>16. m \in Q /\ m[1] * (l[2] * g[2]) = (l[1] * g[1]) * m[2]
  BY <1>3, <1>15, Operations
<1> HIDE DEF m
<1>17. /\ l[1] \in Int /\ l[2] \in Int /\ l[2] > 0
       /\ m[1] \in Int /\ m[2] \in Int /\ m[2] > 0
  BY <1>15, <1>16, Parts
\* The logarithm, by the gaps.
<1>18. l[1] * (G + T) = (2 * (G - T)) * l[2]
  <2>1. (l[1] * (G + T)) * x[2] = l[1] * (G * x[2] + T * x[2])
    BY <1>8, <1>12, <1>17
  <2>2. G * x[2] + T * x[2] = T * (x[1] + x[2])
    BY <1>8, <1>12, <1>13
  <2>3. l[1] * (T * (x[1] + x[2])) = T * (l[1] * (x[1] + x[2]))
    BY <1>8, <1>12, <1>17
  <2>4. T * ((2 * (x[1] - x[2])) * l[2]) = (2 * (x[1] * T - x[2] * T)) * l[2]
    BY <1>8, <1>12, <1>17
  <2>5. (2 * (G * x[2] - x[2] * T)) * l[2] = ((2 * (G - T)) * l[2]) * x[2]
    BY <1>8, <1>12, <1>17
  <2>6. (l[1] * (G + T)) * x[2] = ((2 * (G - T)) * l[2]) * x[2]
    BY <1>13, <1>15, <2>1, <2>2, <2>3, <2>4, <2>5
  <2>7. l[1] * (G + T) \in Int /\ (2 * (G - T)) * l[2] \in Int /\ x[2] # 0
    BY <1>8, <1>12, <1>17
  <2> QED
    BY <1>12, <2>6, <2>7, Cancel
\* The product, by the gaps.
<1>19. m[1] * (G + T) = (2 * (D * G)) * m[2]
  <2> DEFINE s == G + T
  <2>1. s \in Int
    BY <1>8
  <2>2. l[1] * s = (2 * (D * (g[2] * t[2]))) * l[2]
    BY <1>8, <1>18 DEF s
  <2> HIDE DEF s
  <2>3. (m[1] * s) * (l[2] * g[2]) = (m[1] * (l[2] * g[2])) * s
    BY <1>6, <1>17, <2>1
  <2>4. ((l[1] * g[1]) * m[2]) * s = (g[1] * m[2]) * (l[1] * s)
    BY <1>6, <1>17, <2>1
  <2>5. (g[1] * m[2]) * ((2 * (D * (g[2] * t[2]))) * l[2])
          = ((2 * (D * (g[1] * t[2]))) * m[2]) * (l[2] * g[2])
    BY <1>6, <1>7, <1>17
  <2>6. (m[1] * s) * (l[2] * g[2]) = ((2 * (D * G)) * m[2]) * (l[2] * g[2])
    BY <1>16, <2>2, <2>3, <2>4, <2>5 DEF G
  <2>7. m[1] * s \in Int /\ (2 * (D * G)) * m[2] \in Int
    BY <1>7, <1>8, <1>17, <2>1
  <2>8. l[2] * g[2] \in Int /\ l[2] * g[2] # 0
    BY <1>6, <1>17
  <2>9. m[1] * s = (2 * (D * G)) * m[2]
    BY <2>6, <2>7, <2>8, Cancel
  <2> QED
    BY <2>9 DEF s
<1>20. D * m[2] <= m[1]
  <2>1. (D * m[2]) * (G + T) <= (D * m[2]) * (2 * G)
    <3>1. D * m[2] > 0 /\ D * m[2] \in Int
      BY <1>7, <1>17
    <3> QED
      BY <1>8, <1>10, <3>1
  <2>2. (D * m[2]) * (2 * G) = (2 * (D * G)) * m[2]
    BY <1>7, <1>8, <1>17
  <2>3. (D * m[2]) * (G + T) <= m[1] * (G + T)
    BY <1>19, <2>1, <2>2
  <2>4. D * m[2] \in Int /\ G + T \in Int /\ G + T > 0
    BY <1>7, <1>8, <1>10, <1>17
  <2> QED
    BY <1>17, <2>3, <2>4, Cancel
<1>21. Leq(Whole(D), m)
  <2>1. Whole(D)[1] = D /\ Whole(D)[2] = 1
    BY <1>1, <1>7
  <2> QED
    BY <1>7, <1>17, <1>20, <2>1 DEF Leq
<1> QED
  BY <1>16, <1>21 DEF m, l, x, g, t, D
(***************************************************************************)
(* Types                                                                   *)
(***************************************************************************)

Kinds == [at : Nat, tip : Int, amb : Int]

\* A reading of the probe, up to now.
Reading(r) ==
    r \in Kinds /\ r.at <= now /\ [tip |-> r.tip, amb |-> r.amb] \in Temperatures

\* There is a reading when the Monitor says so.
MonitorInv ==
    /\ running \in BOOLEAN /\ connected \in BOOLEAN /\ hasRead \in BOOLEAN
    /\ target \in Targets /\ meatType \in MeatTypes
    /\ hasRead => history # <<>>

\* The readings on the chart are the probe's, and none is from the future.
ReadingsInv ==
    /\ now \in Nat
    /\ history \in Seq(Kinds) /\ Len(history) <= HistoryLimit
    /\ \A i \in 1 .. Len(history) : Reading(history[i])

\* What is learned is learned from a finished cook.
LearnedInv == \A hc \in histModel : \E c \in PastCooks : Teaches(c.pts) /\ hc = buildHistCook(c)

\* Retain drops the k oldest readings and never the newest.
LEMMA RetainKeeps ==
    ASSUME NEW h \in Seq(Kinds), h # <<>>
    PROVE  /\ Retain(h) \in Seq(Kinds) /\ Retain(h) # <<>>
           /\ Len(Retain(h)) \in Nat /\ Len(Retain(h)) <= HistoryLimit
           /\ \E k \in Nat :
                 /\ Len(Retain(h)) + k = Len(h)
                 /\ \A i \in 1 .. Len(Retain(h)) : Retain(h)[i] = h[i + k]
<1> DEFINE Kept(g, k) ==
               /\ g \in Seq(Kinds) /\ g # <<>> /\ k \in Nat
               /\ Len(g) \in Nat /\ Len(g) <= HistoryLimit /\ Len(g) + k = Len(h)
               /\ \A i \in 1 .. Len(g) : g[i] = h[i + k]
<1>1. Len(h) \in Nat /\ Len(h) > 0 /\ HistoryLimit \in Nat /\ HistoryLimit > 0
  BY UnitsPositive
<1>2. CASE Len(h) > HistoryLimit
  <2> DEFINE k == Len(h) - HistoryLimit
             g == SubSeq(h, k + 1, Len(h))
  <2>1. k \in Nat /\ k + 1 \in Int /\ k + 1 <= Len(h) /\ Len(h) - k = HistoryLimit
    BY <1>1, <1>2
  <2>2. \A i \in k + 1 .. Len(h) : h[i] \in Kinds
    BY <1>1, <2>1
  <2>3. Retain(h) = g
    BY <1>2 DEF Retain
  <2> HIDE DEF k
  <2>4. /\ g \in Seq(Kinds)
        /\ Len(g) = Len(h) - (k + 1) + 1
        /\ \A i \in 1 .. Len(h) - (k + 1) + 1 : g[i] = h[(k + 1) + i - 1]
    BY <1>1, <2>1, <2>2, SubSeqProperties
  <2> HIDE DEF g
  <2>5. Len(g) = HistoryLimit /\ Len(g) + k = Len(h)
    BY <1>1, <2>1, <2>4
  <2>6. \A i \in 1 .. Len(g) : g[i] = h[i + k]
    BY <1>1, <2>1, <2>4
  <2>7. g # <<>>
    BY <1>1, <2>5
  <2>8. Kept(g, k)
    BY <1>1, <2>1, <2>4, <2>5, <2>6, <2>7
  <2> QED
    BY <2>3, <2>8
<1>3. CASE ~(Len(h) > HistoryLimit)
  <2>1. Retain(h) = h
    BY <1>3 DEF Retain
  <2>2. Kept(h, 0)
    BY <1>1, <1>3
  <2> QED
    BY <2>1, <2>2
<1> QED
  BY <1>2, <1>3

\* Every step keeps the monitor typed, and a chart where one has been read.
LEMMA MonitorStep == MonitorInv /\ ReadingsInv /\ [Next]_vars => MonitorInv'
<1> SUFFICES ASSUME MonitorInv, ReadingsInv, [Next]_vars PROVE MonitorInv'
  OBVIOUS
<1> USE DEF MonitorInv, monVars
<1>1. CASE Start \/ NewCook
  BY <1>1 DEF Start, NewCook, FreshCook
<1>2. CASE Stop
  BY <1>2 DEF Stop
<1>8. CASE LoadHistory
  <2>1. UNCHANGED <<running, connected, hasRead, history, now, target, meatType>>
    BY <1>8 DEF LoadHistory
  <2> QED
    BY <2>1
<1>7. CASE UNCHANGED vars
  BY <1>7 DEF vars
<1>3. CASE \E b \in BOOLEAN : SetConnected(b)
  BY <1>3 DEF SetConnected
<1>4. CASE (\E t \in Targets : SetTarget(t)) \/ (\E mt \in MeatTypes : SetMeatType(mt))
  BY <1>4 DEF SetTarget, SetMeatType
<1>5. CASE Elapse
  BY <1>5 DEF Elapse
<1>6. ASSUME NEW r \in Readings, Update(r) PROVE MonitorInv'
  <2>1. <<[r EXCEPT !.at = 0]>> # <<>>
    OBVIOUS
  <2>2. Retain(Append(history, r)) # <<>>
    <3>1. r \in Kinds /\ history \in Seq(Kinds)
      BY ReadingsWhole DEF Readings, Kinds, ReadingsInv
    <3>2. Append(history, r) \in Seq(Kinds) /\ Append(history, r) # <<>>
      BY <3>1
    <3> QED
      BY <3>2, RetainKeeps
  <2> QED
    BY <1>6, <2>1, <2>2 DEF Update
<1> QED
  BY <1>1, <1>2, <1>3, <1>4, <1>5, <1>6, <1>7, <1>8 DEF Next

\* An empty chart is one.
LEMMA NoReadings ==
    /\ <<>> \in Seq(Kinds) /\ Len(<<>>) <= HistoryLimit
    /\ \A i \in 1 .. Len(<<>>) : FALSE
  BY UnitsPositive

\* Every step keeps the model made of finished cooks: LoadHistory replaces all of it.
LEMMA LearnedStep == LearnedInv /\ [Next]_vars => LearnedInv'
<1> SUFFICES ASSUME LearnedInv, [Next]_vars PROVE LearnedInv'
  OBVIOUS
<1>1. CASE LoadHistory
  <2>1. PICK S \in SUBSET PastCooks : histModel' = {Taught[c] : c \in S \cap DOMAIN Taught}
    BY <1>1 DEF LoadHistory
  <2>2. ASSUME NEW c \in DOMAIN Taught
        PROVE  c \in PastCooks /\ Teaches(c.pts) /\ Taught[c] = buildHistCook(c)
    BY DEF Taught
  <2> QED
    BY <2>1, <2>2 DEF LearnedInv
<1>2. CASE ~LoadHistory
  <2>1. histModel' = histModel
    BY <1>2 DEF Next, Start, Stop, NewCook, Elapse, SetConnected, Update, SetTarget, SetMeatType,
                vars
  <2> QED
    BY <2>1 DEF LearnedInv
<1> QED
  BY <1>1, <1>2

\* Every step keeps the readings of the chart probe readings, none from the future.
LEMMA ReadingsStep == ReadingsInv /\ [Next]_vars => ReadingsInv'
<1> SUFFICES ASSUME ReadingsInv, [Next]_vars PROVE ReadingsInv'
  OBVIOUS
<1> USE DEF ReadingsInv
<1>1. CASE Start \/ NewCook
  <2>1. history' = <<>> /\ now' = 0
    BY <1>1 DEF Start, NewCook, FreshCook
  <2> QED
    BY <2>1, NoReadings
<1>2. CASE UNCHANGED <<history, now>>
  BY <1>2 DEF Reading
<1>3. CASE Elapse
  <2>1. now' = now + 1 /\ history' = history
    BY <1>3 DEF Elapse
  <2>2. \A r : Reading(r) => Reading(r)'
    BY <2>1 DEF Reading, Kinds
  <2> QED
    BY <2>1, <2>2
<1>4. ASSUME NEW r \in Readings, Update(r) PROVE ReadingsInv'
  <2>1. Reading(r)
    BY ReadingsWhole DEF Readings, Reading, Kinds
  <2>2. CASE history' = Retain(Append(history, r)) /\ UNCHANGED now
    <3> DEFINE a == Append(history, r)
    <3>1. /\ a \in Seq(Kinds) /\ a # <<>> /\ Len(a) = Len(history) + 1
          /\ \A i \in 1 .. Len(history) : a[i] = history[i]
          /\ a[Len(history) + 1] = r
      BY <2>1 DEF Reading
    <3>2. \A i \in 1 .. Len(a) : Reading(a[i])
      BY <2>1, <3>1
    <3> HIDE DEF a
    <3>3. /\ history' \in Seq(Kinds) /\ Len(history') \in Nat /\ Len(history') <= HistoryLimit
          /\ \E k \in Nat :
                /\ Len(history') + k = Len(a)
                /\ \A i \in 1 .. Len(history') : history'[i] = a[i + k]
      BY <2>2, <3>1, RetainKeeps DEF a
    <3>4. \A i \in 1 .. Len(history') : Reading(history'[i])
      BY <3>2, <3>3
    <3> QED
      BY <2>2, <3>3, <3>4 DEF Reading
  <2>3. CASE history' = <<[r EXCEPT !.at = 0]>> /\ now' = 0
    <3> DEFINE s == [r EXCEPT !.at = 0]
    <3>1. s \in Kinds /\ s.at = 0 /\ s.tip = r.tip /\ s.amb = r.amb
      BY <2>1 DEF Reading, Kinds
    <3> HIDE DEF s
    <3>2. history' = <<s>>
      BY <2>3 DEF s
    <3>3. s.at <= now' /\ [tip |-> s.tip, amb |-> s.amb] \in Temperatures
      BY <2>1, <2>3, <3>1 DEF Reading
    <3>4. history' \in Seq(Kinds) /\ Len(history') = 1
      BY <3>1, <3>2
    <3>5. \A i \in 1 .. Len(history') : history'[i] = s
      BY <3>2, <3>4
    <3>6. Len(history') <= HistoryLimit /\ now' \in Nat
      BY <2>3, <3>4, UnitsPositive
    <3> QED
      BY <3>1, <3>3, <3>4, <3>5, <3>6 DEF Reading
  <2> QED
    BY <1>4, <2>2, <2>3 DEF Update
<1> QED
  BY <1>1, <1>2, <1>3, <1>4
  DEF Next, Stop, LoadHistory, SetConnected, SetTarget, SetMeatType, vars

\* The readings of a cook are in order of time up to now, whatever requests come
\* between them, and what is learned comes from the finished cooks.
THEOREM TypeCorrect == Spec => []TypeOK
<1>1. Init => MonitorInv /\ LearnedInv
  BY NoMeatIsLabel DEF Init, MonitorInv, LearnedInv
<1>2. Init => ReadingsInv
  BY NoReadings DEF Init, ReadingsInv
<1>3. MonitorInv /\ ReadingsInv /\ LearnedInv => TypeOK
  <2> SUFFICES ASSUME MonitorInv, ReadingsInv, LearnedInv PROVE TypeOK
    OBVIOUS
  <2>1. ASSUME NEW i \in DOMAIN history
        PROVE  /\ history[i].at \in 0 .. now
               /\ [tip |-> history[i].tip, amb |-> history[i].amb] \in Temperatures
    <3>1. i \in 1 .. Len(history)
      BY DEF ReadingsInv
    <3>2. Reading(history[i])
      BY <3>1 DEF ReadingsInv
    <3> QED
      BY <3>2 DEF Reading, Kinds, ReadingsInv
  <2>2. ASSUME NEW hc \in histModel PROVE hc.id \in {c.id : c \in PastCooks}
    <3>1. PICK c \in PastCooks : hc = buildHistCook(c)
      BY DEF LearnedInv
    <3>2. hc.id = c.id
      BY <3>1 DEF buildHistCook
    <3> QED
      BY <3>2
  <2>3. {hc.id : hc \in histModel} \subseteq {c.id : c \in PastCooks}
    BY <2>2
  <2>4. now \in Nat /\ Len(history) <= HistoryLimit
    BY DEF ReadingsInv
  <2> QED
    BY <2>1, <2>3, <2>4 DEF TypeOK, MonitorInv
<1> QED
  BY <1>1, <1>2, <1>3, MonitorStep, ReadingsStep, LearnedStep, PTL DEF Spec
(***************************************************************************)
(* The rate and the chamber                                                *)
(***************************************************************************)

\* What a reading is made of.
LEMMA FieldsAreWhole ==
    ASSUME NEW h \in Seq(Kinds), NEW i \in 1 .. Len(h)
    PROVE  h[i].at \in Int /\ h[i].tip \in Int /\ h[i].amb \in Int
<1>1. h[i] \in Kinds
  OBVIOUS
<1> QED
  BY <1>1 DEF Kinds

\* What the latest reading is made of.
LEMMA LatestIsWhole ==
    ASSUME NEW h \in Seq(Kinds), h # <<>>
    PROVE  Last(h).at \in Int /\ Last(h).tip \in Int /\ Last(h).amb \in Int
<1>1. Len(h) \in 1 .. Len(h)
  OBVIOUS
<1> QED
  BY <1>1, FieldsAreWhole DEF Last

\* A window holds finitely many readings of the cook.
LEMMA WindowFinite ==
    ASSUME NEW h \in Seq(Kinds), NEW t \in Int, NEW window \in Nat
    PROVE  LET W == InWindow(h, t, window) IN
           /\ W \subseteq 1 .. Len(h) /\ IsFiniteSet(W) /\ Cardinality(W) \in Nat
           /\ \A i \in W : h[i].at \in Int /\ h[i].tip \in Int /\ h[i].amb \in Int
<1> DEFINE W == InWindow(h, t, window)
<1>1. W \subseteq 1 .. Len(h)
  BY DEF InWindow
<1>2. IsFiniteSet(1 .. Len(h))
  BY FS_Interval
<1>3. IsFiniteSet(W) /\ Cardinality(W) \in Nat
  BY <1>1, <1>2, FS_Subset, FS_CardinalityType
<1>4. \A i \in 1 .. Len(h) : h[i].at \in Int /\ h[i].tip \in Int /\ h[i].amb \in Int
  BY FieldsAreWhole
<1> QED
  BY <1>1, <1>3, <1>4

\* The sums that a fit is made of.
LEMMA FitSums ==
    ASSUME NEW h \in Seq(Kinds), NEW t \in Int, NEW window \in Nat
    PROVE  LET W == InWindow(h, t, window) IN
           /\ [i \in W |-> h[i].at - t] \in [W -> Int]
           /\ [i \in W |-> h[i].tip] \in [W -> Int]
           /\ [i \in W |-> (h[i].at - t) * h[i].tip] \in [W -> Int]
           /\ [i \in W |-> (h[i].at - t) * (h[i].at - t)] \in [W -> Int]
           /\ SumFunction([i \in W |-> h[i].at - t]) \in Int
           /\ SumFunction([i \in W |-> h[i].tip]) \in Int
           /\ SumFunction([i \in W |-> (h[i].at - t) * h[i].tip]) \in Int
           /\ SumFunction([i \in W |-> (h[i].at - t) * (h[i].at - t)]) \in Int
<1> DEFINE W == InWindow(h, t, window)
<1>1. /\ IsFiniteSet(W)
      /\ \A i \in W : h[i].at \in Int /\ h[i].tip \in Int /\ h[i].amb \in Int
  BY WindowFinite
<1> HIDE DEF W
<1>2. /\ [i \in W |-> h[i].at - t] \in [W -> Int]
      /\ [i \in W |-> h[i].tip] \in [W -> Int]
      /\ [i \in W |-> (h[i].at - t) * h[i].tip] \in [W -> Int]
      /\ [i \in W |-> (h[i].at - t) * (h[i].at - t)] \in [W -> Int]
  BY <1>1
<1>3. \A f \in [W -> Int] : SumFunction(f) \in Int
  BY <1>1, SumIsInteger
<1> QED
  BY <1>2, <1>3 DEF W

\* A rate, where there is one, is a rational number.
LEMMA SlopeInQ ==
    ASSUME NEW h \in Seq(Kinds), NEW t \in Int, NEW window \in Nat, HasRate(h, t, window)
    PROVE  Slope(h, t, window) \in Q
<1> DEFINE W == InWindow(h, t, window)
           sumX == SumFunction([i \in W |-> h[i].at - t])
           sumY == SumFunction([i \in W |-> h[i].tip])
           sumXY == SumFunction([i \in W |-> (h[i].at - t) * h[i].tip])
           sumXX == SumFunction([i \in W |-> (h[i].at - t) * (h[i].at - t)])
           n == Cardinality(W)
<1>1. sumX \in Int /\ sumY \in Int /\ sumXY \in Int /\ sumXX \in Int
  BY FitSums
<1>2. n \in Nat
  BY WindowFinite
<1>3. Spread(h, t, window) = n * sumXX - sumX * sumX
  BY DEF Spread
<1>4. Slope(h, t, window) = Ratio(n * sumXY - sumX * sumY, Spread(h, t, window))
  BY DEF Slope
<1> HIDE DEF sumX, sumY, sumXY, sumXX, n
<1>5. Spread(h, t, window) \in Int /\ n * sumXY - sumX * sumY \in Int
  BY <1>1, <1>2, <1>3
<1>6. Spread(h, t, window) # 0
  BY DEF HasRate
<1> QED
  BY <1>4, <1>5, <1>6, RatioValue

\* The average of the chamber is a rational number.
LEMMA AmbientInQ ==
    ASSUME NEW h \in Seq(Kinds), h # <<>>, NEW t \in Int, NEW window \in Nat
    PROVE  ambientAvg(h, t, window) \in Q
<1> DEFINE W == InWindow(h, t, window)
<1>1. /\ IsFiniteSet(W) /\ Cardinality(W) \in Nat
      /\ \A i \in W : h[i].amb \in Int
  BY WindowFinite
<1>2. CASE W = {}
  <2>1. Last(h).amb \in Int
    BY LatestIsWhole
  <2> QED
    BY <1>2, <2>1, WholeInQ DEF ambientAvg
<1>3. CASE W # {}
  <2>1. Cardinality(W) # 0
    BY <1>1, <1>3, FS_EmptySet
  <2>2. SumFunction([i \in W |-> h[i].amb]) \in Int
    <3> HIDE DEF W
    <3> QED
      BY <1>1, SumIsInteger
  <2> QED
    BY <1>1, <1>3, <2>1, <2>2, RatioValue DEF ambientAvg
<1> QED
  BY <1>2, <1>3

\* Division by a positive number keeps the order.
LEMMA DivideInOrder ==
    ASSUME NEW a \in Q, NEW b \in Q, NEW r \in Q, r[1] > 0, Leq(a, b)
    PROVE  Div(a, r) \in Q /\ Div(b, r) \in Q /\ Leq(Div(a, r), Div(b, r))
<1> DEFINE q == Div(b, r)
<1>1. /\ a[1] \in Int /\ a[2] \in Int /\ a[2] > 0
      /\ b[1] \in Int /\ b[2] \in Int /\ b[2] > 0
      /\ r[1] \in Int /\ r[2] \in Int /\ r[2] > 0
  BY Parts
<1>2. Div(a, r) \in Q /\ q \in Q /\ q[1] * (b[2] * r[1]) = (b[1] * r[2]) * q[2]
  BY <1>1, Operations
<1> HIDE DEF q
<1>3. q[1] \in Int /\ q[2] \in Int /\ q[2] > 0
  BY <1>2, Parts
<1>4. a[1] * r[2] \in Int /\ a[2] * r[1] \in Int /\ a[2] * r[1] > 0
  BY <1>1
<1>5. (a[1] * r[2]) * q[2] <= q[1] * (a[2] * r[1])
  <2>1. a[1] * b[2] <= b[1] * a[2]
    BY DEF Leq
  <2>2. ((a[1] * r[2]) * q[2]) * b[2] = (a[1] * b[2]) * (r[2] * q[2])
    BY <1>1, <1>3
  <2>3. (a[1] * b[2]) * (r[2] * q[2]) <= (b[1] * a[2]) * (r[2] * q[2])
    <3>1. r[2] * q[2] \in Int /\ r[2] * q[2] > 0 /\ a[1] * b[2] \in Int /\ b[1] * a[2] \in Int
      BY <1>1, <1>3
    <3> QED
      BY <2>1, <3>1, Cancel
  <2>4. (b[1] * a[2]) * (r[2] * q[2]) = ((b[1] * r[2]) * q[2]) * a[2]
    BY <1>1, <1>3
  <2>5. (q[1] * (b[2] * r[1])) * a[2] = (q[1] * (a[2] * r[1])) * b[2]
    BY <1>1, <1>3
  <2>6. ((a[1] * r[2]) * q[2]) * b[2] <= (q[1] * (a[2] * r[1])) * b[2]
    BY <1>2, <2>2, <2>3, <2>4, <2>5
  <2>7. (a[1] * r[2]) * q[2] \in Int /\ q[1] * (a[2] * r[1]) \in Int
    BY <1>1, <1>3
  <2> QED
    BY <1>1, <2>6, <2>7, Cancel
<1>6. Leq(Ratio(a[1] * r[2], a[2] * r[1]), q)
  BY <1>2, <1>4, <1>5, RatioCompares
<1> QED
  BY <1>2, <1>6 DEF Div, q

\* So is the plateau rate, and it is not negative.
LEMMA StallRateInQ == StallRate \in Q /\ StallRate[1] >= 0
<1>1. StallRate \in Int \X (Nat \ {0}) /\ Ratio(StallRate[1], StallRate[2]) = StallRate
  BY RatesRational DEF IsRational
<1>2. StallRate \in Q
  BY <1>1, RatioValue
<1>3. ~(StallRate[1] < 0)
  BY RatesRational DEF Negative
<1> QED
  BY <1>1, <1>2, <1>3

\* What is above a rate that is not negative is positive.
LEMMA AboveIsPositive ==
    ASSUME NEW a \in Q, NEW b \in Q, a[1] >= 0, Lt(a, b)
    PROVE  b[1] > 0
<1>1. /\ a[1] \in Int /\ a[2] \in Int /\ a[2] > 0
      /\ b[1] \in Int /\ b[2] \in Int /\ b[2] > 0
  BY Parts
<1>2. a[1] * b[2] < b[1] * a[2]
  BY DEF Lt
<1>3. a[1] * b[2] >= 0
  BY <1>1
<1>4. 0 * a[2] < b[1] * a[2]
  BY <1>1, <1>2, <1>3
<1> QED
  BY <1>1, <1>4, Cancel

\* The physics estimate, where there is one, is a number, and not less than the time
\* it takes at the smoothed rate.
LEMMA PhysicsBound ==
    ASSUME MonitorInv, ReadingsInv, hasRead, Tip < target, Physics # Unknown
    PROVE  LET line == Div(Whole(target - Tip), Slope(history, now, EtaRateWindow))
           IN  /\ Physics \in Q /\ line \in Q /\ line[1] > 0
               /\ Leq(line, Physics)
<1> DEFINE rate == Slope(history, now, EtaRateWindow)
           C == Chamber
           D == Whole(target - Tip)
           line == Div(D, rate)
           m == Mul(Ln(Div(Sub(C, Whole(Tip)), Sub(C, Whole(target)))), Sub(C, Whole(Tip)))
<1>1. history \in Seq(Kinds) /\ history # <<>> /\ now \in Int
  BY DEF MonitorInv, ReadingsInv
<1>2. Tip \in Int /\ target \in Int
  <2>1. Tip \in Int
    BY <1>1, LatestIsWhole DEF Tip
  <2> QED
    BY <2>1, ReadingsWhole DEF MonitorInv
<1>3. HasRate(history, now, EtaRateWindow) /\ Lt(StallRate, rate)
  BY DEF Physics
<1>4. Physics = etaSeconds(Tip, target, C, rate)
  BY <1>3 DEF Physics
<1>5. rate \in Q
  BY <1>1, <1>3, WindowsPositive, SlopeInQ
<1>6. C \in Q
  BY <1>1, WindowsPositive, AmbientInQ DEF Chamber
<1> HIDE DEF rate, C
<1>7. rate[1] > 0
  BY <1>3, <1>5, StallRateInQ, AboveIsPositive
<1>8. D \in Q /\ D[1] > 0 /\ Leq(D, D)
  <2>1. target - Tip \in Int /\ target - Tip > 0
    BY <1>2
  <2>2. D \in Q
    BY <2>1, WholeInQ
  <2> QED
    BY <2>1, <2>2, OrderOfQ DEF Whole
<1> HIDE DEF D
<1>9. line \in Q /\ line[1] > 0 /\ Leq(line, line)
  <2>1. line \in Q /\ line[1] * (D[2] * rate[1]) = (D[1] * rate[2]) * line[2]
    BY <1>5, <1>7, <1>8, Operations
  <2> HIDE DEF line
  <2>2. /\ D[1] \in Int /\ D[2] \in Int /\ D[2] > 0
        /\ rate[1] \in Int /\ rate[2] \in Int /\ rate[2] > 0
        /\ line[1] \in Int /\ line[2] \in Int /\ line[2] > 0
    BY <1>5, <1>8, <2>1, Parts
  <2>3. D[2] * rate[1] > 0 /\ D[2] * rate[1] \in Int
    BY <1>7, <2>2
  <2>4. (D[1] * rate[2]) * line[2] > 0
    BY <1>8, <2>2
  <2>5. 0 * (D[2] * rate[1]) < line[1] * (D[2] * rate[1])
    BY <2>1, <2>3, <2>4
  <2>6. line[1] > 0
    BY <2>2, <2>3, <2>5, Cancel
  <2> QED
    BY <2>1, <2>6, OrderOfQ
<1>10. CASE Leq(Whole(Degree), Sub(C, Whole(target)))
  <2>1. m \in Q /\ Leq(D, m)
    BY <1>2, <1>6, <1>10, UnitsPositive, NewtonBound DEF D
  <2>2. Physics = Div(m, rate)
    <3> HIDE DEF m, Physics
    <3>1. etaSeconds(Tip, target, C, rate) \in {Div(m, rate), Unknown}
      BY <1>10 DEF etaSeconds, m
    <3> QED
      BY <1>4, <3>1
  <2> HIDE DEF m
  <2>3. Div(m, rate) \in Q /\ Leq(line, Div(m, rate))
    BY <1>5, <1>7, <1>8, <2>1, DivideInOrder
  <2> QED
    BY <1>9, <2>2, <2>3 DEF line, D, rate
<1>11. CASE ~Leq(Whole(Degree), Sub(C, Whole(target)))
  <2>1. Physics = line
    BY <1>4, <1>11 DEF etaSeconds, line, D
  <2> QED
    BY <1>9, <2>1 DEF line, D, rate
<1> QED
  BY <1>10, <1>11

\* "The estimate is always longer than the linear one" (monitor.go:747): whatever the
\* readings of the cook, the chamber and the target, an estimate from physics never
\* promises an earlier end than a straight line at the smoothed rate.
THEOREM PhysicsIsLonger == Spec => []NewtonIsLonger
<1>1. Init => MonitorInv
  BY NoMeatIsLabel DEF Init, MonitorInv
<1>2. Init => ReadingsInv
  BY NoReadings DEF Init, ReadingsInv
<1>3. MonitorInv /\ ReadingsInv => NewtonIsLonger
  BY PhysicsBound DEF NewtonIsLonger
<1> QED
  BY <1>1, <1>2, <1>3, MonitorStep, ReadingsStep, PTL DEF Spec

-----------------------------------------------------------------------------
(***************************************************************************)
(* The fit                                                                 *)
(***************************************************************************)

\* What the fit weighs: the products of the deviations of two figures, scaled.
Covariance(W, x, z) ==
    Cardinality(W) * SumFunction([i \in W |-> x[i] * z[i]]) - SumFunction(x) * SumFunction(z)

\* The differences between one reading and all of them, summed.
LEMMA SumOfDifferences ==
    ASSUME NEW W, IsFiniteSet(W), NEW x \in [W -> Int], NEW z \in [W -> Int], NEW i \in W
    PROVE  SumFunction([j \in W |-> (x[i] - x[j]) * (z[i] - z[j])])
              = (Cardinality(W) * (x[i] * z[i]) + SumFunction([j \in W |-> x[j] * z[j]]))
                + ((- SumFunction(z)) * x[i] + (- SumFunction(x)) * z[i])
<1> DEFINE u == x[i]
           v == z[i]
           n == Cardinality(W)
           p == [j \in W |-> x[j] * z[j]]
           k == [j \in W |-> u * v]
           s == [j \in W |-> u * v + x[j] * z[j]]
           d == [j \in W |-> (-u) * z[j] + (-v) * x[j]]
           b == [j \in W |-> (u - x[j]) * (v - z[j])]
<1>1. u \in Int /\ v \in Int /\ u * v \in Int
  OBVIOUS
<1> HIDE DEF u, v
<1>2. n \in Nat
  BY FS_CardinalityType
<1> HIDE DEF n
<1>3. /\ p \in [W -> Int] /\ k \in [W -> Int] /\ s \in [W -> Int]
      /\ d \in [W -> Int] /\ b \in [W -> Int]
  BY <1>1
<1>4. \A j \in W : k[j] = u * v /\ s[j] = 1 * k[j] + 1 * p[j]
  BY <1>1
<1>5. \A j \in W : d[j] = (-u) * z[j] + (-v) * x[j]
  OBVIOUS
<1>6. \A j \in W : b[j] = 1 * s[j] + 1 * d[j]
  <2>1. \A e, f \in Int : (u - e) * (v - f) = 1 * (u * v + e * f) + 1 * ((-u) * f + (-v) * e)
    BY <1>1
  <2> QED
    BY <2>1
<1> HIDE DEF p, k, s, d, b
<1>7. SumFunction(k) = (u * v) * n
  BY <1>1, <1>3, <1>4, SumOfConstant DEF n
<1>8. SumFunction(s) = 1 * SumFunction(k) + 1 * SumFunction(p)
  <2>1. Combines(W, s, 1, k, 1, p)
    BY <1>3, <1>4 DEF Combines
  <2> QED
    BY <2>1, SumIsLinear
<1>9. SumFunction(d) = (-u) * SumFunction(z) + (-v) * SumFunction(x)
  <2>1. Combines(W, d, -u, z, -v, x)
    BY <1>1, <1>3, <1>5 DEF Combines
  <2> QED
    BY <2>1, SumIsLinear
<1>10. SumFunction(b) = 1 * SumFunction(s) + 1 * SumFunction(d)
  <2>1. Combines(W, b, 1, s, 1, d)
    BY <1>3, <1>6 DEF Combines
  <2> QED
    BY <2>1, SumIsLinear
<1>11. /\ SumFunction(p) \in Int /\ SumFunction(z) \in Int /\ SumFunction(x) \in Int
  BY <1>3, SumIsInteger
<1>12. SumFunction(b) = (n * (u * v) + SumFunction(p))
                        + ((- SumFunction(z)) * u + (- SumFunction(x)) * v)
  BY <1>1, <1>2, <1>7, <1>8, <1>9, <1>10, <1>11
<1> QED
  BY <1>12 DEF u, v, n, p, b

\* Figures that move together have a covariance that is not negative, and positive
\* when some do move.
LEMMA MovingTogether ==
    ASSUME NEW W, IsFiniteSet(W), NEW x \in [W -> Int], NEW z \in [W -> Int],
           \A i, j \in W : (x[i] - x[j]) * (z[i] - z[j]) >= 0
    PROVE  /\ Covariance(W, x, z) \in Int /\ Covariance(W, x, z) >= 0
           /\ (\E i, j \in W : (x[i] - x[j]) * (z[i] - z[j]) > 0) => Covariance(W, x, z) > 0
<1> DEFINE n == Cardinality(W)
           X == SumFunction(x)
           Z == SumFunction(z)
           p == [j \in W |-> x[j] * z[j]]
           P == SumFunction(p)
           b(i) == [j \in W |-> (x[i] - x[j]) * (z[i] - z[j])]
           a == [i \in W |-> SumFunction(b(i))]
           k == [i \in W |-> P]
           s == [i \in W |-> n * p[i] + 1 * k[i]]
           d == [i \in W |-> (-Z) * x[i] + (-X) * z[i]]
<1>1. n \in Nat
  BY FS_CardinalityType
<1>2. p \in [W -> Int]
  OBVIOUS
<1>3. X \in Int /\ Z \in Int /\ P \in Int
  <2> HIDE DEF p
  <2> QED
    BY <1>2, SumIsInteger
<1>4. \A i \in W : b(i) \in [W -> Int]
  OBVIOUS
<1>5. \A i \in W : /\ a[i] \in Int /\ a[i] >= 0
                   /\ (\E j \in W : (x[i] - x[j]) * (z[i] - z[j]) > 0) => a[i] > 0
  <2> SUFFICES ASSUME NEW i \in W
               PROVE  /\ a[i] \in Int /\ a[i] >= 0
                      /\ (\E j \in W : (x[i] - x[j]) * (z[i] - z[j]) > 0) => a[i] > 0
    OBVIOUS
  <2> DEFINE c == b(i)
  <2>1. a[i] = SumFunction(c) /\ c \in [W -> Int]
    BY <1>4
  <2>2. \A j \in W : c[j] = (x[i] - x[j]) * (z[i] - z[j])
    OBVIOUS
  <2> HIDE DEF a, c
  <2>3. \A j \in W : c[j] >= 0
    BY <2>2
  <2>4. SumFunction(c) \in Int
    BY <2>1, SumIsInteger
  <2>5. SumFunction(c) >= 0 /\ ((\E j \in W : c[j] > 0) => SumFunction(c) > 0)
    BY <2>1, <2>3, SumIsPositive
  <2> QED
    BY <2>1, <2>2, <2>4, <2>5
<1>6. \A i \in W : a[i] = 1 * s[i] + 1 * d[i]
  <2> SUFFICES ASSUME NEW i \in W PROVE a[i] = 1 * s[i] + 1 * d[i]
    OBVIOUS
  <2>1. a[i] = (n * (x[i] * z[i]) + P) + ((-Z) * x[i] + (-X) * z[i])
    BY SumOfDifferences
  <2>2. s[i] = n * (x[i] * z[i]) + 1 * P /\ d[i] = (-Z) * x[i] + (-X) * z[i]
    OBVIOUS
  <2>3. x[i] \in Int /\ z[i] \in Int
    OBVIOUS
  <2> HIDE DEF a, s, d, n, P, X, Z
  <2>4. /\ n * (x[i] * z[i]) \in Int
        /\ (-Z) * x[i] \in Int /\ (-X) * z[i] \in Int
    BY <1>1, <1>3, <2>3
  <2> QED
    BY <1>3, <2>1, <2>2, <2>4
<1>7. a \in [W -> Int]
  <2>1. a = [i \in W |-> a[i]]
    OBVIOUS
  <2> HIDE DEF a
  <2> QED
    BY <1>5, <2>1
<1>8. k \in [W -> Int] /\ (\A i \in W : k[i] = P)
  BY <1>3
<1>9. s \in [W -> Int] /\ (\A i \in W : s[i] = n * p[i] + 1 * k[i])
  <2> HIDE DEF p, k, n
  <2> QED
    BY <1>1, <1>2, <1>8
<1>10. d \in [W -> Int] /\ (\A i \in W : d[i] = (-Z) * x[i] + (-X) * z[i])
  <2> HIDE DEF X, Z
  <2> QED
    BY <1>3
<1>11. Covariance(W, x, z) = n * P - X * Z
  BY DEF Covariance
<1> HIDE DEF n, X, Z, p, P, a, k, s, d
<1>12. SumFunction(k) = P * n
  BY <1>3, <1>8, SumOfConstant DEF n
<1>13. SumFunction(s) = n * P + 1 * SumFunction(k)
  <2>1. Combines(W, s, n, p, 1, k)
    BY <1>1, <1>2, <1>8, <1>9 DEF Combines
  <2> QED
    BY <2>1, SumIsLinear DEF P
<1>14. SumFunction(d) = (-Z) * X + (-X) * Z
  <2>1. Combines(W, d, -Z, x, -X, z)
    BY <1>3, <1>10 DEF Combines
  <2> QED
    BY <2>1, SumIsLinear DEF X, Z
<1>15. SumFunction(a) = 1 * SumFunction(s) + 1 * SumFunction(d)
  <2>1. Combines(W, a, 1, s, 1, d)
    BY <1>6, <1>7, <1>9, <1>10 DEF Combines
  <2> QED
    BY <2>1, SumIsLinear
<1>16. SumFunction(a) = 2 * (n * P - X * Z)
  BY <1>1, <1>3, <1>12, <1>13, <1>14, <1>15
<1>17. SumFunction(a) >= 0 /\ ((\E i \in W : a[i] > 0) => SumFunction(a) > 0)
  BY <1>5, <1>7, SumIsPositive
<1>18. n * P - X * Z \in Int
  BY <1>1, <1>3
<1> QED
  BY <1>5, <1>11, <1>16, <1>17, <1>18

\* The covariance is linear in what is fitted.
LEMMA CovarianceIsLinear ==
    ASSUME NEW W, IsFiniteSet(W), NEW x \in [W -> Int], NEW y, NEW z, NEW a, NEW b,
           Combines(W, z, a, y, b, x)
    PROVE  /\ Covariance(W, x, x) \in Int /\ Covariance(W, x, y) \in Int
           /\ Covariance(W, x, z) = a * Covariance(W, x, y) + b * Covariance(W, x, x)
<1> DEFINE n == Cardinality(W)
           xx == [i \in W |-> x[i] * x[i]]
           xy == [i \in W |-> x[i] * y[i]]
           xz == [i \in W |-> x[i] * z[i]]
<1>1. y \in [W -> Int] /\ z \in [W -> Int] /\ a \in Int /\ b \in Int
  BY DEF Combines
<1>2. n \in Nat
  BY FS_CardinalityType
<1>3. xx \in [W -> Int] /\ xy \in [W -> Int] /\ xz \in [W -> Int]
  BY <1>1
<1>4. Combines(W, xz, a, xy, b, xx)
  <2>1. ASSUME NEW i \in W PROVE xz[i] = a * xy[i] + b * xx[i]
    <3>1. z[i] = a * y[i] + b * x[i] /\ x[i] \in Int /\ y[i] \in Int
      BY <1>1 DEF Combines
    <3>2. xz[i] = x[i] * z[i] /\ xy[i] = x[i] * y[i] /\ xx[i] = x[i] * x[i]
      OBVIOUS
    <3>3. x[i] * (a * y[i] + b * x[i]) = a * (x[i] * y[i]) + b * (x[i] * x[i])
      BY <1>1, <3>1
    <3> QED
      BY <3>1, <3>2, <3>3
  <2> HIDE DEF xx, xy, xz
  <2> QED
    BY <1>1, <1>3, <2>1 DEF Combines
<1>5. /\ Covariance(W, x, x) = n * SumFunction(xx) - SumFunction(x) * SumFunction(x)
      /\ Covariance(W, x, y) = n * SumFunction(xy) - SumFunction(x) * SumFunction(y)
      /\ Covariance(W, x, z) = n * SumFunction(xz) - SumFunction(x) * SumFunction(z)
  BY DEF Covariance
<1> HIDE DEF n, xx, xy, xz
<1>6. /\ SumFunction(xx) \in Int /\ SumFunction(xy) \in Int
      /\ SumFunction(x) \in Int /\ SumFunction(y) \in Int
  BY <1>1, <1>3, SumIsInteger
<1>7. SumFunction(xz) = a * SumFunction(xy) + b * SumFunction(xx)
  BY <1>4, SumIsLinear
<1>8. SumFunction(z) = a * SumFunction(y) + b * SumFunction(x)
  BY SumIsLinear
<1> DEFINE A == SumFunction(xy)
           B == SumFunction(xx)
           X == SumFunction(x)
           Y == SumFunction(y)
<1>9. n * (a * A + b * B) - X * (a * Y + b * X) = a * (n * A - X * Y) + b * (n * B - X * X)
  <2>1. A \in Int /\ B \in Int /\ X \in Int /\ Y \in Int
    BY <1>6
  <2> HIDE DEF A, B, X, Y
  <2> QED
    BY <1>1, <1>2, <2>1
<1>10. n * B - X * X \in Int /\ n * A - X * Y \in Int
  <2>1. A \in Int /\ B \in Int /\ X \in Int /\ Y \in Int
    BY <1>6
  <2> HIDE DEF A, B, X, Y
  <2> QED
    BY <1>2, <2>1
<1> QED
  BY <1>5, <1>7, <1>8, <1>9, <1>10

\* Readings taken at two times or more have a positive spread.
LEMMA SpreadIsPositive ==
    ASSUME NEW W, IsFiniteSet(W), NEW x \in [W -> Int], Covariance(W, x, x) # 0
    PROVE  Covariance(W, x, x) > 0 /\ \E i, j \in W : x[i] < x[j]
<1>1. \A i, j \in W : x[i] \in Int /\ x[j] \in Int /\ (x[i] - x[j]) * (x[i] - x[j]) >= 0
  <2>1. \A u, v \in Int : (u - v) * (u - v) >= 0
    <3>1. \A e \in Int : e * e >= 0
      OBVIOUS
    <3> QED
      BY <3>1
  <2> QED
    BY <2>1
<1>2. Covariance(W, x, x) \in Int /\ Covariance(W, x, x) >= 0
  BY <1>1, MovingTogether
<1>3. ASSUME ~ \E i, j \in W : x[i] < x[j] PROVE FALSE
  <2> DEFINE z == [i \in W |-> (-1) * x[i] + 0 * x[i]]
  <2>1. z \in [W -> Int] /\ \A i \in W : z[i] = (-1) * x[i] + 0 * x[i]
    OBVIOUS
  <2> HIDE DEF z
  <2>2. Combines(W, z, -1, x, 0, x)
    BY <2>1 DEF Combines
  <2>3. Covariance(W, x, z) = (-1) * Covariance(W, x, x) + 0 * Covariance(W, x, x)
    BY <2>2, CovarianceIsLinear
  <2>4. \A i, j \in W : (x[i] - x[j]) * (z[i] - z[j]) >= 0
    <3> SUFFICES ASSUME NEW i \in W, NEW j \in W PROVE (x[i] - x[j]) * (z[i] - z[j]) >= 0
      OBVIOUS
    <3>1. x[i] - x[j] = 0 /\ z[i] - z[j] \in Int
      BY <1>1, <1>3, <2>1
    <3> QED
      BY <3>1
  <2>5. Covariance(W, x, z) >= 0
    BY <2>1, <2>4, MovingTogether
  <2> QED
    BY <1>2, <2>3, <2>5
<1> QED
  BY <1>2, <1>3

\* The slope is not beyond those of all the pairs, on either side.
LEMMA NotBeyondPairs ==
    ASSUME NEW W, IsFiniteSet(W), NEW x \in [W -> Int], NEW y \in [W -> Int],
           NEW N, N = Covariance(W, x, y), NEW D, D = Covariance(W, x, x), D # 0,
           NEW g \in {1, -1}
    PROVE  \E i, j \in W : x[i] < x[j] /\ g * ((y[j] - y[i]) * D - N * (x[j] - x[i])) <= 0
<1> SUFFICES ASSUME \A i, j \in W : x[i] < x[j] =>
                       ~(g * ((y[j] - y[i]) * D - N * (x[j] - x[i])) <= 0)
             PROVE  FALSE
  OBVIOUS
<1> DEFINE z == [i \in W |-> (g * D) * y[i] + (-(g * N)) * x[i]]
<1>1. D \in Int /\ N \in Int
  <2>1. Combines(W, y, 1, y, 0, x)
    BY DEF Combines
  <2> QED
    BY <2>1, CovarianceIsLinear
<1>2. g * D \in Int /\ -(g * N) \in Int
  BY <1>1
<1>3. z \in [W -> Int] /\ \A i \in W : z[i] = (g * D) * y[i] + (-(g * N)) * x[i]
  BY <1>2
<1> HIDE DEF z
<1>4. Covariance(W, x, z) = 0
  <2>1. Combines(W, z, g * D, y, -(g * N), x)
    BY <1>2, <1>3 DEF Combines
  <2>2. Covariance(W, x, z) = (g * D) * N + (-(g * N)) * D
    BY <2>1, CovarianceIsLinear
  <2> QED
    BY <1>1, <2>2
<1>5. \A i, j \in W : x[i] < x[j] => (x[j] - x[i]) * (z[j] - z[i]) > 0
  <2> SUFFICES ASSUME NEW i \in W, NEW j \in W, x[i] < x[j]
               PROVE  (x[j] - x[i]) * (z[j] - z[i]) > 0
    OBVIOUS
  <2>1. x[i] \in Int /\ x[j] \in Int /\ y[i] \in Int /\ y[j] \in Int
    OBVIOUS
  <2>2. z[j] - z[i] = g * ((y[j] - y[i]) * D - N * (x[j] - x[i]))
    BY <1>1, <1>3, <2>1
  <2>3. z[j] - z[i] \in Int /\ z[j] - z[i] > 0
    BY <1>1, <2>1, <2>2
  <2>4. x[j] - x[i] \in Int /\ x[j] - x[i] > 0
    BY <2>1
  <2>5. \A u, v \in Int : u > 0 /\ v > 0 => u * v > 0
    OBVIOUS
  <2> QED
    BY <2>3, <2>4, <2>5
<1>6. \A i, j \in W : (x[i] - x[j]) * (z[i] - z[j]) >= 0
  <2> SUFFICES ASSUME NEW i \in W, NEW j \in W PROVE (x[i] - x[j]) * (z[i] - z[j]) >= 0
    OBVIOUS
  <2>1. x[i] \in Int /\ x[j] \in Int /\ z[i] \in Int /\ z[j] \in Int
    BY <1>3
  <2>2. (x[i] - x[j]) * (z[i] - z[j]) = (x[j] - x[i]) * (z[j] - z[i])
    BY <2>1
  <2>3. CASE x[i] = x[j]
    BY <2>1, <2>3
  <2> QED
    BY <1>5, <2>1, <2>2, <2>3
<1>7. \E i, j \in W : x[i] < x[j]
  BY SpreadIsPositive
<1>8. \E i, j \in W : (x[i] - x[j]) * (z[i] - z[j]) > 0
  BY <1>5, <1>7
<1>9. Covariance(W, x, z) > 0
  BY <1>3, <1>6, <1>8, MovingTogether
<1> QED
  BY <1>4, <1>9

\* Quotients compare as their terms do, multiplied crosswise.
LEMMA RatiosCompare ==
    ASSUME NEW a \in Int, NEW b \in Int, b > 0, NEW c \in Int, NEW d \in Int, d > 0
    PROVE  Leq(Ratio(a, b), Ratio(c, d)) <=> a * d <= c * b
<1> DEFINE q == Ratio(c, d)
<1>1. q \in Q /\ q[1] * d = c * q[2]
  BY RatioValue
<1> HIDE DEF q
<1>2. q[1] \in Int /\ q[2] \in Int /\ q[2] > 0
  BY <1>1, Parts
<1>3. Leq(Ratio(a, b), q) <=> a * q[2] <= q[1] * b
  BY <1>1, RatioCompares
<1>4. (a * q[2]) * d = (a * d) * q[2]
  BY <1>2
<1>5. (q[1] * b) * d = (c * b) * q[2]
  <2>1. (q[1] * b) * d = (q[1] * d) * b
    BY <1>2
  <2>2. (c * q[2]) * b = (c * b) * q[2]
    BY <1>2
  <2> QED
    BY <1>1, <2>1, <2>2
<1>6. a * q[2] \in Int /\ q[1] * b \in Int /\ a * d \in Int /\ c * b \in Int
  BY <1>2
<1>7. a * q[2] <= q[1] * b <=> (a * q[2]) * d <= (q[1] * b) * d
  BY <1>6, Cancel
<1>8. a * d <= c * b <=> (a * d) * q[2] <= (c * b) * q[2]
  BY <1>2, <1>6, Cancel
<1> QED
  BY <1>3, <1>4, <1>5, <1>7, <1>8 DEF q

\* The fit over a window is the quotient of two covariances.
LEMMA FitIsQuotient ==
    ASSUME NEW h \in Seq(Kinds), NEW t \in Int, NEW window \in Nat
    PROVE  LET W == InWindow(h, t, window)
               x == [i \in W |-> h[i].at - t]
               y == [i \in W |-> h[i].tip]
           IN  /\ Spread(h, t, window) = Covariance(W, x, x)
               /\ Slope(h, t, window) = Ratio(Covariance(W, x, y), Covariance(W, x, x))
<1> DEFINE W == InWindow(h, t, window)
           x == [i \in W |-> h[i].at - t]
           y == [i \in W |-> h[i].tip]
<1>1. [i \in W |-> x[i] * x[i]] = [i \in W |-> (h[i].at - t) * (h[i].at - t)]
  OBVIOUS
<1>2. [i \in W |-> x[i] * y[i]] = [i \in W |-> (h[i].at - t) * h[i].tip]
  OBVIOUS
<1>3. Spread(h, t, window) = Covariance(W, x, x)
  BY <1>1 DEF Spread, Covariance
<1>4. Slope(h, t, window) = Ratio(Covariance(W, x, y), Spread(h, t, window))
  BY <1>2 DEF Slope, Covariance
<1> QED
  BY <1>3, <1>4

\* Whatever the readings and their spacing, the slope that the estimate is made from
\* lies between the least and the greatest slope of two readings of its window.
THEOREM FitIsBetween == Spec => []SlopeIsBetweenPairs
<1>1. Init => ReadingsInv
  BY NoReadings DEF Init, ReadingsInv
<1>2. ReadingsInv => SlopeIsBetweenPairs
  <2> SUFFICES ASSUME ReadingsInv, HasRate(history, now, EtaRateWindow) PROVE SlopeIsBetweenPairs
    BY DEF SlopeIsBetweenPairs
  <2> DEFINE h == history
             W == InWindow(h, now, EtaRateWindow)
             x == [i \in W |-> h[i].at - now]
             y == [i \in W |-> h[i].tip]
             N == Covariance(W, x, y)
             D == Covariance(W, x, x)
             s == Slope(h, now, EtaRateWindow)
             slope(i, j) == Ratio(h[j].tip - h[i].tip, h[j].at - h[i].at)
             pairs == {slope(p[1], p[2]) : p \in {p \in W \X W : h[p[1]].at < h[p[2]].at}}
  <2>1. h \in Seq(Kinds) /\ now \in Int /\ EtaRateWindow \in Nat
    BY WindowsPositive DEF ReadingsInv
  <2>2. /\ IsFiniteSet(W)
        /\ \A i \in W : h[i].at \in Int /\ h[i].tip \in Int
    BY <2>1, WindowFinite
  <2>3. s = Ratio(N, D) /\ D # 0
    BY <2>1, FitIsQuotient DEF HasRate
  <2> HIDE DEF W
  <2>4. x \in [W -> Int] /\ y \in [W -> Int]
    BY <2>1, <2>2
  <2>5. \A i, j \in W : /\ x[j] - x[i] = h[j].at - h[i].at
                        /\ y[j] - y[i] = h[j].tip - h[i].tip
                        /\ x[i] < x[j] <=> h[i].at < h[j].at
    <3> SUFFICES ASSUME NEW i \in W, NEW j \in W
                 PROVE  /\ x[j] - x[i] = h[j].at - h[i].at
                        /\ y[j] - y[i] = h[j].tip - h[i].tip
                        /\ x[i] < x[j] <=> h[i].at < h[j].at
      OBVIOUS
    <3> HIDE DEF h
    <3> QED
      BY <2>1, <2>2
  <2> HIDE DEF x, y, h, s
  <2>6. D \in Int /\ N \in Int /\ D > 0
    <3>1. Combines(W, y, 1, y, 0, x)
      BY <2>4 DEF Combines
    <3> QED
      BY <2>2, <2>3, <2>4, <3>1, CovarianceIsLinear, SpreadIsPositive
  <2> HIDE DEF N, D
  <2>7. ASSUME NEW i \in W, NEW j \in W, x[i] < x[j]
        PROVE  /\ slope(i, j) \in pairs
               /\ Leq(slope(i, j), s) <=> (y[j] - y[i]) * D <= N * (x[j] - x[i])
               /\ Leq(s, slope(i, j)) <=> N * (x[j] - x[i]) <= (y[j] - y[i]) * D
    <3> DEFINE a == y[j] - y[i]
               b == x[j] - x[i]
    <3>1. a \in Int /\ b \in Int /\ b > 0
      BY <2>4, <2>7
    <3>2. slope(i, j) = Ratio(a, b)
      BY <2>5
    <3>3. h[i].at < h[j].at
      BY <2>5, <2>7
    <3>4. slope(i, j) \in pairs
      <4> DEFINE p == <<i, j>>
      <4>1. p \in {q \in W \X W : h[q[1]].at < h[q[2]].at} /\ p[1] = i /\ p[2] = j
        BY <3>3
      <4> HIDE DEF p
      <4> QED
        BY <4>1
    <3> HIDE DEF a, b, slope, pairs
    <3>5. Leq(Ratio(a, b), Ratio(N, D)) <=> a * D <= N * b
      BY <2>6, <3>1, RatiosCompare
    <3>6. Leq(Ratio(N, D), Ratio(a, b)) <=> N * b <= a * D
      BY <2>6, <3>1, RatiosCompare
    <3> QED
      BY <2>3, <3>2, <3>4, <3>5, <3>6 DEF a, b
  <2> HIDE DEF slope, pairs
  <2>8. \E p \in pairs : Leq(p, s)
    <3>1. PICK i \in W, j \in W :
             x[i] < x[j] /\ 1 * ((y[j] - y[i]) * D - N * (x[j] - x[i])) <= 0
      BY <2>2, <2>3, <2>4, NotBeyondPairs DEF N, D
    <3>2. (y[j] - y[i]) * D \in Int /\ N * (x[j] - x[i]) \in Int
      BY <2>4, <2>6
    <3> QED
      BY <2>7, <3>1, <3>2
  <2>9. \E p \in pairs : Leq(s, p)
    <3>1. PICK i \in W, j \in W :
             x[i] < x[j] /\ (-1) * ((y[j] - y[i]) * D - N * (x[j] - x[i])) <= 0
      BY <2>2, <2>3, <2>4, NotBeyondPairs DEF N, D
    <3>2. (y[j] - y[i]) * D \in Int /\ N * (x[j] - x[i]) \in Int
      BY <2>4, <2>6
    <3> QED
      BY <2>7, <3>1, <3>2
  <2> QED
    BY <2>8, <2>9 DEF SlopeIsBetweenPairs, W, h, s, slope, pairs
<1> QED
  BY <1>1, <1>2, ReadingsStep, PTL DEF Spec

-----------------------------------------------------------------------------
(***************************************************************************)
(* Sorting                                                                 *)
(***************************************************************************)

\* R is a strict total order on S.
StrictOrder(S, R) ==
    /\ \A x \in S : <<x, x>> \notin R
    /\ \A x, y \in S : x # y => <<x, y>> \in R \/ <<y, x>> \in R
    /\ \A x, y, z \in S : <<x, y>> \in R /\ <<y, z>> \in R => <<x, z>> \in R

\* What is sorted is all of the set, each element once, in order.
Sorts(s, S, R) ==
    /\ s \in Seq(S) /\ Len(s) = Cardinality(S)
    /\ \A k, l \in 1 .. Len(s) : k < l => <<s[k], s[l]>> \in R
    /\ \A x \in S : \E k \in 1 .. Len(s) : s[k] = x

\* Taking the elements by rank sorts the set.
LEMMA OrderedSorts ==
    ASSUME NEW S, IsFiniteSet(S), NEW R, StrictOrder(S, R)
    PROVE  Sorts(Ordered(S, R), S, R)
<1> DEFINE n == Cardinality(S)
           below(x) == {y \in S : <<y, x>> \in R}
           rank == [x \in S |-> Cardinality(below(x))]
           s == Ordered(S, R)
<1>1. n \in Nat
  BY FS_CardinalityType
<1>2. \A x \in S : /\ IsFiniteSet(below(x)) /\ Cardinality(below(x)) \in Nat
                   /\ rank[x] = Cardinality(below(x))
  <2> SUFFICES ASSUME NEW x \in S
               PROVE  IsFiniteSet(below(x)) /\ Cardinality(below(x)) \in Nat
    OBVIOUS
  <2>1. below(x) \in SUBSET S
    OBVIOUS
  <2> QED
    BY <2>1, FS_Subset, FS_CardinalityType
<1>3. \A x \in S : rank[x] \in 0 .. n - 1
  <2> SUFFICES ASSUME NEW x \in S PROVE rank[x] \in 0 .. n - 1
    OBVIOUS
  <2>1. below(x) \in SUBSET (S \ {x})
    BY DEF StrictOrder
  <2>2. IsFiniteSet(S \ {x}) /\ Cardinality(S \ {x}) = n - 1
    BY FS_RemoveElement
  <2>3. Cardinality(below(x)) <= n - 1
    BY <2>1, <2>2, FS_Subset
  <2> HIDE DEF below, rank, n
  <2> QED
    BY <1>1, <1>2, <2>3
<1>4. \A x, y \in S : <<x, y>> \in R => rank[x] < rank[y]
  <2> SUFFICES ASSUME NEW x \in S, NEW y \in S, <<x, y>> \in R PROVE rank[x] < rank[y]
    OBVIOUS
  <2>1. below(x) \in SUBSET below(y)
    BY DEF StrictOrder
  <2>2. x \in below(y) /\ x \notin below(x)
    BY DEF StrictOrder
  <2> HIDE DEF below, rank
  <2>3. Cardinality(below(x)) <= Cardinality(below(y))
    BY <1>2, <2>1, FS_Subset
  <2>4. Cardinality(below(x)) # Cardinality(below(y))
    BY <1>2, <2>1, <2>2, FS_Subset
  <2> QED
    BY <1>2, <2>3, <2>4
<1>5. rank \in Injection(S, 0 .. n - 1)
  <2>1. rank \in [S -> 0 .. n - 1]
    <3>1. rank = [x \in S |-> rank[x]]
      OBVIOUS
    <3> HIDE DEF rank
    <3> QED
      BY <1>3, <3>1
  <2>2. ASSUME NEW x \in S, NEW y \in S, x # y PROVE rank[x] # rank[y]
    <3>1. <<x, y>> \in R \/ <<y, x>> \in R
      BY <2>2 DEF StrictOrder
    <3>2. rank[x] \in Int /\ rank[y] \in Int
      BY <1>3
    <3> HIDE DEF rank
    <3> QED
      BY <1>4, <3>1, <3>2
  <2> HIDE DEF rank
  <2> QED
    BY <2>1, <2>2 DEF Injection, IsInjective
<1>6. rank \in Surjection(S, 0 .. n - 1)
  <2>1. IsFiniteSet(0 .. n - 1) /\ Cardinality(0 .. n - 1) = n
    BY <1>1, FS_Interval
  <2> HIDE DEF rank
  <2> QED
    BY <1>5, <2>1, FS_Injection
<1>7. s = [k \in 1 .. n |-> CHOOSE x \in S : Cardinality(below(x)) = k - 1]
  BY DEF Ordered
<1>8. \A k \in 1 .. n : s[k] \in S /\ rank[s[k]] = k - 1
  <2> SUFFICES ASSUME NEW k \in 1 .. n PROVE s[k] \in S /\ rank[s[k]] = k - 1
    OBVIOUS
  <2>1. \E x \in S : Cardinality(below(x)) = k - 1
    <3>1. k - 1 \in 0 .. n - 1
      BY <1>1
    <3>2. \E x \in S : rank[x] = k - 1
      BY <1>6, <3>1 DEF Surjection
    <3> QED
      BY <3>2
  <2>2. s[k] = CHOOSE x \in S : Cardinality(below(x)) = k - 1
    BY <1>7
  <2>3. s[k] \in S /\ Cardinality(below(s[k])) = k - 1
    BY <2>1, <2>2
  <2> HIDE DEF s, rank, below, n
  <2> QED
    BY <1>2, <2>3
<1> HIDE DEF s, rank, below
<1>9. s \in Seq(S) /\ Len(s) = n
  <2>1. s \in [1 .. n -> S]
    BY <1>7, <1>8
  <2> HIDE DEF n
  <2> QED
    BY <1>1, <2>1
<1> HIDE DEF n
<1>10. ASSUME NEW k \in 1 .. n, NEW l \in 1 .. n, k < l PROVE <<s[k], s[l]>> \in R
  <2>1. /\ s[k] \in S /\ s[l] \in S
        /\ rank[s[k]] = k - 1 /\ rank[s[l]] = l - 1
    BY <1>8
  <2>2. s[k] # s[l]
    BY <1>1, <1>10, <2>1
  <2>3. ~(<<s[l], s[k]>> \in R)
    <3>1. ~(rank[s[l]] < rank[s[k]])
      BY <1>1, <1>10, <2>1
    <3> QED
      BY <1>4, <2>1, <3>1
  <2> QED
    BY <2>1, <2>2, <2>3 DEF StrictOrder
<1>11. ASSUME NEW x \in S PROVE \E k \in 1 .. n : s[k] = x
  <2>1. rank[x] + 1 \in 1 .. n /\ rank[x] \in Int
    BY <1>1, <1>3
  <2>2. s[rank[x] + 1] \in S /\ rank[s[rank[x] + 1]] = rank[x]
    BY <1>8, <2>1
  <2>3. s[rank[x] + 1] = x
    BY <1>5, <2>2 DEF Injection, IsInjective
  <2> QED
    BY <2>1, <2>3
<1> QED
  BY <1>9, <1>10, <1>11 DEF Sorts, n, s

\* The least element of a set of naturals.
LEMMA MinIs ==
    ASSUME NEW T \in SUBSET Nat, T # {}
    PROVE  Min(T) \in T /\ \A k \in T : Min(T) <= k
<1>1. \E m \in T : \A k \in T : m <= k
  BY LeastNatural
<1> QED
  BY <1>1 DEF Min

\* The greatest element of a bounded one.
LEMMA MaxIs ==
    ASSUME NEW n \in Nat, NEW T \in SUBSET (1 .. n), T # {}
    PROVE  Max(T) \in T /\ \A k \in T : Max(T) >= k
<1> DEFINE U == {n - k : k \in T}
<1>1. U \in SUBSET Nat /\ U # {}
  <2>1. \A k \in T : n - k \in Nat
    OBVIOUS
  <2>2. PICK k \in T : TRUE
    OBVIOUS
  <2>3. n - k \in U
    OBVIOUS
  <2> QED
    BY <2>1, <2>3
<1>2. PICK u \in U : \A v \in U : u <= v
  BY <1>1, LeastNatural
<1>3. PICK m \in T : u = n - m
  BY <1>2
<1>4. \A k \in T : m >= k
  <2> SUFFICES ASSUME NEW k \in T PROVE m >= k
    OBVIOUS
  <2>1. n - k \in U /\ n - m <= n - k
    BY <1>2, <1>3
  <2> QED
    BY <2>1
<1> QED
  BY <1>3, <1>4 DEF Max

(***************************************************************************)
(* The curve of a cook                                                     *)
(***************************************************************************)

\* reach is the curve of the readings pts: the points at the indices idx, which are
\* those of the readings warmer than all before them.
Curve(pts, reach, idx) ==
    /\ Len(reach) \in Nat \ {0}
    /\ idx \in [1 .. Len(reach) -> Rises(pts)]
    /\ idx[1] = 1
    /\ \A k \in 1 .. Len(reach) :
          reach[k] = [temp |-> pts[idx[k]].tip, sec |-> pts[idx[k]].at - pts[1].at]
    /\ \A k, l \in 1 .. Len(reach) : k < l => idx[k] < idx[l]
    /\ \A i \in Rises(pts) : \E k \in 1 .. Len(reach) : idx[k] = i

\* Sequences are as long as their domains are the same.
LEMMA SameLength == \A a, b \in Nat : 1 .. a = 1 .. b => a = b
<1> SUFFICES ASSUME NEW a \in Nat, NEW b \in Nat, 1 .. a = 1 .. b PROVE a = b
  OBVIOUS
<1>1. Cardinality(1 .. a) = a /\ Cardinality(1 .. b) = b
  BY FS_Interval
<1> QED
  BY <1>1

\* The curve is made of those readings.
LEMMA CurveShape ==
    ASSUME NEW pts \in Seq(Kinds), pts # <<>>
    PROVE  \E idx : Curve(pts, ReachCurve(pts), idx)
<1> DEFINE S == Rises(pts)
           R == {p \in S \X S : p[1] < p[2]}
           idx == Ordered(S, R)
           reach == ReachCurve(pts)
<1>1. S \subseteq 1 .. Len(pts) /\ 1 \in S
  BY DEF Rises
<1>2. IsFiniteSet(S)
  BY <1>1, FS_Interval, FS_Subset
<1> HIDE DEF S
<1>3. \A x, y \in S : <<x, y>> \in R <=> x < y
  OBVIOUS
<1>4. \A x \in S : x \in Int
  BY <1>1
<1> HIDE DEF R
<1>5. StrictOrder(S, R)
  BY <1>3, <1>4 DEF StrictOrder
<1>6. Sorts(idx, S, R)
  BY <1>2, <1>5, OrderedSorts
<1>7. reach = [k \in 1 .. Len(idx) |-> [temp |-> pts[idx[k]].tip, sec |-> pts[idx[k]].at - pts[1].at]]
  BY DEF ReachCurve, S, R
<1> HIDE DEF idx, reach
<1>8. Len(idx) \in Nat /\ idx \in [1 .. Len(idx) -> S]
  BY <1>6 DEF Sorts
<1>9. Len(reach) = Len(idx)
  <2>1. reach \in Seq({[temp |-> pts[idx[k]].tip, sec |-> pts[idx[k]].at - pts[1].at] :
                          k \in 1 .. Len(idx)})
    BY <1>7, <1>8
  <2>2. DOMAIN reach = 1 .. Len(reach) /\ Len(reach) \in Nat
    BY <2>1
  <2>3. DOMAIN reach = 1 .. Len(idx)
    BY <1>7
  <2> QED
    BY <1>8, <2>2, <2>3, SameLength
<1>10. PICK one \in 1 .. Len(idx) : idx[one] = 1
  BY <1>1, <1>6 DEF Sorts
<1>11. \A k, l \in 1 .. Len(idx) : k < l => idx[k] < idx[l]
  BY <1>3, <1>6, <1>8 DEF Sorts
<1>12. idx[1] = 1
  <2>1. 1 \in 1 .. Len(idx)
    BY <1>8, <1>10
  <2>2. idx[1] >= 1
    <3>1. idx[1] \in S
      BY <1>8, <2>1
    <3>2. idx[1] \in 1 .. Len(pts)
      BY <1>1, <3>1
    <3> QED
      BY <3>2
  <2>3. CASE one # 1
    <3>1. idx[1] < idx[one]
      BY <1>8, <1>10, <1>11, <2>1, <2>3
    <3>2. idx[1] \in Int
      BY <1>4, <1>8, <2>1
    <3> QED
      BY <1>10, <2>2, <3>1, <3>2
  <2> QED
    BY <1>10, <2>3
<1>13. \A k \in 1 .. Len(reach) :
          reach[k] = [temp |-> pts[idx[k]].tip, sec |-> pts[idx[k]].at - pts[1].at]
  BY <1>7, <1>9
<1>14. \A i \in S : \E k \in 1 .. Len(idx) : idx[k] = i
  BY <1>6 DEF Sorts
<1>15. Curve(pts, reach, idx)
  BY <1>8, <1>9, <1>10, <1>11, <1>12, <1>13, <1>14 DEF Curve, S
<1> QED
  BY <1>15 DEF reach

\* Its points, as integers, each warmer than those before.
LEMMA CurvePoints ==
    ASSUME NEW pts \in Seq(Kinds), NEW reach, NEW idx, Curve(pts, reach, idx)
    PROVE  /\ Len(reach) \in Nat \ {0} /\ Len(reach) \in 1 .. Len(reach)
           /\ \A k \in 1 .. Len(reach) :
                 /\ idx[k] \in 1 .. Len(pts) /\ reach[k].temp \in Int /\ reach[k].sec \in Int
                 /\ reach[k].temp = pts[idx[k]].tip
                 /\ reach[k].sec = pts[idx[k]].at - pts[1].at
           /\ \A k, l \in 1 .. Len(reach) : k < l => idx[k] < idx[l] /\ reach[k].temp < reach[l].temp
<1>1. Len(reach) \in Nat \ {0} /\ Len(reach) \in 1 .. Len(reach)
  BY DEF Curve
<1>2. ASSUME NEW k \in 1 .. Len(reach)
      PROVE  /\ idx[k] \in Rises(pts) /\ idx[k] \in 1 .. Len(pts)
             /\ reach[k].temp \in Int /\ reach[k].sec \in Int
             /\ reach[k].temp = pts[idx[k]].tip
             /\ reach[k].sec = pts[idx[k]].at - pts[1].at
  <2>1. idx[k] \in Rises(pts)
    BY DEF Curve
  <2>2. idx[k] \in 1 .. Len(pts) /\ 1 \in 1 .. Len(pts)
    BY <2>1 DEF Rises
  <2>3. pts[idx[k]].tip \in Int /\ pts[idx[k]].at \in Int /\ pts[1].at \in Int
    BY <2>2, FieldsAreWhole
  <2>4. reach[k] = [temp |-> pts[idx[k]].tip, sec |-> pts[idx[k]].at - pts[1].at]
    BY DEF Curve
  <2> QED
    BY <2>1, <2>2, <2>3, <2>4
<1>3. ASSUME NEW k \in 1 .. Len(reach), NEW l \in 1 .. Len(reach), k < l
      PROVE  idx[k] < idx[l] /\ reach[k].temp < reach[l].temp
  <2>1. idx[k] < idx[l]
    BY <1>3 DEF Curve
  <2>2. idx[k] \in 1 .. idx[l] - 1
    BY <1>2, <2>1
  <2>3. pts[idx[k]].tip < pts[idx[l]].tip
    BY <1>2, <2>2 DEF Rises
  <2> QED
    BY <1>2, <2>1, <2>3
<1> QED
  BY <1>1, <1>2, <1>3

\* A whole number is a quotient by one.
LEMMA WholeIsQuotient == \A i \in Int : Whole(i) = Ratio(i, 1)
<1> SUFFICES ASSUME NEW i \in Int PROVE Whole(i) = Ratio(i, 1)
  OBVIOUS
<1> DEFINE r == Ratio(i, 1)
<1>1. r \in Q /\ r[1] * 1 = i * r[2]
  BY RatioValue
<1>2. Whole(i) \in Q /\ Whole(i)[1] = i /\ Whole(i)[2] = 1
  BY WholeInQ DEF Whole
<1> HIDE DEF r
<1>3. r[1] \in Int /\ r[2] \in Int
  BY <1>1, Parts
<1>4. Whole(i)[1] * r[2] = r[1] * Whole(i)[2]
  BY <1>1, <1>2, <1>3
<1> QED
  BY <1>1, <1>2, <1>4, SameValue DEF r

\* A whole number and a quotient add up to a quotient.
LEMMA SumIsQuotient ==
    ASSUME NEW a \in Int, NEW m \in Int, NEW d \in Int, d > 0
    PROVE  Add(Whole(a), Ratio(m, d)) = Ratio(a * d + m, d)
<1> DEFINE q == Ratio(m, d)
           s == Add(Whole(a), q)
           r == Ratio(a * d + m, d)
<1>1. q \in Q /\ q[1] * d = m * q[2]
  BY RatioValue
<1>2. r \in Q /\ r[1] * d = (a * d + m) * r[2]
  BY RatioValue
<1>3. Whole(a) \in Q /\ Whole(a)[1] = a /\ Whole(a)[2] = 1
  BY WholeInQ DEF Whole
<1>4. s \in Q /\ s[1] * (1 * q[2]) = (a * q[2] + q[1] * 1) * s[2]
  BY <1>1, <1>3, Operations
<1> HIDE DEF q, s, r
<1>5. /\ q[1] \in Int /\ q[2] \in Int /\ q[2] > 0
      /\ s[1] \in Int /\ s[2] \in Int /\ s[2] > 0
      /\ r[1] \in Int /\ r[2] \in Int /\ r[2] > 0
  BY <1>1, <1>2, <1>4, Parts
<1>6. (s[1] * d) * q[2] = ((a * d + m) * s[2]) * q[2]
  <2>1. (s[1] * d) * q[2] = (s[1] * (1 * q[2])) * d
    BY <1>5
  <2>2. ((a * q[2] + q[1] * 1) * s[2]) * d = (a * d) * (q[2] * s[2]) + (q[1] * d) * s[2]
    BY <1>5
  <2>3. ((a * d + m) * s[2]) * q[2] = (a * d) * (q[2] * s[2]) + (m * q[2]) * s[2]
    BY <1>5
  <2> QED
    BY <1>1, <1>4, <2>1, <2>2, <2>3
<1>7. s[1] * d = (a * d + m) * s[2]
  <2>1. s[1] * d \in Int /\ (a * d + m) * s[2] \in Int
    BY <1>5
  <2> QED
    BY <1>5, <1>6, <2>1, Cancel
<1>8. (s[1] * r[2]) * d = (r[1] * s[2]) * d
  <2>1. (s[1] * r[2]) * d = (s[1] * d) * r[2]
    BY <1>5
  <2>2. (r[1] * s[2]) * d = (r[1] * d) * s[2]
    BY <1>5
  <2>3. ((a * d + m) * s[2]) * r[2] = ((a * d + m) * r[2]) * s[2]
    BY <1>5
  <2> QED
    BY <1>2, <1>7, <2>1, <2>2, <2>3
<1>9. s[1] * r[2] = r[1] * s[2]
  <2>1. s[1] * r[2] \in Int /\ r[1] * s[2] \in Int
    BY <1>5
  <2> QED
    BY <1>8, <2>1, Cancel
<1> QED
  BY <1>2, <1>4, <1>9, SameValue DEF q, s, r

\* The time at which a line from (0, a) to (d, b) has risen by m.
Line(a, b, m, d) == Ratio(a * d + m * (b - a), d)

\* It rises from a to b.
LEMMA LineRises ==
    ASSUME NEW a \in Int, NEW b \in Int, a <= b, NEW d \in Int, d > 0,
           NEW m \in 0 .. d, NEW k \in m .. d
    PROVE  /\ Line(a, b, m, d) \in Q
           /\ Leq(Whole(a), Line(a, b, m, d)) /\ Leq(Line(a, b, m, d), Whole(b))
           /\ Leq(Line(a, b, m, d), Line(a, b, k, d))
<1> DEFINE r == b - a
           p == a * d + m * r
           q == a * d + k * r
<1>1. r \in Nat /\ m \in Int /\ k \in Int /\ m >= 0 /\ m <= k /\ m <= d
  OBVIOUS
<1>2. b * d = a * d + d * r
  OBVIOUS
<1> HIDE DEF r
<1>3. 0 <= m * r /\ m * r <= k * r /\ m * r <= d * r
  BY <1>1
<1>4. p \in Int /\ q \in Int
  BY <1>1
<1>5. a * d <= p * 1 /\ p * 1 <= b * d /\ p <= q
  <2>1. a * d \in Int /\ m * r \in Int /\ k * r \in Int /\ d * r \in Int
    BY <1>1
  <2> QED
    BY <1>2, <1>3, <2>1
<1> HIDE DEF p, q
<1>6. p * d <= q * d
  BY <1>4, <1>5, Cancel
<1>7. Line(a, b, m, d) = Ratio(p, d) /\ Line(a, b, k, d) = Ratio(q, d)
  BY DEF Line, p, q, r
<1>8. Ratio(p, d) \in Q
  BY <1>4, RatioValue
<1>9. Leq(Ratio(a, 1), Ratio(p, d)) /\ Leq(Ratio(p, d), Ratio(b, 1))
  BY <1>4, <1>5, RatiosCompare
<1>10. Leq(Ratio(p, d), Ratio(q, d))
  BY <1>4, <1>6, RatiosCompare
<1> QED
  BY <1>7, <1>8, <1>9, <1>10, WholeIsQuotient

\* hc remembers the curve of the readings pts.
Remembers(hc, pts, idx) ==
    /\ pts \in Seq(Kinds) /\ Curve(pts, hc.reach, idx)
    /\ hc.maxReach = hc.reach[Len(hc.reach)].temp

\* The time for a temperature on the way is on the line between the two points of the
\* curve that it lies between.
Between(reach, i, temp) ==
    i \in 2 .. Len(reach) /\ reach[i - 1].temp < temp /\ temp <= reach[i].temp

\* The time for such a temperature is that of the line.
LEMMA ReachTimeOnLine ==
    ASSUME NEW hc, NEW pts, NEW idx, Remembers(hc, pts, idx),
           NEW temp \in Int, hc.reach[1].temp < temp, temp <= hc.maxReach
    PROVE  \E i : /\ Between(hc.reach, i, temp)
                  /\ reachTime(hc, temp) = Line(hc.reach[i - 1].sec, hc.reach[i].sec,
                                                temp - hc.reach[i - 1].temp,
                                                hc.reach[i].temp - hc.reach[i - 1].temp)
<1> DEFINE reach == hc.reach
           n == Len(reach)
           T == {k \in 2 .. n : reach[k].temp >= temp}
           i == Min(T)
<1>1. /\ n \in Nat \ {0} /\ n \in 1 .. n
      /\ \A k \in 1 .. n : reach[k].temp \in Int /\ reach[k].sec \in Int
      /\ \A k, l \in 1 .. n : k < l => reach[k].temp < reach[l].temp
  BY CurvePoints DEF Remembers
<1>2. hc.maxReach = reach[n].temp
  BY DEF Remembers
<1>3. reachTime(hc, temp)
         = Add(Whole(reach[i - 1].sec),
               Ratio((temp - reach[i - 1].temp) * (reach[i].sec - reach[i - 1].sec),
                     reach[i].temp - reach[i - 1].temp))
  <2>1. ~(temp <= reach[1].temp)
    BY <1>1
  <2>2. ~(temp > hc.maxReach)
    BY <1>1, <1>2
  <2> QED
    BY <2>1, <2>2 DEF reachTime
<1> HIDE DEF n, reach
<1>4. i \in T /\ \A k \in T : i <= k
  <2>1. n # 1
    BY <1>1, <1>2 DEF reach
  <2>2. n \in T
    BY <1>1, <1>2, <2>1
  <2>3. T \in SUBSET Nat
    BY <1>1
  <2> HIDE DEF T
  <2> QED
    BY <2>2, <2>3, MinIs
<1> HIDE DEF i
<1>5. i \in 2 .. n /\ reach[i].temp >= temp
  BY <1>4
<1>6. i - 1 \in 1 .. n /\ i \in 1 .. n /\ i - 1 < i
  BY <1>1, <1>5
<1>7. reach[i - 1].temp < temp
  <2>1. CASE i - 1 = 1
    BY <2>1 DEF reach
  <2>2. CASE i - 1 # 1
    <3>1. i - 1 \in 2 .. n /\ i - 1 \notin T
      BY <1>1, <1>4, <1>5, <2>2
    <3> QED
      BY <1>1, <1>6, <3>1
  <2> QED
    BY <2>1, <2>2
<1>8. Between(reach, i, temp)
  BY <1>1, <1>5, <1>6, <1>7 DEF Between, n
<1> DEFINE a == reach[i - 1].sec
           b == reach[i].sec
           m == temp - reach[i - 1].temp
           d == reach[i].temp - reach[i - 1].temp
<1>9. a \in Int /\ b \in Int /\ m \in Int /\ d \in Int /\ d > 0
  BY <1>1, <1>6
<1>10. reachTime(hc, temp) = Add(Whole(a), Ratio(m * (b - a), d))
  BY <1>3
<1> HIDE DEF a, b, m, d
<1>11. reachTime(hc, temp) = Line(a, b, m, d)
  <2>1. m * (b - a) \in Int
    BY <1>9
  <2> QED
    BY <1>9, <1>10, <2>1, SumIsQuotient DEF Line
<1> QED
  BY <1>8, <1>11 DEF a, b, m, d, reach

\* The first of the warmest of the first m readings.
Warmest(pts, m) == Min({i \in 1 .. m : \A j \in 1 .. m : pts[j].tip <= pts[i].tip})

\* The point k of the curve is its last one among the first m readings.
LastAmong(m, reach, idx, k) ==
    /\ k \in 1 .. Len(reach) /\ idx[k] <= m
    /\ \A l \in 1 .. Len(reach) : l > k => idx[l] > m

\* The warmest of the first readings is the last of them that the curve has.
LEMMA WarmestIsLast ==
    ASSUME NEW pts \in Seq(Kinds), NEW reach, NEW idx, Curve(pts, reach, idx),
           NEW m \in 1 .. Len(pts), NEW k, LastAmong(m, reach, idx, k)
    PROVE  /\ \A j \in 1 .. m : pts[j].tip <= pts[idx[k]].tip
           /\ Warmest(pts, m) = idx[k]
<1> USE DEF LastAmong
<1> DEFINE n == Len(reach)
           top == idx[k]
           S == {i \in 1 .. m : \A j \in 1 .. m : pts[j].tip <= pts[i].tip}
<1>1. /\ n \in Nat \ {0}
      /\ \A l \in 1 .. n : idx[l] \in 1 .. Len(pts) /\ reach[l].temp = pts[idx[l]].tip
      /\ \A l, o \in 1 .. n : l < o => idx[l] < idx[o] /\ reach[l].temp < reach[o].temp
  BY CurvePoints
<1>2. \A i \in Rises(pts) : \E l \in 1 .. n : idx[l] = i
  BY DEF Curve
<1>3. \A i \in 1 .. Len(pts) : pts[i].tip \in Int
  BY FieldsAreWhole
<1>4. top \in Rises(pts)
  BY DEF Curve
<1>5. top \in 1 .. m /\ m <= Len(pts) /\ m \in Nat
  BY <1>1
<1>6. pts[top].tip = reach[k].temp
  BY <1>1
<1> HIDE DEF n, top
<1>7. \A j \in 1 .. m : pts[j].tip <= pts[top].tip
  <2> DEFINE T == {j \in 1 .. m : pts[j].tip > pts[top].tip}
  <2> SUFFICES ASSUME T # {} PROVE FALSE
    <3>1. \A j \in 1 .. m : pts[j].tip \in Int /\ pts[top].tip \in Int
      BY <1>3, <1>5
    <3> QED
      BY <3>1
  <2>1. T \in SUBSET Nat
    OBVIOUS
  <2>2. PICK j \in T : \A i \in T : j <= i
    BY <2>1, LeastNatural
  <2>3. j \in 1 .. Len(pts) /\ j <= m /\ pts[j].tip > pts[top].tip
    BY <1>5, <2>2
  <2>4. \A i \in 1 .. j - 1 : pts[i].tip < pts[j].tip
    <3> SUFFICES ASSUME NEW i \in 1 .. j - 1 PROVE pts[i].tip < pts[j].tip
      OBVIOUS
    <3>1. i \in 1 .. m /\ i \notin T /\ i \in 1 .. Len(pts)
      BY <1>5, <2>2, <2>3
    <3>2. ~(pts[i].tip > pts[top].tip)
      BY <3>1
    <3>3. pts[i].tip \in Int /\ pts[j].tip \in Int /\ pts[top].tip \in Int
      BY <1>3, <1>5, <2>3, <3>1
    <3> QED
      BY <2>3, <3>2, <3>3
  <2>5. j \in Rises(pts)
    BY <2>3, <2>4 DEF Rises
  <2>6. PICK l \in 1 .. n : idx[l] = j
    BY <1>2, <2>5
  <2>7. ~(l > k)
    BY <2>3, <2>6 DEF n
  <2>8. reach[l].temp = pts[j].tip
    BY <1>1, <2>6
  <2>9. l = k \/ l < k
    BY <1>1, <2>7 DEF n
  <2>10. CASE l = k
    BY <1>3, <1>5, <1>6, <2>3, <2>8, <2>10
  <2>11. CASE l < k
    <3>1. reach[l].temp < reach[k].temp
      BY <1>1, <2>11 DEF n
    <3>2. pts[j].tip \in Int /\ pts[top].tip \in Int
      BY <1>3, <1>5, <2>3
    <3> QED
      BY <1>6, <2>3, <2>8, <3>1, <3>2
  <2> QED
    BY <2>9, <2>10, <2>11
<1>8. top \in S
  BY <1>5, <1>7
<1>9. Min(S) \in S /\ Min(S) <= top
  <2>1. S \in SUBSET Nat
    OBVIOUS
  <2> HIDE DEF S
  <2> QED
    BY <1>8, <2>1, MinIs
<1>10. Min(S) = top
  <2> DEFINE w == Min(S)
  <2>1. w \in 1 .. m /\ pts[top].tip <= pts[w].tip /\ w <= top
    BY <1>5, <1>9
  <2> HIDE DEF w
  <2>2. ASSUME w < top PROVE FALSE
    <3>1. w \in 1 .. top - 1
      BY <1>5, <2>1, <2>2
    <3>2. pts[w].tip < pts[top].tip
      BY <1>4, <3>1 DEF Rises
    <3>3. pts[w].tip \in Int /\ pts[top].tip \in Int
      BY <1>3, <1>5, <2>1
    <3> QED
      BY <2>1, <3>2, <3>3
  <2>3. w = top
    BY <1>5, <2>1, <2>2
  <2> QED
    BY <2>3 DEF w
<1> QED
  BY <1>7, <1>10 DEF top, Warmest

\* The curve is warmest at its end, and starts at the first reading.
LEMMA CurveEnds ==
    ASSUME NEW hc, NEW pts, NEW idx, Remembers(hc, pts, idx)
    PROVE  /\ \A j \in 1 .. Len(pts) : pts[j].tip <= hc.maxReach
           /\ hc.maxReach = pts[Warmest(pts, Len(pts))].tip
           /\ 1 \in 1 .. Len(pts) /\ hc.reach[1].temp = pts[1].tip /\ hc.reach[1].sec = 0
<1> DEFINE n == Len(hc.reach)
<1>1. /\ n \in Nat \ {0} /\ n \in 1 .. n
      /\ \A l \in 1 .. n : /\ idx[l] \in 1 .. Len(pts) /\ hc.reach[l].temp = pts[idx[l]].tip
                           /\ hc.reach[l].sec = pts[idx[l]].at - pts[1].at
  BY CurvePoints DEF Remembers
<1>2. pts \in Seq(Kinds) /\ Curve(pts, hc.reach, idx) /\ hc.maxReach = hc.reach[n].temp
  BY DEF Remembers
<1>3. idx[1] = 1 /\ 1 \in 1 .. n
  BY <1>1, <1>2 DEF Curve
<1>4. 1 \in 1 .. Len(pts)
  BY <1>1, <1>3
<1>5. pts[1].at \in Int
  BY <1>2, <1>4, FieldsAreWhole
<1>6. Len(pts) \in 1 .. Len(pts) /\ LastAmong(Len(pts), hc.reach, idx, n)
  BY <1>1, <1>4 DEF LastAmong
<1>7. /\ \A j \in 1 .. Len(pts) : pts[j].tip <= pts[idx[n]].tip
      /\ Warmest(pts, Len(pts)) = idx[n]
  BY <1>2, <1>6, WarmestIsLast
<1>8. hc.reach[1].temp = pts[1].tip /\ hc.reach[1].sec = 0
  <2>1. hc.reach[1].sec = pts[1].at - pts[1].at
    BY <1>1, <1>3
  <2> QED
    BY <1>1, <1>3, <1>5, <2>1
<1> QED
  BY <1>1, <1>2, <1>4, <1>7, <1>8

\* The readings are in the order of time.
Timed(pts) == \A i, j \in 1 .. Len(pts) : i <= j => pts[i].at <= pts[j].at

\* So are the points of the curve.
LEMMA CurveTimed ==
    ASSUME NEW hc, NEW pts, NEW idx, Remembers(hc, pts, idx), Timed(pts)
    PROVE  \A k, l \in 1 .. Len(hc.reach) : k <= l => hc.reach[k].sec <= hc.reach[l].sec
<1> DEFINE n == Len(hc.reach)
<1> SUFFICES ASSUME NEW k \in 1 .. n, NEW l \in 1 .. n, k <= l
             PROVE  hc.reach[k].sec <= hc.reach[l].sec
  OBVIOUS
<1>1. /\ n \in Nat \ {0}
      /\ \A o \in 1 .. n : /\ idx[o] \in 1 .. Len(pts)
                           /\ hc.reach[o].sec = pts[idx[o]].at - pts[1].at
      /\ \A o, p \in 1 .. n : o < p => idx[o] < idx[p]
  BY CurvePoints DEF Remembers
<1>2. pts \in Seq(Kinds)
  BY DEF Remembers
<1>3. idx[k] <= idx[l]
  <2>1. idx[k] \in Nat /\ (k < l => idx[k] < idx[l])
    BY <1>1
  <2> QED
    BY <2>1, <1>1
<1>4. pts[idx[k]].at <= pts[idx[l]].at
  BY <1>1, <1>3 DEF Timed
<1>5. 1 \in 1 .. Len(pts)
  BY CurveEnds
<1>6. pts[idx[k]].at \in Int /\ pts[idx[l]].at \in Int /\ pts[1].at \in Int
  BY <1>1, <1>2, <1>5, FieldsAreWhole
<1> QED
  BY <1>1, <1>4, <1>6

\* The time for a temperature on the way is between those of the two points.
LEMMA ReachTimeBetween ==
    ASSUME NEW hc, NEW pts, NEW idx, Remembers(hc, pts, idx), Timed(pts),
           NEW i, NEW t \in Int, Between(hc.reach, i, t),
           NEW u \in Int, t <= u, Between(hc.reach, i, u)
    PROVE  LET lo == hc.reach[i - 1]
               hi == hc.reach[i]
               at(temp) == Line(lo.sec, hi.sec, temp - lo.temp, hi.temp - lo.temp)
           IN  /\ lo.sec \in Int /\ hi.sec \in Int
               /\ at(t) \in Q /\ Leq(Whole(lo.sec), at(t)) /\ Leq(at(t), Whole(hi.sec))
               /\ Leq(at(t), at(u))
<1> DEFINE lo == hc.reach[i - 1]
           hi == hc.reach[i]
           a == lo.sec
           b == hi.sec
           d == hi.temp - lo.temp
           m == t - lo.temp
           k == u - lo.temp
<1>1. i \in 2 .. Len(hc.reach) /\ Len(hc.reach) \in Nat
  BY CurvePoints DEF Between, Remembers
<1>2. i - 1 \in 1 .. Len(hc.reach) /\ i \in 1 .. Len(hc.reach) /\ i - 1 <= i
  BY <1>1
<1>3. lo.temp \in Int /\ hi.temp \in Int /\ a \in Int /\ b \in Int
  BY <1>2, CurvePoints DEF Remembers
<1>4. a <= b
  BY <1>2, CurveTimed
<1>5. lo.temp < t /\ t <= hi.temp /\ u <= hi.temp
  BY DEF Between
<1> HIDE DEF lo, hi
<1>6. d \in Int /\ d > 0 /\ m \in 0 .. d /\ k \in m .. d
  BY <1>3, <1>5
<1> HIDE DEF a, b, d, m, k
<1>7. /\ Line(a, b, m, d) \in Q
      /\ Leq(Whole(a), Line(a, b, m, d)) /\ Leq(Line(a, b, m, d), Whole(b))
      /\ Leq(Line(a, b, m, d), Line(a, b, k, d))
  BY <1>3, <1>4, <1>6, LineRises
<1> QED
  BY <1>3, <1>7 DEF a, b, d, m, k, lo, hi

\* The first reading at or above a temperature.
FirstReading(pts, t) == Min({j \in 1 .. Len(pts) : pts[j].tip >= t})

\* The first reading at or above a temperature on the way is the upper of the two
\* points, and the warmest before it the lower.
LEMMA FirstAtLeast ==
    ASSUME NEW hc, NEW pts, NEW idx, Remembers(hc, pts, idx),
           NEW i, NEW t \in Int, Between(hc.reach, i, t)
    PROVE  /\ FirstReading(pts, t) = idx[i]
           /\ Warmest(pts, idx[i] - 1) = idx[i - 1]
           /\ idx[i] \in 1 .. Len(pts) /\ idx[i - 1] \in 1 .. Len(pts)
<1> DEFINE reach == hc.reach
           n == Len(reach)
           S == {j \in 1 .. Len(pts) : pts[j].tip >= t}
<1>1. /\ n \in Nat
      /\ \A k \in 1 .. n : /\ idx[k] \in 1 .. Len(pts) /\ reach[k].temp \in Int
                           /\ reach[k].temp = pts[idx[k]].tip
      /\ \A k, l \in 1 .. n : k < l => idx[k] < idx[l]
  BY CurvePoints DEF Remembers
<1>2. /\ pts \in Seq(Kinds) /\ Curve(pts, reach, idx)
      /\ i \in 2 .. n /\ reach[i - 1].temp < t /\ t <= reach[i].temp
  BY DEF Remembers, Between
<1> HIDE DEF reach, n
<1>3. i - 1 \in 1 .. n /\ i \in 1 .. n /\ i - 1 < i
  BY <1>1, <1>2
<1>4. idx[i] \in 1 .. Len(pts) /\ idx[i - 1] \in 1 .. Len(pts) /\ idx[i - 1] < idx[i]
  BY <1>1, <1>3
<1>5. idx[i] - 1 \in 1 .. Len(pts)
  BY <1>4
<1>6. LastAmong(idx[i] - 1, reach, idx, i - 1)
  <2>1. ASSUME NEW l \in 1 .. n, l > i - 1 PROVE idx[l] > idx[i] - 1
    <3>1. l = i \/ l > i
      BY <1>2, <2>1
    <3>2. idx[l] >= idx[i] /\ idx[l] \in Int /\ idx[i] \in Int
      BY <1>1, <1>3, <3>1
    <3> QED
      BY <3>2
  <2>2. idx[i - 1] <= idx[i] - 1
    BY <1>4
  <2> QED
    BY <1>3, <2>1, <2>2 DEF LastAmong, n
<1>7. /\ \A j \in 1 .. idx[i] - 1 : pts[j].tip <= pts[idx[i - 1]].tip
      /\ Warmest(pts, idx[i] - 1) = idx[i - 1]
  BY <1>2, <1>5, <1>6, WarmestIsLast
<1>8. idx[i] \in S
  BY <1>1, <1>2, <1>3
<1>9. Min(S) \in S /\ Min(S) <= idx[i]
  <2>1. S \in SUBSET Nat
    OBVIOUS
  <2> HIDE DEF S
  <2> QED
    BY <1>8, <2>1, MinIs
<1>10. Min(S) = idx[i]
  <2> DEFINE w == Min(S)
  <2>1. w \in 1 .. Len(pts) /\ pts[w].tip >= t /\ w <= idx[i]
    BY <1>9
  <2> HIDE DEF w
  <2>2. ASSUME w < idx[i] PROVE FALSE
    <3>1. w \in 1 .. idx[i] - 1
      BY <1>4, <2>1, <2>2
    <3>2. pts[w].tip <= pts[idx[i - 1]].tip
      BY <1>7, <3>1
    <3>3. pts[w].tip \in Int /\ pts[idx[i - 1]].tip = reach[i - 1].temp
      BY <1>1, <1>2, <1>3, <2>1, FieldsAreWhole
    <3> QED
      BY <1>1, <1>2, <1>3, <2>1, <3>2, <3>3
  <2>3. w = idx[i]
    BY <1>4, <2>1, <2>2
  <2> QED
    BY <2>3 DEF w
<1> QED
  BY <1>4, <1>7, <1>10 DEF FirstReading

\* Higher temperatures are not reached earlier.
LEMMA ReachTimeRises ==
    ASSUME NEW hc, NEW pts, NEW idx, Remembers(hc, pts, idx), Timed(pts),
           NEW t \in Int, NEW u \in Int, hc.reach[1].temp <= t, t <= u, u <= hc.maxReach
    PROVE  Leq(reachTime(hc, t), reachTime(hc, u))
<1> DEFINE reach == hc.reach
           n == Len(reach)
<1>1. /\ n \in Nat \ {0}
      /\ \A k \in 1 .. n : reach[k].temp \in Int /\ reach[k].sec \in Int
      /\ \A k, l \in 1 .. n : k < l => reach[k].temp < reach[l].temp
      /\ hc.maxReach = reach[n].temp
  BY CurvePoints DEF Remembers
<1>2. reach[1].sec = 0
  BY CurveEnds
<1>3. \A k, l \in 1 .. n : k <= l => reach[k].sec <= reach[l].sec
  BY CurveTimed
<1>4. 1 \in 1 .. n /\ reach[1].temp \in Int /\ hc.maxReach \in Int
  BY <1>1
<1>5. \A v \in Int : v <= reach[1].temp => reachTime(hc, v) = Whole(0)
  BY DEF reachTime
<1> HIDE DEF reach, n
<1>6. CASE u <= reach[1].temp
  <2>1. reachTime(hc, t) = Whole(0) /\ reachTime(hc, u) = Whole(0)
    BY <1>4, <1>5, <1>6
  <2> QED
    BY <2>1, WholeInQ, OrderOfQ
<1>7. CASE reach[1].temp < u
  <2>1. PICK i : /\ Between(reach, i, u)
                 /\ reachTime(hc, u) = Line(reach[i - 1].sec, reach[i].sec,
                                            u - reach[i - 1].temp,
                                            reach[i].temp - reach[i - 1].temp)
    BY <1>7, ReachTimeOnLine DEF reach
  <2>2. /\ reach[i - 1].sec \in Int
        /\ reachTime(hc, u) \in Q /\ Leq(Whole(reach[i - 1].sec), reachTime(hc, u))
    <3>1. u <= u /\ Between(hc.reach, i, u)
      BY <2>1 DEF reach
    <3>2. /\ hc.reach[i - 1].sec \in Int
          /\ LET at == Line(hc.reach[i - 1].sec, hc.reach[i].sec, u - hc.reach[i - 1].temp,
                            hc.reach[i].temp - hc.reach[i - 1].temp)
             IN  at \in Q /\ Leq(Whole(hc.reach[i - 1].sec), at)
      BY <3>1, ReachTimeBetween
    <3> QED
      BY <2>1, <3>2 DEF reach
  <2>3. i \in 2 .. n /\ i - 1 \in 1 .. n /\ i \in 1 .. n
    BY <1>1, <2>1 DEF Between, n
  <2>4. CASE t <= reach[1].temp
    <3>1. reachTime(hc, t) = Whole(0)
      BY <1>5, <2>4
    <3>2. 0 <= reach[i - 1].sec
      BY <1>2, <1>3, <1>4, <2>3
    <3>3. Leq(Whole(0), Whole(reach[i - 1].sec))
      BY <2>2, <3>2 DEF Leq, Whole
    <3> QED
      BY <2>2, <3>1, <3>3, WholeInQ, OrderOfQ
  <2>5. CASE reach[1].temp < t
    <3>1. t <= hc.maxReach
      BY <1>4
    <3>2. PICK k : /\ Between(reach, k, t)
                   /\ reachTime(hc, t) = Line(reach[k - 1].sec, reach[k].sec,
                                              t - reach[k - 1].temp,
                                              reach[k].temp - reach[k - 1].temp)
      BY <2>5, <3>1, ReachTimeOnLine DEF reach
    <3>3. k \in 2 .. n /\ k - 1 \in 1 .. n /\ k \in 1 .. n
      BY <1>1, <3>2 DEF Between, n
    <3>4. CASE k = i
      <4>1. Between(reach, k, u)
        BY <2>1, <3>4
      <4> QED
        BY <2>1, <3>2, <3>4, <4>1, ReachTimeBetween DEF reach
    <3>5. CASE k < i
      <4>1. /\ reach[k].sec \in Int /\ reachTime(hc, t) \in Q
            /\ Leq(reachTime(hc, t), Whole(reach[k].sec))
        <5>1. t <= t /\ Between(hc.reach, k, t)
          BY <3>2 DEF reach
        <5>2. /\ hc.reach[k].sec \in Int
              /\ LET at == Line(hc.reach[k - 1].sec, hc.reach[k].sec, t - hc.reach[k - 1].temp,
                                hc.reach[k].temp - hc.reach[k - 1].temp)
                 IN  at \in Q /\ Leq(at, Whole(hc.reach[k].sec))
          BY <5>1, ReachTimeBetween
        <5> QED
          BY <3>2, <5>2 DEF reach
      <4>2. reach[k].sec <= reach[i - 1].sec
        BY <1>3, <2>3, <3>3, <3>5
      <4>3. Leq(Whole(reach[k].sec), Whole(reach[i - 1].sec))
        BY <2>2, <4>1, <4>2 DEF Leq, Whole
      <4>4. /\ Whole(reach[k].sec) \in Q /\ Whole(reach[i - 1].sec) \in Q
        BY <2>2, <4>1, WholeInQ
      <4>5. Leq(reachTime(hc, t), Whole(reach[i - 1].sec))
        BY <4>1, <4>3, <4>4, OrderOfQ
      <4> QED
        BY <2>2, <4>1, <4>4, <4>5, OrderOfQ
    <3>6. CASE i < k
      <4>1. reach[i].temp <= reach[k - 1].temp
        <5>1. i = k - 1 \/ i < k - 1
          BY <2>3, <3>3, <3>6
        <5> QED
          BY <1>1, <2>3, <3>3, <5>1 DEF n, reach
      <4>2. u <= reach[i].temp /\ reach[k - 1].temp < t
        BY <2>1, <3>2 DEF Between
      <4>3. reach[i].temp \in Int /\ reach[k - 1].temp \in Int
        BY <1>1, <2>3, <3>3
      <4> QED
        BY <4>1, <4>2, <4>3
    <3> QED
      BY <2>3, <3>3, <3>4, <3>5, <3>6
  <2> QED
    BY <1>4, <2>4, <2>5
<1> QED
  BY <1>4, <1>6, <1>7 DEF reach

\* A cook that teaches is remembered by the curve of its readings.
LEMMA CookRemembers ==
    ASSUME NEW c, c.pts \in Seq(Kinds), c.pts # <<>>
    PROVE  \E idx : Remembers(buildHistCook(c), c.pts, idx)
<1>1. PICK idx : Curve(c.pts, ReachCurve(c.pts), idx)
  BY CurveShape
<1>2. /\ buildHistCook(c).reach = ReachCurve(c.pts)
      /\ buildHistCook(c).maxReach = Last(ReachCurve(c.pts)).temp
  BY DEF buildHistCook
<1> QED
  BY <1>1, <1>2 DEF Remembers, Last

\* The readings of the cook are in the order of time.
LEMMA TimeStep == ReadingsInv /\ Timed(history) /\ [Next]_vars => Timed(history)'
<1> SUFFICES ASSUME ReadingsInv, Timed(history), [Next]_vars PROVE Timed(history')
  BY DEF Timed
<1>1. CASE history' = <<>>
  BY <1>1 DEF Timed
<1>2. CASE history' = history
  BY <1>2 DEF Timed
<1>3. ASSUME NEW r \in Readings, Update(r) PROVE Timed(history')
  <2>1. CASE history' = Retain(Append(history, r))
    <3> DEFINE a == Append(history, r)
    <3>1. /\ history \in Seq(Kinds) /\ Len(history) \in Nat /\ now \in Nat
          /\ \A i \in 1 .. Len(history) : history[i].at <= now /\ history[i].at \in Nat
      <4>1. \A x : Reading(x) => x.at \in Nat /\ x.at <= now
        BY DEF Reading, Kinds
      <4>2. history \in Seq(Kinds) /\ now \in Nat /\ \A i \in 1 .. Len(history) : Reading(history[i])
        BY DEF ReadingsInv
      <4> QED
        BY <4>1, <4>2
    <3>2. r.at = now
      BY DEF Readings
    <3>3. r \in Kinds
      BY <3>1, ReadingsWhole DEF Readings, Kinds
    <3>4. /\ a \in Seq(Kinds) /\ a # <<>> /\ Len(a) = Len(history) + 1
          /\ \A i \in 1 .. Len(history) : a[i] = history[i]
          /\ a[Len(history) + 1] = r
      BY <3>1, <3>3, AppendProperties
    <3> HIDE DEF a
    <3>5. \A i, j \in 1 .. Len(a) : i <= j => a[i].at <= a[j].at
      <4> SUFFICES ASSUME NEW i \in 1 .. Len(a), NEW j \in 1 .. Len(a), i <= j
                   PROVE  a[i].at <= a[j].at
        OBVIOUS
      <4>1. CASE j \in 1 .. Len(history)
        <5>1. i \in 1 .. Len(history)
          BY <3>1, <4>1
        <5> QED
          BY <3>4, <4>1, <5>1 DEF Timed
      <4>2. CASE j = Len(history) + 1
        BY <3>1, <3>2, <3>4, <4>2
      <4> QED
        BY <3>1, <3>4, <4>1, <4>2
    <3>6. PICK k \in Nat :
             /\ Len(history') + k = Len(a)
             /\ \A i \in 1 .. Len(history') : history'[i] = a[i + k]
      BY <2>1, <3>4, RetainKeeps DEF a
    <3>7. Len(history') \in Nat
      BY <2>1, <3>4, RetainKeeps DEF a
    <3>8. \A i \in 1 .. Len(history') : i + k \in 1 .. Len(a)
      BY <3>6, <3>7
    <3>9. \A i, j \in 1 .. Len(history') : i <= j => history'[i].at <= history'[j].at
      <4> SUFFICES ASSUME NEW i \in 1 .. Len(history'), NEW j \in 1 .. Len(history'), i <= j
                   PROVE  history'[i].at <= history'[j].at
        OBVIOUS
      <4>1. i + k <= j + k
        BY <3>6, <3>7
      <4> QED
        BY <3>5, <3>6, <3>8, <4>1
    <3> QED
      BY <3>9 DEF Timed
  <2>2. CASE history' = <<[r EXCEPT !.at = 0]>>
    <3> DEFINE s == [r EXCEPT !.at = 0]
    <3>1. s.at = 0
      BY DEF Readings
    <3> HIDE DEF s
    <3>2. Len(<<s>>) = 1 /\ <<s>>[1] = s
      OBVIOUS
    <3>3. \A i, j \in 1 .. 1 : <<s>>[i].at <= <<s>>[j].at
      BY <3>1, <3>2
    <3> QED
      BY <2>2, <3>2, <3>3 DEF Timed, s
  <2> QED
    BY <1>3, <2>1, <2>2 DEF Update
<1> QED
  BY <1>1, <1>2, <1>3
  DEF Next, Start, Stop, NewCook, FreshCook, Elapse, LoadHistory, SetConnected, SetTarget,
      SetMeatType, vars

\* Whatever a cook's readings, dips and plateaus, the curve it would be remembered by
\* ends at the warmest of them, gives for a temperature a time between the reading
\* that reached it and the warmest before that, and never runs backwards.
THEOREM CurveFollows == Spec => []CurveFollowsReadings
<1>1. Init => ReadingsInv /\ Timed(history)
  BY NoReadings DEF Init, ReadingsInv, Timed
<1>2. ReadingsInv /\ Timed(history) => CurveFollowsReadings
  <2> SUFFICES ASSUME ReadingsInv, Timed(history), Teaches(history) PROVE CurveFollowsReadings
    BY DEF CurveFollowsReadings
  <2> DEFINE h == history
             hc == buildHistCook([id |-> 0, meat |-> NoMeat, pts |-> h])
             tip(i) == h[i].tip
             after(i) == Whole(h[i].at - h[1].at)
             warmest(S) == Min({i \in S : \A j \in S : tip(j) <= tip(i)})
             temps == tip(1) .. hc.maxReach
  <2>1. h \in Seq(Kinds) /\ h # <<>> /\ DOMAIN h = 1 .. Len(h)
    BY CooksRecorded DEF ReadingsInv, Teaches
  <2>2. PICK idx : Remembers(hc, h, idx)
    <3> DEFINE c == [id |-> 0, meat |-> NoMeat, pts |-> h]
    <3>1. c.pts = h
      OBVIOUS
    <3> HIDE DEF c
    <3>2. \E idx : Remembers(buildHistCook(c), c.pts, idx)
      BY <2>1, <3>1, CookRemembers
    <3> QED
      BY <3>1, <3>2 DEF c
  <2> HIDE DEF hc
  <2>3. /\ hc.maxReach = tip(Warmest(h, Len(h)))
        /\ 1 \in 1 .. Len(h) /\ hc.reach[1].temp = tip(1) /\ hc.reach[1].sec = 0
    BY <2>2, CurveEnds
  <2>4. \A i \in 1 .. Len(h) : h[i].at \in Int /\ tip(i) \in Int
    BY <2>1, FieldsAreWhole
  <2>5. \A m : warmest(1 .. m) = Warmest(h, m)
    BY DEF Warmest
  <2>6. \A k \in 1 .. Len(hc.reach) : after(idx[k]) = Whole(hc.reach[k].sec)
    BY <2>2, CurvePoints DEF Remembers
  <2>7. Timed(h)
    OBVIOUS
  <2>8. \A t \in temps : t \in Int /\ hc.reach[1].temp <= t /\ t <= hc.maxReach
    BY <2>3
  <2> HIDE DEF h
  <2>9. ASSUME NEW t \in temps
        PROVE  LET first == Min({i \in DOMAIN h : tip(i) >= t})
               IN  /\ Leq(reachTime(hc, t), after(first))
                   /\ first > 1 => Leq(after(warmest(1 .. first - 1)), reachTime(hc, t))
    <3> DEFINE S == {i \in DOMAIN h : tip(i) >= t}
               first == Min(S)
    <3>1. CASE t = tip(1)
      <4>1. first = 1
        <5>1. 1 \in S /\ S \in SUBSET Nat /\ \A i \in S : 1 <= i
          BY <2>1, <2>3, <2>4, <3>1
        <5> HIDE DEF S
        <5>2. first \in S /\ first <= 1 /\ 1 <= first
          BY <5>1, MinIs
        <5>3. first \in Nat
          BY <5>1, <5>2
        <5> HIDE DEF first
        <5> QED
          BY <5>2, <5>3
      <4>2. reachTime(hc, t) = Whole(0)
        BY <2>3, <2>8, <3>1 DEF reachTime
      <4>3. after(1) = Whole(0)
        BY <2>3, <2>4
      <4>4. Leq(Whole(0), Whole(0))
        BY WholeInQ, OrderOfQ
      <4> QED
        BY <4>1, <4>2, <4>3, <4>4
    <3>2. CASE t # tip(1)
      <4>1. hc.reach[1].temp < t
        BY <2>3, <2>4, <2>8, <3>2
      <4>2. PICK i : /\ Between(hc.reach, i, t)
                     /\ reachTime(hc, t) = Line(hc.reach[i - 1].sec, hc.reach[i].sec,
                                                t - hc.reach[i - 1].temp,
                                                hc.reach[i].temp - hc.reach[i - 1].temp)
        BY <2>2, <2>8, <4>1, ReachTimeOnLine
      <4>3. /\ Leq(Whole(hc.reach[i - 1].sec), reachTime(hc, t))
            /\ Leq(reachTime(hc, t), Whole(hc.reach[i].sec))
        <5>1. t <= t /\ t \in Int
          BY <2>8
        <5>2. LET at == Line(hc.reach[i - 1].sec, hc.reach[i].sec, t - hc.reach[i - 1].temp,
                             hc.reach[i].temp - hc.reach[i - 1].temp)
              IN  Leq(Whole(hc.reach[i - 1].sec), at) /\ Leq(at, Whole(hc.reach[i].sec))
          BY <2>2, <2>7, <4>2, <5>1, ReachTimeBetween
        <5> QED
          BY <4>2, <5>2
      <4>4. /\ first = idx[i] /\ Warmest(h, first - 1) = idx[i - 1]
        <5>1. /\ FirstReading(h, t) = idx[i]
              /\ Warmest(h, idx[i] - 1) = idx[i - 1]
          <6>1. Between(hc.reach, i, t) /\ t \in Int
            BY <2>8, <4>2
          <6> HIDE DEF temps
          <6> QED
            BY <2>2, <6>1, FirstAtLeast
        <5> QED
          BY <2>1, <5>1 DEF FirstReading
      <4>5. i \in 1 .. Len(hc.reach) /\ i - 1 \in 1 .. Len(hc.reach)
        <5>1. i \in 2 .. Len(hc.reach) /\ Len(hc.reach) \in Nat
          BY <2>2, <4>2, CurvePoints DEF Between, Remembers
        <5> QED
          BY <5>1
      <4>6. after(first) = Whole(hc.reach[i].sec)
        BY <2>6, <4>4, <4>5
      <4>7. after(warmest(1 .. first - 1)) = Whole(hc.reach[i - 1].sec)
        BY <2>5, <2>6, <4>4, <4>5
      <4> QED
        BY <4>3, <4>6, <4>7
    <3> QED
      BY <3>1, <3>2
  <2>10. ASSUME NEW t \in temps, NEW u \in temps, t <= u
         PROVE  Leq(reachTime(hc, t), reachToTarget(hc, u))
    <3>1. reachToTarget(hc, u) = reachTime(hc, u)
      BY <2>8 DEF reachToTarget
    <3>2. Leq(reachTime(hc, t), reachTime(hc, u))
      BY <2>2, <2>7, <2>8, <2>10, ReachTimeRises
    <3> QED
      BY <3>1, <3>2
  <2>11. hc.maxReach = tip(warmest(DOMAIN h))
    BY <2>1, <2>3, <2>5
  <2> QED
    BY <2>9, <2>10, <2>11 DEF CurveFollowsReadings, h, hc
<1> QED
  BY <1>1, <1>2, ReadingsStep, TimeStep, PTL DEF Spec

(***************************************************************************)
(* What the past cooks say                                                 *)
(***************************************************************************)

\* What is learned from a finished cook, as numbers.
LEMMA LearnedIsNumeric ==
    ASSUME NEW c \in PastCooks, Teaches(c.pts), NEW hc, hc = buildHistCook(c)
    PROVE  /\ hc.chamberAvg \in Q /\ hc.finalRate \in Q
           /\ hc.maxReach \in Int /\ hc.reach[Len(hc.reach)].sec \in Int
           /\ \E idx : Remembers(hc, c.pts, idx)
<1> DEFINE pts == c.pts
           reach == hc.reach
           n == Len(reach)
<1>1. pts \in Seq(Kinds) /\ pts # <<>> /\ DOMAIN pts = 1 .. Len(pts) /\ Len(pts) \in Nat
      /\ Len(pts) # 0
  BY CooksRecorded DEF Teaches, Kinds
<1>2. PICK idx : Remembers(hc, pts, idx)
  BY <1>1, CookRemembers
<1>3. /\ hc.chamberAvg = Ratio(SumFunction([i \in DOMAIN pts |-> pts[i].amb]), Len(pts))
      /\ hc.finalRate = finalRise(reach)
  BY DEF buildHistCook
<1>4. hc.maxReach = reach[n].temp
  BY <1>2 DEF Remembers
<1>5. /\ n \in Nat \ {0} /\ n \in 1 .. n
      /\ \A k \in 1 .. n : reach[k].temp \in Int /\ reach[k].sec \in Int
  BY <1>2, CurvePoints DEF Remembers
<1> HIDE DEF pts, reach, n
<1>6. hc.chamberAvg \in Q
  <2> DEFINE f == [i \in 1 .. Len(pts) |-> pts[i].amb]
  <2>1. f \in [1 .. Len(pts) -> Int]
    BY <1>1, FieldsAreWhole
  <2>2. IsFiniteSet(1 .. Len(pts))
    BY <1>1, FS_Interval
  <2>3. hc.chamberAvg = Ratio(SumFunction(f), Len(pts))
    BY <1>1, <1>3
  <2> HIDE DEF f
  <2>4. SumFunction(f) \in Int
    BY <2>1, <2>2, SumIsInteger
  <2> QED
    BY <1>1, <2>3, <2>4, RatioValue
<1>7. finalRise(reach) \in Q
  <2> DEFINE hi == reach[n]
             far == {k \in 1 .. n - 1 : hi.temp - reach[k].temp >= FinalSpan}
             f == IF far = {} THEN 1 ELSE Max(far)
             lo == reach[f]
  <2>1. finalRise(reach) = IF hi.sec > lo.sec
                           THEN Ratio(hi.temp - lo.temp, hi.sec - lo.sec) ELSE Whole(0)
    BY DEF finalRise, Last, n
  <2>2. f \in 1 .. n
    <3>1. n - 1 \in Nat /\ far \in SUBSET (1 .. n - 1)
      BY <1>5
    <3> HIDE DEF far
    <3>2. far # {} => Max(far) \in 1 .. n - 1
      BY <3>1, MaxIs
    <3> QED
      BY <1>5, <3>2
  <2>3. /\ hi.sec \in Int /\ hi.temp \in Int
        /\ lo.sec \in Int /\ lo.temp \in Int
    <3> HIDE DEF f
    <3> QED
      BY <1>5, <2>2
  <2> HIDE DEF hi, lo
  <2>4. CASE hi.sec > lo.sec
    <3>1. hi.temp - lo.temp \in Int /\ hi.sec - lo.sec \in Int /\ hi.sec - lo.sec # 0
      BY <2>3, <2>4
    <3> QED
      BY <2>1, <2>4, <3>1, RatioValue
  <2>5. CASE ~(hi.sec > lo.sec)
    BY <2>1, <2>5, WholeInQ
  <2> QED
    BY <2>4, <2>5
<1> QED
  BY <1>2, <1>3, <1>4, <1>5, <1>6, <1>7 DEF pts, reach, n

\* The times of a remembered cook are numbers.
LEMMA TimesInQ ==
    ASSUME NEW c \in PastCooks, Teaches(c.pts), NEW hc, hc = buildHistCook(c),
           NEW tip \in Int, NEW tgt \in Int
    PROVE  /\ reachTime(hc, tip) \in Q /\ reachToTarget(hc, tgt) \in Q
           /\ Remaining(hc, tip, tgt) \in Q
<1>1. /\ hc.finalRate \in Q /\ hc.maxReach \in Int /\ hc.reach[Len(hc.reach)].sec \in Int
  BY LearnedIsNumeric
<1>2. PICK idx : Remembers(hc, c.pts, idx)
  BY LearnedIsNumeric
<1>3. hc.reach[1].temp \in Int
  <2>1. 1 \in 1 .. Len(hc.reach)
    BY <1>2, CurvePoints DEF Remembers
  <2> QED
    BY <1>2, <2>1, CurvePoints DEF Remembers
<1>4. \A t \in Int : reachTime(hc, t) \in Q
  <2> SUFFICES ASSUME NEW t \in Int PROVE reachTime(hc, t) \in Q
    OBVIOUS
  <2>1. CASE t <= hc.reach[1].temp
    BY <2>1, WholeInQ DEF reachTime
  <2>2. CASE t > hc.maxReach
    BY <2>2, WholeInQ DEF reachTime, Unknown
  <2>3. CASE hc.reach[1].temp < t /\ t <= hc.maxReach
    <3>1. PICK i : /\ Between(hc.reach, i, t)
                   /\ reachTime(hc, t) = Line(hc.reach[i - 1].sec, hc.reach[i].sec,
                                              t - hc.reach[i - 1].temp,
                                              hc.reach[i].temp - hc.reach[i - 1].temp)
      BY <1>2, <2>3, ReachTimeOnLine
    <3>2. i - 1 \in 1 .. Len(hc.reach) /\ i \in 1 .. Len(hc.reach)
      <4>1. i \in 2 .. Len(hc.reach) /\ Len(hc.reach) \in Nat
        BY <1>2, <3>1, CurvePoints DEF Between, Remembers
      <4> QED
        BY <4>1
    <3> DEFINE a == hc.reach[i - 1].sec
               b == hc.reach[i].sec
               m == t - hc.reach[i - 1].temp
               d == hc.reach[i].temp - hc.reach[i - 1].temp
    <3>3. /\ a \in Int /\ b \in Int
          /\ hc.reach[i - 1].temp \in Int /\ hc.reach[i].temp \in Int
      BY <1>2, <3>2, CurvePoints DEF Remembers
    <3>4. m \in Int /\ d \in Int /\ d # 0
      BY <3>1, <3>3 DEF Between
    <3> HIDE DEF a, b, m, d
    <3>5. a * d + m * (b - a) \in Int
      BY <3>3, <3>4
    <3>6. Line(a, b, m, d) \in Q
      BY <3>4, <3>5, RatioValue DEF Line
    <3> QED
      BY <3>1, <3>6 DEF a, b, m, d
  <2> QED
    BY <1>1, <1>3, <2>1, <2>2, <2>3
<1>5. reachToTarget(hc, tgt) \in Q
  <2>1. CASE tgt <= hc.maxReach
    BY <1>4, <2>1 DEF reachToTarget
  <2>2. CASE ~(tgt <= hc.maxReach) /\ (tgt - hc.maxReach > ReachTol \/ ~Positive(hc.finalRate))
    BY <2>2, WholeInQ DEF reachToTarget, Unknown
  <2>3. CASE ~(tgt <= hc.maxReach) /\ ~(tgt - hc.maxReach > ReachTol) /\ Positive(hc.finalRate)
    <3> DEFINE gap == Whole(tgt - hc.maxReach)
               q == Div(gap, hc.finalRate)
               l == Whole(hc.reach[Len(hc.reach)].sec)
    <3>1. reachToTarget(hc, tgt) = Add(l, q)
      BY <2>3 DEF reachToTarget, Last
    <3>2. gap \in Q /\ l \in Q
      BY <1>1, WholeInQ
    <3> HIDE DEF gap, l
    <3>3. hc.finalRate[1] # 0
      BY <1>1, <2>3, Parts DEF Positive
    <3>4. q \in Q
      BY <1>1, <3>2, <3>3, Operations
    <3> HIDE DEF q
    <3> QED
      BY <3>1, <3>2, <3>4, Operations
  <2> QED
    BY <2>1, <2>2, <2>3
<1>6. Remaining(hc, tip, tgt) \in Q
  BY <1>4, <1>5, Operations DEF Remaining
<1> QED
  BY <1>4, <1>5, <1>6

\* Products and quotients of positive numbers are positive.
LEMMA Signs ==
    ASSUME NEW a \in Q, NEW b \in Q
    PROVE  /\ a[1] >= 0 /\ b[1] >= 0 => Mul(a, b)[1] >= 0
           /\ a[1] > 0 /\ b[1] > 0 => Mul(a, b)[1] > 0 /\ Div(a, b)[1] > 0
<1> DEFINE m == Mul(a, b)
           d == Div(a, b)
<1>1. /\ a[1] \in Int /\ a[2] \in Int /\ a[2] > 0
      /\ b[1] \in Int /\ b[2] \in Int /\ b[2] > 0
  BY Parts
<1>2. m \in Q /\ m[1] * (a[2] * b[2]) = (a[1] * b[1]) * m[2]
  BY Operations
<1>3. b[1] # 0 => d \in Q /\ d[1] * (a[2] * b[1]) = (a[1] * b[2]) * d[2]
  BY Operations
<1> HIDE DEF m, d
<1>4. a[2] * b[2] \in Int /\ a[2] * b[2] > 0
  BY <1>1
<1>5. m[1] \in Int /\ m[2] \in Int /\ m[2] > 0
  BY <1>2, Parts
<1>6. ASSUME a[1] >= 0, b[1] >= 0 PROVE m[1] >= 0
  <2>1. a[1] * b[1] >= 0 /\ a[1] * b[1] \in Int
    BY <1>1, <1>6
  <2>2. (a[1] * b[1]) * m[2] >= 0
    BY <1>5, <2>1
  <2>3. 0 * (a[2] * b[2]) <= m[1] * (a[2] * b[2])
    BY <1>2, <1>4, <2>2
  <2> QED
    BY <1>4, <1>5, <2>3, Cancel
<1>7. ASSUME a[1] > 0, b[1] > 0 PROVE m[1] > 0 /\ d[1] > 0
  <2>1. a[1] * b[1] > 0 /\ a[1] * b[1] \in Int
    BY <1>1, <1>7
  <2>2. (a[1] * b[1]) * m[2] > 0
    BY <1>5, <2>1
  <2>3. 0 * (a[2] * b[2]) < m[1] * (a[2] * b[2])
    BY <1>2, <1>4, <2>2
  <2>4. m[1] > 0
    BY <1>4, <1>5, <2>3, Cancel
  <2>5. d[1] \in Int /\ d[2] \in Int /\ d[2] > 0
    BY <1>1, <1>3, <1>7, Parts
  <2>6. a[1] * b[2] > 0 /\ a[1] * b[2] \in Int /\ a[2] * b[1] > 0 /\ a[2] * b[1] \in Int
    BY <1>1, <1>7
  <2>7. (a[1] * b[2]) * d[2] > 0
    BY <2>5, <2>6
  <2>8. 0 * (a[2] * b[1]) < d[1] * (a[2] * b[1])
    BY <1>1, <1>3, <1>7, <2>6, <2>7
  <2>9. d[1] > 0
    BY <2>5, <2>6, <2>8, Cancel
  <2> QED
    BY <2>4, <2>9
<1> QED
  BY <1>6, <1>7 DEF m, d

\* What is not less than a number above zero is above zero.
LEMMA AboveZero ==
    ASSUME NEW a \in Q, NEW b \in Q, Leq(a, b)
    PROVE  (a[1] > 0 => b[1] > 0) /\ (a[1] >= 0 => b[1] >= 0)
<1>1. /\ a[1] \in Int /\ a[2] \in Int /\ a[2] > 0
      /\ b[1] \in Int /\ b[2] \in Int /\ b[2] > 0
  BY Parts
<1>2. a[1] * b[2] <= b[1] * a[2]
  BY DEF Leq
<1>3. ASSUME a[1] > 0 PROVE b[1] > 0
  <2>1. a[1] * b[2] > 0
    BY <1>1, <1>3
  <2>2. 0 * a[2] < b[1] * a[2]
    BY <1>1, <1>2, <2>1
  <2> QED
    BY <1>1, <2>2, Cancel
<1>4. ASSUME a[1] >= 0 PROVE b[1] >= 0
  <2>1. a[1] * b[2] >= 0
    BY <1>1, <1>4
  <2>2. 0 * a[2] <= b[1] * a[2]
    BY <1>1, <1>2, <2>1
  <2> QED
    BY <1>1, <2>2, Cancel
<1> QED
  BY <1>3, <1>4

\* What is clamped lies between the bounds.
LEMMA ClampIs ==
    ASSUME NEW v \in Q, NEW lo \in Q, NEW hi \in Q, Leq(lo, hi)
    PROVE  /\ clampF(v, lo, hi) \in Q
           /\ Leq(lo, clampF(v, lo, hi)) /\ Leq(clampF(v, lo, hi), hi)
<1> DEFINE m == MinQ(v, hi)
<1>1. m \in Q /\ Leq(m, hi)
  BY OrderOfQ DEF MinQ
<1> HIDE DEF m
<1>2. MaxQ(lo, m) \in Q /\ Leq(lo, MaxQ(lo, m)) /\ Leq(MaxQ(lo, m), hi)
  BY <1>1, OrderOfQ DEF MaxQ
<1> QED
  BY <1>2 DEF clampF, m

\* A half and two.
LEMMA ClampBounds ==
    /\ Ratio(1, 2) \in Q /\ Ratio(1, 2)[1] > 0 /\ Whole(2) \in Q
    /\ Leq(Ratio(1, 2), Whole(2))
<1> DEFINE h == Ratio(1, 2)
<1>1. h \in Q /\ h[1] * 2 = 1 * h[2]
  BY RatioValue
<1> HIDE DEF h
<1>2. h[1] \in Int /\ h[2] \in Int /\ h[2] > 0
  BY <1>1, Parts
<1>3. h[1] > 0 /\ h[1] * 1 <= 2 * h[2]
  BY <1>1, <1>2
<1> QED
  BY <1>1, <1>3, WholeInQ DEF h, Leq, Whole

\* What a past cook had left is positive, scaled or not.
LEMMA ScaledIsPositive ==
    ASSUME NEW c \in PastCooks, Teaches(c.pts), NEW hc, hc = buildHistCook(c),
           NEW tip \in Int, NEW tgt \in Int, NEW chamber \in Q,
           Positive(Remaining(hc, tip, tgt))
    PROVE  Scaled(hc, tip, chamber, tgt) \in Q /\ Scaled(hc, tip, chamber, tgt)[1] > 0
<1> DEFINE gapNow == Sub(chamber, Whole(tip))
           gapHist == Sub(hc.chamberAvg, Whole(tip))
           half == Ratio(1, 2)
           least == Ratio(Degree, 2)
           rem == Remaining(hc, tip, tgt)
           f == clampF(Div(gapHist, gapNow), half, Whole(2))
<1>1. rem \in Q /\ rem[1] > 0
  BY TimesInQ DEF Positive
<1>2. hc.chamberAvg \in Q
  BY LearnedIsNumeric
<1>3. gapNow \in Q /\ gapHist \in Q
  BY <1>2, WholeInQ, Operations
<1>4. /\ half \in Q /\ half[1] > 0 /\ Whole(2) \in Q /\ Leq(half, Whole(2))
  BY ClampBounds
<1>5. Scaled(hc, tip, chamber, tgt)
         = IF Lt(least, gapNow) /\ Lt(least, gapHist) THEN Mul(rem, f) ELSE rem
  BY DEF Scaled
<1>8. least \in Q /\ least[1] >= 0
  <2>1. least \in Q /\ least[1] * 2 = Degree * least[2]
    BY UnitsPositive, RatioValue
  <2> HIDE DEF least
  <2>2. least[1] \in Int /\ least[2] \in Int /\ least[2] > 0
    BY <2>1, Parts
  <2>3. Degree * least[2] >= 0
    BY <2>2, UnitsPositive
  <2> QED
    BY <2>1, <2>2, <2>3
<1> HIDE DEF gapNow, gapHist, half, least, rem
<1>6. CASE Lt(least, gapNow) /\ Lt(least, gapHist)
  <2>1. gapNow[1] > 0
    BY <1>3, <1>6, <1>8, AboveIsPositive
  <2>2. Div(gapHist, gapNow) \in Q
    BY <1>3, <2>1, Operations
  <2>3. f \in Q /\ Leq(half, f)
    BY <1>4, <2>2, ClampIs
  <2> HIDE DEF f
  <2>4. f[1] > 0
    BY <1>4, <2>3, AboveZero
  <2> QED
    BY <1>1, <1>5, <1>6, <2>3, <2>4, Operations, Signs
<1>7. CASE ~(Lt(least, gapNow) /\ Lt(least, gapHist))
  BY <1>1, <1>5, <1>7
<1> QED
  BY <1>6, <1>7

\* The model is finite, its cooks are told apart by their ids.
LEMMA LearnedIsFinite ==
    ASSUME LearnedInv
    PROVE  /\ IsFiniteSet(histModel)
           /\ \A a, b \in histModel : a.id \in Int /\ (a.id = b.id => a = b)
<1> DEFINE f == [c \in PastCooks |-> buildHistCook(c)]
           T == {f[c] : c \in PastCooks}
<1>1. IsFiniteSet(T)
  <2>1. f \in Surjection(PastCooks, T)
    BY DEF Surjection
  <2> HIDE DEF f, T
  <2> QED
    BY <2>1, CooksRecorded, FS_Surjection
<1>2. \A hc \in histModel : \E c \in PastCooks : hc = buildHistCook(c) /\ hc.id = c.id
  <2> SUFFICES ASSUME NEW hc \in histModel
               PROVE  \E c \in PastCooks : hc = buildHistCook(c) /\ hc.id = c.id
    OBVIOUS
  <2>1. PICK c \in PastCooks : hc = buildHistCook(c)
    BY DEF LearnedInv
  <2>2. buildHistCook(c).id = c.id
    BY DEF buildHistCook
  <2> QED
    BY <2>1, <2>2
<1>3. histModel \in SUBSET T
  BY <1>2
<1>4. IsFiniteSet(histModel)
  BY <1>1, <1>3, FS_Subset
<1>5. ASSUME NEW a \in histModel, NEW b \in histModel
      PROVE  a.id \in Int /\ (a.id = b.id => a = b)
  <2>1. PICK c \in PastCooks : a = buildHistCook(c) /\ a.id = c.id
    BY <1>2
  <2>2. PICK d \in PastCooks : b = buildHistCook(d) /\ b.id = d.id
    BY <1>2
  <2>3. c.id \in Int
    BY CooksRecorded
  <2>4. c.id = d.id => c = d
    BY CooksRecorded
  <2> QED
    BY <2>1, <2>2, <2>3, <2>4
<1> QED
  BY <1>4, <1>5

\* Estimates to take the middle and the range of: positive, from the least on.
Estimates(s) ==
    /\ Len(s) \in Nat
    /\ \A k \in 1 .. Len(s) : s[k] \in Q /\ s[k][1] > 0
    /\ \A k, l \in 1 .. Len(s) : k <= l => Leq(s[k], s[l])

\* Those of the past cooks that compare are.
LEMMA UsedAreEstimates ==
    ASSUME LearnedInv, NEW tip \in Int, NEW tgt \in Int, NEW chamber \in Q, NEW want
    PROVE  Estimates(Used(histModel, tip, chamber, tgt, want))
<1> DEFINE rem(hc) == Scaled(hc, tip, chamber, tgt)
           fit == {hc \in histModel : Comparable(hc, tip, tgt, want)}
           R == {p \in fit \X fit : \/ Lt(rem(p[1]), rem(p[2]))
                                    \/ rem(p[1]) = rem(p[2]) /\ p[1].id < p[2].id}
           use == Ordered(fit, R)
           s == Used(histModel, tip, chamber, tgt, want)
<1>1. s = [k \in 1 .. Len(use) |-> rem(use[k])]
  BY DEF Used
<1>2. \A hc \in fit : rem(hc) \in Q /\ rem(hc)[1] > 0
  <2> SUFFICES ASSUME NEW hc \in fit PROVE rem(hc) \in Q /\ rem(hc)[1] > 0
    OBVIOUS
  <2>1. PICK c \in PastCooks : Teaches(c.pts) /\ hc = buildHistCook(c)
    BY DEF LearnedInv
  <2>2. Positive(Remaining(hc, tip, tgt))
    BY DEF Comparable
  <2> QED
    BY <2>1, <2>2, ScaledIsPositive
<1>3. IsFiniteSet(fit) /\ \A a, b \in fit : a.id \in Int /\ (a.id = b.id => a = b)
  <2>1. fit \in SUBSET histModel
    OBVIOUS
  <2> HIDE DEF fit
  <2> QED
    BY <2>1, LearnedIsFinite, FS_Subset
<1>4. \A a, b \in fit : <<a, b>> \in R <=> \/ Lt(rem(a), rem(b))
                                           \/ rem(a) = rem(b) /\ a.id < b.id
  <2> HIDE DEF fit, rem
  <2> QED
    OBVIOUS
<1> HIDE DEF fit, R, rem
<1>5. StrictOrder(fit, R)
  <2>1. ASSUME NEW a \in fit PROVE <<a, a>> \notin R
    <3>1. ~Lt(rem(a), rem(a)) /\ ~(a.id < a.id)
      BY <1>2, <1>3, OrderOfQ
    <3> QED
      BY <1>4, <3>1
  <2>2. ASSUME NEW a \in fit, NEW b \in fit, a # b PROVE <<a, b>> \in R \/ <<b, a>> \in R
    <3>1. rem(a) \in Q /\ rem(b) \in Q
      BY <1>2
    <3>2. Lt(rem(a), rem(b)) \/ Lt(rem(b), rem(a)) \/ rem(a) = rem(b)
      BY <3>1, OrderOfQ
    <3>3. a.id \in Int /\ b.id \in Int /\ a.id # b.id
      BY <1>3, <2>2
    <3>4. a.id < b.id \/ b.id < a.id
      BY <3>3
    <3> QED
      BY <1>4, <3>2, <3>4
  <2>3. ASSUME NEW a \in fit, NEW b \in fit, NEW c \in fit, <<a, b>> \in R, <<b, c>> \in R
        PROVE  <<a, c>> \in R
    <3>1. rem(a) \in Q /\ rem(b) \in Q /\ rem(c) \in Q
      BY <1>2
    <3>2. Lt(rem(a), rem(b)) \/ (rem(a) = rem(b) /\ a.id < b.id)
      BY <1>4, <2>3
    <3>3. Lt(rem(b), rem(c)) \/ (rem(b) = rem(c) /\ b.id < c.id)
      BY <1>4, <2>3
    <3>4. /\ Leq(rem(a), rem(b)) /\ Leq(rem(b), rem(c)) => Leq(rem(a), rem(c))
          /\ Leq(rem(b), rem(c)) /\ Leq(rem(c), rem(a)) => Leq(rem(b), rem(a))
          /\ Leq(rem(c), rem(a)) /\ Leq(rem(a), rem(b)) => Leq(rem(c), rem(b))
      BY <3>1, OrderOfQ
    <3>5. /\ Lt(rem(a), rem(b)) <=> ~Leq(rem(b), rem(a))
          /\ Lt(rem(b), rem(c)) <=> ~Leq(rem(c), rem(b))
          /\ Lt(rem(a), rem(c)) <=> ~Leq(rem(c), rem(a))
          /\ Leq(rem(a), rem(b)) \/ Leq(rem(b), rem(a))
          /\ Leq(rem(b), rem(c)) \/ Leq(rem(c), rem(b))
      BY <3>1, OrderOfQ
    <3>6. CASE rem(a) = rem(b) /\ rem(b) = rem(c)
      <4>1. a.id \in Int /\ b.id \in Int /\ c.id \in Int
        BY <1>3
      <4>2. ~Lt(rem(a), rem(b)) /\ ~Lt(rem(b), rem(c))
        BY <3>1, <3>6, OrderOfQ
      <4>3. a.id < c.id
        BY <3>2, <3>3, <4>1, <4>2
      <4> QED
        BY <1>4, <3>6, <4>3
    <3>7. CASE ~(rem(a) = rem(b) /\ rem(b) = rem(c))
      <4>1. Leq(rem(a), rem(a)) /\ Leq(rem(b), rem(b)) /\ Leq(rem(c), rem(c))
        BY <3>1, OrderOfQ
      <4>2. Lt(rem(a), rem(c))
        BY <3>2, <3>3, <3>4, <3>5, <3>7, <4>1
      <4> QED
        BY <1>4, <4>2
    <3> QED
      BY <3>6, <3>7
  <2> QED
    BY <2>1, <2>2, <2>3 DEF StrictOrder
<1>6. Sorts(use, fit, R)
  BY <1>3, <1>5, OrderedSorts
<1> HIDE DEF use, s
<1>7. Len(use) \in Nat /\ \A k \in 1 .. Len(use) : use[k] \in fit
  BY <1>6 DEF Sorts
<1>8. Len(s) = Len(use) /\ \A k \in 1 .. Len(use) : s[k] = rem(use[k])
  <2>1. s \in Seq({rem(use[k]) : k \in 1 .. Len(use)})
    BY <1>1, <1>7
  <2>2. DOMAIN s = 1 .. Len(s) /\ Len(s) \in Nat
    BY <2>1
  <2>3. DOMAIN s = 1 .. Len(use)
    BY <1>1
  <2>5. Len(s) = Len(use)
    BY <1>7, <2>2, <2>3, SameLength
  <2> QED
    BY <1>1, <2>5
<1>9. ASSUME NEW k \in 1 .. Len(use), NEW l \in 1 .. Len(use), k <= l PROVE Leq(s[k], s[l])
  <2>1. s[k] = rem(use[k]) /\ s[l] = rem(use[l]) /\ use[k] \in fit /\ use[l] \in fit
    BY <1>7, <1>8
  <2>2. s[k] \in Q /\ s[l] \in Q
    BY <1>2, <2>1
  <2>3. CASE k = l
    BY <2>2, <2>3, OrderOfQ
  <2>4. CASE k < l
    <3>1. <<use[k], use[l]>> \in R
      BY <1>6, <2>4 DEF Sorts
    <3>2. Lt(s[k], s[l]) \/ s[k] = s[l]
      BY <1>4, <2>1, <3>1
    <3> QED
      BY <2>2, <3>2, OrderOfQ
  <2> QED
    BY <1>7, <1>9, <2>3, <2>4
<1>10. ASSUME NEW k \in 1 .. Len(use) PROVE s[k] \in Q /\ s[k][1] > 0
  BY <1>2, <1>7, <1>8
<1> QED
  BY <1>7, <1>8, <1>9, <1>10 DEF Estimates, s

\* The middle of two numbers lies between them.
LEMMA Halfway ==
    ASSUME NEW a \in Q, NEW b \in Q, Leq(a, b)
    PROVE  LET m == Div(Add(a, b), Whole(2)) IN m \in Q /\ Leq(a, m) /\ Leq(m, b)
<1> DEFINE s == Add(a, b)
           m == Div(s, Whole(2))
<1>1. /\ a[1] \in Int /\ a[2] \in Int /\ a[2] > 0
      /\ b[1] \in Int /\ b[2] \in Int /\ b[2] > 0
  BY Parts
<1>2. s \in Q /\ s[1] * (a[2] * b[2]) = (a[1] * b[2] + b[1] * a[2]) * s[2]
  BY Operations
<1>3. m \in Q /\ m[1] * (s[2] * 2) = (s[1] * 1) * m[2]
  <2>1. Whole(2) \in Q /\ Whole(2)[1] = 2 /\ Whole(2)[2] = 1
    BY WholeInQ DEF Whole
  <2> HIDE DEF s
  <2> QED
    BY <1>2, <2>1, Operations
<1> HIDE DEF s, m
<1>4. /\ s[1] \in Int /\ s[2] \in Int /\ s[2] > 0
      /\ m[1] \in Int /\ m[2] \in Int /\ m[2] > 0
  BY <1>2, <1>3, Parts
<1> DEFINE A == a[1] * b[2]
           B == b[1] * a[2]
<1>5. A \in Int /\ B \in Int /\ A <= B
  BY <1>1 DEF Leq
<1>6. m[1] * (2 * (a[2] * b[2])) = (A + B) * m[2]
  <2>1. (m[1] * (2 * (a[2] * b[2]))) * s[2] = (m[1] * (s[2] * 2)) * (a[2] * b[2])
    BY <1>1, <1>4
  <2>2. ((s[1] * 1) * m[2]) * (a[2] * b[2]) = (s[1] * (a[2] * b[2])) * m[2]
    BY <1>1, <1>4
  <2>3. ((A + B) * s[2]) * m[2] = ((A + B) * m[2]) * s[2]
    <3> HIDE DEF A, B
    <3> QED
      BY <1>4, <1>5
  <2>4. (m[1] * (2 * (a[2] * b[2]))) * s[2] = ((A + B) * m[2]) * s[2]
    BY <1>2, <1>3, <2>1, <2>2, <2>3
  <2>5. m[1] * (2 * (a[2] * b[2])) \in Int /\ (A + B) * m[2] \in Int
    <3> HIDE DEF A, B
    <3> QED
      BY <1>1, <1>4, <1>5
  <2> QED
    BY <1>4, <2>4, <2>5, Cancel
<1>7. Leq(a, m)
  <2>1. (a[1] * m[2]) * (2 * b[2]) = (2 * A) * m[2]
    BY <1>1, <1>4
  <2>2. (m[1] * a[2]) * (2 * b[2]) = m[1] * (2 * (a[2] * b[2]))
    BY <1>1, <1>4
  <2>3. (2 * A) * m[2] <= (A + B) * m[2]
    <3>1. 2 * A <= A + B /\ 2 * A \in Int /\ A + B \in Int
      BY <1>5
    <3> HIDE DEF A, B
    <3> QED
      BY <1>4, <3>1, Cancel
  <2>4. /\ a[1] * m[2] \in Int /\ m[1] * a[2] \in Int
        /\ 2 * b[2] \in Int /\ 2 * b[2] > 0
    BY <1>1, <1>4
  <2>5. (a[1] * m[2]) * (2 * b[2]) <= (m[1] * a[2]) * (2 * b[2])
    BY <1>6, <2>1, <2>2, <2>3
  <2> QED
    BY <2>4, <2>5, Cancel DEF Leq
<1>8. Leq(m, b)
  <2>1. (m[1] * b[2]) * (2 * a[2]) = m[1] * (2 * (a[2] * b[2]))
    BY <1>1, <1>4
  <2>2. (b[1] * m[2]) * (2 * a[2]) = (2 * B) * m[2]
    BY <1>1, <1>4
  <2>3. (A + B) * m[2] <= (2 * B) * m[2]
    <3>1. A + B <= 2 * B /\ 2 * B \in Int /\ A + B \in Int
      BY <1>5
    <3> HIDE DEF A, B
    <3> QED
      BY <1>4, <3>1, Cancel
  <2>4. /\ b[1] * m[2] \in Int /\ m[1] * b[2] \in Int
        /\ 2 * a[2] \in Int /\ 2 * a[2] > 0
    BY <1>1, <1>4
  <2>5. (m[1] * b[2]) * (2 * a[2]) <= (b[1] * m[2]) * (2 * a[2])
    BY <1>6, <2>1, <2>2, <2>3
  <2> QED
    BY <2>4, <2>5, Cancel DEF Leq
<1> QED
  BY <1>3, <1>7, <1>8 DEF m, s

\* The median lies between the least and the greatest.
LEMMA MedianIs ==
    ASSUME NEW s, Estimates(s), Len(s) # 0
    PROVE  /\ medianSorted(s) \in Q
           /\ Leq(s[1], medianSorted(s)) /\ Leq(medianSorted(s), s[Len(s)])
<1> DEFINE n == Len(s)
           h == n \div 2
<1>1. /\ n \in Nat \ {0}
      /\ \A k \in 1 .. n : s[k] \in Q
      /\ \A k, l \in 1 .. n : k <= l => Leq(s[k], s[l])
  BY DEF Estimates
<1>2. 1 \in 1 .. n /\ n \in 1 .. n
  BY <1>1
<1>3. medianSorted(s) = IF n % 2 = 1 THEN s[h + 1] ELSE Div(Add(s[h], s[h + 1]), Whole(2))
  BY DEF medianSorted
<1>4. h + 1 \in 1 .. n \/ n % 2 = 0
  BY <1>1
<1>5. n % 2 = 0 => h \in 1 .. n /\ h + 1 \in 1 .. n /\ h <= h + 1
  BY <1>1
<1>6. n % 2 = 0 \/ n % 2 = 1
  BY <1>1
<1> HIDE DEF n, h
<1>7. CASE n % 2 = 1
  <2>1. h + 1 \in 1 .. n /\ 1 <= h + 1 /\ h + 1 <= n
    BY <1>1, <1>4, <1>7
  <2>2. s[h + 1] \in Q /\ Leq(s[1], s[h + 1]) /\ Leq(s[h + 1], s[n])
    BY <1>1, <1>2, <2>1
  <2> QED
    BY <1>3, <1>7, <2>2 DEF n
<1>8. CASE n % 2 = 0
  <2> DEFINE a == s[h]
             b == s[h + 1]
             m == Div(Add(a, b), Whole(2))
  <2>1. /\ h \in 1 .. n /\ h + 1 \in 1 .. n /\ h <= h + 1
        /\ 1 <= h /\ h + 1 <= n
    BY <1>1, <1>5, <1>8
  <2>2. /\ a \in Q /\ b \in Q /\ Leq(a, b) /\ s[1] \in Q /\ s[n] \in Q
        /\ Leq(s[1], a) /\ Leq(b, s[n])
    BY <1>1, <1>2, <2>1
  <2>3. medianSorted(s) = m
    BY <1>3, <1>8
  <2> HIDE DEF a, b
  <2>4. m \in Q /\ Leq(a, m) /\ Leq(m, b)
    BY <2>2, Halfway
  <2> HIDE DEF m
  <2>5. Leq(s[1], m) /\ Leq(m, s[n])
    BY <2>2, <2>4, OrderOfQ
  <2> QED
    BY <2>3, <2>4, <2>5 DEF n
<1> QED
  BY <1>6, <1>7, <1>8

\* The sign of a quotient.
LEMMA SignOfRatio ==
    ASSUME NEW n \in Int, NEW d \in Int, d > 0
    PROVE  n >= 0 => Ratio(n, d)[1] >= 0
<1> DEFINE r == Ratio(n, d)
<1>1. r \in Q /\ r[1] * d = n * r[2]
  BY RatioValue
<1> HIDE DEF r
<1>2. r[1] \in Int /\ r[2] \in Int /\ r[2] > 0
  BY <1>1, Parts
<1> SUFFICES ASSUME n >= 0 PROVE r[1] >= 0
  BY DEF r
<1>3. n * r[2] >= 0
  BY <1>2
<1>4. 0 * d <= r[1] * d
  BY <1>1, <1>3
<1> QED
  BY <1>2, <1>4, Cancel

\* A share, from none to all.
Share(w) == w \in Q /\ w[1] >= 0 /\ w[1] <= w[2]

\* Shares of shares, and what remains of one, are shares.
LEMMA Shares ==
    ASSUME NEW w, Share(w), NEW x, Share(x)
    PROVE  Share(Mul(w, x)) /\ Sub(Whole(1), w) \in Q /\ Sub(Whole(1), w)[1] >= 0
<1>1. /\ w[1] \in Int /\ w[2] \in Int /\ w[2] > 0 /\ w[1] >= 0 /\ w[1] <= w[2]
      /\ x[1] \in Int /\ x[2] \in Int /\ x[2] > 0 /\ x[1] >= 0 /\ x[1] <= x[2]
      /\ w \in Q /\ x \in Q
  BY Parts DEF Share
<1>2. Share(Mul(w, x))
  <2> DEFINE m == Mul(w, x)
  <2>1. m \in Q /\ m[1] * (w[2] * x[2]) = (w[1] * x[1]) * m[2] /\ m[1] >= 0
    BY <1>1, Operations, Signs
  <2> HIDE DEF m
  <2>2. m[1] \in Int /\ m[2] \in Int /\ m[2] > 0
    BY <2>1, Parts
  <2>3. w[1] * x[1] <= w[2] * x[2]
    <3>1. w[1] * x[1] <= w[2] * x[1]
      BY <1>1
    <3>2. w[2] * x[1] <= w[2] * x[2]
      BY <1>1
    <3>3. w[1] * x[1] \in Int /\ w[2] * x[1] \in Int /\ w[2] * x[2] \in Int
      BY <1>1
    <3> QED
      BY <3>1, <3>2, <3>3
  <2>4. w[1] * x[1] \in Int /\ w[2] * x[2] \in Int /\ w[2] * x[2] > 0
    BY <1>1
  <2>5. (w[1] * x[1]) * m[2] <= (w[2] * x[2]) * m[2]
    BY <2>2, <2>3, <2>4, Cancel
  <2>6. (w[2] * x[2]) * m[2] = m[2] * (w[2] * x[2])
    BY <2>2, <2>4
  <2>7. m[1] * (w[2] * x[2]) <= m[2] * (w[2] * x[2])
    BY <2>1, <2>5, <2>6
  <2>8. m[1] <= m[2]
    BY <2>2, <2>4, <2>7, Cancel
  <2> QED
    BY <2>1, <2>8 DEF Share, m
<1>3. Sub(Whole(1), w) \in Q
  BY <1>1, WholeInQ, Operations
<1>4. Sub(Whole(1), w)[1] >= 0
  <2>1. Sub(Whole(1), w) = Ratio(1 * w[2] - w[1] * 1, 1 * w[2])
    BY DEF Sub, Whole
  <2>2. /\ 1 * w[2] - w[1] * 1 \in Int /\ 1 * w[2] - w[1] * 1 >= 0
        /\ 1 * w[2] \in Int /\ 1 * w[2] > 0
    BY <1>1
  <2> QED
    BY <2>1, <2>2, SignOfRatio
<1> QED
  BY <1>2, <1>3, <1>4

\* To multiply by what is not negative, or to add, keeps the order.
LEMMA KeepsOrder ==
    ASSUME NEW a \in Q, NEW b \in Q, NEW c \in Q, Leq(a, b)
    PROVE  /\ c[1] >= 0 => Leq(Mul(c, a), Mul(c, b))
           /\ Leq(Add(a, c), Add(b, c))
           /\ a[1] >= 0 /\ c[1] >= 0 => Add(a, c)[1] >= 0
<1>1. /\ a[1] \in Int /\ a[2] \in Int /\ a[2] > 0
      /\ b[1] \in Int /\ b[2] \in Int /\ b[2] > 0
      /\ c[1] \in Int /\ c[2] \in Int /\ c[2] > 0
  BY Parts
<1>2. a[1] * b[2] <= b[1] * a[2] /\ a[1] * b[2] \in Int /\ b[1] * a[2] \in Int
  BY <1>1 DEF Leq
<1>3. /\ c[2] * a[2] \in Int /\ c[2] * a[2] > 0 /\ c[2] * b[2] \in Int /\ c[2] * b[2] > 0
      /\ a[2] * c[2] \in Int /\ a[2] * c[2] > 0 /\ b[2] * c[2] \in Int /\ b[2] * c[2] > 0
      /\ c[1] * a[1] \in Int /\ c[1] * b[1] \in Int
      /\ a[1] * c[2] + c[1] * a[2] \in Int /\ b[1] * c[2] + c[1] * b[2] \in Int
  BY <1>1
<1>4. ASSUME c[1] >= 0 PROVE Leq(Mul(c, a), Mul(c, b))
  <2>1. (c[1] * a[1]) * (c[2] * b[2]) = (c[1] * c[2]) * (a[1] * b[2])
    BY <1>1
  <2>2. (c[1] * b[1]) * (c[2] * a[2]) = (c[1] * c[2]) * (b[1] * a[2])
    BY <1>1
  <2>3. (c[1] * c[2]) * (a[1] * b[2]) <= (c[1] * c[2]) * (b[1] * a[2])
    <3>1. c[1] * c[2] \in Int /\ c[1] * c[2] >= 0
      BY <1>1, <1>4
    <3>2. \A e, f, g \in Int : e >= 0 /\ f <= g => e * f <= e * g
      OBVIOUS
    <3> QED
      BY <1>2, <3>1, <3>2
  <2>4. (c[1] * a[1]) * (c[2] * b[2]) <= (c[1] * b[1]) * (c[2] * a[2])
    BY <2>1, <2>2, <2>3
  <2> QED
    BY <1>3, <2>4, RatiosCompare DEF Mul
<1>5. Leq(Add(a, c), Add(b, c))
  <2> DEFINE e == (c[1] * c[2]) * (a[2] * b[2])
  <2>1. (a[1] * c[2] + c[1] * a[2]) * (b[2] * c[2]) = (a[1] * b[2]) * (c[2] * c[2]) + e
    BY <1>1
  <2>2. (b[1] * c[2] + c[1] * b[2]) * (a[2] * c[2]) = (b[1] * a[2]) * (c[2] * c[2]) + e
    BY <1>1
  <2>3. (a[1] * b[2]) * (c[2] * c[2]) <= (b[1] * a[2]) * (c[2] * c[2])
    <3>1. c[2] * c[2] \in Int /\ c[2] * c[2] > 0
      BY <1>1
    <3> QED
      BY <1>2, <3>1, Cancel
  <2>4. (a[1] * b[2]) * (c[2] * c[2]) \in Int /\ (b[1] * a[2]) * (c[2] * c[2]) \in Int /\ e \in Int
    BY <1>1, <1>2
  <2> HIDE DEF e
  <2>5. (a[1] * c[2] + c[1] * a[2]) * (b[2] * c[2]) <= (b[1] * c[2] + c[1] * b[2]) * (a[2] * c[2])
    BY <2>1, <2>2, <2>3, <2>4
  <2> QED
    BY <1>3, <2>5, RatiosCompare DEF Add
<1>6. ASSUME a[1] >= 0, c[1] >= 0 PROVE Add(a, c)[1] >= 0
  <2>1. a[1] * c[2] >= 0 /\ c[1] * a[2] >= 0 /\ a[1] * c[2] \in Int /\ c[1] * a[2] \in Int
    BY <1>1, <1>6
  <2>2. a[1] * c[2] + c[1] * a[2] >= 0
    BY <2>1
  <2> QED
    BY <1>3, <2>2, SignOfRatio DEF Add
<1> QED
  BY <1>4, <1>5, <1>6

\* The physics estimate is unknown or not negative.
Foreseen(phys) == phys = Unknown \/ (phys \in Q /\ phys[1] >= 0)

\* What a status gives of an estimate that past cooks inform: it is not negative, and
\* within its range.
InRange(b) ==
    /\ b.source \in {"history", "blend"}
    /\ b.eta \in Q /\ b.low \in Q /\ b.high \in Q
    /\ b.eta[1] >= 0 /\ b.low[1] >= 0
    /\ Leq(b.low, b.eta) /\ Leq(b.eta, b.high)

\* Tempering keeps the range around the estimate.
LEMMA TemperedInOrder ==
    ASSUME NEW w, Share(w), NEW phys \in Q, phys[1] >= 0,
           NEW u \in Q, NEW v \in Q, u[1] >= 0, Leq(u, v)
    PROVE  LET temper(x) == Add(Mul(w, x), Mul(Sub(Whole(1), w), phys))
           IN  /\ temper(u) \in Q /\ temper(v) \in Q
               /\ Leq(temper(u), temper(v)) /\ temper(u)[1] >= 0
<1> DEFINE c == Mul(Sub(Whole(1), w), phys)
           a == Mul(w, u)
           b == Mul(w, v)
<1>1. w \in Q /\ w[1] >= 0
  BY DEF Share
<1>2. c \in Q /\ c[1] >= 0
  <2>1. Sub(Whole(1), w) \in Q /\ Sub(Whole(1), w)[1] >= 0
    BY Shares
  <2> QED
    BY <2>1, Operations, Signs
<1>3. a \in Q /\ b \in Q /\ a[1] >= 0 /\ Leq(a, b)
  BY <1>1, Operations, Signs, KeepsOrder
<1> HIDE DEF a, b, c
<1>4. Add(a, c) \in Q /\ Add(b, c) \in Q
  BY <1>2, <1>3, Operations
<1>5. Leq(Add(a, c), Add(b, c)) /\ Add(a, c)[1] >= 0
  BY <1>2, <1>3, KeepsOrder
<1> QED
  BY <1>4, <1>5 DEF a, b, c

\* The confidence in history is a share.
LEMMA WeightIsShare ==
    ASSUME NEW n \in Nat
    PROVE  Share(Mul(clampF(Ratio(n, 3), Whole(0), Whole(1)), BlendCap))
<1> DEFINE x == clampF(Ratio(n, 3), Whole(0), Whole(1))
<1>1. /\ Whole(0) \in Q /\ Whole(1) \in Q
      /\ Whole(0)[1] = 0 /\ Whole(0)[2] = 1 /\ Whole(1)[1] = 1 /\ Whole(1)[2] = 1
  BY WholeInQ DEF Whole
<1>2. Leq(Whole(0), Whole(1))
  BY <1>1 DEF Leq
<1>3. Ratio(n, 3) \in Q
  BY RatioValue
<1>4. x \in Q /\ Leq(Whole(0), x) /\ Leq(x, Whole(1))
  BY <1>1, <1>2, <1>3, ClampIs
<1> HIDE DEF x
<1>5. Share(x)
  <2>1. x[1] \in Int /\ x[2] \in Int
    BY <1>4, Parts
  <2> QED
    BY <1>1, <1>4, <2>1 DEF Share, Leq
<1>6. Share(BlendCap)
  <2>1. BlendCap \in Int \X (Nat \ {0}) /\ Ratio(BlendCap[1], BlendCap[2]) = BlendCap
    BY RatesRational DEF IsRational
  <2>2. BlendCap \in Q
    BY <2>1, RatioValue
  <2>3. BlendCap[1] \in Int /\ BlendCap[2] \in Int
    BY <2>1
  <2>4. ~(BlendCap[1] < 0) /\ BlendCap[1] * Whole(1)[2] <= Whole(1)[1] * BlendCap[2]
    BY RatesRational DEF Negative, Leq
  <2> QED
    BY <1>1, <2>2, <2>3, <2>4 DEF Share
<1> QED
  BY <1>5, <1>6, Shares DEF x

\* With past cooks, the estimate is within the range that comes with it.
LEMMA BlendInRange ==
    ASSUME NEW phys, Foreseen(phys), NEW use, Estimates(use), Len(use) # 0
    PROVE  InRange(blendETA(phys, use))
<1> DEFINE n == Len(use)
           b == blendETA(phys, use)
           w == Mul(clampF(Ratio(n, 3), Whole(0), Whole(1)), BlendCap)
           temper(v) == Add(Mul(w, v), Mul(Sub(Whole(1), w), phys))
           med == medianSorted(use)
<1>1. n \in Nat \ {0} /\ 1 \in 1 .. n /\ n \in 1 .. n
  BY DEF Estimates
<1>2. use[1] \in Q /\ use[1][1] > 0 /\ use[n] \in Q
  BY <1>1 DEF Estimates
<1>3. med \in Q /\ Leq(use[1], med) /\ Leq(med, use[n])
  BY <1>1, MedianIs
<1>4. use[1][1] >= 0 /\ med[1] >= 0
  <2>1. use[1][1] \in Int
    BY <1>2, Parts
  <2>2. med[1] > 0 /\ med[1] \in Int
    BY <1>2, <1>3, AboveZero, Parts
  <2> QED
    BY <1>2, <2>1, <2>2
<1>5. CASE phys = Unknown
  <2>1. b = [eta |-> med, source |-> "history", low |-> use[1], high |-> use[n]]
    BY <1>1, <1>5 DEF blendETA, Last
  <2> HIDE DEF b, med, n
  <2> QED
    BY <1>2, <1>3, <1>4, <2>1 DEF InRange, b
<1>6. CASE phys # Unknown
  <2>1. phys \in Q /\ phys[1] >= 0
    BY <1>6 DEF Foreseen
  <2>2. b = [eta |-> temper(med), source |-> "blend", low |-> temper(use[1]), high |-> temper(use[n])]
    BY <1>1, <1>6 DEF blendETA, Last
  <2>3. Share(w)
    BY <1>1, WeightIsShare
  <2> HIDE DEF w, b, med, n
  <2>4. /\ temper(use[1]) \in Q /\ temper(med) \in Q
        /\ Leq(temper(use[1]), temper(med)) /\ temper(use[1])[1] >= 0
    BY <1>2, <1>3, <1>4, <2>1, <2>3, TemperedInOrder
  <2>5. /\ temper(use[n]) \in Q
        /\ Leq(temper(med), temper(use[n])) /\ temper(med)[1] >= 0
    BY <1>2, <1>3, <1>4, <2>1, <2>3, TemperedInOrder
  <2> HIDE DEF temper
  <2> QED
    BY <2>2, <2>4, <2>5 DEF InRange, b
<1> QED
  BY <1>5, <1>6

\* A bar of i tenths of a percent is full when these are all there are.
LEMMA LastTenth ==
    ASSUME NEW i \in Int, Ratio(100 * i, BarSteps) = Whole(100)
    PROVE  i = BarSteps
<1> DEFINE r == Ratio(100 * i, BarSteps)
<1>1. r[1] * BarSteps = (100 * i) * r[2]
  BY UnitsPositive, RatioValue
<1>2. r[1] = 100 /\ r[2] = 1
  BY DEF Whole
<1> HIDE DEF r
<1>3. 100 * BarSteps = 100 * i
  BY <1>1, <1>2
<1> QED
  BY <1>3, UnitsPositive

\* A bar that is full stays so when it is rounded.
LEMMA FullStaysFull == round1(Whole(100)) = Whole(100)
<1> DEFINE r == Ratio(100 * BarSteps, BarSteps)
<1>1. BarSteps \in Int /\ BarSteps # 0
  BY UnitsPositive
<1>2. r \in Q /\ r[1] * BarSteps = (100 * BarSteps) * r[2]
  BY <1>1, RatioValue
<1>3. (2 * BarSteps * 100 + 100 * 1) \div (200 * 1) = BarSteps
  BY <1>1
<1>4. round1(Whole(100)) = r
  BY <1>3 DEF round1, Whole
<1> HIDE DEF r
<1>5. r[1] \in Int /\ r[2] \in Int
  BY <1>2, Parts
<1>6. r[1] * BarSteps = (100 * r[2]) * BarSteps
  BY <1>1, <1>2, <1>5
<1>7. r[1] * 1 = 100 * r[2]
  BY <1>1, <1>5, <1>6, Cancel
<1>8. Whole(100) \in Q /\ Whole(100)[1] = 100 /\ Whole(100)[2] = 1
  BY WholeInQ DEF Whole
<1> QED
  BY <1>2, <1>4, <1>7, <1>8, SameValue

\* What is rounded to full is not below full by more than half a tenth of a percent.
LEMMA FullIsAlmost ==
    ASSUME NEW v \in Q, round1(v) = Whole(100)
    PROVE  100 * (2 * BarSteps - 1) * v[2] <= 2 * BarSteps * v[1]
<1> DEFINE n == 2 * BarSteps * v[1] + 100 * v[2]
           m == 200 * v[2]
<1>1. BarSteps \in Int /\ v[1] \in Int /\ v[2] \in Int /\ v[2] > 0
  BY UnitsPositive, Parts
<1>2. n \in Int /\ m \in Int /\ m > 0
  BY <1>1
<1>3. Ratio(100 * (n \div m), BarSteps) = Whole(100)
  BY DEF round1
<1> HIDE DEF n, m
<1>4. n \div m \in Int /\ m * (n \div m) <= n
  BY <1>2
<1>5. n \div m = BarSteps
  BY <1>3, <1>4, LastTenth
<1>6. m * BarSteps <= n
  BY <1>4, <1>5
<1>7. (200 * v[2]) * BarSteps <= 2 * BarSteps * v[1] + 100 * v[2]
  BY <1>6 DEF n, m
<1>8. 100 * (2 * BarSteps - 1) * v[2] = (200 * v[2]) * BarSteps - 100 * v[2]
  BY <1>1
<1> QED
  BY <1>1, <1>7, <1>8

\* The bar is full when the tip has reached the target, and before that only when half
\* a tenth of a percent of the climb is left.
LEMMA BarIsFull ==
    ASSUME NEW p \in Int, NEW d \in Int, d > 0
    PROVE  LET bar == round1(clampF(Ratio(100 * p, d), Whole(0), Whole(100)))
           IN  /\ p >= d => bar = Whole(100)
               /\ bar = Whole(100) => 2 * BarSteps * (d - p) <= d
<1> DEFINE r == Ratio(100 * p, d)
           z == Whole(0)
           h == Whole(100)
           v == clampF(r, z, h)
<1>1. /\ z \in Q /\ h \in Q
      /\ z[1] = 0 /\ z[2] = 1 /\ h[1] = 100 /\ h[2] = 1
  BY WholeInQ DEF Whole
<1>2. r \in Q /\ r[1] * d = (100 * p) * r[2]
  BY RatioValue
<1>3. Leq(h, r) <=> p >= d
  <2>1. Leq(h, r) <=> 100 * d <= (100 * p) * 1
    BY <1>1, RatioCompares
  <2> QED
    BY <2>1
<1>4. BarSteps \in Int /\ BarSteps >= 1
  BY UnitsPositive
<1> HIDE DEF r, z, h
<1>5. Leq(z, h)
  BY <1>1 DEF Leq
<1>6. /\ Leq(r, h) \/ Leq(h, r)
      /\ Leq(r, h) /\ Leq(h, r) => r = h
      /\ Leq(h, h)
  BY <1>1, <1>2, OrderOfQ
<1>7. v \in {r, z, h} /\ (Leq(h, r) => v = h) /\ (v = h => Leq(h, r) \/ z = h)
  BY <1>5, <1>6 DEF clampF, MinQ, MaxQ
<1>8. p >= d => round1(v) = h
  BY <1>3, <1>7, FullStaysFull DEF h
<1>9. ASSUME round1(v) = h
      PROVE  2 * BarSteps * (d - p) <= d
  <2>1. v \in Q
    BY <1>1, <1>2, <1>7
  <2>2. 100 * (2 * BarSteps - 1) * v[2] <= 2 * BarSteps * v[1]
    BY <1>9, <2>1, FullIsAlmost DEF h
  <2>3. CASE v = h
    <3>1. z # h
      BY <1>1
    <3>2. p >= d
      BY <1>3, <1>7, <2>3, <3>1
    <3>3. BarSteps * (d - p) <= 0
      BY <1>4, <3>2
    <3> QED
      BY <1>4, <3>3
  <2>4. CASE v = z
    <3>1. 100 * (2 * BarSteps - 1) * 1 <= 2 * BarSteps * 0
      BY <1>1, <2>2, <2>4
    <3> QED
      BY <1>4, <3>1
  <2>5. CASE v = r
    <3> DEFINE x == 2 * BarSteps - 1
               y == 2 * BarSteps
    <3>1. x \in Int /\ y \in Int /\ x = y - 1
      BY <1>4
    <3>2. 100 * x * r[2] <= y * r[1]
      BY <2>2, <2>5
    <3>3. y * (d - p) = 2 * BarSteps * (d - p)
      OBVIOUS
    <3> HIDE DEF x, y
    <3>4. r[1] \in Int /\ r[2] \in Int /\ r[2] > 0
      BY <1>2, Parts
    <3>5. (100 * x * r[2]) * d <= (y * r[1]) * d
      <4>1. 100 * x * r[2] \in Int /\ y * r[1] \in Int
        BY <3>1, <3>4
      <4> QED
        BY <3>2, <4>1, Cancel
    <3>6. (y * r[1]) * d = y * ((100 * p) * r[2])
      <4>1. (y * r[1]) * d = y * (r[1] * d)
        BY <3>1, <3>4
      <4> QED
        BY <1>2, <4>1
    <3>7. (100 * x * r[2]) * d = (x * d) * (100 * r[2])
      BY <3>1, <3>4
    <3>8. y * ((100 * p) * r[2]) = (y * p) * (100 * r[2])
      BY <3>1, <3>4
    <3>9. (x * d) * (100 * r[2]) <= (y * p) * (100 * r[2])
      BY <3>5, <3>6, <3>7, <3>8
    <3>10. x * d <= y * p
      <4>1. x * d \in Int /\ y * p \in Int /\ 100 * r[2] \in Int /\ 100 * r[2] > 0
        BY <3>1, <3>4
      <4> QED
        BY <3>9, <4>1, Cancel
    <3>11. x * d = y * d - d /\ y * (d - p) = y * d - y * p
      BY <3>1
    <3>12. y * (d - p) <= d
      BY <3>1, <3>10, <3>11
    <3> QED
      BY <3>3, <3>12
  <2> QED
    BY <1>7, <2>3, <2>4, <2>5
<1> QED
  BY <1>8, <1>9 DEF v, r, z, h

\* No cook is used when none is counted.
LEMMA NothingIsUsed == \A n : n = 0 => ~(n > 0)
OBVIOUS

\* A status s that gives no estimate, and no bar but a true one.
Quiet(s) ==
    /\ s.state \in {"idle", "disconnected", "waiting", "ready", "stalled"}
    /\ s.source = "" /\ s.low = Unknown /\ s.high = Unknown /\ s.samples = 0
    /\ s.state # "ready" => s.eta = Unknown
    /\ s.state = "ready" => s.eta = Whole(0)
    /\ hasRead /\ connected /\ running /\ progress # Unknown =>
           /\ s.state = "ready" => progress = Whole(100)
           /\ progress = Whole(100) => AlmostThere

\* A status without an estimate agrees with itself.
LEMMA QuietAgrees == \A s : Quiet(s) => Coherent(s)
<1> SUFFICES ASSUME NEW s, Quiet(s) PROVE Coherent(s)
  OBVIOUS
<1>1. ~(s.samples > 0)
  BY NothingIsUsed, Zenon DEF Quiet
<1>2. s.state # "cooking"
  BY Zenon DEF Quiet
<1>3. s.source \notin {"history", "blend"}
  BY Zenon DEF Quiet
<1> QED
  BY <1>1, <1>2, <1>3, Zenon DEF Coherent, Quiet

\* The figures of a status (statusLocked) agree with each other and with the cook,
\* whatever cooks it was learned from and whatever the readings: an estimate while
\* cooking only, zero when ready, within its range, and a bar that is full when ready
\* and, by round1, when half a tenth of a percent of the climb is left.
THEOREM StatusAgrees == Spec => []StatusCoherent
<1>1. Init => MonitorInv /\ LearnedInv
  BY NoMeatIsLabel DEF Init, MonitorInv, LearnedInv
<1>2. Init => ReadingsInv
  BY NoReadings DEF Init, ReadingsInv
<1>3. MonitorInv /\ ReadingsInv /\ LearnedInv => StatusCoherent
  <2> SUFFICES ASSUME MonitorInv, ReadingsInv, LearnedInv PROVE Coherent(Status)
    BY DEF StatusCoherent
  <2> DEFINE s == Status
             b == blendETA(Physics, Learned)
  <2>1. hasRead => history \in Seq(Kinds) /\ history # <<>> /\ Tip \in Int
                   /\ history[1].tip \in Int
    <3> SUFFICES ASSUME hasRead
                 PROVE  history \in Seq(Kinds) /\ history # <<>> /\ Tip \in Int
                        /\ history[1].tip \in Int
      OBVIOUS
    <3>1. history \in Seq(Kinds) /\ history # <<>>
      BY DEF MonitorInv, ReadingsInv
    <3>2. 1 \in 1 .. Len(history)
      BY <3>1
    <3> QED
      BY <3>1, <3>2, FieldsAreWhole, LatestIsWhole DEF Tip
  <2>2. target \in Int /\ now \in Int
    BY ReadingsWhole DEF MonitorInv, ReadingsInv
  <2>3. hasRead /\ progress # Unknown =>
            /\ Tip >= target => progress = Whole(100)
            /\ progress = Whole(100) => AlmostThere
    <3> SUFFICES ASSUME hasRead, progress # Unknown
                 PROVE  /\ Tip >= target => progress = Whole(100)
                        /\ progress = Whole(100) => AlmostThere
      OBVIOUS
    <3> DEFINE start == history[1].tip
               p == Tip - start
               d == target - start
    <3>1. /\ ~(target <= start)
          /\ progress = round1(clampF(Ratio(100 * p, d), Whole(0), Whole(100)))
      BY DEF progress
    <3>2. /\ p \in Int /\ d \in Int /\ d > 0 /\ (p >= d <=> Tip >= target)
          /\ d - p = target - Tip
      BY <2>1, <2>2, <3>1
    <3>3. 2 * BarSteps * (d - p) <= d => AlmostThere
      BY <3>2 DEF AlmostThere
    <3> HIDE DEF p, d
    <3> QED
      BY <3>1, <3>2, <3>3, BarIsFull
  <2>4. ASSUME NEW x \in {"idle", "disconnected", "waiting", "stalled"}, s = NoEta(x)
        PROVE  Coherent(s)
    <3>1. /\ s.state = x /\ s.source = "" /\ s.low = Unknown /\ s.high = Unknown
          /\ s.samples = 0 /\ s.eta = Unknown
      BY <2>4, Zenon DEF NoEta
    <3>2. s.state \in {"idle", "disconnected", "waiting", "ready", "stalled"} /\ s.state # "ready"
      BY <3>1, Zenon
    <3>3. hasRead /\ progress # Unknown /\ progress = Whole(100) => AlmostThere
      BY <2>3, Zenon
    <3>4. Quiet(s)
      BY <3>1, <3>2, <3>3, Zenon DEF Quiet
    <3> QED
      BY <3>4, QuietAgrees, Zenon
  <2>5. CASE ~running \/ ~connected \/ ~hasRead
    <3>1. s \in {NoEta("idle"), NoEta("disconnected"), NoEta("waiting")}
      BY <2>5, Zenon DEF Status
    <3> QED
      BY <2>4, <2>5, <3>1, Zenon
  <2>6. CASE running /\ connected /\ hasRead /\ Tip >= target
    <3>1. s = [NoEta("ready") EXCEPT !.eta = Whole(0)]
      BY <2>6, Zenon DEF Status
    <3>2. /\ s.state = "ready" /\ s.source = "" /\ s.low = Unknown /\ s.high = Unknown
          /\ s.samples = 0 /\ s.eta = Whole(0)
      BY <3>1, Zenon DEF NoEta
    <3>3. s.state \in {"idle", "disconnected", "waiting", "ready", "stalled"}
      BY <3>2, Zenon
    <3>4. progress # Unknown => progress = Whole(100) /\ AlmostThere
      BY <2>3, <2>6, Zenon
    <3>5. Quiet(s)
      BY <3>2, <3>3, <3>4, Zenon DEF Quiet
    <3> QED
      BY <3>5, QuietAgrees, Zenon
  <2>7. CASE running /\ connected /\ hasRead /\ ~(Tip >= target)
    <3>1. \/ s = NoEta("stalled")
          \/ /\ ~Negative(b.eta)
             /\ s = [state |-> "cooking", eta |-> b.eta, source |-> b.source, low |-> b.low,
                     high |-> b.high, samples |-> Len(Learned)]
      BY <2>7, Zenon DEF Status
    <3>2. CASE s = NoEta("stalled")
      BY <2>4, <2>7, <3>2, Zenon
    <3>3. CASE /\ ~Negative(b.eta)
               /\ s = [state |-> "cooking", eta |-> b.eta, source |-> b.source, low |-> b.low,
                       high |-> b.high, samples |-> Len(Learned)]
      <4>1. /\ s.state = "cooking" /\ s.eta = b.eta /\ s.source = b.source /\ s.low = b.low
            /\ s.high = b.high /\ s.samples = Len(Learned)
        BY <3>3, Zenon
      <4>2. Tip \in Int /\ Chamber \in Q
        BY <2>1, <2>2, <2>7, WindowsPositive, AmbientInQ DEF Chamber
      <4>3. Estimates(Learned)
        BY <2>2, <4>2, UsedAreEstimates DEF Learned
      <4>4. Foreseen(Physics)
        <5>1. ASSUME Physics # Unknown PROVE Physics \in Q /\ Physics[1] >= 0
          <6> DEFINE line == Div(Whole(target - Tip), Slope(history, now, EtaRateWindow))
          <6>1. Tip < target
            BY <2>2, <2>7, <4>2
          <6>2. Physics \in Q /\ line \in Q /\ line[1] > 0 /\ Leq(line, Physics)
            BY <2>7, <5>1, <6>1, PhysicsBound
          <6> HIDE DEF line
          <6>3. Physics[1] > 0 /\ Physics[1] \in Int
            BY <6>2, AboveZero, Parts
          <6> QED
            BY <6>2, <6>3
        <5> QED
          BY <5>1 DEF Foreseen
      <4>5. /\ s.state # "ready"
            /\ progress # Unknown /\ progress = Whole(100) => AlmostThere
        <5>1. s.state # "ready"
          BY <4>1, Zenon
        <5> QED
          BY <2>3, <2>7, <5>1, Zenon
      <4>6. CASE Len(Learned) = 0
        <5>1. b = [eta |-> Physics, source |-> IF Physics = Unknown THEN "" ELSE "physics",
                   low |-> Unknown, high |-> Unknown]
          BY <4>6, Zenon DEF blendETA
        <5> HIDE DEF b
        <5>2. b.eta = Physics /\ b.low = Unknown /\ b.high = Unknown
          BY <5>1, Zenon
        <5>3. Physics # Unknown
          <6>1. Negative(Unknown)
            BY DEF Negative, Unknown, Whole
          <6> QED
            BY <3>3, <5>2, <6>1, Zenon
        <5>4. b.source = "physics"
          BY <5>1, <5>3, Zenon
        <5>5. ~(s.samples > 0)
          BY <4>1, <4>6
        <5>6. s.source # "" /\ s.source \notin {"history", "blend"}
          BY <4>1, <5>4, Zenon
        <5> QED
          BY <3>3, <4>1, <4>5, <5>2, <5>5, <5>6, Zenon DEF Coherent
      <4>7. CASE Len(Learned) # 0
        <5>1. InRange(b)
          BY <4>3, <4>4, <4>7, BlendInRange
        <5>2. s.samples > 0
          BY <4>1, <4>3, <4>7 DEF Estimates
        <5>3. s.source \in {"history", "blend"}
          BY <4>1, <5>1, Zenon DEF InRange
        <5>4. s.source # ""
          BY <5>3, Zenon
        <5>5. ~Negative(b.low) /\ Leq(b.low, b.eta) /\ Leq(b.eta, b.high)
          <6>1. b.low[1] \in Int /\ b.low[1] >= 0
            BY <5>1, Parts DEF InRange
          <6> QED
            BY <5>1, <6>1 DEF InRange, Negative
        <5> QED
          BY <3>3, <4>1, <4>5, <5>2, <5>3, <5>4, <5>5, Zenon DEF Coherent
      <4> QED
        BY <4>6, <4>7
    <3> QED
      BY <3>1, <3>2, <3>3
  <2> QED
    BY <2>5, <2>6, <2>7
<1> QED
  BY <1>1, <1>2, <1>3, MonitorStep, ReadingsStep, LearnedStep, PTL DEF Spec

=============================================================================
