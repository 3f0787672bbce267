-------------------------- MODULE RankFusionProofs --------------------------
(***************************************************************************)
(* Proofs that reciprocal_rank_fusion computes, for every number of legs,  *)
(* every weight, every ranking and every precision of its arithmetic, the  *)
(* scores of its docstring, and that its result is the one order the       *)
(* docstring promises.                                                     *)
(*                                                                         *)
(* The code's loops are folds, and a fold is a function defined by         *)
(* recursion over finite sets.  To the provers such a definition is a      *)
(* CHOOSE, and the induction theorems of the library take an operator,     *)
(* which they cannot instantiate.  The first part therefore gives both     *)
(* principles a first-order form: induction over a set of numbers, derived *)
(* from the well-foundedness of strict inclusion, and the existence of a   *)
(* recursive function, for a step that is itself a function.               *)
(***************************************************************************)
EXTENDS RankFusion, FiniteSetTheorems, WellFoundedInduction, SequenceTheorems, TLAPS

-----------------------------------------------------------------------------
(* Induction and recursion *)

\* A set of numbers with 0 and the successor of each of its members is Nat: a least
\* counterexample would be the least of the finite sets of numbers below one.
LEMMA SetInduction ==
    ASSUME NEW T \in SUBSET Nat, 0 \in T, \A n \in T : n + 1 \in T
    PROVE  T = Nat
<1> SUFFICES ASSUME Nat \ T # {} PROVE FALSE
  OBVIOUS
<1> DEFINE Below == {0 .. n - 1 : n \in Nat \ T}
<1>1. Below \subseteq FiniteSubsetsOf(Nat) /\ Below # {}
  <2>1. SUFFICES ASSUME NEW n \in Nat \ T PROVE 0 .. n - 1 \in FiniteSubsetsOf(Nat)
    OBVIOUS
  <2>2. IsFiniteSet(0 .. n - 1)
    BY FS_Interval
  <2> QED
    BY <2>2 DEF FiniteSubsetsOf
<1> HIDE DEF Below
<1>2. PICK w \in Below : \A v \in Below : <<v, w>> \notin StrictSubsetOrdering(Nat)
  BY <1>1, FS_StrictSubsetOrderingWellFounded, WFMin
<1>3. PICK n \in Nat \ T : w = 0 .. n - 1
  BY DEF Below
<1>4. n # 0 /\ n - 1 \in T
  <2>1. SUFFICES ASSUME n - 1 \in Nat \ T PROVE FALSE
    BY <1>3
  <2>2. 0 .. (n - 1) - 1 \in Below
    BY <2>1 DEF Below
  <2>3. n - 1 \in w /\ n - 1 \notin 0 .. (n - 1) - 1 /\ (0 .. (n - 1) - 1) \subseteq w
    BY <1>3, <2>1
  <2>4. w \in SUBSET Nat /\ 0 .. (n - 1) - 1 \in SUBSET Nat
    BY <1>3
  <2>5. <<0 .. (n - 1) - 1, w>> \in StrictSubsetOrdering(Nat)
    BY <2>3, <2>4 DEF StrictSubsetOrdering
  <2> QED
    BY <1>2, <2>2, <2>5
<1> QED
  BY <1>3, <1>4

\* What a recursion over the subsets of D is made of, and what it defines.
StepsOn(D, V) == [D \X V -> V]

Picks(D) == {pick \in [(SUBSET D) \ {{}} -> D] : \A s \in (SUBSET D) \ {{}} : pick[s] \in s}

SetSolution(f, D, V, base, pick, step) ==
    /\ f \in [SUBSET D -> V]
    /\ \A s \in SUBSET D :
           f[s] = IF s = {} THEN base ELSE step[<<pick[s], f[s \ {pick[s]}]>>]

\* What a recursion over Nat defines.
NatSolution(f, V, base, step) ==
    /\ f \in [Nat -> V]
    /\ \A n \in Nat : f[n] = IF n = 0 THEN base ELSE step[<<n, f[n - 1]>>]

\* A function on the subsets of a finite set may be defined from its value on a
\* smaller one.  It is built up by the size of the subsets.
LEMMA SetRecursion ==
    ASSUME NEW D, IsFiniteSet(D), NEW V, NEW base \in V,
           NEW pick \in Picks(D), NEW step \in StepsOn(D, V)
    PROVE  \E f : SetSolution(f, D, V, base, pick, step)
<1> USE DEF StepsOn, Picks
<1> DEFINE Upto(n) == {s \in SUBSET D : Cardinality(s) <= n}
           Solves(f, n) ==
               \A s \in Upto(n) :
                   f[s] = IF s = {} THEN base ELSE step[<<pick[s], f[s \ {pick[s]}]>>]
           T == {n \in Nat : \E f \in [Upto(n) -> V] : Solves(f, n)}
<1>1. \A s \in SUBSET D : IsFiniteSet(s) /\ Cardinality(s) \in Nat
  BY FS_Subset, FS_CardinalityType
<1>2. \A s \in (SUBSET D) \ {{}} :
          s \ {pick[s]} \in SUBSET D /\ Cardinality(s \ {pick[s]}) = Cardinality(s) - 1
  BY <1>1, FS_RemoveElement
<1>3. \A s \in SUBSET D : Cardinality(s) = 0 <=> s = {}
  BY <1>1, FS_EmptySet
<1>4. 0 \in T
  <2>1. \A s \in Upto(0) : s = {}
    BY <1>1, <1>3
  <2>2. [s \in Upto(0) |-> base] \in [Upto(0) -> V] /\ Solves([s \in Upto(0) |-> base], 0)
    BY <2>1
  <2> QED
    BY <2>2
<1>5. \A n \in T : n + 1 \in T
  <2> SUFFICES ASSUME NEW n \in T PROVE n + 1 \in T
    OBVIOUS
  <2>1. n \in Nat /\ \E f \in [Upto(n) -> V] : Solves(f, n)
    OBVIOUS
  <2> PICK f \in [Upto(n) -> V] : Solves(f, n)
    BY <2>1
  <2> DEFINE g == [s \in Upto(n + 1) |->
                      IF s = {} THEN base ELSE step[<<pick[s], f[s \ {pick[s]}]>>]]
  <2>2. \A s \in Upto(n + 1) : s # {} => s \ {pick[s]} \in Upto(n)
    BY <1>1, <1>2
  <2>3. g \in [Upto(n + 1) -> V]
    <3>1. SUFFICES ASSUME NEW s \in Upto(n + 1), s # {}
                   PROVE  step[<<pick[s], f[s \ {pick[s]}]>>] \in V
      OBVIOUS
    <3>2. f[s \ {pick[s]}] \in V /\ pick[s] \in D
      BY <2>2, <3>1
    <3> QED
      BY <3>2
  <2>4. \A s \in Upto(n) : s \in Upto(n + 1) /\ g[s] = f[s]
    <3> SUFFICES ASSUME NEW s \in Upto(n) PROVE s \in Upto(n + 1) /\ g[s] = f[s]
      OBVIOUS
    <3>1. s \in Upto(n + 1)
      BY <1>1, <2>1
    <3>2. g[s] = IF s = {} THEN base ELSE step[<<pick[s], f[s \ {pick[s]}]>>]
      BY <3>1
    <3> QED
      BY <3>1, <3>2
  <2>5. Solves(g, n + 1)
    BY <2>2, <2>4
  <2> HIDE DEF g, Solves, Upto
  <2> QED
    BY <2>1, <2>3, <2>5
<1>6. Cardinality(D) \in T
  <2> HIDE DEF T
  <2>1. T \in SUBSET Nat
    BY DEF T
  <2> QED
    BY <1>4, <1>5, <2>1, SetInduction, FS_CardinalityType
<1>7. Upto(Cardinality(D)) = SUBSET D
  BY <1>1, FS_Subset
<1> QED
  BY <1>6, <1>7 DEF SetSolution

\* Every subset of a finite set is in T when each is that has its subsets with one
\* element less in T.
LEMMA SubsetInduction ==
    ASSUME NEW S, IsFiniteSet(S), NEW T \in SUBSET (SUBSET S),
           \A s \in SUBSET S : (\A x \in s : s \ {x} \in T) => s \in T
    PROVE  \A s \in SUBSET S : s \in T
<1> SUFFICES ASSUME (SUBSET S) \ T # {} PROVE FALSE
  OBVIOUS
<1>1. (SUBSET S) \ T \subseteq FiniteSubsetsOf(S)
  BY FS_Subset DEF FiniteSubsetsOf
<1>2. PICK w \in (SUBSET S) \ T : \A v \in (SUBSET S) \ T : <<v, w>> \notin StrictSubsetOrdering(S)
  BY <1>1, FS_StrictSubsetOrderingWellFounded, WFMin
<1>3. \A x \in w : w \ {x} \in T
  <2>1. SUFFICES ASSUME NEW x \in w, w \ {x} \in (SUBSET S) \ T PROVE FALSE
    OBVIOUS
  <2>2. <<w \ {x}, w>> \in StrictSubsetOrdering(S)
    BY <2>1 DEF StrictSubsetOrdering
  <2> QED
    BY <1>2, <2>1, <2>2
<1> QED
  BY <1>2, <1>3

\* As SetRecursion, on Nat.  The solutions on 0 .. n agree where both are defined, and
\* the function takes its value at n from the one on 0 .. n.
LEMMA NatRecursion ==
    ASSUME NEW V, NEW base \in V, NEW step \in StepsOn(Nat, V)
    PROVE  \E f : NatSolution(f, V, base, step)
<1> USE DEF StepsOn
<1> DEFINE Solves(f, n) ==
               \A k \in 0 .. n : f[k] = IF k = 0 THEN base ELSE step[<<k, f[k - 1]>>]
           T == {n \in Nat : \E f \in [0 .. n -> V] : Solves(f, n)}
           Solution(n) == CHOOSE f \in [0 .. n -> V] : Solves(f, n)
           F == [n \in Nat |-> Solution(n)[n]]
<1>1. 0 \in T
  <2>1. [k \in 0 .. 0 |-> base] \in [0 .. 0 -> V] /\ Solves([k \in 0 .. 0 |-> base], 0)
    OBVIOUS
  <2> QED
    BY <2>1
<1>2. \A n \in T : n + 1 \in T
  <2> SUFFICES ASSUME NEW n \in T PROVE n + 1 \in T
    OBVIOUS
  <2>1. n \in Nat /\ \E f \in [0 .. n -> V] : Solves(f, n)
    OBVIOUS
  <2>2. PICK f \in [0 .. n -> V] : Solves(f, n)
    BY <2>1
  <2> DEFINE g == [k \in 0 .. n + 1 |-> IF k = 0 THEN base ELSE step[<<k, f[k - 1]>>]]
  <2>3. g \in [0 .. n + 1 -> V]
    <3>1. SUFFICES ASSUME NEW k \in 0 .. n + 1, k # 0 PROVE step[<<k, f[k - 1]>>] \in V
      OBVIOUS
    <3>2. f[k - 1] \in V /\ k \in Nat
      BY <2>1, <3>1
    <3> QED
      BY <3>2
  <2>4. \A k \in 0 .. n : g[k] = f[k]
    BY <2>1, <2>2
  <2>5. Solves(g, n + 1)
    <3>1. SUFFICES ASSUME NEW k \in 0 .. n + 1
                   PROVE  g[k] = IF k = 0 THEN base ELSE step[<<k, g[k - 1]>>]
      OBVIOUS
    <3>2. g[k] = IF k = 0 THEN base ELSE step[<<k, f[k - 1]>>]
      OBVIOUS
    <3>3. k # 0 => k - 1 \in 0 .. n
      BY <2>1
    <3> HIDE DEF g
    <3>4. k # 0 => g[k - 1] = f[k - 1]
      BY <2>4, <3>3
    <3> QED
      BY <3>2, <3>4
  <2> HIDE DEF g, Solves
  <2> QED
    BY <2>1, <2>3, <2>5
<1>3. T = Nat
  <2> HIDE DEF T
  <2>1. T \in SUBSET Nat
    BY DEF T
  <2> QED
    BY <1>1, <1>2, <2>1, SetInduction
<1>4. \A n \in Nat : Solution(n) \in [0 .. n -> V] /\ Solves(Solution(n), n)
  <2> HIDE DEF Solves
  <2> QED
    BY <1>3
<1>5. \A n \in Nat : Solution(n + 1)[n] = Solution(n)[n]
  <2> SUFFICES ASSUME NEW n \in Nat PROVE Solution(n + 1)[n] = Solution(n)[n]
    OBVIOUS
  <2> HIDE DEF Solution
  <2> DEFINE A == {k \in Nat : k <= n => Solution(n + 1)[k] = Solution(n)[k]}
  <2>1. 0 \in A
    <3>1. 0 \in 0 .. n /\ 0 \in 0 .. n + 1 /\ n + 1 \in Nat
      OBVIOUS
    <3>2. Solves(Solution(n), n) /\ Solves(Solution(n + 1), n + 1)
      <4> HIDE DEF Solves
      <4> QED
        BY <1>4, <3>1
    <3>3. Solution(n)[0] = base /\ Solution(n + 1)[0] = base
      BY <3>1, <3>2
    <3> QED
      BY <3>3
  <2>2. \A k \in A : k + 1 \in A
    <3>1. SUFFICES ASSUME NEW k \in A, k + 1 <= n
                   PROVE  Solution(n + 1)[k + 1] = Solution(n)[k + 1]
      OBVIOUS
    <3>2. k \in Nat /\ Solution(n + 1)[k] = Solution(n)[k]
      BY <3>1
    <3>3. k + 1 \in 0 .. n /\ k + 1 \in 0 .. n + 1 /\ k + 1 # 0 /\ (k + 1) - 1 = k
      BY <3>1, <3>2
    <3>4. Solution(n)[k + 1] = step[<<k + 1, Solution(n)[k]>>]
      BY <1>4, <3>3
    <3>5. Solution(n + 1)[k + 1] = step[<<k + 1, Solution(n + 1)[k]>>]
      BY <1>4, <3>3
    <3> QED
      BY <3>2, <3>4, <3>5
  <2>3. A \in SUBSET Nat
    OBVIOUS
  <2>4. A = Nat
    <3> HIDE DEF A
    <3> QED
      BY <2>1, <2>2, <2>3, SetInduction
  <2> QED
    BY <2>4
<1>6. F \in [Nat -> V]
  <2> HIDE DEF Solution
  <2> QED
    BY <1>4
<1>7. \A n \in Nat : F[n] = IF n = 0 THEN base ELSE step[<<n, F[n - 1]>>]
  <2> SUFFICES ASSUME NEW n \in Nat PROVE F[n] = IF n = 0 THEN base ELSE step[<<n, F[n - 1]>>]
    OBVIOUS
  <2> HIDE DEF Solution
  <2>1. n # 0 => n - 1 \in Nat /\ (n - 1) + 1 = n
    OBVIOUS
  <2>2. n # 0 => Solution(n)[n - 1] = F[n - 1]
    BY <1>5, <2>1
  <2>3. F[n] = IF n = 0 THEN base ELSE step[<<n, Solution(n)[n - 1]>>]
    BY <1>4
  <2> QED
    BY <2>2, <2>3
<1> QED
  BY <1>6, <1>7 DEF NatSolution

-----------------------------------------------------------------------------
(* The arithmetic *)

\* The recursive function that Power2 is exists; its values grow beyond every bound.
LEMMA PowerProperties ==
    /\ Power2[0] = 1
    /\ \A n \in Nat : Power2[n] \in Nat \ {0} /\ Power2[n + 1] = 2 * Power2[n] /\ n < Power2[n]
<1> DEFINE step == [x \in Nat \X Nat |-> 2 * x[2]]
           T == {n \in Nat : Power2[n] \in Nat \ {0} /\ n < Power2[n]}
<1>1. step \in StepsOn(Nat, Nat)
  BY DEF StepsOn
<1>2. PICK f : NatSolution(f, Nat, 1, step)
  BY <1>1, NatRecursion
<1>3. f = [n \in Nat |-> IF n = 0 THEN 1 ELSE 2 * f[n - 1]]
  <2>1. /\ f \in [Nat -> Nat]
        /\ \A n \in Nat : f[n] = IF n = 0 THEN 1 ELSE step[<<n, f[n - 1]>>]
    BY <1>2 DEF NatSolution
  <2>2. \A n \in Nat : n # 0 => step[<<n, f[n - 1]>>] = 2 * f[n - 1]
    BY <2>1
  <2> HIDE DEF step
  <2> QED
    BY <2>1, <2>2
<1>4. Power2 = [n \in Nat |-> IF n = 0 THEN 1 ELSE 2 * Power2[n - 1]]
  BY <1>3 DEF Power2
<1>5. Power2[0] = 1 /\ \A n \in Nat : Power2[n + 1] = 2 * Power2[n]
  BY <1>4
<1>6. T = Nat
  <2>1. 0 \in T
    BY <1>5
  <2>2. \A n \in T : n + 1 \in T
    BY <1>5
  <2>3. T \in SUBSET Nat
    OBVIOUS
  <2> HIDE DEF T
  <2> QED
    BY <2>1, <2>2, <2>3, SetInduction
<1> QED
  BY <1>5, <1>6

\* A product with a positive number is no smaller.
LEMMA Product ==
    \A d \in Nat \ {0}, x \in Nat : d * x \in Nat /\ x <= d * x
<1>1. SUFFICES ASSUME NEW d \in Nat \ {0}, NEW x \in Nat PROVE d * x \in Nat /\ x <= d * x
  OBVIOUS
<1>2. d * x = (d - 1) * x + x /\ (d - 1) * x \in Nat /\ d * x \in Nat
  BY <1>1
<1> QED
  BY <1>2

IsExponent(e, n, d) ==
    /\ e \in 0 .. n
    /\ n < d * Power2[Precision + e]
    /\ e = 0 \/ d * Power2[Precision + (e - 1)] <= n

\* A double has an exponent: the least of those that leave Precision bits.
LEMMA ExponentProperties ==
    ASSUME NEW n \in Nat, NEW d \in Nat \ {0}
    PROVE  IsExponent(Exponent(n, d), n, d)
<1> DEFINE Fits(e) == n < d * Power2[Precision + e]
           T == {e \in Nat : e <= n => ~Fits(e)}
<1>1. Precision \in Nat
  BY FusionAssumption
<1>2. Fits(n)
  <2>1. Precision + n \in Nat /\ n <= Precision + n
    BY <1>1
  <2>2. Power2[Precision + n] \in Nat /\ n < Power2[Precision + n]
    BY <2>1, PowerProperties
  <2> QED
    BY <2>2, Product
<1>3. \E e \in 0 .. n : Fits(e) /\ (e = 0 \/ ~Fits(e - 1))
  <2>1. SUFFICES ASSUME \A e \in 0 .. n : Fits(e) => e # 0 /\ Fits(e - 1) PROVE FALSE
    OBVIOUS
  <2> HIDE DEF Fits
  <2>2. 0 \in T
    BY <2>1
  <2>3. \A e \in T : e + 1 \in T
    BY <2>1
  <2>4. T = Nat
    <3>1. T \in SUBSET Nat
      OBVIOUS
    <3> HIDE DEF T
    <3> QED
      BY <2>2, <2>3, <3>1, SetInduction
  <2> QED
    BY <1>2, <2>4
<1>4. \A e \in 0 .. n : e # 0 /\ ~Fits(e - 1) => d * Power2[Precision + (e - 1)] <= n
  <2>1. SUFFICES ASSUME NEW e \in 0 .. n, e # 0, ~Fits(e - 1)
                 PROVE  d * Power2[Precision + (e - 1)] <= n
    OBVIOUS
  <2>2. Precision + (e - 1) \in Nat
    BY <1>1, <2>1
  <2>3. d * Power2[Precision + (e - 1)] \in Nat
    BY <2>2, PowerProperties, Product
  <2> QED
    BY <2>1, <2>3
<1>5. \E e \in 0 .. n : IsExponent(e, n, d)
  BY <1>3, <1>4 DEF IsExponent
<1>6. Exponent(n, d) = CHOOSE e \in 0 .. n : IsExponent(e, n, d)
  <2>1. \A e \in 0 .. n :
            /\ n < d * Power2[Precision + e]
            /\ e = 0 \/ d * Power2[Precision + (e - 1)] <= n
        <=> IsExponent(e, n, d)
    BY DEF IsExponent
  <2> QED
    BY <2>1 DEF Exponent
<1> QED
  BY <1>5, <1>6

LEMMA NearestType ==
    ASSUME NEW n \in Nat, NEW d \in Nat \ {0} PROVE Nearest(n, d) \in Nat
  BY DEF Nearest

LEMMA DoubleType ==
    ASSUME NEW n \in Nat, NEW d \in Nat \ {0} PROVE Double(n, d) \in Nat
<1> DEFINE ulp == Power2[Exponent(n, d)]
<1>1. ulp \in Nat \ {0}
  <2>1. Exponent(n, d) \in Nat
    BY ExponentProperties DEF IsExponent
  <2> QED
    BY <2>1, PowerProperties
<1> HIDE DEF ulp
<1>2. d * ulp \in Nat \ {0}
  BY <1>1, Product
<1>3. Nearest(n, d * ulp) * ulp \in Nat
  BY <1>1, <1>2, NearestType
<1> QED
  BY <1>3 DEF Double, ulp

LEMMA ShareType ==
    ASSUME NEW weight \in Nat, NEW rank \in Nat \ {0}
    PROVE  Share(weight, rank) \in Nat
<1>1. RRF_K + rank \in Nat \ {0}
  BY FusionAssumption
<1> QED
  BY <1>1, DoubleType DEF Share

LEMMA PlusType == ASSUME NEW x \in Nat, NEW y \in Nat PROVE Plus(x, y) \in Nat
<1>1. x + y \in Nat /\ 1 \in Nat \ {0}
  OBVIOUS
<1> QED
  BY <1>1, DoubleType DEF Plus

-----------------------------------------------------------------------------
(* Rounding keeps the order *)

LEMMA PowerSum ==
    \A a, b \in Nat : Power2[a + b] = Power2[a] * Power2[b] /\ Power2[a] <= Power2[a + b]
<1> SUFFICES ASSUME NEW a \in Nat
             PROVE  \A b \in Nat : /\ Power2[a + b] = Power2[a] * Power2[b]
                                   /\ Power2[a] <= Power2[a + b]
  OBVIOUS
<1> DEFINE T == {b \in Nat : /\ Power2[a + b] = Power2[a] * Power2[b]
                             /\ Power2[a] <= Power2[a + b]}
<1>1. Power2[a] \in Nat /\ Power2[0] = 1
  BY PowerProperties
<1>2. 0 \in T
  BY <1>1
<1>3. \A b \in T : b + 1 \in T
  <2>1. SUFFICES ASSUME NEW b \in T PROVE b + 1 \in T
    OBVIOUS
  <2>2. /\ a + b \in Nat /\ a + (b + 1) = (a + b) + 1
        /\ Power2[a + b] = Power2[a] * Power2[b] /\ Power2[a] <= Power2[a + b]
    BY <2>1
  <2>3. /\ Power2[b + 1] = 2 * Power2[b] /\ Power2[(a + b) + 1] = 2 * Power2[a + b]
        /\ Power2[b] \in Nat /\ Power2[a + b] \in Nat
    BY <2>2, PowerProperties
  <2>4. Power2[a] * (2 * Power2[b]) = 2 * (Power2[a] * Power2[b])
    BY <1>1, <2>3
  <2>5. Power2[a + (b + 1)] = Power2[a] * Power2[b + 1] /\ Power2[a] <= Power2[a + (b + 1)]
    BY <1>1, <2>2, <2>3, <2>4
  <2> QED
    BY <2>5
<1>4. T = Nat
  <2>1. T \in SUBSET Nat
    OBVIOUS
  <2> HIDE DEF T
  <2> QED
    BY <1>2, <1>3, <2>1, SetInduction
<1> QED
  BY <1>4

LEMMA PowerMonotone == \A a, b \in Nat : a <= b => Power2[a] <= Power2[b]
<1>1. SUFFICES ASSUME NEW a \in Nat, NEW b \in Nat, a <= b PROVE Power2[a] <= Power2[b]
  OBVIOUS
<1>2. b - a \in Nat /\ a + (b - a) = b
  BY <1>1
<1>3. Power2[a] <= Power2[a + (b - a)]
  BY <1>2, PowerSum
<1> QED
  BY <1>2, <1>3

LEMMA Scaled ==
    \A x, y \in Int, c \in Nat \ {0} : (x <= y <=> x * c <= y * c) /\ (x = y <=> x * c = y * c)
  OBVIOUS

\* No whole number is nearer to n / d, and a tie goes to the even one.
LEMMA NearestProperties ==
    ASSUME NEW n \in Nat, NEW d \in Nat \ {0}
    PROVE  LET N == Nearest(n, d) IN
           /\ N \in Nat
           /\ (2 * N - 1) * d <= 2 * n /\ 2 * n <= (2 * N + 1) * d
           /\ 2 * n = (2 * N - 1) * d \/ 2 * n = (2 * N + 1) * d => N % 2 = 0
<1> DEFINE q == n \div d
           r == n % d
           p == d * q
<1>1. q \in Nat /\ r \in Nat /\ r < d /\ p \in Nat /\ n = p + r
  OBVIOUS
<1>2. /\ (2 * q - 1) * d = 2 * p - d /\ (2 * q + 1) * d = 2 * p + d
      /\ (2 * (q + 1) - 1) * d = 2 * p + d /\ (2 * (q + 1) + 1) * d = 2 * p + 3 * d
  BY <1>1
<1>3. Nearest(n, d) = IF 2 * r < d \/ (2 * r = d /\ q % 2 = 0) THEN q ELSE q + 1
  BY DEF Nearest
<1> HIDE DEF q, r, p
<1>4. q % 2 # 0 => (q + 1) % 2 = 0
  BY <1>1
<1>5. CASE 2 * r < d \/ (2 * r = d /\ q % 2 = 0)
  BY <1>1, <1>2, <1>3, <1>5
<1>6. CASE ~(2 * r < d \/ (2 * r = d /\ q % 2 = 0))
  BY <1>1, <1>2, <1>3, <1>4, <1>6
<1> QED
  BY <1>5, <1>6

LEMMA NearestMonotone ==
    ASSUME NEW n \in Nat, NEW d \in Nat \ {0}, NEW m \in Nat, NEW c \in Nat \ {0},
           n * c <= m * d
    PROVE  Nearest(n, d) <= Nearest(m, c)
<1> DEFINE N == Nearest(n, d)
           M == Nearest(m, c)
<1>1. /\ N \in Nat /\ (2 * N - 1) * d <= 2 * n /\ (2 * n = (2 * N - 1) * d => N % 2 = 0)
      /\ M \in Nat /\ 2 * m <= (2 * M + 1) * c /\ (2 * m = (2 * M + 1) * c => M % 2 = 0)
  BY NearestProperties
<1> HIDE DEF N, M
<1>2. SUFFICES ASSUME M + 1 <= N PROVE FALSE
  BY <1>1 DEF N, M
<1> DEFINE x == 2 * N - 1
           y == 2 * M + 1
           dc == d * c
<1>3. x \in Int /\ y \in Int /\ y <= x /\ dc \in Nat \ {0}
  BY <1>1, <1>2
<1>4. x * d <= 2 * n /\ 2 * m <= y * c /\ x * d \in Int /\ y * c \in Int
  BY <1>1
<1> HIDE DEF x, y
<1>5. (x * d) * c <= (2 * n) * c /\ (2 * m) * d <= (y * c) * d
  BY <1>4, Scaled
<1>6. (2 * n) * c <= (2 * m) * d
  <2>1. (2 * n) * c = 2 * (n * c) /\ (2 * m) * d = 2 * (m * d) /\ n * c \in Nat /\ m * d \in Nat
    OBVIOUS
  <2> QED
    BY <2>1
<1>7. (x * d) * c = x * dc /\ (y * c) * d = y * dc
  BY <1>3
<1> HIDE DEF dc
<1>8. x * dc <= y * dc /\ y * dc <= x * dc
  <2>1. x * dc \in Int /\ y * dc \in Int /\ (2 * n) * c \in Int /\ (2 * m) * d \in Int
    BY <1>3
  <2>2. y * dc <= x * dc
    BY <1>3, Scaled
  <2> QED
    BY <1>5, <1>6, <1>7, <2>1, <2>2
<1>9. x = y
  <2>1. x * dc = y * dc
    <3>1. x * dc \in Int /\ y * dc \in Int
      BY <1>3
    <3> QED
      BY <1>8, <3>1
  <2> QED
    BY <1>3, <2>1, Scaled
<1>10. (x * d) * c = (2 * n) * c /\ (2 * m) * d = (y * c) * d
  <2>1. x * dc \in Int /\ (2 * n) * c \in Int /\ (2 * m) * d \in Int
    BY <1>3
  <2> QED
    BY <1>5, <1>6, <1>7, <1>9, <2>1
<1>11. x * d = 2 * n /\ 2 * m = y * c
  BY <1>4, <1>10, Scaled
<1>12. N % 2 = 0 /\ M % 2 = 0 /\ N = M + 1
  BY <1>1, <1>9, <1>11 DEF x, y
<1> QED
  BY <1>1, <1>12

\* A multiple of d is its own quotient.
LEMMA NearestExact ==
    ASSUME NEW x \in Nat, NEW d \in Nat \ {0} PROVE Nearest(x * d, d) = x
<1> DEFINE N == Nearest(x * d, d)
<1>1. x * d \in Nat
  OBVIOUS
<1>2. /\ N \in Nat /\ (2 * N - 1) * d <= 2 * (x * d) /\ 2 * (x * d) <= (2 * N + 1) * d
  BY <1>1, NearestProperties
<1> HIDE DEF N
<1>3. 2 * (x * d) = (2 * x) * d /\ 2 * N - 1 \in Int /\ 2 * N + 1 \in Int /\ 2 * x \in Int
  BY <1>2
<1>4. 2 * N - 1 <= 2 * x /\ 2 * x <= 2 * N + 1
  BY <1>2, <1>3, Scaled
<1> QED
  BY <1>2, <1>4 DEF N

\* The least numbers with the exponent e, and the least above those.
LEMMA DoubleBounds ==
    ASSUME NEW n \in Nat, NEW d \in Nat \ {0}
    PROVE  LET e == Exponent(n, d) IN
           /\ e \in Nat
           /\ Double(n, d) <= Power2[Precision + e]
           /\ e # 0 => Power2[Precision + (e - 1)] <= Double(n, d)
<1> DEFINE e == Exponent(n, d)
           ulp == Power2[e]
           N == Nearest(n, d * ulp)
           P == Power2[Precision]
           Q == Power2[Precision - 1]
<1>1. e \in Nat /\ n < d * Power2[Precision + e] /\ (e = 0 \/ d * Power2[Precision + (e - 1)] <= n)
  BY ExponentProperties DEF IsExponent
<1> HIDE DEF e
<1>2. Precision \in Nat /\ Precision - 1 \in Nat
  BY FusionAssumption
<1>3. ulp \in Nat \ {0} /\ P \in Nat /\ Q \in Nat /\ Power2[Precision + e] = P * ulp
  BY <1>1, <1>2, PowerProperties, PowerSum
<1>4. e # 0 => Power2[Precision + (e - 1)] = Q * ulp
  <2>1. SUFFICES ASSUME e # 0 PROVE Power2[Precision + (e - 1)] = Q * ulp
    OBVIOUS
  <2>2. Precision + (e - 1) = (Precision - 1) + e
    BY <1>1, <1>2
  <2>3. Power2[(Precision - 1) + e] = Q * ulp
    BY <1>1, <1>2, PowerSum
  <2> QED
    BY <2>2, <2>3
<1> HIDE DEF ulp, P, Q
<1>5. d * ulp \in Nat \ {0} /\ N \in Nat /\ Double(n, d) = N * ulp
  <2>1. d * ulp \in Nat \ {0}
    BY <1>3, Product
  <2> QED
    BY <2>1, NearestType DEF Double, ulp, e
<1>6. N <= P
  <2>1. n * 1 <= P * (d * ulp)
    <3>1. d * (P * ulp) = P * (d * ulp) /\ P * (d * ulp) \in Nat
      BY <1>3
    <3> QED
      BY <1>1, <1>3, <3>1
  <2>2. N <= Nearest(P, 1)
    BY <1>3, <1>5, <2>1, NearestMonotone
  <2>3. Nearest(P * 1, 1) = P /\ P * 1 = P
    BY <1>3, NearestExact
  <2> QED
    BY <2>2, <2>3
<1>7. e # 0 => Q <= N
  <2>1. SUFFICES ASSUME e # 0 PROVE Q <= N
    OBVIOUS
  <2>2. Q * (d * ulp) <= n * 1
    <3>1. d * (Q * ulp) = Q * (d * ulp) /\ Q * (d * ulp) \in Nat
      BY <1>3
    <3> QED
      BY <1>1, <1>4, <2>1, <3>1
  <2>3. Nearest(Q, 1) <= N
    BY <1>3, <1>5, <2>2, NearestMonotone
  <2>4. Nearest(Q * 1, 1) = Q /\ Q * 1 = Q
    BY <1>3, NearestExact
  <2> QED
    BY <2>3, <2>4
<1> HIDE DEF N
<1>8. N * ulp <= P * ulp /\ (e # 0 => Q * ulp <= N * ulp)
  BY <1>3, <1>5, <1>6, <1>7, Scaled
<1> QED
  BY <1>1, <1>3, <1>4, <1>5, <1>8 DEF e

\* A greater quotient has no smaller double.
LEMMA DoubleMonotone ==
    ASSUME NEW n \in Nat, NEW d \in Nat \ {0}, NEW m \in Nat, NEW c \in Nat \ {0},
           n * c <= m * d
    PROVE  Double(n, d) <= Double(m, c)
<1> DEFINE e == Exponent(n, d)
           f == Exponent(m, c)
<1>1. /\ e \in Nat /\ (e = 0 \/ d * Power2[Precision + (e - 1)] <= n)
      /\ f \in Nat /\ m < c * Power2[Precision + f]
  BY ExponentProperties DEF IsExponent
<1>2. /\ Double(n, d) <= Power2[Precision + e]
      /\ f # 0 => Power2[Precision + (f - 1)] <= Double(m, c)
      /\ Double(n, d) \in Nat /\ Double(m, c) \in Nat
  BY DoubleBounds, DoubleType
<1>3. Precision \in Nat
  BY FusionAssumption
<1>4. Double(n, d) = Nearest(n, d * Power2[e]) * Power2[e]
      /\ Double(m, c) = Nearest(m, c * Power2[f]) * Power2[f]
  BY DEF Double
<1> HIDE DEF e, f
<1>5. e <= f
  <2>1. SUFFICES ASSUME f <= e - 1 PROVE FALSE
    BY <1>1
  <2> DEFINE a == Power2[Precision + (e - 1)]
             b == Power2[Precision + f]
  <2>2. /\ Precision + (e - 1) \in Nat /\ Precision + f \in Nat
        /\ Precision + f <= Precision + (e - 1)
    BY <1>1, <1>3, <2>1
  <2>3. a \in Nat /\ b \in Nat /\ b <= a
    BY <2>2, PowerProperties, PowerMonotone
  <2>4. d * a <= n /\ m < c * b
    BY <1>1, <2>1
  <2> HIDE DEF a, b
  <2>5. (d * a) * c <= n * c /\ m * d < (c * b) * d /\ b * (c * d) <= a * (c * d)
    <3>1. c * d \in Nat \ {0} /\ d * a \in Nat /\ c * b \in Nat
      BY <2>3, Product
    <3> QED
      BY <2>3, <2>4, <3>1, Scaled
  <2>6. (d * a) * c = a * (c * d) /\ (c * b) * d = b * (c * d)
        /\ a * (c * d) \in Nat /\ b * (c * d) \in Nat /\ n * c \in Nat /\ m * d \in Nat
    BY <2>3
  <2> QED
    BY <2>5, <2>6
<1>6. CASE e = f
  <2> DEFINE u == Power2[e]
  <2>1. u \in Nat \ {0}
    BY <1>1, PowerProperties
  <2>2. Double(n, d) = Nearest(n, d * u) * u /\ Double(m, c) = Nearest(m, c * u) * u
    BY <1>4, <1>6
  <2> HIDE DEF u
  <2>3. d * u \in Nat \ {0} /\ c * u \in Nat \ {0}
    BY <2>1, Product
  <2>4. n * (c * u) <= m * (d * u)
    <3>1. (n * c) * u <= (m * d) * u
      BY <2>1, Scaled
    <3>2. (n * c) * u = n * (c * u) /\ (m * d) * u = m * (d * u)
      BY <2>1
    <3> QED
      BY <3>1, <3>2
  <2>5. Nearest(n, d * u) <= Nearest(m, c * u)
    BY <2>3, <2>4, NearestMonotone
  <2>6. Nearest(n, d * u) \in Int /\ Nearest(m, c * u) \in Int
    BY <2>3, NearestType
  <2> QED
    BY <2>1, <2>2, <2>5, <2>6, Scaled
<1>7. CASE e # f
  <2>1. f # 0 /\ Precision + e <= Precision + (f - 1)
    BY <1>1, <1>3, <1>5, <1>7
  <2>2. Precision + e \in Nat /\ Precision + (f - 1) \in Nat
    BY <1>1, <1>3, <2>1
  <2>3. /\ Power2[Precision + e] <= Power2[Precision + (f - 1)]
        /\ Power2[Precision + e] \in Nat /\ Power2[Precision + (f - 1)] \in Nat
    BY <2>1, <2>2, PowerMonotone, PowerProperties
  <2> QED
    BY <1>2, <2>1, <2>3
<1> QED
  BY <1>6, <1>7

\* What has been rounded once is not changed by rounding it again.
LEMMA DoubleOfDouble ==
    ASSUME NEW n \in Nat, NEW d \in Nat \ {0}
    PROVE  Double(Double(n, d), 1) = Double(n, d)
<1> DEFINE x == Double(n, d)
           e == Exponent(n, d)
           f == Exponent(x, 1)
           N == Nearest(n, d * Power2[e])
<1> SUFFICES Double(x, 1) = x
  OBVIOUS
<1>1. x \in Nat /\ e \in Nat /\ x <= Power2[Precision + e]
  BY DoubleType, DoubleBounds
<1>2. N \in Nat /\ x = N * Power2[e] /\ Power2[e] \in Nat \ {0}
  <2>1. Power2[e] \in Nat \ {0}
    BY <1>1, PowerProperties
  <2>2. d * Power2[e] \in Nat \ {0}
    BY <2>1, Product
  <2> HIDE DEF e
  <2>3. N \in Nat
    BY <2>2, NearestType
  <2> QED
    BY <2>1, <2>3 DEF Double, e
<1> HIDE DEF x
<1>3. f \in Nat /\ (f = 0 \/ 1 * Power2[Precision + (f - 1)] <= x)
  BY <1>1, ExponentProperties DEF IsExponent
<1>4. Double(x, 1) = Nearest(x, 1 * Power2[f]) * Power2[f]
  BY DEF Double
<1>5. Precision \in Nat \ {0} /\ Precision - 1 \in Nat
  BY FusionAssumption
<1> HIDE DEF e, f, N
<1>6. \A p \in Nat : x = p * Power2[f] => Double(x, 1) = x
  <2>1. Power2[f] \in Nat \ {0} /\ 1 * Power2[f] = Power2[f]
    BY <1>3, PowerProperties
  <2> QED
    BY <1>4, <2>1, NearestExact
<1>7. CASE f <= e
  <2>1. e - f \in Nat /\ (e - f) + f = e
    BY <1>1, <1>3, <1>7
  <2>2. Power2[e] = Power2[e - f] * Power2[f] /\ Power2[e - f] \in Nat /\ Power2[f] \in Nat
    BY <1>3, <2>1, PowerSum, PowerProperties
  <2>3. x = (N * Power2[e - f]) * Power2[f] /\ N * Power2[e - f] \in Nat
    BY <1>2, <2>2
  <2> QED
    BY <1>6, <2>3
<1>8. CASE e < f
  <2>1. /\ Precision + (f - 1) \in Nat /\ Precision + e \in Nat
        /\ Precision + e <= Precision + (f - 1)
    BY <1>1, <1>3, <1>5, <1>8
  <2>2. /\ Power2[Precision + e] <= Power2[Precision + (f - 1)]
        /\ Power2[Precision + e] \in Nat /\ Power2[Precision + (f - 1)] \in Nat
    BY <2>1, PowerMonotone, PowerProperties
  <2>3. x = Power2[Precision + (f - 1)]
    BY <1>1, <1>3, <1>8, <2>2
  <2>4. Precision + (f - 1) = (Precision - 1) + f
    BY <1>3, <1>5
  <2>5. Power2[(Precision - 1) + f] = Power2[Precision - 1] * Power2[f]
    BY <1>3, <1>5, PowerSum
  <2>6. Power2[Precision - 1] \in Nat
    BY <1>5, PowerProperties
  <2> QED
    BY <1>6, <2>3, <2>4, <2>5, <2>6
<1> QED
  BY <1>1, <1>3, <1>7, <1>8

-----------------------------------------------------------------------------
(* Sorting *)

\* The pairs of a strict total order on S.
TotalOrders(S) ==
    {R \in SUBSET (S \X S) :
        /\ \A x \in S : <<x, x>> \notin R
        /\ \A x, y, z \in S : <<x, y>> \in R /\ <<y, z>> \in R => <<x, z>> \in R
        /\ \A x, y \in S : x # y => <<x, y>> \in R \/ <<y, x>> \in R}

LEMMA GreatestElement ==
    ASSUME NEW S, IsFiniteSet(S), S # {}, NEW R \in TotalOrders(S)
    PROVE  \E m \in S : \A x \in S \ {m} : <<x, m>> \in R
<1> DEFINE Top(s, m) == \A x \in s \ {m} : <<x, m>> \in R
           T == {s \in SUBSET S : s # {} => \E m \in s : Top(s, m)}
<1>1. ASSUME NEW s \in SUBSET S, \A x \in s : s \ {x} \in T PROVE s \in T
  <2>1. SUFFICES ASSUME s # {} PROVE \E m \in s : Top(s, m)
    OBVIOUS
  <2>2. PICK x \in s : TRUE
    BY <2>1
  <2>3. CASE s \ {x} = {}
    BY <2>2, <2>3
  <2>4. CASE s \ {x} # {}
    <3>1. PICK m \in s \ {x} : Top(s \ {x}, m)
      BY <1>1, <2>2, <2>4
    <3>2. x \in S /\ m \in S /\ x # m
      BY <2>2, <3>1
    <3>3. CASE <<x, m>> \in R
      BY <2>2, <3>1, <3>3
    <3>4. CASE <<m, x>> \in R
      <4>1. \A y \in s \ {x} : <<y, x>> \in R
        BY <3>1, <3>2, <3>4 DEF TotalOrders
      <4> QED
        BY <2>2, <4>1
    <3> QED
      BY <3>2, <3>3, <3>4 DEF TotalOrders
  <2> QED
    BY <2>3, <2>4
<1>2. \A s \in SUBSET S : s \in T
  <2> HIDE DEF T
  <2>1. T \in SUBSET (SUBSET S)
    BY DEF T
  <2> QED
    BY <1>1, <2>1, SubsetInduction
<1> QED
  BY <1>2

\* A finite set has an enumeration along a total order: the greatest element is
\* appended to one of the others.
LEMMA SortedEnumeration ==
    ASSUME NEW S, IsFiniteSet(S), NEW R \in TotalOrders(S)
    PROVE  \E e \in SetToSeqs(S) : \A i, j \in DOMAIN e : i < j => <<e[i], e[j]>> \in R
<1> DEFINE Sorted(e) == \A i, j \in DOMAIN e : i < j => <<e[i], e[j]>> \in R
           T == {s \in SUBSET S : \E e \in SetToSeqs(s) : Sorted(e)}
<1>1. ASSUME NEW s \in SUBSET S, \A x \in s : s \ {x} \in T PROVE s \in T
  <2>1. CASE s = {}
    <3>1. <<>> \in SetToSeqs(s)
      BY <2>1, FS_EmptySet DEF SetToSeqs
    <3>2. Sorted(<<>>)
      OBVIOUS
    <3> HIDE DEF Sorted
    <3> QED
      BY <3>1, <3>2
  <2>2. CASE s # {}
    <3>1. R \cap (s \X s) \in TotalOrders(s) /\ IsFiniteSet(s)
      BY FS_Subset DEF TotalOrders
    <3>2. PICK m \in s : \A x \in s \ {m} : <<x, m>> \in R
      BY <2>2, <3>1, GreatestElement
    <3>3. PICK e \in SetToSeqs(s \ {m}) : Sorted(e)
      BY <1>1, <3>2
    <3> DEFINE n == Cardinality(s)
               g == [i \in 1 .. n |-> IF i = n THEN m ELSE e[i]]
    <3>4. n \in Nat /\ n # 0 /\ Cardinality(s \ {m}) = n - 1
      BY <2>2, <3>1, <3>2, FS_CardinalityType, FS_EmptySet, FS_RemoveElement
    <3>5. /\ e \in [1 .. n - 1 -> s \ {m}]
          /\ \A i, j \in 1 .. n - 1 : i # j => e[i] # e[j]
      BY <3>3, <3>4 DEF SetToSeqs
    <3> HIDE DEF n
    <3>6. /\ g \in [1 .. n -> s]
          /\ \A i, j \in 1 .. n : i # j => g[i] # g[j]
      BY <3>2, <3>4, <3>5
    <3>7. g \in SetToSeqs(s)
      BY <3>6 DEF SetToSeqs, n
    <3>8. Sorted(g)
      <4>1. SUFFICES ASSUME NEW i \in 1 .. n, NEW j \in 1 .. n, i < j
                     PROVE  <<g[i], g[j]>> \in R
        OBVIOUS
      <4>2. i \in 1 .. n - 1 /\ g[i] = e[i] /\ e[i] \in s \ {m}
        BY <3>4, <3>5, <4>1
      <4>3. CASE j = n
        BY <3>2, <4>2, <4>3
      <4>4. CASE j # n
        <5>1. j \in 1 .. n - 1 /\ g[j] = e[j]
          BY <3>4, <4>4
        <5> QED
          BY <3>3, <3>5, <4>1, <4>2, <5>1
      <4> QED
        BY <4>3, <4>4
    <3> HIDE DEF g, Sorted
    <3> QED
      BY <3>7, <3>8
  <2> QED
    BY <2>1, <2>2
<1>2. \A s \in SUBSET S : s \in T
  <2> HIDE DEF T
  <2>1. T \in SUBSET (SUBSET S)
    BY DEF T
  <2> QED
    BY <1>1, <2>1, SubsetInduction
<1> QED
  BY <1>2

\* An enumeration without repetition reaches every element.
LEMMA EnumerationIsOnto ==
    ASSUME NEW S, IsFiniteSet(S), NEW e \in SetToSeqs(S)
    PROVE  e \in Seq(S) /\ Len(e) = Cardinality(S) /\ ToSet(e) = S
<1>1. /\ Cardinality(S) \in Nat
      /\ e \in [1 .. Cardinality(S) -> S]
      /\ \A i, j \in 1 .. Cardinality(S) : i # j => e[i] # e[j]
  BY FS_CardinalityType DEF SetToSeqs
<1>2. e \in Injection(1 .. Cardinality(S), S)
  BY <1>1 DEF Injection, IsInjective
<1>3. Cardinality(1 .. Cardinality(S)) = Cardinality(S)
  BY <1>1, FS_Interval
<1>4. e \in Surjection(1 .. Cardinality(S), S)
  BY <1>2, <1>3, FS_Injection
<1> QED
  BY <1>1, <1>4 DEF Surjection, ToSet

-----------------------------------------------------------------------------
(* The loops *)

LEMMA MaxProperties ==
    /\ \A s \in SUBSET Nat : IsFiniteSet(s) /\ s # {} => Max(s) \in s
    /\ \A n \in Nat \ {0} : Max(1 .. n) = n /\ (1 .. n) \ {n} = 1 .. n - 1
<1>1. ASSUME NEW s \in SUBSET Nat, IsFiniteSet(s), s # {} PROVE Max(s) \in s
  <2>1. PICK R \in TotalOrders(s) : \A x, y \in s : <<x, y>> \in R <=> x < y
    <3> DEFINE R == {p \in s \X s : p[1] < p[2]}
    <3>1. R \in TotalOrders(s)
      BY <1>1 DEF TotalOrders
    <3>2. \A x, y \in s : <<x, y>> \in R <=> x < y
      OBVIOUS
    <3> HIDE DEF R
    <3> QED
      BY <3>1, <3>2
  <2>2. IsFiniteSet(s) /\ s # {}
    BY <1>1
  <2>3. PICK m \in s : \A x \in s \ {m} : <<x, m>> \in R
    BY <2>1, <2>2, GreatestElement
  <2>4. ASSUME NEW x \in s PROVE m >= x
    <3>1. x \in Nat /\ m \in Nat
      OBVIOUS
    <3>2. x # m => <<x, m>> \in R
      BY <2>3
    <3>3. x # m => x < m
      BY <2>1, <3>2
    <3> QED
      BY <3>1, <3>3
  <2> QED
    BY <2>4 DEF Max
<1>2. ASSUME NEW n \in Nat \ {0} PROVE Max(1 .. n) = n /\ (1 .. n) \ {n} = 1 .. n - 1
  <2>1. n \in 1 .. n /\ \A y \in 1 .. n : n >= y
    OBVIOUS
  <2>2. \A x \in 1 .. n : (\A y \in 1 .. n : x >= y) => x = n
    BY <2>1
  <2> QED
    BY <2>1, <2>2 DEF Max
<1> QED
  BY <1>1, <1>2

\* What a dict of scores of the ids in Ids may be, and get.
Tables(Ids) == UNION {[ids -> Nat] : ids \in FiniteSubsetsOf(Ids)}

LEMMA EmptyTable == \A Ids : <<>> \in Tables(Ids)
<1> SUFFICES ASSUME NEW Ids PROVE <<>> \in Tables(Ids)
  OBVIOUS
<1>1. <<>> \in [{} -> Nat] /\ {} \in FiniteSubsetsOf(Ids)
  BY FS_EmptySet DEF FiniteSubsetsOf
<1> QED
  BY <1>1 DEF Tables

LegsOf(Ids) == {leg \in [weight : Nat, ranked : Seq(Ids)] : IsInjective(leg.ranked)}

\* The dict after has the ids of before and those in new, and each of these has had its
\* gain added.
Gains(before, after, Ids, new, gain) ==
    /\ after \in Tables(Ids)
    /\ DOMAIN after = DOMAIN before \cup new
    /\ \A c \in Ids : Get(after, c) = IF c \in new THEN Plus(Get(before, c), gain[c])
                                      ELSE Get(before, c)

LEMMA GetType == ASSUME NEW Ids, NEW scores \in Tables(Ids), NEW c PROVE Get(scores, c) \in Nat
  BY DEF Get, Tables

LEMMA AddShareEffect ==
    ASSUME NEW Ids, NEW scores \in Tables(Ids), NEW id \in Ids, NEW share \in Nat
    PROVE  Gains(scores, AddShare(scores, id, share), Ids, {id}, [c \in Ids |-> share])
<1>1. PICK ids \in FiniteSubsetsOf(Ids) : scores \in [ids -> Nat]
  BY DEF Tables
<1> DEFINE sum == Plus(Get(scores, id), share)
<1>2. sum \in Nat
  BY GetType, PlusType
<1> HIDE DEF sum
<1>3. AddShare(scores, id, share) = [c \in ids \cup {id} |-> IF c = id THEN sum ELSE scores[c]]
  BY <1>1 DEF AddShare, sum
<1>4. /\ AddShare(scores, id, share) \in [ids \cup {id} -> Nat]
      /\ ids \cup {id} \in FiniteSubsetsOf(Ids)
  BY <1>1, <1>2, <1>3, FS_AddElement DEF FiniteSubsetsOf
<1>5. AddShare(scores, id, share) \in Tables(Ids)
  BY <1>4 DEF Tables
<1>6. ASSUME NEW c \in Ids
      PROVE  Get(AddShare(scores, id, share), c)
                 = IF c \in {id} THEN Plus(Get(scores, c), share) ELSE Get(scores, c)
  <2>1. CASE c = id
    BY <1>3, <2>1 DEF Get, sum
  <2>2. CASE c # id
    BY <1>1, <1>3, <2>2 DEF Get
  <2> QED
    BY <2>1, <2>2
<1> QED
  BY <1>1, <1>3, <1>5, <1>6 DEF Gains

\* G[1 .. n] is the dict after n ranks of the leg.
InLeg(G, scores, leg) ==
    G = [s \in SUBSET DOMAIN [i \in DOMAIN leg.ranked |-> i] |->
            IF s = {} THEN scores
            ELSE AddShare(G[s \ {Max(s)}],
                          leg.ranked[[i \in DOMAIN leg.ranked |-> i][Max(s)]],
                          Share(leg.weight, [i \in DOMAIN leg.ranked |-> i][Max(s)]))]

LEMMA AddLegIsLoop ==
    ASSUME NEW Ids, NEW scores \in Tables(Ids), NEW leg \in LegsOf(Ids), leg.weight # 0
    PROVE  \E G : InLeg(G, scores, leg) /\ AddLeg(scores, leg) = G[DOMAIN leg.ranked]
<1> DEFINE D == DOMAIN leg.ranked
           pick == [s \in (SUBSET D) \ {{}} |-> Max(s)]
           step == [x \in D \X Tables(Ids) |->
                       AddShare(x[2], leg.ranked[x[1]], Share(leg.weight, x[1]))]
           G == CHOOSE G : InLeg(G, scores, leg)
<1>1. D = 1 .. Len(leg.ranked) /\ IsFiniteSet(D) /\ leg.weight \in Nat
      /\ \A r \in D : leg.ranked[r] \in Ids /\ r \in Nat \ {0}
  <2>1. leg.weight \in Nat /\ leg.ranked \in Seq(Ids)
    BY DEF LegsOf
  <2>2. D = 1 .. Len(leg.ranked) /\ Len(leg.ranked) \in Nat
    BY <2>1
  <2>3. IsFiniteSet(1 .. Len(leg.ranked))
    BY <2>2, FS_Interval
  <2> QED
    BY <2>1, <2>2, <2>3
<1>2. pick \in Picks(D)
  <2>1. \A s \in (SUBSET D) \ {{}} : Max(s) \in s
    BY <1>1, MaxProperties, FS_Subset
  <2> QED
    BY <2>1 DEF Picks
<1>3. step \in StepsOn(D, Tables(Ids))
  <2>1. SUFFICES ASSUME NEW r \in D, NEW v \in Tables(Ids)
                 PROVE  AddShare(v, leg.ranked[r], Share(leg.weight, r)) \in Tables(Ids)
    BY DEF StepsOn
  <2> QED
    <3>1. Gains(v, AddShare(v, leg.ranked[r], Share(leg.weight, r)), Ids, {leg.ranked[r]},
                [c \in Ids |-> Share(leg.weight, r)])
      <4>1. leg.ranked[r] \in Ids /\ Share(leg.weight, r) \in Nat
        BY <1>1, ShareType
      <4> QED
        BY <4>1, AddShareEffect
    <3> QED
      BY <3>1 DEF Gains
<1>4. PICK f : SetSolution(f, D, Tables(Ids), scores, pick, step)
  BY <1>1, <1>2, <1>3, SetRecursion
<1>5. InLeg(f, scores, leg)
  <2>1. SUFFICES ASSUME NEW s \in SUBSET D, s # {}
                 PROVE  f[s] = AddShare(f[s \ {Max(s)}], leg.ranked[Max(s)],
                                        Share(leg.weight, Max(s)))
                        /\ Max(s) \in D
    BY <1>4 DEF SetSolution, InLeg
  <2>2. pick[s] = Max(s) /\ pick[s] \in D
    <3>1. pick[s] \in D
      BY <1>2, <2>1 DEF Picks
    <3> QED
      BY <2>1, <3>1
  <2>3. f[s] = step[<<pick[s], f[s \ {pick[s]}]>>] /\ f[s \ {pick[s]}] \in Tables(Ids)
    <3>1. s \ {pick[s]} \in SUBSET D
      OBVIOUS
    <3> HIDE DEF pick, step
    <3> QED
      BY <1>4, <2>1, <3>1 DEF SetSolution
  <2> HIDE DEF pick
  <2> QED
    BY <2>2, <2>3
<1>6. InLeg(G, scores, leg)
  BY <1>5
<1>7. AddLeg(scores, leg) = G[DOMAIN [i \in D |-> i]]
  BY DEF AddLeg, FoldLeftDomain, FoldLeft, MapThenFoldSet, InLeg
<1> QED
  BY <1>6, <1>7

\* The ids that a leg counts for, and what it adds to each.
Counted(leg) == IF leg.weight = 0 THEN {} ELSE ToSet(leg.ranked)
SharesOf(leg, Ids) == [c \in Ids |-> Share(leg.weight, RankIn(leg, c))]

\* A leg adds its share to each id that it ranks: a ranking has an id once.
LEMMA AddLegEffect ==
    ASSUME NEW Ids, NEW scores \in Tables(Ids), NEW leg \in LegsOf(Ids)
    PROVE  Gains(scores, AddLeg(scores, leg), Ids, Counted(leg), SharesOf(leg, Ids))
<1>1. CASE leg.weight = 0
  <2>1. AddLeg(scores, leg) = scores /\ Counted(leg) = {}
    BY <1>1 DEF AddLeg, Counted
  <2> QED
    BY <2>1 DEF Gains
<1>2. CASE leg.weight # 0
  <2> DEFINE N == Len(leg.ranked)
             Firsts(n) == {leg.ranked[r] : r \in 1 .. n}
             gain == SharesOf(leg, Ids)
  <2>1. PICK G : InLeg(G, scores, leg) /\ AddLeg(scores, leg) = G[DOMAIN leg.ranked]
    BY <1>2, AddLegIsLoop
  <2>2. /\ leg.weight \in Nat /\ leg.ranked \in Seq(Ids) /\ N \in Nat
        /\ DOMAIN leg.ranked = 1 .. N
        /\ \A r \in 1 .. N : leg.ranked[r] \in Ids /\ r \in Nat \ {0}
        /\ \A r, t \in 1 .. N : leg.ranked[r] = leg.ranked[t] => r = t
    <3>1. leg.weight \in Nat /\ leg.ranked \in Seq(Ids) /\ IsInjective(leg.ranked)
      BY DEF LegsOf
    <3>2. N \in Nat /\ DOMAIN leg.ranked = 1 .. N
      BY <3>1
    <3>3. \A r, t \in 1 .. N : leg.ranked[r] = leg.ranked[t] => r = t
      BY <3>1, <3>2 DEF IsInjective
    <3> QED
      BY <3>1, <3>2, <3>3
  <2> HIDE DEF N
  <2>3. \A r \in 1 .. N : gain[leg.ranked[r]] = Share(leg.weight, r)
    <3>1. SUFFICES ASSUME NEW r \in 1 .. N PROVE RankIn(leg, leg.ranked[r]) = r
      BY <2>2 DEF SharesOf
    <3>2. r \in DOMAIN leg.ranked /\ RankIn(leg, leg.ranked[r]) \in DOMAIN leg.ranked
          /\ leg.ranked[RankIn(leg, leg.ranked[r])] = leg.ranked[r]
      BY <2>2 DEF RankIn
    <3> QED
      BY <2>2, <3>2
  <2> HIDE DEF gain
  <2> DEFINE Upto(n) == Gains(scores, G[1 .. n], Ids, Firsts(n), gain)
             T == {n \in Nat : n <= N => Upto(n)}
  <2>4. 0 \in T
    <3>1. 1 .. 0 = {} /\ Firsts(0) = {}
      OBVIOUS
    <3>2. G[{}] = scores
      BY <2>1 DEF InLeg
    <3>3. Upto(0)
      <4> HIDE DEF Firsts
      <4> QED
        BY <3>1, <3>2 DEF Gains
    <3> HIDE DEF Upto
    <3> QED
      BY <3>3
  <2>5. \A n \in T : n + 1 \in T
    <3> HIDE DEF Upto
    <3> SUFFICES ASSUME NEW n \in T, n + 1 <= N PROVE Upto(n + 1)
      OBVIOUS
    <3>1. n \in Nat /\ n <= N /\ n + 1 \in 1 .. N
      BY <2>2
    <3>2. Upto(n)
      BY <2>2, <3>1
    <3> USE DEF Upto
    <3> DEFINE id == leg.ranked[n + 1]
               share == Share(leg.weight, n + 1)
    <3>3. id \in Ids /\ share \in Nat /\ gain[id] = share
      BY <2>2, <2>3, <3>1, ShareType
    <3>4. G[1 .. n + 1] = AddShare(G[1 .. n], id, share)
      <4>1. Max(1 .. n + 1) = n + 1 /\ (1 .. n + 1) \ {n + 1} = 1 .. n
        BY <3>1, MaxProperties
      <4>2. 1 .. n + 1 \in SUBSET (1 .. N) /\ n + 1 \in 1 .. n + 1
        BY <2>2, <3>1
      <4>3. /\ 1 .. n + 1 \in SUBSET DOMAIN leg.ranked
            /\ 1 .. n + 1 # {}
            /\ n + 1 \in DOMAIN leg.ranked
        BY <2>2, <4>2
      <4> QED
        BY <2>1, <4>1, <4>3 DEF InLeg
    <3>5. id \notin Firsts(n)
      BY <2>2, <3>1
    <3>6. Firsts(n + 1) = Firsts(n) \cup {id}
      BY <3>1
    <3> HIDE DEF id, share, Firsts
    <3>7. Gains(G[1 .. n], G[1 .. n + 1], Ids, {id}, [c \in Ids |-> share])
      <4>1. G[1 .. n] \in Tables(Ids)
        BY <3>2 DEF Gains
      <4> QED
        BY <3>3, <3>4, <4>1, AddShareEffect
    <3>8. ASSUME NEW c \in Ids
          PROVE  Get(G[1 .. n + 1], c) = IF c \in Firsts(n + 1) THEN Plus(Get(scores, c), gain[c])
                                         ELSE Get(scores, c)
      <4>1. Get(G[1 .. n + 1], c) = IF c = id THEN Plus(Get(G[1 .. n], c), share)
                                    ELSE Get(G[1 .. n], c)
        BY <3>7 DEF Gains
      <4>2. Get(G[1 .. n], c) = IF c \in Firsts(n) THEN Plus(Get(scores, c), gain[c])
                                ELSE Get(scores, c)
        BY <3>2 DEF Gains
      <4> QED
        BY <3>3, <3>5, <3>6, <4>1, <4>2
    <3>9. /\ G[1 .. n + 1] \in Tables(Ids)
          /\ DOMAIN G[1 .. n + 1] = DOMAIN scores \cup Firsts(n + 1)
      BY <3>2, <3>6, <3>7 DEF Gains
    <3> QED
      BY <3>8, <3>9 DEF Gains
  <2>6. Upto(N)
    <3> HIDE DEF Upto
    <3>1. T \in SUBSET Nat
      OBVIOUS
    <3>2. T = Nat
      <4> HIDE DEF T
      <4> QED
        BY <2>4, <2>5, <3>1, SetInduction
    <3> QED
      BY <2>2, <3>2
  <2>7. Firsts(N) = Counted(leg)
    BY <1>2, <2>2 DEF ToSet, Counted
  <2> HIDE DEF Firsts
  <2> QED
    BY <2>1, <2>2, <2>6, <2>7 DEF gain
<1> QED
  BY <1>1, <1>2

\* G[1 .. n] is the dict after n legs.
InLegs(G, legs) ==
    G = [s \in SUBSET DOMAIN legs |->
            IF s = {} THEN <<>> ELSE AddLeg(G[s \ {Max(s)}], legs[Max(s)])]

LEMMA ScoresIsLoop ==
    ASSUME NEW Ids, NEW legs \in Seq(LegsOf(Ids))
    PROVE  \E G : InLegs(G, legs) /\ Scores(legs) = G[DOMAIN legs]
<1> DEFINE D == DOMAIN legs
           pick == [s \in (SUBSET D) \ {{}} |-> Max(s)]
           step == [x \in D \X Tables(Ids) |-> AddLeg(x[2], legs[x[1]])]
           G == CHOOSE G : InLegs(G, legs)
<1>1. IsFiniteSet(D) /\ D \in SUBSET Nat /\ \A i \in D : legs[i] \in LegsOf(Ids)
  <2>1. D = 1 .. Len(legs) /\ Len(legs) \in Nat
    OBVIOUS
  <2>2. IsFiniteSet(1 .. Len(legs))
    BY <2>1, FS_Interval
  <2> QED
    BY <2>1, <2>2
<1>2. pick \in Picks(D)
  <2>1. \A s \in (SUBSET D) \ {{}} : Max(s) \in s
    BY <1>1, MaxProperties, FS_Subset
  <2> QED
    BY <2>1 DEF Picks
<1>3. step \in StepsOn(D, Tables(Ids))
  <2>1. SUFFICES ASSUME NEW i \in D, NEW v \in Tables(Ids)
                 PROVE  AddLeg(v, legs[i]) \in Tables(Ids)
    BY DEF StepsOn
  <2>2. Gains(v, AddLeg(v, legs[i]), Ids, Counted(legs[i]), SharesOf(legs[i], Ids))
    BY <1>1, AddLegEffect
  <2> QED
    BY <2>2 DEF Gains
<1>4. <<>> \in Tables(Ids)
  BY EmptyTable
<1>5. PICK f : SetSolution(f, D, Tables(Ids), <<>>, pick, step)
  BY <1>1, <1>2, <1>3, <1>4, SetRecursion
<1>6. InLegs(f, legs)
  <2>1. SUFFICES ASSUME NEW s \in SUBSET D, s # {}
                 PROVE  f[s] = AddLeg(f[s \ {Max(s)}], legs[Max(s)])
    BY <1>5 DEF SetSolution, InLegs
  <2>2. pick[s] = Max(s) /\ pick[s] \in D
    <3>1. pick[s] \in D
      BY <1>2, <2>1 DEF Picks
    <3> QED
      BY <2>1, <3>1
  <2>3. f[s] = step[<<pick[s], f[s \ {pick[s]}]>>] /\ f[s \ {pick[s]}] \in Tables(Ids)
    <3>1. s \ {pick[s]} \in SUBSET D
      OBVIOUS
    <3> HIDE DEF pick, step
    <3> QED
      BY <1>5, <2>1, <3>1 DEF SetSolution
  <2> HIDE DEF pick
  <2> QED
    BY <2>2, <2>3
<1>7. InLegs(G, legs)
  BY <1>6
<1>8. Scores(legs) = G[D]
  BY DEF Scores, FoldLeft, MapThenFoldSet, InLegs
<1> QED
  BY <1>7, <1>8

\* What one leg makes of the score of id, and H[1 .. n] is the score after n legs.
Added(sofar, leg, id) ==
    IF Ranks(leg, id) THEN Plus(sofar, Share(leg.weight, RankIn(leg, id))) ELSE sofar

InScore(H, legs, id) ==
    H = [s \in SUBSET DOMAIN legs |->
            IF s = {} THEN 0 ELSE Added(H[s \ {Max(s)}], legs[Max(s)], id)]

LEMMA AddedType ==
    ASSUME NEW Ids, NEW leg \in LegsOf(Ids), NEW id, NEW sofar \in Nat
    PROVE  Added(sofar, leg, id) \in Nat
<1>1. SUFFICES ASSUME Ranks(leg, id) PROVE Plus(sofar, Share(leg.weight, RankIn(leg, id))) \in Nat
  BY DEF Added
<1>2. leg.weight \in Nat /\ leg.ranked \in Seq(Ids)
  BY DEF LegsOf
<1>3. \E rank \in DOMAIN leg.ranked : leg.ranked[rank] = id
  BY <1>1 DEF Ranks, ToSet
<1>4. RankIn(leg, id) \in DOMAIN leg.ranked
  BY <1>3 DEF RankIn
<1>5. RankIn(leg, id) \in Nat \ {0}
  BY <1>2, <1>4
<1> QED
  BY <1>2, <1>5, ShareType, PlusType

LEMMA LegsAreFinite ==
    ASSUME NEW Ids, NEW legs \in Seq(LegsOf(Ids))
    PROVE  /\ IsFiniteSet(DOMAIN legs) /\ DOMAIN legs \in SUBSET Nat
           /\ \A i \in DOMAIN legs : legs[i] \in LegsOf(Ids)
           /\ [s \in (SUBSET DOMAIN legs) \ {{}} |-> Max(s)] \in Picks(DOMAIN legs)
<1>1. DOMAIN legs = 1 .. Len(legs) /\ Len(legs) \in Nat
  OBVIOUS
<1>2. IsFiniteSet(1 .. Len(legs))
  BY <1>1, FS_Interval
<1>3. \A s \in (SUBSET DOMAIN legs) \ {{}} : Max(s) \in s
  BY <1>1, <1>2, MaxProperties, FS_Subset
<1> QED
  BY <1>1, <1>2, <1>3 DEF Picks

LEMMA ScoreIsLoop ==
    ASSUME NEW Ids, NEW legs \in Seq(LegsOf(Ids)), NEW id
    PROVE  \E H : InScore(H, legs, id) /\ Score(legs, id) = H[DOMAIN legs]
<1> DEFINE D == DOMAIN legs
           pick == [s \in (SUBSET D) \ {{}} |-> Max(s)]
           step == [x \in D \X Nat |-> Added(x[2], legs[x[1]], id)]
           H == CHOOSE H : InScore(H, legs, id)
<1>1. IsFiniteSet(D) /\ pick \in Picks(D) /\ step \in StepsOn(D, Nat)
  BY LegsAreFinite, AddedType DEF StepsOn
<1>2. PICK f : SetSolution(f, D, Nat, 0, pick, step)
  BY <1>1, SetRecursion
<1>3. InScore(f, legs, id)
  <2>1. SUFFICES ASSUME NEW s \in SUBSET D, s # {}
                 PROVE  f[s] = Added(f[s \ {Max(s)}], legs[Max(s)], id)
    BY <1>2 DEF SetSolution, InScore
  <2>2. pick[s] = Max(s) /\ pick[s] \in D
    <3>1. pick[s] \in D
      BY <1>1, <2>1 DEF Picks
    <3> QED
      BY <2>1, <3>1
  <2>3. f[s] = step[<<pick[s], f[s \ {pick[s]}]>>] /\ f[s \ {pick[s]}] \in Nat
    <3>1. s \ {pick[s]} \in SUBSET D
      OBVIOUS
    <3> HIDE DEF pick, step
    <3> QED
      BY <1>2, <2>1, <3>1 DEF SetSolution
  <2> HIDE DEF pick
  <2> QED
    BY <2>2, <2>3
<1>4. InScore(H, legs, id)
  BY <1>3
<1>5. Score(legs, id) = H[D]
  BY DEF Score, FoldLeft, MapThenFoldSet, InScore, Added
<1> QED
  BY <1>4, <1>5

\* For every number of legs, every weight and every ranking without repetition, the dict
\* has exactly the ids that a leg of a weight other than 0 ranks, and the score of each is
\* the sum that the docstring of reciprocal_rank_fusion states, each of its quotients and
\* additions rounded as a double's are: one rounding of a quotient and one of a sum for
\* each leg that ranks the id, in the order of the legs.
THEOREM ScoresAreTheDocstrings ==
    ASSUME NEW Ids, NEW legs \in Seq(LegsOf(Ids))
    PROVE  /\ Scores(legs) \in [Ranked(legs) -> Nat]
           /\ \A id \in Ranked(legs) : Scores(legs)[id] = Score(legs, id)
           /\ Ranked(legs) \in FiniteSubsetsOf(Ids)
<1> DEFINE N == Len(legs)
           ids(n) == UNION {ToSet(legs[i].ranked) : i \in {j \in 1 .. n : legs[j].weight # 0}}
<1>1. PICK G : InLegs(G, legs) /\ Scores(legs) = G[DOMAIN legs]
  BY ScoresIsLoop
<1>2. N \in Nat /\ DOMAIN legs = 1 .. N /\ \A i \in 1 .. N : legs[i] \in LegsOf(Ids)
  OBVIOUS
<1> HIDE DEF N
<1> DEFINE Upto(n) == G[1 .. n] \in Tables(Ids) /\ DOMAIN G[1 .. n] = ids(n)
           T == {n \in Nat : n <= N => Upto(n)}
<1>3. ASSUME NEW n \in Nat, n + 1 <= N, G[1 .. n] \in Tables(Ids)
      PROVE  Gains(G[1 .. n], G[1 .. n + 1], Ids, Counted(legs[n + 1]), SharesOf(legs[n + 1], Ids))
  <2>1. Max(1 .. n + 1) = n + 1 /\ (1 .. n + 1) \ {n + 1} = 1 .. n
    BY <1>3, MaxProperties
  <2>2. 1 .. n + 1 \in SUBSET DOMAIN legs /\ 1 .. n + 1 # {} /\ n + 1 \in 1 .. N
    BY <1>2, <1>3
  <2>3. G[1 .. n + 1] = AddLeg(G[1 .. n], legs[n + 1])
    BY <1>1, <2>1, <2>2 DEF InLegs
  <2>4. legs[n + 1] \in LegsOf(Ids)
    BY <1>2, <2>2
  <2> QED
    BY <1>3, <2>3, <2>4, AddLegEffect
<1>4. 1 .. 0 = {} /\ G[{}] = <<>> /\ <<>> \in Tables(Ids)
  BY <1>1, EmptyTable DEF InLegs
<1>5. 0 \in T
  <2>1. DOMAIN <<>> = ids(0)
    OBVIOUS
  <2> HIDE DEF ids
  <2>2. Upto(0)
    BY <1>4, <2>1
  <2> QED
    BY <2>2
<1>6. \A n \in T : n + 1 \in T
  <2> HIDE DEF Upto
  <2> SUFFICES ASSUME NEW n \in T, n + 1 <= N PROVE Upto(n + 1)
    OBVIOUS
  <2>1. n \in Nat /\ n <= N
    BY <1>2
  <2>2. Upto(n)
    BY <1>2, <2>1
  <2> USE DEF Upto
  <2> DEFINE new == Counted(legs[n + 1])
  <2>3. G[1 .. n + 1] \in Tables(Ids) /\ DOMAIN G[1 .. n + 1] = DOMAIN G[1 .. n] \cup new
    BY <1>3, <2>1, <2>2 DEF Gains
  <2>4. ids(n + 1) = ids(n) \cup new
    <3>1. \A i : i \in 1 .. n + 1 <=> i \in 1 .. n \/ i = n + 1
      BY <2>1
    <3> QED
      BY <3>1 DEF Counted
  <2> HIDE DEF ids, new
  <2> QED
    BY <2>2, <2>3, <2>4
<1>7. \A n \in 0 .. N : Upto(n)
  <2> HIDE DEF Upto
  <2>1. T \in SUBSET Nat
    OBVIOUS
  <2>2. T = Nat
    <3> HIDE DEF T
    <3> QED
      BY <1>5, <1>6, <2>1, SetInduction
  <2> QED
    BY <1>2, <2>2
<1>8. ids(N) = Ranked(legs)
  BY <1>2 DEF Ranked
<1> HIDE DEF ids
<1>9. Scores(legs) \in Tables(Ids) /\ DOMAIN Scores(legs) = Ranked(legs)
  <2>1. N \in 0 .. N
    BY <1>2
  <2> QED
    BY <1>1, <1>2, <1>7, <1>8, <2>1
<1>10. \A n \in 0 .. N : G[1 .. n] \in Tables(Ids)
  BY <1>7
<1> HIDE DEF Upto, T
<1>11. ASSUME NEW c \in Ids PROVE Get(Scores(legs), c) = Score(legs, c)
  <2>1. PICK H : InScore(H, legs, c) /\ Score(legs, c) = H[DOMAIN legs]
    BY ScoreIsLoop
  <2> DEFINE A == {n \in Nat : n <= N => Get(G[1 .. n], c) = H[1 .. n]}
  <2>2. 0 \in A
    <3>1. H[{}] = 0
      BY <2>1 DEF InScore
    <3>2. Get(<<>>, c) = 0
      BY DEF Get
    <3> QED
      BY <1>4, <3>1, <3>2
  <2>3. \A n \in A : n + 1 \in A
    <3> SUFFICES ASSUME NEW n \in A, n + 1 <= N PROVE Get(G[1 .. n + 1], c) = H[1 .. n + 1]
      OBVIOUS
    <3> DEFINE leg == legs[n + 1]
    <3>1. n \in Nat /\ n \in 0 .. N /\ n + 1 \in 1 .. N /\ Get(G[1 .. n], c) = H[1 .. n]
      BY <1>2
    <3>2. H[1 .. n + 1] = Added(H[1 .. n], leg, c)
      <4>1. Max(1 .. n + 1) = n + 1 /\ (1 .. n + 1) \ {n + 1} = 1 .. n
        BY <3>1, MaxProperties
      <4>2. 1 .. n + 1 \in SUBSET DOMAIN legs /\ 1 .. n + 1 # {}
        <5>1. 1 .. n + 1 \in SUBSET (1 .. N) /\ n + 1 \in 1 .. n + 1
          BY <1>2, <3>1
        <5> QED
          BY <1>2, <5>1
      <4> QED
        BY <2>1, <4>1, <4>2 DEF InScore
    <3>3. Gains(G[1 .. n], G[1 .. n + 1], Ids, Counted(leg), SharesOf(leg, Ids))
      BY <1>3, <1>10, <3>1
    <3>4. c \in Counted(leg) <=> Ranks(leg, c)
      BY DEF Counted, Ranks
    <3>5. SharesOf(leg, Ids)[c] = Share(leg.weight, RankIn(leg, c))
      BY DEF SharesOf
    <3> HIDE DEF leg
    <3> QED
      BY <3>1, <3>2, <3>3, <3>4, <3>5 DEF Gains, Added
  <2>4. A = Nat
    <3>1. A \in SUBSET Nat
      OBVIOUS
    <3> HIDE DEF A
    <3> QED
      BY <2>2, <2>3, <3>1, SetInduction
  <2>5. Get(G[1 .. N], c) = H[1 .. N]
    BY <1>2, <2>4
  <2> QED
    BY <1>1, <1>2, <2>1, <2>5
<1>12. Scores(legs) \in [DOMAIN Scores(legs) -> Nat] /\ DOMAIN Scores(legs) \in FiniteSubsetsOf(Ids)
  BY <1>9 DEF Tables
<1>13. \A c \in DOMAIN Scores(legs) : c \in Ids
  BY <1>12 DEF FiniteSubsetsOf
<1> QED
  BY <1>9, <1>11, <1>12, <1>13 DEF Get

-----------------------------------------------------------------------------
(* The order *)

\* The key (-score, id) is a total order on the ids, whatever the scores are; the code
\* may leave the rest to sorted.
LEMMA BeforeIsTotal ==
    ASSUME NEW S \in SUBSET Nat, NEW scores \in [S -> Nat]
    PROVE  {p \in S \X S : Before(scores, p[1], p[2])} \in TotalOrders(S)
<1> DEFINE R == {p \in S \X S : Before(scores, p[1], p[2])}
<1>1. R \in SUBSET (S \X S)
  OBVIOUS
<1>2. \A x, y \in S : <<x, y>> \in R <=> Before(scores, x, y)
  OBVIOUS
<1>3. \A x \in S : x \in Nat /\ scores[x] \in Nat
  OBVIOUS
<1> HIDE DEF R
<1>4. \A x \in S : <<x, x>> \notin R
  BY <1>2, <1>3 DEF Before
<1>5. \A x, y, z \in S : <<x, y>> \in R /\ <<y, z>> \in R => <<x, z>> \in R
  BY <1>2, <1>3 DEF Before
<1>6. \A x, y \in S : x # y => <<x, y>> \in R \/ <<y, x>> \in R
  BY <1>2, <1>3 DEF Before
<1>7. R \in TotalOrders(S)
  BY <1>1, <1>4, <1>5, <1>6 DEF TotalOrders
<1> QED
  BY <1>7 DEF R

\* The fused list has every id that a leg of a weight other than 0 ranks, each once,
\* best score first and ties by id: what the docstring promises of the result.
THEOREM FuseIsTheRanking ==
    ASSUME NEW Ids \in SUBSET Nat, NEW legs \in Seq(LegsOf(Ids))
    PROVE  /\ Fuse(legs) \in SetToSeqs(Ranked(legs))
           /\ ToSet(Fuse(legs)) = Ranked(legs)
           /\ Len(Fuse(legs)) = Cardinality(Ranked(legs))
           /\ Fuse(legs) \in Seq(Ids)
           /\ IsRanking(legs, Fuse(legs))
<1> DEFINE S == Ranked(legs)
           scores == Scores(legs)
           Sorted(e) == \A i, j \in DOMAIN e : i < j => Before(scores, e[i], e[j])
<1>1. /\ scores \in [S -> Nat]
      /\ \A id \in S : scores[id] = Score(legs, id)
      /\ S \in SUBSET Nat /\ S \in SUBSET Ids /\ IsFiniteSet(S)
  BY ScoresAreTheDocstrings DEF FiniteSubsetsOf
<1> HIDE DEF S, scores
<1>2. PICK R \in TotalOrders(S) : \A x, y \in S : <<x, y>> \in R => Before(scores, x, y)
  <2>1. {p \in S \X S : Before(scores, p[1], p[2])} \in TotalOrders(S)
    BY <1>1, BeforeIsTotal
  <2> QED
    BY <2>1
<1>3. PICK e \in SetToSeqs(S) : \A i, j \in DOMAIN e : i < j => <<e[i], e[j]>> \in R
  BY <1>1, <1>2, SortedEnumeration
<1>4. Sorted(e)
  <2>1. \A i \in DOMAIN e : e[i] \in S
    BY DEF SetToSeqs
  <2> QED
    BY <1>2, <1>3, <2>1
<1>5. Fuse(legs) = CHOOSE s \in SetToSeqs(S) : Sorted(s)
  BY <1>1 DEF Fuse, SortedBy, scores
<1>6. Fuse(legs) \in SetToSeqs(S) /\ Sorted(Fuse(legs))
  BY <1>4, <1>5
<1>7. Fuse(legs) \in Seq(S) /\ Len(Fuse(legs)) = Cardinality(S) /\ ToSet(Fuse(legs)) = S
  BY <1>1, <1>6, EnumerationIsOnto
<1>8. IsRanking(legs, Fuse(legs))
  <2>1. SUFFICES ASSUME NEW i \in DOMAIN Fuse(legs), NEW j \in DOMAIN Fuse(legs), i < j
                 PROVE  LET ids == Fuse(legs) IN
                        \/ Score(legs, ids[i]) > Score(legs, ids[j])
                        \/ Score(legs, ids[i]) = Score(legs, ids[j]) /\ ids[i] < ids[j]
    BY DEF IsRanking
  <2>2. Fuse(legs)[i] \in S /\ Fuse(legs)[j] \in S
    BY <1>6 DEF SetToSeqs
  <2>3. Before(scores, Fuse(legs)[i], Fuse(legs)[j])
    BY <1>6, <2>1
  <2> QED
    BY <1>1, <2>2, <2>3 DEF Before
<1> QED
  BY <1>1, <1>6, <1>7, <1>8 DEF S

\* The result is determined by its legs: no other enumeration of those ids is best first
\* with ties by id.  At the first place where another one differs, each of the two ids
\* would come before the other.
THEOREM FuseIsDeterministic ==
    ASSUME NEW Ids \in SUBSET Nat, NEW legs \in Seq(LegsOf(Ids)),
           NEW e \in SetToSeqs(Ranked(legs)), IsRanking(legs, e)
    PROVE  e = Fuse(legs)
<1> DEFINE S == Ranked(legs)
           f == Fuse(legs)
           n == Cardinality(S)
           R(x, y) == Score(legs, x) > Score(legs, y) \/ (Score(legs, x) = Score(legs, y) /\ x < y)
           T == {m \in Nat : \A i \in 1 .. n : i <= m => e[i] = f[i]}
<1>1. /\ IsFiniteSet(S) /\ S \in SUBSET Nat /\ f \in SetToSeqs(S)
      /\ \A id \in S : Score(legs, id) \in Nat
      /\ IsRanking(legs, f)
  <2>1. /\ Scores(legs) \in [S -> Nat]
        /\ \A id \in S : Scores(legs)[id] = Score(legs, id)
        /\ S \in FiniteSubsetsOf(Ids)
    BY ScoresAreTheDocstrings
  <2> QED
    BY <2>1, FuseIsTheRanking DEF FiniteSubsetsOf
<1> HIDE DEF S, f
<1>2. n \in Nat
  BY <1>1, FS_CardinalityType
<1>3. /\ e \in [1 .. n -> S] /\ \A i, j \in 1 .. n : i # j => e[i] # e[j]
      /\ f \in [1 .. n -> S] /\ \A i, j \in 1 .. n : i # j => f[i] # f[j]
  BY <1>1 DEF SetToSeqs, S
<1>4. ToSet(e) = S /\ ToSet(f) = S
  BY <1>1, EnumerationIsOnto DEF S
<1> HIDE DEF n
<1>5. /\ \A i, j \in 1 .. n : i < j => R(e[i], e[j])
      /\ \A i, j \in 1 .. n : i < j => R(f[i], f[j])
  BY <1>1, <1>3 DEF IsRanking
<1>6. \A x, y \in S : ~(R(x, y) /\ R(y, x))
  <2>1. SUFFICES ASSUME NEW x \in S, NEW y \in S PROVE ~(R(x, y) /\ R(y, x))
    OBVIOUS
  <2>2. x \in Nat /\ y \in Nat /\ Score(legs, x) \in Nat /\ Score(legs, y) \in Nat
    BY <1>1
  <2> QED
    BY <2>2
<1> HIDE DEF R
<1>7. \A m \in T : m + 1 \in T
  <2>1. SUFFICES ASSUME NEW m \in T, m + 1 \in 1 .. n, e[m + 1] # f[m + 1] PROVE FALSE
    BY <1>2
  <2>2. m \in Nat /\ \A i \in 1 .. n : i <= m => e[i] = f[i]
    OBVIOUS
  <2>3. PICK j \in 1 .. n : e[j] = f[m + 1]
    BY <1>3, <1>4, <2>1 DEF ToSet
  <2>4. PICK k \in 1 .. n : f[k] = e[m + 1]
    BY <1>3, <1>4, <2>1 DEF ToSet
  <2>5. m + 1 < j
    BY <1>2, <1>3, <2>1, <2>2, <2>3
  <2>6. m + 1 < k
    BY <1>2, <1>3, <2>1, <2>2, <2>4
  <2>7. R(e[m + 1], e[j]) /\ R(f[m + 1], f[k])
    BY <1>5, <2>1, <2>5, <2>6
  <2>8. e[m + 1] \in S /\ f[m + 1] \in S
    BY <1>3, <2>1
  <2> QED
    BY <1>6, <2>3, <2>4, <2>7, <2>8
<1>8. T = Nat
  <2>1. 0 \in T
    OBVIOUS
  <2>2. T \in SUBSET Nat
    OBVIOUS
  <2> HIDE DEF T
  <2> QED
    BY <1>7, <2>1, <2>2, SetInduction
<1>9. n \in T
  <2> HIDE DEF T
  <2> QED
    BY <1>2, <1>8
<1>10. e = f
  BY <1>2, <1>3, <1>9
<1> QED
  BY <1>10 DEF f

-----------------------------------------------------------------------------
(* Ranks decide, in spite of the rounding *)

LEMMA ShareMonotone ==
    ASSUME NEW weight \in Nat, NEW p \in Nat \ {0}, NEW q \in Nat \ {0}, p <= q
    PROVE  Share(weight, q) <= Share(weight, p)
<1>1. RRF_K + p \in Nat \ {0} /\ RRF_K + q \in Nat \ {0} /\ RRF_K + p <= RRF_K + q
  BY FusionAssumption
<1>2. weight * (RRF_K + p) <= weight * (RRF_K + q)
  <2>1. weight = 0 \/ weight \in Nat \ {0}
    OBVIOUS
  <2>2. \A x, y \in Nat : x <= y => weight * x <= weight * y
    BY <2>1, Scaled
  <2> QED
    BY <1>1, <2>2
<1> QED
  BY <1>1, <1>2, DoubleMonotone DEF Share

LEMMA ZeroIsDouble == Double(0, 1) = 0
<1>1. Power2[Exponent(0, 1)] \in Nat \ {0}
  <2>1. Exponent(0, 1) \in Nat
    BY ExponentProperties DEF IsExponent
  <2> QED
    BY <2>1, PowerProperties
<1> DEFINE u == Power2[Exponent(0, 1)]
<1>2. Double(0, 1) = Nearest(0, 1 * u) * u
  BY DEF Double
<1> HIDE DEF u
<1>3. 1 * u = u /\ 0 * u = 0 /\ u \in Nat \ {0}
  BY <1>1 DEF u
<1>4. Nearest(0 * u, u) = 0
  BY <1>3, NearestExact
<1> QED
  BY <1>2, <1>3, <1>4

\* A leg that ranks a no lower than b keeps a sum for a from falling behind one for b.
LEMMA AddedMonotone ==
    ASSUME NEW Ids, NEW leg \in LegsOf(Ids), NEW a, NEW b,
           Ranks(leg, b) => Ranks(leg, a) /\ RankIn(leg, a) <= RankIn(leg, b),
           NEW x \in Nat, NEW y \in Nat, y <= x, Double(x, 1) = x
    PROVE  /\ Added(y, leg, b) <= Added(x, leg, a)
           /\ Double(Added(x, leg, a), 1) = Added(x, leg, a)
<1> DEFINE p == RankIn(leg, a)
           q == RankIn(leg, b)
<1>1. leg.weight \in Nat /\ leg.ranked \in Seq(Ids)
  BY DEF LegsOf
<1>2. \A id : Ranks(leg, id) => RankIn(leg, id) \in Nat \ {0}
  <2>1. SUFFICES ASSUME NEW id, Ranks(leg, id) PROVE RankIn(leg, id) \in Nat \ {0}
    OBVIOUS
  <2>2. \E rank \in DOMAIN leg.ranked : leg.ranked[rank] = id
    BY <2>1 DEF Ranks, ToSet
  <2>3. RankIn(leg, id) \in DOMAIN leg.ranked
    BY <2>2 DEF RankIn
  <2> QED
    BY <1>1, <2>3
<1>3. Ranks(leg, a) => p \in Nat \ {0} /\ Share(leg.weight, p) \in Nat
  BY <1>1, <1>2, ShareType
<1> HIDE DEF p, q
<1>4. \A u, v \in Nat : u <= v => Double(u, 1) <= Double(v, 1)
  <2>1. SUFFICES ASSUME NEW u \in Nat, NEW v \in Nat, u <= v PROVE Double(u, 1) <= Double(v, 1)
    OBVIOUS
  <2>2. u * 1 <= v * 1 /\ 1 \in Nat \ {0}
    BY <2>1
  <2> QED
    BY <2>2, DoubleMonotone
<1>5. CASE ~Ranks(leg, a)
  BY <1>5 DEF Added
<1>6. CASE Ranks(leg, a)
  <2> DEFINE s == Share(leg.weight, p)
  <2>1. s \in Nat /\ x + s \in Nat /\ Added(x, leg, a) = Double(x + s, 1)
    BY <1>3, <1>6 DEF Added, Plus, p
  <2>2. Double(Added(x, leg, a), 1) = Added(x, leg, a)
    <3>1. 1 \in Nat \ {0}
      OBVIOUS
    <3> HIDE DEF s
    <3> QED
      BY <2>1, <3>1, DoubleOfDouble
  <2>3. CASE Ranks(leg, b)
    <3> DEFINE t == Share(leg.weight, q)
    <3>1. q \in Nat \ {0} /\ p <= q /\ t \in Nat /\ t <= s
      <4>1. q \in Nat \ {0} /\ p <= q
        BY <1>2, <2>3 DEF p, q
      <4>2. t \in Nat
        BY <1>1, <4>1, ShareType
      <4>3. t <= s
        BY <1>1, <1>3, <1>6, <4>1, ShareMonotone
      <4> QED
        BY <4>1, <4>2, <4>3
    <3>2. Added(y, leg, b) = Double(y + t, 1)
      BY <2>3 DEF Added, Plus, q
    <3> HIDE DEF s, t
    <3>3. y + t \in Nat /\ y + t <= x + s
      BY <2>1, <3>1
    <3> QED
      BY <1>4, <2>1, <2>2, <3>2, <3>3
  <2>4. CASE ~Ranks(leg, b)
    <3>1. Added(y, leg, b) = y
      BY <2>4 DEF Added
    <3> HIDE DEF s
    <3>2. Double(x, 1) <= Double(x + s, 1)
      BY <1>4, <2>1
    <3>3. Double(x + s, 1) \in Nat
      <4>1. 1 \in Nat \ {0}
        OBVIOUS
      <4> QED
        BY <2>1, <4>1, DoubleType
    <3> QED
      BY <2>1, <2>2, <3>1, <3>2, <3>3
  <2> QED
    BY <2>3, <2>4
<1> QED
  BY <1>5, <1>6

\* Rounding does not turn ranks around: an id that every leg ranks no lower than another
\* one scores no less, for every k, every weights and every precision.  It may score the
\* same, where the rounding swallows what it is ahead by.
THEOREM NoLowerScoresNoLess ==
    ASSUME NEW Ids, NEW legs \in Seq(LegsOf(Ids)), NEW a, NEW b, NoLower(legs, a, b)
    PROVE  Score(legs, b) <= Score(legs, a)
<1> DEFINE N == Len(legs)
<1>1. N \in Nat /\ DOMAIN legs = 1 .. N /\ \A i \in 1 .. N : legs[i] \in LegsOf(Ids)
  OBVIOUS
<1> HIDE DEF N
<1>2. PICK G : InScore(G, legs, a) /\ Score(legs, a) = G[DOMAIN legs]
  BY ScoreIsLoop
<1>3. PICK H : InScore(H, legs, b) /\ Score(legs, b) = H[DOMAIN legs]
  BY ScoreIsLoop
<1> DEFINE Upto(n) == /\ G[1 .. n] \in Nat /\ H[1 .. n] \in Nat
                      /\ H[1 .. n] <= G[1 .. n] /\ Double(G[1 .. n], 1) = G[1 .. n]
           T == {n \in Nat : n <= N => Upto(n)}
<1>4. 0 \in T
  <2>1. 1 .. 0 = {} /\ G[{}] = 0 /\ H[{}] = 0
    BY <1>2, <1>3 DEF InScore
  <2>2. Upto(0)
    BY <2>1, ZeroIsDouble
  <2> HIDE DEF Upto
  <2> QED
    BY <2>2
<1>5. \A n \in T : n + 1 \in T
  <2> HIDE DEF Upto
  <2> SUFFICES ASSUME NEW n \in T, n + 1 <= N PROVE Upto(n + 1)
    OBVIOUS
  <2>1. n \in Nat /\ n <= N /\ n + 1 \in 1 .. N /\ Upto(n)
    BY <1>1
  <2> DEFINE leg == legs[n + 1]
  <2>2. leg \in LegsOf(Ids)
        /\ (Ranks(leg, b) => Ranks(leg, a) /\ RankIn(leg, a) <= RankIn(leg, b))
    BY <1>1, <2>1 DEF NoLower
  <2>3. G[1 .. n + 1] = Added(G[1 .. n], leg, a) /\ H[1 .. n + 1] = Added(H[1 .. n], leg, b)
    <3>1. Max(1 .. n + 1) = n + 1 /\ (1 .. n + 1) \ {n + 1} = 1 .. n
      BY <2>1, MaxProperties
    <3>2. 1 .. n + 1 \in SUBSET DOMAIN legs /\ 1 .. n + 1 # {}
      <4>1. 1 .. n + 1 \in SUBSET (1 .. N) /\ n + 1 \in 1 .. n + 1
        BY <1>1, <2>1
      <4> QED
        BY <1>1, <4>1
    <3> QED
      BY <1>2, <1>3, <3>1, <3>2 DEF InScore
  <2> HIDE DEF leg
  <2> DEFINE x == G[1 .. n]
             y == H[1 .. n]
  <2>4. x \in Nat /\ y \in Nat /\ y <= x /\ Double(x, 1) = x
    BY <2>1 DEF Upto
  <2>5. G[1 .. n + 1] = Added(x, leg, a) /\ H[1 .. n + 1] = Added(y, leg, b)
    BY <2>3
  <2> HIDE DEF x, y
  <2>6. /\ Added(y, leg, b) <= Added(x, leg, a)
        /\ Double(Added(x, leg, a), 1) = Added(x, leg, a)
    BY <2>2, <2>4, AddedMonotone
  <2>7. Added(x, leg, a) \in Nat /\ Added(y, leg, b) \in Nat
    BY <2>2, <2>4, AddedType
  <2> QED
    BY <2>5, <2>6, <2>7 DEF Upto
<1>6. Upto(N)
  <2> HIDE DEF Upto
  <2>1. T \in SUBSET Nat
    OBVIOUS
  <2>2. T = Nat
    <3> HIDE DEF T
    <3> QED
      BY <1>4, <1>5, <2>1, SetInduction
  <2> QED
    BY <1>1, <2>2
<1> QED
  BY <1>1, <1>2, <1>3, <1>6

=============================================================================
