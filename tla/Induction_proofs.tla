-------------------------- MODULE Induction_proofs --------------------------
(***************************************************************************)
(* What proofs about folds, sums and counters need, for data of any size.  *)
(*                                                                         *)
(* The library's induction theorems take the property as an operator,      *)
(* which the provers cannot instantiate.  Here a property is the set of    *)
(* what has it: a minimal element outside that set is refuted, so there is *)
(* none.  A fold is a function chosen for its recursion; that one exists   *)
(* is a lemma, and then its recursion may be used.                         *)
(***************************************************************************)
EXTENDS Integers, FiniteSets, FiniteSetsExt, SequencesExt,
        FiniteSetTheorems, WellFoundedInduction, TLAPS

(***************************************************************************)
(* Numbers.                                                                *)
(***************************************************************************)

\* A set of naturals that is not empty has a least element.
LEMMA LeastIn ==
    ASSUME NEW S \in SUBSET Nat, S # {}
    PROVE  \E x \in S : \A y \in S : x <= y
<1>1. PICK x \in S : \A y \in S : <<y, x>> \notin OpToRel(<, Nat)
  BY NatLessThanWellFounded, WFMin
<1>2. ASSUME NEW y \in S PROVE x <= y
  <2>1. <<y, x>> \in Nat \X Nat /\ <<y, x>>[1] = y /\ <<y, x>>[2] = x
    OBVIOUS
  <2>2. ~(y < x)
    BY <1>1, <2>1, Zenon DEF OpToRel
  <2>3. x \in Nat /\ y \in Nat
    OBVIOUS
  <2> QED
    BY <2>2, <2>3
<1> QED
  BY <1>2

\* What holds of 0 and passes on holds up to n.
LEMMA ByCounting ==
    ASSUME NEW n \in Nat, NEW T, 0 \in T, \A k \in 1..n : k - 1 \in T => k \in T
    PROVE  n \in T
<1> DEFINE bad == {k \in 0..n : k \notin T}
<1>1. bad = {}
  <2> SUFFICES ASSUME bad # {} PROVE FALSE
    OBVIOUS
  <2>1. PICK k \in bad : \A j \in bad : k <= j
    <3> HIDE DEF bad
    <3>1. bad \in SUBSET Nat
      BY DEF bad
    <3> QED
      BY <3>1, LeastIn
  <2>2. k \in 1..n /\ k \notin T
    BY <2>1
  <2>3. k - 1 \in T
    BY <2>1, <2>2
  <2> QED
    BY <2>2, <2>3
<1> QED
  BY <1>1

\* Min takes an element of the set, and none is less.
LEMMA MinIn ==
    ASSUME NEW S, S \subseteq Nat, S # {}
    PROVE  Min(S) \in S /\ \A x \in S : Min(S) <= x
<1>1. PICK x \in S : \A y \in S : x <= y
  BY LeastIn
<1> QED
  BY <1>1 DEF Min

\* Max, of a set that is bounded.
LEMMA MaxIn ==
    ASSUME NEW n \in Nat, NEW S \in SUBSET (1..n), S # {}
    PROVE  Max(S) \in S /\ \A y \in S : y <= Max(S)
<1> DEFINE T == {n - x : x \in S}
<1>1. T \in SUBSET Nat /\ T # {}
  <2>1. \A x \in S : x \in 1..n
    OBVIOUS
  <2>2. \A x \in S : n - x \in Nat
    BY <2>1
  <2> QED
    BY <2>2
<1>2. PICK t \in T : \A u \in T : t <= u
  <2> HIDE DEF T
  <2> QED
    BY <1>1, LeastIn
<1>3. PICK x \in S : t = n - x
  BY <1>2
<1>4. \A y \in S : x >= y
  <2> TAKE y \in S
  <2>1. n - x <= n - y /\ x \in 1..n /\ y \in 1..n
    BY <1>2, <1>3
  <2> QED
    BY <2>1
<1>5. Max(S) \in S /\ \A y \in S : Max(S) >= y
  BY <1>4, Zenon DEF Max
<1> QED
  BY <1>5

\* Max is the element that none is above.
LEMMA MaxIs ==
    ASSUME NEW S, S \subseteq Nat, NEW x \in S, \A y \in S : y <= x
    PROVE  Max(S) = x
<1>1. \A z \in S : (\A y \in S : y <= z) => z = x
  OBVIOUS
<1> QED
  BY <1>1 DEF Max

\* The greatest of 1..k is k, and what is left without it is 1..(k - 1).
LEMMA LastOfUpTo ==
    ASSUME NEW n \in Nat, NEW k \in 1..n
    PROVE  Max(1..k) = k /\ (1..k) \ {k} = 1..(k - 1) /\ 1..k \in SUBSET (1..n) /\ 1..k # {}
<1>1. 1..k \in SUBSET (1..n) /\ 1..k # {}
  OBVIOUS
<1>2. Max(1..k) \in 1..k /\ \A y \in 1..k : y <= Max(1..k)
  <2>1. 1..k \in SUBSET (1..k)
    OBVIOUS
  <2> QED
    BY <1>1, <2>1, MaxIn
<1> QED
  BY <1>1, <1>2

\* The provers know nothing of 2^n; that it is a natural number and not zero
\* follows from the library: it counts the subsets of a set of n elements.
LEMMA TwoToThe == ASSUME NEW n \in Nat PROVE 2^n \in Nat \ {0}
<1>1. IsFiniteSet(1..n) /\ Cardinality(1..n) = n
  BY FS_Interval
<1>2. IsFiniteSet(SUBSET (1..n)) /\ Cardinality(SUBSET (1..n)) = 2^n
  BY <1>1, FS_SUBSET
<1>3. Cardinality(SUBSET (1..n)) # 0
  BY <1>2, FS_EmptySet
<1> QED
  BY <1>2, <1>3, FS_CardinalityType

\* Division with a rest, which is what is left of a modulo m.
LEMMA Division ==
    ASSUME NEW a \in Int, NEW m \in Nat \ {0}
    PROVE  a \div m \in Int /\ a % m \in 0..(m - 1) /\ a = m * (a \div m) + (a % m)
OBVIOUS

LEMMA Quotient ==
    ASSUME NEW a \in Nat, NEW m \in Nat \ {0}
    PROVE  a \div m \in Nat
OBVIOUS

\* Only one rest is less than m.
LEMMA RemainderIs ==
    ASSUME NEW m \in Nat \ {0}, NEW a \in Int, NEW q \in Int, NEW r \in 0..(m - 1), a = m * q + r
    PROVE  a % m = r
<1> DEFINE p == a \div m
           s == a % m
<1>1. p \in Int /\ s \in 0..(m - 1) /\ a = m * p + s
  BY Division
<1> HIDE DEF p, s
<1>2. m * p \in Int /\ m * q \in Int
  BY <1>1
<1>3. m * (p - q) = r - s
  <2>1. m * (p - q) = m * p - m * q
    BY <1>1
  <2> QED
    BY <1>1, <1>2, <2>1
<1>4. p - q \in Int
  BY <1>1
<1>5. CASE p - q >= 1
  <2>1. PICK d \in Nat : p - q = 1 + d
    <3>1. p - q - 1 \in Nat /\ p - q = 1 + (p - q - 1)
      BY <1>1, <1>5
    <3> QED
      BY <3>1
  <2>2. m * (p - q) = m + m * d /\ m * d \in Nat
    BY <2>1
  <2> QED
    BY <1>1, <1>3, <2>2
<1>6. CASE p - q <= 0 - 1
  <2>1. PICK d \in Nat : p - q = 0 - 1 - d
    <3>1. q - p - 1 \in Nat /\ p - q = 0 - 1 - (q - p - 1)
      BY <1>1, <1>6
    <3> QED
      BY <3>1
  <2>2. m * (p - q) = 0 - m - m * d /\ m * d \in Nat
    BY <2>1
  <2> QED
    BY <1>1, <1>3, <2>2
<1>7. CASE p - q = 0
  <2>1. m * (p - q) = 0
    BY <1>7
  <2> QED
    BY <1>1, <1>3, <2>1 DEF s
<1> QED
  BY <1>4, <1>5, <1>6, <1>7

\* Wrapping additions may be done one by one or at the end.
LEMMA WrapOnce ==
    ASSUME NEW m \in Nat \ {0}, NEW a \in Int, NEW b \in Int
    PROVE  ((a % m) + (b % m)) % m = (a + b) % m
<1> DEFINE r == (a + b) % m
           p == a \div m
           q == b \div m
           t == (a + b) \div m
<1>1. /\ p \in Int /\ a % m \in 0..(m - 1) /\ a = m * p + (a % m)
      /\ q \in Int /\ b % m \in 0..(m - 1) /\ b = m * q + (b % m)
      /\ t \in Int /\ r \in 0..(m - 1) /\ a + b = m * t + r
  BY Division
<1> HIDE DEF p, q, t, r
<1>2. m * p \in Int /\ m * q \in Int /\ m * t \in Int
  BY <1>1
<1>3. m * (t - p - q) = m * t - m * p - m * q
  BY <1>1
<1>4. (a % m) + (b % m) = m * (t - p - q) + r
  BY <1>1, <1>2, <1>3
<1>5. t - p - q \in Int /\ (a % m) + (b % m) \in Int
  BY <1>1
<1>6. ((a % m) + (b % m)) % m = r
  BY <1>1, <1>4, <1>5, RemainderIs
<1> QED
  BY <1>6 DEF r

(***************************************************************************)
(* Finite sets and recursion over their parts.                             *)
(***************************************************************************)

\* Induction on a finite set, for a property given as the set T of the parts of
\* S that have it.
Inherited(T, S) ==
    /\ {} \in T
    /\ \A s \in SUBSET S : s # {} => \E x \in s : s \ {x} \in T => s \in T

LEMMA PartsByInduction ==
    ASSUME NEW S, IsFiniteSet(S), NEW T, Inherited(T, S)
    PROVE  S \in T
<1> USE DEF Inherited
<1> DEFINE missing == {k \in Nat : \E s \in (SUBSET S) \ T : Cardinality(s) = k}
<1>0. \A s : s \notin T => s # {}
  OBVIOUS
<1>1. \A s \in SUBSET S : IsFiniteSet(s) /\ Cardinality(s) \in Nat
  BY FS_Subset, FS_CardinalityType
<1>2. missing = {}
  <2> SUFFICES ASSUME missing # {} PROVE FALSE
    OBVIOUS
  <2>1. PICK k \in missing : \A j \in missing : k <= j
    <3> HIDE DEF missing
    <3>1. missing \in SUBSET Nat
      BY DEF missing
    <3> QED
      BY <3>1, LeastIn
  <2>2. PICK s \in (SUBSET S) \ T : Cardinality(s) = k
    BY <2>1
  <2>a. s \in SUBSET S /\ s \notin T
    OBVIOUS
  <2>b. s # {}
    BY <2>a, <1>0
  <2>3. PICK x \in s : s \ {x} \in T => s \in T
    BY <2>a, <2>b
  <2>4. s \ {x} \in (SUBSET S) \ T
    BY <2>2, <2>3
  <2>5. Cardinality(s \ {x}) = Cardinality(s) - 1
    BY <1>1, <2>2, <2>3, FS_RemoveElement
  <2>6. k - 1 \in Nat /\ k - 1 \in missing
    BY <1>1, <2>2, <2>4, <2>5
  <2> QED
    BY <2>1, <2>6
<1>3. S \in SUBSET S
  OBVIOUS
<1> QED
  BY <1>1, <1>2, <1>3

\* A recursion over the subsets of a finite set has a solution: pick says which
\* element goes next, step what it adds.
Unfolds(f, D, base, pick, step) ==
    f = [s \in D |-> IF s = {} THEN base ELSE step[<<pick[s], f[s \ {pick[s]}]>>]]

UpToSize(S, k) == {s \in SUBSET S : Cardinality(s) <= k}

LEMMA UnfoldsFurther ==
    ASSUME NEW S, IsFiniteSet(S), NEW base, NEW step, NEW pick,
           \A s \in SUBSET S : s # {} => pick[s] \in s,
           NEW V, base \in V, step \in [S \X V -> V],
           NEW k \in Nat, NEW f \in [UpToSize(S, k) -> V], Unfolds(f, UpToSize(S, k), base, pick, step)
    PROVE  \E g \in [UpToSize(S, k + 1) -> V] : Unfolds(g, UpToSize(S, k + 1), base, pick, step)
<1> DEFINE D == UpToSize(S, k)
           E == UpToSize(S, k + 1)
           g == [s \in E |-> IF s = {} THEN base ELSE step[<<pick[s], f[s \ {pick[s]}]>>]]
<1>1. ASSUME NEW s \in E, s # {} PROVE s \ {pick[s]} \in D /\ s \ {pick[s]} \in E
  <2>1. s \in SUBSET S /\ IsFiniteSet(s) /\ pick[s] \in s /\ Cardinality(s) <= k + 1
    BY <1>1, FS_Subset DEF UpToSize
  <2>2. /\ IsFiniteSet(s \ {pick[s]}) /\ Cardinality(s \ {pick[s]}) = Cardinality(s) - 1
        /\ Cardinality(s) \in Nat
    BY <2>1, FS_RemoveElement, FS_CardinalityType
  <2> QED
    BY <2>1, <2>2 DEF UpToSize
<1>2. \A s \in D : s \in E
  <2>1. \A s \in D : Cardinality(s) \in Nat
    BY FS_Subset, FS_CardinalityType DEF UpToSize
  <2> QED
    BY <2>1 DEF UpToSize
<1>3. \A s \in D : f[s] = IF s = {} THEN base ELSE step[<<pick[s], f[s \ {pick[s]}]>>]
  BY Zenon DEF Unfolds
<1>4. \A s \in E : g[s] = IF s = {} THEN base ELSE step[<<pick[s], f[s \ {pick[s]}]>>]
  BY Zenon
<1> HIDE DEF g, E, D
<1>5. \A s \in D : g[s] = f[s]
  BY <1>2, <1>3, <1>4
<1>6. \A s \in E : g[s] = IF s = {} THEN base ELSE step[<<pick[s], g[s \ {pick[s]}]>>]
  BY <1>1, <1>4, <1>5
<1>7. g = [s \in E |-> g[s]]
  BY DEF g
<1>8. g = [s \in E |-> IF s = {} THEN base ELSE step[<<pick[s], g[s \ {pick[s]}]>>]]
  BY <1>6, <1>7, Zenon
<1>9. ASSUME NEW s \in E PROVE g[s] \in V
  <2>1. CASE s = {}
    BY <1>4, <2>1
  <2>2. CASE s # {}
    <3>1. s \in SUBSET S /\ s \ {pick[s]} \in D
      BY <1>1, <2>2 DEF E, UpToSize
    <3>2. pick[s] \in S /\ f[s \ {pick[s]}] \in V
      BY <2>2, <3>1 DEF D
    <3>3. <<pick[s], f[s \ {pick[s]}]>> \in S \X V
      BY <3>2
    <3> QED
      BY <1>4, <2>2, <3>3
  <2> QED
    BY <2>1, <2>2
<1>10. g \in [E -> V]
  BY <1>7, <1>9
<1> QED
  BY <1>8, <1>10 DEF Unfolds, E

LEMMA FoldExists ==
    ASSUME NEW S, IsFiniteSet(S), NEW base, NEW step, NEW pick,
           \A s \in SUBSET S : s # {} => pick[s] \in s,
           NEW V, base \in V, step \in [S \X V -> V]
    PROVE  \E f \in [SUBSET S -> V] : Unfolds(f, SUBSET S, base, pick, step)
<1> DEFINE P(k) == \E f \in [UpToSize(S, k) -> V] : Unfolds(f, UpToSize(S, k), base, pick, step)
           bad == {k \in Nat : ~P(k)}
<1>1. P(0)
  <2>1. UpToSize(S, 0) = {{}}
    <3>1. \A s \in SUBSET S : Cardinality(s) \in Nat /\ (Cardinality(s) = 0 <=> s = {})
      BY FS_Subset, FS_CardinalityType, FS_EmptySet
    <3> QED
      BY <3>1 DEF UpToSize
  <2> DEFINE f == [s \in {{}} |-> base]
  <2>2. f = [s \in {{}} |-> IF s = {} THEN base ELSE step[<<pick[s], f[s \ {pick[s]}]>>]]
    BY Zenon
  <2>3. f \in [{{}} -> V]
    OBVIOUS
  <2> QED
    BY <2>1, <2>2, <2>3 DEF Unfolds
<1>2. \A k \in Nat : P(k) => P(k + 1)
  BY UnfoldsFurther
<1> HIDE DEF P
<1>3. \A k \in Nat : P(k)
  <2> SUFFICES ASSUME bad # {} PROVE FALSE
    OBVIOUS
  <2>1. PICK k \in bad : \A j \in bad : k <= j
    <3> HIDE DEF bad
    <3>1. bad \in SUBSET Nat
      BY DEF bad
    <3> QED
      BY <3>1, LeastIn
  <2>2. k \in Nat /\ ~P(k) /\ k # 0
    BY <1>1
  <2>3. k - 1 \in Nat /\ k - 1 \notin bad /\ (k - 1) + 1 = k
    BY <2>1, <2>2
  <2> QED
    BY <1>2, <2>2, <2>3
<1>4. Cardinality(S) \in Nat /\ UpToSize(S, Cardinality(S)) = SUBSET S
  <2>1. \A s \in SUBSET S : Cardinality(s) <= Cardinality(S)
    BY FS_Subset
  <2> QED
    BY <2>1, FS_CardinalityType DEF UpToSize
<1>5. P(Cardinality(S))
  BY <1>3, <1>4
<1> QED
  BY <1>4, <1>5 DEF P

(***************************************************************************)
(* Sums.                                                                   *)
(***************************************************************************)

\* g is the sum of f over every part of D, whichever element is taken first.
Adds(g, f, D) ==
    /\ g \in [SUBSET D -> Nat]
    /\ g[{}] = 0
    /\ \A s \in SUBSET D : \A x \in s : g[s] = f[x] + g[s \ {x}]

\* What holds of every set that is one element larger than those it holds of.
TakesPicked(g, f, D, pick) ==
    /\ g[{}] = 0
    /\ \A s \in SUBSET D : s # {} => pick[s] \in s /\ g[s] = f[pick[s]] + g[s \ {pick[s]}]

LEMMA AdditiveFromFirst ==
    ASSUME NEW D, IsFiniteSet(D), NEW f \in [D -> Nat], NEW pick, NEW g \in [SUBSET D -> Nat],
           TakesPicked(g, f, D, pick)
    PROVE  Adds(g, f, D)
<1> USE DEF TakesPicked
<1> DEFINE wrong == {k \in Nat : \E s \in SUBSET D : Cardinality(s) = k
                                   /\ \E x \in s : g[s] # f[x] + g[s \ {x}]}
<1>1. \A s \in SUBSET D : Cardinality(s) \in Nat
  BY FS_Subset, FS_CardinalityType
<1>2. wrong = {}
  <2> SUFFICES ASSUME wrong # {} PROVE FALSE
    OBVIOUS
  <2>1. PICK k \in wrong : \A j \in wrong : k <= j
    <3> HIDE DEF wrong
    <3>1. wrong \in SUBSET Nat
      BY DEF wrong
    <3> QED
      BY <3>1, LeastIn
  <2>2. PICK s \in SUBSET D : Cardinality(s) = k /\ \E x \in s : g[s] # f[x] + g[s \ {x}]
    BY <2>1
  <2>3. PICK x \in s : g[s] # f[x] + g[s \ {x}]
    BY <2>2
  <2> DEFINE y == pick[s]
             t == s \ {x}
             u == s \ {y}
             w == (s \ {x}) \ {y}
  <2>4. y \in s /\ y # x /\ g[s] = f[y] + g[u]
    BY <2>3
  <2>5. \A z \in s : Cardinality(s \ {z}) = k - 1 /\ s \ {z} \in SUBSET D
    BY <2>2, FS_Subset, FS_RemoveElement
  <2>6. k \in Nat /\ k - 1 \notin wrong
    BY <2>1
  <2>7. k - 1 \in Nat
    <3>1. s \ {x} \in SUBSET D /\ Cardinality(s \ {x}) = k - 1
      BY <2>3, <2>5
    <3> QED
      BY <1>1, <3>1
  <2>8. \A z \in s : \A v \in s \ {z} : g[s \ {z}] = f[v] + g[(s \ {z}) \ {v}]
    BY <2>5, <2>6, <2>7
  <2>9. g[t] = f[y] + g[w]
    BY <2>3, <2>4, <2>8
  <2>10. g[u] = f[x] + g[w]
    <3>1. w = (s \ {y}) \ {x} /\ x \in s \ {y}
      BY <2>3, <2>4
    <3>2. g[s \ {y}] = f[x] + g[(s \ {y}) \ {x}]
      BY <2>4, <2>8, <3>1
    <3> QED
      BY <3>1, <3>2
  <2>11. f[x] \in Nat /\ f[y] \in Nat /\ g[w] \in Nat
    <3>1. x \in D /\ y \in D /\ w \in SUBSET D
      BY <2>4
    <3> QED
      BY <3>1
  <2> QED
    BY <2>3, <2>4, <2>9, <2>10, <2>11
<1> QED
  BY <1>1, <1>2 DEF Adds

\* One recursion has one solution.
LEMMA OneSolution ==
    ASSUME NEW D, IsFiniteSet(D), NEW f, NEW pick, NEW g, NEW h,
           TakesPicked(g, f, D, pick), TakesPicked(h, f, D, pick)
    PROVE  g[D] = h[D]
<1> DEFINE T == {s \in SUBSET D : g[s] = h[s]}
<1>1. {} \in T
  BY DEF TakesPicked
<1>2. ASSUME NEW s \in SUBSET D, s # {} PROVE \E x \in s : s \ {x} \in T => s \in T
  <2>1. pick[s] \in s /\ g[s] = f[pick[s]] + g[s \ {pick[s]}] /\ h[s] = f[pick[s]] + h[s \ {pick[s]}]
    BY <1>2 DEF TakesPicked
  <2> QED
    BY <2>1
<1> HIDE DEF T
<1>3. Inherited(T, D)
  BY <1>1, <1>2 DEF Inherited
<1>4. D \in T
  BY <1>3, PartsByInduction
<1> QED
  BY <1>4 DEF T

LEMMA SumAdds ==
    ASSUME NEW D, IsFiniteSet(D), NEW f \in [D -> Nat]
    PROVE  \E g : Adds(g, f, D) /\ SumFunction(f) = g[D]
<1> DEFINE Solves(g) == g = [s \in SUBSET D |-> IF s = {} THEN 0
                               ELSE f[CHOOSE x \in s : TRUE] + g[s \ {CHOOSE x \in s : TRUE}]]
           h == CHOOSE g : Solves(g)
           pick == [s \in SUBSET D |-> CHOOSE x \in s : TRUE]
           step == [p \in (D \X Nat) |-> f[p[1]] + p[2]]
<1>0. IsFiniteSet(D) /\ f \in [D -> Nat]
  OBVIOUS
<1>1. SumFunction(f) = h[D]
  <2>1. DOMAIN f = D
    OBVIOUS
  <2> QED
    BY <2>1 DEF SumFunction, SumFunctionOnSet, FoldFunctionOnSet, MapThenFoldSet
<1>2. \A s \in SUBSET D : s # {} => pick[s] \in s
  OBVIOUS
<1>3. step \in [D \X Nat -> Nat] /\ 0 \in Nat
  <2>1. \A p \in D \X Nat : f[p[1]] + p[2] \in Nat
    OBVIOUS
  <2> QED
    BY <2>1
<1>4. PICK g \in [SUBSET D -> Nat] : Unfolds(g, SUBSET D, 0, pick, step)
  BY <1>2, <1>3, FoldExists
<1>5. \A s \in SUBSET D : g[s] = IF s = {} THEN 0 ELSE f[CHOOSE x \in s : TRUE] + g[s \ {CHOOSE x \in s : TRUE}]
  <2>1. \A s \in SUBSET D : g[s] = IF s = {} THEN 0 ELSE step[<<pick[s], g[s \ {pick[s]}]>>]
    BY <1>4, Zenon DEF Unfolds
  <2>2. \A s \in SUBSET D : s # {} => step[<<pick[s], g[s \ {pick[s]}]>>] = f[pick[s]] + g[s \ {pick[s]}]
    <3> TAKE s \in SUBSET D
    <3> HAVE s # {}
    <3>1. pick[s] \in D /\ s \ {pick[s]} \in SUBSET D
      BY <1>2
    <3> QED
      BY <3>1
  <2> QED
    BY <2>1, <2>2
<1>6. Solves(g)
  <2>1. g = [s \in SUBSET D |-> g[s]]
    OBVIOUS
  <2> QED
    BY <1>5, <2>1, Zenon
<1>7. Solves(h)
  BY <1>6
<1> HIDE DEF h
<1>8. \A s \in SUBSET D : h[s] = IF s = {} THEN 0 ELSE f[CHOOSE x \in s : TRUE] + h[s \ {CHOOSE x \in s : TRUE}]
  BY <1>7, Zenon
<1>9. TakesPicked(g, f, D, pick) /\ TakesPicked(h, f, D, pick)
  BY <1>2, <1>5, <1>8 DEF TakesPicked
<1> HIDE DEF pick, step
<1>10. g[D] = h[D]
  BY <1>0, <1>9, OneSolution
<1>11. Adds(g, f, D)
  BY <1>0, <1>4, <1>9, AdditiveFromFirst
<1> QED
  BY <1>1, <1>10, <1>11

\* Functions that agree on a part have the same sum over it.
LEMMA SumsAgree ==
    ASSUME NEW D, NEW E, NEW f, NEW e, NEW g, NEW h, Adds(g, f, D), Adds(h, e, E),
           NEW P, IsFiniteSet(P), P \subseteq D, P \subseteq E, \A x \in P : f[x] = e[x]
    PROVE  g[P] = h[P]
<1> DEFINE T == {s \in SUBSET P : g[s] = h[s]}
<1>1. {} \in T
  BY DEF Adds
<1>2. ASSUME NEW s \in SUBSET P, s # {} PROVE \E x \in s : s \ {x} \in T => s \in T
  <2>1. PICK x \in s : TRUE
    BY <1>2
  <2>2. g[s] = f[x] + g[s \ {x}] /\ h[s] = e[x] + h[s \ {x}] /\ f[x] = e[x]
    BY DEF Adds
  <2> QED
    BY <2>1, <2>2
<1> HIDE DEF T
<1>3. Inherited(T, P)
  BY <1>1, <1>2 DEF Inherited
<1>4. P \in T
  BY <1>3, PartsByInduction
<1> QED
  BY <1>4 DEF T

LEMMA SumIsNat ==
    ASSUME NEW D, IsFiniteSet(D), NEW f \in [D -> Nat]
    PROVE  SumFunction(f) \in Nat
<1>1. PICK g : Adds(g, f, D) /\ SumFunction(f) = g[D]
  BY SumAdds
<1>2. g \in [SUBSET D -> Nat] /\ D \in SUBSET D
  BY <1>1 DEF Adds
<1> QED
  BY <1>1, <1>2

AgreeBut(e, f, D, x) == \A y \in D \ {x} : e[y] = f[y]

\* One element more or less, and one that changes.
LEMMA SumWithout ==
    ASSUME NEW D, IsFiniteSet(D), NEW f \in [D -> Nat], NEW x \in D,
           NEW e \in [D \ {x} -> Nat], AgreeBut(e, f, D, x)
    PROVE  SumFunction(f) = f[x] + SumFunction(e)
<1>1. IsFiniteSet(D \ {x})
  BY FS_RemoveElement
<1>2. PICK g : Adds(g, f, D) /\ SumFunction(f) = g[D]
  BY SumAdds
<1>3. PICK h : Adds(h, e, D \ {x}) /\ SumFunction(e) = h[D \ {x}]
  BY <1>1, SumAdds
<1>4. g[D] = f[x] + g[D \ {x}]
  BY <1>2 DEF Adds
<1>5. g[D \ {x}] = h[D \ {x}]
  <2>1. \A y \in D \ {x} : f[y] = e[y]
    BY DEF AgreeBut
  <2> QED
    BY <1>1, <1>2, <1>3, <2>1, SumsAgree
<1> QED
  BY <1>2, <1>3, <1>4, <1>5

LEMMA SumChanges ==
    ASSUME NEW D, IsFiniteSet(D), NEW f \in [D -> Nat], NEW x \in D,
           NEW e \in [D -> Nat], AgreeBut(e, f, D, x)
    PROVE  SumFunction(e) + f[x] = SumFunction(f) + e[x]
<1> DEFINE r == [y \in D \ {x} |-> f[y]]
<1>1. r \in [D \ {x} -> Nat] /\ AgreeBut(r, f, D, x) /\ AgreeBut(r, e, D, x)
  BY DEF AgreeBut
<1> HIDE DEF r
<1>2. SumFunction(f) = f[x] + SumFunction(r) /\ SumFunction(e) = e[x] + SumFunction(r)
  BY <1>1, SumWithout
<1>3. SumFunction(r) \in Nat
  BY <1>1, SumIsNat, FS_RemoveElement
<1> QED
  BY <1>2, <1>3

LEMMA SumOfNothing ==
    ASSUME NEW D, IsFiniteSet(D), NEW f \in [D -> Nat], \A x \in D : f[x] = 0
    PROVE  SumFunction(f) = 0
<1>1. PICK g : Adds(g, f, D) /\ SumFunction(f) = g[D]
  BY SumAdds
<1> DEFINE T == {s \in SUBSET D : g[s] = 0}
<1>2. {} \in T
  BY <1>1 DEF Adds
<1>3. ASSUME NEW s \in SUBSET D, s # {} PROVE \E x \in s : s \ {x} \in T => s \in T
  <2>1. PICK x \in s : TRUE
    BY <1>3
  <2>2. g[s] = f[x] + g[s \ {x}] /\ f[x] = 0
    BY <1>1 DEF Adds
  <2> QED
    BY <2>1, <2>2
<1> HIDE DEF T
<1>4. Inherited(T, D)
  BY <1>2, <1>3 DEF Inherited
<1>5. D \in T
  BY <1>4, PartsByInduction
<1> QED
  BY <1>1, <1>5 DEF T

AtMost(f, e, D) == \A x \in D : f[x] <= e[x]

\* A sum of parts none of which is larger is not larger.
LEMMA SumAtMost ==
    ASSUME NEW D, IsFiniteSet(D), NEW f \in [D -> Nat], NEW e \in [D -> Nat], AtMost(f, e, D)
    PROVE  SumFunction(f) <= SumFunction(e)
<1>1. PICK g : Adds(g, f, D) /\ SumFunction(f) = g[D]
  BY SumAdds
<1>2. PICK h : Adds(h, e, D) /\ SumFunction(e) = h[D]
  BY SumAdds
<1> DEFINE T == {s \in SUBSET D : g[s] <= h[s]}
<1>3. {} \in T
  BY <1>1, <1>2 DEF Adds
<1>4. ASSUME NEW s \in SUBSET D, s # {} PROVE \E x \in s : s \ {x} \in T => s \in T
  <2>1. PICK x \in s : TRUE
    BY <1>4
  <2>2. /\ g[s] = f[x] + g[s \ {x}] /\ h[s] = e[x] + h[s \ {x}]
        /\ g[s \ {x}] \in Nat /\ h[s \ {x}] \in Nat
    BY <1>1, <1>2 DEF Adds
  <2>3. x \in D /\ f[x] \in Nat /\ e[x] \in Nat
    BY <2>1
  <2>4. f[x] <= e[x]
    BY <2>3 DEF AtMost
  <2>5. \A a, b, c, d \in Nat : a <= b /\ c <= d => a + c <= b + d
    OBVIOUS
  <2>6. g[s \ {x}] <= h[s \ {x}] => g[s] <= h[s]
    BY <2>2, <2>3, <2>4, <2>5
  <2>7. s \ {x} \in SUBSET D
    OBVIOUS
  <2> QED
    BY <2>1, <2>6, <2>7
<1> HIDE DEF T
<1>5. Inherited(T, D)
  BY <1>3, <1>4 DEF Inherited
<1>6. D \in T
  BY <1>5, PartsByInduction
<1> QED
  BY <1>1, <1>2, <1>6 DEF T

\* One for one.
Matches(g, D, E) ==
    /\ g \in [D -> E]
    /\ \A x, y \in D : g[x] = g[y] => x = y
    /\ \A z \in E : \E x \in D : g[x] = z

Renames(f, e, m, D) == \A x \in D : f[x] = e[m[x]]

\* A sum is the same under other names.
LEMMA SumRenamed ==
    ASSUME NEW D, IsFiniteSet(D), NEW E, IsFiniteSet(E), NEW m, Matches(m, D, E),
           NEW f \in [D -> Nat], NEW e \in [E -> Nat], Renames(f, e, m, D)
    PROVE  SumFunction(f) = SumFunction(e)
<1>1. PICK g : Adds(g, f, D) /\ SumFunction(f) = g[D]
  BY SumAdds
<1>2. PICK h : Adds(h, e, E) /\ SumFunction(e) = h[E]
  BY SumAdds
<1> DEFINE Image(s) == {m[x] : x \in s}
           T == {s \in SUBSET D : g[s] = h[Image(s)]}
<1>3. {} \in T
  BY <1>1, <1>2 DEF Adds
<1>4. ASSUME NEW s \in SUBSET D, s # {} PROVE \E x \in s : s \ {x} \in T => s \in T
  <2>1. PICK x \in s : TRUE
    BY <1>4
  <2>2. Image(s \ {x}) = Image(s) \ {m[x]} /\ Image(s) \in SUBSET E /\ m[x] \in Image(s)
    BY DEF Matches
  <2>3. g[s] = f[x] + g[s \ {x}]
    BY <1>1 DEF Adds
  <2>4. h[Image(s)] = e[m[x]] + h[Image(s) \ {m[x]}]
    BY <1>2, <2>2 DEF Adds
  <2>5. f[x] = e[m[x]] /\ s \ {x} \in SUBSET D
    BY <2>1 DEF Renames
  <2> QED
    BY <2>1, <2>2, <2>3, <2>4, <2>5
<1>5. Image(D) = E
  BY DEF Matches
<1> HIDE DEF T
<1>6. Inherited(T, D)
  BY <1>3, <1>4 DEF Inherited
<1>7. D \in T
  BY <1>6, PartsByInduction
<1> QED
  BY <1>1, <1>2, <1>5, <1>7 DEF T

(***************************************************************************)
(* Folds over sequences: the last element is taken off first.              *)
(***************************************************************************)

LEMMA PartOfIndices ==
    ASSUME NEW n \in Nat, NEW s \in SUBSET (1..n)
    PROVE  /\ IsFiniteSet(s) /\ Cardinality(s) \in 0..n
           /\ s # {} => /\ Max(s) \in s /\ s \ {Max(s)} \in SUBSET (1..n)
                        /\ Cardinality(s \ {Max(s)}) = Cardinality(s) - 1
<1>1. IsFiniteSet(1..n) /\ Cardinality(1..n) = n
  <2>1. 1 \in Int /\ n \in Int
    OBVIOUS
  <2>2. Cardinality(1..n) = IF 1 > n THEN 0 ELSE n - 1 + 1
    BY <2>1, FS_Interval
  <2> QED
    BY <2>1, <2>2, FS_Interval
<1>2. IsFiniteSet(s) /\ Cardinality(s) \in Nat /\ Cardinality(s) <= n
  BY <1>1, FS_Subset, FS_CardinalityType
<1>3. s # {} => Max(s) \in s
  BY MaxIn
<1>4. s # {} => Cardinality(s \ {Max(s)}) = Cardinality(s) - 1
  BY <1>2, <1>3, FS_RemoveElement
<1>5. Cardinality(s) \in 0..n
  BY <1>2
<1> QED
  BY <1>2, <1>3, <1>4, <1>5

\* What the folds need: a solution for every step that stays within V.
FoldsOver(f, n, base, step) ==
    \A s \in SUBSET (1..n) : f[s] = IF s = {} THEN base ELSE step[<<Max(s), f[s \ {Max(s)}]>>]

LEMMA FoldOverIndices ==
    ASSUME NEW n \in Nat, NEW V, NEW base \in V, NEW step \in [(1..n) \X V -> V]
    PROVE  \E f \in [SUBSET (1..n) -> V] : FoldsOver(f, n, base, step)
<1> DEFINE pick == [s \in SUBSET (1..n) |-> Max(s)]
           S == 1..n
<1>1. \A s \in SUBSET S : s # {} => pick[s] \in s
  BY MaxIn
<1>2. IsFiniteSet(S)
  BY FS_Interval
<1>3. step \in [S \X V -> V]
  OBVIOUS
<1> HIDE DEF pick, S
<1>4. PICK f \in [SUBSET S -> V] : Unfolds(f, SUBSET S, base, pick, step)
  BY <1>1, <1>2, <1>3, FoldExists
<1>5. \A s \in SUBSET S : f[s] = IF s = {} THEN base ELSE step[<<pick[s], f[s \ {pick[s]}]>>]
  BY <1>4, Zenon DEF Unfolds
<1>6. \A s \in SUBSET S : f[s] = IF s = {} THEN base ELSE step[<<Max(s), f[s \ {Max(s)}]>>]
  BY <1>5 DEF pick, S
<1> QED
  BY <1>4, <1>6 DEF S, FoldsOver

-----------------------------------------------------------------------------
\* n elements of a sequence behind its first k.
LEMMA SliceOf ==
    ASSUME NEW S, NEW s \in Seq(S), NEW k \in Nat, NEW n \in Nat, k + n <= Len(s)
    PROVE  /\ SubSeq(s, k + 1, k + n) \in Seq(S) /\ Len(SubSeq(s, k + 1, k + n)) = n
           /\ \A j \in 1..n : SubSeq(s, k + 1, k + n)[j] = s[k + j]
OBVIOUS

=============================================================================
