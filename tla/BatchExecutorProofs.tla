------------------------ MODULE BatchExecutorProofs ------------------------
(***************************************************************************)
(* Theorems about the stage executor, for any number of workers and any    *)
(* number of stages, and about the graph of stages whose transitions are   *)
(* partitioned into its batches, for any graph, any stages and any pool.   *)
(***************************************************************************)
EXTENDS BatchExecutor, StageGraph, FiniteSetTheorems, SequenceTheorems, WellFoundedInduction, TLAPS

-----------------------------------------------------------------------------
(* Sums *)

\* The members of two sets without a common one.
LEMMA Disjoint ==
    ASSUME NEW S, IsFiniteSet(S), NEW a \in Nat, Cardinality(S) = a,
           NEW T, IsFiniteSet(T), NEW b \in Nat, Cardinality(T) = b, S \cap T = {}
    PROVE  Cardinality(S \cup T) = a + b
<1>1. Cardinality(S \cup T) = Cardinality(S) + Cardinality(T) - Cardinality(S \cap T)
  BY FS_Union, Zenon
<1>2. Cardinality(S \cap T) = 0
  BY FS_EmptySet, Zenon
<1>3. Cardinality(S \cup T) = a + b - 0
  BY <1>1, <1>2, Zenon
<1> QED
  BY <1>3

\* The slots of one more member are as many as its number.
LEMMA SlotsOfOne ==
    ASSUME NEW x, NEW n \in Nat
    PROVE  IsFiniteSet({x} \X (1..n)) /\ Cardinality({x} \X (1..n)) = n
<1> DEFINE S == {x}
           T == 1..n
<1>1. IsFiniteSet(S) /\ Cardinality(S) = 1
  BY FS_Singleton, Zenon
<1>2. IsFiniteSet(T) /\ Cardinality(T) = n
  BY FS_Interval
<1> HIDE DEF S, T
<1>3. IsFiniteSet(S \X T) /\ Cardinality(S \X T) = Cardinality(S) * Cardinality(T)
  BY <1>1, <1>2, FS_Product
<1>4. IsFiniteSet(S \X T) /\ Cardinality(S \X T) = n
  BY <1>1, <1>2, <1>3
<1> QED
  BY <1>4 DEF S, T

\* A sum over a finite set is a number.
LEMMA TotalType ==
    ASSUME NEW S, IsFiniteSet(S), NEW f, \A i \in S : f[i] \in Nat
    PROVE  IsFiniteSet(SlotsOf(f, S)) /\ Total(f, S) \in Nat
<1> DEFINE T == {{i} \X (1..f[i]) : i \in S}
           g == [i \in S |-> {i} \X (1..f[i])]
<1>1. g \in Surjection(S, T)
  BY DEF Surjection
<1>2. IsFiniteSet(T)
  BY <1>1, FS_Surjection
<1>3. ASSUME NEW X \in T PROVE IsFiniteSet(X)
  <2>1. PICK i \in S : X = {i} \X (1..f[i])
    OBVIOUS
  <2>2. f[i] \in Nat
    OBVIOUS
  <2>3. IsFiniteSet({i} \X (1..f[i]))
    BY <2>2, SlotsOfOne
  <2> QED
    BY <2>1, <2>3
<1>4. IsFiniteSet(UNION T)
  BY <1>2, <1>3, FS_UNION
<1> QED
  BY <1>4, FS_CardinalityType DEF SlotsOf, Total

\* It is zero over no members.
LEMMA TotalEmpty == ASSUME NEW f PROVE Total(f, {}) = 0
BY FS_EmptySet DEF Total, SlotsOf

\* One more member adds its number to the sum.
LEMMA TotalAdd ==
    ASSUME NEW S, IsFiniteSet(S), NEW x, x \notin S,
           NEW f, \A i \in S \cup {x} : f[i] \in Nat
    PROVE  Total(f, S \cup {x}) = Total(f, S) + f[x]
<1> DEFINE A == SlotsOf(f, S)
           B == {x} \X (1..f[x])
<1>1. SlotsOf(f, S \cup {x}) = A \cup B
  BY DEF SlotsOf
<1>2. A \cap B = {}
  BY DEF SlotsOf
<1>3. IsFiniteSet(A) /\ Cardinality(A) \in Nat
  BY TotalType DEF Total
<1>4. IsFiniteSet(B) /\ Cardinality(B) = f[x]
  BY SlotsOfOne
<1>5. f[x] \in Nat
  OBVIOUS
<1> HIDE DEF A, B
<1>6. Cardinality(A \cup B) = Cardinality(A) + f[x]
  BY <1>2, <1>3, <1>4, <1>5, Disjoint
<1> QED
  BY <1>1, <1>6 DEF Total, A

\* The sum over a part is not more than the sum over the whole.
LEMMA TotalMonotone ==
    ASSUME NEW T, IsFiniteSet(T), NEW S \in SUBSET T, NEW f, \A i \in T : f[i] \in Nat
    PROVE  Total(f, S) <= Total(f, T) /\ Total(f, S) \in Nat /\ Total(f, T) \in Nat
<1>1. IsFiniteSet(SlotsOf(f, T)) /\ Total(f, T) \in Nat
  BY TotalType
<1>2. SlotsOf(f, S) \subseteq SlotsOf(f, T)
  BY DEF SlotsOf
<1>3. Cardinality(SlotsOf(f, S)) <= Cardinality(SlotsOf(f, T))
  BY <1>1, <1>2, FS_Subset
<1>4. IsFiniteSet(S)
  BY FS_Subset
<1>5. Total(f, S) \in Nat
  BY <1>4, TotalType
<1> QED
  BY <1>1, <1>3, <1>5 DEF Total

-----------------------------------------------------------------------------
(* partion_stage_batches *)

\* k entries of w workers have k * w of them.
LEMMA UniformTotal ==
    ASSUME NEW k \in Nat, NEW w \in Nat
    PROVE  /\ Uniform(k, w) \in Seq(Nat) /\ Len(Uniform(k, w)) = k
           /\ DOMAIN Uniform(k, w) = 1..k
           /\ Total(Uniform(k, w), DOMAIN Uniform(k, w)) = k * w
<1>1. /\ Uniform(k, w) \in Seq(Nat) /\ Len(Uniform(k, w)) = k
      /\ DOMAIN Uniform(k, w) = 1..k /\ \A i \in 1..k : Uniform(k, w)[i] = w
  BY DEF Uniform
<1>2. SlotsOf(Uniform(k, w), 1..k) = (1..k) \X (1..w)
  BY <1>1 DEF SlotsOf
<1>3. IsFiniteSet(1..k) /\ Cardinality(1..k) = k /\ IsFiniteSet(1..w) /\ Cardinality(1..w) = w
  BY FS_Interval
<1>4. Cardinality((1..k) \X (1..w)) = Cardinality(1..k) * Cardinality(1..w)
  BY <1>3, FS_Product
<1> QED
  BY <1>1, <1>2, <1>3, <1>4 DEF Total

\* k entries that share m workers, the remainder included, have all of them.
LEMMA SpreadTotal ==
    ASSUME NEW k \in Nat \ {0}, NEW m \in Nat, NEW b, b = SpreadRemainder(Uniform(k, m \div k), m)
    PROVE  b \in Seq(Nat) /\ Total(b, DOMAIN b) = m
<1> DEFINE w == m \div k
           r == m % k
           A == (1..k) \X (1..w)
           B == (1..r) \X {w + 1}
<1>1. w \in Nat /\ r \in Nat /\ r < k /\ m = k * w + r
  OBVIOUS
<1> HIDE DEF w, r
<1>2. /\ k \in Nat /\ Len(Uniform(k, w)) = k /\ \A i \in 1..k : Uniform(k, w)[i] = w
  BY <1>1 DEF Uniform
<1>3. b = [i \in 1..k |-> w + (IF i <= r THEN 1 ELSE 0)]
  BY <1>2 DEF SpreadRemainder, w, r
<1>4. b \in Seq(Nat) /\ DOMAIN b = 1..k
  BY <1>1, <1>3
<1>5. SlotsOf(b, 1..k) = A \cup B
  <2>1. ASSUME NEW p, p \in SlotsOf(b, 1..k) PROVE p \in A \cup B
    <3>1. PICK i \in 1..k : p \in {i} \X (1..b[i])
      BY <2>1 DEF SlotsOf
    <3>2. b[i] = w + (IF i <= r THEN 1 ELSE 0)
      BY <1>3
    <3> QED
      BY <1>1, <3>1, <3>2
  <2>2. ASSUME NEW p \in A \cup B PROVE p \in SlotsOf(b, 1..k)
    <3>1. PICK i \in 1..k, j \in 1..(w + 1) : p = <<i, j>> /\ (j <= w \/ i <= r)
      BY <1>1
    <3>2. j \in 1..b[i]
      BY <1>1, <1>3, <3>1
    <3> QED
      BY <3>1, <3>2 DEF SlotsOf
  <2> QED
    BY <2>1, <2>2
<1>6. IsFiniteSet(A) /\ Cardinality(A) = k * w
  <2>1. IsFiniteSet(1..k) /\ Cardinality(1..k) = k /\ IsFiniteSet(1..w) /\ Cardinality(1..w) = w
    BY <1>1, FS_Interval
  <2>2. IsFiniteSet(A) /\ Cardinality(A) = Cardinality(1..k) * Cardinality(1..w)
    BY <2>1, FS_Product
  <2> QED
    BY <2>1, <2>2
<1>7. IsFiniteSet(B) /\ Cardinality(B) = r
  <2> DEFINE S == 1..r
             T == {w + 1}
  <2>1. IsFiniteSet(S) /\ Cardinality(S) = r
    BY <1>1, FS_Interval
  <2>2. IsFiniteSet(T) /\ Cardinality(T) = 1
    BY FS_Singleton, Zenon
  <2> HIDE DEF S, T
  <2>3. IsFiniteSet(S \X T) /\ Cardinality(S \X T) = Cardinality(S) * Cardinality(T)
    BY <2>1, <2>2, FS_Product
  <2>4. IsFiniteSet(S \X T) /\ Cardinality(S \X T) = r
    BY <1>1, <2>1, <2>2, <2>3
  <2> QED
    BY <2>4 DEF S, T
<1>8. A \cap B = {}
  BY <1>1
<1>9. k * w \in Nat
  BY <1>1
<1> HIDE DEF A, B
<1>10. Cardinality(A \cup B) = k * w + r
  BY <1>1, <1>6, <1>7, <1>8, <1>9, Disjoint
<1> QED
  BY <1>1, <1>4, <1>5, <1>10 DEF Total

\* x < y
Below == OpToRel(LAMBDA x, y : x < y, Nat)

\* The order of the numbers is well-founded.
LEMMA BelowWellFounded ==
    /\ IsWellFoundedOn(Below, Nat)
    /\ \A x, y \in Nat : <<x, y>> \in Below <=> x < y
BY NatLessThanWellFounded DEF Below, OpToRel

\* A set of numbers that is not empty has a least one.
LEMMA LeastNumber ==
    ASSUME NEW T \in SUBSET Nat, T # {}
    PROVE  \E x \in T : \A y \in T : x <= y
<1>1. IsWellFoundedOn(Below, Nat) /\ T \subseteq Nat
  BY BelowWellFounded
<1>2. PICK x \in T : \A y \in T : ~ (<<y, x>> \in Below)
  BY <1>1, WFMin, Zenon
<1>3. ASSUME NEW y \in T PROVE x <= y
  <2>1. x \in Nat /\ y \in Nat /\ ~ (y < x)
    BY <1>2, BelowWellFounded
  <2> QED
    BY <2>1
<1> QED
  BY <1>3

\* FlattenSeq puts sequences over a set together to one over the set.
LEMMA FlattenType ==
    ASSUME NEW A, NEW ss \in Seq(Seq(A))
    PROVE  FlattenSeq(ss) \in Seq(A)
<1> DEFINE n == Len(ss)
           Joined(f, i) == IF i = 1 THEN ss[i] ELSE f[i - 1] \o ss[i]
           Good(k) == \E f \in [1..k -> Seq(A)] : \A i \in 1..k : f[i] = Joined(f, i)
           Bad == {k \in 0..n : ~ Good(k)}
<1>1. n \in Nat /\ \A i \in 1..n : ss[i] \in Seq(A)
  OBVIOUS
<1>2. Good(0)
  <2> DEFINE f == [i \in 1..0 |-> ss]
  <2>1. f \in [1..0 -> Seq(A)] /\ \A i \in 1..0 : FALSE
    OBVIOUS
  <2> QED
    BY <2>1, Zenon
<1>3. ASSUME NEW k \in 1..n, Good(k - 1) PROVE Good(k)
  <2>1. PICK f \in [1..(k - 1) -> Seq(A)] : \A i \in 1..(k - 1) : f[i] = Joined(f, i)
    BY <1>3
  <2>2. Joined(f, k) \in Seq(A)
    <3>1. CASE k = 1
      BY <1>1, <3>1
    <3>2. CASE k # 1
      <4>1. f[k - 1] \in Seq(A) /\ ss[k] \in Seq(A)
        BY <1>1, <2>1, <3>2
      <4> QED
        BY <3>2, <4>1
    <3> QED
      BY <3>1, <3>2
  <2> DEFINE g == [i \in 1..k |-> IF i = k THEN Joined(f, k) ELSE f[i]]
  <2>3. g \in [1..k -> Seq(A)]
    BY <2>1, <2>2
  <2>4. ASSUME NEW i \in 1..k PROVE g[i] = Joined(g, i)
    <3>1. i # 1 => i - 1 \in 1..k /\ i - 1 # k
      OBVIOUS
    <3>2. i # 1 => g[i - 1] = f[i - 1]
      BY <3>1
    <3>3. Joined(g, i) = Joined(f, i)
      BY <3>2
    <3>4. g[i] = Joined(f, i)
      <4>1. CASE i = k
        BY <4>1
      <4>2. CASE i # k
        <5>1. i \in 1..(k - 1) /\ g[i] = f[i]
          BY <4>2
        <5> QED
          BY <2>1, <5>1, Zenon
      <4> QED
        BY <4>1, <4>2
    <3> QED
      BY <3>3, <3>4
  <2> QED
    BY <2>3, <2>4
<1>4. Bad = {}
  <2> SUFFICES ASSUME Bad # {} PROVE FALSE
    OBVIOUS
  <2>1. PICK k \in Bad : \A l \in Bad : k <= l
    <3>1. Bad \in SUBSET Nat
      BY <1>1
    <3> HIDE DEF Bad
    <3> QED
      BY <3>1, LeastNumber
  <2>2. k \in 0..n /\ ~ Good(k)
    OBVIOUS
  <2> HIDE DEF Good
  <2>3. k # 0
    BY <1>2, <2>2
  <2>4. k - 1 \in 0..n /\ k \in 1..n /\ k - 1 \notin Bad
    BY <1>1, <2>1, <2>2, <2>3
  <2> QED
    BY <1>3, <2>2, <2>4
<1>5. CASE n = 0
  BY <1>5 DEF FlattenSeq
<1>6. CASE n # 0
  <2> DEFINE flatten == CHOOSE f : f = [i \in 1..n |-> Joined(f, i)]
  <2>1. FlattenSeq(ss) = flatten[n]
    BY <1>6 DEF FlattenSeq
  <2>2. PICK f \in [1..n -> Seq(A)] : \A i \in 1..n : f[i] = Joined(f, i)
    <3>1. n \in 0..n
      BY <1>1
    <3>2. n \notin Bad
      BY <1>4, Zenon
    <3>3. Good(n)
      <4> HIDE DEF Good, n
      <4> QED
        BY <3>1, <3>2
    <3> QED
      BY <3>3, Zenon
  <2>3. f = [i \in 1..n |-> Joined(f, i)]
    BY <2>2
  <2>4. flatten = [i \in 1..n |-> Joined(flatten, i)]
    BY <2>3, Zenon
  <2> HIDE DEF flatten
  <2>5. \A i \in 1..n : flatten[i] = Joined(flatten, i)
    BY <2>4
  <2> DEFINE Wrong == {i \in 1..n : flatten[i] \notin Seq(A)}
  <2>6. Wrong = {}
    <3> SUFFICES ASSUME Wrong # {} PROVE FALSE
      OBVIOUS
    <3>1. PICK k \in Wrong : \A l \in Wrong : k <= l
      <4>1. Wrong \in SUBSET Nat
        BY <1>1
      <4> HIDE DEF Wrong
      <4> QED
        BY <4>1, LeastNumber
    <3>2. k \in 1..n /\ flatten[k] \notin Seq(A) /\ flatten[k] = Joined(flatten, k)
      BY <2>5
    <3>3. k # 1
      BY <1>1, <3>2
    <3>4. k - 1 \in 1..n /\ flatten[k - 1] \in Seq(A)
      BY <1>1, <3>1, <3>2, <3>3
    <3> QED
      BY <1>1, <3>2, <3>3, <3>4
  <2> QED
    BY <1>1, <1>6, <2>1, <2>6
<1> QED
  BY <1>5, <1>6

\* What divides the stages into batches.
LEMMA BatchArithmetic ==
    ASSUME NEW n \in Nat \ {0}, NEW m \in Nat \ {0},
           NEW sets, sets = (n + m - 1) \div m, NEW rest, rest = n % m
    PROVE  /\ sets \in Nat \ {0} /\ rest \in Nat
           /\ (rest > 0 /\ n > m) \/ n \div sets \in Nat \ {0}
           /\ (rest > 0 /\ n > m) \/ sets = 1 \/ n \div sets = m
<1> DEFINE q == n \div m
<1>1. q \in Nat /\ rest \in Nat /\ rest < m /\ n = m * q + rest
  OBVIOUS
<1>2. sets \in Nat /\ sets >= 1
  OBVIOUS
<1>3. CASE n <= m
  <2>1. sets = 1
    BY <1>3
  <2>2. n \div 1 = n
    OBVIOUS
  <2> QED
    BY <1>1, <1>2, <2>1, <2>2
<1>4. CASE n > m /\ rest = 0
  <2>1. n = m * q
    BY <1>1, <1>4
  <2> HIDE DEF q
  <2>2. q >= 1
    BY <1>1, <1>4, <2>1
  <2>3. sets = q
    <3>1. n + m - 1 = m * q + (m - 1) /\ m - 1 \in 0..(m - 1)
      BY <2>1
    <3> QED
      BY <1>1, <3>1
  <2>4. n \div q = m
    <3> DEFINE d == n \div q
               e == n % q
    <3>1. d \in Int /\ e \in Int /\ 0 <= e /\ e < q /\ n = q * d + e
      BY <1>1, <2>2
    <3> HIDE DEF d, e
    <3>2. q * (m - d) = e
      BY <1>1, <2>1, <3>1
    <3>3. m - d >= 1 => q * (m - d) >= q
      BY <1>1, <2>2, <3>1
    <3>4. m - d <= -1 => q * (m - d) <= - q
      BY <1>1, <2>2, <3>1
    <3>5. m - d \in Int
      BY <3>1
    <3>6. m = d
      BY <1>1, <2>2, <3>1, <3>2, <3>3, <3>4, <3>5
    <3> QED
      BY <3>6 DEF d
  <2> QED
    BY <1>1, <1>2, <2>3, <2>4
<1>5. CASE n > m /\ rest > 0
  BY <1>1, <1>2, <1>5
<1> QED
  BY <1>1, <1>3, <1>4, <1>5

\* The batches: single workers, or equal shares, and in the last one with the
\* remainder.
LEMMA BatchedFacts ==
    ASSUME NEW n \in Nat \ {0}, NEW m \in Nat \ {0}, NEW R, R = BatchedStages(n, m)
    PROVE  R \in Seq(Seq(Nat)) /\ \A b \in 1..Len(R) : Total(R[b], DOMAIN R[b]) = m
<1> DEFINE sets == (n + m - 1) \div m
           rest == n % m
           k == n \div sets
<1>1. /\ sets \in Nat \ {0} /\ rest \in Nat
      /\ (rest > 0 /\ n > m) \/ k \in Nat \ {0}
      /\ (rest > 0 /\ n > m) \/ sets = 1 \/ k = m
  BY BatchArithmetic
<1> HIDE DEF sets, rest, k
<1>2. Uniform(m, 1) \in Seq(Nat) /\ Total(Uniform(m, 1), DOMAIN Uniform(m, 1)) = m
  BY UniformTotal
<1>3. CASE rest > 0 /\ n > m
  <2> DEFINE last == Uniform(rest, m \div rest)
             full == Uniform(sets - 1, Uniform(m, 1))
             all == Append(full, last)
             share == SpreadRemainder(last, m)
  <2>1. share \in Seq(Nat) /\ Total(share, DOMAIN share) = m
    <3>1. rest \in Nat \ {0} /\ m \in Nat
      BY <1>1, <1>3
    <3> QED
      BY <3>1, SpreadTotal, Zenon
  <2>2. m \div rest \in Nat
    BY <1>1, <1>3
  <2>3. last \in Seq(Nat)
    BY <1>1, <2>2, UniformTotal
  <2> HIDE DEF last, share
  <2>4. full \in Seq(Seq(Nat)) /\ Len(full) = sets - 1 /\ \A i \in 1..(sets - 1) : full[i] = Uniform(m, 1)
    BY <1>1, <1>2 DEF Uniform
  <2> HIDE DEF full
  <2>5. /\ all \in Seq(Seq(Nat)) /\ Len(all) = sets /\ all[sets] = last
        /\ \A i \in 1..(sets - 1) : all[i] = Uniform(m, 1)
    BY <1>1, <2>3, <2>4
  <2>6. R = [all EXCEPT ![sets] = SpreadRemainder(all[sets], m)]
    BY <1>3 DEF BatchedStages, sets, rest, last, full
  <2> HIDE DEF all
  <2>7. R = [all EXCEPT ![sets] = share]
    BY <2>5, <2>6 DEF share
  <2>8. R \in Seq(Seq(Nat)) /\ Len(R) = sets /\ \A i \in 1..sets : R[i] = IF i = sets THEN share ELSE Uniform(m, 1)
    BY <1>1, <2>1, <2>5, <2>7
  <2> QED
    BY <1>1, <1>2, <2>1, <2>8
<1>4. CASE ~ (rest > 0 /\ n > m)
  <2> DEFINE each == Uniform(k, m \div k)
             all == Uniform(sets, each)
             share == SpreadRemainder(each, m)
  <2>1. share \in Seq(Nat) /\ Total(share, DOMAIN share) = m
    BY <1>1, <1>4, SpreadTotal
  <2>2. m \div k \in Nat
    BY <1>1, <1>4
  <2>3. each \in Seq(Nat) /\ (sets # 1 => each = Uniform(m, 1))
    <3>1. each \in Seq(Nat)
      BY <1>1, <1>4, <2>2, UniformTotal
    <3>2. m \div m = 1
      OBVIOUS
    <3> QED
      BY <1>1, <1>4, <3>1, <3>2
  <2> HIDE DEF each, share
  <2>4. all \in Seq(Seq(Nat)) /\ Len(all) = sets /\ \A i \in 1..sets : all[i] = each
    BY <1>1, <2>3 DEF Uniform
  <2>5. R = [all EXCEPT ![sets] = SpreadRemainder(all[sets], m)]
    BY <1>4 DEF BatchedStages, sets, rest, each, k
  <2> HIDE DEF all
  <2>6. R = [all EXCEPT ![sets] = share]
    <3>1. sets \in 1..sets
      BY <1>1
    <3>2. all[sets] = each
      BY <2>4, <3>1
    <3> QED
      BY <2>5, <3>2 DEF share
  <2>7. R \in Seq(Seq(Nat)) /\ Len(R) = sets /\ \A i \in 1..sets : R[i] = IF i = sets THEN share ELSE each
    BY <1>1, <2>1, <2>3, <2>4, <2>6
  <2> QED
    BY <1>1, <1>2, <2>1, <2>3, <2>7
<1> QED
  BY <1>3, <1>4

Entry == [stage : Nat, workers : Nat]

\* Naming the stages of a batch.
LEMMA NamedType == ASSUME NEW b \in Seq(Nat) PROVE Named(b) \in Seq(Entry)
BY DEF Named, Entry

\* The entries execute_batches is given.
LEMMA PartitionType ==
    ASSUME maxWorkers \in Nat \ {0}, stagesCount \in Nat \ {0}
    PROVE  PartitionedStages \in Seq(Entry)
<1> DEFINE R == BatchedStages(stagesCount, maxWorkers)
           ss == [b \in 1..Len(R) |-> Named(R[b])]
<1>1. R \in Seq(Seq(Nat))
  BY BatchedFacts
<1> HIDE DEF R
<1>2. \A b \in 1..Len(R) : Named(R[b]) \in Seq(Entry)
  BY <1>1, NamedType
<1>3. ss \in Seq(Seq(Entry))
  BY <1>1, <1>2
<1> HIDE DEF ss
<1>4. FlattenSeq(ss) \in Seq(Entry)
  BY <1>3, FlattenType
<1>5. Named(Uniform(stagesCount, 1)) \in Seq(Entry)
  BY UniformTotal, NamedType
<1> QED
  BY <1>4, <1>5 DEF PartitionedStages, ss, R

-----------------------------------------------------------------------------
(* The invariant *)

\* The call is being cancelled, or was.
Over == call \in {"cancelling", "cancelled"}

\* The tasks whose workers are taken from the counter.
Held == At({"executing", "cancelExecute", "failed"})

Types ==
    /\ maxWorkers \in Nat \ {0} /\ stagesCount \in Nat \ {0} /\ batchByStages \in BOOLEAN
    /\ batches \in Seq(Entry)
    /\ value \in Int
    /\ waiters \in Seq(Tasks)
    /\ wakeupScheduled \in BOOLEAN
    /\ pc \in [Tasks -> PCs]
    /\ broken \in BOOLEAN
    /\ call \in {"partition", "running", "returned", "raised", "cancelling", "cancelled"}
    /\ call = "partition" => batches = <<>>

\* The deque holds a task once; all that wait are in it, and none that could
\* be put there again.
QueueInv ==
    /\ IsInjective(waiters)
    /\ \A i \in 1..Len(waiters) : pc[waiters[i]] \in {"waiting", "cancelWait", "gone"}
    /\ \A t \in Tasks : pc[t] = "waiting" => \E i \in 1..Len(waiters) : waiters[i] = t

\* A call that is over has cancelled all its tasks, and no other call has.
CancelInv ==
    \A t \in Tasks :
        /\ Over => pc[t] \notin {"new", "waiting", "woken", "executing"}
        /\ ~Over => pc[t] \notin {"cancelWait", "cancelExecute", "gone"}

\* The flag is up only for a task that was woken and did not run yet.
FlagInv == wakeupScheduled => Over \/ \E t \in Tasks : pc[t] = "woken"

\* Somebody will wake the tasks that wait, or has kept its permits.
WakeInv ==
    (\E t \in Tasks : pc[t] = "waiting") => \E t \in Tasks : pc[t] \in {"woken", "executing", "failed"}

\* Of any stages that hold permits one was the last to take them, and found
\* the counter above zero: that the others hold less than all is inductive,
\* what OvercommitBounded says of those that execute now is not.
TakeInv ==
    \A S \in SUBSET Held : S # {} => \E t \in S : TotalWorkers(S \ {t}) < maxWorkers

BatchInv ==
    /\ Types
    /\ QueueInv
    /\ CancelInv
    /\ FlagInv
    /\ WakeInv
    /\ PermitsAccounted
    /\ TakeInv

\* The workers of tasks are numbers, and so are their sums.
LEMMA WorkersTotal ==
    ASSUME Types
    PROVE  /\ \A t \in Tasks : Workers(t) \in Nat
           /\ IsFiniteSet(Tasks)
           /\ \A S \in SUBSET Tasks : TotalWorkers(S) \in Nat
           /\ \A T \in SUBSET Tasks : \A S \in SUBSET T : TotalWorkers(S) <= TotalWorkers(T)
           /\ \A S \in SUBSET Tasks : \A t \in Tasks \ S : TotalWorkers(S \cup {t}) = TotalWorkers(S) + Workers(t)
           /\ TotalWorkers({}) = 0
<1> DEFINE f == [t \in Tasks |-> Workers(t)]
<1>1. \A t \in Tasks : f[t] = Workers(t) /\ Workers(t) \in Nat
  <2>1. \A t \in Tasks : batches[t] \in Entry
    BY DEF Types, Tasks
  <2>2. \A t \in Tasks : Workers(t) \in Nat
    BY <2>1 DEF Workers, Entry
  <2> QED
    BY <2>2
<1>2. IsFiniteSet(Tasks)
  <2>1. Len(batches) \in Nat
    BY DEF Types
  <2> QED
    BY <2>1, FS_Interval DEF Tasks
<1>3. \A S : TotalWorkers(S) = Total(f, S)
  BY DEF TotalWorkers
<1> HIDE DEF f
<1>4. ASSUME NEW T \in SUBSET Tasks, NEW S \in SUBSET T
      PROVE  Total(f, S) \in Nat /\ Total(f, S) <= Total(f, T)
  <2>1. IsFiniteSet(T) /\ \A i \in T : f[i] \in Nat
    BY <1>1, <1>2, FS_Subset
  <2> QED
    BY <2>1, TotalMonotone
<1>5. ASSUME NEW S \in SUBSET Tasks, NEW t \in Tasks \ S
      PROVE  Total(f, S \cup {t}) = Total(f, S) + Workers(t)
  <2>1. IsFiniteSet(S) /\ (\A i \in S \cup {t} : f[i] \in Nat) /\ t \notin S
    BY <1>1, <1>2, FS_Subset
  <2>2. Total(f, S \cup {t}) = Total(f, S) + f[t]
    BY <2>1, TotalAdd
  <2> QED
    BY <1>1, <2>2
<1>6. \A S \in SUBSET Tasks : Total(f, S) \in Nat
  BY <1>4
<1> QED
  BY <1>1, <1>2, <1>3, <1>4, <1>5, <1>6, TotalEmpty

\* Nothing of this changes while the entries stay the same.
LEMMA SameInput ==
    ASSUME UNCHANGED inputVars
    PROVE  /\ Tasks' = Tasks /\ maxWorkers' = maxWorkers
           /\ \A S : TotalWorkers(S)' = TotalWorkers(S)
           /\ \A t : Workers(t)' = Workers(t)
BY DEF inputVars, Tasks, TotalWorkers, Workers, Total, SlotsOf

-----------------------------------------------------------------------------
(* Initial states *)

\* The invariant holds when execute_batches is called.
LEMMA BatchInit == Init => BatchInv
<1> SUFFICES ASSUME Init PROVE BatchInv
  OBVIOUS
<1>1. Types
  <2>1. maxWorkers \in Nat \ {0} /\ stagesCount \in Nat \ {0}
    BY BatchAssumption DEF Init
  <2>2. batches = <<>> /\ waiters = <<>> /\ pc = <<>>
    BY DEF Init
  <2>3. Tasks = {}
    BY <2>2 DEF Tasks
  <2>4. batches \in Seq(Entry) /\ waiters \in Seq(Tasks) /\ pc \in [Tasks -> PCs]
    BY <2>2, <2>3
  <2>5. value \in Int
    BY <2>1 DEF Init
  <2> QED
    BY <2>1, <2>2, <2>4, <2>5 DEF Init, Types
<1>2. Tasks = {} /\ waiters = <<>> /\ wakeupScheduled = FALSE
  BY DEF Init, Tasks
<1>3. QueueInv /\ CancelInv /\ FlagInv /\ WakeInv
  BY <1>2 DEF QueueInv, CancelInv, FlagInv, WakeInv, IsInjective
<1>4. Held = {}
  BY <1>2 DEF Held, At
<1>5. PermitsAccounted
  <2>1. value = maxWorkers /\ maxWorkers \in Nat /\ TotalWorkers({}) = 0
    BY <1>1, WorkersTotal DEF Init, Types
  <2> QED
    BY <1>4, <2>1 DEF PermitsAccounted, Held
<1>6. TakeInv
  BY <1>4 DEF TakeInv
<1> QED
  BY <1>1, <1>3, <1>5, <1>6 DEF BatchInv

-----------------------------------------------------------------------------
(* Steps *)

\* What a step of a task does to the tasks: t goes to state x, and u, if
\* there is one, is woken.
Moves(t, x) == pc' = [pc EXCEPT ![t] = x] /\ UNCHANGED inputVars
Wakes(t, x, u) == pc' = [[pc EXCEPT ![t] = x] EXCEPT ![u] = "woken"] /\ UNCHANGED inputVars

\* A task takes its permits.
Takes(t) ==
    /\ pc[t] \in {"new", "woken"}
    /\ value > 0 /\ value' = value - Workers(t)
    /\ \E x \in {"executing", "failed"} : Moves(t, x)
    /\ wakeupScheduled' = FALSE /\ UNCHANGED <<waiters, call, broken>>

\* A task waits.
Waits(t) ==
    /\ pc[t] \in {"new", "woken"}
    /\ value <= 0 \/ (pc[t] = "new" /\ wakeupScheduled)
    /\ wakeupScheduled' \in BOOLEAN /\ (wakeupScheduled' => wakeupScheduled /\ pc[t] = "new")
    /\ Moves(t, "waiting")
    /\ waiters' = Append(waiters, t) /\ UNCHANGED <<value, call, broken>>

\* A task gives its permits back, or leaves acquire(), and calls _wake_up_next.
Frees(t, x) ==
    /\ \/ pc[t] = "executing" /\ x = "done" /\ value' = value + Workers(t)
       \/ pc[t] = "cancelWait" /\ x = "gone" /\ UNCHANGED value
    /\ WakeUpNext([pc EXCEPT ![t] = x]) /\ UNCHANGED <<inputVars, call, broken>>

\* A task leaves its execution without giving them back.
Keeps(t) ==
    /\ pc[t] \in {"executing", "cancelExecute"}
    /\ Moves(t, "failed") /\ UNCHANGED <<semVars, call, broken>>

\* Every step is one of these, or one of the call.
LEMMA StepCases ==
    ASSUME Types, Next
    PROVE  \/ ExecuteBatches \/ CancelCall
           \/ \E t \in Tasks : Takes(t) \/ Waits(t) \/ Keeps(t) \/ Frees(t, "done") \/ Frees(t, "gone")
           \/ /\ UNCHANGED <<inputVars, semVars, pc>>
              /\ broken' \in BOOLEAN
              /\ \/ call' = call
                 \/ call = "running" /\ call' \in {"raised", "returned"}
                 \/ call = "cancelling" /\ call' = "cancelled"
<1>1. ASSUME NEW t \in Tasks, Step(t)
      PROVE  Takes(t) \/ Waits(t) \/ Keeps(t) \/ Frees(t, "done") \/ Frees(t, "gone")
  <2>1. CASE AcquireNow(t)
    <3>1. wakeupScheduled \in BOOLEAN /\ ~wakeupScheduled /\ wakeupScheduled' = wakeupScheduled
      BY <2>1 DEF AcquireNow, MustWait, Types
    <3>2. wakeupScheduled' = FALSE
      BY <3>1
    <3>3. value > 0
      BY <2>1 DEF AcquireNow, MustWait, Types
    <3> QED
      BY <2>1, <3>2, <3>3 DEF AcquireNow, Starts, Take, Takes, Moves
  <2>2. CASE AcquireWait(t)
    BY <2>2 DEF AcquireWait, Starts, MustWait, Enqueue, Waits, Moves, Types
  <2>3. CASE ResumeTake(t)
    BY <2>3 DEF ResumeTake, Take, Takes, Moves
  <2>4. CASE ResumeWait(t)
    BY <2>4 DEF ResumeWait, Enqueue, Waits, Moves
  <2>5. CASE Finish(t)
    BY <2>5 DEF Finish, Frees
  <2>6. CASE Raises(t)
    BY <2>6 DEF Raises, Keeps, Moves
  <2>7. CASE LeaveAcquire(t)
    BY <2>7 DEF LeaveAcquire, Frees
  <2>8. CASE LeaveExecution(t)
    BY <2>8 DEF LeaveExecution, Keeps, Moves
  <2> QED
    BY <1>1, <2>1, <2>2, <2>3, <2>4, <2>5, <2>6, <2>7, <2>8 DEF Step
<1>2. CASE BreakPool
  BY <1>2 DEF BreakPool
<1>3. CASE Gather
  BY <1>3 DEF Gather, GatherRaises, GatherReturns, GatherCancelled, Types
<1> QED
  BY <1>1, <1>2, <1>3 DEF Next

\* _wake_up_next wakes a task that waits, if there is one.
LEMMA WakeFacts ==
    ASSUME Types, QueueInv, NEW t \in Tasks, NEW x \in {"done", "gone"}, Frees(t, x)
    PROVE  /\ QueueInv' /\ waiters' \in Seq(Tasks) /\ wakeupScheduled' \in BOOLEAN
           /\ \/ /\ \A u \in Tasks : pc[u] # "waiting"
                 /\ Moves(t, x) /\ wakeupScheduled' = wakeupScheduled
              \/ \E u \in Tasks : pc[u] = "waiting" /\ u # t /\ Wakes(t, x, u)
<1> DEFINE p == [pc EXCEPT ![t] = x]
<1>1. /\ waiters \in Seq(Tasks) /\ pc \in [Tasks -> PCs] /\ wakeupScheduled \in BOOLEAN
      /\ Len(waiters) \in Nat /\ \A i \in 1..Len(waiters) : waiters[i] \in Tasks
  BY DEF Types
<1>2. /\ \A i, j \in 1..Len(waiters) : waiters[i] = waiters[j] => i = j
      /\ \A i \in 1..Len(waiters) : pc[waiters[i]] \in {"waiting", "cancelWait", "gone"}
      /\ \A u \in Tasks : pc[u] = "waiting" => \E i \in 1..Len(waiters) : waiters[i] = u
  BY <1>1 DEF QueueInv, IsInjective
<1>3. Tasks' = Tasks /\ UNCHANGED inputVars
  BY SameInput DEF Frees
<1>4. /\ pc[t] # "waiting" /\ p \in [Tasks -> PCs] /\ p[t] = x
      /\ \A u \in Tasks : u # t => p[u] = pc[u]
      /\ x = "done" => pc[t] = "executing"
  BY <1>1 DEF Frees, PCs
<1>5. \A i \in 1..Len(waiters) : p[waiters[i]] \in {"waiting", "cancelWait", "gone"}
  BY <1>1, <1>2, <1>4
<1>6. WakeUpNext(p)
  BY DEF Frees
<1> HIDE DEF p
<1>7. CASE Pending(p) = {} /\ waiters' = <<>> /\ pc' = p /\ wakeupScheduled' = wakeupScheduled
  <2>1. \A u \in Tasks : p[u] # "waiting"
    <3> SUFFICES ASSUME NEW u \in Tasks, p[u] = "waiting" PROVE FALSE
      OBVIOUS
    <3>1. PICK i \in 1..Len(waiters) : waiters[i] = u
      BY <1>2, <1>4
    <3> QED
      BY <1>7, <3>1 DEF Pending
  <2>2. \A u \in Tasks : pc[u] # "waiting"
    BY <1>4, <2>1
  <2>3. waiters' \in Seq(Tasks) /\ Len(waiters') = 0 /\ DOMAIN waiters' = {}
    BY <1>7
  <2>4. QueueInv'
    BY <1>3, <1>7, <2>1, <2>3 DEF QueueInv, IsInjective
  <2>5. Moves(t, x)
    BY <1>3, <1>7 DEF Moves, p
  <2> QED
    BY <1>1, <1>7, <2>2, <2>3, <2>4, <2>5
<1>8. ASSUME NEW i \in Pending(p), \A j \in Pending(p) : i <= j,
             waiters' = SubSeq(waiters, i + 1, Len(waiters)),
             pc' = [p EXCEPT ![waiters[i]] = "woken"], wakeupScheduled' = TRUE
      PROVE  /\ QueueInv' /\ waiters' \in Seq(Tasks)
             /\ \E u \in Tasks : pc[u] = "waiting" /\ u # t /\ Wakes(t, x, u)
  <2> DEFINE u == waiters[i]
  <2>1. i \in 1..Len(waiters) /\ u \in Tasks /\ p[u] = "waiting"
    BY <1>1 DEF Pending
  <2>2. u # t /\ pc[u] = "waiting"
    BY <1>4, <2>1
  <2>3. Wakes(t, x, u)
    BY <1>3, <1>8 DEF Wakes, p
  <2>4. /\ waiters' \in Seq(Tasks) /\ Len(waiters') = Len(waiters) - i
        /\ \A j \in 1..(Len(waiters) - i) : waiters'[j] = waiters[i + j]
        /\ DOMAIN waiters' = 1..(Len(waiters) - i)
    BY <1>1, <1>8, <2>1
  <2>5. pc' \in [Tasks -> PCs] /\ pc'[u] = "woken" /\ \A v \in Tasks : v # u => pc'[v] = p[v]
    BY <1>4, <1>8, <2>1 DEF PCs
  <2>6. \A j, k \in 1..(Len(waiters) - i) : waiters'[j] = waiters'[k] => j = k
    BY <1>1, <1>2, <2>1, <2>4
  <2>7. ASSUME NEW j \in 1..(Len(waiters) - i)
        PROVE  pc'[waiters'[j]] \in {"waiting", "cancelWait", "gone"}
    <3>1. i + j \in 1..Len(waiters) /\ i + j # i /\ waiters'[j] = waiters[i + j]
      BY <1>1, <2>1, <2>4
    <3>2. waiters[i + j] # u /\ waiters[i + j] \in Tasks
      BY <1>1, <1>2, <2>1, <3>1
    <3> QED
      BY <1>5, <2>5, <3>1, <3>2
  <2>8. ASSUME NEW v \in Tasks, pc'[v] = "waiting"
        PROVE  \E j \in 1..(Len(waiters) - i) : waiters'[j] = v
    <3>1. v # u /\ p[v] = "waiting"
      BY <2>5, <2>8
    <3>2. pc[v] = "waiting"
      BY <1>4, <3>1
    <3>3. PICK k \in 1..Len(waiters) : waiters[k] = v
      BY <1>2, <3>2
    <3>4. k \in Pending(p)
      BY <3>1, <3>3 DEF Pending
    <3>5. k > i
      BY <1>1, <1>8, <2>1, <3>1, <3>3, <3>4
    <3>6. k - i \in 1..(Len(waiters) - i) /\ i + (k - i) = k
      BY <1>1, <2>1, <3>5
    <3> QED
      BY <2>4, <3>3, <3>6
  <2>9. QueueInv'
    BY <1>3, <2>4, <2>6, <2>7, <2>8 DEF QueueInv, IsInjective
  <2> QED
    BY <2>1, <2>2, <2>3, <2>4, <2>9
<1> QED
  BY <1>6, <1>7, <1>8 DEF WakeUpNext

\* The types are kept.
LEMMA TypesStep ==
    ASSUME Types, QueueInv, Next
    PROVE  Types'
<1> USE DEF PCs
<1>1. CASE ExecuteBatches
  <2>1. batches' \in Seq(Entry) /\ Len(batches') \in Nat
    BY <1>1, PartitionType DEF ExecuteBatches, Types
  <2>2. pc' \in [Tasks' -> PCs]
    BY <1>1 DEF ExecuteBatches, Tasks
  <2>3. waiters' = <<>>
    <3>1. Tasks = {} /\ waiters \in Seq(Tasks)
      BY <1>1 DEF ExecuteBatches, Types, Tasks
    <3>2. waiters = <<>>
      BY <3>1
    <3> QED
      BY <1>1, <3>2 DEF ExecuteBatches, semVars
  <2>4. waiters' \in Seq(Tasks')
    BY <2>3
  <2> QED
    BY <1>1, <2>1, <2>2, <2>4 DEF ExecuteBatches, Types, semVars
<1>2. CASE CancelCall
  <2>1. Tasks' = Tasks
    BY <1>2, SameInput DEF CancelCall
  <2>2. \A y \in PCs : Cancelled(y) \in PCs
    BY DEF Cancelled
  <2>3. pc' \in [Tasks -> PCs]
    BY <1>2, <2>2 DEF CancelCall, Types
  <2> QED
    BY <1>2, <2>1, <2>3 DEF CancelCall, Types, semVars, inputVars
<1>3. ASSUME NEW t \in Tasks, Takes(t) PROVE Types'
  <2>1. Tasks' = Tasks /\ Workers(t) \in Nat
    BY <1>3, SameInput, WorkersTotal DEF Takes, Moves
  <2>2. value' \in Int /\ pc' \in [Tasks -> PCs]
    BY <1>3, <2>1 DEF Takes, Moves, Types
  <2> QED
    BY <1>3, <2>1, <2>2 DEF Takes, Moves, Types, inputVars
<1>4. ASSUME NEW t \in Tasks, Waits(t) PROVE Types'
  <2>1. Tasks' = Tasks
    BY <1>4, SameInput DEF Waits, Moves
  <2>2. waiters' \in Seq(Tasks) /\ pc' \in [Tasks -> PCs]
    BY <1>4 DEF Waits, Moves, Types
  <2> QED
    BY <1>4, <2>1, <2>2 DEF Waits, Moves, Types, inputVars
<1>5. ASSUME NEW t \in Tasks, Keeps(t) PROVE Types'
  <2>1. Tasks' = Tasks
    BY <1>5, SameInput DEF Keeps, Moves
  <2>2. pc' \in [Tasks -> PCs]
    BY <1>5 DEF Keeps, Moves, Types
  <2> QED
    BY <1>5, <2>1, <2>2 DEF Keeps, Moves, Types, inputVars, semVars
<1>6. ASSUME NEW t \in Tasks, NEW x \in {"done", "gone"}, Frees(t, x) PROVE Types'
  <2>1. Tasks' = Tasks /\ Workers(t) \in Nat /\ waiters' \in Seq(Tasks) /\ wakeupScheduled' \in BOOLEAN
    BY <1>6, SameInput, WorkersTotal, WakeFacts DEF Frees
  <2>2. value' \in Int
    BY <1>6, <2>1 DEF Frees, Types
  <2>3. pc' \in [Tasks -> PCs]
    <3>1. Moves(t, x) \/ \E u \in Tasks : Wakes(t, x, u)
      BY <1>6, WakeFacts
    <3> QED
      BY <3>1 DEF Moves, Wakes, Types
  <2> QED
    BY <1>6, <2>1, <2>2, <2>3 DEF Frees, Types, inputVars
<1>7. CASE /\ UNCHANGED <<inputVars, semVars, pc>> /\ broken' \in BOOLEAN
           /\ \/ call' = call
              \/ call = "running" /\ call' \in {"raised", "returned"}
              \/ call = "cancelling" /\ call' = "cancelled"
  BY <1>7 DEF Types, inputVars, semVars, Tasks
<1> QED
  BY <1>1, <1>2, <1>3, <1>4, <1>5, <1>6, <1>7, StepCases

\* Whoever waits is in the deque.
LEMMA QueueStep ==
    ASSUME Types, QueueInv, Next
    PROVE  QueueInv'
<1>0. /\ waiters \in Seq(Tasks) /\ pc \in [Tasks -> PCs] /\ Len(waiters) \in Nat
      /\ DOMAIN waiters = 1..Len(waiters) /\ \A i \in 1..Len(waiters) : waiters[i] \in Tasks
  BY DEF Types
<1>1. CASE ExecuteBatches
  <2>1. waiters' = <<>>
    <3>1. Tasks = {}
      BY <1>1 DEF ExecuteBatches, Types, Tasks
    <3>2. waiters = <<>>
      BY <1>0, <3>1
    <3> QED
      BY <1>1, <3>2 DEF ExecuteBatches, semVars
  <2>2. \A t \in Tasks' : pc'[t] = "new"
    BY <1>1 DEF ExecuteBatches, Tasks
  <2> QED
    BY <2>1, <2>2 DEF QueueInv, IsInjective
<1>2. CASE CancelCall
  <2>1. Tasks' = Tasks /\ waiters' = waiters /\ \A t \in Tasks : pc'[t] = Cancelled(pc[t])
    BY <1>2, SameInput DEF CancelCall, semVars
  <2>2. \A t \in Tasks : pc'[t] # "waiting"
    BY <2>1 DEF Cancelled
  <2>3. \A i \in 1..Len(waiters) : pc'[waiters[i]] \in {"waiting", "cancelWait", "gone"}
    BY <1>0, <2>1 DEF QueueInv, Cancelled
  <2> QED
    BY <2>1, <2>2, <2>3 DEF QueueInv, IsInjective
<1>3. ASSUME NEW t \in Tasks, NEW x \in PCs \ {"waiting"}, pc[t] \notin {"waiting", "cancelWait", "gone"},
             Moves(t, x), waiters' = waiters
      PROVE  QueueInv'
  <2>1. Tasks' = Tasks /\ pc'[t] = x /\ \A u \in Tasks : u # t => pc'[u] = pc[u]
    BY <1>0, <1>3, SameInput DEF Moves
  <2>2. \A i \in 1..Len(waiters) : waiters[i] # t
    BY <1>0, <1>3 DEF QueueInv
  <2> QED
    BY <1>0, <1>3, <2>1, <2>2 DEF QueueInv, IsInjective
<1>4. ASSUME NEW t \in Tasks, Waits(t) PROVE QueueInv'
  <2>1. /\ Tasks' = Tasks /\ pc'[t] = "waiting" /\ \A u \in Tasks : u # t => pc'[u] = pc[u]
    BY <1>0, <1>4, SameInput DEF Waits, Moves
  <2>2. \A i \in 1..Len(waiters) : waiters[i] # t
    BY <1>0, <1>4 DEF QueueInv, Waits
  <2>3. /\ waiters' \in Seq(Tasks) /\ Len(waiters') = Len(waiters) + 1 /\ DOMAIN waiters' = 1..(Len(waiters) + 1)
        /\ waiters'[Len(waiters) + 1] = t /\ \A i \in 1..Len(waiters) : waiters'[i] = waiters[i]
    BY <1>0, <1>4 DEF Waits
  <2>4. \A i, j \in 1..(Len(waiters) + 1) : waiters'[i] = waiters'[j] => i = j
    BY <1>0, <2>2, <2>3 DEF QueueInv, IsInjective
  <2>5. \A i \in 1..(Len(waiters) + 1) : pc'[waiters'[i]] \in {"waiting", "cancelWait", "gone"}
    BY <1>0, <2>1, <2>2, <2>3 DEF QueueInv
  <2>6. ASSUME NEW u \in Tasks, pc'[u] = "waiting"
        PROVE  \E i \in 1..(Len(waiters) + 1) : waiters'[i] = u
    <3>1. CASE u = t
      <4>1. Len(waiters) + 1 \in 1..(Len(waiters) + 1)
        BY <1>0
      <4> QED
        BY <2>3, <3>1, <4>1
    <3>2. CASE u # t
      <4>1. PICK i \in 1..Len(waiters) : waiters[i] = u
        BY <2>1, <2>6, <3>2 DEF QueueInv
      <4>2. i \in 1..(Len(waiters) + 1)
        BY <1>0
      <4> QED
        BY <2>3, <4>1, <4>2
    <3> QED
      BY <3>1, <3>2
  <2> QED
    BY <2>1, <2>3, <2>4, <2>5, <2>6 DEF QueueInv, IsInjective
<1>5. ASSUME NEW t \in Tasks, Takes(t) PROVE QueueInv'
  BY <1>3, <1>5 DEF Takes, PCs
<1>6. ASSUME NEW t \in Tasks, Keeps(t) PROVE QueueInv'
  BY <1>3, <1>6 DEF Keeps, PCs, semVars
<1>7. CASE UNCHANGED <<inputVars, semVars, pc>>
  BY <1>7 DEF QueueInv, IsInjective, inputVars, semVars, Tasks
<1> QED
  BY <1>1, <1>2, <1>4, <1>5, <1>6, <1>7, StepCases, WakeFacts

\* The tasks of a call are cancelled together.
LEMMA CancelStep ==
    ASSUME Types, QueueInv, CancelInv, Next
    PROVE  CancelInv'
<1>0. pc \in [Tasks -> PCs]
  BY DEF Types
<1>1. CASE ExecuteBatches
  <2>1. \A t \in Tasks' : pc'[t] = "new"
    BY <1>1 DEF ExecuteBatches, Tasks
  <2>2. call' = "running"
    BY <1>1 DEF ExecuteBatches
  <2> QED
    BY <2>1, <2>2 DEF CancelInv, Over
<1>2. CASE CancelCall
  <2>1. Tasks' = Tasks /\ call' = "cancelling" /\ \A t \in Tasks : pc'[t] = Cancelled(pc[t])
    BY <1>2, SameInput DEF CancelCall
  <2>2. \A t \in Tasks : pc'[t] \notin {"new", "waiting", "woken", "executing"}
    BY <1>0, <2>1 DEF Cancelled, PCs
  <2> QED
    BY <2>1, <2>2 DEF CancelInv, Over
<1>3. ASSUME NEW t \in Tasks, Takes(t) \/ Waits(t) \/ Keeps(t) PROVE CancelInv'
  <2>1. PICK x \in {"executing", "failed", "waiting"} : Moves(t, x)
    BY <1>3 DEF Takes, Waits, Keeps
  <2>2. Tasks' = Tasks /\ pc'[t] = x /\ \A u \in Tasks : u # t => pc'[u] = pc[u]
    BY <1>0, <2>1, SameInput DEF Moves
  <2>3. call' = call
    BY <1>3 DEF Takes, Waits, Keeps
  <2>4. x # "failed" => pc[t] \in {"new", "woken"}
    BY <1>0, <1>3, <2>1 DEF Takes, Waits, Keeps, Moves
  <2> QED
    BY <2>2, <2>3, <2>4 DEF CancelInv, Over
<1>4. ASSUME NEW t \in Tasks, NEW x \in {"done", "gone"}, Frees(t, x) PROVE CancelInv'
  <2>1. x = "gone" => pc[t] = "cancelWait"
    BY <1>4 DEF Frees
  <2>2. Tasks' = Tasks /\ call' = call
    BY <1>4, SameInput DEF Frees
  <2>3. CASE Moves(t, x)
    <3>1. pc'[t] = x /\ \A u \in Tasks : u # t => pc'[u] = pc[u]
      BY <1>0, <2>3 DEF Moves
    <3> QED
      BY <2>1, <2>2, <3>1 DEF CancelInv, Over
  <2>4. ASSUME NEW u \in Tasks, pc[u] = "waiting", u # t, Wakes(t, x, u) PROVE CancelInv'
    <3>1. pc'[t] = x /\ pc'[u] = "woken" /\ \A v \in Tasks : v # t /\ v # u => pc'[v] = pc[v]
      BY <1>0, <2>4 DEF Wakes
    <3> QED
      BY <2>1, <2>2, <2>4, <3>1 DEF CancelInv, Over
  <2> QED
    BY <1>4, <2>3, <2>4, WakeFacts
<1>5. CASE /\ UNCHANGED <<inputVars, semVars, pc>>
           /\ \/ call' = call
              \/ call = "running" /\ call' \in {"raised", "returned"}
              \/ call = "cancelling" /\ call' = "cancelled"
  BY <1>5 DEF CancelInv, Over, inputVars, Tasks
<1> QED
  BY <1>1, <1>2, <1>3, <1>4, <1>5, StepCases

\* Held permits are taken from the counter.
LEMMA HeldWhenEmpty ==
    ASSUME Types, PermitsAccounted, value <= 0
    PROVE  \E t \in Tasks : pc[t] \in {"executing", "cancelExecute", "failed"}
<1> SUFFICES ASSUME Held = {} PROVE FALSE
  BY DEF Held, At
<1>1. TotalWorkers(Held) = 0 /\ maxWorkers \in Nat /\ maxWorkers > 0
  BY WorkersTotal DEF Types
<1> QED
  BY <1>1 DEF PermitsAccounted, Held

\* Whoever waits will be woken.
LEMMA WakeStep ==
    ASSUME Types, QueueInv, CancelInv, FlagInv, WakeInv, PermitsAccounted, Next
    PROVE  FlagInv' /\ WakeInv'
<1>0. pc \in [Tasks -> PCs]
  BY DEF Types
<1>1. CASE ExecuteBatches
  <2>1. \A t \in Tasks' : pc'[t] = "new"
    BY <1>1 DEF ExecuteBatches, Tasks
  <2>2. wakeupScheduled' = wakeupScheduled /\ Tasks = {} /\ ~Over
    BY <1>1 DEF ExecuteBatches, Types, semVars, Tasks, Over
  <2> QED
    BY <2>1, <2>2 DEF FlagInv, WakeInv
<1>2. CASE CancelCall
  <2>1. Tasks' = Tasks /\ call' = "cancelling" /\ \A t \in Tasks : pc'[t] = Cancelled(pc[t])
    BY <1>2, SameInput DEF CancelCall
  <2>2. \A t \in Tasks : pc'[t] # "waiting"
    BY <2>1 DEF Cancelled
  <2> QED
    BY <2>1, <2>2 DEF FlagInv, WakeInv, Over
<1>3. ASSUME NEW t \in Tasks, Takes(t) PROVE FlagInv' /\ WakeInv'
  <2>1. PICK x \in {"executing", "failed"} : Moves(t, x)
    BY <1>3 DEF Takes
  <2>2. Tasks' = Tasks /\ pc'[t] = x
    BY <1>0, <2>1, SameInput DEF Moves
  <2>3. wakeupScheduled' = FALSE
    BY <1>3 DEF Takes
  <2> QED
    BY <2>2, <2>3 DEF FlagInv, WakeInv
<1>4. ASSUME NEW t \in Tasks, Waits(t) PROVE FlagInv' /\ WakeInv'
  <2>1. Tasks' = Tasks /\ call' = call /\ pc'[t] = "waiting" /\ \A u \in Tasks : u # t => pc'[u] = pc[u]
    BY <1>0, <1>4, SameInput DEF Waits, Moves
  <2>2. pc[t] \in {"new", "woken"} /\ (wakeupScheduled' => wakeupScheduled /\ pc[t] = "new")
    BY <1>4 DEF Waits
  <2>3. ~Over
    BY <2>2 DEF CancelInv
  <2>4. FlagInv'
    <3> SUFFICES ASSUME wakeupScheduled' PROVE \E u \in Tasks : pc'[u] = "woken"
      BY <2>1 DEF FlagInv
    <3>1. wakeupScheduled /\ pc[t] = "new"
      BY <2>2
    <3>2. PICK u \in Tasks : pc[u] = "woken"
      BY <2>3, <3>1 DEF FlagInv
    <3> QED
      BY <2>1, <3>1, <3>2
  <2>5. \E u \in Tasks : u # t /\ pc[u] \in {"woken", "executing", "failed"}
    <3>1. CASE value <= 0
      <4>1. PICK u \in Tasks : pc[u] \in {"executing", "cancelExecute", "failed"}
        BY <3>1, HeldWhenEmpty
      <4> QED
        BY <2>2, <2>3, <4>1 DEF CancelInv
    <3>2. CASE pc[t] = "new" /\ wakeupScheduled
      BY <2>3, <3>2 DEF FlagInv
    <3> QED
      BY <1>4, <3>1, <3>2 DEF Waits
  <2>6. \E u \in Tasks : pc'[u] \in {"woken", "executing", "failed"}
    BY <2>1, <2>5
  <2> QED
    BY <2>1, <2>4, <2>6 DEF WakeInv
<1>5. ASSUME NEW t \in Tasks, Keeps(t) PROVE FlagInv' /\ WakeInv'
  <2>1. Tasks' = Tasks /\ pc'[t] = "failed" /\ \A u \in Tasks : u # t => pc'[u] = pc[u]
    BY <1>0, <1>5, SameInput DEF Keeps, Moves
  <2>2. wakeupScheduled' = wakeupScheduled /\ call' = call /\ pc[t] # "woken"
    BY <1>5 DEF Keeps, semVars
  <2> QED
    BY <2>1, <2>2 DEF FlagInv, WakeInv, Over
<1>6. ASSUME NEW t \in Tasks, NEW x \in {"done", "gone"}, Frees(t, x) PROVE FlagInv' /\ WakeInv'
  <2>1. Tasks' = Tasks /\ call' = call /\ pc[t] \notin {"woken", "waiting"}
    BY <1>6, SameInput DEF Frees
  <2>2. CASE (\A u \in Tasks : pc[u] # "waiting") /\ Moves(t, x) /\ wakeupScheduled' = wakeupScheduled
    <3>1. pc'[t] = x /\ \A u \in Tasks : u # t => pc'[u] = pc[u]
      BY <1>0, <2>2 DEF Moves
    <3> QED
      BY <2>1, <2>2, <3>1 DEF FlagInv, WakeInv, Over
  <2>3. ASSUME NEW u \in Tasks, pc[u] = "waiting", u # t, Wakes(t, x, u) PROVE FlagInv' /\ WakeInv'
    <3>1. pc'[u] = "woken"
      BY <1>0, <2>3 DEF Wakes
    <3> QED
      BY <2>1, <3>1 DEF FlagInv, WakeInv
  <2> QED
    BY <1>6, <2>2, <2>3, WakeFacts
<1>7. CASE /\ UNCHANGED <<inputVars, semVars, pc>>
           /\ \/ call' = call
              \/ call = "running" /\ call' \in {"raised", "returned"}
              \/ call = "cancelling" /\ call' = "cancelled"
  BY <1>7 DEF FlagInv, WakeInv, Over, inputVars, semVars, Tasks
<1> QED
  BY <1>1, <1>2, <1>3, <1>4, <1>5, <1>6, <1>7, StepCases

\* The counter follows the tasks that hold permits, and the last of any of
\* them found it above zero.
LEMMA PermitStep ==
    ASSUME Types, QueueInv, PermitsAccounted, TakeInv, Next
    PROVE  PermitsAccounted' /\ TakeInv'
<1>0. pc \in [Tasks -> PCs] /\ value \in Int /\ maxWorkers \in Nat /\ Held \subseteq Tasks
  BY DEF Types, Held, At
<1> DEFINE Holding == {"executing", "cancelExecute", "failed"}
<1>1. ASSUME UNCHANGED inputVars, value' = value, Held' = Held
      PROVE  PermitsAccounted' /\ TakeInv'
  BY <1>1, SameInput DEF PermitsAccounted, TakeInv, Held
<1>2. CASE ExecuteBatches
  <2>1. Tasks = {} /\ Held = {} /\ Held' = {}
    BY <1>2 DEF ExecuteBatches, Types, Tasks, Held, At
  <2>2. TotalWorkers({}) = 0 /\ TotalWorkers({})' = 0
    BY TotalEmpty DEF TotalWorkers
  <2>3. value' = value /\ maxWorkers' = maxWorkers
    BY <1>2 DEF ExecuteBatches, semVars
  <2> QED
    BY <2>1, <2>2, <2>3 DEF PermitsAccounted, TakeInv, Held
<1>3. CASE CancelCall
  <2>1. Tasks' = Tasks /\ \A t \in Tasks : pc'[t] = Cancelled(pc[t])
    BY <1>3, SameInput DEF CancelCall
  <2>2. \A t \in Tasks : pc'[t] \in Holding <=> pc[t] \in Holding
    BY <1>0, <2>1 DEF Cancelled, PCs
  <2>3. Held' = Held
    BY <2>1, <2>2 DEF Held, At
  <2> QED
    BY <1>1, <1>3, <2>3 DEF CancelCall, semVars
<1>4. ASSUME NEW t \in Tasks, Takes(t) PROVE PermitsAccounted' /\ TakeInv'
  <2>1. PICK x \in {"executing", "failed"} : Moves(t, x)
    BY <1>4 DEF Takes
  <2>2. /\ Tasks' = Tasks /\ maxWorkers' = maxWorkers /\ \A S : TotalWorkers(S)' = TotalWorkers(S)
    BY <2>1, SameInput DEF Moves
  <2>3. pc'[t] = x /\ (\A u \in Tasks : u # t => pc'[u] = pc[u]) /\ pc[t] \notin Holding
    BY <1>0, <1>4, <2>1 DEF Moves, Takes
  <2>4. t \notin Held /\ Held' = Held \cup {t}
    BY <2>2, <2>3 DEF Held, At
  <2>5. TotalWorkers(Held \cup {t}) = TotalWorkers(Held) + Workers(t) /\ Workers(t) \in Nat /\ TotalWorkers(Held) \in Nat
    BY <1>0, <2>4, WorkersTotal
  <2>6. value = maxWorkers - TotalWorkers(Held) /\ value > 0 /\ value' = value - Workers(t)
    BY <1>4 DEF PermitsAccounted, Held, Takes
  <2>7. value' = maxWorkers - TotalWorkers(Held \cup {t})
    BY <1>0, <2>5, <2>6
  <2>8. PermitsAccounted'
    BY <2>2, <2>4, <2>7 DEF PermitsAccounted, Held
  <2>9. ASSUME NEW S \in SUBSET (Held \cup {t}), S # {}
        PROVE  \E u \in S : TotalWorkers(S \ {u}) < maxWorkers
    <3>1. CASE t \in S
      <4>1. S \ {t} \in SUBSET Held
        OBVIOUS
      <4>2. TotalWorkers(S \ {t}) <= TotalWorkers(Held) /\ TotalWorkers(S \ {t}) \in Nat
        BY <1>0, <4>1, WorkersTotal
      <4>3. TotalWorkers(S \ {t}) < maxWorkers
        BY <1>0, <2>5, <2>6, <4>2
      <4> QED
        BY <3>1, <4>3
    <3>2. CASE t \notin S
      BY <2>9, <3>2 DEF TakeInv
    <3> QED
      BY <3>1, <3>2
  <2>10. TakeInv'
    BY <2>2, <2>4, <2>9 DEF TakeInv
  <2> QED
    BY <2>8, <2>10
<1>5. ASSUME NEW t \in Tasks, Waits(t) PROVE PermitsAccounted' /\ TakeInv'
  <2>1. Tasks' = Tasks /\ pc'[t] = "waiting" /\ \A u \in Tasks : u # t => pc'[u] = pc[u]
    BY <1>0, <1>5, SameInput DEF Waits, Moves
  <2>2. pc[t] \notin Holding /\ value' = value /\ UNCHANGED inputVars
    BY <1>5 DEF Waits, Moves
  <2>3. Held' = Held
    BY <2>1, <2>2 DEF Held, At
  <2> QED
    BY <1>1, <2>2, <2>3
<1>6. ASSUME NEW t \in Tasks, Keeps(t) PROVE PermitsAccounted' /\ TakeInv'
  <2>1. Tasks' = Tasks /\ pc'[t] = "failed" /\ \A u \in Tasks : u # t => pc'[u] = pc[u]
    BY <1>0, <1>6, SameInput DEF Keeps, Moves
  <2>2. pc[t] \in Holding /\ value' = value /\ UNCHANGED inputVars
    BY <1>6 DEF Keeps, Moves, semVars
  <2>3. Held' = Held
    BY <2>1, <2>2 DEF Held, At
  <2> QED
    BY <1>1, <2>2, <2>3
<1>7. ASSUME NEW t \in Tasks, NEW x \in {"done", "gone"}, Frees(t, x) PROVE PermitsAccounted' /\ TakeInv'
  <2>1. /\ Tasks' = Tasks /\ maxWorkers' = maxWorkers /\ (\A S : TotalWorkers(S)' = TotalWorkers(S))
        /\ UNCHANGED inputVars
    BY <1>7, SameInput DEF Frees
  <2>2. pc'[t] = x /\ \A u \in Tasks : u # t => pc'[u] = pc[u] \/ (pc[u] = "waiting" /\ pc'[u] = "woken")
    <3>1. Moves(t, x) \/ \E u \in Tasks : pc[u] = "waiting" /\ u # t /\ Wakes(t, x, u)
      BY <1>7, WakeFacts
    <3> QED
      BY <1>0, <3>1 DEF Moves, Wakes
  <2>3. Held' = Held \ {t}
    BY <2>1, <2>2 DEF Held, At
  <2>4. CASE pc[t] = "cancelWait"
    <3>1. Held' = Held
      BY <2>3, <2>4 DEF Held, At
    <3> QED
      BY <1>1, <1>7, <2>1, <2>4, <3>1 DEF Frees
  <2>5. CASE pc[t] = "executing"
    <3>1. t \in Held /\ value' = value + Workers(t)
      BY <1>7, <2>5 DEF Held, At, Frees
    <3>2. (Held \ {t}) \cup {t} = Held /\ t \notin Held \ {t} /\ Held \ {t} \in SUBSET Tasks
      BY <1>0, <3>1
    <3>3. TotalWorkers(Held) = TotalWorkers(Held \ {t}) + Workers(t) /\ Workers(t) \in Nat /\ TotalWorkers(Held \ {t}) \in Nat
      <4>1. TotalWorkers((Held \ {t}) \cup {t}) = TotalWorkers(Held \ {t}) + Workers(t)
        BY <3>2, WorkersTotal
      <4> QED
        BY <3>2, <4>1, WorkersTotal
    <3>4. value = maxWorkers - TotalWorkers(Held)
      BY DEF PermitsAccounted, Held
    <3>5. value' = maxWorkers - TotalWorkers(Held \ {t})
      BY <1>0, <3>1, <3>3, <3>4
    <3>6. PermitsAccounted'
      BY <2>1, <2>3, <3>5 DEF PermitsAccounted, Held
    <3>7. TakeInv'
      BY <2>1, <2>3 DEF TakeInv
    <3> QED
      BY <3>6, <3>7
  <2> QED
    BY <1>7, <2>4, <2>5 DEF Frees
<1>8. CASE UNCHANGED <<inputVars, semVars, pc>>
  <2>1. Held' = Held
    BY <1>8 DEF Held, At, inputVars, Tasks
  <2> QED
    BY <1>1, <1>8, <2>1 DEF semVars
<1> QED
  BY <1>2, <1>3, <1>4, <1>5, <1>6, <1>7, <1>8, StepCases

\* Every step keeps the invariant.
LEMMA BatchStep == BatchInv /\ [Next]_vars => BatchInv'
<1> SUFFICES ASSUME BatchInv, [Next]_vars PROVE BatchInv'
  OBVIOUS
<1>1. CASE Next
  BY <1>1, TypesStep, QueueStep, CancelStep, WakeStep, PermitStep DEF BatchInv
<1>2. CASE UNCHANGED vars
  <2>1. UNCHANGED inputVars /\ UNCHANGED <<value, waiters, wakeupScheduled, pc, broken, call, batches, maxWorkers>>
        /\ UNCHANGED <<stagesCount, batchByStages>>
    BY <1>2 DEF vars, inputVars, semVars
  <2>2. Tasks' = Tasks /\ Over' = Over /\ Held' = Held
    BY <2>1 DEF Tasks, Over, Held, At
  <2>3. Types'
    BY <2>1, <2>2 DEF BatchInv, Types
  <2>4. QueueInv' /\ CancelInv' /\ FlagInv' /\ WakeInv'
    BY <2>1, <2>2 DEF BatchInv, QueueInv, CancelInv, FlagInv, WakeInv, IsInjective
  <2>5. PermitsAccounted' /\ TakeInv'
    BY <2>1, <2>2, SameInput DEF BatchInv, PermitsAccounted, TakeInv, Held
  <2> QED
    BY <2>3, <2>4, <2>5 DEF BatchInv
<1> QED
  BY <1>1, <1>2

\* The invariant holds in every reachable state.
LEMMA BatchInvHolds == Spec => []BatchInv
BY BatchInit, BatchStep, PTL DEF Spec

-----------------------------------------------------------------------------
(* Theorems *)

\* The variables of the executor keep their types, and its deque holds each
\* task once at most.
THEOREM BatchTypeCorrect == Spec => []TypeOK
<1>1. BatchInv => TypeOK
  BY DEF BatchInv, Types, QueueInv, TypeOK
<1> QED
  BY <1>1, BatchInvHolds, PTL

\* The counter of the batched semaphore accounts for the stages that execute
\* and for those that raised or were cancelled.
THEOREM PermitsFollowStages == Spec => []PermitsAccounted
<1>1. BatchInv => PermitsAccounted
  BY DEF BatchInv
<1> QED
  BY <1>1, BatchInvHolds, PTL

\* partion_stage_batches gives every batch exactly the workers of the pool,
\* for every number of stages and every number of workers.
THEOREM EveryBatchFills == Spec => []BatchesFillPool
<1>1. BatchInv => BatchesFillPool
  <2> SUFFICES ASSUME BatchInv PROVE BatchesFillPool
    OBVIOUS
  <2> DEFINE R == BatchedStages(stagesCount, maxWorkers)
  <2>1. \A b \in 1..Len(R) : Total(R[b], DOMAIN R[b]) = maxWorkers
    BY BatchedFacts DEF BatchInv, Types
  <2> QED
    BY <2>1 DEF BatchesFillPool
<1> QED
  BY <1>1, BatchInvHolds, PTL

\* Stages overcommit the pool by less than the workers of one of them, in
\* whatever order they take and give back their permits.
THEOREM OvercommitByLessThanOne == Spec => []OvercommitBounded
<1>1. BatchInv => OvercommitBounded
  <2> SUFFICES ASSUME BatchInv, At({"executing"}) # {}
               PROVE  \E t \in At({"executing"}) : TotalWorkers(At({"executing"}) \ {t}) < maxWorkers
    BY DEF OvercommitBounded
  <2>1. At({"executing"}) \in SUBSET Held
    BY DEF At, Held
  <2> QED
    BY <2>1 DEF BatchInv, TakeInv
<1> QED
  BY <1>1, BatchInvHolds, PTL

\* No task of the executor waits with nobody to wake it, unless a stage
\* failed and kept its permits.
THEOREM NoTaskStranded == Spec => []StrandedOnlyByFailure
<1>1. BatchInv => StrandedOnlyByFailure
  BY DEF BatchInv, WakeInv, StrandedOnlyByFailure, At, Active
<1> QED
  BY <1>1, BatchInvHolds, PTL

-----------------------------------------------------------------------------
(* Generations *)

\* A set of numbers with 0 and, with each number, the next one has all.
LEMMA CountUp ==
    ASSUME NEW S \in SUBSET Nat, 0 \in S, \A k \in S : k + 1 \in S
    PROVE  \A n \in Nat : n \in S
<1> SUFFICES ASSUME Nat \ S # {} PROVE FALSE
  OBVIOUS
<1>1. PICK n \in Nat \ S : \A m \in Nat \ S : n <= m
  BY LeastNumber
<1>2. n - 1 \in Nat /\ n - 1 \notin Nat \ S
  BY <1>1
<1>3. (n - 1) + 1 \in S
  BY <1>2
<1> QED
  BY <1>1, <1>3

\* A set of numbers with a bound has a greatest one.
LEMMA GreatestNumber ==
    ASSUME NEW S \in SUBSET Nat, S # {}, NEW b \in Nat, \A x \in S : x <= b
    PROVE  Max(S) \in S /\ \A x \in S : x <= Max(S)
<1> DEFINE T == {b - x : x \in S}
<1>1. T \in SUBSET Nat /\ T # {}
  <2>1. \A x \in S : b - x \in Nat
    OBVIOUS
  <2> QED
    BY <2>1
<1>2. PICK y \in T : \A z \in T : y <= z
  BY <1>1, LeastNumber
<1>3. PICK g \in S : y = b - g
  BY <1>2
<1>4. \A x \in S : g >= x
  <2> SUFFICES ASSUME NEW x \in S PROVE g >= x
    OBVIOUS
  <2>1. b - g <= b - x
    BY <1>2, <1>3
  <2> QED
    BY <2>1
<1> QED
  BY <1>4 DEF Max

\* Edges lead to nodes of higher numbers.
Edges == {e \in Nodes \X Nodes : e[1] < e[2]}

\* The generation of node n if d are those of the nodes before it.
Level(E, d, n) == IF Before(E, n) = {} THEN 0 ELSE 1 + Max({d[m] : m \in Before(E, n)})

\* The nodes are numbers.
LEMMA NodesAre ==
    /\ Nodes = 0..(N + 1) /\ Nodes \subseteq Nat /\ Stages = 1..N /\ N \in Nat \ {0}
    /\ Idle = 0 /\ Complete = N + 1
BY StageGraphAssumption DEF Nodes, Stages, Idle, Complete

\* A node's generation is after those of its predecessors, and not more than
\* its number if theirs are not.
LEMMA LevelType ==
    ASSUME NEW E \in SUBSET Edges, NEW n \in Nodes, NEW d,
           \A m \in Nodes : m < n => d[m] \in 0..m
    PROVE  Level(E, d, n) \in 0..n /\ \A m \in Before(E, n) : d[m] < Level(E, d, n)
<1>1. \A m \in Before(E, n) : m \in Nodes /\ m < n
  BY DEF Before, Edges
<1>2. CASE Before(E, n) = {}
  BY <1>2, NodesAre DEF Level
<1>3. CASE Before(E, n) # {}
  <2> DEFINE D == {d[m] : m \in Before(E, n)}
  <2>1. D \in SUBSET Nat /\ D # {} /\ \A x \in D : x <= n - 1
    <3> SUFFICES ASSUME NEW m \in Before(E, n) PROVE d[m] \in Nat /\ d[m] <= n - 1
      BY <1>3
    <3> QED
      BY <1>1, NodesAre
  <2>2. n - 1 \in Nat
    BY <1>1, <1>3, NodesAre
  <2>3. Max(D) \in D /\ \A x \in D : x <= Max(D)
    BY <2>1, <2>2, GreatestNumber
  <2>4. Level(E, d, n) = 1 + Max(D)
    BY <1>3 DEF Level
  <2>5. Max(D) \in Nat /\ Max(D) <= n - 1
    BY <2>1, <2>3
  <2>6. \A m \in Before(E, n) : d[m] \in D
    OBVIOUS
  <2> HIDE DEF D
  <2>7. \A m \in Before(E, n) : d[m] \in Nat /\ d[m] <= Max(D)
    BY <2>1, <2>3, <2>6
  <2> QED
    BY <2>4, <2>5, <2>7, NodesAre
<1> QED
  BY <1>2, <1>3

\* Only the generations of the predecessors count.
LEMMA LevelSame ==
    ASSUME NEW E, NEW F, NEW n, Before(E, n) = Before(F, n), NEW d, NEW c,
           \A m \in Before(E, n) : d[m] = c[m]
    PROVE  Level(E, d, n) = Level(F, c, n)
<1>1. {d[m] : m \in Before(E, n)} = {c[m] : m \in Before(F, n)}
  OBVIOUS
<1> QED
  BY <1>1, Zenon DEF Level

\* There are generations.
LEMMA LevelsExist ==
    ASSUME NEW E \in SUBSET Edges
    PROVE  \E d : d = [n \in Nodes |-> Level(E, d, n)]
<1> DEFINE Good(d, k) == \A n \in 0..k : d[n] \in 0..n /\ d[n] = Level(E, d, n)
           S == {k \in Nat : k <= N + 1 => \E d \in [0..k -> Nat] : Good(d, k)}
<1>0. \A n \in Nodes : \A m \in Before(E, n) : m \in Nodes /\ m < n
  BY DEF Before, Edges
<1>1. 0 \in S
  <2> DEFINE d == [n \in 0..0 |-> 0]
  <2>1. Before(E, 0) = {}
    BY <1>0, NodesAre
  <2>2. Level(E, d, 0) = 0
    BY <2>1 DEF Level
  <2>3. d \in [0..0 -> Nat] /\ Good(d, 0)
    BY <2>2
  <2> QED
    BY <2>3
<1>2. ASSUME NEW k \in S PROVE k + 1 \in S
  <2> SUFFICES ASSUME k + 1 <= N + 1 PROVE \E d \in [0..(k + 1) -> Nat] : Good(d, k + 1)
    OBVIOUS
  <2>1. PICK d \in [0..k -> Nat] : Good(d, k)
    BY NodesAre
  <2> DEFINE x == Level(E, d, k + 1)
             c == [n \in 0..(k + 1) |-> IF n = k + 1 THEN x ELSE d[n]]
  <2>2. k \in Nat /\ k + 1 \in Nodes /\ 0..(k + 1) \subseteq Nodes
    BY NodesAre
  <2>3. x \in 0..(k + 1)
    <3>1. \A m \in Nodes : m < k + 1 => d[m] \in 0..m
      BY <2>1, <2>2, NodesAre
    <3> QED
      BY <2>2, <3>1, LevelType
  <2> HIDE DEF x
  <2>4. c \in [0..(k + 1) -> Nat] /\ c[k + 1] = x /\ \A n \in 0..k : c[n] = d[n]
    BY <2>2, <2>3
  <2> HIDE DEF c
  <2>5. ASSUME NEW n \in 0..(k + 1) PROVE Level(E, c, n) = Level(E, d, n)
    <3>1. ASSUME NEW m \in Before(E, n) PROVE c[m] = d[m]
      <4>1. n \in Nodes
        BY <2>2
      <4>2. m \in Nat /\ m < n
        BY <1>0, <4>1, NodesAre
      <4>3. m \in 0..k
        BY <2>2, <4>2
      <4> QED
        BY <2>4, <4>3
    <3>2. {c[m] : m \in Before(E, n)} = {d[m] : m \in Before(E, n)}
      BY <3>1
    <3> QED
      BY <3>2, Zenon DEF Level
  <2>6. ASSUME NEW n \in 0..(k + 1) PROVE c[n] \in 0..n /\ c[n] = Level(E, c, n)
    <3>1. CASE n = k + 1
      BY <2>3, <2>4, <2>5, <3>1 DEF x
    <3>2. CASE n \in 0..k
      <4>1. d[n] \in 0..n /\ d[n] = Level(E, d, n)
        BY <2>1, <3>2
      <4> QED
        BY <2>4, <2>5, <3>2, <4>1
    <3> QED
      BY <2>2, <3>1, <3>2
  <2>7. Good(c, k + 1)
    BY <2>6
  <2> QED
    BY <2>4, <2>7
<1>3. N + 1 \in S
  <2> HIDE DEF S
  <2>1. S \in SUBSET Nat
    BY DEF S
  <2> QED
    BY <1>1, <1>2, <2>1, CountUp, NodesAre
<1>4. PICK d \in [0..(N + 1) -> Nat] : Good(d, N + 1)
  BY <1>3, NodesAre
<1>5. d = [n \in Nodes |-> Level(E, d, n)]
  BY <1>4, NodesAre
<1> QED
  BY <1>5

\* What topological_generations gives: every edge leads to a later generation.
LEMMA Levels ==
    ASSUME NEW E \in SUBSET Edges
    PROVE  /\ Generations(E) \in [Nodes -> Nat]
           /\ \A n \in Nodes : Generations(E)[n] \in 0..n
           /\ \A n \in Nodes : Generations(E)[n] = Level(E, Generations(E), n)
           /\ \A e \in E : Generations(E)[e[1]] < Generations(E)[e[2]]
<1> DEFINE g == Generations(E)
<1>1. g = [n \in Nodes |-> Level(E, g, n)]
  <2>1. g = CHOOSE d : d = [n \in Nodes |-> Level(E, d, n)]
    BY Zenon DEF Generations, Level
  <2> QED
    BY <2>1, LevelsExist, Zenon
<1> HIDE DEF g
<1>2. \A n \in Nodes : g[n] = Level(E, g, n)
  BY <1>1
<1>3. \A n \in Nodes : g[n] \in 0..n
  <2> DEFINE B == {n \in Nodes : g[n] \notin 0..n}
  <2> SUFFICES ASSUME B # {} PROVE FALSE
    OBVIOUS
  <2>1. PICK n \in B : \A m \in B : n <= m
    BY LeastNumber, NodesAre
  <2>2. \A m \in Nodes : m < n => g[m] \in 0..m
    BY <2>1, NodesAre
  <2>3. Level(E, g, n) \in 0..n
    BY <2>1, <2>2, LevelType
  <2> QED
    BY <1>2, <2>1, <2>3
<1>4. \A e \in E : g[e[1]] < g[e[2]]
  <2> SUFFICES ASSUME NEW e \in E PROVE g[e[1]] < g[e[2]]
    OBVIOUS
  <2>1. e[2] \in Nodes /\ e[1] \in Nodes /\ e = <<e[1], e[2]>>
    BY DEF Edges
  <2>2. e[1] \in Before(E, e[2])
    BY <2>1 DEF Before
  <2>3. g[e[1]] < Level(E, g, e[2])
    BY <1>3, <2>1, <2>2, LevelType
  <2> QED
    BY <1>2, <2>1, <2>3
<1>5. \A n \in Nodes : g[n] \in Nat
  BY <1>3, NodesAre
<1>6. g \in [Nodes -> Nat]
  BY <1>1, <1>5
<1> QED
  BY <1>2, <1>3, <1>4, <1>6 DEF g

\* What is added behind a node does not change its generation.
LEMMA LevelsAgree ==
    ASSUME NEW E \in SUBSET Edges, NEW F \in SUBSET Edges, NEW k \in Nat,
           \A n \in Nodes : n <= k => Before(E, n) = Before(F, n)
    PROVE  \A n \in Nodes : n <= k => Generations(E)[n] = Generations(F)[n]
<1> DEFINE g == Generations(E)
           h == Generations(F)
           B == {n \in Nodes : n <= k /\ g[n] # h[n]}
<1>1. \A n \in Nodes : g[n] = Level(E, g, n) /\ h[n] = Level(F, h, n)
  BY Levels
<1> HIDE DEF g, h
<1> SUFFICES ASSUME B # {} PROVE FALSE
  BY DEF g, h
<1>2. PICK n \in B : \A m \in B : n <= m
  BY LeastNumber, NodesAre
<1>3. \A m \in Before(E, n) : g[m] = h[m]
  <2> SUFFICES ASSUME NEW m \in Before(E, n) PROVE g[m] = h[m]
    OBVIOUS
  <2>1. m \in Nodes /\ m < n
    BY DEF Before, Edges
  <2> QED
    BY <1>2, <2>1, NodesAre
<1>4. Level(E, g, n) = Level(F, h, n)
  BY <1>2, <1>3, LevelSame
<1> QED
  BY <1>1, <1>2, <1>4

\* The assembled graph: edges lead to later generations, and Complete is in
\* the last one.
LEMMA AssembledFacts ==
    ASSUME NEW deps \in Shapes
    PROVE  LET E == Assembled(deps)
               g == Generations(E)
           IN  /\ E \in SUBSET Edges
               /\ g \in [Nodes -> Nat]
               /\ \A e \in E : g[e[1]] < g[e[2]]
               /\ \A n \in Nodes \ {Complete} : g[n] < g[Complete]
<1> DEFINE P == Prepended(deps)
           E == Assembled(deps)
           g == Generations(E)
           h == Generations(P)
<1>1. P \in SUBSET Edges
  BY StageGraphAssumption, NodesAre DEF Prepended, Edges
<1>2. E \in SUBSET Edges
  BY <1>1, NodesAre DEF Assembled, Appended, Edges
<1>3. \A n \in Nodes : n <= N => Before(P, n) = Before(E, n)
  BY NodesAre DEF Assembled, Appended, Before
<1>4. \A n \in Nodes : n <= N => g[n] = h[n]
  BY <1>1, <1>2, <1>3, NodesAre, LevelsAgree
<1>5. /\ g \in [Nodes -> Nat] /\ \A e \in E : g[e[1]] < g[e[2]]
      /\ \A n \in Nodes : g[n] \in 0..n
  BY <1>2, Levels
<1>6. PICK s \in Stages : \A r \in Stages : h[r] <= h[s]
  <2> DEFINE D == {h[r] : r \in Stages}
  <2>1. \A r \in Stages : h[r] \in Nat /\ h[r] <= N
    BY <1>1, Levels, NodesAre
  <2>2. D \in SUBSET Nat /\ D # {} /\ \A x \in D : x <= N
    BY <2>1, NodesAre
  <2>3. Max(D) \in D /\ \A x \in D : x <= Max(D)
    BY <2>2, GreatestNumber, NodesAre
  <2> QED
    BY <2>3
<1>7. <<s, Complete>> \in E
  BY <1>6 DEF Assembled, Appended
<1>8. g[s] < g[Complete]
  BY <1>5, <1>7
<1> HIDE DEF E, g, h, P
<1>9. \A n \in Nodes \ {Complete} : g[n] < g[Complete]
  <2> SUFFICES ASSUME NEW n \in Nodes \ {Complete} PROVE g[n] < g[Complete]
    OBVIOUS
  <2>1. CASE n = 0
    BY <1>5, <1>8, <2>1, NodesAre
  <2>2. CASE n \in Stages
    <3>1. h[n] <= h[s] /\ s \in Nodes /\ n \in Nodes /\ n <= N /\ s <= N
      BY <1>6, <2>2, NodesAre
    <3>2. g[n] <= g[s]
      BY <1>4, <3>1
    <3>3. g[n] \in Nat /\ g[s] \in Nat /\ g[Complete] \in Nat
      BY <1>5, <3>1, NodesAre
    <3> QED
      BY <1>8, <3>2, <3>3
  <2> QED
    BY <2>1, <2>2, NodesAre
<1> QED
  BY <1>2, <1>5, <1>9 DEF E, g


-----------------------------------------------------------------------------
(* Sorting *)

\* The place of x among S in the order R.
PlaceIn(S, R, x) == 1 + Cardinality({y \in S : <<y, x>> \in R})

\* R is a strict order of all members of S.
StrictOrder(S, R) ==
    /\ R \in SUBSET (S \X S)
    /\ \A x \in S : <<x, x>> \notin R
    /\ \A x, y, z \in S : <<x, y>> \in R /\ <<y, z>> \in R => <<x, z>> \in R
    /\ \A x, y \in S : x # y => <<x, y>> \in R \/ <<y, x>> \in R

\* The places are the numbers from 1 on, in that order.
Numbered(S, R) ==
    /\ Cardinality(S) \in Nat
    /\ \A x \in S : PlaceIn(S, R, x) \in 1..Cardinality(S)
    /\ \A x, y \in S : <<x, y>> \in R => PlaceIn(S, R, x) < PlaceIn(S, R, y)
    /\ \A i \in 1..Cardinality(S) : \E x \in S : PlaceIn(S, R, x) = i

\* A strict order of all members of a finite set numbers them from 1 on.
LEMMA Places ==
    ASSUME NEW S, IsFiniteSet(S), NEW R, StrictOrder(S, R)
    PROVE  Numbered(S, R)
<1> DEFINE B(x) == {y \in S : <<y, x>> \in R}
           place(x) == 1 + Cardinality(B(x))
           n == Cardinality(S)
           f == [x \in S |-> place(x)]
<1>0. /\ R \in SUBSET (S \X S) /\ \A x \in S : <<x, x>> \notin R
      /\ \A x, y, z \in S : <<x, y>> \in R /\ <<y, z>> \in R => <<x, z>> \in R
      /\ \A x, y \in S : x # y => <<x, y>> \in R \/ <<y, x>> \in R
  BY DEF StrictOrder
<1>1. n \in Nat
  BY FS_CardinalityType
<1>2. ASSUME NEW x \in S PROVE IsFiniteSet(B(x)) /\ Cardinality(B(x)) \in Nat /\ place(x) \in 1..n
  <2>1. B(x) \in SUBSET (S \ {x}) /\ IsFiniteSet(S \ {x}) /\ Cardinality(S \ {x}) = n - 1
    BY <1>0, FS_RemoveElement
  <2> DEFINE C == B(x)
             A == S \ {x}
  <2> HIDE DEF A, C
  <2>2. IsFiniteSet(C) /\ Cardinality(C) <= Cardinality(A)
    BY <2>1, FS_Subset DEF A, C
  <2>3. Cardinality(C) \in Nat
    BY <2>2, FS_CardinalityType
  <2>4. Cardinality(C) <= n - 1
    BY <2>1, <2>2 DEF A
  <2> QED
    BY <1>1, <2>2, <2>3, <2>4 DEF C
<1>3. ASSUME NEW x \in S, NEW y \in S, <<x, y>> \in R PROVE place(x) < place(y)
  <2>1. B(x) \cup {x} \in SUBSET B(y) /\ x \notin B(x)
    BY <1>0, <1>3
  <2>2. Cardinality(B(x) \cup {x}) = Cardinality(B(x)) + 1
    BY <1>2, <2>1, FS_AddElement
  <2>3. Cardinality(B(x) \cup {x}) <= Cardinality(B(y))
    BY <1>2, <2>1, FS_Subset
  <2>4. Cardinality(B(x)) \in Nat /\ Cardinality(B(y)) \in Nat
    BY <1>2
  <2> QED
    BY <2>2, <2>3, <2>4
<1>4. f \in [S -> 1..n]
  BY <1>2
<1>5. \A x, y \in S : f[x] = f[y] => x = y
  <2> SUFFICES ASSUME NEW x \in S, NEW y \in S, x # y PROVE place(x) # place(y)
    OBVIOUS
  <2>1. place(x) \in 1..n /\ place(y) \in 1..n
    BY <1>2
  <2>2. place(x) < place(y) \/ place(y) < place(x)
    <3>1. <<x, y>> \in R \/ <<y, x>> \in R
      BY <1>0
    <3> HIDE DEF place
    <3> QED
      BY <1>3, <3>1
  <2> HIDE DEF place
  <2> QED
    BY <2>1, <2>2
<1>6. f \in Injection(S, 1..n)
  BY <1>4, <1>5 DEF Injection, IsInjective
<1>7. IsFiniteSet(1..n) /\ Cardinality(1..n) = n
  BY <1>1, FS_Interval
<1>8. f \in Surjection(S, 1..n)
  BY <1>6, <1>7, FS_Injection
<1>9. \A i \in 1..n : \E x \in S : place(x) = i
  BY <1>8 DEF Surjection
<1> QED
  BY <1>1, <1>2, <1>3, <1>9 DEF PlaceIn, Numbered

\* A transition.
Trans == [source : Nat, destination : Nat, idx : Nat, parallel : BOOLEAN, priority : LOW..AUTO, skip : BOOLEAN]

\* The transitions of a group: their places differ.
Group(T) == T \in SUBSET Trans /\ IsFiniteSet(T) /\ \A t, u \in T : t.idx = u.idx => t = u

\* Sorting a group leaves each transition once, in order.
LEMMA SortedFacts ==
    ASSUME NEW T, Group(T)
    PROVE  /\ Cardinality(T) \in Nat /\ Len(Sorted(T)) = Cardinality(T) /\ Sorted(T) \in Seq(T)
           /\ \A t \in T : \E i \in 1..Len(Sorted(T)) : Sorted(T)[i] = t
           /\ \A i, j \in 1..Len(Sorted(T)) : i < j => Precedes(Sorted(T)[i], Sorted(T)[j])
<1> DEFINE R == {p \in T \X T : Precedes(p[1], p[2])}
           place(x) == PlaceIn(T, R, x)
           at(x) == 1 + Cardinality({y \in T : Precedes(y, x)})
           n == Cardinality(T)
           s == Sorted(T)
<1>1. \A t \in T : t.priority \in Int /\ t.idx \in Int
  BY DEF Group, Trans, LOW, AUTO
<1>2. \A x, y \in T : <<x, y>> \in R <=> Precedes(x, y)
  OBVIOUS
<1>3. \A x \in T : ~ Precedes(x, x)
  BY <1>1 DEF Precedes
<1>4. \A x, y, z \in T : Precedes(x, y) /\ Precedes(y, z) => Precedes(x, z)
  BY <1>1 DEF Precedes
<1>5. \A x, y \in T : x # y => Precedes(x, y) \/ Precedes(y, x)
  <2>1. \A x, y \in T : x # y => x.idx # y.idx
    BY DEF Group
  <2> QED
    BY <1>1, <2>1 DEF Precedes
<1>6. IsFiniteSet(T) /\ R \in SUBSET (T \X T)
  BY DEF Group
<1>7. \A x \in T : at(x) = place(x)
  <2> SUFFICES ASSUME NEW x \in T PROVE {y \in T : <<y, x>> \in R} = {y \in T : Precedes(y, x)}
    BY DEF PlaceIn
  <2> QED
    BY <1>2
<1> HIDE DEF R
<1>8. /\ n \in Nat
      /\ \A x \in T : place(x) \in 1..n
      /\ \A x, y \in T : <<x, y>> \in R => place(x) < place(y)
      /\ \A i \in 1..n : \E x \in T : place(x) = i
  <2>1. /\ \A x \in T : <<x, x>> \notin R
        /\ \A x, y, z \in T : <<x, y>> \in R /\ <<y, z>> \in R => <<x, z>> \in R
        /\ \A x, y \in T : x # y => <<x, y>> \in R \/ <<y, x>> \in R
    BY <1>2, <1>3, <1>4, <1>5
  <2> QED
    BY <1>6, <2>1, Places DEF StrictOrder, Numbered
<1> HIDE DEF place
<1>9. s = [i \in 1..n |-> CHOOSE x \in T : at(x) = i]
  BY DEF Sorted, InOrder
<1> HIDE DEF at, s
<1>10. \A i \in 1..n : s[i] \in T /\ place(s[i]) = i
  BY <1>7, <1>8, <1>9
<1>11. s \in [1..n -> T]
  BY <1>9, <1>10
<1>12. s \in Seq(T) /\ Len(s) = n
  BY <1>8, <1>11
<1>13. ASSUME NEW t \in T PROVE \E i \in 1..n : s[i] = t
  <2>1. place(t) \in 1..n /\ s[place(t)] \in T /\ place(s[place(t)]) = place(t)
    BY <1>8, <1>10
  <2>2. ASSUME s[place(t)] # t PROVE FALSE
    <3>1. <<s[place(t)], t>> \in R \/ <<t, s[place(t)]>> \in R
      BY <1>2, <1>5, <2>1, <2>2
    <3>2. place(s[place(t)]) < place(t) \/ place(t) < place(s[place(t)])
      BY <1>8, <2>1, <3>1
    <3> QED
      BY <2>1, <3>2
  <2> QED
    BY <2>1, <2>2
<1>14. ASSUME NEW i \in 1..n, NEW j \in 1..n, i < j PROVE Precedes(s[i], s[j])
  <2>1. s[i] \in T /\ s[j] \in T /\ place(s[i]) = i /\ place(s[j]) = j
    BY <1>10
  <2>2. s[i] # s[j]
    BY <1>14, <2>1
  <2>3. CASE Precedes(s[j], s[i])
    <3>1. j < i
      BY <1>2, <1>8, <2>1, <2>3
    <3> QED
      BY <1>14, <3>1
  <2> QED
    BY <1>5, <2>1, <2>2, <2>3
<1> QED
  BY <1>8, <1>12, <1>13, <1>14 DEF s

\* Part of a group is one.
LEMMA GroupPart ==
    ASSUME NEW T, Group(T), NEW U \in SUBSET T
    PROVE  Group(U)
BY FS_Subset DEF Group

\* The batches of transitions T, with workers.
Batches(T) == SUBSET [of : T, workers : Nat]

\* The priority of a batch is a number.
LEMMA GroupPriorityType ==
    ASSUME NEW T, Group(T), NEW b \in Batches(T), b # {}
    PROVE  GroupPriority(b) \in Nat
<1> DEFINE L == {IF c.of.priority = AUTO THEN 0 ELSE c.of.priority : c \in b}
<1>1. \A c \in b : c.of.priority \in 1..5
  BY DEF Batches, Group, Trans, LOW, AUTO
<1>2. L \in SUBSET Nat /\ L # {} /\ \A x \in L : x <= 5
  <2>1. \A c \in b : (IF c.of.priority = AUTO THEN 0 ELSE c.of.priority) \in 0..5
    BY <1>1
  <2> QED
    BY <2>1
<1>3. Max(L) \in L /\ \A x \in L : x <= Max(L)
  BY <1>2, GreatestNumber
<1> HIDE DEF L
<1>4. (CHOOSE l \in L : \A k \in L : k <= l) \in L
  BY <1>3
<1>5. GroupPriority(b) = CHOOSE l \in L : \A k \in L : k <= l
  BY DEF GroupPriority, L
<1> QED
  BY <1>2, <1>4, <1>5

\* s holds the members of b but the empty ones, each at a place of its own.
Reordered(s, b) ==
    \E f \in [1..Len(s) -> DOMAIN b] :
        /\ \A k \in 1..Len(s) : s[k] = b[f[k]]
        /\ \A k, l \in 1..Len(s) : f[k] = f[l] => k = l
        /\ \A i \in DOMAIN b : b[i] # {} => \E k \in 1..Len(s) : f[k] = i

\* Ordering the batches drops the empty ones and moves each other one to a
\* place of its own.
LEMMA ByPriorityFacts ==
    ASSUME NEW T, Group(T), NEW b \in Seq(Batches(T))
    PROVE  ByPriority(b) \in Seq(Batches(T)) /\ Reordered(ByPriority(b), b)
<1> DEFINE filled == {i \in DOMAIN b : b[i] # {}}
           p(i) == GroupPriority(b[i])
           ahead(i, j) == p(i) > p(j) \/ (p(i) = p(j) /\ i < j)
           R == {q \in filled \X filled : ahead(q[1], q[2])}
           place(x) == PlaceIn(filled, R, x)
           at(x) == 1 + Cardinality({y \in filled : ahead(y, x)})
           n == Cardinality(filled)
           f == InOrder(filled, ahead)
<1>1. \A i \in filled : p(i) \in Nat /\ i \in Nat
  <2> SUFFICES ASSUME NEW i \in filled PROVE p(i) \in Nat /\ i \in Nat
    OBVIOUS
  <2>1. i \in Nat /\ b[i] \in Batches(T) /\ b[i] # {}
    OBVIOUS
  <2> QED
    BY <2>1, GroupPriorityType
<1> HIDE DEF p
<1>2. IsFiniteSet(filled)
  <2>1. filled \in SUBSET (1..Len(b)) /\ IsFiniteSet(1..Len(b))
    BY FS_Interval
  <2> QED
    BY <2>1, FS_Subset
<1>3. filled \subseteq DOMAIN b
  OBVIOUS
<1>4. \A x, y \in filled : <<x, y>> \in R <=> ahead(x, y)
  OBVIOUS
<1>5. /\ \A x \in filled : ~ ahead(x, x)
      /\ \A x, y, z \in filled : ahead(x, y) /\ ahead(y, z) => ahead(x, z)
      /\ \A x, y \in filled : x # y => ahead(x, y) \/ ahead(y, x)
  <2> HIDE DEF filled
  <2> QED
    BY <1>1
<1>6. R \in SUBSET (filled \X filled)
  OBVIOUS
<1>7. \A x \in filled : at(x) = place(x)
  <2> SUFFICES ASSUME NEW x \in filled PROVE {y \in filled : <<y, x>> \in R} = {y \in filled : ahead(y, x)}
    BY DEF PlaceIn
  <2> HIDE DEF filled, ahead
  <2> QED
    BY <1>4
<1>8. f = [i \in 1..n |-> CHOOSE x \in filled : at(x) = i]
  BY DEF InOrder
<1>9. ByPriority(b) = [i \in DOMAIN f |-> b[f[i]]]
  BY Zenon DEF ByPriority, p
<1> HIDE DEF R, filled, ahead
<1>10. /\ n \in Nat
       /\ \A x \in filled : place(x) \in 1..n
       /\ \A x, y \in filled : <<x, y>> \in R => place(x) < place(y)
       /\ \A i \in 1..n : \E x \in filled : place(x) = i
  <2>1. /\ \A x \in filled : <<x, x>> \notin R
        /\ \A x, y, z \in filled : <<x, y>> \in R /\ <<y, z>> \in R => <<x, z>> \in R
        /\ \A x, y \in filled : x # y => <<x, y>> \in R \/ <<y, x>> \in R
    BY <1>4, <1>5
  <2> QED
    BY <1>2, <1>6, <2>1, Places DEF StrictOrder, Numbered
<1> HIDE DEF place, at, f
<1>11. \A i \in 1..n : f[i] \in filled /\ place(f[i]) = i
  BY <1>7, <1>8, <1>10
<1>12. f \in [1..n -> DOMAIN b]
  BY <1>3, <1>8, <1>11
<1>13. ByPriority(b) = [i \in 1..n |-> b[f[i]]]
  BY <1>9, <1>12
<1>14. \A i \in DOMAIN b : b[i] \in Batches(T)
  OBVIOUS
<1>15. ByPriority(b) \in Seq(Batches(T)) /\ Len(ByPriority(b)) = n
  BY <1>10, <1>12, <1>13, <1>14
<1>16. \A k, l \in 1..n : f[k] = f[l] => k = l
  BY <1>11
<1>17. ASSUME NEW i \in DOMAIN b, b[i] # {} PROVE \E k \in 1..n : f[k] = i
  <2>1. i \in filled
    BY <1>17 DEF filled
  <2>2. place(i) \in 1..n /\ f[place(i)] \in filled /\ place(f[place(i)]) = place(i)
    BY <1>10, <1>11, <2>1
  <2>3. ASSUME f[place(i)] # i PROVE FALSE
    <3>1. <<f[place(i)], i>> \in R \/ <<i, f[place(i)]>> \in R
      BY <1>4, <1>5, <2>1, <2>2, <2>3
    <3>2. place(f[place(i)]) < place(i) \/ place(i) < place(f[place(i)])
      BY <1>10, <2>1, <2>2, <3>1
    <3> QED
      BY <2>2, <3>2
  <2> QED
    BY <2>2, <2>3
<1>18. \E g \in [1..n -> DOMAIN b] :
         /\ \A k \in 1..n : ByPriority(b)[k] = b[g[k]]
         /\ \A k, l \in 1..n : g[k] = g[l] => k = l
         /\ \A i \in DOMAIN b : b[i] # {} => \E k \in 1..n : g[k] = i
  <2> WITNESS f \in [1..n -> DOMAIN b]
  <2>1. \A k \in 1..n : ByPriority(b)[k] = b[f[k]]
    BY <1>13
  <2> QED
    BY <1>16, <1>17, <2>1
<1> HIDE DEF n
<1> QED
  BY <1>15, <1>18 DEF Reordered


-----------------------------------------------------------------------------
(* partion_prioritized_stage_batches *)

\* f goes through n steps, from the member a of A to another one and so on.
Steps(f, A, a, n, step) == f \in [0..n -> A] /\ f[0] = a /\ \A i \in 1..n : f[i] = step[<<f[i - 1], i>>]

\* From every member there is a way through the n steps.
LEMMA StepsExist ==
    ASSUME NEW A, NEW a \in A, NEW n \in Nat, NEW step \in [A \X (1..n) -> A]
    PROVE  \E f : Steps(f, A, a, n, step)
<1> DEFINE Good(f, k) == \A i \in 0..k : f[i] = IF i = 0 THEN a ELSE step[<<f[i - 1], i>>]
           S == {k \in Nat : k <= n => \E f \in [0..k -> A] : Good(f, k)}
<1>1. 0 \in S
  <2> DEFINE f == [i \in 0..0 |-> a]
  <2>1. f \in [0..0 -> A] /\ Good(f, 0)
    OBVIOUS
  <2> QED
    BY <2>1
<1>2. ASSUME NEW k \in S PROVE k + 1 \in S
  <2> SUFFICES ASSUME k + 1 <= n PROVE \E f \in [0..(k + 1) -> A] : Good(f, k + 1)
    OBVIOUS
  <2>1. PICK f \in [0..k -> A] : Good(f, k)
    OBVIOUS
  <2> DEFINE x == step[<<f[k], k + 1>>]
             g == [i \in 0..(k + 1) |-> IF i = k + 1 THEN x ELSE f[i]]
  <2>2. x \in A
    OBVIOUS
  <2>3. g \in [0..(k + 1) -> A]
    BY <2>2
  <2>4. \A i \in 0..(k + 1) : g[i] = IF i = 0 THEN a ELSE step[<<g[i - 1], i>>]
    <3> SUFFICES ASSUME NEW i \in 0..(k + 1) PROVE g[i] = IF i = 0 THEN a ELSE step[<<g[i - 1], i>>]
      OBVIOUS
    <3>1. g[k + 1] = x /\ \A j \in 0..k : g[j] = f[j]
      OBVIOUS
    <3>2. k \in Nat
      OBVIOUS
    <3> HIDE DEF g
    <3>3. CASE i = k + 1
      BY <3>1, <3>2, <3>3
    <3>4. CASE i \in 0..k
      <4>1. i # 0 => i - 1 \in 0..k
        BY <3>2, <3>4
      <4>2. f[i] = IF i = 0 THEN a ELSE step[<<f[i - 1], i>>]
        BY <2>1, <3>4
      <4> HIDE DEF x
      <4> QED
        BY <3>1, <3>4, <4>1, <4>2
    <3> QED
      BY <3>2, <3>3, <3>4
  <2> QED
    BY <2>3, <2>4
<1>3. n \in S
  <2> HIDE DEF S
  <2>1. S \in SUBSET Nat
    BY DEF S
  <2> QED
    BY <1>1, <1>2, <2>1, CountUp
<1>4. PICK f \in [0..n -> A] : Good(f, n)
  BY <1>3
<1>5. f[0] = a
  <2>1. 0 \in 0..n
    OBVIOUS
  <2>2. f[0] = IF 0 = 0 THEN a ELSE step[<<f[0 - 1], 0>>]
    BY <1>4, <2>1
  <2> QED
    BY <2>2
<1>6. ASSUME NEW i \in 1..n PROVE f[i] = step[<<f[i - 1], i>>]
  <2>1. i \in 0..n /\ i # 0
    OBVIOUS
  <2>2. f[i] = IF i = 0 THEN a ELSE step[<<f[i - 1], i>>]
    BY <1>4, <2>1
  <2> QED
    BY <2>1, <2>2
<1> QED
  BY <1>4, <1>5, <1>6 DEF Steps

\* What the first has, and each hands on to the next, all have.
LEMMA StepsKeep ==
    ASSUME NEW n \in Nat, NEW S \in SUBSET (0..n), 0 \in S, \A i \in 1..n : i - 1 \in S => i \in S
    PROVE  \A i \in 0..n : i \in S
<1> DEFINE U == {k \in Nat : k <= n => k \in S}
<1>1. U \in SUBSET Nat /\ 0 \in U
  OBVIOUS
<1>2. ASSUME NEW k \in U PROVE k + 1 \in U
  <2> SUFFICES ASSUME k + 1 <= n PROVE k + 1 \in S
    OBVIOUS
  <2>1. k \in S /\ k + 1 \in 1..n
    OBVIOUS
  <2>2. (k + 1) - 1 \in S => k + 1 \in S
    BY <2>1
  <2> QED
    BY <2>1, <2>2
<1> HIDE DEF U
<1>3. \A k \in Nat : k \in U
  BY <1>1, <1>2, CountUp
<1> QED
  BY <1>3 DEF U

\* What is known while the batches are formed.
Acc(T) == [seen : SUBSET T, raised : BOOLEAN, group : Batches(T), allocated : Nat, batches : Seq(Batches(T))]

\* The least of every priority is positive and not above its most, and that not
\* above the pool.
LEMMA WorkersOf ==
    ASSUME NEW p \in LOW..AUTO, NEW pool \in Nat \ {0}
    PROVE  /\ MaxWorkers(p, pool) \in 1..pool
           /\ MinWorkers(p, pool) \in 1..MaxWorkers(p, pool)
<1>1. /\ Ceil(pool, 4) \in 1..pool /\ Ceil(3 * pool, 4) \in 1..pool
      /\ Ceil(pool, 4) <= Ceil(3 * pool, 4)
  BY DEF Ceil
<1>2. p \in {LOW, NORMAL, HIGH, EXCLUSIVE, AUTO} /\ p \in 1..5
  BY DEF LOW, NORMAL, HIGH, EXCLUSIVE, AUTO
<1> QED
  BY <1>1, <1>2 DEF MaxWorkers, MinWorkers, LOW, NORMAL, HIGH, EXCLUSIVE, AUTO

\* A transition that may join a batch gets the most of its priority at most,
\* and one less than the least at least.
LEMMA AllocationType ==
    ASSUME NEW p \in LOW..AUTO, NEW pool \in Nat \ {0}, NEW a \in Nat
    PROVE  /\ Allocation(a, p, pool) \in Nat
           /\ Allocation(a, p, pool) <= MaxWorkers(p, pool)
           /\ Allocation(a, p, pool) >= MinWorkers(p, pool) - 1
BY WorkersOf DEF Allocation

\* Considering a transition adds to the batch, or raises, or does nothing.
LEMMA ConsiderCases ==
    ASSUME NEW T, Group(T), NEW pool \in Nat \ {0}, NEW acc \in Acc(T), NEW o \in T
    PROVE  LET workers == Allocation(acc.allocated, o.priority, pool)
               next == Consider(acc, o, T, pool)
           IN  /\ next \in Acc(T) /\ workers \in Nat
               /\ next.batches = acc.batches
               /\ \/ next.raised /\ next.seen = acc.seen /\ next.group = acc.group /\ next.allocated = acc.allocated
                  \/ /\ next.raised = acc.raised /\ Joins(workers, acc.allocated, pool)
                     /\ next.seen = acc.seen \cup {o} /\ next.allocated = acc.allocated + workers
                     /\ next.group = acc.group \cup {[of |-> o, workers |-> workers]}
                  \/ next = acc /\ ~ Joins(workers, acc.allocated, pool)
<1> DEFINE workers == Allocation(acc.allocated, o.priority, pool)
           next == Consider(acc, o, T, pool)
<1>1. workers \in Nat
  BY AllocationType DEF Group, Trans, Acc
<1> HIDE DEF workers
<1>2. CASE \A t \in T : t.source = o.source => Bypasses(t)
  BY <1>1, <1>2 DEF Consider, Acc, workers
<1>3. CASE ~ (\A t \in T : t.source = o.source => Bypasses(t)) /\ Joins(workers, acc.allocated, pool)
  <2>1. next = Join(acc, o, workers)
    BY <1>3, Zenon DEF Consider, workers
  <2>2. next = [acc EXCEPT !.group = acc.group \cup {[of |-> o, workers |-> workers]},
                           !.allocated = acc.allocated + workers, !.seen = acc.seen \cup {o}]
    BY <2>1 DEF Join
  <2> HIDE DEF next
  <2>3. [of |-> o, workers |-> workers] \in [of : T, workers : Nat]
    BY <1>1
  <2>4. /\ next \in Acc(T) /\ next.batches = acc.batches /\ next.raised = acc.raised
        /\ next.seen = acc.seen \cup {o} /\ next.allocated = acc.allocated + workers
        /\ next.group = acc.group \cup {[of |-> o, workers |-> workers]}
    <3> DEFINE G == acc.group \cup {[of |-> o, workers |-> workers]}
               A == acc.allocated + workers
               S == acc.seen \cup {o}
    <3>1. G \in Batches(T) /\ A \in Nat /\ S \in SUBSET T
      BY <1>1, <2>3 DEF Acc, Batches
    <3>2. next = [acc EXCEPT !.group = G, !.allocated = A, !.seen = S]
      BY <2>2
    <3> HIDE DEF G, A, S
    <3>3. /\ next \in Acc(T) /\ next.batches = acc.batches /\ next.raised = acc.raised
          /\ next.seen = S /\ next.allocated = A /\ next.group = G
      BY <3>1, <3>2 DEF Acc
    <3> QED
      BY <3>3 DEF G, A, S
  <2> QED
    BY <1>1, <1>3, <2>4 DEF next, workers
<1>4. CASE ~ (\A t \in T : t.source = o.source => Bypasses(t)) /\ ~ Joins(workers, acc.allocated, pool)
  <2>1. next = acc
    BY <1>4, Zenon DEF Consider, workers
  <2> QED
    BY <1>1, <1>4, <2>1 DEF workers
<1> QED
  BY <1>2, <1>3, <1>4

\* The start of the batch that t heads.
Head0(acc, t, pool) ==
    [acc EXCEPT !.group = {[of |-> t, workers |-> MaxWorkers(t.priority, pool)]},
                !.allocated = MaxWorkers(t.priority, pool)]

\* It keeps what is known otherwise, and holds t with the most of its priority.
LEMMA HeadType ==
    ASSUME NEW T, Group(T), NEW pool \in Nat \ {0}, NEW acc \in Acc(T), NEW t \in T
    PROVE  /\ Head0(acc, t, pool) \in Acc(T) /\ Head0(acc, t, pool).raised = acc.raised
           /\ Head0(acc, t, pool).seen = acc.seen /\ Head0(acc, t, pool).batches = acc.batches
           /\ Head0(acc, t, pool).allocated = MaxWorkers(t.priority, pool)
           /\ Head0(acc, t, pool).group = {[of |-> t, workers |-> MaxWorkers(t.priority, pool)]}
<1> DEFINE most == MaxWorkers(t.priority, pool)
<1>1. most \in Nat
  BY WorkersOf DEF Group, Trans
<1> HIDE DEF most
<1>2. Head0(acc, t, pool) = [acc EXCEPT !.group = {[of |-> t, workers |-> most]}, !.allocated = most]
  BY DEF Head0, most
<1>3. {[of |-> t, workers |-> most]} \in Batches(T)
  BY <1>1 DEF Batches
<1> QED
  BY <1>1, <1>2, <1>3 DEF Acc, most

\* The others considered one after the other, and what comes of it.
Considered(f, acc, t, T, pool) ==
    /\ f[0] = Head0(acc, t, pool)
    /\ \A i \in 1..Len(Sorted(T \ {t})) : f[i] = Consider(f[i - 1], Sorted(T \ {t})[i], T, pool)

Headed(x, t) == [x EXCEPT !.batches = Append(x.batches, x.group), !.seen = x.seen \cup {t}]

\* The batch of t comes of considering the others one after the other.
LEMMA BatchUnfolds ==
    ASSUME NEW T, Group(T), NEW pool \in Nat \ {0}, NEW acc \in Acc(T), NEW t \in T
    PROVE  /\ Len(Sorted(T \ {t})) \in Nat /\ Sorted(T \ {t}) \in Seq(T \ {t})
           /\ \E f : /\ Considered(f, acc, t, T, pool)
                     /\ Batch(acc, t, T, pool) = Headed(f[Len(Sorted(T \ {t}))], t)
<1> DEFINE others == Sorted(T \ {t})
           n == Len(others)
           head == Head0(acc, t, pool)
<1>1. n \in Nat /\ others \in Seq(T \ {t})
  BY GroupPart, SortedFacts
<1>2. head \in Acc(T)
  BY HeadType
<1> HIDE DEF head, others
<1> DEFINE step == [p \in Acc(T) \X (1..n) |-> Consider(p[1], others[p[2]], T, pool)]
<1>3. step \in [Acc(T) \X (1..n) -> Acc(T)]
  <2> SUFFICES ASSUME NEW a \in Acc(T), NEW i \in 1..n PROVE Consider(a, others[i], T, pool) \in Acc(T)
    OBVIOUS
  <2>1. others[i] \in T
    BY <1>1
  <2> QED
    BY <2>1, ConsiderCases
<1>4. PICK f \in [0..n -> Acc(T)] : f[0] = head /\ \A i \in 1..n : f[i] = step[<<f[i - 1], i>>]
  <2> DEFINE A == Acc(T)
  <2>1. n \in Nat /\ head \in A /\ step \in [A \X (1..n) -> A]
    BY <1>1, <1>2, <1>3
  <2> HIDE DEF step, n, A
  <2>2. \E f : Steps(f, A, head, n, step)
    BY <2>1, StepsExist
  <2> QED
    BY <2>2 DEF A, Steps
<1>5. f = [i \in 0..n |-> IF i = 0 THEN head ELSE Consider(f[i - 1], others[i], T, pool)]
  <2>1. ASSUME NEW i \in 0..n
        PROVE  f[i] = IF i = 0 THEN head ELSE Consider(f[i - 1], others[i], T, pool)
    <3>1. CASE i = 0
      BY <1>4, <3>1
    <3>2. CASE i # 0
      <4>1. i \in 1..n /\ f[i - 1] \in Acc(T)
        BY <1>1, <3>2
      <4>2. step[<<f[i - 1], i>>] = Consider(f[i - 1], others[i], T, pool)
        BY <4>1
      <4> HIDE DEF step
      <4> QED
        BY <1>4, <3>2, <4>1, <4>2
    <3> QED
      BY <3>1, <3>2
  <2> HIDE DEF n
  <2> QED
    BY <2>1
<1> DEFINE c == CHOOSE c : c = [i \in 0..n |-> IF i = 0 THEN head ELSE Consider(c[i - 1], others[i], T, pool)]
<1>6. c = [i \in 0..n |-> IF i = 0 THEN head ELSE Consider(c[i - 1], others[i], T, pool)]
  <2> HIDE DEF n
  <2> QED
    BY <1>5, Zenon
<1>7. Batch(acc, t, T, pool) = [c[n] EXCEPT !.batches = Append(@, c[n].group), !.seen = @ \cup {t}]
  BY Zenon DEF Batch, Head0, head, others
<1> HIDE DEF c
<1>8. c[0] = head /\ \A i \in 1..n : c[i] = Consider(c[i - 1], others[i], T, pool)
  <2> HIDE DEF n
  <2>1. 0 \in 0..n /\ \A i \in 1..n : i \in 0..n /\ i # 0
    BY <1>1 DEF n
  <2> QED
    BY <1>6, <2>1
<1> HIDE DEF n
<1>9. Batch(acc, t, T, pool) = Headed(c[n], t)
  BY <1>7 DEF Headed
<1>10. Considered(c, acc, t, T, pool)
  BY <1>8 DEF Considered, n, head, others
<1> QED
  BY <1>1, <1>9, <1>10 DEF n, others


\* The transitions of a batch.
Members(b) == {c.of : c \in b}

\* The workers of a batch, one by one.
Slots(b) == UNION {{c} \X (1..c.workers) : c \in b}

\* One more member of a batch adds its workers at most.
LEMMA SlotsAdd ==
    ASSUME NEW b, IsFiniteSet(Slots(b)), NEW c, c.workers \in Nat
    PROVE  /\ IsFiniteSet(Slots(b \cup {c})) /\ BatchWorkers(b) \in Nat
           /\ BatchWorkers(b \cup {c}) \in Nat /\ BatchWorkers(b \cup {c}) <= BatchWorkers(b) + c.workers
<1> DEFINE S == Slots(b)
           C == {c} \X (1..c.workers)
<1>1. Slots(b \cup {c}) = S \cup C
  BY DEF Slots
<1>2. IsFiniteSet(C) /\ Cardinality(C) = c.workers
  BY SlotsOfOne
<1>3. BatchWorkers(b) = Cardinality(S) /\ BatchWorkers(b \cup {c}) = Cardinality(S \cup C)
  BY <1>1 DEF BatchWorkers, Slots
<1> HIDE DEF S, C
<1>4. IsFiniteSet(S)
  BY DEF S
<1>5. IsFiniteSet(S \cup C) /\ Cardinality(S \cup C) = Cardinality(S) + Cardinality(C) - Cardinality(S \cap C)
  BY <1>2, <1>4, FS_Union
<1>6. IsFiniteSet(S \cap C)
  BY <1>4, FS_Intersection
<1>7. Cardinality(S) \in Nat /\ Cardinality(S \cap C) \in Nat /\ Cardinality(S \cup C) \in Nat
  BY <1>4, <1>5, <1>6, FS_CardinalityType
<1>8. Cardinality(S \cup C) <= Cardinality(S) + c.workers
  BY <1>2, <1>5, <1>7
<1>9. IsFiniteSet(Slots(b \cup {c}))
  BY <1>1, <1>5
<1>10. BatchWorkers(b) \in Nat /\ BatchWorkers(b \cup {c}) \in Nat
  BY <1>3, <1>7
<1>11. BatchWorkers(b \cup {c}) <= BatchWorkers(b) + c.workers
  BY <1>3, <1>8
<1> QED
  BY <1>9, <1>10, <1>11

\* A batch with few enough workers for every member.
Modest(b, pool) ==
    \A c \in b : c.workers > 0 => /\ c.workers <= MaxWorkers(c.of.priority, pool)
                                  /\ c.workers >= MinWorkers(c.of.priority, pool) - 1

\* A batch that fits the pool.
Fits(b, pool) == BatchWorkers(b) <= pool /\ Modest(b, pool)

\* What holds while the others are considered for the batch that t heads.
Inner(x, acc, T, t, pool) ==
    /\ x \in Acc(T) /\ x.batches = acc.batches /\ (acc.raised => x.raised)
    /\ acc.seen \subseteq x.seen /\ x.seen \subseteq acc.seen \cup Members(x.group)
    /\ t \in Members(x.group) /\ Modest(x.group, pool)
    /\ IsFiniteSet(Slots(x.group)) /\ BatchWorkers(x.group) <= x.allocated /\ x.allocated <= pool

\* It holds of the batch that has only t.
LEMMA InnerStarts ==
    ASSUME NEW T, Group(T), NEW pool \in Nat \ {0}, NEW acc \in Acc(T), NEW t \in T
    PROVE  Inner(Head0(acc, t, pool), acc, T, t, pool)
<1> DEFINE x == Head0(acc, t, pool)
           most == MaxWorkers(t.priority, pool)
           c == [of |-> t, workers |-> most]
<1>1. t.priority \in LOW..AUTO
  BY DEF Group, Trans
<1>2. most \in 1..pool /\ MinWorkers(t.priority, pool) \in 1..most
  BY <1>1, WorkersOf
<1> HIDE DEF most
<1>3. c.workers = most /\ c.of = t
  OBVIOUS
<1>4. /\ x \in Acc(T) /\ x.batches = acc.batches /\ x.raised = acc.raised /\ x.seen = acc.seen
      /\ x.group = {c} /\ x.allocated = most
  <2>1. /\ Head0(acc, t, pool) \in Acc(T) /\ Head0(acc, t, pool).raised = acc.raised
        /\ Head0(acc, t, pool).seen = acc.seen /\ Head0(acc, t, pool).batches = acc.batches
        /\ Head0(acc, t, pool).allocated = MaxWorkers(t.priority, pool)
        /\ Head0(acc, t, pool).group = {[of |-> t, workers |-> MaxWorkers(t.priority, pool)]}
    BY HeadType
  <2> HIDE DEF x
  <2>2. c = [of |-> t, workers |-> MaxWorkers(t.priority, pool)]
    BY DEF most
  <2> HIDE DEF c
  <2> QED
    BY <2>1, <2>2 DEF x, most
<1> HIDE DEF x, c
<1> DEFINE b == {c}
<1>5. Slots({}) = {} /\ BatchWorkers({}) = 0 /\ IsFiniteSet(Slots({}))
  BY FS_EmptySet DEF Slots, BatchWorkers
<1>6. {} \cup {c} = b /\ c.workers \in Nat /\ x.group = b
  BY <1>2, <1>3, <1>4
<1>7. Members(b) = {t} /\ \A e \in b : e = c
  BY <1>3 DEF Members
<1> HIDE DEF b
<1>8. IsFiniteSet(Slots(b)) /\ BatchWorkers(b) <= most
  <2>1. IsFiniteSet(Slots({} \cup {c})) /\ BatchWorkers({} \cup {c}) <= BatchWorkers({}) + c.workers
    BY <1>5, <1>6, SlotsAdd, Zenon
  <2>2. IsFiniteSet(Slots(b)) /\ BatchWorkers(b) <= 0 + most
    BY <1>3, <1>5, <1>6, <2>1, Zenon
  <2> QED
    BY <1>2, <2>2
<1>9. Modest(b, pool)
  <2>1. most <= most /\ most >= MinWorkers(t.priority, pool) - 1
    BY <1>2
  <2> QED
    BY <1>3, <1>7, <2>1 DEF Modest, most
<1>10. t \in Members(b)
  BY <1>7
<1>11. most <= pool
  BY <1>2
<1>12. Inner(x, acc, T, t, pool)
  BY <1>4, <1>6, <1>8, <1>9, <1>10, <1>11 DEF Inner
<1> QED
  BY <1>12 DEF x

\* Considering one more transition keeps it.
LEMMA InnerKept ==
    ASSUME NEW T, Group(T), NEW pool \in Nat \ {0}, NEW acc, NEW t, NEW x, Inner(x, acc, T, t, pool),
           NEW o \in T
    PROVE  Inner(Consider(x, o, T, pool), acc, T, t, pool)
<1> DEFINE workers == Allocation(x.allocated, o.priority, pool)
           next == Consider(x, o, T, pool)
           c == [of |-> o, workers |-> workers]
<1>1. o.priority \in LOW..AUTO /\ x \in Acc(T) /\ x.allocated \in Nat
  BY DEF Group, Trans, Inner, Acc
<1>2. /\ workers \in Nat /\ workers <= MaxWorkers(o.priority, pool)
      /\ workers >= MinWorkers(o.priority, pool) - 1
  BY <1>1, AllocationType
<1>3. /\ next \in Acc(T) /\ next.batches = x.batches
      /\ \/ next.raised /\ next.seen = x.seen /\ next.group = x.group /\ next.allocated = x.allocated
         \/ /\ next.raised = x.raised /\ Joins(workers, x.allocated, pool)
            /\ next.seen = x.seen \cup {o} /\ next.allocated = x.allocated + workers
            /\ next.group = x.group \cup {c}
         \/ next = x /\ ~ Joins(workers, x.allocated, pool)
  BY <1>1, ConsiderCases
<1> SUFFICES Inner(next, acc, T, t, pool)
  OBVIOUS
<1> HIDE DEF workers, next
<1>4. c.of = o /\ c.workers = workers
  OBVIOUS
<1> HIDE DEF c
<1>5. CASE next.raised /\ next.seen = x.seen /\ next.group = x.group /\ next.allocated = x.allocated
  BY <1>3, <1>5 DEF Inner
<1>6. CASE /\ next.raised = x.raised /\ Joins(workers, x.allocated, pool)
           /\ next.seen = x.seen \cup {o} /\ next.allocated = x.allocated + workers
           /\ next.group = x.group \cup {c}
  <2>1. /\ IsFiniteSet(Slots(x.group \cup {c})) /\ BatchWorkers(x.group) \in Nat
        /\ BatchWorkers(x.group \cup {c}) \in Nat
        /\ BatchWorkers(x.group \cup {c}) <= BatchWorkers(x.group) + workers
    BY <1>2, <1>4, SlotsAdd DEF Inner
  <2>2. BatchWorkers(next.group) <= next.allocated /\ next.allocated <= pool
    BY <1>1, <1>2, <1>6, <2>1 DEF Inner, Joins
  <2>3. Members(next.group) = Members(x.group) \cup {o}
    BY <1>4, <1>6 DEF Members
  <2>4. Modest(next.group, pool)
    BY <1>2, <1>4, <1>6 DEF Modest, Inner
  <2> QED
    BY <1>3, <1>6, <2>1, <2>2, <2>3, <2>4 DEF Inner
<1>7. CASE next = x
  BY <1>7
<1> QED
  BY <1>3, <1>5, <1>6, <1>7

\* The batch of t fits, t and all that are seen since are in it.
LEMMA BatchFacts ==
    ASSUME NEW T, Group(T), NEW pool \in Nat \ {0}, NEW acc \in Acc(T), NEW t \in T
    PROVE  /\ Batch(acc, t, T, pool) \in Acc(T)
           /\ acc.raised => Batch(acc, t, T, pool).raised
           /\ acc.seen \cup {t} \subseteq Batch(acc, t, T, pool).seen
           /\ \E b \in Batches(T) :
                /\ Batch(acc, t, T, pool).batches = Append(acc.batches, b)
                /\ Fits(b, pool) /\ Batch(acc, t, T, pool).seen \subseteq acc.seen \cup Members(b)
<1> DEFINE others == Sorted(T \ {t})
           n == Len(others)
           next == Batch(acc, t, T, pool)
<1>1. /\ n \in Nat /\ others \in Seq(T \ {t})
      /\ \E f : Considered(f, acc, t, T, pool) /\ next = Headed(f[n], t)
  BY BatchUnfolds
<1>2. \A i \in 1..n : others[i] \in T
  BY <1>1
<1>3. PICK f : Considered(f, acc, t, T, pool) /\ next = Headed(f[n], t)
  BY <1>1
<1>0. f[0] = Head0(acc, t, pool) /\ \A i \in 1..n : f[i] = Consider(f[i - 1], others[i], T, pool)
  BY <1>3 DEF Considered
<1> HIDE DEF others, n, next
<1> DEFINE S == {i \in 0..n : Inner(f[i], acc, T, t, pool)}
<1>4. 0 \in S
  BY <1>0, <1>1, InnerStarts
<1>5. ASSUME NEW i \in 1..n, i - 1 \in S PROVE i \in S
  <2>1. Inner(f[i - 1], acc, T, t, pool) /\ others[i] \in T
    BY <1>2, <1>5
  <2>2. Inner(Consider(f[i - 1], others[i], T, pool), acc, T, t, pool)
    BY <2>1, InnerKept
  <2> QED
    BY <1>0, <2>2
<1>6. \A i \in 0..n : i \in S
  <2>1. S \in SUBSET (0..n)
    OBVIOUS
  <2> HIDE DEF S
  <2> QED
    BY <1>1, <1>4, <1>5, <2>1, StepsKeep
<1> DEFINE x == f[n]
<1>7. Inner(x, acc, T, t, pool)
  BY <1>1, <1>6
<1>8. next = [x EXCEPT !.batches = Append(x.batches, x.group), !.seen = x.seen \cup {t}]
  BY <1>3 DEF Headed
<1> HIDE DEF x
<1>9. x \in Acc(T) /\ x.group \in Batches(T) /\ x.batches \in Seq(Batches(T)) /\ x.seen \in SUBSET T
  BY <1>7 DEF Inner, Acc
<1>10. Append(x.batches, x.group) \in Seq(Batches(T)) /\ x.seen \cup {t} \in SUBSET T
  BY <1>9
<1>11. /\ next \in Acc(T) /\ next.raised = x.raised /\ next.seen = x.seen \cup {t}
       /\ next.batches = Append(x.batches, x.group)
  BY <1>8, <1>9, <1>10 DEF Acc
<1>12. Fits(x.group, pool)
  <2>1. BatchWorkers(x.group) \in Nat /\ x.allocated \in Nat
    BY <1>7, FS_CardinalityType DEF Inner, Acc, Slots, BatchWorkers
  <2> QED
    BY <1>7, <2>1 DEF Inner, Fits
<1>13. next.batches = Append(acc.batches, x.group) /\ next.seen \subseteq acc.seen \cup Members(x.group)
  BY <1>7, <1>11 DEF Inner
<1>14. next \in Acc(T) /\ (acc.raised => next.raised) /\ acc.seen \cup {t} \subseteq next.seen
  BY <1>7, <1>11 DEF Inner
<1> QED
  BY <1>9, <1>12, <1>13, <1>14 DEF next


\* The transitions of a batch of those without workers.
LEMMA ProvisionedMembers ==
    ASSUME NEW S
    PROVE  Members({[of |-> t, workers |-> 0] : t \in S}) = S
<1> DEFINE b == {[of |-> t, workers |-> 0] : t \in S}
<1>1. \A c \in b : c.of \in S
  OBVIOUS
<1>2. ASSUME NEW t \in S PROVE \E c \in b : c.of = t
  <2>1. [of |-> t, workers |-> 0] \in b /\ [of |-> t, workers |-> 0].of = t
    OBVIOUS
  <2> QED
    BY <2>1
<1> HIDE DEF b
<1>3. \A t : t \in Members(b) <=> t \in S
  BY <1>1, <1>2 DEF Members
<1> QED
  BY <1>3 DEF b

\* What is known before the batches are formed, and after the next transition.
First(T) ==
    [seen |-> Bypassed(T), raised |-> FALSE, group |-> {}, allocated |-> 0,
     batches |-> <<{[of |-> t, workers |-> 0] : t \in Bypassed(T)}>>]

Follow(acc, o, T, pool) == IF o \in acc.seen THEN acc ELSE Batch(acc, o, T, pool)

Followed(f, T, pool) ==
    /\ f[0] = First(T)
    /\ \A i \in 1..Len(Sorted(T)) : f[i] = Follow(f[i - 1], Sorted(T)[i], T, pool)

\* What is known before any batch is formed is in its type.
LEMMA FirstType ==
    ASSUME NEW T, Group(T)
    PROVE  First(T) \in Acc(T)
<1>1. Bypassed(T) \in SUBSET T
  BY DEF Bypassed
<1> DEFINE b == {[of |-> t, workers |-> 0] : t \in Bypassed(T)}
<1>2. b \in Batches(T)
  BY <1>1 DEF Batches
<1> HIDE DEF b
<1>3. <<b>> \in Seq(Batches(T)) /\ {} \in Batches(T)
  BY <1>2 DEF Batches
<1>4. First(T) = [seen |-> Bypassed(T), raised |-> FALSE, group |-> {}, allocated |-> 0, batches |-> <<b>>]
  BY DEF First, b
<1> QED
  BY <1>1, <1>3, <1>4 DEF Acc

\* What is known after the next transition is in its type too.
LEMMA FollowType ==
    ASSUME NEW T, Group(T), NEW pool \in Nat \ {0}, NEW acc \in Acc(T), NEW o \in T
    PROVE  Follow(acc, o, T, pool) \in Acc(T)
BY BatchFacts DEF Follow

\* The batches come of looking at the transitions one after the other.
LEMMA PrioritiseUnfolds ==
    ASSUME NEW T, Group(T), NEW pool \in Nat \ {0}
    PROVE  \E f : Followed(f, T, pool) /\ Prioritise(T, pool) = f[Len(Sorted(T))]
<1> DEFINE all == Sorted(T)
           n == Len(all)
<1>1. n \in Nat /\ all \in Seq(T)
  BY SortedFacts
<1> HIDE DEF all
<1> DEFINE step == [p \in Acc(T) \X (1..n) |-> Follow(p[1], all[p[2]], T, pool)]
<1>3. step \in [Acc(T) \X (1..n) -> Acc(T)]
  <2> SUFFICES ASSUME NEW a \in Acc(T), NEW i \in 1..n PROVE Follow(a, all[i], T, pool) \in Acc(T)
    OBVIOUS
  <2>1. all[i] \in T
    BY <1>1
  <2> QED
    BY <2>1, FollowType
<1>4. PICK f \in [0..n -> Acc(T)] : f[0] = First(T) /\ \A i \in 1..n : f[i] = step[<<f[i - 1], i>>]
  <2> DEFINE A == Acc(T)
  <2>1. n \in Nat /\ First(T) \in A /\ step \in [A \X (1..n) -> A]
    BY <1>1, <1>3, FirstType
  <2> HIDE DEF step, n, A
  <2>2. \E f : Steps(f, A, First(T), n, step)
    BY <2>1, StepsExist
  <2> QED
    BY <2>2 DEF A, Steps
<1>5. f = [i \in 0..n |-> IF i = 0 THEN First(T) ELSE Follow(f[i - 1], all[i], T, pool)]
  <2>1. ASSUME NEW i \in 0..n
        PROVE  f[i] = IF i = 0 THEN First(T) ELSE Follow(f[i - 1], all[i], T, pool)
    <3>1. CASE i = 0
      BY <1>4, <3>1
    <3>2. CASE i # 0
      <4>1. i \in 1..n /\ f[i - 1] \in Acc(T)
        BY <1>1, <3>2
      <4>2. step[<<f[i - 1], i>>] = Follow(f[i - 1], all[i], T, pool)
        BY <4>1
      <4> HIDE DEF step
      <4> QED
        BY <1>4, <3>2, <4>1, <4>2
    <3> QED
      BY <3>1, <3>2
  <2> HIDE DEF n
  <2> QED
    BY <2>1
<1> DEFINE c == CHOOSE c : c = [i \in 0..n |-> IF i = 0 THEN First(T) ELSE Follow(c[i - 1], all[i], T, pool)]
<1>6. c = [i \in 0..n |-> IF i = 0 THEN First(T) ELSE Follow(c[i - 1], all[i], T, pool)]
  <2> HIDE DEF n
  <2> QED
    BY <1>5, Zenon
<1>7. Prioritise(T, pool) = c[n]
  BY Zenon DEF Prioritise, First, Follow, all
<1> HIDE DEF c
<1>8. c[0] = First(T) /\ \A i \in 1..n : c[i] = Follow(c[i - 1], all[i], T, pool)
  <2> HIDE DEF n
  <2>1. 0 \in 0..n /\ \A i \in 1..n : i \in 0..n /\ i # 0
    BY <1>1 DEF n
  <2> QED
    BY <1>6, <2>1
<1>9. Followed(c, T, pool)
  BY <1>8 DEF Followed, all
<1> QED
  BY <1>7, <1>9 DEF all

\* Transition u is in one of the batches s.
Within(u, s) == \E k \in DOMAIN s : u \in Members(s[k])

\* All transitions are in a batch, and all batches fit.
LEMMA PrioritiseFacts ==
    ASSUME NEW T, Group(T), NEW pool \in Nat \ {0}
    PROVE  /\ Prioritise(T, pool) \in Acc(T)
           /\ \A u \in T : Within(u, Prioritise(T, pool).batches)
           /\ \A k \in DOMAIN Prioritise(T, pool).batches : Fits(Prioritise(T, pool).batches[k], pool)
<1> DEFINE all == Sorted(T)
           n == Len(all)
           Inv(x, i) == /\ x \in Acc(T) /\ \A j \in 1..i : all[j] \in x.seen
                        /\ \A u \in x.seen : Within(u, x.batches)
                        /\ \A k \in DOMAIN x.batches : Fits(x.batches[k], pool)
<1>1. n \in Nat /\ all \in Seq(T) /\ \A t \in T : \E i \in 1..n : all[i] = t
  BY SortedFacts
<1>2. PICK f : Followed(f, T, pool) /\ Prioritise(T, pool) = f[n]
  BY PrioritiseUnfolds
<1>3. f[0] = First(T) /\ \A i \in 1..n : f[i] = Follow(f[i - 1], all[i], T, pool)
  BY <1>2 DEF Followed
<1>4. Inv(First(T), 0)
  <2> DEFINE b == {[of |-> t, workers |-> 0] : t \in Bypassed(T)}
  <2>1. \A c \in b : c.workers = 0
    OBVIOUS
  <2>2. Members(b) = Bypassed(T)
    BY ProvisionedMembers, Zenon
  <2> HIDE DEF b
  <2>3. UNION {{c} \X (1..c.workers) : c \in b} = {}
    BY <2>1
  <2>4. Fits(b, pool)
    <3>1. BatchWorkers(b) = 0
      BY <2>3, FS_EmptySet DEF BatchWorkers
    <3>2. Modest(b, pool)
      BY <2>1 DEF Modest
    <3> QED
      BY <3>1, <3>2 DEF Fits
  <2>5. First(T).seen = Bypassed(T) /\ First(T).batches = <<b>>
    BY DEF First, b
  <2>6. DOMAIN <<b>> = {1} /\ <<b>>[1] = b
    OBVIOUS
  <2>7. \A u \in First(T).seen : Within(u, First(T).batches)
    BY <2>2, <2>5, <2>6 DEF Within
  <2>8. \A k \in DOMAIN First(T).batches : Fits(First(T).batches[k], pool)
    BY <2>4, <2>5, <2>6
  <2>9. First(T) \in Acc(T)
    BY FirstType
  <2> QED
    BY <2>7, <2>8, <2>9
<1>5. ASSUME NEW i \in 1..n, Inv(f[i - 1], i - 1) PROVE Inv(f[i], i)
  <2> DEFINE x == f[i - 1]
             o == all[i]
             next == Batch(x, o, T, pool)
  <2>1. o \in T /\ x \in Acc(T) /\ f[i] = Follow(x, o, T, pool)
    BY <1>1, <1>3, <1>5
  <2>2. \A j \in 1..i : j = i \/ j \in 1..(i - 1)
    BY <1>1
  <2>3. \A j \in 1..(i - 1) : all[j] \in x.seen
    BY <1>5
  <2>4. (\A u \in x.seen : Within(u, x.batches)) /\ \A k \in DOMAIN x.batches : Fits(x.batches[k], pool)
    BY <1>5
  <2> HIDE DEF x
  <2>5. CASE o \in x.seen
    <3>1. f[i] = x
      BY <2>1, <2>5 DEF Follow
    <3> HIDE DEF all
    <3> QED
      BY <2>1, <2>2, <2>3, <2>4, <2>5, <3>1
  <2>6. CASE o \notin x.seen
    <3>1. f[i] = next
      BY <2>1, <2>6 DEF Follow
    <3>2. next \in Acc(T) /\ x.seen \cup {o} \subseteq next.seen
      BY <2>1, BatchFacts
    <3>3. PICK b \in Batches(T) :
            /\ next.batches = Append(x.batches, b) /\ Fits(b, pool)
            /\ next.seen \subseteq x.seen \cup Members(b)
      <4> HIDE DEF o
      <4> QED
        BY <2>1, BatchFacts
    <3> HIDE DEF next, all
    <3>4. x.batches \in Seq(Batches(T))
      BY <2>1 DEF Acc
    <3>5. /\ DOMAIN next.batches = 1..(Len(x.batches) + 1) /\ DOMAIN x.batches = 1..Len(x.batches)
          /\ Len(x.batches) \in Nat
          /\ next.batches[Len(x.batches) + 1] = b
          /\ \A k \in DOMAIN x.batches : next.batches[k] = x.batches[k]
      BY <3>3, <3>4
    <3>6. \A k \in DOMAIN next.batches : Fits(next.batches[k], pool)
      BY <2>4, <3>3, <3>5
    <3>7. ASSUME NEW u \in next.seen PROVE Within(u, next.batches)
      <4>1. CASE u \in x.seen
        <5>1. PICK k \in DOMAIN x.batches : u \in Members(x.batches[k])
          BY <2>4, <4>1 DEF Within
        <5>2. k \in DOMAIN next.batches /\ u \in Members(next.batches[k])
          BY <3>5, <5>1
        <5> QED
          BY <5>2 DEF Within
      <4>2. CASE u \in Members(b)
        <5>1. Len(x.batches) + 1 \in DOMAIN next.batches /\ u \in Members(next.batches[Len(x.batches) + 1])
          BY <3>5, <4>2
        <5> QED
          BY <5>1 DEF Within
      <4> QED
        BY <3>3, <4>1, <4>2
    <3>8. \A j \in 1..i : all[j] \in next.seen
      BY <2>2, <2>3, <3>2
    <3> QED
      BY <3>1, <3>2, <3>6, <3>7, <3>8
  <2> QED
    BY <2>5, <2>6
<1> HIDE DEF Inv
<1> DEFINE S == {i \in 0..n : Inv(f[i], i)}
<1>6. 0 \in S /\ \A i \in 1..n : i - 1 \in S => i \in S
  BY <1>1, <1>3, <1>4, <1>5
<1>7. Inv(f[n], n)
  <2>1. S \in SUBSET (0..n)
    OBVIOUS
  <2> HIDE DEF S, n
  <2>2. \A i \in 0..n : i \in S
    BY <1>1, <1>6, <2>1, StepsKeep
  <2>3. n \in S
    BY <1>1, <2>2
  <2> QED
    BY <2>3 DEF S
<1> QED
  BY <1>1, <1>2, <1>7 DEF Inv


\* Of two that do not fit together with the first at its most, neither do they
\* with the second at its most.
LEMMA NeitherJoins ==
    ASSUME NEW p \in LOW..AUTO, NEW q \in LOW..AUTO, p <= q, NEW pool \in Nat \ {0},
           ~ Joins(Allocation(MaxWorkers(p, pool), q, pool), MaxWorkers(p, pool), pool)
    PROVE  ~ Joins(Allocation(MaxWorkers(q, pool), p, pool), MaxWorkers(q, pool), pool)
<1> DEFINE c == Ceil(pool, 4)
           d == Ceil(3 * pool, 4)
<1>1. c \in Nat /\ d \in Nat /\ pool <= 4 * c /\ 4 * c <= pool + 3 /\ 3 * pool <= 4 * d /\ 4 * d <= 3 * pool + 3
  BY DEF Ceil
<1>2. p \in 1..5 /\ q \in 1..5
  BY DEF LOW, AUTO
<1>3. \A r \in 1..5 : /\ MaxWorkers(r, pool) = IF r = 1 THEN c ELSE IF r = 2 THEN d ELSE pool
                      /\ MinWorkers(r, pool) = IF r \in {1, 5} THEN 1 ELSE IF r = 2 THEN c ELSE IF r = 3 THEN d ELSE pool
  BY DEF MaxWorkers, MinWorkers, LOW, NORMAL, HIGH, EXCLUSIVE, AUTO
<1> HIDE DEF c, d
<1>4. CASE p \in {3, 4, 5}
  <2>1. q \in {3, 4, 5}
    BY <1>2, <1>4
  <2>2. MaxWorkers(q, pool) = pool
    BY <1>3, <2>1
  <2> QED
    BY <2>2, AllocationType DEF Joins
<1>5. CASE q \in {3, 4, 5}
  <2>1. MaxWorkers(q, pool) = pool
    BY <1>3, <1>5
  <2> QED
    BY <2>1, AllocationType DEF Joins
<1>6. CASE p = 1 /\ q = 1
  BY <1>6
<1>7. CASE p = 1 /\ q = 2
  <2>1. /\ MaxWorkers(p, pool) = c /\ MaxWorkers(q, pool) = d
        /\ MinWorkers(p, pool) = 1 /\ MinWorkers(q, pool) = c
    BY <1>2, <1>3, <1>7
  <2> QED
    BY <1>1, <2>1 DEF Joins, Allocation
<1>8. CASE p = 2 /\ q = 2
  BY <1>8
<1> QED
  BY <1>2, <1>4, <1>5, <1>6, <1>7, <1>8

\* The batches s hold a transition that runs its stage once at most.
OnceIn(T, s) ==
    \A t \in T : ~ t.skip => \A i, j \in DOMAIN s : t \in Members(s[i]) /\ t \in Members(s[j]) => i = j

\* Two different values are a set of two.
LEMMA PairCardinality ==
    ASSUME NEW a, NEW b, a # b
    PROVE  IsFiniteSet({a, b}) /\ Cardinality({a, b}) = 2
<1> DEFINE S == {a}
           T == S \cup {b}
<1>1. IsFiniteSet(S) /\ Cardinality(S) = 1 /\ b \notin S
  BY FS_Singleton
<1> HIDE DEF S
<1>2. IsFiniteSet(T) /\ Cardinality(T) = 2
  BY <1>1, FS_AddElement
<1>3. T = {a, b}
  BY DEF S
<1> HIDE DEF T
<1> QED
  BY <1>2, <1>3, Zenon

\* The batch of x has no other member.
HeadsAlone(x, acc, T, pool) ==
    \E b : Members(b) = {x} /\ Batch(acc, x, T, pool).batches = Append(acc.batches, b)

\* The other of two, without a reason to bypass it, joins the batch or not.
LEMMA PairBatch ==
    ASSUME NEW T, Group(T), NEW pool \in Nat \ {0}, NEW acc \in Acc(T), NEW x \in T, NEW y \in T,
           x # y, T = {x, y}, ~ Bypasses(y)
    PROVE  /\ Joins(Allocation(MaxWorkers(x.priority, pool), y.priority, pool), MaxWorkers(x.priority, pool), pool)
                => y \in Batch(acc, x, T, pool).seen
           /\ ~ Joins(Allocation(MaxWorkers(x.priority, pool), y.priority, pool), MaxWorkers(x.priority, pool), pool)
                => HeadsAlone(x, acc, T, pool)
<1> DEFINE most == MaxWorkers(x.priority, pool)
           workers == Allocation(most, y.priority, pool)
           next == Batch(acc, x, T, pool)
           head == Head0(acc, x, pool)
           U == T \ {x}
<1>1. U = {y} /\ U \in SUBSET T
  OBVIOUS
<1>2. Group(U) /\ Cardinality(U) = 1
  BY <1>1, GroupPart, FS_Singleton
<1>3. Len(Sorted(U)) = 1 /\ Sorted(U)[1] = y
  <2> HIDE DEF U
  <2>1. Len(Sorted(U)) = 1 /\ Sorted(U) \in Seq(U)
    BY <1>2, SortedFacts
  <2>2. Sorted(U)[1] \in U
    BY <2>1
  <2> QED
    BY <1>1, <2>1, <2>2
<1>4. PICK f : Considered(f, acc, x, T, pool) /\ next = Headed(f[1], x)
  <2>1. \E f : Considered(f, acc, x, T, pool) /\ next = Headed(f[Len(Sorted(U))], x)
    BY BatchUnfolds
  <2> HIDE DEF U, next
  <2> QED
    BY <1>3, <2>1
<1>5. f[0] = head /\ f[1] = Consider(f[0], y, T, pool)
  <2>1. f[0] = head /\ \A i \in 1..Len(Sorted(U)) : f[i] = Consider(f[i - 1], Sorted(U)[i], T, pool)
    BY <1>4 DEF Considered
  <2>2. 1 \in 1..1 /\ 1 - 1 = 0
    OBVIOUS
  <2> HIDE DEF U, head
  <2> QED
    BY <1>3, <2>1, <2>2
<1>6. /\ head \in Acc(T) /\ head.batches = acc.batches /\ head.allocated = most
      /\ head.group = {[of |-> x, workers |-> most]}
  BY HeadType
<1>7. f[1] = IF Joins(workers, most, pool) THEN Join(head, y, workers) ELSE head
  BY <1>5, <1>6 DEF Consider
<1>8. CASE Joins(workers, most, pool)
  <2>1. f[1] = [head EXCEPT !.group = head.group \cup {[of |-> y, workers |-> workers]},
                            !.allocated = head.allocated + workers, !.seen = head.seen \cup {y}]
    BY <1>7, <1>8 DEF Join
  <2>4. f[1] \in Acc(T)
    BY <1>5, <1>6, ConsiderCases
  <2> HIDE DEF workers, head
  <2>2. y \in f[1].seen
    BY <1>6, <2>1 DEF Acc
  <2>3. next = [f[1] EXCEPT !.batches = Append(f[1].batches, f[1].group), !.seen = f[1].seen \cup {x}]
    BY <1>4 DEF Headed
  <2> HIDE DEF next
  <2>5. y \in next.seen
    BY <2>2, <2>3, <2>4 DEF Acc
  <2> QED
    BY <1>8, <2>5 DEF next, workers
<1>9. CASE ~ Joins(workers, most, pool)
  <2>1. next = [head EXCEPT !.batches = Append(head.batches, head.group), !.seen = head.seen \cup {x}]
    BY <1>4, <1>7, <1>9 DEF Headed
  <2> HIDE DEF next, head
  <2>2. next.batches = Append(acc.batches, {[of |-> x, workers |-> most]})
    BY <1>6, <2>1 DEF Acc
  <2>3. Members({[of |-> x, workers |-> most]}) = {x}
    BY DEF Members
  <2> QED
    BY <1>9, <2>2, <2>3 DEF next, HeadsAlone
<1> QED
  BY <1>8, <1>9

\* One or two transitions are in one batch each.
LEMMA PairOnce ==
    ASSUME NEW T, Group(T), NEW pool \in Nat \ {0}, Cardinality(T) <= 2,
           Cardinality(ParallelSources(T)) # 1
    PROVE  OnceIn(T, Prioritise(T, pool).batches)
<1> DEFINE all == Sorted(T)
           n == Len(all)
           b0 == {[of |-> t, workers |-> 0] : t \in Bypassed(T)}
           end == Prioritise(T, pool)
<1>1. /\ n \in Nat /\ n = Cardinality(T) /\ all \in Seq(T) /\ \A t \in T : \E i \in 1..n : all[i] = t
      /\ \A i, j \in 1..n : i < j => Precedes(all[i], all[j])
  BY SortedFacts
<1>2. PICK f : Followed(f, T, pool) /\ end = f[n]
  BY PrioritiseUnfolds
<1>3. f[0] = First(T) /\ \A i \in 1..n : f[i] = Follow(f[i - 1], all[i], T, pool)
  BY <1>2 DEF Followed
<1>4. First(T).seen = Bypassed(T) /\ First(T).batches = <<b0>> /\ First(T) \in Acc(T)
  BY FirstType DEF First
<1>5. Members(b0) = Bypassed(T)
  BY ProvisionedMembers, Zenon
<1>8. First(T) \in Acc(T)
  BY <1>4
<1>9. \A v \in T : /\ Batch(First(T), v, T, pool) \in Acc(T)
                  /\ First(T).seen \subseteq Batch(First(T), v, T, pool).seen
                  /\ \E g \in Batches(T) : Batch(First(T), v, T, pool).batches = Append(First(T).batches, g)
  BY <1>8, BatchFacts
<1> SUFFICES OnceIn(T, end.batches)
  OBVIOUS
<1> HIDE DEF b0, all, n, end
<1>6. CASE \A t \in T : Bypasses(t)
  <2> DEFINE S == {i \in 0..n : f[i] = First(T)}
  <2>1. 0 \in S
    BY <1>1, <1>3
  <2>2. ASSUME NEW i \in 1..n, i - 1 \in S PROVE i \in S
    <3>1. all[i] \in T
      BY <1>1 DEF n
    <3>2. all[i] \in First(T).seen
      BY <1>4, <1>6, <3>1 DEF Bypassed
    <3>3. f[i] = Follow(First(T), all[i], T, pool)
      BY <1>3, <2>2
    <3> QED
      BY <3>2, <3>3 DEF Follow
  <2>3. n \in S
    <3>1. S \in SUBSET (0..n)
      OBVIOUS
    <3> HIDE DEF S
    <3>2. \A i \in 0..n : i \in S
      BY <1>1, <2>1, <2>2, <3>1, StepsKeep
    <3> QED
      BY <1>1, <3>2
  <2>4. end.batches = <<b0>>
    BY <1>2, <1>4, <2>3
  <2> QED
    BY <2>4 DEF OnceIn
<1>7. CASE \E t \in T : ~ Bypasses(t)
  <2>1. PICK t \in T : ~ Bypasses(t)
    BY <1>7
  <2>2. IsFiniteSet(T)
    BY DEF Group
  <2>3. \E u \in T : u.parallel /\ u.source # t.source
    <3> SUFFICES ASSUME \A u \in T : u.parallel => u.source = t.source PROVE FALSE
      OBVIOUS
    <3>1. t.parallel
      BY <2>1 DEF Bypasses
    <3>2. ParallelSources(T) = {t.source}
      BY <3>1 DEF ParallelSources
    <3> QED
      BY <3>2, FS_Singleton
  <2>4. PICK u \in T : u.parallel /\ u.source # t.source
    BY <2>3
  <2>5. T = {t, u} /\ t # u
    <3>1. t # u /\ {t, u} \in SUBSET T
      BY <2>4
    <3>2. Cardinality({t, u}) = 2
      BY <3>1, PairCardinality
    <3> DEFINE P == {t, u}
    <3> HIDE DEF P
    <3>3. P \in SUBSET T /\ Cardinality(P) = 2
      BY <3>1, <3>2 DEF P
    <3>4. Cardinality(P) <= Cardinality(T) /\ (Cardinality(T) = Cardinality(P) => T = P)
      BY <2>2, <3>3, FS_Subset
    <3>5. Cardinality(T) \in Nat
      BY <2>2, FS_CardinalityType
    <3>6. T = P
      BY <3>3, <3>4, <3>5
    <3> QED
      BY <3>1, <3>6 DEF P
  <2>6. n = 2
    <3>1. Cardinality({t, u}) = 2
      BY <2>5, PairCardinality
    <3>2. Cardinality(T) = Cardinality({t, u})
      BY <2>5, Zenon
    <3> QED
      BY <1>1, <3>1, <3>2
  <2> DEFINE x == all[1]
             y == all[2]
  <2>7. x \in T /\ y \in T /\ x # y /\ T = {x, y} /\ Precedes(x, y)
    <3>1. x \in T /\ y \in T /\ Precedes(x, y)
      BY <1>1, <2>6 DEF n
    <3>2. \A v \in T : v = x \/ v = y
      <4>1. \A i \in 1..2 : i = 1 \/ i = 2
        OBVIOUS
      <4> QED
        BY <1>1, <2>6, <4>1
    <3> QED
      BY <2>5, <3>1, <3>2
  <2>8. x.parallel /\ y.parallel
    BY <2>1, <2>4, <2>5, <2>7 DEF Bypasses
  <2>9. f[1] = Follow(First(T), x, T, pool) /\ f[2] = Follow(f[1], y, T, pool) /\ end = f[2]
    <3>1. 1 \in 1..n /\ 2 \in 1..n /\ 1 - 1 = 0 /\ 2 - 1 = 1
      BY <2>6
    <3> QED
      BY <1>2, <1>3, <2>6, <3>1
  <2> HIDE DEF x, y
  <2>10. x.skip \in BOOLEAN /\ y.skip \in BOOLEAN /\ x.priority \in LOW..AUTO /\ y.priority \in LOW..AUTO
    BY <2>7 DEF Group, Trans
  <2>11. (x \in Bypassed(T) <=> x.skip) /\ (y \in Bypassed(T) <=> y.skip)
    BY <2>7, <2>8, <2>10 DEF Bypassed, Bypasses
  <2>12. ASSUME NEW g, NEW v \in T, end.batches = Append(<<b0>>, g), \A w \in T : ~ w.skip => w \notin Bypassed(T)
         PROVE  OnceIn(T, end.batches)
    <3>1. DOMAIN end.batches = {1, 2} /\ end.batches[1] = b0
      BY <2>12
    <3> QED
      BY <1>5, <2>12, <3>1 DEF OnceIn
  <2>13. \A w \in T : ~ w.skip => w \notin Bypassed(T)
    BY <2>7, <2>11
  <2>14. CASE x.skip
    <3>1. f[1] = First(T)
      BY <1>4, <2>9, <2>11, <2>14 DEF Follow
    <3>2. CASE y.skip
      <4>1. end.batches = <<b0>>
        BY <1>4, <2>9, <2>11, <3>1, <3>2 DEF Follow
      <4> QED
        BY <4>1 DEF OnceIn
    <3>3. CASE ~ y.skip
      <4>1. end = Batch(First(T), y, T, pool)
        BY <1>4, <2>9, <2>11, <3>1, <3>3 DEF Follow
      <4>2. PICK g \in Batches(T) : Batch(First(T), y, T, pool).batches = Append(First(T).batches, g)
        BY <1>9, <2>7
      <4>3. end.batches = Append(<<b0>>, g)
        BY <1>4, <4>1, <4>2
      <4> QED
        BY <2>7, <2>12, <2>13, <4>3
    <3> QED
      BY <3>2, <3>3
  <2>15. CASE ~ x.skip
    <3>1. f[1] = Batch(First(T), x, T, pool)
      BY <1>4, <2>9, <2>11, <2>15 DEF Follow
    <3>2. /\ f[1] \in Acc(T) /\ Bypassed(T) \subseteq f[1].seen
          /\ \E g : f[1].batches = Append(<<b0>>, g)
      <4>1. f[1] \in Acc(T) /\ Bypassed(T) \subseteq f[1].seen
        BY <1>4, <1>9, <2>7, <3>1
      <4>2. PICK g \in Batches(T) : Batch(First(T), x, T, pool).batches = Append(First(T).batches, g)
        BY <1>9, <2>7
      <4>3. f[1].batches = Append(<<b0>>, g)
        BY <1>4, <3>1, <4>2
      <4> QED
        BY <4>1, <4>3
    <3>3. CASE y \in f[1].seen
      <4>1. end = f[1]
        BY <2>9, <3>3 DEF Follow
      <4> QED
        BY <2>7, <2>12, <2>13, <3>2, <4>1
    <3>4. CASE y \notin f[1].seen
      <4>1. ~ y.skip /\ ~ Bypasses(y) /\ ~ Bypasses(x)
        BY <2>7, <2>8, <2>11, <2>15, <3>2, <3>4 DEF Bypassed
      <4>2. ~ Joins(Allocation(MaxWorkers(x.priority, pool), y.priority, pool), MaxWorkers(x.priority, pool), pool)
        BY <1>4, <2>7, <3>1, <3>4, <4>1, PairBatch
      <4>3. HeadsAlone(x, First(T), T, pool)
        BY <1>8, <2>7, <4>1, <4>2, PairBatch
      <4>13. PICK g : Members(g) = {x} /\ f[1].batches = Append(<<b0>>, g)
        BY <1>4, <3>1, <4>3 DEF HeadsAlone
      <4>4. x.priority <= y.priority
        BY <2>7, <2>10 DEF Precedes, LOW, AUTO
      <4>5. ~ Joins(Allocation(MaxWorkers(y.priority, pool), x.priority, pool), MaxWorkers(y.priority, pool), pool)
        BY <2>10, <4>2, <4>4, NeitherJoins
      <4>6. end = Batch(f[1], y, T, pool)
        BY <2>9, <3>4 DEF Follow
      <4>7. T = {y, x}
        BY <2>7
      <4>12. f[1] \in Acc(T)
        BY <3>2
      <4>8. HeadsAlone(y, f[1], T, pool)
        BY <2>7, <4>1, <4>5, <4>7, <4>12, PairBatch
      <4>9. PICK h : Members(h) = {y} /\ end.batches = Append(Append(<<b0>>, g), h)
        BY <4>6, <4>8, <4>13 DEF HeadsAlone
      <4>10. Bypassed(T) = {}
        BY <2>7, <2>11, <2>15, <4>1 DEF Bypassed
      <4>11. DOMAIN end.batches = {1, 2, 3} /\ end.batches[1] = b0 /\ end.batches[2] = g /\ end.batches[3] = h
        BY <4>9
      <4> QED
        BY <1>5, <2>7, <4>9, <4>10, <4>11, <4>13 DEF OnceIn
    <3> QED
      BY <3>3, <3>4
  <2> QED
    BY <2>10, <2>14, <2>15
<1> QED
  BY <1>6, <1>7


\* Ordering the batches keeps who is in one of them, whether all fit, and
\* whether nobody is in two.
LEMMA ByPriorityKeeps ==
    ASSUME NEW T, Group(T), NEW b \in Seq(Batches(T)), NEW pool \in Nat \ {0}
    PROVE  /\ ByPriority(b) \in Seq(Batches(T))
           /\ \A u \in T : Within(u, b) => Within(u, ByPriority(b))
           /\ (\A k \in DOMAIN b : Fits(b[k], pool)) =>
                \A k \in DOMAIN ByPriority(b) : Fits(ByPriority(b)[k], pool)
           /\ OnceIn(T, b) => OnceIn(T, ByPriority(b))
<1> DEFINE s == ByPriority(b)
<1>1. s \in Seq(Batches(T))
  BY ByPriorityFacts
<1>2. Reordered(s, b)
  BY ByPriorityFacts
<1> HIDE DEF s
<1>3. PICK f \in [1..Len(s) -> DOMAIN b] :
        /\ \A k \in 1..Len(s) : s[k] = b[f[k]]
        /\ \A k, l \in 1..Len(s) : f[k] = f[l] => k = l
        /\ \A i \in DOMAIN b : b[i] # {} => \E k \in 1..Len(s) : f[k] = i
  BY <1>2 DEF Reordered
<1>4. DOMAIN s = 1..Len(s)
  BY <1>1
<1>5. \A k \in DOMAIN s : f[k] \in DOMAIN b /\ s[k] = b[f[k]]
  BY <1>3, <1>4
<1>6. ASSUME NEW u \in T, Within(u, b) PROVE Within(u, s)
  <2>1. PICK i \in DOMAIN b : u \in Members(b[i])
    BY <1>6 DEF Within
  <2>2. b[i] # {}
    BY <2>1 DEF Members
  <2>3. PICK k \in DOMAIN s : f[k] = i
    BY <1>3, <1>4, <2>2
  <2> QED
    BY <1>5, <2>1, <2>3 DEF Within
<1>7. ASSUME OnceIn(T, b) PROVE OnceIn(T, s)
  <2> SUFFICES ASSUME NEW t \in T, ~ t.skip, NEW i \in DOMAIN s, NEW j \in DOMAIN s,
                      t \in Members(s[i]), t \in Members(s[j])
               PROVE  i = j
    BY DEF OnceIn
  <2>1. f[i] \in DOMAIN b /\ f[j] \in DOMAIN b /\ s[i] = b[f[i]] /\ s[j] = b[f[j]]
    BY <1>5
  <2>2. t \in Members(b[f[i]]) /\ t \in Members(b[f[j]])
    BY <2>1
  <2>3. f[i] = f[j]
    BY <1>7, <2>1, <2>2 DEF OnceIn
  <2> QED
    BY <1>3, <1>4, <2>3
<1>8. (\A k \in DOMAIN b : Fits(b[k], pool)) => \A k \in DOMAIN s : Fits(s[k], pool)
  BY <1>5
<1> QED
  BY <1>1, <1>6, <1>7, <1>8 DEF s

\* The transitions of a group: whether it is parallel is the stage's, and a
\* parallel stage has one transition that runs it at most.
Proper(T) ==
    /\ Group(T)
    /\ \A t, u \in T : t.source = u.source =>
          t.parallel = u.parallel /\ (t.parallel /\ ~ t.skip /\ ~ u.skip => t = u)

\* One parallel stage with others beside it.
CrowdedIn(T) == OneParallel(T) /\ Cardinality({t.source : t \in T}) > 1

\* The sources of finitely many are finitely many.
LEMMA SourcesFinite ==
    ASSUME NEW T, IsFiniteSet(T)
    PROVE  IsFiniteSet({t.source : t \in T})
<1> DEFINE S == {t.source : t \in T}
           f == [t \in T |-> t.source]
<1>1. f \in Surjection(T, S)
  BY DEF Surjection
<1> HIDE DEF f, S
<1>2. IsFiniteSet(S)
  BY <1>1, FS_Surjection
<1> QED
  BY <1>2 DEF S

\* One batch of some transitions holds each of them once.
LEMMA OneBatch ==
    ASSUME NEW T, Group(T), NEW S \in SUBSET T
    PROVE  LET s == <<{Provisioned(t) : t \in S}>>
           IN  /\ s \in Seq(Batches(T)) /\ OnceIn(T, s)
               /\ \A t \in S : Within(t, s)
<1> DEFINE b == {Provisioned(t) : t \in S}
<1>1. b \in Batches(T)
  BY DEF Batches, Provisioned
<1>2. Members(b) = S
  BY ProvisionedMembers, Zenon DEF Provisioned
<1> HIDE DEF b
<1>3. <<b>> \in Seq(Batches(T)) /\ DOMAIN <<b>> = {1} /\ <<b>>[1] = b
  BY <1>1
<1>4. OnceIn(T, <<b>>)
  BY <1>3 DEF OnceIn
<1>5. \A t \in S : Within(t, <<b>>)
  BY <1>2, <1>3 DEF Within
<1> QED
  BY <1>3, <1>4, <1>5 DEF b

\* The partition of a group, if it does not raise: every transition that runs
\* its stage is in a batch, but in a crowded group; by priority the batches
\* fit; and otherwise, or if there are two at most, none is in two.
LEMMA PartitionFacts ==
    ASSUME NEW T, Proper(T), NEW pool \in Nat \ {0}, ~ Partition(T, pool).raised
    PROVE  /\ Partition(T, pool).batches \in Seq(Batches(T))
           /\ ~ CrowdedIn(T) => \A t \in T : ~ t.skip => Within(t, Partition(T, pool).batches)
           /\ Prioritised(T) => \A k \in DOMAIN Partition(T, pool).batches : Fits(Partition(T, pool).batches[k], pool)
           /\ ~ (Prioritised(T) /\ Cardinality(T) > 2) => OnceIn(T, Partition(T, pool).batches)
<1> DEFINE run == {t \in T : ~ t.skip}
           p == Partition(T, pool)
           Goal == /\ p.batches \in Seq(Batches(T))
                   /\ ~ CrowdedIn(T) => \A t \in T : ~ t.skip => Within(t, p.batches)
                   /\ Prioritised(T) => \A k \in DOMAIN p.batches : Fits(p.batches[k], pool)
                   /\ ~ (Prioritised(T) /\ Cardinality(T) > 2) => OnceIn(T, p.batches)
<1> SUFFICES Goal
  OBVIOUS
<1>1. Group(T) /\ IsFiniteSet(T) /\ Cardinality(T) \in Nat
  BY FS_CardinalityType DEF Proper, Group
<1>2. CASE OneParallel(T)
  <2>1. run # {} /\ p.batches = <<{Provisioned(Last(Sorted(run)))}>>
    BY <1>2 DEF Partition
  <2> DEFINE s == Sorted(run)
             t == Last(s)
             S == {t}
  <2>2. run \in SUBSET T /\ Group(run) /\ IsFiniteSet(run)
    BY <1>1, GroupPart, FS_Subset
  <2>3. t \in run
    <3> HIDE DEF run
    <3>1. s \in Seq(run) /\ Len(s) = Cardinality(run) /\ Cardinality(run) \in Nat
      BY <2>2, SortedFacts
    <3>2. Cardinality(run) # 0
      BY <2>1, <2>2, FS_EmptySet
    <3> HIDE DEF s
    <3> QED
      BY <3>1, <3>2 DEF Last
  <2> HIDE DEF t
  <2>4. {Provisioned(u) : u \in S} = {Provisioned(t)}
    OBVIOUS
  <2>5. S \in SUBSET T
    BY <2>3
  <2> HIDE DEF S
  <2>6. /\ <<{Provisioned(u) : u \in S}>> \in Seq(Batches(T)) /\ OnceIn(T, <<{Provisioned(u) : u \in S}>>)
        /\ \A u \in S : Within(u, <<{Provisioned(v) : v \in S}>>)
    BY <1>1, <2>5, OneBatch
  <2>7. p.batches = <<{Provisioned(u) : u \in S}>>
    BY <2>1, <2>4 DEF t
  <2>8. ASSUME ~ CrowdedIn(T), NEW u \in T, ~ u.skip PROVE u \in S
    <3> DEFINE sources == {v.source : v \in T}
    <3>1. IsFiniteSet(sources) /\ Cardinality(sources) \in Nat /\ Cardinality(sources) <= 1
      <4>1. IsFiniteSet(sources)
        BY <1>1, SourcesFinite
      <4> QED
        BY <1>2, <2>8, <4>1, FS_CardinalityType DEF CrowdedIn
    <3>2. PICK v \in T : v.parallel
      <4>1. ParallelSources(T) # {}
        BY <1>2, FS_EmptySet DEF OneParallel
      <4> QED
        BY <4>1 DEF ParallelSources
    <3>3. u.source \in sources /\ v.source \in sources /\ t.source \in sources
      BY <2>3
    <3> HIDE DEF sources
    <3>4. u.source = v.source /\ t.source = v.source
      <4>1. Cardinality(sources) # 0
        BY <3>1, <3>3, FS_EmptySet
      <4>3. Cardinality(sources) = 1
        BY <3>1, <4>1
      <4>2. \E x : sources = {x}
        BY <3>1, <4>3, FS_Singleton, Zenon
      <4> QED
        BY <3>3, <4>2
    <3> QED
      BY <2>3, <2>8, <3>2, <3>4 DEF Proper, S
  <2>9. ~ Prioritised(T)
    BY <1>2 DEF Prioritised
  <2> QED
    BY <2>6, <2>7, <2>8, <2>9
<1>3. CASE ~ OneParallel(T) /\ AllAuto(T)
  <2> DEFINE b == <<{Provisioned(t) : t \in run}>>
  <2>1. p.batches = ByPriority(b)
    BY <1>3 DEF Partition
  <2>2. run \in SUBSET T
    OBVIOUS
  <2>3. b \in Seq(Batches(T)) /\ OnceIn(T, b) /\ \A t \in run : Within(t, b)
    <3> HIDE DEF run
    <3> QED
      BY <1>1, <2>2, OneBatch
  <2>4. ~ Prioritised(T)
    BY <1>3 DEF Prioritised
  <2> HIDE DEF b, p
  <2> QED
    BY <1>1, <2>1, <2>3, <2>4, ByPriorityKeeps
<1>4. CASE ~ OneParallel(T) /\ ~ AllAuto(T)
  <2> DEFINE b == Prioritise(T, pool).batches
  <2>1. p.batches = ByPriority(b)
    BY <1>4 DEF Partition
  <2>2. b \in Seq(Batches(T)) /\ (\A u \in T : Within(u, b)) /\ \A k \in DOMAIN b : Fits(b[k], pool)
    BY <1>1, PrioritiseFacts DEF Acc
  <2>3. Cardinality(T) <= 2 => OnceIn(T, b)
    BY <1>1, <1>4, PairOnce DEF OneParallel
  <2> HIDE DEF b, p
  <2>4. /\ p.batches \in Seq(Batches(T)) /\ (\A u \in T : Within(u, p.batches))
        /\ \A k \in DOMAIN p.batches : Fits(p.batches[k], pool)
        /\ OnceIn(T, b) => OnceIn(T, p.batches)
    BY <1>1, <2>1, <2>2, ByPriorityKeeps
  <2>5. Prioritised(T)
    BY <1>4 DEF Prioritised
  <2> QED
    BY <1>1, <2>3, <2>4, <2>5
<1> QED
  BY <1>2, <1>3, <1>4


-----------------------------------------------------------------------------
(* The transitions of a group *)

\* What holds of the assembled graph and of what the user gives.
Inputs ==
    /\ edges \in SUBSET Edges
    /\ order \in [Nodes -> Nat]
    /\ \A e \in edges : order[e[1]] < order[e[2]]
    /\ \A n \in Nodes \ {Complete} : order[n] < order[Complete]
    /\ stages \in [Stages -> Kinds]
    /\ skipped \in SUBSET Stages

\* An edge is a pair of numbers, and does not leave Complete.
LEMMA EdgeFacts ==
    ASSUME Inputs, NEW e \in edges
    PROVE  /\ e = <<e[1], e[2]>> /\ e[1] \in Nodes /\ e[2] \in Nodes /\ e[1] < e[2]
           /\ e[1] \in Nat /\ e[2] \in Nat /\ e[1] # Complete /\ e[2] \in Stages \cup {Complete}
           /\ order[e[1]] \in Nat /\ order[e[2]] \in Nat /\ order[e[1]] \in 0..LastGroup
<1>1. e = <<e[1], e[2]>> /\ e[1] \in Nodes /\ e[2] \in Nodes /\ e[1] < e[2]
  BY DEF Inputs, Edges
<1>2. order[e[1]] \in Nat /\ order[e[2]] \in Nat /\ order[Complete] \in Nat
  BY <1>1, NodesAre DEF Inputs
<1>3. e[1] # Complete
  BY <1>1, NodesAre
<1>4. order[e[1]] < order[Complete]
  BY <1>1, <1>3 DEF Inputs
<1> QED
  BY <1>1, <1>2, <1>3, <1>4, NodesAre DEF LastGroup

\* The edges of a graph are finitely many.
LEMMA EdgesFinite ==
    ASSUME Inputs, NEW S \in SUBSET edges
    PROVE  IsFiniteSet(S) /\ Cardinality(S) \in Nat
<1>1. IsFiniteSet(Nodes)
  BY NodesAre, FS_Interval
<1>2. IsFiniteSet(Nodes \X Nodes)
  BY <1>1, FS_Product
<1>3. S \in SUBSET (Nodes \X Nodes)
  BY DEF Inputs, Edges
<1>4. IsFiniteSet(S)
  BY <1>2, <1>3, FS_Subset
<1> QED
  BY <1>4, FS_CardinalityType

\* The transition of an edge runs its stage.
RunsIt(e) == e[1] \notin skipped /\ ~ Twin(e)

\* The stages of a group, and those of them that are parallel.
Sources(g) == {e[1] : e \in GroupEdges(g)}
ParallelIn(g) == {s \in Sources(g) : s # Idle /\ stages[s].parallel}

\* How the group is partitioned, and whether a transition may run twice.
CrowdedGroup(g) == Cardinality(ParallelIn(g)) = 1 /\ Cardinality(Sources(g)) > 1
AutoGroup(g) == ParallelIn(g) # {} /\ \A s \in Sources(g) : s = Idle \/ stages[s].priority = AUTO
PrioritisedGroup(g) == Cardinality(ParallelIn(g)) # 1 /\ ~ AutoGroup(g)
MayRepeat(g) == PrioritisedGroup(g) /\ Cardinality(GroupEdges(g)) > 2

\* The transitions of the edges of one group, with places in the current one.
TransitionsOf(g) == {Transition(e) : e \in GroupEdges(g)}

\* The fields of a transition.
LEMMA TransitionFields ==
    ASSUME Inputs, NEW e \in edges
    PROVE  /\ Transition(e).source = e[1] /\ Transition(e).destination = e[2] /\ Transition(e).idx = Place(e)
           /\ (Transition(e).parallel <=> e[1] # Idle /\ stages[e[1]].parallel)
           /\ Transition(e).priority = (IF e[1] = Idle THEN AUTO ELSE stages[e[1]].priority)
           /\ (Transition(e).skip <=> ~ RunsIt(e))
           /\ EdgeOf(Transition(e)) = e
           /\ Transition(e).parallel \in BOOLEAN /\ Transition(e).skip \in BOOLEAN
           /\ Transition(e).priority \in LOW..AUTO
<1> DEFINE p == e[1] # Idle /\ stages[e[1]].parallel
           s == e[1] \in skipped \/ Twin(e)
           r == IF e[1] = Idle THEN AUTO ELSE stages[e[1]].priority
           i == Place(e)
           t == Transition(e)
<1>1. e = <<e[1], e[2]>> /\ (e[1] # Idle => e[1] \in Stages)
  BY EdgeFacts, NodesAre
<1>2. e[1] # Idle => stages[e[1]].parallel \in BOOLEAN /\ stages[e[1]].priority \in LOW..AUTO
  BY <1>1, StageGraphAssumption DEF Inputs
<1>3. r \in LOW..AUTO
  BY <1>2 DEF LOW, AUTO
<1>4. s \in BOOLEAN
  BY DEF Twin
<1>5. p \in BOOLEAN
  BY <1>2
<1>6. s <=> ~ RunsIt(e)
  BY DEF RunsIt
<1>7. t = [source |-> e[1], destination |-> e[2], idx |-> i, parallel |-> p, priority |-> r, skip |-> s]
  BY Zenon DEF Transition
<1>8. (p <=> e[1] # Idle /\ stages[e[1]].parallel) /\ r = (IF e[1] = Idle THEN AUTO ELSE stages[e[1]].priority) /\ i = Place(e)
  OBVIOUS
<1> HIDE DEF p, s, r, i, t
<1>9. /\ t.source = e[1] /\ t.destination = e[2] /\ t.idx = i /\ t.parallel = p /\ t.priority = r /\ t.skip = s
  BY <1>7
<1>10. EdgeOf(t) = e
  BY <1>1, <1>9 DEF EdgeOf
<1> QED
  BY <1>3, <1>4, <1>5, <1>6, <1>8, <1>9, <1>10 DEF t

\* Transitions and edges of a group belong to each other.
LEMMA TransitionEdges ==
    ASSUME Inputs, NEW g
    PROVE  /\ GroupEdges(g) \in SUBSET edges
           /\ \A e \in GroupEdges(g) : Transition(e) \in TransitionsOf(g) /\ EdgeOf(Transition(e)) = e
           /\ \A t \in TransitionsOf(g) : EdgeOf(t) \in GroupEdges(g) /\ t = Transition(EdgeOf(t))
<1>1. GroupEdges(g) \in SUBSET edges
  BY DEF GroupEdges
<1>2. \A e \in GroupEdges(g) : EdgeOf(Transition(e)) = e
  BY <1>1, TransitionFields
<1> QED
  BY <1>1, <1>2 DEF TransitionsOf

\* As many transitions as edges.
LEMMA TransitionsFinite ==
    ASSUME Inputs, NEW g
    PROVE  IsFiniteSet(TransitionsOf(g)) /\ Cardinality(TransitionsOf(g)) = Cardinality(GroupEdges(g))
<1> DEFINE S == GroupEdges(g)
           T == TransitionsOf(g)
           f == [e \in S |-> Transition(e)]
<1>1. IsFiniteSet(S)
  BY TransitionEdges, EdgesFinite
<1>2. f \in [S -> T] /\ \A t \in T : \E e \in S : f[e] = t
  BY DEF TransitionsOf
<1>3. \A d, e \in S : f[d] = f[e] => d = e
  <2> SUFFICES ASSUME NEW d \in S, NEW e \in S, Transition(d) = Transition(e) PROVE d = e
    OBVIOUS
  <2>1. EdgeOf(Transition(d)) = d /\ EdgeOf(Transition(e)) = e
    BY TransitionEdges
  <2> QED
    BY <2>1
<1>4. f \in Bijection(S, T)
  BY <1>2, <1>3 DEF Bijection, Injection, Surjection, IsInjective
<1>5. ExistsBijection(S, T)
  BY <1>4 DEF ExistsBijection
<1> HIDE DEF S, T
<1>6. IsFiniteSet(T) /\ Cardinality(T) = Cardinality(S)
  BY <1>1, <1>5, FS_Bijection
<1> QED
  BY <1>6 DEF S, T

\* How a group is partitioned is told by its stages.
LEMMA GroupKinds ==
    ASSUME Inputs, NEW g
    PROVE  /\ CrowdedIn(TransitionsOf(g)) <=> CrowdedGroup(g)
           /\ Prioritised(TransitionsOf(g)) <=> PrioritisedGroup(g)
<1> DEFINE T == TransitionsOf(g)
<1>1. /\ GroupEdges(g) \in SUBSET edges
      /\ \A e \in GroupEdges(g) : Transition(e) \in T
      /\ \A t \in T : EdgeOf(t) \in GroupEdges(g) /\ t = Transition(EdgeOf(t))
  BY TransitionEdges
<1>2. \A e \in GroupEdges(g) :
        /\ Transition(e).source = e[1] /\ (Transition(e).parallel <=> e[1] # Idle /\ stages[e[1]].parallel)
        /\ Transition(e).priority = (IF e[1] = Idle THEN AUTO ELSE stages[e[1]].priority)
  BY <1>1, TransitionFields
<1> HIDE DEF T
<1>3. {t.source : t \in T} = Sources(g)
  <2>1. \A t \in T : t.source \in Sources(g)
    BY <1>1, <1>2 DEF Sources
  <2>2. \A s \in Sources(g) : \E t \in T : t.source = s
    BY <1>1, <1>2 DEF Sources
  <2> QED
    BY <2>1, <2>2
<1>4. ParallelSources(T) = ParallelIn(g)
  <2>1. \A t \in T : t.parallel => t.source \in ParallelIn(g)
    BY <1>1, <1>2 DEF ParallelIn, Sources
  <2>2. \A s \in ParallelIn(g) : \E t \in T : t.parallel /\ t.source = s
    BY <1>1, <1>2 DEF ParallelIn, Sources
  <2> QED
    BY <2>1, <2>2 DEF ParallelSources
<1>5. (\A t \in T : t.priority = AUTO) <=> (\A s \in Sources(g) : s = Idle \/ stages[s].priority = AUTO)
  <2>1. ASSUME \A t \in T : t.priority = AUTO, NEW e \in GroupEdges(g)
        PROVE  e[1] = Idle \/ stages[e[1]].priority = AUTO
    BY <1>1, <1>2, <2>1
  <2>2. ASSUME \A s \in Sources(g) : s = Idle \/ stages[s].priority = AUTO, NEW t \in T PROVE t.priority = AUTO
    BY <1>1, <1>2, <2>2 DEF Sources
  <2> QED
    BY <2>1, <2>2 DEF Sources
<1>6. CrowdedIn(T) <=> CrowdedGroup(g)
  BY <1>3, <1>4, Zenon DEF CrowdedIn, CrowdedGroup, OneParallel
<1>7. Prioritised(T) <=> PrioritisedGroup(g)
  BY <1>4, <1>5, Zenon DEF Prioritised, OneParallel, AllAuto, PrioritisedGroup, AutoGroup
<1> QED
  BY <1>6, <1>7 DEF T

\* The generation of a stage, and the transitions of the current group.
LEMMA GroupsAre ==
    /\ \A s : Generation(s) = TransitionsOf(order[s])
    /\ Transitions = TransitionsOf(group)
BY DEF Generation, Transitions, TransitionsOf, GroupEdges

\* The edges of a group have places of their own.
LEMMA PlaceFacts ==
    ASSUME Inputs, NEW d \in GroupEdges(group), NEW e \in GroupEdges(group)
    PROVE  Place(d) \in Nat /\ (Place(d) = Place(e) => d = e)
<1> DEFINE S == GroupEdges(group)
           ahead(f, h) == f[1] < h[1] \/ (f[1] = h[1] /\ f[2] < h[2])
           R == {q \in S \X S : ahead(q[1], q[2])}
<1>1. S \in SUBSET edges
  BY DEF GroupEdges
<1>2. IsFiniteSet(S)
  BY <1>1, EdgesFinite
<1>3. \A f \in S : f = <<f[1], f[2]>> /\ f[1] \in Nat /\ f[2] \in Nat
  BY <1>1, EdgeFacts
<1>4. /\ \A x \in S : ~ ahead(x, x)
      /\ \A x, y, z \in S : ahead(x, y) /\ ahead(y, z) => ahead(x, z)
      /\ \A x, y \in S : x # y => ahead(x, y) \/ ahead(y, x)
  <2> HIDE DEF S
  <2>1. \A x, y \in S : x # y => x[1] # y[1] \/ x[2] # y[2]
    BY <1>3
  <2> QED
    BY <1>3, <2>1
<1>5. R \in SUBSET (S \X S) /\ \A x, y \in S : <<x, y>> \in R <=> ahead(x, y)
  OBVIOUS
<1>6. ASSUME NEW x \in S PROVE PlaceIn(S, R, x) = 1 + Place(x)
  <2>1. {y \in S : <<y, x>> \in R} = {y \in S : ahead(y, x)}
    BY <1>5
  <2> QED
    BY <2>1 DEF PlaceIn, Place
<1> HIDE DEF S, R, ahead
<1>7. /\ Cardinality(S) \in Nat
      /\ \A x \in S : PlaceIn(S, R, x) \in 1..Cardinality(S)
      /\ \A x, y \in S : <<x, y>> \in R => PlaceIn(S, R, x) < PlaceIn(S, R, y)
  <2>1. /\ \A x \in S : <<x, x>> \notin R
        /\ \A x, y, z \in S : <<x, y>> \in R /\ <<y, z>> \in R => <<x, z>> \in R
        /\ \A x, y \in S : x # y => <<x, y>> \in R \/ <<y, x>> \in R
    BY <1>4, <1>5
  <2> QED
    BY <1>2, <1>5, <2>1, Places DEF StrictOrder, Numbered
<1>8. \A x \in S : Place(x) \in Nat
  <2> SUFFICES ASSUME NEW x \in S PROVE Place(x) \in Nat
    OBVIOUS
  <2> DEFINE B == {f \in S : f[1] < x[1] \/ (f[1] = x[1] /\ f[2] < x[2])}
  <2>1. B \in SUBSET S
    OBVIOUS
  <2>2. Place(x) = Cardinality(B)
    BY DEF Place, S
  <2> HIDE DEF B
  <2>3. IsFiniteSet(B)
    BY <1>2, <2>1, FS_Subset
  <2> QED
    BY <2>2, <2>3, FS_CardinalityType
<1>9. d \in S /\ e \in S
  BY DEF S
<1>10. ASSUME Place(d) = Place(e), d # e PROVE FALSE
  <2>1. <<d, e>> \in R \/ <<e, d>> \in R
    BY <1>4, <1>5, <1>9, <1>10
  <2>2. PlaceIn(S, R, d) = PlaceIn(S, R, e)
    BY <1>6, <1>9, <1>10
  <2>3. PlaceIn(S, R, d) < PlaceIn(S, R, e) \/ PlaceIn(S, R, e) < PlaceIn(S, R, d)
    BY <1>7, <1>9, <2>1
  <2> QED
    BY <1>7, <1>9, <2>2, <2>3
<1> QED
  BY <1>8, <1>9, <1>10

\* So the transitions of the current group are a group.
LEMMA TransitionsProper ==
    ASSUME Inputs
    PROVE  Proper(Transitions)
<1> DEFINE S == GroupEdges(group)
           T == TransitionsOf(group)
<1>1. /\ S \in SUBSET edges
      /\ \A t \in T : EdgeOf(t) \in S /\ t = Transition(EdgeOf(t))
  BY TransitionEdges
<1>2. ASSUME NEW e \in S PROVE Transition(e) \in Trans
  <2>1. Place(e) \in Nat
    BY PlaceFacts
  <2>2. e \in edges /\ e[1] \in Nat /\ e[2] \in Nat
    BY <1>1, EdgeFacts
  <2> DEFINE t == Transition(e)
  <2>3. \E a, b, c, x, y, z : t = [source |-> a, destination |-> b, idx |-> c, parallel |-> x, priority |-> y, skip |-> z]
    BY DEF Transition
  <2>4. /\ t.source \in Nat /\ t.destination \in Nat /\ t.idx \in Nat /\ t.parallel \in BOOLEAN
        /\ t.priority \in LOW..AUTO /\ t.skip \in BOOLEAN
    BY <2>1, <2>2, TransitionFields
  <2> HIDE DEF t
  <2>5. t \in Trans
    BY <2>3, <2>4 DEF Trans
  <2> QED
    BY <2>5 DEF t
<1>3. ASSUME NEW d \in S, NEW e \in S PROVE Transition(d).idx = Transition(e).idx => d = e
  BY <1>1, PlaceFacts, TransitionFields
<1>4. ASSUME NEW d \in S, NEW e \in S, Transition(d).source = Transition(e).source
      PROVE  /\ Transition(d).parallel = Transition(e).parallel
             /\ Transition(d).parallel /\ ~ Transition(d).skip /\ ~ Transition(e).skip => d = e
  <2>1. d \in edges /\ e \in edges /\ d[1] = e[1]
    BY <1>1, <1>4, TransitionFields
  <2>2. Transition(d).parallel = Transition(e).parallel
    BY <2>1, TransitionFields
  <2>3. ASSUME Transition(d).parallel, ~ Transition(d).skip, ~ Transition(e).skip PROVE d = e
    <3>1. d[1] # Idle /\ ~ Twin(d) /\ ~ Twin(e)
      BY <2>1, <2>3, TransitionFields DEF RunsIt
    <3>2. d = <<d[1], d[2]>> /\ e = <<e[1], e[2]>> /\ d[2] \in Nodes /\ e[2] \in Nodes /\ d[2] \in Nat /\ e[2] \in Nat
      BY <2>1, EdgeFacts
    <3>3. d[2] \in After(edges, e[1]) /\ e[2] \in After(edges, d[1])
      BY <2>1, <3>2 DEF After
    <3>4. ~ (d[2] < e[2]) /\ ~ (e[2] < d[2])
      BY <2>1, <3>1, <3>3 DEF Twin
    <3>5. d[2] = e[2]
      BY <3>2, <3>4
    <3> QED
      BY <2>1, <3>2, <3>5
  <2> QED
    BY <2>2, <2>3
<1>5. IsFiniteSet(T)
  BY TransitionsFinite
<1>6. T \in SUBSET Trans
  BY <1>1, <1>2
<1>7. \A t, u \in T : t.idx = u.idx => t = u
  <2> SUFFICES ASSUME NEW t \in T, NEW u \in T, t.idx = u.idx PROVE t = u
    OBVIOUS
  <2>1. /\ EdgeOf(t) \in S /\ t = Transition(EdgeOf(t))
        /\ EdgeOf(u) \in S /\ u = Transition(EdgeOf(u))
    BY <1>1
  <2>2. EdgeOf(t) = EdgeOf(u)
    BY <1>3, <2>1
  <2> QED
    BY <2>1, <2>2
<1>8. \A t, u \in T : t.source = u.source =>
        t.parallel = u.parallel /\ (t.parallel /\ ~ t.skip /\ ~ u.skip => t = u)
  <2> SUFFICES ASSUME NEW t \in T, NEW u \in T, t.source = u.source
               PROVE  t.parallel = u.parallel /\ (t.parallel /\ ~ t.skip /\ ~ u.skip => t = u)
    OBVIOUS
  <2> DEFINE d == EdgeOf(t)
             e == EdgeOf(u)
  <2>1. d \in S /\ t = Transition(d) /\ e \in S /\ u = Transition(e)
    BY <1>1
  <2> HIDE DEF d, e
  <2>2. Transition(d).source = Transition(e).source
    BY <2>1
  <2> QED
    BY <1>4, <2>1, <2>2
<1> HIDE DEF T
<1>9. Proper(T)
  BY <1>5, <1>6, <1>7, <1>8 DEF Proper, Group
<1> QED
  BY <1>9, GroupsAre DEF T


-----------------------------------------------------------------------------
(* The invariant *)

\* What a transition that ran its stage handed on.
Pairs(e) ==
    IF e[1] # Idle /\ e[2] # Complete THEN {<<e[1], d>> : d \in After(edges, e[1])} ELSE {}

\* The group is done with.
IsPast(g) == g < group \/ (g = group /\ status = "COMPLETE")

\* There are tasks and batches only while the batches of a group run, and the
\* last group is the one that completes a graph.
Phases ==
    /\ status = "COMPLETE" => group = LastGroup
    /\ phase = "sort" => DOMAIN tasks = {} /\ batched = <<>>
    /\ status # "RUNNING" => DOMAIN tasks = {}

\* The batches that are left fit, and a transition that cannot repeat is in
\* one of them at most, and then it was not executed.
BatchesLeft ==
    /\ batched \in Seq(Batches(Transitions))
    /\ PrioritisedGroup(group) => \A i \in DOMAIN batched : Fits(batched[i], Pool)
    /\ ~ MayRepeat(group) =>
         /\ OnceIn(Transitions, batched)
         /\ \A i \in DOMAIN batched : \A t \in Members(batched[i]) : ~ t.skip => executed[EdgeOf(t)] = 0

\* A past group had no exception, and each of its transitions that run their
\* stage did so and handed on the results, but in a crowded group.
PastGroups ==
    \A e \in edges : IsPast(order[e[1]]) =>
        /\ exception[e] = "none"
        /\ RunsIt(e) /\ ~ CrowdedGroup(order[e[1]]) => executed[e] > 0 /\ Pairs(e) \subseteq got

\* A transition of the current group that runs its stage is yet to be started,
\* is running, or has run.
PresentGroup ==
    phase = "execute" => \A e \in GroupEdges(group) : RunsIt(e) /\ ~ CrowdedGroup(group) =>
        \/ Within(Transition(e), batched)
        \/ Transition(e) \in DOMAIN tasks
        \/ executed[e] > 0 /\ (exception[e] # "none" \/ Pairs(e) \subseteq got)

\* Groups to come have executed nothing.
FutureGroups ==
    \A e \in edges : order[e[1]] > group \/ (order[e[1]] = group /\ phase = "sort") => executed[e] = 0

\* What is executed and how often.
Executions ==
    /\ \A t \in DOMAIN tasks : executed[EdgeOf(t)] > 0
    /\ \A e \in edges : RunsIt(e) /\ ~ MayRepeat(order[e[1]]) => executed[e] <= 1

GraphInv ==
    /\ Inputs /\ GraphTypeOK /\ Phases /\ BatchesLeft /\ PastGroups /\ PresentGroup
    /\ FutureGroups /\ Executions

\* What is a matter of the inputs alone does not change with the rest.
LEMMA InputSame ==
    ASSUME UNCHANGED input
    PROVE  /\ edges' = edges /\ order' = order /\ stages' = stages /\ skipped' = skipped
           /\ (Inputs => Inputs') /\ LastGroup' = LastGroup
           /\ \A g : /\ GroupEdges(g)' = GroupEdges(g)
                     /\ (CrowdedGroup(g)' <=> CrowdedGroup(g))
                     /\ (PrioritisedGroup(g)' <=> PrioritisedGroup(g)) /\ (MayRepeat(g)' <=> MayRepeat(g))
           /\ \A e : (RunsIt(e)' <=> RunsIt(e)) /\ Pairs(e)' = Pairs(e)
<1>1. edges' = edges /\ order' = order /\ stages' = stages /\ skipped' = skipped
  BY DEF input
<1>2. (Inputs => Inputs') /\ LastGroup' = LastGroup
  BY <1>1 DEF Inputs, LastGroup
<1>3. ASSUME NEW g
      PROVE  /\ GroupEdges(g)' = GroupEdges(g)
             /\ (CrowdedGroup(g)' <=> CrowdedGroup(g))
             /\ (PrioritisedGroup(g)' <=> PrioritisedGroup(g)) /\ (MayRepeat(g)' <=> MayRepeat(g))
  <2>1. GroupEdges(g)' = GroupEdges(g)
    BY <1>1 DEF GroupEdges
  <2>2. Sources(g)' = Sources(g)
    BY <2>1 DEF Sources
  <2>3. ParallelIn(g)' = ParallelIn(g)
    BY <1>1, <2>2 DEF ParallelIn
  <2>4. AutoGroup(g)' <=> AutoGroup(g)
    BY <1>1, <2>2, <2>3 DEF AutoGroup
  <2>5. (CrowdedGroup(g)' <=> CrowdedGroup(g)) /\ (PrioritisedGroup(g)' <=> PrioritisedGroup(g))
    BY <2>2, <2>3, <2>4 DEF CrowdedGroup, PrioritisedGroup
  <2> QED
    BY <2>1, <2>5 DEF MayRepeat
<1>4. ASSUME NEW e PROVE (RunsIt(e)' <=> RunsIt(e)) /\ Pairs(e)' = Pairs(e)
  BY <1>1 DEF RunsIt, Twin, Pairs, After
<1> QED
  BY <1>1, <1>2, <1>3, <1>4

\* The transitions of the group do not change if the group does not.
LEMMA GroupSame ==
    ASSUME UNCHANGED input, group' = group
    PROVE  /\ \A e : Transition(e)' = Transition(e)
           /\ Transitions' = Transitions
<1>1. edges' = edges /\ order' = order /\ stages' = stages /\ skipped' = skipped
  BY DEF input
<1>2. ASSUME NEW e PROVE Transition(e)' = Transition(e)
  BY <1>1 DEF Transition, Place, GroupEdges, Twin, After
<1>3. GroupEdges(group)' = GroupEdges(group)
  BY <1>1 DEF GroupEdges
<1> QED
  BY <1>2, <1>3 DEF Transitions

\* The invariant holds of a new graph, whatever there was before.
LEMMA NewGraphHolds ==
    ASSUME Inputs', GraphTypeOK', status' = "ASSEMBLING", group' = 0, phase' = "sort", batched' = <<>>,
           DOMAIN tasks' = {}, executed' = [e \in edges' |-> 0]
    PROVE  GraphInv'
<1>1. Phases'
  BY DEF Phases
<1>2. DOMAIN <<>> = {} /\ <<>> \in Seq(Batches(Transitions'))
  OBVIOUS
<1>3. BatchesLeft'
  BY <1>2 DEF BatchesLeft, OnceIn
<1>4. \A e \in edges' : order'[e[1]] \in Nat
  BY NodesAre DEF Inputs, Edges
<1>5. PastGroups'
  BY <1>4 DEF PastGroups, IsPast
<1>6. PresentGroup' /\ FutureGroups'
  BY DEF PresentGroup, FutureGroups
<1>7. Executions'
  BY DEF Executions
<1> QED
  BY <1>1, <1>3, <1>5, <1>6, <1>7 DEF GraphInv

\* The invariant holds of the first graph.
LEMMA GraphStarts == GraphInit => GraphInv
<1> SUFFICES ASSUME GraphInit PROVE GraphInv
  OBVIOUS
<1>1. PICK deps \in Shapes : edges = Assembled(deps)
  BY DEF GraphInit
<1>2. order = Generations(edges)
  BY DEF GraphInit
<1>3. /\ edges \in SUBSET Edges
      /\ order \in [Nodes -> Nat]
      /\ \A e \in edges : order[e[1]] < order[e[2]]
      /\ \A n \in Nodes \ {Complete} : order[n] < order[Complete]
  BY <1>1, <1>2, AssembledFacts
<1>4. Inputs
  BY <1>3 DEF Inputs, GraphInit
<1>5. 0 \in 0..LastGroup
  <2>1. Idle \in Nodes \ {Complete} /\ Complete \in Nodes
    BY NodesAre
  <2>2. order[Idle] \in Nat /\ order[Complete] \in Nat /\ order[Idle] < order[Complete]
    BY <1>3, <2>1
  <2> QED
    BY <2>2 DEF LastGroup
<1>6. /\ status = "ASSEMBLING" /\ group = 0 /\ phase = "sort" /\ batched = <<>> /\ tasks = <<>>
      /\ exception = [e \in edges |-> "none"] /\ executed = [e \in edges |-> 0] /\ got = {}
      /\ attempt = 0 /\ exit = NotYet
  BY DEF GraphInit
<1>7. DOMAIN tasks = {}
  BY <1>6
<1>8. GraphTypeOK
  BY <1>5, <1>6, <1>7 DEF GraphTypeOK
<1>9. Phases
  BY <1>6, <1>7 DEF Phases
<1>10. DOMAIN <<>> = {} /\ <<>> \in Seq(Batches(Transitions))
  OBVIOUS
<1>11. BatchesLeft
  BY <1>6, <1>10 DEF BatchesLeft, OnceIn
<1>12. \A e \in edges : order[e[1]] \in Nat
  BY <1>4, EdgeFacts
<1>13. PastGroups
  BY <1>6, <1>12 DEF PastGroups, IsPast
<1>14. PresentGroup /\ FutureGroups
  BY <1>6 DEF PresentGroup, FutureGroups
<1>15. Executions
  BY <1>6, <1>7 DEF Executions
<1> QED
  BY <1>4, <1>8, <1>9, <1>11, <1>13, <1>14, <1>15 DEF GraphInv

\* The start of run() keeps the invariant.
LEMMA RunKeeps ==
    ASSUME GraphInv, Run
    PROVE  GraphInv'
<1>1. UNCHANGED input /\ group' = group /\ phase' = phase /\ batched' = batched /\ tasks' = tasks
  BY DEF Run, input
<1>2. exception' = exception /\ executed' = executed /\ got' = got /\ attempt' = attempt /\ exit' = exit
  BY DEF Run
<1>3. status = "ASSEMBLING" /\ status' = "RUNNING"
  BY DEF Run
<1>4. Transitions' = Transitions /\ \A e : Transition(e)' = Transition(e)
  BY <1>1, GroupSame
<1> USE <1>1, <1>2, <1>3, <1>4, InputSame DEF GraphInv
<1>5. Inputs' /\ GraphTypeOK'
  BY DEF GraphTypeOK
<1>6. Phases'
  BY DEF Phases
<1>7. BatchesLeft'
  BY DEF BatchesLeft
<1>8. PastGroups'
  BY DEF PastGroups, IsPast
<1>9. PresentGroup'
  BY DEF PresentGroup
<1>10. FutureGroups' /\ Executions'
  BY DEF FutureGroups, Executions
<1> QED
  BY <1>5, <1>6, <1>7, <1>8, <1>9, <1>10 DEF GraphInv


\* Forming the batches of a group keeps the invariant.
LEMMA SortAndMapKeeps ==
    ASSUME GraphInv, SortAndMap
    PROVE  GraphInv'
<1> DEFINE partition == Partition(Transitions, Pool)
<1>1. UNCHANGED input /\ group' = group /\ tasks' = tasks
  BY DEF SortAndMap, input
<1>2. exception' = exception /\ executed' = executed /\ got' = got /\ attempt' = attempt /\ exit' = exit
  BY DEF SortAndMap
<1>3. status = "RUNNING" /\ phase = "sort"
  BY DEF SortAndMap
<1>4. Transitions' = Transitions /\ \A e : Transition(e)' = Transition(e)
  BY <1>1, GroupSame
<1>5. \/ partition.raised /\ status' = "RAISED" /\ phase' = phase /\ batched' = batched
      \/ ~ partition.raised /\ phase' = "execute" /\ batched' = partition.batches /\ status' = status
  BY DEF SortAndMap
<1>6. Inputs /\ GraphTypeOK /\ Phases /\ BatchesLeft /\ PastGroups /\ PresentGroup /\ FutureGroups /\ Executions
  BY DEF GraphInv
<1> HIDE DEF partition
<1>7. Inputs'
  BY <1>1, <1>6, InputSame
<1>8. Phases' /\ DOMAIN tasks = {}
  BY <1>1, <1>3, <1>5, <1>6 DEF Phases
<1>9. PastGroups'
  BY <1>1, <1>2, <1>3, <1>5, <1>6, InputSame DEF PastGroups, IsPast
<1>10. FutureGroups' /\ Executions'
  BY <1>1, <1>2, <1>3, <1>5, <1>6, InputSame DEF FutureGroups, Executions
<1>11. GraphTypeOK'
  BY <1>1, <1>2, <1>3, <1>4, <1>5, <1>6, InputSame DEF GraphTypeOK
<1>12. CASE partition.raised /\ status' = "RAISED" /\ phase' = phase /\ batched' = batched
  <2>1. BatchesLeft'
    BY <1>1, <1>2, <1>4, <1>6, <1>12, InputSame DEF BatchesLeft
  <2>2. PresentGroup'
    BY <1>3, <1>12 DEF PresentGroup
  <2> QED
    BY <1>7, <1>8, <1>9, <1>10, <1>11, <2>1, <2>2 DEF GraphInv
<1>13. CASE ~ partition.raised /\ phase' = "execute" /\ batched' = partition.batches /\ status' = status
  <2> DEFINE T == Transitions
  <2>1. T = TransitionsOf(group) /\ Proper(T) /\ Pool \in Nat \ {0}
    BY <1>6, GroupsAre, TransitionsProper, StageGraphAssumption
  <2>2. /\ CrowdedIn(T) <=> CrowdedGroup(group)
        /\ Prioritised(T) <=> PrioritisedGroup(group)
        /\ Cardinality(T) = Cardinality(GroupEdges(group))
    BY <1>6, <2>1, GroupKinds, TransitionsFinite
  <2> HIDE DEF T
  <2>3. /\ batched' \in Seq(Batches(T))
        /\ ~ CrowdedIn(T) => \A t \in T : ~ t.skip => Within(t, batched')
        /\ Prioritised(T) => \A k \in DOMAIN batched' : Fits(batched'[k], Pool)
        /\ ~ (Prioritised(T) /\ Cardinality(T) > 2) => OnceIn(T, batched')
    BY <1>13, <2>1, PartitionFacts DEF partition, T
  <2>4. \A e \in GroupEdges(group) : executed[e] = 0
    BY <1>3, <1>6 DEF FutureGroups, GroupEdges
  <2>5. \A i \in DOMAIN batched' : \A t \in Members(batched'[i]) : t \in T
    <3>1. \A i \in DOMAIN batched' : batched'[i] \in Batches(T)
      BY <2>3
    <3> QED
      BY <3>1 DEF Batches, Members
  <2>6. \A t \in T : executed[EdgeOf(t)] = 0
    BY <1>6, <2>1, <2>4, TransitionEdges
  <2>7. BatchesLeft'
    <3>1. batched' \in Seq(Batches(Transitions'))
      BY <1>4, <2>3 DEF T
    <3>2. PrioritisedGroup(group)' => \A i \in DOMAIN batched' : Fits(batched'[i], Pool)
      BY <1>1, <2>2, <2>3, InputSame
    <3>3. ASSUME ~ MayRepeat(group)'
          PROVE  /\ OnceIn(Transitions', batched')
                 /\ \A i \in DOMAIN batched' : \A t \in Members(batched'[i]) : ~ t.skip => executed'[EdgeOf(t)] = 0
      <4>1. ~ MayRepeat(group)
        BY <1>1, <3>3, InputSame
      <4>2. OnceIn(T, batched')
        BY <2>2, <2>3, <4>1 DEF MayRepeat
      <4> QED
        BY <1>2, <1>4, <2>5, <2>6, <4>2 DEF T
    <3> QED
      BY <3>1, <3>2, <3>3 DEF BatchesLeft
  <2>8. PresentGroup'
    <3> SUFFICES ASSUME NEW e \in GroupEdges(group), RunsIt(e), ~ CrowdedGroup(group)
                 PROVE  Within(Transition(e), batched')
      BY <1>1, <1>4, InputSame DEF PresentGroup
    <3>1. Transition(e) \in T /\ e \in edges
      BY <1>6, <2>1, TransitionEdges
    <3>2. ~ Transition(e).skip
      BY <1>6, <3>1, TransitionFields
    <3> QED
      BY <2>2, <2>3, <3>1, <3>2
  <2> QED
    BY <1>7, <1>8, <1>9, <1>10, <1>11, <2>7, <2>8 DEF GraphInv
<1> QED
  BY <1>5, <1>12, <1>13

\* What is first in a sequence and what follows.
LEMMA HeadAndTail ==
    ASSUME NEW S, NEW s \in Seq(S), s # <<>>
    PROVE  /\ Head(s) = s[1] /\ Len(s) \in Nat \ {0} /\ 1 \in DOMAIN s /\ Head(s) \in S
           /\ Tail(s) \in Seq(S) /\ DOMAIN Tail(s) = 1..(Len(s) - 1)
           /\ \A i \in DOMAIN Tail(s) : i + 1 \in DOMAIN s /\ Tail(s)[i] = s[i + 1]
           /\ \A i \in DOMAIN s : i = 1 \/ (i - 1 \in DOMAIN Tail(s) /\ Tail(s)[i - 1] = s[i])
<1>1. Len(s) \in Nat /\ Len(s) # 0 /\ DOMAIN s = 1..Len(s) /\ Head(s) = s[1]
  OBVIOUS
<1>2. Head(s) \in S /\ Tail(s) \in Seq(S) /\ Len(Tail(s)) = Len(s) - 1
  BY HeadTailProperties
<1>3. DOMAIN Tail(s) = 1..(Len(s) - 1)
  BY <1>2
<1>4. \A i \in 1..(Len(s) - 1) : Tail(s)[i] = s[i + 1]
  BY <1>1, HeadTailProperties
<1>5. \A i \in 1..(Len(s) - 1) : i + 1 \in 1..Len(s)
  BY <1>1
<1>6. \A i \in 1..Len(s) : i = 1 \/ (i - 1 \in 1..(Len(s) - 1) /\ (i - 1) + 1 = i)
  BY <1>1
<1>7. ASSUME NEW i \in DOMAIN s, i # 1 PROVE i - 1 \in DOMAIN Tail(s) /\ Tail(s)[i - 1] = s[i]
  <2>1. i - 1 \in 1..(Len(s) - 1) /\ (i - 1) + 1 = i
    BY <1>1, <1>6, <1>7
  <2>2. Tail(s)[i - 1] = s[(i - 1) + 1]
    BY <1>4, <2>1
  <2> QED
    BY <1>3, <2>1, <2>2
<1> QED
  BY <1>1, <1>2, <1>3, <1>4, <1>5, <1>7

\* The start of the next batch keeps the invariant.
LEMMA StartBatchKeeps ==
    ASSUME GraphInv, StartBatch
    PROVE  GraphInv'
<1> DEFINE batch == Members(Head(batched))
           T == Transitions
<1>1. UNCHANGED input /\ group' = group /\ phase' = phase /\ status' = status
  BY DEF StartBatch, input
<1>2. exception' = exception /\ got' = got /\ attempt' = attempt /\ exit' = exit
  BY DEF StartBatch
<1>3. /\ status = "RUNNING" /\ phase = "execute" /\ DOMAIN tasks = {} /\ batched # <<>>
      /\ tasks' = [t \in batch |-> 0] /\ batched' = Tail(batched)
      /\ executed' = [e \in edges |-> executed[e] + (IF \E t \in batch : EdgeOf(t) = e THEN 1 ELSE 0)]
  BY DEF StartBatch, Members
<1>4. Transitions' = T /\ \A e : Transition(e)' = Transition(e)
  BY <1>1, GroupSame
<1>5. Inputs /\ GraphTypeOK /\ Phases /\ BatchesLeft /\ PastGroups /\ PresentGroup /\ FutureGroups /\ Executions
  BY DEF GraphInv
<1>6. T = TransitionsOf(group) /\ \A t \in T : EdgeOf(t) \in GroupEdges(group) /\ t = Transition(EdgeOf(t))
  BY <1>5, GroupsAre, TransitionEdges
<1>7. GroupEdges(group) \in SUBSET edges /\ \A e \in GroupEdges(group) : order[e[1]] = group
  BY DEF GroupEdges
<1> HIDE DEF T
<1>8. /\ batched \in Seq(Batches(T)) /\ Head(batched) = batched[1] /\ Len(batched) \in Nat \ {0}
      /\ 1 \in DOMAIN batched /\ Head(batched) \in Batches(T)
      /\ Tail(batched) \in Seq(Batches(T)) /\ DOMAIN Tail(batched) = 1..(Len(batched) - 1)
      /\ \A i \in DOMAIN Tail(batched) : i + 1 \in DOMAIN batched /\ Tail(batched)[i] = batched[i + 1]
      /\ \A i \in DOMAIN batched : i = 1 \/ (i - 1 \in DOMAIN Tail(batched) /\ Tail(batched)[i - 1] = batched[i])
  <2>1. batched \in Seq(Batches(T)) /\ batched # <<>>
    BY <1>3, <1>5 DEF BatchesLeft, T
  <2> QED
    BY <2>1, HeadAndTail
<1>9. batch \in SUBSET T
  BY <1>8 DEF Members, Batches
<1>10. batch = Members(batched[1]) /\ DOMAIN tasks' = batch
  BY <1>3, <1>8
<1> HIDE DEF batch
<1>11. \A e \in edges : executed[e] \in Nat /\ executed'[e] \in Nat /\ executed'[e] >= executed[e]
  BY <1>3, <1>5 DEF GraphTypeOK
<1>12. Inputs'
  BY <1>1, <1>5, InputSame
<1>13. GraphTypeOK'
  <2>1. executed' \in [edges -> Nat]
    BY <1>3, <1>11
  <2> QED
    BY <1>1, <1>2, <1>4, <1>5, <1>9, <1>10, <2>1, InputSame DEF GraphTypeOK
<1>14. Phases'
  BY <1>1, <1>3 DEF Phases
<1>15. ASSUME NEW i \in DOMAIN batched', NEW t \in Members(batched'[i])
       PROVE  i + 1 \in DOMAIN batched /\ t \in Members(batched[i + 1]) /\ t \in T
  <2>1. i + 1 \in DOMAIN batched /\ t \in Members(batched[i + 1])
    BY <1>3, <1>8, <1>15
  <2>2. batched[i + 1] \in Batches(T)
    BY <1>8, <2>1
  <2> QED
    BY <2>1, <2>2 DEF Members, Batches
<1>16. BatchesLeft'
  <2>1. batched' \in Seq(Batches(Transitions'))
    BY <1>3, <1>4, <1>8
  <2>2. PrioritisedGroup(group)' => \A i \in DOMAIN batched' : Fits(batched'[i], Pool)
    BY <1>1, <1>3, <1>5, <1>8, InputSame DEF BatchesLeft
  <2>3. ASSUME ~ MayRepeat(group)'
        PROVE  /\ OnceIn(Transitions', batched')
               /\ \A i \in DOMAIN batched' : \A t \in Members(batched'[i]) : ~ t.skip => executed'[EdgeOf(t)] = 0
    <3>1. /\ OnceIn(T, batched)
          /\ \A i \in DOMAIN batched : \A t \in Members(batched[i]) : ~ t.skip => executed[EdgeOf(t)] = 0
      BY <1>1, <1>5, <2>3, InputSame DEF BatchesLeft, T
    <3>2. OnceIn(T, batched')
      <4> SUFFICES ASSUME NEW t \in T, ~ t.skip, NEW i \in DOMAIN batched', NEW j \in DOMAIN batched',
                          t \in Members(batched'[i]), t \in Members(batched'[j])
                   PROVE  i = j
        BY DEF OnceIn
      <4>1. i + 1 \in DOMAIN batched /\ t \in Members(batched[i + 1])
        BY <1>15
      <4>2. j + 1 \in DOMAIN batched /\ t \in Members(batched[j + 1])
        BY <1>15
      <4>3. i + 1 = j + 1
        BY <3>1, <4>1, <4>2 DEF OnceIn
      <4>4. i \in Nat /\ j \in Nat
        BY <1>3, <1>8
      <4> QED
        BY <4>3, <4>4
    <3>3. ASSUME NEW i \in DOMAIN batched', NEW t \in Members(batched'[i]), ~ t.skip
          PROVE  executed'[EdgeOf(t)] = 0
      <4>1. i + 1 \in DOMAIN batched /\ t \in Members(batched[i + 1]) /\ t \in T
        BY <1>15
      <4>2. executed[EdgeOf(t)] = 0
        BY <3>1, <3>3, <4>1
      <4>3. t \notin batch
        <5> SUFFICES ASSUME t \in batch PROVE FALSE
          OBVIOUS
        <5>1. i + 1 = 1
          BY <1>8, <1>10, <3>1, <3>3, <4>1 DEF OnceIn
        <5>2. i \in Nat /\ i >= 1
          BY <1>3, <1>8
        <5> QED
          BY <5>1, <5>2
      <4>4. ~ \E u \in batch : EdgeOf(u) = EdgeOf(t)
        BY <1>6, <1>9, <4>1, <4>3
      <4>5. EdgeOf(t) \in edges
        BY <1>6, <1>7, <4>1
      <4> QED
        BY <1>3, <4>2, <4>4, <4>5
    <3> QED
      BY <1>4, <3>2, <3>3
  <2> QED
    BY <2>1, <2>2, <2>3 DEF BatchesLeft
<1>17. PastGroups'
  <2> SUFFICES ASSUME NEW e \in edges, IsPast(order[e[1]])
               PROVE  /\ exception[e] = "none"
                      /\ RunsIt(e) /\ ~ CrowdedGroup(order[e[1]]) => executed'[e] > 0 /\ Pairs(e) \subseteq got
    BY <1>1, <1>2, InputSame DEF PastGroups, IsPast
  <2> QED
    BY <1>5, <1>11 DEF PastGroups
<1>18. PresentGroup'
  <2> SUFFICES ASSUME NEW e \in GroupEdges(group), RunsIt(e), ~ CrowdedGroup(group)
               PROVE  \/ Within(Transition(e), batched')
                      \/ Transition(e) \in DOMAIN tasks'
                      \/ executed'[e] > 0 /\ (exception[e] # "none" \/ Pairs(e) \subseteq got)
    BY <1>1, <1>2, <1>4, InputSame DEF PresentGroup
  <2>1. \/ Within(Transition(e), batched)
        \/ executed[e] > 0 /\ (exception[e] # "none" \/ Pairs(e) \subseteq got)
    BY <1>3, <1>5 DEF PresentGroup
  <2>2. CASE Within(Transition(e), batched)
    <3>1. PICK k \in DOMAIN batched : Transition(e) \in Members(batched[k])
      BY <2>2 DEF Within
    <3>2. CASE k = 1
      BY <1>10, <3>1, <3>2
    <3>3. CASE k - 1 \in DOMAIN Tail(batched) /\ Tail(batched)[k - 1] = batched[k]
      BY <1>3, <3>1, <3>3 DEF Within
    <3> QED
      BY <1>8, <3>2, <3>3
  <2>3. CASE executed[e] > 0 /\ (exception[e] # "none" \/ Pairs(e) \subseteq got)
    BY <1>7, <1>11, <2>3
  <2> QED
    BY <2>1, <2>2, <2>3
<1>19. ASSUME NEW e \in edges, order[e[1]] # group PROVE executed'[e] = executed[e]
  <2>1. ~ \E t \in batch : EdgeOf(t) = e
    BY <1>6, <1>7, <1>9, <1>19
  <2>2. executed[e] \in Nat
    BY <1>11
  <2> QED
    BY <1>3, <2>1, <2>2
<1>20. FutureGroups'
  <2> SUFFICES ASSUME NEW e \in edges, order[e[1]] > group PROVE executed'[e] = 0
    BY <1>1, <1>3, InputSame DEF FutureGroups
  <2>1. order[e[1]] \in Nat /\ group \in Nat
    BY <1>5, EdgeFacts DEF GraphTypeOK
  <2>2. order[e[1]] # group
    BY <2>1
  <2> QED
    BY <1>5, <1>19, <2>2 DEF FutureGroups
<1>21. Executions'
  <2>1. ASSUME NEW t \in batch PROVE executed'[EdgeOf(t)] > 0
    <3>1. EdgeOf(t) \in edges
      BY <1>6, <1>7, <1>9
    <3> QED
      BY <1>3, <1>11, <3>1
  <2>2. ASSUME NEW e \in edges, RunsIt(e), ~ MayRepeat(order[e[1]]) PROVE executed'[e] <= 1
    <3>1. executed[e] <= 1 /\ executed[e] \in Nat
      BY <1>5, <1>11, <2>2 DEF Executions
    <3>2. CASE \E t \in batch : EdgeOf(t) = e
      <4>1. PICK t \in batch : EdgeOf(t) = e
        BY <3>2
      <4>2. t \in T /\ e \in GroupEdges(group) /\ t = Transition(e) /\ order[e[1]] = group
        BY <1>6, <1>7, <1>9, <4>1
      <4>3. ~ t.skip
        BY <1>5, <2>2, <4>2, TransitionFields
      <4>4. executed[e] = 0
        BY <1>5, <1>8, <1>10, <2>2, <4>1, <4>2, <4>3 DEF BatchesLeft
      <4> QED
        BY <1>3, <4>4
    <3>3. CASE ~ \E t \in batch : EdgeOf(t) = e
      BY <1>3, <3>1, <3>3
    <3> QED
      BY <3>2, <3>3
  <2> QED
    BY <1>1, <1>10, <2>1, <2>2, InputSame DEF Executions
<1> QED
  BY <1>12, <1>13, <1>14, <1>16, <1>17, <1>18, <1>20, <1>21 DEF GraphInv


\* The end of a try of a transition keeps the invariant.
LEMMA EndTryKeeps ==
    ASSUME GraphInv, NEW t \in DOMAIN tasks, NEW outcome \in {"none", "error", "killed"}, EndTry(t, outcome)
    PROVE  GraphInv'
<1> DEFINE T == Transitions
           d == EdgeOf(t)
           raised == IF outcome = "none" THEN exception[d] ELSE outcome
<1>1. UNCHANGED input /\ group' = group /\ phase' = phase /\ status' = status /\ batched' = batched
  BY DEF EndTry, input
<1>2. executed' = executed /\ attempt' = attempt /\ exit' = exit
  BY DEF EndTry
<1>3. exception' = [exception EXCEPT ![d] = raised]
  BY DEF EndTry
<1>4. IF LastTry(t, raised)
      THEN tasks' = [u \in DOMAIN tasks \ {t} |-> tasks[u]] /\ got' = got \cup Delivered(t, raised)
      ELSE tasks' = [tasks EXCEPT ![t] = @ + 1] /\ got' = got
  BY Zenon DEF EndTry
<1>5. Inputs /\ GraphTypeOK /\ Phases /\ BatchesLeft /\ PastGroups /\ PresentGroup /\ FutureGroups /\ Executions
  BY DEF GraphInv
<1>6. Transitions' = T /\ \A e : Transition(e)' = Transition(e)
  BY <1>1, GroupSame
<1>7. status = "RUNNING" /\ phase # "sort"
  BY <1>5 DEF Phases
<1>8. T = TransitionsOf(group) /\ t \in T
  BY <1>5, GroupsAre DEF GraphTypeOK
<1>9. d \in GroupEdges(group) /\ t = Transition(d) /\ d \in edges /\ order[d[1]] = group
  <2>1. d \in GroupEdges(group) /\ t = Transition(d)
    BY <1>5, <1>8, TransitionEdges
  <2> QED
    BY <2>1 DEF GroupEdges
<1>10. t.source = d[1] /\ t.destination = d[2] /\ (t.skip <=> ~ RunsIt(d))
  BY <1>5, <1>9, TransitionFields
<1> HIDE DEF T, d
<1>11. raised \in {"none", "error", "killed"}
  BY <1>5, <1>9 DEF GraphTypeOK
<1> HIDE DEF raised
<1>12. /\ exception' \in [edges -> {"none", "error", "killed"}] /\ exception'[d] = raised
       /\ \A e \in edges : e # d => exception'[e] = exception[e]
  BY <1>3, <1>5, <1>9, <1>11 DEF GraphTypeOK
<1>13. got \subseteq got' /\ DOMAIN tasks' \subseteq DOMAIN tasks
       /\ (\A u \in DOMAIN tasks : u # t => u \in DOMAIN tasks')
       /\ (t \in DOMAIN tasks' \/ (LastTry(t, raised) /\ Delivered(t, raised) \subseteq got'))
  BY <1>4
<1>14. got' \subseteq edges
  <2>1. Delivered(t, raised) \subseteq edges
    BY DEF Delivered, After
  <2> QED
    BY <1>4, <1>5, <2>1 DEF GraphTypeOK
<1>15. raised = "none" /\ RunsIt(d) => Delivered(t, raised) = Pairs(d)
  BY <1>10 DEF Delivered, Pairs
<1>16. Inputs'
  BY <1>1, <1>5, InputSame
<1>17. GraphTypeOK'
  BY <1>1, <1>2, <1>5, <1>6, <1>8, <1>12, <1>13, <1>14, InputSame DEF GraphTypeOK, T
<1>18. Phases'
  BY <1>1, <1>7 DEF Phases
<1>19. BatchesLeft'
  BY <1>1, <1>2, <1>5, <1>6, InputSame DEF BatchesLeft, T
<1>20. PastGroups'
  <2> SUFFICES ASSUME NEW e \in edges, IsPast(order[e[1]])
               PROVE  /\ exception'[e] = "none"
                      /\ RunsIt(e) /\ ~ CrowdedGroup(order[e[1]]) => executed[e] > 0 /\ Pairs(e) \subseteq got'
    BY <1>1, <1>2, InputSame DEF PastGroups, IsPast
  <2>1. order[e[1]] < group /\ order[e[1]] \in Nat /\ group \in Nat
    BY <1>5, <1>7, EdgeFacts DEF IsPast, GraphTypeOK
  <2>2. e # d
    BY <1>9, <2>1
  <2>3. /\ exception[e] = "none"
        /\ RunsIt(e) /\ ~ CrowdedGroup(order[e[1]]) => executed[e] > 0 /\ Pairs(e) \subseteq got
    BY <1>5 DEF PastGroups
  <2> QED
    BY <1>12, <1>13, <2>2, <2>3
<1>21. PresentGroup'
  <2> SUFFICES ASSUME NEW e \in GroupEdges(group), RunsIt(e), ~ CrowdedGroup(group)
               PROVE  \/ Within(Transition(e), batched)
                      \/ Transition(e) \in DOMAIN tasks'
                      \/ executed[e] > 0 /\ (exception'[e] # "none" \/ Pairs(e) \subseteq got')
    BY <1>1, <1>2, <1>6, InputSame DEF PresentGroup
  <2>1. \/ Within(Transition(e), batched)
        \/ Transition(e) \in DOMAIN tasks
        \/ executed[e] > 0 /\ (exception[e] # "none" \/ Pairs(e) \subseteq got)
    BY <1>5, <1>7 DEF PresentGroup, GraphTypeOK
  <2>2. e \in edges /\ EdgeOf(Transition(e)) = e
    BY <1>5, TransitionEdges
  <2>3. CASE e = d
    <3>1. Transition(e) = t /\ executed[e] > 0
      BY <1>5, <1>9, <2>3 DEF Executions, d
    <3>2. CASE t \in DOMAIN tasks'
      BY <3>1, <3>2
    <3>3. CASE t \notin DOMAIN tasks'
      BY <1>12, <1>13, <1>15, <2>3, <3>1, <3>3
    <3> QED
      BY <3>2, <3>3
  <2>4. CASE e # d
    <3>1. Transition(e) # t
      BY <2>2, <2>4 DEF d
    <3> QED
      BY <1>12, <1>13, <2>1, <2>2, <2>4, <3>1
  <2> QED
    BY <2>3, <2>4
<1>22. FutureGroups' /\ Executions'
  BY <1>1, <1>2, <1>5, <1>13, InputSame DEF FutureGroups, Executions
<1> QED
  BY <1>16, <1>17, <1>18, <1>19, <1>20, <1>21, <1>22 DEF GraphInv

\* The end of a group keeps the invariant.
LEMMA EndGroupKeeps ==
    ASSUME GraphInv, EndGroup
    PROVE  GraphInv'
<1> DEFINE errors == {exception[e] : e \in GroupEdges(group)}
<1>1. UNCHANGED input /\ batched' = batched /\ tasks' = tasks
  BY DEF EndGroup, input
<1>2. exception' = exception /\ executed' = executed /\ got' = got /\ attempt' = attempt /\ exit' = exit
  BY DEF EndGroup
<1>3. status = "RUNNING" /\ phase = "execute" /\ DOMAIN tasks = {} /\ batched = <<>>
  BY DEF EndGroup
<1>4. /\ status' = AfterGroup(errors)
      /\ IF status' = "RUNNING" THEN group' = group + 1 /\ phase' = "sort" ELSE group' = group /\ phase' = phase
  BY DEF EndGroup
<1>5. Inputs /\ GraphTypeOK /\ Phases /\ BatchesLeft /\ PastGroups /\ PresentGroup /\ FutureGroups /\ Executions
  BY DEF GraphInv
<1>6. /\ status' \in {"RUNNING", "COMPLETE", "FAILED", "CANCELLED"}
      /\ status' \in {"RUNNING", "COMPLETE"} => "killed" \notin errors /\ "error" \notin errors
      /\ status' = "COMPLETE" => group = LastGroup
      /\ status' = "RUNNING" => group # LastGroup
  BY <1>4 DEF AfterGroup
<1>7. status' \in {"RUNNING", "COMPLETE"} => \A e \in GroupEdges(group) : exception[e] = "none"
  <2> SUFFICES ASSUME status' \in {"RUNNING", "COMPLETE"}, NEW e \in GroupEdges(group) PROVE exception[e] = "none"
    OBVIOUS
  <2>1. exception[e] \in errors /\ e \in edges
    BY DEF GroupEdges
  <2>2. exception[e] \in {"none", "error", "killed"}
    BY <1>5, <2>1 DEF GraphTypeOK
  <2> HIDE DEF errors
  <2> QED
    BY <1>6, <2>1, <2>2
<1> HIDE DEF errors
<1>8. \A e \in edges : order[e[1]] \in 0..LastGroup /\ order[e[1]] \in Nat
  BY <1>5, EdgeFacts
<1>9. group \in 0..LastGroup /\ LastGroup \in Int
  <2>1. Complete \in Nodes
    BY NodesAre
  <2> QED
    BY <1>5, <2>1 DEF GraphTypeOK, LastGroup, Inputs
<1>10. Inputs'
  BY <1>1, <1>5, InputSame
<1>11. GraphTypeOK'
  <2>1. group' \in 0..LastGroup /\ phase' \in {"sort", "execute"}
    BY <1>3, <1>4, <1>6, <1>9
  <2>2. status' \in {"ASSEMBLING", "RUNNING", "COMPLETE", "FAILED", "CANCELLED", "RAISED"}
    BY <1>6
  <2> QED
    BY <1>1, <1>2, <1>3, <1>5, <2>1, <2>2, InputSame DEF GraphTypeOK
<1>12. Phases'
  BY <1>1, <1>3, <1>4, <1>6, InputSame DEF Phases
<1>13. BatchesLeft'
  <2>1. batched' = <<>> /\ DOMAIN <<>> = {} /\ <<>> \in Seq(Batches(Transitions'))
    BY <1>1, <1>3
  <2> QED
    BY <2>1 DEF BatchesLeft, OnceIn
<1>14. PastGroups'
  <2> SUFFICES ASSUME NEW e \in edges, IsPast(order[e[1]])'
               PROVE  /\ exception[e] = "none"
                      /\ RunsIt(e) /\ ~ CrowdedGroup(order[e[1]]) => executed[e] > 0 /\ Pairs(e) \subseteq got
    BY <1>1, <1>2, InputSame DEF PastGroups
  <2>1. order'[e[1]] = order[e[1]]
    BY <1>1, InputSame
  <2>2. order[e[1]] < group \/ (order[e[1]] = group /\ status' \in {"RUNNING", "COMPLETE"})
    BY <1>4, <1>8, <1>9, <2>1 DEF IsPast
  <2>3. CASE order[e[1]] < group
    BY <1>5, <2>3 DEF PastGroups, IsPast
  <2>4. CASE order[e[1]] = group /\ status' \in {"RUNNING", "COMPLETE"}
    <3>1. e \in GroupEdges(group)
      BY <2>4 DEF GroupEdges
    <3>2. exception[e] = "none"
      BY <1>7, <2>4, <3>1
    <3>3. ~ Within(Transition(e), batched)
      BY <1>3 DEF Within
    <3> QED
      BY <1>3, <1>5, <2>4, <3>1, <3>2, <3>3 DEF PresentGroup
  <2> QED
    BY <2>2, <2>3, <2>4
<1>15. PresentGroup'
  <2>1. CASE status' = "RUNNING"
    BY <1>4, <2>1 DEF PresentGroup
  <2>2. CASE status' # "RUNNING"
    <3>1. group' = group /\ phase' = phase
      BY <1>4, <2>2
    <3>2. \A e : Transition(e)' = Transition(e)
      BY <1>1, <3>1, GroupSame
    <3> QED
      BY <1>1, <1>2, <1>5, <3>1, <3>2, InputSame DEF PresentGroup
  <2> QED
    BY <2>1, <2>2
<1>16. FutureGroups'
  <2> SUFFICES ASSUME NEW e \in edges, order[e[1]] > group' \/ (order[e[1]] = group' /\ phase' = "sort")
               PROVE  executed[e] = 0
    BY <1>1, <1>2, InputSame DEF FutureGroups
  <2>1. order[e[1]] > group
    BY <1>3, <1>4, <1>8, <1>9
  <2> QED
    BY <1>5, <2>1 DEF FutureGroups
<1>17. Executions'
  BY <1>1, <1>2, <1>5, InputSame DEF Executions
<1> QED
  BY <1>10, <1>11, <1>12, <1>13, <1>14, <1>15, <1>16, <1>17 DEF GraphInv

\* The end of the command, or one more graph, keeps the invariant.
LEMMA EndRunKeeps ==
    ASSUME GraphInv, EndRun
    PROVE  GraphInv'
<1>1. UNCHANGED input
  BY DEF EndRun
<1>2. GraphInv
  OBVIOUS
<1>3. CASE UNCHANGED <<graph, attempt>> /\ exit' = (IF status = "COMPLETE" THEN 0 ELSE 1)
  <2>1. /\ group' = group /\ status' = status /\ phase' = phase /\ batched' = batched /\ tasks' = tasks
        /\ exception' = exception /\ executed' = executed /\ got' = got /\ attempt' = attempt
        /\ exit' \in {NotYet, 0, 1}
    BY <1>3 DEF graph
  <2>2. Transitions' = Transitions /\ \A e : Transition(e)' = Transition(e)
    BY <1>1, <2>1, GroupSame
  <2> USE <1>1, <2>1, <2>2, InputSame DEF GraphInv
  <2>3. Inputs' /\ GraphTypeOK'
    BY <1>2 DEF GraphTypeOK
  <2>4. Phases' /\ BatchesLeft'
    BY <1>2 DEF Phases, BatchesLeft
  <2>5. PastGroups'
    BY <1>2 DEF PastGroups, IsPast
  <2>6. PresentGroup'
    BY <1>2 DEF PresentGroup
  <2>7. FutureGroups' /\ Executions'
    BY <1>2 DEF FutureGroups, Executions
  <2> QED
    BY <2>3, <2>4, <2>5, <2>6, <2>7 DEF GraphInv
<1>4. CASE NewGraph /\ attempt' = attempt + 1 /\ exit' = (IF attempt + 1 = retries THEN 0 ELSE NotYet)
  <2>1. /\ status' = "ASSEMBLING" /\ group' = 0 /\ phase' = "sort" /\ batched' = <<>> /\ tasks' = <<>>
        /\ exception' = [e \in edges |-> "none"] /\ executed' = [e \in edges |-> 0] /\ got' = {}
    BY <1>4 DEF NewGraph
  <2>2. DOMAIN tasks' = {}
    BY <2>1
  <2>3. edges' = edges /\ LastGroup' = LastGroup /\ Inputs'
    BY <1>1, <1>2, InputSame DEF GraphInv
  <2>4. group \in 0..LastGroup /\ LastGroup \in Int /\ attempt \in Nat
    <3>1. Complete \in Nodes
      BY NodesAre
    <3> QED
      BY <1>2, <3>1 DEF GraphInv, GraphTypeOK, LastGroup, Inputs
  <2>5. 0 \in 0..LastGroup
    BY <2>4
  <2>6. exit' \in {NotYet, 0, 1} /\ attempt' \in Nat
    BY <1>4, <2>4
  <2>7. GraphTypeOK'
    BY <2>1, <2>2, <2>3, <2>5, <2>6 DEF GraphTypeOK
  <2>8. executed' = [e \in edges' |-> 0]
    BY <2>1, <2>3
  <2> QED
    BY <2>1, <2>2, <2>3, <2>7, <2>8, NewGraphHolds
<1> QED
  BY <1>3, <1>4 DEF EndRun

\* A step that changes nothing keeps the invariant.
LEMMA GraphStutterKeeps ==
    ASSUME GraphInv, UNCHANGED graphVars
    PROVE  GraphInv'
<1>1. UNCHANGED input /\ UNCHANGED <<graph, attempt, exit>>
  BY DEF graphVars
<1>2. /\ group' = group /\ status' = status /\ phase' = phase /\ batched' = batched /\ tasks' = tasks
      /\ exception' = exception /\ executed' = executed /\ got' = got /\ attempt' = attempt
      /\ exit' = exit
  BY <1>1 DEF graph
<1>3. Transitions' = Transitions /\ \A e : Transition(e)' = Transition(e)
  BY <1>1, <1>2, GroupSame
<1>4. GraphInv
  OBVIOUS
<1> USE <1>1, <1>2, <1>3, InputSame DEF GraphInv
<1>5. Inputs' /\ GraphTypeOK'
  BY <1>4 DEF GraphTypeOK
<1>6. Phases' /\ BatchesLeft'
  BY <1>4 DEF Phases, BatchesLeft
<1>7. PastGroups'
  BY <1>4 DEF PastGroups, IsPast
<1>8. PresentGroup'
  BY <1>4 DEF PresentGroup
<1>9. FutureGroups' /\ Executions'
  BY <1>4 DEF FutureGroups, Executions
<1> QED
  BY <1>5, <1>6, <1>7, <1>8, <1>9 DEF GraphInv

\* The invariant of the graph (graph.py, Graph.run; transition_group.py;
\* transition.py; batch_executor.py).
THEOREM GraphInvariant == GraphSpec => []GraphInv
<1>1. GraphInv /\ [GraphNext]_graphVars => GraphInv'
  <2> SUFFICES ASSUME GraphInv, [GraphNext]_graphVars PROVE GraphInv'
    OBVIOUS
  <2>1. CASE Run
    BY <2>1, RunKeeps
  <2>2. CASE SortAndMap
    BY <2>2, SortAndMapKeeps
  <2>3. CASE StartBatch
    BY <2>3, StartBatchKeeps
  <2>4. CASE EndGroup
    BY <2>4, EndGroupKeeps
  <2>5. CASE EndRun
    BY <2>5, EndRunKeeps
  <2>6. CASE Ended
    BY <2>6, GraphStutterKeeps DEF Ended
  <2>7. CASE \E t \in DOMAIN tasks, outcome \in {"none", "error", "killed"} : EndTry(t, outcome)
    BY <2>7, EndTryKeeps
  <2>8. CASE UNCHANGED graphVars
    BY <2>8, GraphStutterKeeps
  <2> QED
    BY <2>1, <2>2, <2>3, <2>4, <2>5, <2>6, <2>7, <2>8 DEF GraphNext
<1> QED
  BY <1>1, GraphStarts, PTL DEF GraphSpec

\* Every variable of the graph stays in its type: the tasks are transitions of
\* the group, and a destination is given the results of a stage it follows
\* (graph.py, Graph.run).
THEOREM GraphTypeCorrect == GraphSpec => []GraphTypeOK
<1>1. GraphInv => GraphTypeOK
  BY DEF GraphInv
<1> QED
  BY <1>1, GraphInvariant, PTL

\* How the generation of a stage is partitioned is told by its number.
LEMMA CrowdedAre ==
    ASSUME Inputs, NEW s
    PROVE  /\ Crowded(s) <=> CrowdedGroup(order[s])
           /\ Prioritised(Generation(s)) <=> PrioritisedGroup(order[s])
           /\ Cardinality(Generation(s)) = Cardinality(GroupEdges(order[s]))
<1>1. Generation(s) = TransitionsOf(order[s])
  BY GroupsAre
<1>2. Crowded(s) <=> CrowdedIn(Generation(s))
  BY DEF Crowded, CrowdedIn
<1> QED
  BY <1>1, <1>2, GroupKinds, TransitionsFinite, Zenon

\* A stage that is not skipped is run by the transition to its first
\* destination.
LEMMA FirstRuns ==
    ASSUME Inputs, NEW s \in Stages \ skipped, NEW d \in After(edges, s)
    PROVE  \E c \in After(edges, s) : c <= d /\ <<s, c>> \in edges /\ RunsIt(<<s, c>>)
<1>1. After(edges, s) \in SUBSET Nat /\ d \in Nat
  BY NodesAre DEF After
<1>2. PICK c \in After(edges, s) : \A b \in After(edges, s) : c <= b
  BY <1>1, LeastNumber
<1>3. c \in Nat /\ <<s, c>> \in edges
  BY <1>1, <1>2 DEF After
<1>4. ~ \E b \in After(edges, s) : b < c
  BY <1>1, <1>2, <1>3
<1>5. RunsIt(<<s, c>>)
  BY <1>4 DEF RunsIt, Twin
<1> QED
  BY <1>2, <1>3, <1>5

\* A stage that runs was given the results of every stage it depends on, but
\* for the skipped ones and those of a crowded generation, which did not run
\* (transition.py, Transition.execute and the order of groups in Graph.run).
THEOREM InputsDelivered == GraphSpec => []StageHasInputs
<1>1. GraphInv => StageHasInputs
  <2> SUFFICES ASSUME GraphInv, NEW t \in DOMAIN tasks, ~ t.skip, t.source # Idle,
                      NEW p \in Before(edges, t.source) \ {Idle}, p \notin skipped, ~ Crowded(p)
               PROVE  <<p, t.source>> \in got
    BY DEF StageHasInputs
  <2>1. Inputs /\ GraphTypeOK /\ PastGroups
    BY DEF GraphInv
  <2>2. EdgeOf(t) \in GroupEdges(group) /\ t = Transition(EdgeOf(t)) /\ EdgeOf(t) \in edges
    BY <2>1, GroupsAre, TransitionEdges DEF GraphTypeOK
  <2>3. order[t.source] = group /\ t.source # Complete
    <3>1. t.source = EdgeOf(t)[1]
      BY DEF EdgeOf
    <3> QED
      BY <2>1, <2>2, <3>1, EdgeFacts DEF GroupEdges
  <2> DEFINE e == <<p, t.source>>
  <2>4. e \in edges /\ e[1] = p /\ e[2] = t.source /\ p \in Nodes
    BY DEF Before
  <2>5. order[p] < group /\ p \in Stages /\ p \in Nat /\ t.source \in Nat /\ t.source \in Stages /\ t.source \in Nodes
    BY <2>1, <2>3, <2>4, EdgeFacts, NodesAre DEF Inputs
  <2>6. t.source \in After(edges, p)
    BY <2>4, <2>5 DEF After
  <2>7. PICK c \in After(edges, p) : c <= t.source /\ <<p, c>> \in edges /\ RunsIt(<<p, c>>)
    BY <2>1, <2>5, <2>6, FirstRuns
  <2> DEFINE f == <<p, c>>
  <2>8. f \in edges /\ f[1] = p /\ f[2] = c
    BY <2>7
  <2>9. c \in Nat /\ c # Complete
    BY <2>1, <2>5, <2>7, <2>8, EdgeFacts, NodesAre
  <2>10. ~ CrowdedGroup(order[p])
    BY <2>1, CrowdedAre
  <2>11. Pairs(f) \subseteq got
    BY <2>1, <2>5, <2>7, <2>8, <2>10 DEF PastGroups, IsPast
  <2>12. e \in Pairs(f)
    BY <2>6, <2>8, <2>9 DEF Pairs
  <2> QED
    BY <2>11, <2>12
<1> QED
  BY <1>1, GraphInvariant, PTL

\* No transition runs its stage twice in one graph, unless its generation is
\* partitioned by priority and holds three transitions or more
\* (batch_executor.py, partion_prioritized_stage_batches).
THEOREM StagesRunOnce == GraphSpec => []RunsOnce
<1>1. GraphInv => RunsOnce
  <2> SUFFICES ASSUME GraphInv, NEW e \in edges, executed[e] > 1, ~ Transition(e).skip
               PROVE  Prioritised(Generation(e[1])) /\ Cardinality(Generation(e[1])) > 2
    BY DEF RunsOnce
  <2>1. Inputs /\ GraphTypeOK /\ Executions
    BY DEF GraphInv
  <2>2. RunsIt(e) /\ executed[e] \in Nat
    BY <2>1, TransitionFields DEF GraphTypeOK
  <2>3. MayRepeat(order[e[1]])
    BY <2>1, <2>2 DEF Executions
  <2> QED
    BY <2>1, <2>3, CrowdedAre DEF MayRepeat
<1> QED
  BY <1>1, GraphInvariant, PTL

\* When the command succeeds with a complete graph, every stage ran without
\* an error, but for those the user skips, those of a crowded generation and
\* those nothing depends on that are not in the last generation
\* (graph.py, Graph.run; cli/graph/run.py, run_graph).
THEOREM SuccessMeansAll == GraphSpec => []ExitZeroMeansAll
<1>1. GraphInv => ExitZeroMeansAll
  <2> SUFFICES ASSUME GraphInv, status = "COMPLETE"
               PROVE  /\ \A e \in edges : exception[e] = "none"
                      /\ \A s \in Stages :
                           \/ s \in skipped \/ Crowded(s) \/ After(edges, s) = {}
                           \/ \E e \in edges : e[1] = s /\ ~ Transition(e).skip /\ executed[e] > 0
    BY DEF ExitZeroMeansAll
  <2>1. Inputs /\ GraphTypeOK /\ PastGroups /\ group = LastGroup
    BY DEF GraphInv, Phases
  <2>2. ASSUME NEW e \in edges PROVE IsPast(order[e[1]])
    <3>1. order[e[1]] \in 0..LastGroup /\ order[e[1]] \in Nat /\ LastGroup \in Int
      <4>1. Complete \in Nodes
        BY NodesAre
      <4> QED
        BY <2>1, <4>1, EdgeFacts DEF LastGroup, Inputs
    <3> QED
      BY <2>1, <3>1 DEF IsPast
  <2>3. \A e \in edges : exception[e] = "none"
    BY <2>1, <2>2 DEF PastGroups
  <2>4. ASSUME NEW s \in Stages, s \notin skipped, ~ Crowded(s), NEW d \in After(edges, s)
        PROVE  \E e \in edges : e[1] = s /\ ~ Transition(e).skip /\ executed[e] > 0
    <3>1. PICK c \in After(edges, s) : <<s, c>> \in edges /\ RunsIt(<<s, c>>)
      BY <2>1, <2>4, FirstRuns
    <3> DEFINE e == <<s, c>>
    <3>2. e \in edges /\ e[1] = s /\ RunsIt(e)
      BY <3>1
    <3> HIDE DEF e
    <3>3. ~ CrowdedGroup(order[e[1]])
      BY <2>1, <2>4, <3>2, CrowdedAre
    <3>4. executed[e] > 0
      BY <2>1, <2>2, <3>2, <3>3 DEF PastGroups
    <3>5. ~ Transition(e).skip
      BY <2>1, <3>2, TransitionFields
    <3> QED
      BY <3>2, <3>4, <3>5
  <2> QED
    BY <2>3, <2>4
<1> QED
  BY <1>1, GraphInvariant, PTL

\* The batches of a generation partitioned by priority never ask for more
\* workers than there are, and no stage for more than the most of its
\* priority or less than one below the least of it
\* (batch_executor.py, partion_prioritized_stage_batches).
THEOREM WorkersFit == GraphSpec => []AllocationFits
<1>1. GraphInv => AllocationFits
  <2> SUFFICES ASSUME GraphInv, Prioritised(Transitions), NEW i \in DOMAIN batched
               PROVE  Fits(batched[i], Pool)
    BY DEF AllocationFits, Fits, Modest
  <2>1. Inputs /\ BatchesLeft
    BY DEF GraphInv
  <2>2. PrioritisedGroup(group)
    BY <2>1, GroupsAre, GroupKinds
  <2> QED
    BY <2>1, <2>2 DEF BatchesLeft
<1> QED
  BY <1>1, GraphInvariant, PTL

=============================================================================
