------------------------- MODULE PipelineDemoProofs -------------------------
(***************************************************************************)
(* The pipeline demo keeps its invariant for every set of sources, stages  *)
(* and routes, every period, burst and freshness limit.                    *)
(***************************************************************************)
EXTENDS PipelineDemoOrder, FiniteSetTheorems, WellFoundedInduction, TLAPS

(* Every nonempty set of numbers has a least element.                       *)
LEMMA LeastNumber ==
    ASSUME NEW T, T \subseteq Nat, T # {}
    PROVE  \E x \in T : \A y \in T : x <= y
<1> DEFINE less == {ss \in Nat \X Nat : ss[1] < ss[2]}
<1>1. IsWellFoundedOn(less, Nat)
    BY NatLessThanWellFounded DEF OpToRel
<1>2. \A y, x \in Nat : y < x => <<y, x>> \in less
    OBVIOUS
<1> HIDE DEF less
<1>3. PICK x \in T : \A y \in T : ~(<<y, x>> \in less)
    BY <1>1, WFMin
<1>4. \A y \in T : ~(y < x)
    BY <1>2, <1>3
<1> QED
    BY <1>4

-----------------------------------------------------------------------------
(* Eviction                                                                *)

\* f[i] is what the loop of evict_stale_locked() keeps of the first i items of q.
Keeps(f, q, old) ==
    \A i \in 0 .. Len(q) :
        f[i] = IF i = 0 THEN <<>>
               ELSE IF q[i] \in old THEN f[i - 1] ELSE Append(f[i - 1], q[i])

(* The loop of evict_stale_locked() is defined on every queue.               *)
LEMMA KeptExists ==
    ASSUME NEW q \in Seq(Item), NEW old
    PROVE  \E f \in [0 .. Len(q) -> Seq(Item)] : Keeps(f, q, old)
<1> DEFINE Loop(n) == \E f \in [0 .. n -> Seq(Item)] : \A i \in 0 .. n :
                          f[i] = IF i = 0 THEN <<>>
                                 ELSE IF q[i] \in old THEN f[i - 1]
                                 ELSE Append(f[i - 1], q[i])
           bad == {n \in 0 .. Len(q) : ~ Loop(n)}
<1>1. SUFFICES ASSUME bad # {} PROVE FALSE
    <2>1. Len(q) \in 0 .. Len(q)
        OBVIOUS
    <2>2. Loop(Len(q))
        <3> HIDE DEF Loop
        <3> QED
            BY <1>1, <2>1
    <2> QED
        BY <2>2 DEF Keeps
<1>2. PICK n \in bad : \A m \in bad : n <= m
    <2>1. bad \subseteq Nat
        OBVIOUS
    <2> HIDE DEF bad
    <2> QED
        BY <1>1, <2>1, LeastNumber
<1>3. n # 0
    <2>1. Loop(0)
        <3> DEFINE f == [i \in 0 .. 0 |-> <<>>]
        <3>1. f \in [0 .. 0 -> Seq(Item)]
            OBVIOUS
        <3>2. \A i \in 0 .. 0 : i = 0 /\ f[i] = <<>>
            OBVIOUS
        <3> QED
            BY <3>1, <3>2
    <2> QED
        BY <1>2, <2>1
<1>4. n \in 1 .. Len(q) /\ n - 1 \in 0 .. Len(q) /\ Loop(n - 1)
    <2>1. n \in 1 .. Len(q) /\ n - 1 \in 0 .. Len(q) /\ ~ (n <= n - 1)
        BY <1>2, <1>3
    <2>2. n - 1 \notin bad
        <3> HIDE DEF bad
        <3> QED
            BY <1>2, <2>1
    <2> HIDE DEF Loop
    <2> QED
        BY <2>1, <2>2
<1>5. PICK f \in [0 .. n - 1 -> Seq(Item)] : \A i \in 0 .. n - 1 :
          f[i] = IF i = 0 THEN <<>>
                 ELSE IF q[i] \in old THEN f[i - 1] ELSE Append(f[i - 1], q[i])
    BY <1>4
<1> DEFINE last == IF q[n] \in old THEN f[n - 1] ELSE Append(f[n - 1], q[n])
           h == [i \in 0 .. n |-> IF i = n THEN last ELSE f[i]]
<1>6. last \in Seq(Item)
    BY <1>4, <1>5
<1>7. h \in [0 .. n -> Seq(Item)] /\ h[n] = last /\ \A i \in 0 .. n - 1 : h[i] = f[i]
    <2> HIDE DEF last
    <2>1. \A i \in 0 .. n : i # n => i \in 0 .. n - 1 /\ f[i] \in Seq(Item)
        BY <1>4, <1>5
    <2>2. \A i \in 0 .. n - 1 : i \in 0 .. n /\ i # n
        BY <1>4
    <2>3. n \in 0 .. n
        BY <1>4
    <2> QED
        BY <1>6, <2>1, <2>2, <2>3
<1>8. Loop(n)
    <2>1. ASSUME NEW i \in 0 .. n
          PROVE  h[i] = IF i = 0 THEN <<>>
                        ELSE IF q[i] \in old THEN h[i - 1] ELSE Append(h[i - 1], q[i])
        <3> HIDE DEF h
        <3>1. CASE i = n
            <4>1. n - 1 \in 0 .. n - 1 /\ n # 0
                BY <1>4
            <4> QED
                BY <1>7, <3>1, <4>1
        <3>2. CASE i # n
            <4>1. i \in 0 .. n - 1 /\ (i # 0 => i - 1 \in 0 .. n - 1)
                BY <1>4, <3>2
            <4> QED
                BY <1>5, <1>7, <4>1
        <3> QED
            BY <3>1, <3>2
    <2> QED
        BY <1>7, <2>1
<1> QED
    BY <1>2, <1>8

\* r is what is left of the queue q, in the same order.
Thinned(r, q) ==
    /\ r \in Seq(Item) /\ Len(r) <= Len(q)
    /\ \A k \in 1 .. Len(r) : \E d \in 1 .. Len(q) : r[k] = q[d]
    /\ \A j, k \in 1 .. Len(r) : j < k =>
           \E c, d \in 1 .. Len(q) : c < d /\ r[j] = q[c] /\ r[k] = q[d]

(* Eviction leaves items of the queue, in their order, and no more of them.  *)
LEMMA WithoutFacts ==
    ASSUME NEW q \in Seq(Item), NEW old
    PROVE  Thinned(Without(q, old), q)
<1> DEFINE Step(f) == [i \in 0 .. Len(q) |->
                          IF i = 0 THEN <<>>
                          ELSE IF q[i] \in old THEN f[i - 1] ELSE Append(f[i - 1], q[i])]
           kept == CHOOSE f : f = Step(f)
<1>1. \E f : f = Step(f)
    <2>1. PICK f \in [0 .. Len(q) -> Seq(Item)] : Keeps(f, q, old)
        BY KeptExists, Zenon
    <2>2. f = Step(f)
        BY <2>1 DEF Keeps
    <2> HIDE DEF Step
    <2> QED
        BY <2>2, Zenon
<1>2. kept = Step(kept)
    <2> HIDE DEF Step
    <2> QED
        BY <1>1, Zenon
<1>3. Without(q, old) = kept[Len(q)]
    BY DEF Without
<1>4. \A i \in 0 .. Len(q) : kept[i] = IF i = 0 THEN <<>>
          ELSE IF q[i] \in old THEN kept[i - 1] ELSE Append(kept[i - 1], q[i])
    <2> DEFINE k == kept
    <2>1. k = Step(k)
        BY <1>2, Zenon
    <2> HIDE DEF k, kept
    <2>2. \A i \in 0 .. Len(q) : k[i] = IF i = 0 THEN <<>>
              ELSE IF q[i] \in old THEN k[i - 1] ELSE Append(k[i - 1], q[i])
        BY <2>1
    <2> QED
        BY <2>2 DEF k
<1> HIDE DEF kept
<1> DEFINE Good(i) ==
        /\ kept[i] \in Seq(Item) /\ Len(kept[i]) <= i
        /\ \A k \in 1 .. Len(kept[i]) : \E d \in 1 .. i : kept[i][k] = q[d]
        /\ \A j, k \in 1 .. Len(kept[i]) : j < k =>
               \E c, d \in 1 .. i : c < d /\ kept[i][j] = q[c] /\ kept[i][k] = q[d]
           bad == {i \in 0 .. Len(q) : ~ Good(i)}
<1>5. SUFFICES ASSUME bad # {} PROVE FALSE
    <2>1. Len(q) \in 0 .. Len(q)
        OBVIOUS
    <2>2. Good(Len(q))
        BY <1>5, <2>1
    <2>3. Thinned(kept[Len(q)], q)
        BY <2>2 DEF Thinned
    <2> QED
        BY <1>3, <2>3
<1>6. PICK n \in bad : \A m \in bad : n <= m
    <2>1. bad \subseteq Nat
        OBVIOUS
    <2> HIDE DEF bad
    <2> QED
        BY <1>5, <2>1, LeastNumber
<1>7. n # 0
    <2>1. kept[0] = <<>>
        <3>1. 0 \in 0 .. Len(q)
            OBVIOUS
        <3> QED
            BY <1>4, <3>1
    <2>2. Good(0)
        BY <2>1
    <2> QED
        BY <1>6, <2>2
<1>8. n \in 1 .. Len(q) /\ n - 1 \in 0 .. Len(q) /\ Good(n - 1)
    <2>1. n \in 1 .. Len(q) /\ n - 1 \in 0 .. Len(q) /\ ~ (n <= n - 1)
        BY <1>6, <1>7
    <2>2. n - 1 \notin bad
        <3> HIDE DEF bad
        <3> QED
            BY <1>6, <2>1
    <2> HIDE DEF Good
    <2> QED
        BY <2>1, <2>2
<1>9. Good(n)
    <2>1. CASE q[n] \in old
        <3>1. kept[n] = kept[n - 1]
            BY <1>4, <1>8, <2>1
        <3>2. \A d \in 1 .. n - 1 : d \in 1 .. n
            BY <1>8
        <3>3. /\ kept[n] \in Seq(Item) /\ Len(kept[n]) <= n - 1
              /\ \A k \in 1 .. Len(kept[n]) : \E d \in 1 .. n - 1 : kept[n][k] = q[d]
              /\ \A j, k \in 1 .. Len(kept[n]) : j < k =>
                     \E c, d \in 1 .. n - 1 : c < d /\ kept[n][j] = q[c] /\ kept[n][k] = q[d]
            BY <1>8, <3>1
        <3>4. Len(kept[n]) <= n
            BY <1>8, <3>3
        <3> QED
            BY <3>2, <3>3, <3>4
    <2>2. CASE q[n] \notin old
        <3> DEFINE p == kept[n - 1]
                   r == kept[n]
        <3>1. r = Append(p, q[n])
            <4>1. n \in 0 .. Len(q) /\ n # 0
                BY <1>8
            <4> QED
                BY <1>4, <2>2, <4>1
        <3>2. p \in Seq(Item) /\ Len(p) <= n - 1
            BY <1>8
        <3>10. \A k \in 1 .. Len(p) : \E d \in 1 .. n - 1 : p[k] = q[d]
            BY <1>8
        <3>11. \A j, k \in 1 .. Len(p) : j < k =>
                  \E c, d \in 1 .. n - 1 : c < d /\ p[j] = q[c] /\ p[k] = q[d]
            BY <1>8
        <3>3. n \in 1 .. Len(q) /\ q[n] \in Item
            BY <1>8
        <3> HIDE DEF p, r
        <3>4. r \in Seq(Item) /\ Len(r) = Len(p) + 1 /\ r[Len(p) + 1] = q[n]
              /\ \A k \in 1 .. Len(p) : r[k] = p[k]
            BY <3>1, <3>2, <3>3
        <3>5. Len(p) \in Nat
            BY <3>2
        <3>6. \A k \in 1 .. Len(r) : k \in 1 .. Len(p) \/ k = Len(p) + 1
            BY <3>4, <3>5
        <3>7. ASSUME NEW k \in 1 .. Len(r) PROVE \E d \in 1 .. n : r[k] = q[d]
            <4>1. CASE k = Len(p) + 1
                BY <3>3, <3>4, <4>1
            <4>2. CASE k \in 1 .. Len(p)
                <5>1. PICK d \in 1 .. n - 1 : p[k] = q[d]
                    BY <3>10, <4>2
                <5>2. d \in 1 .. n
                    BY <3>3
                <5> QED
                    BY <3>4, <4>2, <5>1, <5>2
            <4> QED
                BY <3>6, <4>1, <4>2
        <3>8. ASSUME NEW j \in 1 .. Len(r), NEW k \in 1 .. Len(r), j < k
              PROVE  \E c, d \in 1 .. n : c < d /\ r[j] = q[c] /\ r[k] = q[d]
            <4>1. j \in 1 .. Len(p)
                BY <3>4, <3>5, <3>8
            <4>2. CASE k = Len(p) + 1
                <5>1. PICK c \in 1 .. n - 1 : p[j] = q[c]
                    BY <3>10, <4>1
                <5>2. c \in 1 .. n /\ n \in 1 .. n /\ c < n
                    BY <3>3
                <5> QED
                    BY <3>4, <4>1, <4>2, <5>1, <5>2
            <4>3. CASE k \in 1 .. Len(p)
                <5>1. PICK c, d \in 1 .. n - 1 : c < d /\ p[j] = q[c] /\ p[k] = q[d]
                    BY <3>8, <3>11, <4>1, <4>3
                <5>2. c \in 1 .. n /\ d \in 1 .. n
                    BY <3>3
                <5> QED
                    BY <3>4, <4>1, <4>3, <5>1, <5>2
            <4> QED
                BY <3>6, <4>2, <4>3
        <3>9. Len(r) <= n
            BY <3>2, <3>3, <3>4, <3>5
        <3> QED
            BY <3>4, <3>7, <3>8, <3>9 DEF r
    <2> QED
        BY <2>1, <2>2
<1> QED
    BY <1>6, <1>9

-----------------------------------------------------------------------------
(* Sums                                                                    *)

\* The element of a set that the sum takes first
First(T) == CHOOSE x \in T : TRUE
\* The recursion of the sum of f over T
SumStep(f, sum, T) == IF T = {} THEN 0 ELSE f[First(T)] + sum[T \ {First(T)}]
\* sum holds the sums of f over the subsets of S.
SumsOf(f, sum, S) == /\ sum \in [SUBSET S -> Int] /\ Total(f) = sum[S]
                     /\ \A T \in SUBSET S : sum[T] = SumStep(f, sum, T)

(* The sum over a finite set obeys its recursion.                            *)
LEMMA TotalExists ==
    ASSUME NEW S, IsFiniteSet(S), NEW f \in [S -> Int]
    PROVE  \E sum \in [SUBSET S -> Int] : \A T \in SUBSET S :
               sum[T] = SumStep(f, sum, T)
<1> DEFINE Upto(n) == {T \in SUBSET S : Cardinality(T) <= n}
           Sums(n) == \E g \in [Upto(n) -> Int] : \A T \in Upto(n) :
                          g[T] = IF T = {} THEN 0 ELSE f[First(T)] + g[T \ {First(T)}]
           bad == {n \in Nat : ~ Sums(n)}
<1>1. \A T \in SUBSET S : /\ IsFiniteSet(T) /\ Cardinality(T) \in Nat
                          /\ (Cardinality(T) = 0 <=> T = {})
                          /\ Cardinality(T) <= Cardinality(S)
    BY FS_Subset, FS_CardinalityType, FS_EmptySet
<1>2. \A T \in SUBSET S : T # {} =>
          /\ First(T) \in T /\ T \ {First(T)} \in SUBSET S
          /\ Cardinality(T \ {First(T)}) = Cardinality(T) - 1
    <2> TAKE T \in SUBSET S
    <2> HAVE T # {}
    <2>1. First(T) \in T
        BY DEF First
    <2> QED
        BY <1>1, <2>1, FS_RemoveElement
<1>3. bad = {}
    <2>1. SUFFICES ASSUME bad # {} PROVE FALSE
        OBVIOUS
    <2>2. PICK n \in bad : \A m \in bad : n <= m
        <3>1. bad \subseteq Nat
            OBVIOUS
        <3> HIDE DEF bad
        <3> QED
            BY <2>1, <3>1, LeastNumber
    <2>3. n # 0
        <3> DEFINE g == [T \in Upto(0) |-> 0]
        <3>1. \A T \in Upto(0) : T = {}
            BY <1>1
        <3>2. g \in [Upto(0) -> Int] /\ \A T \in Upto(0) : g[T] = 0
            OBVIOUS
        <3>3. Sums(0)
            BY <3>1, <3>2
        <3> HIDE DEF Sums
        <3> QED
            BY <2>2, <3>3
    <2>4. n - 1 \in Nat /\ Sums(n - 1) /\ n \in Nat
        <3>1. n - 1 \in Nat /\ n \in Nat /\ ~ (n <= n - 1)
            BY <2>2, <2>3
        <3>2. n - 1 \notin bad
            <4> HIDE DEF bad
            <4> QED
                BY <2>2, <3>1
        <3> HIDE DEF Sums
        <3> QED
            BY <3>1, <3>2
    <2>5. PICK g \in [Upto(n - 1) -> Int] : \A T \in Upto(n - 1) :
              g[T] = IF T = {} THEN 0 ELSE f[First(T)] + g[T \ {First(T)}]
        BY <2>4
    <2>6. \A T \in Upto(n) : T # {} => T \ {First(T)} \in Upto(n - 1) /\ First(T) \in S
        BY <1>1, <1>2, <2>4
    <2>7. \A T \in Upto(n - 1) : T \in Upto(n)
        BY <1>1, <2>4
    <2> DEFINE h == [T \in Upto(n) |-> IF T = {} THEN 0 ELSE f[First(T)] + g[T \ {First(T)}]]
    <2> HIDE DEF Upto
    <2>8. h \in [Upto(n) -> Int]
        BY <2>5, <2>6
    <2>9. \A T \in Upto(n - 1) : h[T] = g[T]
        BY <2>5, <2>7
    <2>10. \A T \in Upto(n) : h[T] = IF T = {} THEN 0 ELSE f[First(T)] + h[T \ {First(T)}]
        <3> TAKE T \in Upto(n)
        <3>1. T # {} => h[T \ {First(T)}] = g[T \ {First(T)}]
            BY <2>6, <2>9
        <3> QED
            BY <3>1
    <2> HIDE DEF h
    <2>11. Sums(n)
        BY <2>8, <2>10
    <2> QED
        BY <2>2, <2>11
<1>4. Cardinality(S) \in Nat /\ Upto(Cardinality(S)) = SUBSET S
    BY <1>1
<1>5. Sums(Cardinality(S))
    BY <1>3, <1>4
<1> HIDE DEF Upto
<1> QED
    BY <1>4, <1>5 DEF SumStep

LEMMA TotalRecursion ==
    ASSUME NEW S, IsFiniteSet(S), NEW f \in [S -> Int]
    PROVE  \E sum : SumsOf(f, sum, S)
<1> DEFINE Step(i) == [T \in SUBSET S |-> SumStep(f, i, T)]
           sum == CHOOSE i : i = Step(i)
<1>1. \E i : i = Step(i)
    <2>1. PICK i \in [SUBSET S -> Int] : \A T \in SUBSET S : i[T] = SumStep(f, i, T)
        BY TotalExists, Zenon
    <2>2. i = Step(i)
        BY <2>1
    <2> QED
        BY <2>2
<1>2. sum = Step(sum)
    BY <1>1
<1>3. DOMAIN f = S
    OBVIOUS
<1>4. Total(f) = sum[S]
    BY <1>3 DEF Total, MapThenSumSet, MapThenFoldSet, First, SumStep
<1>5. PICK i : i = sum
    OBVIOUS
<1>6. i = Step(i)
    BY <1>2, <1>5
<1>7. \A T \in SUBSET S : i[T] = SumStep(f, i, T)
    <2> HIDE DEF sum
    <2> QED
        BY <1>6
<1> HIDE DEF sum
<1> DEFINE bad == {n \in Nat : \E T \in SUBSET S : Cardinality(T) = n /\ i[T] \notin Int}
<1>8. \A T \in SUBSET S : Cardinality(T) \in Nat /\ IsFiniteSet(T)
    BY FS_Subset, FS_CardinalityType
<1>9. bad = {}
    <2>1. SUFFICES ASSUME bad # {} PROVE FALSE
        OBVIOUS
    <2>2. PICK n \in bad : \A m \in bad : n <= m
        <3>1. bad \subseteq Nat
            OBVIOUS
        <3> HIDE DEF bad
        <3> QED
            BY <2>1, <3>1, LeastNumber
    <2>3. PICK T \in SUBSET S : Cardinality(T) = n /\ i[T] \notin Int
        BY <2>2
    <2>4. T # {} /\ i[T] = f[First(T)] + i[T \ {First(T)}]
        BY <1>7, <2>3 DEF SumStep
    <2>5. First(T) \in T
        BY <2>4 DEF First
    <2>6. Cardinality(T \ {First(T)}) = n - 1 /\ T \ {First(T)} \in SUBSET S
        BY <1>8, <2>3, <2>5, FS_RemoveElement
    <2>7. i[T \ {First(T)}] \in Int
        <3>1. ~ (n <= n - 1) /\ n - 1 \in Nat
            BY <1>8, <2>2, <2>6
        <3>2. n - 1 \notin bad
            <4> HIDE DEF bad
            <4> QED
                BY <2>2, <3>1
        <3> QED
            BY <2>6, <3>1, <3>2
    <2>8. f[First(T)] \in Int
        BY <2>3, <2>5
    <2> QED
        BY <2>3, <2>4, <2>7, <2>8
<1>10. i \in [SUBSET S -> Int]
    <2>1. \A T \in SUBSET S : i[T] \in Int
        BY <1>8, <1>9
    <2> QED
        BY <1>6, <2>1
<1> QED
    BY <1>4, <1>5, <1>7, <1>10 DEF SumsOf

LEMMA TotalType ==
    ASSUME NEW S, IsFiniteSet(S), NEW f \in [S -> Int]
    PROVE  Total(f) \in Int
<1>1. PICK a : SumsOf(f, a, S)
    BY TotalRecursion
<1>2. a \in [SUBSET S -> Int] /\ Total(f) = a[S] /\ S \in SUBSET S
    BY <1>1 DEF SumsOf
<1> QED
    BY <1>2

(* A sum changes by as much as the one term that changes.                    *)
LEMMA TotalChange ==
    ASSUME NEW S, IsFiniteSet(S), NEW f \in [S -> Int], NEW h \in [S -> Int],
           NEW x, NEW d \in Int, x \in S => h[x] = f[x] + d,
           \A y \in S : y # x => h[y] = f[y]
    PROVE  /\ Total(f) \in Int /\ Total(h) \in Int
           /\ Total(h) = Total(f) + (IF x \in S THEN d ELSE 0)
<1>0. PICK a, b : SumsOf(f, a, S) /\ SumsOf(h, b, S)
    BY TotalRecursion
<1>1. a \in [SUBSET S -> Int] /\ Total(f) = a[S]
      /\ \A T \in SUBSET S : a[T] = SumStep(f, a, T)
    BY <1>0 DEF SumsOf
<1>2. b \in [SUBSET S -> Int] /\ Total(h) = b[S]
      /\ \A T \in SUBSET S : b[T] = SumStep(h, b, T)
    BY <1>0 DEF SumsOf
<1>3. \A T \in SUBSET S : Cardinality(T) \in Nat /\ IsFiniteSet(T)
    BY FS_Subset, FS_CardinalityType
<1> DEFINE Off(T) == IF x \in T THEN d ELSE 0
           bad == {n \in Nat : \E T \in SUBSET S :
                       Cardinality(T) = n /\ b[T] # a[T] + Off(T)}
<1>4. bad = {}
    <2>1. SUFFICES ASSUME bad # {} PROVE FALSE
        OBVIOUS
    <2>2. PICK n \in bad : \A m \in bad : n <= m
        <3>1. bad \subseteq Nat
            OBVIOUS
        <3> HIDE DEF bad
        <3> QED
            BY <2>1, <3>1, LeastNumber
    <2>3. PICK T \in SUBSET S : Cardinality(T) = n /\ b[T] # a[T] + Off(T)
        BY <2>2
    <2>4. T # {}
        <3>1. a[{}] = 0 /\ b[{}] = 0 /\ Off({}) = 0
            <4>1. a[{}] = SumStep(f, a, {}) /\ b[{}] = SumStep(h, b, {})
                BY <1>1, <1>2
            <4> QED
                BY <4>1 DEF SumStep
        <3>2. b[{}] = a[{}] + Off({})
            BY <3>1
        <3>3. b[T] # a[T] + Off(T)
            BY <2>3
        <3> HIDE DEF Off, bad
        <3> QED
            BY <3>2, <3>3, Zenon
    <2> DEFINE y == First(T)
               R == T \ {y}
    <2>5. y \in T /\ a[T] = f[y] + a[R] /\ b[T] = h[y] + b[R]
        <3>1. y \in T
            BY <2>4 DEF First
        <3> QED
            BY <1>1, <1>2, <2>4, <3>1 DEF SumStep
    <2> HIDE DEF y
    <2>6. Cardinality(R) = n - 1 /\ R \in SUBSET S
        BY <1>3, <2>3, <2>5, FS_RemoveElement
    <2>7. b[R] = a[R] + Off(R)
        <3>1. ~ (n <= n - 1) /\ n - 1 \in Nat
            BY <1>3, <2>2, <2>6
        <3>2. n - 1 \notin bad
            <4> HIDE DEF bad
            <4> QED
                BY <2>2, <3>1
        <3> HIDE DEF Off, R
        <3> QED
            BY <2>6, <3>1, <3>2
    <2>8. y \in S /\ f[y] \in Int /\ h[y] \in Int /\ a[R] \in Int /\ b[R] \in Int
        BY <1>1, <1>2, <2>3, <2>5, <2>6
    <2>9. h[y] = f[y] + (IF y = x THEN d ELSE 0)
        BY <2>8
    <2>10. x \in T <=> (x = y \/ x \in R)
        BY <2>5
    <2>11. x \in R => x # y
        OBVIOUS
    <2> HIDE DEF R
    <2>12. b[T] = a[T] + Off(T)
        BY <2>5, <2>7, <2>8, <2>9, <2>10, <2>11
    <2> QED
        BY <2>3, <2>12
<1>5. S \in SUBSET S /\ Cardinality(S) \in Nat
    BY <1>3
<1>6. b[S] = a[S] + Off(S)
    <2> HIDE DEF Off
    <2> QED
        BY <1>4, <1>5
<1> QED
    BY <1>1, <1>2, <1>5, <1>6

-----------------------------------------------------------------------------
(* Routes                                                                  *)

LEMMA RankFacts ==
    Rank \in [Stages -> Nat] /\ \A s \in Stages : Out[s] # None => Rank[s] = Rank[Out[s]] + 1
<1>1. \E r \in [Stages -> 0 .. Cardinality(Stages)] : Leads(r)
    BY DemoAssumption
<1>2. Rank \in [Stages -> 0 .. Cardinality(Stages)] /\ Leads(Rank)
    BY <1>1 DEF Rank
<1>3. \A k \in 0 .. Cardinality(Stages) : k \in Nat
    OBVIOUS
<1>4. Rank \in [Stages -> Nat]
    BY <1>2, <1>3
<1> QED
    BY <1>2, <1>4 DEF Leads

LEMMA RouteClosed ==
    ASSUME NEW g \in Sources
    PROVE  /\ Route(g) \subseteq Stages /\ Feeds[g] \in Route(g)
           /\ \A s \in Route(g) : Out[s] # None => Out[s] \in Route(g)
<1>1. Feeds[g] \in Stages
    BY DemoAssumption
<1>2. ASSUME NEW s \in Route(g), Out[s] # None PROVE Out[s] \in Route(g)
    <2>1. s \in Stages /\ Out[s] \in Stages
        BY <1>2, DemoAssumption DEF Route, Routes
    <2> QED
        BY <1>2, <2>1 DEF Route, Routes
<1> QED
    BY <1>1, <1>2 DEF Route, Routes

(* Every stage of a route but the first follows another one of it.           *)
LEMMA RouteFrom ==
    ASSUME NEW g \in Sources, NEW s \in Route(g), s # Feeds[g]
    PROVE  \E t \in Route(g) : Out[t] = s
<1> DEFINE T == Route(g) \ {s}
<1>1. T \in SUBSET Stages /\ Feeds[g] \in T
    BY RouteClosed
<1>2. s \notin T
    OBVIOUS
<1>3. PICK t \in T : Out[t] # None /\ Out[t] \notin T
    <2> HIDE DEF T
    <2> QED
        BY <1>1, <1>2 DEF Route, Routes
<1>4. Out[t] \in Route(g)
    BY <1>3, RouteClosed
<1> QED
    BY <1>3, <1>4

(* A route passes every distance from its end at most once, its first stage  *)
(* being the farthest: merging routes do not cross again.                    *)
LEMMA RouteUnique ==
    ASSUME NEW g \in Sources, NEW s \in Route(g)
    PROVE  /\ Rank[s] <= Rank[Feeds[g]]
           /\ \A t \in Route(g) : Rank[t] = Rank[s] => t = s
<1>1. Route(g) \subseteq Stages /\ Feeds[g] \in Route(g)
      /\ \A t \in Route(g) : Out[t] # None => Out[t] \in Route(g)
    BY RouteClosed
<1>2. \A t \in Route(g) : Rank[t] \in Nat
    BY <1>1, RankFacts
<1>3. \A t \in Route(g) : Out[t] # None => Rank[t] = Rank[Out[t]] + 1
    BY <1>1, RankFacts
<1>4. ASSUME NEW T \in SUBSET Route(g), Feeds[g] \in T,
             \A t \in T : Out[t] # None => Out[t] \in T
      PROVE  Route(g) \subseteq T
    BY <1>1, <1>4 DEF Route, Routes
<1>5. \A t \in Route(g) : Rank[t] <= Rank[Feeds[g]]
    <2> DEFINE T == {t \in Route(g) : Rank[t] <= Rank[Feeds[g]]}
    <2>1. Feeds[g] \in T
        BY <1>1, <1>2
    <2>2. ASSUME NEW t \in T, Out[t] # None PROVE Out[t] \in T
        <3>1. /\ Rank[t] \in Nat /\ Rank[Out[t]] \in Nat /\ Rank[Feeds[g]] \in Nat
              /\ Rank[t] = Rank[Out[t]] + 1 /\ Out[t] \in Route(g)
            BY <1>1, <1>2, <1>3, <2>2
        <3> QED
            BY <3>1
    <2>3. T \in SUBSET Route(g)
        OBVIOUS
    <2>4. Route(g) \subseteq T
        <3> HIDE DEF T
        <3> QED
            BY <1>4, <2>1, <2>2, <2>3
    <2> QED
        BY <2>4
<1>6. \A t \in Route(g) : t # Feeds[g] => \E u \in Route(g) : Out[u] = t
    BY RouteFrom
<1>7. None \notin Route(g)
    BY <1>1, DemoAssumption
<1> DEFINE T == {t \in Route(g) : \A u \in Route(g) : Rank[u] = Rank[t] => u = t}
<1>8. Feeds[g] \in T
    <2>1. ASSUME NEW u \in Route(g), Rank[u] = Rank[Feeds[g]], u # Feeds[g] PROVE FALSE
        <3>1. PICK t \in Route(g) : Out[t] = u
            BY <1>6, <2>1
        <3>2. /\ Rank[t] = Rank[u] + 1 /\ Rank[t] <= Rank[Feeds[g]]
              /\ Rank[u] \in Nat /\ Rank[t] \in Nat
            BY <1>2, <1>3, <1>5, <1>7, <3>1
        <3> QED
            BY <2>1, <3>2
    <2> QED
        BY <1>1, <2>1
<1>9. ASSUME NEW t \in T, Out[t] # None PROVE Out[t] \in T
    <2>1. Out[t] \in Route(g) /\ Rank[t] = Rank[Out[t]] + 1
        BY <1>1, <1>3, <1>9
    <2>2. ASSUME NEW u \in Route(g), Rank[u] = Rank[Out[t]] PROVE u = Out[t]
        <3>1. Rank[u] \in Nat /\ Rank[t] \in Nat /\ Rank[t] = Rank[u] + 1
            BY <1>2, <2>1, <2>2
        <3>2. Rank[Feeds[g]] \in Nat /\ Rank[t] <= Rank[Feeds[g]]
            BY <1>1, <1>2, <1>5
        <3>3. u # Feeds[g]
            BY <3>1, <3>2
        <3>4. PICK v \in Route(g) : Out[v] = u
            BY <1>6, <3>3
        <3>5. Rank[v] = Rank[u] + 1
            BY <1>3, <1>7, <3>4
        <3>6. v = t
            BY <3>1, <3>5
        <3> QED
            BY <3>4, <3>6
    <2> QED
        BY <2>1, <2>2
<1>10. Route(g) \subseteq T
    <2>1. T \in SUBSET Route(g)
        OBVIOUS
    <2> HIDE DEF T
    <2> QED
        BY <1>4, <1>8, <1>9, <2>1
<1> QED
    BY <1>5, <1>10

-----------------------------------------------------------------------------
(* Steps of the queues                                                     *)

(* What a push leaves in the queue of s are the fresh items, in their order. *)
LEMMA FreshFacts ==
    ASSUME DemoTypeOK, NEW s \in Stages
    PROVE  Thinned(Fresh(s), queue[s]) /\ (queue[s] = <<>> => Fresh(s) = <<>>)
<1>1. queue[s] \in Seq(Item)
    BY DEF DemoTypeOK
<1>2. Thinned(Fresh(s), queue[s])
    <2>1. Thinned(queue[s], queue[s])
        <3>1. PICK q \in Seq(Item) : q = queue[s]
            BY <1>1
        <3> QED
            BY <3>1 DEF Thinned
    <2> QED
        BY <1>1, <2>1, WithoutFacts DEF Fresh
<1>3. queue[s] = <<>> => Fresh(s) = <<>>
    BY <1>2 DEF Thinned
<1> QED
    BY <1>2, <1>3

LEMMA OneFacts == One \in {0, 1} /\ (~ inside_window => One = 0)
BY DEF One

\* The counters of c, and no others, grow by these amounts.
Counts(c, offered, dequeued, old, completed, expired) ==
    /\ window' \in [Stages \cup {Imu} -> Counters]
    /\ \A t \in Stages \cup {Imu} : t # c => window'[t] = window[t]
    /\ window'[c].offered = window[c].offered + offered
    /\ window'[c].dequeued = window[c].dequeued + dequeued
    /\ window'[c].evicted = window[c].evicted + old
    /\ window'[c].completed = window[c].completed + completed
    /\ window'[c].dropped = window[c].dropped + expired

(* Every counting step leaves counters.                                      *)
LEMMA CountPush ==
    ASSUME DemoTypeOK, NEW c \in Stages \cup {Imu}, NEW e \in Nat,
           window' = [window EXCEPT ![c].offered = @ + One, ![c].evicted = @ + e]
    PROVE  Counts(c, One, 0, e, 0, 0)
<1>1. window \in [Stages \cup {Imu} -> Counters] /\ One \in Nat
    BY OneFacts DEF DemoTypeOK
<1>2. PICK w \in Counters, n \in Nat : w = window[c] /\ n = One
    BY <1>1
<1>3. /\ w.offered \in Nat /\ w.dequeued \in Nat /\ w.evicted \in Nat
      /\ w.completed \in Nat /\ w.dropped \in Nat
    BY <1>2 DEF Counters
<1>4. PICK r : r = [offered |-> w.offered + n, dequeued |-> w.dequeued, evicted |->
          w.evicted + e, completed |-> w.completed, dropped |->
          w.dropped]
    OBVIOUS
<1>6. window' = [window EXCEPT ![c] = r]
    <2> DEFINE y == [offered |-> w.offered + n, dequeued |-> w.dequeued,
                     evicted |-> w.evicted, completed |-> w.completed,
                     dropped |-> w.dropped]
    <2>1. PICK x \in Counters : x = y /\ x = [w EXCEPT !.offered = @ + n]
        <3>1. y \in Counters
            BY <1>3 DEF Counters
        <3>2. w = [offered |-> w.offered, dequeued |-> w.dequeued, evicted |-> w.evicted,
                   completed |-> w.completed, dropped |-> w.dropped]
            BY <1>2 DEF Counters
        <3>3. y = [w EXCEPT !.offered = @ + n]
            BY <1>3, <3>2
        <3> QED
            BY <3>1, <3>3
    <2>2. r = [x EXCEPT !.evicted = @ + e]
        BY <1>3, <1>4, <2>1
    <2> HIDE DEF y
    <2>3. PICK f \in [Stages \cup {Imu} -> Counters] : f = [window EXCEPT ![c].offered = @ + One]
        <3>1. [window EXCEPT ![c].offered = @ + One] = [window EXCEPT ![c] = x]
            BY <1>1, <1>2, <2>1
        <3> QED
            BY <1>1, <2>1, <3>1
    <2>4. f = [window EXCEPT ![c] = x]
        BY <1>1, <1>2, <2>1, <2>3
    <2>5. window' = [f EXCEPT ![c].evicted = @ + e]
        BY <1>1, <2>3
    <2>6. f[c] = x
        BY <1>1, <2>4
    <2>7. window' = [f EXCEPT ![c] = r]
        BY <2>2, <2>3, <2>5, <2>6
    <2> QED
        BY <1>1, <2>4, <2>7
<1>7. r \in Counters
    BY <1>3, <1>4 DEF Counters
<1>8. window' \in [Stages \cup {Imu} -> Counters] /\ window'[c] = r
      /\ \A t \in Stages \cup {Imu} : t # c => window'[t] = window[t]
    BY <1>1, <1>6, <1>7
<1> QED
    BY <1>2, <1>3, <1>4, <1>8 DEF Counts

LEMMA CountPop ==
    ASSUME DemoTypeOK, NEW c \in Stages \cup {Imu},
           window' = [window EXCEPT ![c].dequeued = @ + One]
    PROVE  Counts(c, 0, One, 0, 0, 0)
<1>1. window \in [Stages \cup {Imu} -> Counters] /\ One \in Nat
    BY OneFacts DEF DemoTypeOK
<1>2. PICK w \in Counters, n \in Nat : w = window[c] /\ n = One
    BY <1>1
<1>3. /\ w.offered \in Nat /\ w.dequeued \in Nat /\ w.evicted \in Nat
      /\ w.completed \in Nat /\ w.dropped \in Nat
    BY <1>2 DEF Counters
<1>4. PICK r : r = [offered |-> w.offered, dequeued |-> w.dequeued + n, evicted |->
          w.evicted, completed |-> w.completed, dropped |->
          w.dropped]
    OBVIOUS
<1>5. r = [w EXCEPT !.dequeued = @ + n]
    BY <1>4 DEF Counters
<1>6. window' = [window EXCEPT ![c] = r]
    BY <1>1, <1>2, <1>5
<1>7. r \in Counters
    BY <1>3, <1>4 DEF Counters
<1>8. window' \in [Stages \cup {Imu} -> Counters] /\ window'[c] = r
      /\ \A t \in Stages \cup {Imu} : t # c => window'[t] = window[t]
    BY <1>1, <1>6, <1>7
<1> QED
    BY <1>2, <1>3, <1>4, <1>8 DEF Counts

LEMMA CountCompletion ==
    ASSUME DemoTypeOK, NEW c \in Stages \cup {Imu},
           window' = [window EXCEPT ![c].completed = @ + One]
    PROVE  Counts(c, 0, 0, 0, One, 0)
<1>1. window \in [Stages \cup {Imu} -> Counters] /\ One \in Nat
    BY OneFacts DEF DemoTypeOK
<1>2. PICK w \in Counters, n \in Nat : w = window[c] /\ n = One
    BY <1>1
<1>3. /\ w.offered \in Nat /\ w.dequeued \in Nat /\ w.evicted \in Nat
      /\ w.completed \in Nat /\ w.dropped \in Nat
    BY <1>2 DEF Counters
<1>4. PICK r : r = [offered |-> w.offered, dequeued |-> w.dequeued, evicted |->
          w.evicted, completed |-> w.completed + n, dropped |->
          w.dropped]
    OBVIOUS
<1>5. r = [w EXCEPT !.completed = @ + n]
    BY <1>4 DEF Counters
<1>6. window' = [window EXCEPT ![c] = r]
    BY <1>1, <1>2, <1>5
<1>7. r \in Counters
    BY <1>3, <1>4 DEF Counters
<1>8. window' \in [Stages \cup {Imu} -> Counters] /\ window'[c] = r
      /\ \A t \in Stages \cup {Imu} : t # c => window'[t] = window[t]
    BY <1>1, <1>6, <1>7
<1> QED
    BY <1>2, <1>3, <1>4, <1>8 DEF Counts

LEMMA CountDrop ==
    ASSUME DemoTypeOK, NEW c \in Stages \cup {Imu},
           window' = [window EXCEPT ![c].dropped = @ + One]
    PROVE  Counts(c, 0, 0, 0, 0, One)
<1>1. window \in [Stages \cup {Imu} -> Counters] /\ One \in Nat
    BY OneFacts DEF DemoTypeOK
<1>2. PICK w \in Counters, n \in Nat : w = window[c] /\ n = One
    BY <1>1
<1>3. /\ w.offered \in Nat /\ w.dequeued \in Nat /\ w.evicted \in Nat
      /\ w.completed \in Nat /\ w.dropped \in Nat
    BY <1>2 DEF Counters
<1>4. PICK r : r = [offered |-> w.offered, dequeued |-> w.dequeued, evicted |->
          w.evicted, completed |-> w.completed, dropped |->
          w.dropped + n]
    OBVIOUS
<1>5. r = [w EXCEPT !.dropped = @ + n]
    BY <1>4 DEF Counters
<1>6. window' = [window EXCEPT ![c] = r]
    BY <1>1, <1>2, <1>5
<1>7. r \in Counters
    BY <1>3, <1>4 DEF Counters
<1>8. window' \in [Stages \cup {Imu} -> Counters] /\ window'[c] = r
      /\ \A t \in Stages \cup {Imu} : t # c => window'[t] = window[t]
    BY <1>1, <1>6, <1>7
<1> QED
    BY <1>2, <1>3, <1>4, <1>8 DEF Counts

(* BlockingQueue::push() touches nothing but the queue of s, its counters    *)
(* and, when the consumer waits, its hint.                                   *)
LEMMA PushFacts ==
    ASSUME DemoTypeOK, NEW s \in Stages, NEW v \in Item, Push(s, v)
    PROVE  /\ queue' \in [Stages -> Seq(Item)] /\ queue'[s] = Append(Fresh(s), v)
           /\ \A t \in Stages : t # s => queue'[t] = queue[t]
           /\ evicted' \in [Stages -> Nat]
           /\ evicted'[s] = evicted[s] + (Len(queue[s]) - Len(Fresh(s)))
           /\ \A t \in Stages : t # s => evicted'[t] = evicted[t]
           /\ waiting' \in [Stages -> BOOLEAN] /\ ~ waiting'[s]
           /\ \A t \in Stages : t # s => waiting'[t] = waiting[t]
           /\ hint' \in [Stages \cup {Imu} -> Item \cup {None}]
           /\ \A c \in Stages \cup {Imu} : c # s => hint'[c] = hint[c]
           /\ ~ waiting[s] => hint' = hint
           /\ waiting[s] /\ s \notin Unhinted => hint'[s] = v
           /\ Counts(s, One, 0, (Len(queue[s]) - Len(Fresh(s))) * One, 0, 0)
<1> DEFINE old == Len(queue[s]) - Len(Fresh(s))
<1>1. old \in Nat /\ Append(Fresh(s), v) \in Seq(Item) /\ queue[s] \in Seq(Item)
    BY FreshFacts DEF DemoTypeOK, Thinned
<1>2. /\ queue' = [queue EXCEPT ![s] = Append(Fresh(s), v)]
      /\ evicted' = [evicted EXCEPT ![s] = @ + old]
      /\ window' = [window EXCEPT ![s].offered = @ + One, ![s].evicted = @ + old * One]
      /\ waiting' = [waiting EXCEPT ![s] = FALSE]
      /\ IF waiting[s] THEN Publish(s, v) ELSE hint' = hint
    BY DEF Push, Pushed, PublishesOnWake
<1> HIDE DEF old
<1>3. /\ queue' \in [Stages -> Seq(Item)] /\ queue'[s] = Append(Fresh(s), v)
      /\ \A t \in Stages : t # s => queue'[t] = queue[t]
    BY <1>1, <1>2 DEF DemoTypeOK
<1>4. /\ evicted' \in [Stages -> Nat] /\ evicted'[s] = evicted[s] + old
      /\ \A t \in Stages : t # s => evicted'[t] = evicted[t]
    <2>1. evicted \in [Stages -> Nat] /\ evicted[s] + old \in Nat
        BY <1>1 DEF DemoTypeOK
    <2> QED
        BY <1>2, <2>1
<1>5. /\ waiting' \in [Stages -> BOOLEAN] /\ ~ waiting'[s]
      /\ \A t \in Stages : t # s => waiting'[t] = waiting[t]
    BY <1>2 DEF DemoTypeOK
<1>6. /\ hint' \in [Stages \cup {Imu} -> Item \cup {None}]
      /\ \A c \in Stages \cup {Imu} : c # s => hint'[c] = hint[c]
      /\ ~ waiting[s] => hint' = hint
      /\ waiting[s] /\ s \notin Unhinted => hint'[s] = v
    <2>1. hint \in [Stages \cup {Imu} -> Item \cup {None}] /\ s \in Stages \cup {Imu}
          /\ v \in Item \cup {None}
        BY DEF DemoTypeOK
    <2>2. CASE waiting[s]
        <3>1. hint' \in {[hint EXCEPT ![s] = v]} \cup (IF s \in Unhinted THEN {hint} ELSE {})
            BY <1>2, <2>2 DEF Publish
        <3> HIDE DEF Item
        <3>2. hint' = [hint EXCEPT ![s] = v] \/ (s \in Unhinted /\ hint' = hint)
            BY <3>1
        <3> QED
            BY <2>1, <2>2, <3>2
    <2>3. CASE ~ waiting[s]
        BY <1>2, <2>1, <2>3
    <2> QED
        BY <2>2, <2>3
<1>7. Counts(s, One, 0, old * One, 0, 0)
    <2>1. PICK n \in Nat : n = old * One
        BY <1>1, OneFacts
    <2>2. window' = [window EXCEPT ![s].offered = @ + One, ![s].evicted = @ + n]
        BY <1>2, <2>1
    <2>3. Counts(s, One, 0, n, 0, 0)
        BY <2>2, CountPush
    <2> QED
        BY <2>1, <2>3
<1> QED
    BY <1>3, <1>4, <1>5, <1>6, <1>7 DEF old

LEMMA WokenFacts ==
    ASSUME DemoTypeOK, NEW s \in Stages
    PROVE  /\ Woken(s) \in [Stages -> {"enroll", "test", "pop", "asleep", "judge", "work",
                                       "push", "gone"}]
           /\ \A t \in Stages : t # s \/ stage[t] # "asleep" => Woken(s)[t] = stage[t]
           /\ stage[s] = "asleep" => Woken(s)[s] = "pop"
BY DEF DemoTypeOK, Woken

-----------------------------------------------------------------------------
(* The invariant, part by part                                             *)

(* What generators and stages push is an item, and a generator pushes its    *)
(* frames without a gap.                                                     *)
LEMMA PushedItems ==
    ASSUME DemoInv
    PROVE  /\ \A g \in Sources : Feeds[g] \in Stages
           /\ \A g \in Sources : Released(g) => <<g, frame[g] + 1>> \in Item
           /\ \A g \in Sources : Released(g) /\ ~ Delivering(g) /\ ~ InBurst(g) =>
                  held[g] = <<>> /\ frame[g] = generated[g]
           /\ \A g \in Sources : Delivering(g) =>
                  /\ held[g] # <<>> /\ Head(held[g]) = <<g, generated[g] + 1>>
                  /\ Head(held[g]) \in Item
           /\ \A s \in Stages : stage[s] = "push" => Out[s] \in Stages /\ item[s] \in Item
<1>1. DemoTypeOK /\ StagePlace /\ SourcePlace
    BY DEF DemoInv
<1>2. Feeds \in [Sources -> Stages] /\ Out \in [Stages -> Stages \cup {None}]
      /\ Frames \in [Sources \cup {Imu} -> Nat] /\ BurstAt \in [Sources -> Int]
    BY DemoAssumption
<1>3. ASSUME NEW g \in Sources, Released(g) PROVE <<g, frame[g] + 1>> \in Item
    <2>1. frame[g] \in Nat /\ frame[g] < Frames[g] /\ Frames[g] \in Nat /\ g \in Producers
        BY <1>1, <1>2, <1>3 DEF DemoTypeOK, Released, Producers
    <2> QED
        BY <2>1 DEF Item
<1>4. ASSUME NEW g \in Sources, held[g] # <<>>
      PROVE  /\ held[g] \in Seq(Item) /\ 1 \in 1 .. Len(held[g])
             /\ Head(held[g]) = held[g][1] /\ held[g][1] \in Item
             /\ held[g][1] = <<g, generated[g] + 1>>
             /\ held[g][Len(held[g])] = <<g, frame[g]>>
    <2>1. held[g] \in Seq(Item)
        BY <1>1 DEF DemoTypeOK
    <2>2. Len(held[g]) \in Nat /\ Len(held[g]) # 0
        BY <1>4, <2>1
    <2>3. \A i \in 1 .. Len(held[g]) : held[g][i] = <<g, generated[g] + i>>
        BY <1>1 DEF SourcePlace
    <2>4. frame[g] = generated[g] + Len(held[g])
        BY <1>1 DEF SourcePlace
    <2>5. Len(held[g]) \in 1 .. Len(held[g]) /\ 1 \in 1 .. Len(held[g])
        BY <2>2
    <2> QED
        BY <1>4, <2>1, <2>3, <2>4, <2>5
<1>5. ASSUME NEW g \in Sources, Released(g), ~ Delivering(g), ~ InBurst(g)
      PROVE  held[g] = <<>> /\ frame[g] = generated[g]
    <2>1. frame[g] \in Nat /\ generated[g] \in Nat /\ frame[g] = generated[g] + Len(held[g])
          /\ BurstFirst[g] \in Nat /\ BurstAt[g] \in Int
        BY <1>1, DemoAssumption DEF DemoTypeOK, SourcePlace
    <2>2. CASE held[g] # <<>>
        <3>1. ~ (held[g][Len(held[g])] = <<g, BurstAt[g] + 1>>)
            BY <1>5, <2>2 DEF Delivering
        <3>2. frame[g] # BurstAt[g] + 1
            BY <1>4, <2>2, <3>1
        <3>3. BurstFirst[g] < frame[g] /\ frame[g] <= BurstAt[g]
            BY <1>1, <2>2, <3>2 DEF SourcePlace
        <3> QED
            BY <1>5, <2>1, <3>3 DEF InBurst
    <2>3. CASE held[g] = <<>>
        <3>1. Len(held[g]) = 0
            BY <2>3
        <3> QED
            BY <2>1, <2>3, <3>1
    <2> QED
        BY <2>2, <2>3
<1>6. ASSUME NEW g \in Sources, Delivering(g)
      PROVE  /\ held[g] # <<>> /\ Head(held[g]) = <<g, generated[g] + 1>>
             /\ Head(held[g]) \in Item
    <2>1. held[g] # <<>>
        BY <1>6 DEF Delivering
    <2> QED
        BY <1>4, <2>1
<1>7. ASSUME NEW s \in Stages, stage[s] = "push" PROVE Out[s] \in Stages /\ item[s] \in Item
    BY <1>1, <1>2, <1>7 DEF StagePlace
<1> QED
    BY <1>2, <1>3, <1>5, <1>6, <1>7

(* No step leaves the types.                                                 *)
LEMMA TypeNext ==
    ASSUME DemoInv, Next
    PROVE  DemoTypeOK'
<1>0. DemoTypeOK
    BY DEF DemoInv
<1>1. ASSUME NEW g \in Sources, Hold(g) PROVE DemoTypeOK'
    <2>1. <<g, frame[g] + 1>> \in Item
        BY <1>1, PushedItems DEF Hold
    <2>2. held' \in [Sources -> Seq(Item)] /\ frame' \in [Sources -> Nat]
        BY <1>0, <1>1, <2>1 DEF DemoTypeOK, Hold
    <2> QED
        BY <1>0, <1>1, <2>2 DEF DemoTypeOK, Hold, genVars, queueVars, statVars, imuVars, mainVars
<1>2. ASSUME NEW g \in Sources, Generate(g) PROVE DemoTypeOK'
    <2>1. /\ Feeds[g] \in Stages /\ <<g, frame[g] + 1>> \in Item
          /\ Push(Feeds[g], <<g, frame[g] + 1>>)
        BY <1>2, PushedItems DEF Generate
    <2>2. /\ queue' \in [Stages -> Seq(Item)] /\ evicted' \in [Stages -> Nat]
          /\ waiting' \in [Stages -> BOOLEAN]
          /\ hint' \in [Stages \cup {Imu} -> Item \cup {None}]
          /\ window' \in [Stages \cup {Imu} -> Counters]
        BY <1>0, <2>1, PushFacts DEF Counts
    <2>3. /\ stage' = Woken(Feeds[g]) /\ frame' = [frame EXCEPT ![g] = @ + 1]
          /\ generated' = [generated EXCEPT ![g] = @ + 1]
          /\ UNCHANGED <<now, mainVars, held, item, statVars, imuVars, cut>>
        BY <1>2 DEF Generate
    <2>4. /\ frame' \in [Sources -> Nat] /\ generated' \in [Sources -> Nat]
          /\ held' \in [Sources -> Seq(Item)]
        BY <1>0, <2>3 DEF DemoTypeOK
    <2>5. stage' \in [Stages -> {"enroll", "test", "pop", "asleep", "judge", "work",
                                 "push", "gone"}]
        BY <1>0, <2>1, <2>3, WokenFacts
    <2> QED
        BY <1>0, <2>2, <2>3, <2>4, <2>5 DEF DemoTypeOK, statVars, imuVars, mainVars
<1>3. ASSUME NEW g \in Sources, Deliver(g) PROVE DemoTypeOK'
    <2>1. /\ Feeds[g] \in Stages /\ Head(held[g]) \in Item
          /\ Push(Feeds[g], Head(held[g]))
        BY <1>3, PushedItems DEF Deliver
    <2>2. /\ queue' \in [Stages -> Seq(Item)] /\ evicted' \in [Stages -> Nat]
          /\ waiting' \in [Stages -> BOOLEAN]
          /\ hint' \in [Stages \cup {Imu} -> Item \cup {None}]
          /\ window' \in [Stages \cup {Imu} -> Counters]
        BY <1>0, <2>1, PushFacts DEF Counts
    <2>3. /\ stage' = Woken(Feeds[g]) /\ held' = [held EXCEPT ![g] = Tail(@)]
          /\ generated' = [generated EXCEPT ![g] = @ + 1]
          /\ UNCHANGED <<now, mainVars, frame, item, statVars, imuVars, cut>>
        BY <1>3 DEF Deliver
    <2>4. frame' \in [Sources -> Nat] /\ generated' \in [Sources -> Nat]
        BY <1>0, <2>3 DEF DemoTypeOK
    <2>5. stage' \in [Stages -> {"enroll", "test", "pop", "asleep", "judge", "work",
                                 "push", "gone"}]
        BY <1>0, <2>1, <2>3, WokenFacts
    <2>6. held[g] \in Seq(Item) /\ held[g] # <<>>
        BY <1>0, <1>3, PushedItems DEF DemoTypeOK, Deliver
    <2>7. Tail(held[g]) \in Seq(Item)
        BY <2>6
    <2>8. held' \in [Sources -> Seq(Item)]
        BY <1>0, <2>3, <2>7 DEF DemoTypeOK
    <2> QED
        BY <1>0, <2>2, <2>3, <2>4, <2>5, <2>8 DEF DemoTypeOK, statVars, imuVars, mainVars
<1>4. ASSUME NEW s \in Stages, Enroll(s) PROVE DemoTypeOK'
    BY <1>0, <1>4 DEF DemoTypeOK, Enroll, genVars, queueVars, statVars, imuVars, mainVars
<1>5. ASSUME NEW s \in Stages, TestRunning(s) PROVE DemoTypeOK'
    BY <1>0, <1>5 DEF DemoTypeOK, TestRunning, genVars, queueVars, statVars, imuVars, mainVars
<1>6. ASSUME NEW s \in Stages, PopWait(s) PROVE DemoTypeOK'
    BY <1>0, <1>6 DEF DemoTypeOK, PopWait, genVars, queueVars, statVars, imuVars, mainVars
<1>7. ASSUME NEW s \in Stages, PopStopped(s) PROVE DemoTypeOK'
    BY <1>0, <1>7 DEF DemoTypeOK, PopStopped, genVars, queueVars, statVars, imuVars, mainVars
<1>8. ASSUME NEW s \in Stages, PopTake(s) PROVE DemoTypeOK'
    <2>1. queue[s] \in Seq(Item) /\ queue[s] # <<>>
        BY <1>0, <1>8 DEF DemoTypeOK, PopTake
    <2>2. Head(queue[s]) \in Item /\ Tail(queue[s]) \in Seq(Item)
        BY <2>1
    <2>3. /\ item' = [item EXCEPT ![s] = Head(queue[s])]
          /\ queue' = [queue EXCEPT ![s] = Tail(@)]
          /\ window' = [window EXCEPT ![s].dequeued = @ + One]
          /\ waiting' = [waiting EXCEPT ![s] = FALSE]
          /\ stage' = [stage EXCEPT ![s] = "judge"]
          /\ UNCHANGED <<now, mainVars, genVars, evicted, statVars, imuVars, cut>>
        BY <1>8 DEF PopTake
    <2>4. window' \in [Stages \cup {Imu} -> Counters]
        BY <1>0, <2>3, CountPop DEF Counts
    <2>5. hint' \in [Stages \cup {Imu} -> Item \cup {None}]
        <3>1. hint' = [hint EXCEPT ![s] = Head(queue[s])] \/ hint' = hint
            BY <1>8 DEF PopTake, Publish
        <3>2. hint \in [Stages \cup {Imu} -> Item \cup {None}]
            BY <1>0 DEF DemoTypeOK
        <3> QED
            BY <2>2, <3>1, <3>2
    <2>6. item' \in [Stages -> Item \cup {None}] /\ queue' \in [Stages -> Seq(Item)]
          /\ waiting' \in [Stages -> BOOLEAN]
        BY <1>0, <2>2, <2>3 DEF DemoTypeOK
    <2>7. stage' \in [Stages -> {"enroll", "test", "pop", "asleep", "judge", "work",
                                 "push", "gone"}]
        BY <1>0, <2>3 DEF DemoTypeOK
    <2> QED
        BY <1>0, <2>3, <2>4, <2>5, <2>6, <2>7
           DEF DemoTypeOK, genVars, statVars, imuVars, mainVars
<1>9. ASSUME NEW s \in Stages, Drop(s) PROVE DemoTypeOK'
    <2>1. window' \in [Stages \cup {Imu} -> Counters]
        BY <1>0, <1>9, CountDrop DEF Counts, Drop
    <2> QED
        BY <1>0, <2>1, <1>9 DEF DemoTypeOK, Drop, genVars, queueVars, statVars, imuVars, mainVars
<1>10. ASSUME NEW s \in Stages, Compute(s) PROVE DemoTypeOK'
    BY <1>0, <1>10 DEF DemoTypeOK, Compute, genVars, queueVars, statVars, imuVars, mainVars
<1>11. ASSUME NEW s \in Stages, Complete(s) PROVE DemoTypeOK'
    <2>1. window' \in [Stages \cup {Imu} -> Counters]
        BY <1>0, <1>11, CountCompletion DEF Counts, Complete
    <2>2. processed' \in [Stages \cup {Imu} -> Nat]
        BY <1>0, <1>11 DEF DemoTypeOK, Complete
    <2>3. stage' \in [Stages -> {"enroll", "test", "pop", "asleep", "judge", "work",
                                 "push", "gone"}]
        BY <1>0, <1>11 DEF DemoTypeOK, Complete
    <2> QED
        BY <1>0, <2>1, <2>2, <2>3, <1>11 DEF DemoTypeOK, Complete, genVars, queueVars, statVars, imuVars, mainVars
<1>12. ASSUME NEW s \in Stages, Forward(s) PROVE DemoTypeOK'
    <2>0. stage[s] = "push"
        BY <1>12 DEF Forward
    <2>1. /\ Out[s] \in Stages /\ item[s] \in Item
          /\ Push(Out[s], item[s])
        BY <2>0, <1>12, PushedItems DEF Forward
    <2>2. /\ queue' \in [Stages -> Seq(Item)] /\ evicted' \in [Stages -> Nat]
          /\ waiting' \in [Stages -> BOOLEAN]
          /\ hint' \in [Stages \cup {Imu} -> Item \cup {None}]
          /\ window' \in [Stages \cup {Imu} -> Counters]
        BY <1>0, <2>1, PushFacts DEF Counts
    <2>3. /\ stage' = [Woken(Out[s]) EXCEPT ![s] = "test"]
          /\ UNCHANGED <<now, mainVars, genVars, item, statVars, imuVars, cut>>
        BY <1>12 DEF Forward
    <2>4. stage' \in [Stages -> {"enroll", "test", "pop", "asleep", "judge", "work",
                                 "push", "gone"}]
        BY <1>0, <2>1, <2>3, WokenFacts
    <2> QED
        BY <1>0, <2>2, <2>3, <2>4 DEF DemoTypeOK, genVars, statVars, imuVars, mainVars
<1>13. ASSUME NEW s \in Stages, SpuriousWake(s) PROVE DemoTypeOK'
    BY <1>0, <1>13 DEF DemoTypeOK, SpuriousWake, genVars, queueVars, statVars, imuVars, mainVars
<1>14. ASSUME ImuStart PROVE DemoTypeOK'
    BY <1>0, <1>14 DEF DemoTypeOK, ImuStart, genVars, queueVars, statVars, imuVars, mainVars
<1>15. ASSUME ImuPublish PROVE DemoTypeOK'
    <2>1. <<Imu, job>> \in Item
        <3>1. job \in 1 .. Frames[Imu] + 1 /\ job <= Frames[Imu] /\ Frames[Imu] \in Nat
            BY <1>15, DemoAssumption DEF DemoInv, ImuPlace, ImuPublish
        <3> QED
            BY <3>1 DEF Item, Producers
    <2>2. hint' \in [Stages \cup {Imu} -> Item \cup {None}]
        <3>1. hint' = [hint EXCEPT ![Imu] = <<Imu, job>>] \/ hint' = hint
            BY <1>15 DEF ImuPublish, Publish
        <3>2. hint \in [Stages \cup {Imu} -> Item \cup {None}]
            BY <1>0 DEF DemoTypeOK
        <3> QED
            BY <2>1, <3>1, <3>2
    <2> QED
        BY <1>0, <2>2, <1>15 DEF DemoTypeOK, ImuPublish, genVars, queueVars, statVars, imuVars, mainVars
<1>16. ASSUME ImuWake PROVE DemoTypeOK'
    <2>1. window' \in [Stages \cup {Imu} -> Counters]
        BY <1>0, <1>16, CountPop DEF Counts, ImuWake
    <2> QED
        BY <1>0, <2>1, <1>16 DEF DemoTypeOK, ImuWake, genVars, queueVars, statVars, imuVars, mainVars
<1>17. ASSUME ImuComplete PROVE DemoTypeOK'
    <2>1. window' \in [Stages \cup {Imu} -> Counters]
        BY <1>0, <1>17, CountCompletion DEF Counts, ImuComplete
    <2>2. processed' \in [Stages \cup {Imu} -> Nat]
        BY <1>0, <1>17 DEF DemoTypeOK, ImuComplete
    <2> QED
        BY <1>0, <2>1, <2>2, <1>17 DEF DemoTypeOK, ImuComplete, genVars, queueVars, statVars, imuVars, mainVars
<1>18. ASSUME StartWorkload PROVE DemoTypeOK'
    BY <1>0, <1>18 DEF DemoTypeOK, StartWorkload, genVars, queueVars, statVars, imuVars, mainVars
<1>19. ASSUME JoinSources PROVE DemoTypeOK'
    BY <1>0, <1>19 DEF DemoTypeOK, JoinSources, genVars, queueVars, statVars, imuVars, mainVars
<1>20. ASSUME EndWindow PROVE DemoTypeOK'
    BY <1>0, <1>20 DEF DemoTypeOK, EndWindow, genVars, queueVars, statVars, imuVars, mainVars
<1>21. ASSUME StopQueue PROVE DemoTypeOK'
    <2>1. /\ stopped \in 0 .. Len(StopOrder) /\ stopped < Len(StopOrder)
          /\ Len(StopOrder) \in Nat
        BY <1>0, <1>21, DemoAssumption DEF DemoInv, DemoTypeOK, MainPlace, StopQueue
    <2>2. stopped + 1 \in 1 .. Len(StopOrder) /\ stopped + 1 \in 0 .. Len(StopOrder)
        BY <2>1
    <2>3. PICK s \in Stages : s = StopOrder[stopped + 1]
        BY <2>2, DemoAssumption
    <2>4. stop' = [stop EXCEPT ![s] = TRUE] /\ stage' = Woken(s) /\ stopped' = stopped + 1
        BY <1>21, <2>3 DEF StopQueue, StopFlag
    <2>5. stop' \in [Stages -> BOOLEAN] /\ stopped' \in 0 .. Len(StopOrder)
        BY <1>0, <2>2, <2>4 DEF DemoTypeOK
    <2>6. stage' \in [Stages -> {"enroll", "test", "pop", "asleep", "judge", "work",
                                 "push", "gone"}]
        BY <1>0, <2>4, WokenFacts
    <2>7. main' \in {"await", "run", "window", "stop", "join", "done"} /\ running' = running
          /\ UNCHANGED <<now, genVars, queueVars, item, statVars, imuVars, hint, window, cut>>
        BY <1>21 DEF StopQueue
    <2> QED
        BY <1>0, <2>5, <2>6, <2>7 DEF DemoTypeOK, genVars, queueVars, statVars, imuVars
<1>22. ASSUME JoinStages PROVE DemoTypeOK'
    BY <1>0, <1>22 DEF DemoTypeOK, JoinStages, genVars, queueVars, statVars, imuVars, mainVars
<1>23. ASSUME Tick PROVE DemoTypeOK'
    <2>1. now' \in 0 .. MaxTime
        BY <1>0, <1>23, DemoAssumption DEF DemoTypeOK, Tick
    <2>2. ASSUME NEW s \in Stages \cup {Imu} PROVE LoadOf(s) \in Load
        <3>1. CASE s = Imu
            <4>1. /\ job \in 1 .. Frames[Imu] + 1 /\ processed[Imu] = job - 1
                  /\ imu = "work" => job <= Frames[Imu]
                BY DEF DemoInv, ImuPlace
            <4>2. Frames[Imu] \in Nat
                BY DemoAssumption
            <4>3. Frames[Imu] - processed[Imu] - (IF imu = "work" THEN 1 ELSE 0) \in Nat
                BY <4>1, <4>2
            <4>4. (IF imu = "work" THEN 1 ELSE 0) \in Nat
                OBVIOUS
            <4> QED
                BY <3>1, <4>3, <4>4 DEF LoadOf, Load
        <3>2. CASE s \in Stages
            <4>1. s # Imu /\ Len(queue[s]) \in Nat /\ InHand(s) \in Nat
                <5>1. s # Imu /\ queue[s] \in Seq(Item)
                    BY <1>0, <3>2, DemoAssumption DEF DemoTypeOK
                <5>2. Len(queue[s]) \in Nat
                    BY <5>1
                <5> QED
                    BY <5>1, <5>2 DEF InHand
            <4> QED
                BY <4>1 DEF LoadOf, Load
        <3> QED
            BY <3>1, <3>2
    <2>3. cut' \in [Stages \cup {Imu} -> Load]
        <3>1. cut \in [Stages \cup {Imu} -> Load]
            BY <1>0 DEF DemoTypeOK
        <3>2. cut' = [s \in Stages \cup {Imu} |-> LoadOf(s)] \/ cut' = cut
            BY <1>23 DEF Tick
        <3> QED
            BY <2>2, <3>1, <3>2
    <2> QED
        BY <1>0, <2>1, <2>3, <1>23 DEF DemoTypeOK, Tick, genVars, queueVars, statVars, imuVars, mainVars
<1>24. ASSUME Ended PROVE DemoTypeOK'
    BY <1>0, <1>24 DEF DemoTypeOK, Ended, vars, genVars, queueVars, statVars, imuVars, mainVars
<1> QED
    BY <1>1, <1>2, <1>3, <1>4, <1>5, <1>6, <1>7, <1>8, <1>9, <1>10, <1>11, <1>12,
       <1>13, <1>14, <1>15, <1>16, <1>17, <1>18, <1>19, <1>20, <1>21, <1>22,
       <1>23, <1>24 DEF Next, Stage, ImuThread, Main

(* Generate and Deliver push the next frame of their source.                 *)
LEMMA FeedStep ==
    ASSUME DemoInv, NEW g \in Sources, Generate(g) \/ Deliver(g)
    PROVE  /\ Feeds[g] \in Stages /\ <<g, generated[g] + 1>> \in Item
           /\ Push(Feeds[g], <<g, generated[g] + 1>>)
           /\ stage' = Woken(Feeds[g]) /\ generated' = [generated EXCEPT ![g] = @ + 1]
           /\ UNCHANGED <<now, mainVars, item, statVars, imuVars, cut>>
<1>1. CASE Generate(g)
    <2>1. frame[g] = generated[g]
        BY <1>1, PushedItems DEF Generate
    <2>2. <<g, frame[g] + 1>> \in Item /\ Feeds[g] \in Stages
        BY <1>1, PushedItems DEF Generate
    <2> QED
        BY <1>1, <2>1, <2>2 DEF Generate
<1>2. CASE Deliver(g)
    <2>1. Head(held[g]) = <<g, generated[g] + 1>> /\ Head(held[g]) \in Item
          /\ Feeds[g] \in Stages
        BY <1>2, PushedItems DEF Deliver
    <2> QED
        BY <1>2, <2>1 DEF Deliver
<1> QED
    BY <1>1, <1>2

LEMMA ForwardStep ==
    ASSUME DemoInv, NEW s \in Stages, Forward(s)
    PROVE  /\ stage[s] = "push" /\ Out[s] \in Stages /\ item[s] \in Item
           /\ Push(Out[s], item[s]) /\ stage' = [Woken(Out[s]) EXCEPT ![s] = "test"]
           /\ UNCHANGED <<now, mainVars, genVars, item, statVars, imuVars, cut>>
<1>1. stage[s] = "push"
    BY DEF Forward
<1> QED
    BY <1>1, PushedItems DEF Forward

(* stop() is called on a queue, and wakes its consumer.                      *)
LEMMA StopStep ==
    ASSUME DemoInv, StopQueue
    PROVE  \E s \in Stages : stop' = [stop EXCEPT ![s] = TRUE] /\ stage' = Woken(s)
<1>1. /\ stopped \in 0 .. Len(StopOrder) /\ stopped < Len(StopOrder)
      /\ Len(StopOrder) \in Nat
    BY DemoAssumption DEF DemoInv, DemoTypeOK, MainPlace, StopQueue
<1>2. stopped + 1 \in 1 .. Len(StopOrder)
    BY <1>1
<1>3. PICK s \in Stages : s = StopOrder[stopped + 1]
    BY <1>2, DemoAssumption
<1> QED
    BY <1>3 DEF StopQueue, StopFlag

(* waiting_ follows the consumer, whoever pushes or stops meanwhile.         *)
LEMMA StagePlaceNext ==
    ASSUME DemoInv, Next
    PROVE  StagePlace'
<1>0. DemoTypeOK /\ StagePlace
    BY DEF DemoInv
<1>1. ASSUME NEW g \in Sources, Hold(g) PROVE StagePlace'
    BY <1>0, <1>1 DEF StagePlace, Hold, queueVars
<1>2. ASSUME NEW g \in Sources, Generate(g) PROVE StagePlace'
    <2>1. PICK s \in Stages : s = Feeds[g]
        BY <1>2, FeedStep
    <2>2. stage' = Woken(s) /\ item' = item
        BY <1>2, <2>1, FeedStep
    <2>3. ~ waiting'[s] /\ \A t \in Stages : t # s => waiting'[t] = waiting[t]
        BY <1>0, <1>2, <2>1, FeedStep, PushFacts
    <2> QED
        BY <1>0, <2>2, <2>3, WokenFacts DEF StagePlace
<1>3. ASSUME NEW g \in Sources, Deliver(g) PROVE StagePlace'
    <2>1. PICK s \in Stages : s = Feeds[g]
        BY <1>3, FeedStep
    <2>2. stage' = Woken(s) /\ item' = item
        BY <1>3, <2>1, FeedStep
    <2>3. ~ waiting'[s] /\ \A t \in Stages : t # s => waiting'[t] = waiting[t]
        BY <1>0, <1>3, <2>1, FeedStep, PushFacts
    <2> QED
        BY <1>0, <2>2, <2>3, WokenFacts DEF StagePlace
<1>4. ASSUME NEW s \in Stages, Enroll(s) PROVE StagePlace'
    BY <1>0, <1>4 DEF StagePlace, DemoTypeOK, Enroll, queueVars
<1>5. ASSUME NEW s \in Stages, TestRunning(s) PROVE StagePlace'
    BY <1>0, <1>5 DEF StagePlace, DemoTypeOK, TestRunning, queueVars
<1>6. ASSUME NEW s \in Stages, PopWait(s) PROVE StagePlace'
    BY <1>0, <1>6 DEF StagePlace, DemoTypeOK, PopWait, queueVars
<1>7. ASSUME NEW s \in Stages, PopStopped(s) PROVE StagePlace'
    BY <1>0, <1>7 DEF StagePlace, DemoTypeOK, PopStopped, queueVars
<1>8. ASSUME NEW s \in Stages, PopTake(s) PROVE StagePlace'
    <2>1. Head(queue[s]) \in Item
        <3>1. queue[s] \in Seq(Item) /\ queue[s] # <<>>
            BY <1>0, <1>8 DEF DemoTypeOK, PopTake
        <3> QED
            BY <3>1
    <2> QED
        BY <1>0, <2>1, <1>8 DEF StagePlace, DemoTypeOK, PopTake
<1>9. ASSUME NEW s \in Stages, Drop(s) PROVE StagePlace'
    BY <1>0, <1>9 DEF StagePlace, DemoTypeOK, Drop, queueVars
<1>10. ASSUME NEW s \in Stages, Compute(s) PROVE StagePlace'
    BY <1>0, <1>10 DEF StagePlace, DemoTypeOK, Compute, queueVars
<1>11. ASSUME NEW s \in Stages, Complete(s) PROVE StagePlace'
    BY <1>0, <1>11 DEF StagePlace, DemoTypeOK, Complete, queueVars
<1>12. ASSUME NEW s \in Stages, Forward(s) PROVE StagePlace'
    <2>1. PICK r \in Stages : r = Out[s]
        BY <1>12, ForwardStep
    <2>2. stage' = [Woken(r) EXCEPT ![s] = "test"] /\ item' = item /\ stage[s] = "push"
        BY <1>12, <2>1, ForwardStep
    <2>3. ~ waiting'[r] /\ \A t \in Stages : t # r => waiting'[t] = waiting[t]
        BY <1>0, <1>12, <2>1, ForwardStep, PushFacts
    <2>4. stage'[s] = "test" /\ \A t \in Stages : t # s => stage'[t] = Woken(r)[t]
        BY <1>0, <2>2, WokenFacts
    <2>5. ~ waiting'[s]
        BY <1>0, <2>2, <2>3 DEF StagePlace
    <2> QED
        BY <1>0, <2>2, <2>3, <2>4, <2>5, WokenFacts DEF StagePlace
<1>13. ASSUME NEW s \in Stages, SpuriousWake(s) PROVE StagePlace'
    BY <1>0, <1>13 DEF StagePlace, DemoTypeOK, SpuriousWake, queueVars
<1>14. ASSUME ImuStart PROVE StagePlace'
    BY <1>0, <1>14 DEF StagePlace, ImuStart, queueVars
<1>15. ASSUME ImuPublish PROVE StagePlace'
    BY <1>0, <1>15 DEF StagePlace, ImuPublish, queueVars
<1>16. ASSUME ImuWake PROVE StagePlace'
    BY <1>0, <1>16 DEF StagePlace, ImuWake, queueVars
<1>17. ASSUME ImuComplete PROVE StagePlace'
    BY <1>0, <1>17 DEF StagePlace, ImuComplete, queueVars
<1>18. ASSUME StartWorkload PROVE StagePlace'
    BY <1>0, <1>18 DEF StagePlace, StartWorkload, queueVars
<1>19. ASSUME JoinSources PROVE StagePlace'
    BY <1>0, <1>19 DEF StagePlace, JoinSources, queueVars
<1>20. ASSUME EndWindow PROVE StagePlace'
    BY <1>0, <1>20 DEF StagePlace, EndWindow, queueVars
<1>21. ASSUME StopQueue PROVE StagePlace'
    <2>1. PICK s \in Stages : stage' = Woken(s)
        BY <1>21, StopStep
    <2>2. UNCHANGED <<waiting, item>>
        BY <1>21 DEF StopQueue, queueVars
    <2> QED
        BY <1>0, <2>1, <2>2, WokenFacts DEF StagePlace
<1>22. ASSUME JoinStages PROVE StagePlace'
    BY <1>0, <1>22 DEF StagePlace, JoinStages, queueVars
<1>23. ASSUME Tick PROVE StagePlace'
    BY <1>0, <1>23 DEF StagePlace, Tick, queueVars
<1>24. ASSUME Ended PROVE StagePlace'
    BY <1>0, <1>24 DEF StagePlace, Ended, vars, queueVars
<1> QED
    BY <1>1, <1>2, <1>3, <1>4, <1>5, <1>6, <1>7, <1>8, <1>9, <1>10, <1>11, <1>12,
       <1>13, <1>14, <1>15, <1>16, <1>17, <1>18, <1>19, <1>20, <1>21, <1>22,
       <1>23, <1>24 DEF Next, Stage, ImuThread, Main

(* No generator loses or repeats a frame, held or not.                       *)
LEMMA SourcePlaceNext ==
    ASSUME DemoInv, Next
    PROVE  SourcePlace'
<1>0. DemoTypeOK /\ SourcePlace
    BY DEF DemoInv
<1> DEFINE Place(g) ==
        /\ frame[g] = generated[g] + Len(held[g]) /\ frame[g] <= Frames[g]
        /\ \A i \in 1 .. Len(held[g]) : held[g][i] = <<g, generated[g] + i>>
        /\ held[g] # <<>> => \/ frame[g] = BurstAt[g] + 1
                             \/ BurstFirst[g] < frame[g] /\ frame[g] <= BurstAt[g]
<1>1. ASSUME NEW g \in Sources, NEW t \in Sources, t # g,
             frame'[t] = frame[t], generated'[t] = generated[t], held'[t] = held[t]
      PROVE  Place(t)'
    BY <1>0, <1>1 DEF SourcePlace
<1>2. ASSUME NEW g \in Sources
      PROVE  /\ frame[g] \in Nat /\ generated[g] \in Nat /\ held[g] \in Seq(Item)
             /\ Frames[g] \in Nat /\ BurstAt[g] \in Int /\ BurstFirst[g] \in Nat
             /\ Len(held[g]) \in Nat /\ Place(g) /\ BurstAt[g] < Frames[g]
    <2>1. held[g] \in Seq(Item)
        BY <1>0 DEF DemoTypeOK
    <2>2. Len(held[g]) \in Nat
        BY <2>1
    <2> QED
        BY <1>0, <2>1, <2>2, DemoAssumption DEF DemoTypeOK, SourcePlace
<1>3. ASSUME NEW g \in Sources, Hold(g) PROVE SourcePlace'
    <2>1. /\ frame' = [frame EXCEPT ![g] = @ + 1] /\ generated' = generated
          /\ held' = [held EXCEPT ![g] = Append(@, <<g, frame[g] + 1>>)]
          /\ frame[g] >= BurstFirst[g] /\ frame[g] <= BurstAt[g] /\ frame[g] < Frames[g]
        BY <1>3 DEF Hold, InBurst, Released
    <2>2. \A t \in Sources : t # g => /\ frame'[t] = frame[t] /\ held'[t] = held[t]
                                      /\ generated'[t] = generated[t]
        BY <1>0, <2>1 DEF DemoTypeOK
    <2>3. PICK h, f, n : h = held[g] /\ f = frame[g] /\ n = generated[g]
        OBVIOUS
    <2>4. held'[g] = Append(h, <<g, f + 1>>) /\ frame'[g] = f + 1 /\ generated'[g] = n
        BY <1>0, <2>1, <2>3 DEF DemoTypeOK
    <2>5. /\ h \in Seq(Item) /\ f \in Nat /\ n \in Nat /\ f = n + Len(h) /\ Len(h) \in Nat
          /\ \A i \in 1 .. Len(h) : h[i] = <<g, n + i>>
        BY <1>2, <2>3
    <2>6. <<g, f + 1>> \in Item
        BY <1>3, <2>3, PushedItems DEF Hold
    <2>7. PICK r \in Seq(Item) : r = Append(h, <<g, f + 1>>)
        <3>1. h \in Seq(Item)
            BY <2>5
        <3>2. PICK v \in Item : v = <<g, f + 1>>
            BY <2>6
        <3>3. Append(h, v) \in Seq(Item)
            BY <3>1
        <3> QED
            BY <3>2, <3>3
    <2>8. Len(r) = Len(h) + 1 /\ r[Len(h) + 1] = <<g, f + 1>>
          /\ \A i \in 1 .. Len(h) : r[i] = h[i]
        BY <2>5, <2>6, <2>7
    <2>9. \A i \in 1 .. Len(r) : r[i] = <<g, n + i>>
        <3> TAKE i \in 1 .. Len(r)
        <3>1. CASE i = Len(h) + 1
            <4>1. f + 1 = n + i
                BY <2>5, <3>1
            <4> QED
                BY <2>8, <3>1, <4>1
        <3>2. CASE i # Len(h) + 1
            <4>1. i \in 1 .. Len(h)
                BY <2>5, <2>8, <3>2
            <4> QED
                BY <2>5, <2>8, <4>1
        <3> QED
            BY <3>1, <3>2
    <2>10. f + 1 = n + Len(r) /\ f + 1 <= Frames[g]
        <3>1. f \in Nat /\ n \in Nat /\ Len(h) \in Nat /\ f = n + Len(h)
            BY <2>5
        <3>2. Len(r) = Len(h) + 1
            BY <2>8
        <3>3. f < Frames[g] /\ Frames[g] \in Nat
            BY <1>2, <2>1, <2>3
        <3> QED
            BY <3>1, <3>2, <3>3
    <2>11. f + 1 = BurstAt[g] + 1 \/ (BurstFirst[g] < f + 1 /\ f + 1 <= BurstAt[g])
        BY <1>2, <2>1, <2>3
    <2>12. Place(g)'
        BY <2>4, <2>7, <2>9, <2>10, <2>11
    <2> QED
        BY <1>1, <2>2, <2>12 DEF SourcePlace
<1>4. ASSUME NEW g \in Sources, Generate(g) PROVE SourcePlace'
    <2>1. /\ frame' = [frame EXCEPT ![g] = @ + 1] /\ held' = held
          /\ generated' = [generated EXCEPT ![g] = @ + 1] /\ frame[g] < Frames[g]
        BY <1>4 DEF Generate, Released
    <2>2. held[g] = <<>> /\ frame[g] = generated[g]
        BY <1>4, PushedItems DEF Generate
    <2>3. \A t \in Sources : t # g => /\ frame'[t] = frame[t] /\ held'[t] = held[t]
                                      /\ generated'[t] = generated[t]
        BY <1>0, <2>1 DEF DemoTypeOK
    <2>4. held'[g] = <<>> /\ frame'[g] = frame[g] + 1 /\ generated'[g] = frame[g] + 1
        BY <1>0, <2>1, <2>2 DEF DemoTypeOK
    <2>5. Len(<<>>) = 0 /\ frame[g] + 1 = frame[g] + 1 + 0 /\ frame[g] + 1 <= Frames[g]
        BY <1>2, <2>1
    <2>6. Place(g)'
        BY <2>4, <2>5
    <2> QED
        BY <1>1, <2>3, <2>6 DEF SourcePlace
<1>5. ASSUME NEW g \in Sources, Deliver(g) PROVE SourcePlace'
    <2>1. /\ frame' = frame /\ held' = [held EXCEPT ![g] = Tail(@)]
          /\ generated' = [generated EXCEPT ![g] = @ + 1] /\ Delivering(g)
        BY <1>5 DEF Deliver
    <2>2. \A t \in Sources : t # g => /\ frame'[t] = frame[t] /\ held'[t] = held[t]
                                      /\ generated'[t] = generated[t]
        BY <1>0, <2>1 DEF DemoTypeOK
    <2>3. PICK h, f, n : h = held[g] /\ f = frame[g] /\ n = generated[g]
        OBVIOUS
    <2>4. held'[g] = Tail(h) /\ frame'[g] = f /\ generated'[g] = n + 1
        BY <1>0, <2>1, <2>3 DEF DemoTypeOK
    <2>5. /\ h \in Seq(Item) /\ f \in Nat /\ n \in Nat /\ f = n + Len(h) /\ Len(h) \in Nat
          /\ \A i \in 1 .. Len(h) : h[i] = <<g, n + i>>
          /\ h # <<>> /\ f <= Frames[g]
          /\ h # <<>> => \/ f = BurstAt[g] + 1
                         \/ BurstFirst[g] < f /\ f <= BurstAt[g]
        BY <1>2, <2>1, <2>3 DEF Delivering
    <2>11. h \in Seq(Item) /\ h # <<>>
        BY <2>5
    <2>12. Tail(h) \in Seq(Item)
        BY <2>11
    <2>6. PICK r \in Seq(Item) : r = Tail(h)
        BY <2>12
    <2>7. Len(r) = Len(h) - 1 /\ \A i \in 1 .. Len(r) : r[i] = h[i + 1]
        BY <2>6, <2>11
    <2>8. \A i \in 1 .. Len(r) : r[i] = <<g, n + 1 + i>>
        <3> TAKE i \in 1 .. Len(r)
        <3>2. n \in Nat /\ Len(h) \in Nat /\ Len(r) = Len(h) - 1
            BY <2>5, <2>7
        <3>1. i + 1 \in 1 .. Len(h) /\ n + (i + 1) = n + 1 + i
            BY <3>2
        <3> QED
            BY <2>5, <2>7, <3>1
    <2>9. f = n + 1 + Len(r)
        BY <2>5, <2>7
    <2>10. Place(g)'
        BY <2>4, <2>5, <2>6, <2>8, <2>9
    <2> QED
        BY <1>1, <2>2, <2>10 DEF SourcePlace
<1>6. (\E g \in Sources : Hold(g) \/ Generate(g) \/ Deliver(g)) \/ UNCHANGED genVars
    BY DEF Next, Stage, ImuThread, Main, Enroll, TestRunning, PopWait, PopStopped, PopTake,
           Drop, Compute, Complete, Forward, SpuriousWake, ImuStart, ImuPublish, ImuWake,
           ImuComplete, StartWorkload, JoinSources, EndWindow, StopQueue, JoinStages, Tick,
           Ended, vars
<1>7. ASSUME UNCHANGED genVars PROVE SourcePlace'
    BY <1>0, <1>7 DEF SourcePlace, genVars
<1> QED
    BY <1>3, <1>4, <1>5, <1>6, <1>7

(* The imu thread counts its jobs.                                           *)
LEMMA ImuPlaceNext ==
    ASSUME DemoInv, Next
    PROVE  ImuPlace'
<1>0. DemoTypeOK /\ ImuPlace /\ Frames[Imu] \in Nat
    BY DemoAssumption DEF DemoInv
<1>1. ASSUME ImuStart PROVE ImuPlace'
    BY <1>0, <1>1 DEF ImuStart, ImuPlace, statVars
<1>2. ASSUME ImuPublish PROVE ImuPlace'
    BY <1>0, <1>2 DEF ImuPublish, ImuPlace, statVars
<1>3. ASSUME ImuWake PROVE ImuPlace'
    BY <1>0, <1>3 DEF ImuWake, ImuPlace, statVars
<1>4. ASSUME ImuComplete PROVE ImuPlace'
    <2>1. processed'[Imu] = processed[Imu] + 1 /\ job' = job + 1
          /\ imu = "work" /\ imu' = IF job = Frames[Imu] THEN "gone" ELSE "publish"
        BY <1>0, <1>4 DEF ImuComplete, DemoTypeOK
    <2> QED
        BY <1>0, <2>1 DEF ImuPlace
<1>5. ASSUME NEW s \in Stages, Complete(s) PROVE ImuPlace'
    <2>1. s # Imu /\ processed' = [processed EXCEPT ![s] = @ + 1] /\ UNCHANGED imuVars
        BY <1>5, DemoAssumption DEF Complete
    <2>2. processed'[Imu] = processed[Imu]
        BY <1>0, <2>1 DEF DemoTypeOK
    <2> QED
        BY <1>0, <2>1, <2>2 DEF ImuPlace, imuVars
<1>6. ImuThread \/ (\E s \in Stages : Complete(s)) \/ UNCHANGED <<processed, imuVars>>
    <2>1. ASSUME NEW s \in Stages, Stage(s), ~ Complete(s) PROVE UNCHANGED <<processed, imuVars>>
        BY <2>1 DEF Stage, Enroll, TestRunning, PopWait, PopStopped, PopTake, Drop, Compute,
                    Forward, statVars
    <2>2. ASSUME NEW g \in Sources, Hold(g) \/ Generate(g) \/ Deliver(g)
          PROVE  UNCHANGED <<processed, imuVars>>
        BY <2>2 DEF Hold, Generate, Deliver, statVars
    <2>3. ASSUME NEW s \in Stages, SpuriousWake(s) PROVE UNCHANGED <<processed, imuVars>>
        BY <2>3 DEF SpuriousWake, statVars
    <2>4. ASSUME Main \/ Tick \/ Ended PROVE UNCHANGED <<processed, imuVars>>
        BY <2>4 DEF Main, StartWorkload, JoinSources, EndWindow, StopQueue, JoinStages, Tick,
                    Ended, vars, statVars
    <2> QED
        BY <2>1, <2>2, <2>3, <2>4 DEF Next
<1>7. ASSUME UNCHANGED <<processed, imuVars>> PROVE ImuPlace'
    BY <1>0, <1>7 DEF ImuPlace, imuVars
<1> QED
    BY <1>1, <1>2, <1>3, <1>4, <1>5, <1>6, <1>7 DEF ImuThread

(* main passes its stations only with the threads in theirs.                 *)
LEMMA MainPlaceNext ==
    ASSUME DemoInv, Next
    PROVE  MainPlace'
<1>0. DemoTypeOK /\ MainPlace
    BY DEF DemoInv
<1>1. ASSUME NEW g \in Sources, Hold(g) PROVE MainPlace'
    <2>1. ~ GeneratorDone(g) /\ UNCHANGED mainVars
        <3>1. frame[g] \in Nat /\ Frames[g] \in Nat
            BY <1>0, DemoAssumption DEF DemoTypeOK
        <3> QED
            BY <1>1, <3>1 DEF Hold, Released, GeneratorDone
    <2>2. main \notin {"window", "stop", "join", "done"} /\ UNCHANGED <<main, stopped>>
        BY <1>0, <2>1 DEF MainPlace, mainVars
    <2> QED
        BY <1>0, <2>2 DEF MainPlace
<1>2. ASSUME NEW g \in Sources, Generate(g) PROVE MainPlace'
    <2>1. ~ GeneratorDone(g) /\ UNCHANGED mainVars
        <3>1. frame[g] \in Nat /\ Frames[g] \in Nat
            BY <1>0, DemoAssumption DEF DemoTypeOK
        <3> QED
            BY <1>2, <3>1 DEF Generate, Released, GeneratorDone
    <2>2. main \notin {"window", "stop", "join", "done"} /\ UNCHANGED <<main, stopped>>
        BY <1>0, <2>1 DEF MainPlace, mainVars
    <2> QED
        BY <1>0, <2>2 DEF MainPlace
<1>3. ASSUME NEW g \in Sources, Deliver(g) PROVE MainPlace'
    <2>1. ~ GeneratorDone(g) /\ UNCHANGED mainVars
        <3>1. frame[g] \in Nat /\ Frames[g] \in Nat
            BY <1>0, DemoAssumption DEF DemoTypeOK
        <3> QED
            BY <1>3, <3>1 DEF Deliver, Released, GeneratorDone
    <2>2. main \notin {"window", "stop", "join", "done"} /\ UNCHANGED <<main, stopped>>
        BY <1>0, <2>1 DEF MainPlace, mainVars
    <2> QED
        BY <1>0, <2>2 DEF MainPlace
<1>4. ASSUME NEW s \in Stages, Enroll(s) PROVE MainPlace'
    BY <1>0, <1>4 DEF MainPlace, GeneratorDone, Delivering, Enroll, genVars, mainVars, imuVars
<1>5. ASSUME NEW s \in Stages, TestRunning(s) PROVE MainPlace'
    BY <1>0, <1>5 DEF MainPlace, GeneratorDone, Delivering, TestRunning, genVars, mainVars, imuVars
<1>6. ASSUME NEW s \in Stages, PopWait(s) PROVE MainPlace'
    BY <1>0, <1>6 DEF MainPlace, GeneratorDone, Delivering, PopWait, genVars, mainVars, imuVars
<1>7. ASSUME NEW s \in Stages, PopStopped(s) PROVE MainPlace'
    BY <1>0, <1>7 DEF MainPlace, GeneratorDone, Delivering, PopStopped, genVars, mainVars, imuVars
<1>8. ASSUME NEW s \in Stages, PopTake(s) PROVE MainPlace'
    <2>1. stage[s] = "pop" /\ UNCHANGED <<now, mainVars, genVars, imuVars>>
        BY <1>8 DEF PopTake
    <2> QED
        BY <1>0, <2>1 DEF MainPlace, GeneratorDone, Delivering, genVars, mainVars, imuVars
<1>9. ASSUME NEW s \in Stages, Drop(s) PROVE MainPlace'
    BY <1>0, <1>9 DEF MainPlace, GeneratorDone, Delivering, Drop, genVars, mainVars, imuVars
<1>10. ASSUME NEW s \in Stages, Compute(s) PROVE MainPlace'
    BY <1>0, <1>10 DEF MainPlace, GeneratorDone, Delivering, Compute, genVars, mainVars, imuVars
<1>11. ASSUME NEW s \in Stages, Complete(s) PROVE MainPlace'
    BY <1>0, <1>11 DEF MainPlace, GeneratorDone, Delivering, Complete, genVars, mainVars, imuVars
<1>12. ASSUME NEW s \in Stages, Forward(s) PROVE MainPlace'
    <2>1. stage[s] = "push" /\ UNCHANGED <<now, mainVars, genVars, imuVars>>
        BY <1>12 DEF Forward
    <2> QED
        BY <1>0, <2>1 DEF MainPlace, GeneratorDone, Delivering, genVars, mainVars, imuVars
<1>13. ASSUME NEW s \in Stages, SpuriousWake(s) PROVE MainPlace'
    BY <1>0, <1>13 DEF MainPlace, GeneratorDone, Delivering, SpuriousWake, genVars, mainVars, imuVars
<1>14. ASSUME ImuStart PROVE MainPlace'
    <2>1. imu # "gone" /\ UNCHANGED mainVars
        BY <1>14 DEF ImuStart
    <2>2. main \notin {"window", "stop", "join", "done"} /\ UNCHANGED <<main, stopped>>
        BY <1>0, <2>1 DEF MainPlace, mainVars
    <2> QED
        BY <1>0, <2>2 DEF MainPlace
<1>15. ASSUME ImuPublish PROVE MainPlace'
    <2>1. imu # "gone" /\ UNCHANGED mainVars
        BY <1>15 DEF ImuPublish
    <2>2. main \notin {"window", "stop", "join", "done"} /\ UNCHANGED <<main, stopped>>
        BY <1>0, <2>1 DEF MainPlace, mainVars
    <2> QED
        BY <1>0, <2>2 DEF MainPlace
<1>16. ASSUME ImuWake PROVE MainPlace'
    <2>1. imu # "gone" /\ UNCHANGED mainVars
        BY <1>16 DEF ImuWake
    <2>2. main \notin {"window", "stop", "join", "done"} /\ UNCHANGED <<main, stopped>>
        BY <1>0, <2>1 DEF MainPlace, mainVars
    <2> QED
        BY <1>0, <2>2 DEF MainPlace
<1>17. ASSUME ImuComplete PROVE MainPlace'
    <2>1. imu # "gone" /\ UNCHANGED mainVars
        BY <1>17 DEF ImuComplete
    <2>2. main \notin {"window", "stop", "join", "done"} /\ UNCHANGED <<main, stopped>>
        BY <1>0, <2>1 DEF MainPlace, mainVars
    <2> QED
        BY <1>0, <2>2 DEF MainPlace
<1>18. ASSUME StartWorkload PROVE MainPlace'
    BY <1>0, <1>18 DEF MainPlace, GeneratorDone, Delivering, StartWorkload, genVars, mainVars, imuVars
<1>19. ASSUME JoinSources PROVE MainPlace'
    BY <1>0, <1>19 DEF MainPlace, GeneratorDone, Delivering, JoinSources, genVars, mainVars, imuVars
<1>20. ASSUME EndWindow PROVE MainPlace'
    <2>1. stopped' = 0 /\ 0 < Len(StopOrder)
        BY <1>0, <1>20, DemoAssumption DEF MainPlace, EndWindow
    <2> QED
        BY <1>0, <1>20, <2>1 DEF MainPlace, EndWindow, GeneratorDone, Delivering, genVars, imuVars
<1>21. ASSUME StopQueue PROVE MainPlace'
    <2>1. /\ main = "stop" /\ stopped' = stopped + 1
          /\ main' = IF stopped' = Len(StopOrder) THEN "join" ELSE "stop"
          /\ UNCHANGED <<now, genVars, imuVars>>
        BY <1>21 DEF StopQueue
    <2>2. stopped \in Nat /\ stopped < Len(StopOrder) /\ Len(StopOrder) \in Nat
        BY <1>0, <2>1, DemoAssumption DEF DemoTypeOK, MainPlace
    <2>3. main' = "stop" => stopped' < Len(StopOrder)
        BY <2>1, <2>2
    <2>4. main' \in {"stop", "join"}
        BY <2>1
    <2> QED
        BY <1>0, <2>1, <2>3, <2>4 DEF MainPlace, GeneratorDone, Delivering, genVars, imuVars
<1>22. ASSUME JoinStages PROVE MainPlace'
    BY <1>0, <1>22 DEF MainPlace, GeneratorDone, Delivering, JoinStages, genVars, mainVars, imuVars
<1>23. ASSUME Tick PROVE MainPlace'
    <2>1. now' >= Cutoff \/ ~ (now >= Cutoff)
        BY <1>0, <1>23, DemoAssumption DEF DemoTypeOK, Tick
    <2> QED
        BY <1>0, <1>23, <2>1 DEF MainPlace, Tick, GeneratorDone, Delivering, genVars, mainVars, imuVars
<1>24. ASSUME Ended PROVE MainPlace'
    BY <1>0, <1>24 DEF MainPlace, GeneratorDone, Delivering, Ended, genVars, mainVars, imuVars, vars
<1> QED
    BY <1>1, <1>2, <1>3, <1>4, <1>5, <1>6, <1>7, <1>8, <1>9, <1>10, <1>11, <1>12,
       <1>13, <1>14, <1>15, <1>16, <1>17, <1>18, <1>19, <1>20, <1>21, <1>22,
       <1>23, <1>24 DEF Next, Stage, ImuThread, Main

(* A consumer that sleeps is woken by every push and by stop().              *)
LEMMA NoLostWakeupNext ==
    ASSUME DemoInv, Next
    PROVE  NoLostWakeup'
<1>0. DemoTypeOK /\ NoLostWakeup
    BY DEF DemoInv
<1>1. ASSUME NEW g \in Sources, Hold(g) PROVE NoLostWakeup'
    BY <1>0, <1>1 DEF NoLostWakeup, Hold, queueVars, mainVars
<1>2. ASSUME NEW g \in Sources, Generate(g) PROVE NoLostWakeup'
    <2>1. PICK s \in Stages : s = Feeds[g]
        BY <1>2, FeedStep
    <2>2. stage' = Woken(s) /\ stop' = stop
        BY <1>2, <2>1, FeedStep DEF mainVars
    <2>3. \A t \in Stages : t # s => queue'[t] = queue[t]
        BY <1>0, <1>2, <2>1, FeedStep, PushFacts
    <2> QED
        BY <1>0, <2>2, <2>3, WokenFacts DEF NoLostWakeup
<1>3. ASSUME NEW g \in Sources, Deliver(g) PROVE NoLostWakeup'
    <2>1. PICK s \in Stages : s = Feeds[g]
        BY <1>3, FeedStep
    <2>2. stage' = Woken(s) /\ stop' = stop
        BY <1>3, <2>1, FeedStep DEF mainVars
    <2>3. \A t \in Stages : t # s => queue'[t] = queue[t]
        BY <1>0, <1>3, <2>1, FeedStep, PushFacts
    <2> QED
        BY <1>0, <2>2, <2>3, WokenFacts DEF NoLostWakeup
<1>4. ASSUME NEW s \in Stages, Enroll(s) PROVE NoLostWakeup'
    BY <1>0, <1>4 DEF NoLostWakeup, DemoTypeOK, Enroll, queueVars, mainVars
<1>5. ASSUME NEW s \in Stages, TestRunning(s) PROVE NoLostWakeup'
    BY <1>0, <1>5 DEF NoLostWakeup, DemoTypeOK, TestRunning, queueVars, mainVars
<1>6. ASSUME NEW s \in Stages, PopWait(s) PROVE NoLostWakeup'
    BY <1>0, <1>6 DEF NoLostWakeup, DemoTypeOK, PopWait, queueVars, mainVars
<1>7. ASSUME NEW s \in Stages, PopStopped(s) PROVE NoLostWakeup'
    BY <1>0, <1>7 DEF NoLostWakeup, DemoTypeOK, PopStopped, queueVars, mainVars
<1>8. ASSUME NEW s \in Stages, PopTake(s) PROVE NoLostWakeup'
    BY <1>0, <1>8 DEF NoLostWakeup, DemoTypeOK, PopTake, queueVars, mainVars
<1>9. ASSUME NEW s \in Stages, Drop(s) PROVE NoLostWakeup'
    BY <1>0, <1>9 DEF NoLostWakeup, DemoTypeOK, Drop, queueVars, mainVars
<1>10. ASSUME NEW s \in Stages, Compute(s) PROVE NoLostWakeup'
    BY <1>0, <1>10 DEF NoLostWakeup, DemoTypeOK, Compute, queueVars, mainVars
<1>11. ASSUME NEW s \in Stages, Complete(s) PROVE NoLostWakeup'
    BY <1>0, <1>11 DEF NoLostWakeup, DemoTypeOK, Complete, queueVars, mainVars
<1>12. ASSUME NEW s \in Stages, Forward(s) PROVE NoLostWakeup'
    <2>1. PICK r \in Stages : r = Out[s]
        BY <1>12, ForwardStep
    <2>2. stage' = [Woken(r) EXCEPT ![s] = "test"] /\ stop' = stop
        BY <1>12, <2>1, ForwardStep DEF mainVars
    <2>3. \A t \in Stages : t # r => queue'[t] = queue[t]
        BY <1>0, <1>12, <2>1, ForwardStep, PushFacts
    <2>4. stage'[s] = "test" /\ \A t \in Stages : t # s => stage'[t] = Woken(r)[t]
        BY <1>0, <2>2, WokenFacts
    <2> QED
        BY <1>0, <2>2, <2>3, <2>4, WokenFacts DEF NoLostWakeup
<1>13. ASSUME NEW s \in Stages, SpuriousWake(s) PROVE NoLostWakeup'
    BY <1>0, <1>13 DEF NoLostWakeup, DemoTypeOK, SpuriousWake, queueVars, mainVars
<1>14. ASSUME ImuStart PROVE NoLostWakeup'
    BY <1>0, <1>14 DEF NoLostWakeup, ImuStart, queueVars, mainVars
<1>15. ASSUME ImuPublish PROVE NoLostWakeup'
    BY <1>0, <1>15 DEF NoLostWakeup, ImuPublish, queueVars, mainVars
<1>16. ASSUME ImuWake PROVE NoLostWakeup'
    BY <1>0, <1>16 DEF NoLostWakeup, ImuWake, queueVars, mainVars
<1>17. ASSUME ImuComplete PROVE NoLostWakeup'
    BY <1>0, <1>17 DEF NoLostWakeup, ImuComplete, queueVars, mainVars
<1>18. ASSUME StartWorkload PROVE NoLostWakeup'
    BY <1>0, <1>18 DEF NoLostWakeup, StartWorkload, queueVars, mainVars
<1>19. ASSUME JoinSources PROVE NoLostWakeup'
    BY <1>0, <1>19 DEF NoLostWakeup, JoinSources, queueVars, mainVars
<1>20. ASSUME EndWindow PROVE NoLostWakeup'
    BY <1>0, <1>20 DEF NoLostWakeup, EndWindow, queueVars, mainVars
<1>21. ASSUME StopQueue PROVE NoLostWakeup'
    <2>1. PICK s \in Stages : stop' = [stop EXCEPT ![s] = TRUE] /\ stage' = Woken(s)
        BY <1>21, StopStep
    <2>2. queue' = queue
        BY <1>21 DEF StopQueue, queueVars
    <2>3. \A t \in Stages : t # s => stop'[t] = stop[t]
        BY <1>0, <2>1 DEF DemoTypeOK
    <2> QED
        BY <1>0, <2>1, <2>2, <2>3, WokenFacts DEF NoLostWakeup
<1>22. ASSUME JoinStages PROVE NoLostWakeup'
    BY <1>0, <1>22 DEF NoLostWakeup, JoinStages, queueVars, mainVars
<1>23. ASSUME Tick PROVE NoLostWakeup'
    BY <1>0, <1>23 DEF NoLostWakeup, Tick, queueVars, mainVars
<1>24. ASSUME Ended PROVE NoLostWakeup'
    BY <1>0, <1>24 DEF NoLostWakeup, Ended, queueVars, mainVars, vars
<1> QED
    BY <1>1, <1>2, <1>3, <1>4, <1>5, <1>6, <1>7, <1>8, <1>9, <1>10, <1>11, <1>12,
       <1>13, <1>14, <1>15, <1>16, <1>17, <1>18, <1>19, <1>20, <1>21, <1>22,
       <1>23, <1>24 DEF Next, Stage, ImuThread, Main

(* Only a consumer that waits or pops gets another hint.                     *)
LEMMA HintNamesItemNext ==
    ASSUME DemoInv, Next
    PROVE  HintNamesItem'
<1>0. DemoTypeOK /\ HintNamesItem /\ StagePlace
    BY DEF DemoInv
<1> DEFINE Holding == {"judge", "work", "push"}
<1>100. ASSUME NEW r \in Stages, NEW v \in Item, Push(r, v), UNCHANGED <<item, imu, job>>,
               \A t \in Stages : stage'[t] \in Holding => stage'[t] = stage[t]
        PROVE  HintNamesItem'
    <2>1. /\ \A c \in Stages \cup {Imu} : c # r => hint'[c] = hint[c]
          /\ ~ waiting[r] => hint' = hint
        BY <1>0, <1>100, PushFacts
    <2>2. hint'[Imu] = hint[Imu]
        BY <2>1, DemoAssumption
    <2>3. \A t \in Stages : stage'[t] \in Holding => hint'[t] = hint[t]
        BY <1>0, <1>100, <2>1 DEF StagePlace
    <2> QED
        BY <1>0, <1>100, <2>2, <2>3 DEF HintNamesItem
<1>1. ASSUME NEW g \in Sources, Hold(g) PROVE HintNamesItem'
    BY <1>0, <1>1 DEF HintNamesItem, Hold, imuVars
<1>2. ASSUME NEW g \in Sources, Generate(g) PROVE HintNamesItem'
    <2>1. PICK s \in Stages : s = Feeds[g]
        BY <1>2, FeedStep
    <2>2. PICK v \in Item : v = <<g, generated[g] + 1>>
        BY <1>2, FeedStep
    <2>3. stage' = Woken(s) /\ UNCHANGED <<item, imu, job>> /\ Push(s, v)
        BY <1>2, <2>1, <2>2, FeedStep DEF imuVars
    <2>4. \A t \in Stages : stage'[t] \in Holding => stage'[t] = stage[t]
        BY <1>0, <2>3, WokenFacts
    <2> QED
        BY <1>100, <2>3, <2>4
<1>3. ASSUME NEW g \in Sources, Deliver(g) PROVE HintNamesItem'
    <2>1. PICK s \in Stages : s = Feeds[g]
        BY <1>3, FeedStep
    <2>2. PICK v \in Item : v = <<g, generated[g] + 1>>
        BY <1>3, FeedStep
    <2>3. stage' = Woken(s) /\ UNCHANGED <<item, imu, job>> /\ Push(s, v)
        BY <1>3, <2>1, <2>2, FeedStep DEF imuVars
    <2>4. \A t \in Stages : stage'[t] \in Holding => stage'[t] = stage[t]
        BY <1>0, <2>3, WokenFacts
    <2> QED
        BY <1>100, <2>3, <2>4
<1>4. ASSUME NEW s \in Stages, Enroll(s) PROVE HintNamesItem'
    BY <1>0, <1>4 DEF HintNamesItem, DemoTypeOK, Enroll, imuVars
<1>5. ASSUME NEW s \in Stages, TestRunning(s) PROVE HintNamesItem'
    BY <1>0, <1>5 DEF HintNamesItem, DemoTypeOK, TestRunning, imuVars
<1>6. ASSUME NEW s \in Stages, PopWait(s) PROVE HintNamesItem'
    BY <1>0, <1>6 DEF HintNamesItem, DemoTypeOK, PopWait, imuVars
<1>7. ASSUME NEW s \in Stages, PopStopped(s) PROVE HintNamesItem'
    BY <1>0, <1>7 DEF HintNamesItem, DemoTypeOK, PopStopped, imuVars
<1>8. ASSUME NEW s \in Stages, PopTake(s) PROVE HintNamesItem'
    <2>1. /\ item' = [item EXCEPT ![s] = Head(queue[s])] /\ UNCHANGED imuVars
          /\ stage' = [stage EXCEPT ![s] = "judge"]
          /\ \/ hint' = [hint EXCEPT ![s] = Head(queue[s])]
             \/ hint' = hint /\ s \in Unhinted
        BY <1>8 DEF PopTake, Publish
    <2>2. \A t \in Stages : t # s => stage'[t] = stage[t] /\ item'[t] = item[t]
        BY <1>0, <2>1 DEF DemoTypeOK
    <2>3. item'[s] = Head(queue[s])
        BY <1>0, <2>1 DEF DemoTypeOK
    <2>4. \A c \in Stages \cup {Imu} : c # s => hint'[c] = hint[c]
        BY <1>0, <2>1 DEF DemoTypeOK
    <2>5. s \notin Unhinted => hint'[s] = Head(queue[s])
        BY <1>0, <2>1 DEF DemoTypeOK
    <2>6. hint'[Imu] = hint[Imu] /\ imu' = imu /\ job' = job
        BY <2>1, <2>4, DemoAssumption DEF imuVars
    <2> QED
        BY <1>0, <2>2, <2>3, <2>4, <2>5, <2>6 DEF HintNamesItem
<1>9. ASSUME NEW s \in Stages, Drop(s) PROVE HintNamesItem'
    BY <1>0, <1>9 DEF HintNamesItem, DemoTypeOK, Drop, imuVars
<1>10. ASSUME NEW s \in Stages, Compute(s) PROVE HintNamesItem'
    BY <1>0, <1>10 DEF HintNamesItem, DemoTypeOK, Compute, imuVars
<1>11. ASSUME NEW s \in Stages, Complete(s) PROVE HintNamesItem'
    BY <1>0, <1>11 DEF HintNamesItem, DemoTypeOK, Complete, imuVars
<1>12. ASSUME NEW s \in Stages, Forward(s) PROVE HintNamesItem'
    <2>1. PICK r \in Stages : r = Out[s]
        BY <1>12, ForwardStep
    <2>2. PICK v \in Item : v = item[s]
        BY <1>12, ForwardStep
    <2>3. stage' = [Woken(r) EXCEPT ![s] = "test"] /\ UNCHANGED <<item, imu, job>>
          /\ Push(r, v)
        BY <1>12, <2>1, <2>2, ForwardStep DEF imuVars
    <2>4. \A t \in Stages : stage'[t] \in Holding => stage'[t] = stage[t]
        BY <1>0, <2>3, WokenFacts
    <2> QED
        BY <1>100, <2>3, <2>4
<1>13. ASSUME NEW s \in Stages, SpuriousWake(s) PROVE HintNamesItem'
    BY <1>0, <1>13 DEF HintNamesItem, DemoTypeOK, SpuriousWake, imuVars
<1>14. ASSUME ImuStart PROVE HintNamesItem'
    <2>1. UNCHANGED <<stage, item, hint>> /\ imu' \notin {"sleep", "work"}
        BY <1>14 DEF ImuStart
    <2> QED
        BY <1>0, <2>1 DEF HintNamesItem
<1>15. ASSUME ImuPublish PROVE HintNamesItem'
    <2>1. /\ UNCHANGED <<stage, item, job>>
          /\ \/ hint' = [hint EXCEPT ![Imu] = <<Imu, job>>]
             \/ hint' = hint /\ Imu \in Unhinted
        BY <1>15 DEF ImuPublish, Publish
    <2>2. \A s \in Stages : hint'[s] = hint[s]
        BY <1>0, <2>1, DemoAssumption DEF DemoTypeOK
    <2>3. Imu \notin Unhinted => hint'[Imu] = <<Imu, job>>
        BY <1>0, <2>1 DEF DemoTypeOK
    <2> QED
        BY <1>0, <2>1, <2>2, <2>3 DEF HintNamesItem
<1>16. ASSUME ImuWake PROVE HintNamesItem'
    BY <1>0, <1>16 DEF HintNamesItem, ImuWake, imuVars
<1>17. ASSUME ImuComplete PROVE HintNamesItem'
    <2>1. UNCHANGED <<stage, item, hint>> /\ imu' \notin {"sleep", "work"}
        BY <1>17 DEF ImuComplete
    <2> QED
        BY <1>0, <2>1 DEF HintNamesItem
<1>18. ASSUME StartWorkload PROVE HintNamesItem'
    BY <1>0, <1>18 DEF HintNamesItem, StartWorkload, imuVars
<1>19. ASSUME JoinSources PROVE HintNamesItem'
    BY <1>0, <1>19 DEF HintNamesItem, JoinSources, imuVars
<1>20. ASSUME EndWindow PROVE HintNamesItem'
    BY <1>0, <1>20 DEF HintNamesItem, EndWindow, imuVars
<1>21. ASSUME StopQueue PROVE HintNamesItem'
    <2>1. PICK s \in Stages : stage' = Woken(s)
        BY <1>21, StopStep
    <2>2. UNCHANGED <<item, imu, job, hint>>
        BY <1>21 DEF StopQueue, imuVars
    <2>3. \A t \in Stages : stage'[t] \in Holding => stage'[t] = stage[t]
        BY <1>0, <2>1, WokenFacts
    <2> QED
        BY <1>0, <2>2, <2>3 DEF HintNamesItem
<1>22. ASSUME JoinStages PROVE HintNamesItem'
    BY <1>0, <1>22 DEF HintNamesItem, JoinStages, imuVars
<1>23. ASSUME Tick PROVE HintNamesItem'
    BY <1>0, <1>23 DEF HintNamesItem, Tick, imuVars
<1>24. ASSUME Ended PROVE HintNamesItem'
    BY <1>0, <1>24 DEF HintNamesItem, Ended, imuVars, vars
<1> QED
    BY <1>1, <1>2, <1>3, <1>4, <1>5, <1>6, <1>7, <1>8, <1>9, <1>10, <1>11, <1>12,
       <1>13, <1>14, <1>15, <1>16, <1>17, <1>18, <1>19, <1>20, <1>21, <1>22,
       <1>23, <1>24 DEF Next, Stage, ImuThread, Main

-----------------------------------------------------------------------------
(* The window                                                              *)

(* A step that moves the load and the counters of c together keeps the       *)
(* report right, and outside the window nothing is counted.                  *)
LEMMA WindowCount ==
    ASSUME DemoInv, UNCHANGED <<now, cut>>, NEW c \in Stages \cup {Imu},
           NEW o \in Nat, NEW q \in Nat, NEW e \in Nat, NEW d \in Nat, NEW x \in Nat,
           Counts(c, o, q, e, d, x),
           ~ inside_window => o = 0 /\ q = 0 /\ e = 0 /\ d = 0 /\ x = 0,
           inside_window =>
               /\ \A t \in Stages \cup {Imu} : t # c => LoadOf(t)' = LoadOf(t)
               /\ LoadOf(c)'.pending = LoadOf(c).pending + o - q - e
               /\ LoadOf(c)'.in_flight = LoadOf(c).in_flight + q - d - x
    PROVE  WindowSoFar'
<1>1. SUFFICES ASSUME WindowStats, NEW t \in Stages \cup {Imu}
      PROVE  Reports(t, IF now < Cutoff THEN LoadOf(t) ELSE cut[t])'
    BY DEF WindowSoFar
<1>2. Reports(t, IF now < Cutoff THEN LoadOf(t) ELSE cut[t])
    BY <1>1 DEF DemoInv, WindowSoFar
<1>3. inside_window <=> now < Cutoff
    BY <1>1 DEF inside_window
<1>4. CASE t # c
    <2>1. window'[t] = window[t] /\ (now < Cutoff => LoadOf(t)' = LoadOf(t))
        BY <1>3, <1>4 DEF Counts
    <2> QED
        BY <1>2, <2>1 DEF Reports
<1>5. CASE t = c
    <2>1. window \in [Stages \cup {Imu} -> Counters] /\ window[c] \in Counters
        BY DEF DemoInv, DemoTypeOK
    <2>2. PICK w \in Counters : w = window[c]
        BY <2>1
    <2>3. /\ w.offered \in Nat /\ w.dequeued \in Nat /\ w.evicted \in Nat
          /\ w.completed \in Nat /\ w.dropped \in Nat
        BY <2>2 DEF Counters
    <2>4. PICK y : y = window'[c]
        OBVIOUS
    <2>5. /\ y.offered = w.offered + o /\ y.dequeued = w.dequeued + q
          /\ y.evicted = w.evicted + e /\ y.completed = w.completed + d
          /\ y.dropped = w.dropped + x
        BY <2>2, <2>4 DEF Counts
    <2>6. CASE now < Cutoff
        <3>1. PICK load : load = LoadOf(c)
            OBVIOUS
        <3>2. /\ w.offered - w.dequeued - w.evicted = load.pending
              /\ w.dequeued - w.completed - w.dropped = load.in_flight
            BY <1>2, <1>5, <2>2, <2>6, <3>1 DEF Reports
        <3>3. /\ LoadOf(c)'.pending = load.pending + o - q - e
              /\ LoadOf(c)'.in_flight = load.in_flight + q - d - x
            BY <1>3, <2>6, <3>1
        <3>4. y.offered - y.dequeued - y.evicted = load.pending + o - q - e
            BY <2>3, <2>5, <3>2
        <3>5. y.dequeued - y.completed - y.dropped = load.in_flight + q - d - x
            BY <2>3, <2>5, <3>2
        <3>6. Reports(c, LoadOf(c))'
            BY <2>4, <3>3, <3>4, <3>5 DEF Reports
        <3> QED
            BY <1>5, <2>6, <3>6
    <2>7. CASE ~ (now < Cutoff)
        <3>1. o = 0 /\ q = 0 /\ e = 0 /\ d = 0 /\ x = 0
            BY <1>3, <2>7
        <3>2. /\ y.offered = w.offered /\ y.dequeued = w.dequeued /\ y.evicted = w.evicted
              /\ y.completed = w.completed /\ y.dropped = w.dropped
            BY <2>3, <2>5, <3>1
        <3>3. Reports(c, cut[c])
            BY <1>2, <1>5, <2>7
        <3>4. Reports(c, cut[c])'
            BY <2>2, <2>4, <3>2, <3>3 DEF Reports
        <3> QED
            BY <1>5, <2>7, <3>4
    <2> QED
        BY <2>6, <2>7
<1> QED
    BY <1>4, <1>5

LEMMA WindowSame ==
    ASSUME DemoInv, UNCHANGED <<now, cut, window>>,
           \A t \in Stages \cup {Imu} : LoadOf(t)' = LoadOf(t)
    PROVE  WindowSoFar'
BY DEF DemoInv, WindowSoFar, Reports

(* The load of a stage and of the imu thread                                 *)
LEMMA LoadFacts ==
    ASSUME DemoTypeOK
    PROVE  /\ \A t \in Stages : LoadOf(t) = [in_flight |-> InHand(t), pending |-> Len(queue[t])]
           /\ LoadOf(Imu) = [in_flight |-> IF imu = "work" THEN 1 ELSE 0,
                             pending |-> Frames[Imu] - processed[Imu]
                                         - (IF imu = "work" THEN 1 ELSE 0)]
           /\ \A t \in Stages : InHand(t) \in {0, 1} /\ Len(queue[t]) \in Nat
<1>1. \A t \in Stages : t # Imu /\ queue[t] \in Seq(Item)
    BY DemoAssumption DEF DemoTypeOK
<1>2. \A t \in Stages : Len(queue[t]) \in Nat
    BY <1>1
<1> QED
    BY <1>1, <1>2 DEF LoadOf, InHand

(* The load of the consumers that a step does not touch is the same.         *)
LEMMA LoadSame ==
    ASSUME DemoTypeOK, DemoTypeOK', NEW t \in Stages, queue'[t] = queue[t],
           stage[t] \in {"judge", "work"} <=> stage'[t] \in {"judge", "work"}
    PROVE  LoadOf(t)' = LoadOf(t)
<1>1. InHand(t)' = InHand(t)
    BY DEF InHand
<1>2. t # Imu
    BY DemoAssumption
<1> QED
    BY <1>1, <1>2 DEF LoadOf

LEMMA ImuLoadSame ==
    ASSUME UNCHANGED imu, processed'[Imu] = processed[Imu]
    PROVE  LoadOf(Imu)' = LoadOf(Imu)
BY DEF LoadOf

(* A push counts the item and what it evicts.                                *)
LEMMA WindowPush ==
    ASSUME DemoInv, DemoTypeOK', NEW r \in Stages, NEW v \in Item, Push(r, v),
           UNCHANGED <<now, cut, imu, processed>>,
           \A t \in Stages : stage[t] \in {"judge", "work"} <=> stage'[t] \in {"judge", "work"}
    PROVE  WindowSoFar'
<1>0. DemoTypeOK
    BY DEF DemoInv
<1> DEFINE old == Len(queue[r]) - Len(Fresh(r))
           e == old * One
<1>1. /\ Counts(r, One, 0, e, 0, 0) /\ queue'[r] = Append(Fresh(r), v)
      /\ \A t \in Stages : t # r => queue'[t] = queue[t]
    BY <1>0, PushFacts
<1>2. /\ Fresh(r) \in Seq(Item) /\ queue[r] \in Seq(Item) /\ Len(Fresh(r)) <= Len(queue[r])
    BY <1>0, FreshFacts DEF DemoTypeOK, Thinned
<1>3. /\ Len(Fresh(r)) \in Nat /\ Len(queue[r]) \in Nat /\ old \in Nat
      /\ Len(queue'[r]) = Len(Fresh(r)) + 1
    BY <1>1, <1>2
<1>4. One \in {0, 1} /\ e \in Nat /\ (~ inside_window => One = 0 /\ e = 0)
    <2>1. One \in {0, 1} /\ (~ inside_window => One = 0)
        BY OneFacts
    <2>2. CASE One = 0
        BY <1>3, <2>1, <2>2
    <2>3. CASE One = 1
        BY <1>3, <2>1, <2>3
    <2> QED
        BY <2>1, <2>2, <2>3
<1>5. ASSUME inside_window
      PROVE  /\ \A t \in Stages \cup {Imu} : t # r => LoadOf(t)' = LoadOf(t)
             /\ LoadOf(r)'.pending = LoadOf(r).pending + One - 0 - e
             /\ LoadOf(r)'.in_flight = LoadOf(r).in_flight + 0 - 0 - 0
    <2>1. \A t \in Stages \cup {Imu} : t # r => LoadOf(t)' = LoadOf(t)
        BY <1>0, <1>1, LoadSame, ImuLoadSame
    <2>2. One = 1 /\ e = old
        BY <1>3, <1>5 DEF One
    <2>3. r # Imu /\ InHand(r) \in {0, 1} /\ InHand(r)' = InHand(r)
        BY DemoAssumption DEF InHand
    <2>4. LoadOf(r).pending = Len(queue[r]) /\ LoadOf(r)'.pending = Len(queue'[r])
          /\ LoadOf(r).in_flight = InHand(r) /\ LoadOf(r)'.in_flight = InHand(r)'
        BY <2>3 DEF LoadOf
    <2>5. Len(queue'[r]) = Len(queue[r]) + 1 - 0 - old
        BY <1>3
    <2> HIDE DEF old, e
    <2>6. LoadOf(r)'.pending = LoadOf(r).pending + One - 0 - e
        BY <2>2, <2>4, <2>5
    <2>7. LoadOf(r)'.in_flight = LoadOf(r).in_flight + 0 - 0 - 0
        BY <2>3, <2>4
    <2> QED
        BY <2>1, <2>6, <2>7
<1>6. 0 \in Nat /\ One \in Nat /\ r \in Stages \cup {Imu}
    BY <1>4
<1> HIDE DEF e
<1> QED
    BY <1>1, <1>4, <1>5, <1>6, WindowCount

(* The counters stay those of the load.                                      *)
LEMMA WindowNext ==
    ASSUME DemoInv, Next
    PROVE  WindowSoFar'
<1>0. DemoTypeOK /\ DemoTypeOK' /\ StagePlace
    BY TypeNext DEF DemoInv
<1>1. ASSUME NEW g \in Sources, Hold(g) PROVE WindowSoFar'
    <2>1. UNCHANGED <<now, cut, window, queue, imu, processed>>
          /\ \A t \in Stages : stage[t] \in {"judge", "work"} <=> stage'[t] \in {"judge", "work"}
        BY <1>0, <1>1 DEF DemoTypeOK, Hold, queueVars, imuVars, statVars
    <2>2. \A t \in Stages \cup {Imu} : LoadOf(t)' = LoadOf(t)
        BY <1>0, <2>1, LoadSame, ImuLoadSame
    <2> QED
        BY <2>1, <2>2, WindowSame
<1>2. ASSUME NEW g \in Sources, Generate(g) PROVE WindowSoFar'
    <2>1. PICK s \in Stages : s = Feeds[g]
        BY <1>2, FeedStep
    <2>2. PICK v \in Item : v = <<g, generated[g] + 1>>
        BY <1>2, FeedStep
    <2>3. stage' = Woken(s) /\ UNCHANGED <<now, cut, imu, processed>> /\ Push(s, v)
        BY <1>2, <2>1, <2>2, FeedStep DEF imuVars, statVars
    <2>4. \A t \in Stages : stage[t] \in {"judge", "work"} <=> stage'[t] \in {"judge", "work"}
        BY <1>0, <2>3, WokenFacts
    <2> QED
        BY <1>0, <2>3, <2>4, WindowPush
<1>3. ASSUME NEW g \in Sources, Deliver(g) PROVE WindowSoFar'
    <2>1. PICK s \in Stages : s = Feeds[g]
        BY <1>3, FeedStep
    <2>2. PICK v \in Item : v = <<g, generated[g] + 1>>
        BY <1>3, FeedStep
    <2>3. stage' = Woken(s) /\ UNCHANGED <<now, cut, imu, processed>> /\ Push(s, v)
        BY <1>3, <2>1, <2>2, FeedStep DEF imuVars, statVars
    <2>4. \A t \in Stages : stage[t] \in {"judge", "work"} <=> stage'[t] \in {"judge", "work"}
        BY <1>0, <2>3, WokenFacts
    <2> QED
        BY <1>0, <2>3, <2>4, WindowPush
<1>4. ASSUME NEW s \in Stages, Enroll(s) PROVE WindowSoFar'
    <2>1. UNCHANGED <<now, cut, window, queue, imu, processed>>
          /\ \A t \in Stages : stage[t] \in {"judge", "work"} <=> stage'[t] \in {"judge", "work"}
        BY <1>0, <1>4 DEF DemoTypeOK, Enroll, queueVars, imuVars, statVars
    <2>2. \A t \in Stages \cup {Imu} : LoadOf(t)' = LoadOf(t)
        BY <1>0, <2>1, LoadSame, ImuLoadSame
    <2> QED
        BY <2>1, <2>2, WindowSame
<1>5. ASSUME NEW s \in Stages, TestRunning(s) PROVE WindowSoFar'
    <2>1. UNCHANGED <<now, cut, window, queue, imu, processed>>
          /\ \A t \in Stages : stage[t] \in {"judge", "work"} <=> stage'[t] \in {"judge", "work"}
        BY <1>0, <1>5 DEF DemoTypeOK, TestRunning, queueVars, imuVars, statVars
    <2>2. \A t \in Stages \cup {Imu} : LoadOf(t)' = LoadOf(t)
        BY <1>0, <2>1, LoadSame, ImuLoadSame
    <2> QED
        BY <2>1, <2>2, WindowSame
<1>6. ASSUME NEW s \in Stages, PopWait(s) PROVE WindowSoFar'
    <2>1. UNCHANGED <<now, cut, window, queue, imu, processed>>
          /\ \A t \in Stages : stage[t] \in {"judge", "work"} <=> stage'[t] \in {"judge", "work"}
        BY <1>0, <1>6 DEF DemoTypeOK, PopWait, queueVars, imuVars, statVars
    <2>2. \A t \in Stages \cup {Imu} : LoadOf(t)' = LoadOf(t)
        BY <1>0, <2>1, LoadSame, ImuLoadSame
    <2> QED
        BY <2>1, <2>2, WindowSame
<1>7. ASSUME NEW s \in Stages, PopStopped(s) PROVE WindowSoFar'
    <2>1. UNCHANGED <<now, cut, window, queue, imu, processed>>
          /\ \A t \in Stages : stage[t] \in {"judge", "work"} <=> stage'[t] \in {"judge", "work"}
        BY <1>0, <1>7 DEF DemoTypeOK, PopStopped, queueVars, imuVars, statVars
    <2>2. \A t \in Stages \cup {Imu} : LoadOf(t)' = LoadOf(t)
        BY <1>0, <2>1, LoadSame, ImuLoadSame
    <2> QED
        BY <2>1, <2>2, WindowSame
<1>8. ASSUME NEW s \in Stages, PopTake(s) PROVE WindowSoFar'
    <2>1. /\ UNCHANGED <<now, cut, imu, processed>> /\ stage[s] = "pop"
          /\ stage' = [stage EXCEPT ![s] = "judge"] /\ queue' = [queue EXCEPT ![s] = Tail(@)]
          /\ window' = [window EXCEPT ![s].dequeued = @ + One] /\ queue[s] # <<>>
        BY <1>8 DEF PopTake, imuVars, statVars
    <2>2. Counts(s, 0, One, 0, 0, 0)
        BY <1>0, <2>1, CountPop
    <2>3. One \in Nat /\ (~ inside_window => One = 0) /\ (inside_window => One = 1)
        BY OneFacts DEF One
    <2>4. \A t \in Stages \cup {Imu} : t # s => LoadOf(t)' = LoadOf(t)
        <3>1. \A t \in Stages : t # s => queue'[t] = queue[t] /\ stage'[t] = stage[t]
            BY <1>0, <2>1 DEF DemoTypeOK
        <3> QED
            BY <1>0, <2>1, <3>1, LoadSame, ImuLoadSame
    <2>5. InHand(s) = 0 /\ InHand(s)' = 1
        BY <1>0, <2>1 DEF InHand, DemoTypeOK
    <2>6. Len(queue[s]) \in Nat /\ Len(queue'[s]) = Len(queue[s]) - 1
        <3>1. queue[s] \in Seq(Item) /\ queue[s] # <<>> /\ queue'[s] = Tail(queue[s])
            BY <1>0, <2>1 DEF DemoTypeOK
        <3> QED
            BY <3>1
    <2>7. s # Imu
        BY DemoAssumption
    <2>8. LoadOf(s).pending = Len(queue[s]) /\ LoadOf(s)'.pending = Len(queue'[s])
          /\ LoadOf(s).in_flight = 0 /\ LoadOf(s)'.in_flight = 1
        BY <2>5, <2>7 DEF LoadOf
    <2>9. inside_window => /\ LoadOf(s)'.pending = LoadOf(s).pending + 0 - One - 0
                           /\ LoadOf(s)'.in_flight = LoadOf(s).in_flight + One - 0 - 0
        BY <2>3, <2>6, <2>8
    <2> QED
        BY <2>1, <2>2, <2>3, <2>4, <2>9, WindowCount
<1>9. ASSUME NEW s \in Stages, Drop(s) PROVE WindowSoFar'
    <2>1. /\ UNCHANGED <<now, cut, imu, processed, queue>> /\ stage[s] = "judge"
          /\ stage' = [stage EXCEPT ![s] = "test"]
          /\ window' = [window EXCEPT ![s].dropped = @ + One]
        BY <1>9 DEF Drop, imuVars, queueVars
    <2>2. Counts(s, 0, 0, 0, 0, One)
        BY <1>0, <2>1, CountDrop
    <2>3. One \in Nat /\ (~ inside_window => One = 0) /\ (inside_window => One = 1)
        BY OneFacts DEF One
    <2>4. \A t \in Stages \cup {Imu} : t # s => LoadOf(t)' = LoadOf(t)
        <3>1. \A t \in Stages : t # s => queue'[t] = queue[t] /\ stage'[t] = stage[t]
            BY <1>0, <2>1 DEF DemoTypeOK
        <3>2. UNCHANGED <<imu, processed>>
            BY <2>1
        <3> QED
            BY <1>0, <3>1, <3>2, LoadSame, ImuLoadSame
    <2>5. InHand(s) = 1 /\ InHand(s)' = 0 /\ s # Imu /\ Len(queue[s]) \in Nat
        <3>1. stage[s] = "judge" /\ stage'[s] = "test"
            BY <1>0, <2>1 DEF DemoTypeOK
        <3>2. InHand(s) = 1 /\ InHand(s)' = 0
            BY <3>1 DEF InHand
        <3>3. s # Imu /\ Len(queue[s]) \in Nat
            BY <1>0, LoadFacts, DemoAssumption
        <3> QED
            BY <3>2, <3>3
    <2>6. LoadOf(s).pending = Len(queue[s]) /\ LoadOf(s)'.pending = Len(queue[s])
          /\ LoadOf(s).in_flight = 1 /\ LoadOf(s)'.in_flight = 0
        BY <2>1, <2>5 DEF LoadOf
    <2>7. inside_window => /\ LoadOf(s)'.pending = LoadOf(s).pending + 0 - 0 - 0
                           /\ LoadOf(s)'.in_flight = LoadOf(s).in_flight + 0 - 0 - One
        BY <2>3, <2>5, <2>6
    <2> QED
        BY <2>1, <2>2, <2>3, <2>4, <2>7, WindowCount
<1>10. ASSUME NEW s \in Stages, Compute(s) PROVE WindowSoFar'
    <2>1. UNCHANGED <<now, cut, window, queue, imu, processed>>
          /\ \A t \in Stages : stage[t] \in {"judge", "work"} <=> stage'[t] \in {"judge", "work"}
        BY <1>0, <1>10 DEF DemoTypeOK, Compute, queueVars, imuVars, statVars
    <2>2. \A t \in Stages \cup {Imu} : LoadOf(t)' = LoadOf(t)
        BY <1>0, <2>1, LoadSame, ImuLoadSame
    <2> QED
        BY <2>1, <2>2, WindowSame
<1>11. ASSUME NEW s \in Stages, Complete(s) PROVE WindowSoFar'
    <2>1. /\ UNCHANGED <<now, cut, imu, queue>> /\ stage[s] = "work"
          /\ stage' = [stage EXCEPT ![s] = IF Out[s] = None THEN "test" ELSE "push"]
          /\ window' = [window EXCEPT ![s].completed = @ + One]
          /\ processed' = [processed EXCEPT ![s] = @ + 1]
        BY <1>11 DEF Complete, imuVars, queueVars
    <2>2. Counts(s, 0, 0, 0, One, 0)
        BY <1>0, <2>1, CountCompletion
    <2>3. One \in Nat /\ (~ inside_window => One = 0) /\ (inside_window => One = 1)
        BY OneFacts DEF One
    <2>4. \A t \in Stages \cup {Imu} : t # s => LoadOf(t)' = LoadOf(t)
        <3>1. \A t \in Stages : t # s => queue'[t] = queue[t] /\ stage'[t] = stage[t]
            BY <1>0, <2>1 DEF DemoTypeOK
        <3>2. processed'[Imu] = processed[Imu]
            BY <1>0, <2>1, DemoAssumption DEF DemoTypeOK
        <3> QED
            BY <1>0, <2>1, <3>1, <3>2, LoadSame, ImuLoadSame
    <2>5. InHand(s) = 1 /\ s # Imu /\ Len(queue[s]) \in Nat
        BY <1>0, <2>1, LoadFacts, DemoAssumption DEF InHand
    <2>6. InHand(s)' = 0
        <3>1. stage'[s] \in {"test", "push"}
            BY <1>0, <2>1 DEF DemoTypeOK
        <3> QED
            BY <3>1 DEF InHand
    <2>7. LoadOf(s).pending = Len(queue[s]) /\ LoadOf(s)'.pending = Len(queue[s])
          /\ LoadOf(s).in_flight = 1 /\ LoadOf(s)'.in_flight = 0
        BY <2>1, <2>5, <2>6 DEF LoadOf
    <2>8. inside_window => /\ LoadOf(s)'.pending = LoadOf(s).pending + 0 - 0 - 0
                           /\ LoadOf(s)'.in_flight = LoadOf(s).in_flight + 0 - One - 0
        BY <2>3, <2>5, <2>7
    <2> QED
        BY <2>1, <2>2, <2>3, <2>4, <2>8, WindowCount
<1>12. ASSUME NEW s \in Stages, Forward(s) PROVE WindowSoFar'
    <2>1. PICK r \in Stages : r = Out[s]
        BY <1>12, ForwardStep
    <2>2. PICK v \in Item : v = item[s]
        BY <1>12, ForwardStep
    <2>3. stage' = [Woken(r) EXCEPT ![s] = "test"] /\ UNCHANGED <<now, cut, imu, processed>>
          /\ Push(r, v) /\ stage[s] = "push"
        BY <1>12, <2>1, <2>2, ForwardStep DEF imuVars, statVars
    <2>4. \A t \in Stages : stage[t] \in {"judge", "work"} <=> stage'[t] \in {"judge", "work"}
        BY <1>0, <2>3, WokenFacts
    <2> QED
        BY <1>0, <2>3, <2>4, WindowPush
<1>13. ASSUME NEW s \in Stages, SpuriousWake(s) PROVE WindowSoFar'
    <2>1. UNCHANGED <<now, cut, window, queue, imu, processed>>
          /\ \A t \in Stages : stage[t] \in {"judge", "work"} <=> stage'[t] \in {"judge", "work"}
        BY <1>0, <1>13 DEF DemoTypeOK, SpuriousWake, queueVars, imuVars, statVars
    <2>2. \A t \in Stages \cup {Imu} : LoadOf(t)' = LoadOf(t)
        BY <1>0, <2>1, LoadSame, ImuLoadSame
    <2> QED
        BY <2>1, <2>2, WindowSame
<1>14. ASSUME ImuStart PROVE WindowSoFar'
    <2>1. UNCHANGED <<now, cut, window, queue, stage, processed>> /\ imu # "work" /\ imu' # "work"
        BY <1>14 DEF ImuStart, queueVars, statVars
    <2>2. LoadOf(Imu)' = LoadOf(Imu)
        BY <2>1 DEF LoadOf
    <2>3. \A t \in Stages \cup {Imu} : LoadOf(t)' = LoadOf(t)
        BY <1>0, <2>1, <2>2, LoadSame
    <2> QED
        BY <2>1, <2>3, WindowSame
<1>15. ASSUME ImuPublish PROVE WindowSoFar'
    <2>1. UNCHANGED <<now, cut, window, queue, stage, processed>> /\ imu # "work" /\ imu' # "work"
        BY <1>15 DEF ImuPublish, queueVars, statVars
    <2>2. LoadOf(Imu)' = LoadOf(Imu)
        BY <2>1 DEF LoadOf
    <2>3. \A t \in Stages \cup {Imu} : LoadOf(t)' = LoadOf(t)
        BY <1>0, <2>1, <2>2, LoadSame
    <2> QED
        BY <2>1, <2>3, WindowSame
<1>16. ASSUME ImuWake PROVE WindowSoFar'
    <2>1. /\ UNCHANGED <<now, cut, queue, stage, processed>> /\ imu = "sleep" /\ imu' = "work"
          /\ window' = [window EXCEPT ![Imu].dequeued = @ + One]
        BY <1>16 DEF ImuWake, statVars, queueVars
    <2>2. Counts(Imu, 0, One, 0, 0, 0)
        BY <1>0, <2>1, CountPop
    <2>3. One \in Nat /\ (~ inside_window => One = 0) /\ (inside_window => One = 1)
        BY OneFacts DEF One
    <2>4. \A t \in Stages \cup {Imu} : t # Imu => LoadOf(t)' = LoadOf(t)
        BY <1>0, <2>1, LoadSame
    <2>5. Frames[Imu] \in Nat /\ processed[Imu] \in Nat
        BY <1>0, DemoAssumption DEF DemoTypeOK
    <2>6. LoadOf(Imu).pending = Frames[Imu] - processed[Imu] - 0
          /\ LoadOf(Imu)'.pending = Frames[Imu] - processed[Imu] - 1
          /\ LoadOf(Imu).in_flight = 0 /\ LoadOf(Imu)'.in_flight = 1
        BY <2>1 DEF LoadOf
    <2>7. inside_window => /\ LoadOf(Imu)'.pending = LoadOf(Imu).pending + 0 - One - 0
                           /\ LoadOf(Imu)'.in_flight = LoadOf(Imu).in_flight + One - 0 - 0
        BY <2>3, <2>5, <2>6
    <2> QED
        BY <2>1, <2>2, <2>3, <2>4, <2>7, WindowCount
<1>17. ASSUME ImuComplete PROVE WindowSoFar'
    <2>1. /\ UNCHANGED <<now, cut, queue, stage>> /\ imu = "work" /\ imu' # "work"
          /\ window' = [window EXCEPT ![Imu].completed = @ + One]
          /\ processed' = [processed EXCEPT ![Imu] = @ + 1]
        BY <1>17 DEF ImuComplete, queueVars
    <2>2. Counts(Imu, 0, 0, 0, One, 0)
        BY <1>0, <2>1, CountCompletion
    <2>3. One \in Nat /\ (~ inside_window => One = 0) /\ (inside_window => One = 1)
        BY OneFacts DEF One
    <2>4. \A t \in Stages \cup {Imu} : t # Imu => LoadOf(t)' = LoadOf(t)
        BY <1>0, <2>1, LoadSame
    <2>5. Frames[Imu] \in Nat /\ processed[Imu] \in Nat /\ processed'[Imu] = processed[Imu] + 1
        BY <1>0, <2>1, DemoAssumption DEF DemoTypeOK
    <2>6. LoadOf(Imu).pending = Frames[Imu] - processed[Imu] - 1
          /\ LoadOf(Imu)'.pending = Frames[Imu] - (processed[Imu] + 1) - 0
          /\ LoadOf(Imu).in_flight = 1 /\ LoadOf(Imu)'.in_flight = 0
        BY <2>1, <2>5 DEF LoadOf
    <2>7. inside_window => /\ LoadOf(Imu)'.pending = LoadOf(Imu).pending + 0 - 0 - 0
                           /\ LoadOf(Imu)'.in_flight = LoadOf(Imu).in_flight + 0 - One - 0
        BY <2>3, <2>5, <2>6
    <2> QED
        BY <2>1, <2>2, <2>3, <2>4, <2>7, WindowCount
<1>18. ASSUME StartWorkload PROVE WindowSoFar'
    <2>1. UNCHANGED <<now, cut, window, queue, imu, processed>>
          /\ \A t \in Stages : stage[t] \in {"judge", "work"} <=> stage'[t] \in {"judge", "work"}
        BY <1>0, <1>18 DEF DemoTypeOK, StartWorkload, queueVars, imuVars, statVars
    <2>2. \A t \in Stages \cup {Imu} : LoadOf(t)' = LoadOf(t)
        BY <1>0, <2>1, LoadSame, ImuLoadSame
    <2> QED
        BY <2>1, <2>2, WindowSame
<1>19. ASSUME JoinSources PROVE WindowSoFar'
    <2>1. UNCHANGED <<now, cut, window, queue, imu, processed>>
          /\ \A t \in Stages : stage[t] \in {"judge", "work"} <=> stage'[t] \in {"judge", "work"}
        BY <1>0, <1>19 DEF DemoTypeOK, JoinSources, queueVars, imuVars, statVars
    <2>2. \A t \in Stages \cup {Imu} : LoadOf(t)' = LoadOf(t)
        BY <1>0, <2>1, LoadSame, ImuLoadSame
    <2> QED
        BY <2>1, <2>2, WindowSame
<1>20. ASSUME EndWindow PROVE WindowSoFar'
    <2>1. UNCHANGED <<now, cut, window, queue, imu, processed>>
          /\ \A t \in Stages : stage[t] \in {"judge", "work"} <=> stage'[t] \in {"judge", "work"}
        BY <1>0, <1>20 DEF DemoTypeOK, EndWindow, queueVars, imuVars, statVars
    <2>2. \A t \in Stages \cup {Imu} : LoadOf(t)' = LoadOf(t)
        BY <1>0, <2>1, LoadSame, ImuLoadSame
    <2> QED
        BY <2>1, <2>2, WindowSame
<1>21. ASSUME StopQueue PROVE WindowSoFar'
    <2>1. PICK s \in Stages : stage' = Woken(s)
        BY <1>21, StopStep
    <2>2. UNCHANGED <<now, cut, window, queue, imu, processed>>
        BY <1>21 DEF StopQueue, queueVars, imuVars, statVars
    <2>3. \A t \in Stages : stage[t] \in {"judge", "work"} <=> stage'[t] \in {"judge", "work"}
        BY <1>0, <2>1, WokenFacts
    <2>4. \A t \in Stages \cup {Imu} : LoadOf(t)' = LoadOf(t)
        BY <1>0, <2>2, <2>3, LoadSame, ImuLoadSame
    <2> QED
        BY <2>2, <2>4, WindowSame
<1>22. ASSUME JoinStages PROVE WindowSoFar'
    <2>1. UNCHANGED <<now, cut, window, queue, imu, processed>>
          /\ \A t \in Stages : stage[t] \in {"judge", "work"} <=> stage'[t] \in {"judge", "work"}
        BY <1>0, <1>22 DEF DemoTypeOK, JoinStages, queueVars, imuVars, statVars
    <2>2. \A t \in Stages \cup {Imu} : LoadOf(t)' = LoadOf(t)
        BY <1>0, <2>1, LoadSame, ImuLoadSame
    <2> QED
        BY <2>1, <2>2, WindowSame
<1>23. ASSUME Tick PROVE WindowSoFar'
    <2>1. UNCHANGED <<window, queue, imu, processed, stage>> /\ now' = now + 1
          /\ cut' = IF now' = Cutoff THEN [s \in Stages \cup {Imu} |-> LoadOf(s)] ELSE cut
        BY <1>23 DEF Tick, queueVars, imuVars, statVars
    <2>2. \A t \in Stages \cup {Imu} : LoadOf(t)' = LoadOf(t)
        BY <1>0, <2>1, LoadSame, ImuLoadSame
    <2>3. now \in Nat /\ Cutoff \in Nat
        BY <1>0, DemoAssumption DEF DemoTypeOK
    <2>4. SUFFICES ASSUME WindowStats, NEW t \in Stages \cup {Imu}
          PROVE  Reports(t, IF now < Cutoff THEN LoadOf(t) ELSE cut[t])'
        BY DEF WindowSoFar
    <2>5. Reports(t, IF now < Cutoff THEN LoadOf(t) ELSE cut[t])
        BY <2>4 DEF DemoInv, WindowSoFar
    <2>6. CASE now' < Cutoff
        <3>1. now < Cutoff
            BY <2>1, <2>3, <2>6
        <3> QED
            BY <2>1, <2>2, <2>5, <2>6, <3>1 DEF Reports
    <2>7. CASE now' = Cutoff
        <3>1. now < Cutoff /\ ~ (now' < Cutoff) /\ cut'[t] = LoadOf(t)
            BY <2>1, <2>3, <2>7
        <3> QED
            BY <2>1, <2>5, <3>1 DEF Reports
    <2>8. CASE now' > Cutoff
        <3>1. ~ (now < Cutoff) /\ ~ (now' < Cutoff) /\ cut' = cut
            BY <2>1, <2>3, <2>8
        <3> QED
            BY <2>1, <2>5, <3>1 DEF Reports
    <2>9. now' < Cutoff \/ now' = Cutoff \/ now' > Cutoff
        BY <2>1, <2>3
    <2> QED
        BY <2>6, <2>7, <2>8, <2>9
<1>24. ASSUME Ended PROVE WindowSoFar'
    <2>1. UNCHANGED <<now, cut, window, queue, imu, processed>>
          /\ \A t \in Stages : stage[t] \in {"judge", "work"} <=> stage'[t] \in {"judge", "work"}
        BY <1>0, <1>24 DEF DemoTypeOK, Ended, vars, queueVars, imuVars, statVars
    <2>2. \A t \in Stages \cup {Imu} : LoadOf(t)' = LoadOf(t)
        BY <1>0, <2>1, LoadSame, ImuLoadSame
    <2> QED
        BY <2>1, <2>2, WindowSame
<1> QED
    BY <1>1, <1>2, <1>3, <1>4, <1>5, <1>6, <1>7, <1>8, <1>9, <1>10, <1>11, <1>12,
       <1>13, <1>14, <1>15, <1>16, <1>17, <1>18, <1>19, <1>20, <1>21, <1>22,
       <1>23, <1>24 DEF Next, Stage, ImuThread, Main

-----------------------------------------------------------------------------
(* Conservation                                                            *)

\* What t has pushed on, if it has a next stage
Passed(t) == processed[t] - (IF stage[t] = "push" THEN 1 ELSE 0)

\* g has pushed a more frames; t has passed on b more items.
Fed(g, a) ==
    \A x \in Sources : generated'[x] = generated[x] + (IF x = g THEN a ELSE 0)
PassedOn(t, b) ==
    \A x \in Stages : Out[x] # None =>
        Passed(x)' = Passed(x) + (IF x = t THEN b ELSE 0)

(* The arrivals at s grow with the frames of one source and with what one    *)
(* stage has passed on.                                                      *)
LEMMA ArrivedChange ==
    ASSUME DemoTypeOK, DemoTypeOK', NEW s \in Stages,
           NEW g, NEW a \in Int, NEW t, NEW b \in Int,
           Fed(g, a), PassedOn(t, b)
    PROVE  /\ Arrived(s) \in Int
           /\ Arrived(s)' = Arrived(s)
                            + (IF g \in Sources /\ Feeds[g] = s THEN a ELSE 0)
                            + (IF t \in Stages /\ Out[t] = s THEN b ELSE 0)
<1> DEFINE S == {x \in Sources : Feeds[x] = s}
           Q == {x \in Stages : Out[x] = s}
<1>1. PICK f, h, p, r : /\ f = [x \in S |-> generated[x]] /\ h = [x \in S |-> generated'[x]]
                        /\ p = [x \in Q |-> Passed(x)] /\ r = [x \in Q |-> Passed(x)']
    OBVIOUS
<1>2. Arrived(s) = Total(f) + Total(p) /\ Arrived(s)' = Total(h) + Total(r)
    BY <1>1 DEF Arrived, Passed
<1>3. IsFiniteSet(S) /\ IsFiniteSet(Q)
    BY DemoAssumption, FS_Subset
<1>4. f \in [S -> Int] /\ h \in [S -> Int]
    <2>1. \A x \in Sources : generated[x] \in Int /\ generated'[x] \in Int
        BY DEF DemoTypeOK
    <2> QED
        BY <1>1, <2>1
<1>5. p \in [Q -> Int] /\ r \in [Q -> Int]
    <2>1. \A x \in Stages : processed[x] \in Int /\ processed'[x] \in Int
        BY DEF DemoTypeOK
    <2>2. \A x \in Stages : Passed(x) \in Int /\ Passed(x)' \in Int
        BY <2>1 DEF Passed
    <2> QED
        BY <1>1, <2>2
<1>6. (g \in S => h[g] = f[g] + a) /\ \A y \in S : y # g => h[y] = f[y]
    <2>1. \A x \in Sources : generated[x] \in Int
        BY DEF DemoTypeOK
    <2> QED
        BY <1>1, <2>1 DEF Fed
<1>7. (t \in Q => r[t] = p[t] + b) /\ \A y \in Q : y # t => r[y] = p[y]
    <2>1. \A y \in Q : p[y] = Passed(y) /\ r[y] = Passed(y)' /\ p[y] \in Int
        BY <1>1, <1>5
    <2>2. \A y \in Q : y \in Stages /\ Out[y] # None
        BY DemoAssumption
    <2>3. \A y \in Q : r[y] = p[y] + (IF y = t THEN b ELSE 0)
        BY <2>1, <2>2 DEF PassedOn
    <2> QED
        BY <2>1, <2>3
<1>8. (g \in S <=> g \in Sources /\ Feeds[g] = s) /\ (t \in Q <=> t \in Stages /\ Out[t] = s)
    OBVIOUS
<1> HIDE DEF S, Q
<1>9. Total(f) \in Int /\ Total(h) \in Int /\ Total(h) = Total(f) + (IF g \in S THEN a ELSE 0)
    BY <1>3, <1>4, <1>6, TotalChange
<1>10. Total(p) \in Int /\ Total(r) \in Int /\ Total(r) = Total(p) + (IF t \in Q THEN b ELSE 0)
    BY <1>3, <1>5, <1>7, TotalChange
<1> QED
    BY <1>2, <1>8, <1>9, <1>10

\* Where the items that have arrived at s are
Account(s) == Len(queue[s]) + evicted[s] + InHand(s) + processed[s] + dropped[s]

\* The accounts grow where those items arrive.
Accounted(g, a, t, b) ==
    \A s \in Stages : Account(s)' = Account(s)
                          + (IF g \in Sources /\ Feeds[g] = s THEN a ELSE 0)
                          + (IF t \in Stages /\ Out[t] = s THEN b ELSE 0)

LEMMA Moves ==
    \A l, e, i, p, d \in Nat :
        /\ l + e + i + p + d \in Nat
        /\ \A k \in Nat : (k + 1) + (e + (l - k)) + i + p + d = l + e + i + p + d + 1
        /\ (l - 1) + e + 1 + p + d = l + e + 0 + p + d
        /\ l + e + 0 + p + (d + 1) = l + e + 1 + p + d
        /\ l + e + 0 + (p + 1) + d = l + e + 1 + p + d
    OBVIOUS

LEMMA AccountType ==
    ASSUME DemoTypeOK, NEW s \in Stages
    PROVE  /\ Len(queue[s]) \in Nat /\ evicted[s] \in Nat /\ InHand(s) \in {0, 1}
           /\ processed[s] \in Nat /\ dropped[s] \in Nat /\ Account(s) \in Nat
<1>1. queue[s] \in Seq(Item) /\ evicted[s] \in Nat /\ processed[s] \in Nat /\ dropped[s] \in Nat
    BY DEF DemoTypeOK
<1>2. Len(queue[s]) \in Nat
    BY <1>1
<1>3. InHand(s) \in {0, 1}
    BY DEF InHand
<1>4. InHand(s) \in Nat
    BY <1>3
<1>5. PICK l, e, i, p, d \in Nat : l = Len(queue[s]) /\ e = evicted[s] /\ i = InHand(s)
          /\ p = processed[s] /\ d = dropped[s]
    BY <1>1, <1>2, <1>4
<1>6. Account(s) = l + e + i + p + d
    BY <1>5 DEF Account
<1>7. Account(s) \in Nat
    BY <1>6, Moves
<1> QED
    BY <1>1, <1>2, <1>3, <1>7

(* A step that lets a items of source g and b items of stage t arrive where  *)
(* they are sent, and moves the others about, conserves all of them.         *)
LEMMA ConservedStep ==
    ASSUME DemoInv, DemoTypeOK', NEW g, NEW a \in Int, NEW t, NEW b \in Int,
           Fed(g, a), PassedOn(t, b),
           Accounted(g, a, t, b)
    PROVE  Conserved'
<1>1. DemoTypeOK
    BY DEF DemoInv
<1>2. ASSUME NEW s \in Stages PROVE Arrived(s)' = Account(s)'
    <2>1. Arrived(s) = Account(s)
        BY DEF DemoInv, Conserved, Account
    <2>2. Arrived(s)' = Arrived(s) + (IF g \in Sources /\ Feeds[g] = s THEN a ELSE 0)
                                   + (IF t \in Stages /\ Out[t] = s THEN b ELSE 0)
        BY <1>1, ArrivedChange
    <2> QED
        BY <2>1, <2>2 DEF Accounted
<1> QED
    BY <1>2 DEF Conserved, Account

(* A push makes one item arrive at r.                                        *)
LEMMA AccountPush ==
    ASSUME DemoInv, DemoTypeOK', NEW r \in Stages, NEW v \in Item, Push(r, v),
           UNCHANGED statVars,
           \A t \in Stages : stage[t] \in {"judge", "work"} <=> stage'[t] \in {"judge", "work"}
    PROVE  \A s \in Stages : Account(s)' = Account(s) + (IF s = r THEN 1 ELSE 0)
<1>0. DemoTypeOK
    BY DEF DemoInv
<1> TAKE s \in Stages
<1>1. InHand(s)' = InHand(s) /\ processed'[s] = processed[s] /\ dropped'[s] = dropped[s]
    BY DEF InHand, statVars
<1>2. CASE s # r
    <2>1. queue'[s] = queue[s] /\ evicted'[s] = evicted[s]
        BY <1>0, <1>2, PushFacts
    <2>2. Account(s)' = Account(s) /\ Account(s) \in Nat
        BY <1>0, <1>1, <2>1, AccountType DEF Account
    <2> QED
        BY <1>2, <2>2
<1>3. CASE s = r
    <2>1. PICK f \in Seq(Item) : f = Fresh(s)
        BY <1>0, FreshFacts DEF Thinned
    <2>2. queue'[s] = Append(f, v) /\ evicted'[s] = evicted[s] + (Len(queue[s]) - Len(f))
        BY <1>0, <1>3, <2>1, PushFacts
    <2>3. Len(queue'[s]) = Len(f) + 1 /\ Len(f) \in Nat
        BY <2>1, <2>2
    <2>4. PICK l, e, i, p, d \in Nat : l = Len(queue[s]) /\ e = evicted[s] /\ i = InHand(s)
              /\ p = processed[s] /\ d = dropped[s]
        BY <1>0, AccountType
    <2>5. PICK k \in Nat : k = Len(f)
        BY <2>3
    <2>6. Account(s) = l + e + i + p + d
        BY <2>4 DEF Account
    <2>7. Account(s)' = (k + 1) + (e + (l - k)) + i + p + d
        BY <1>1, <2>2, <2>3, <2>4, <2>5 DEF Account
    <2>8. (k + 1) + (e + (l - k)) + i + p + d = l + e + i + p + d + 1
        BY Moves
    <2> QED
        BY <1>3, <2>6, <2>7, <2>8
<1> QED
    BY <1>2, <1>3

(* No step loses or duplicates an item.                                      *)
LEMMA ConservedNext ==
    ASSUME DemoInv, Next
    PROVE  Conserved'
<1>0. DemoTypeOK /\ DemoTypeOK' /\ StagePlace
    BY TypeNext DEF DemoInv
<1>100. ASSUME UNCHANGED generated,
               \A x \in Stages : Passed(x)' = Passed(x) /\ Account(x)' = Account(x)
        PROVE  Conserved'
    <2>1. \A x \in Sources : generated'[x] = generated[x] + (IF x = None THEN 0 ELSE 0)
        BY <1>0, <1>100 DEF DemoTypeOK
    <2>2. \A x \in Stages : Account(x) \in Nat /\ Passed(x) \in Int
        <3> TAKE x \in Stages
        <3>1. processed[x] \in Nat
            BY <1>0 DEF DemoTypeOK
        <3> QED
            BY <1>0, <3>1, AccountType DEF Passed
    <2>3. \A x \in Stages : Passed(x)' = Passed(x) + (IF x = None THEN 0 ELSE 0)
        BY <1>100, <2>2
    <2>4. \A s \in Stages : Account(s)' = Account(s)
                + (IF None \in Sources /\ Feeds[None] = s THEN 0 ELSE 0)
                + (IF None \in Stages /\ Out[None] = s THEN 0 ELSE 0)
        BY <1>100, <2>2
    <2>5. 0 \in Int
        OBVIOUS
    <2>6. Fed(None, 0) /\ PassedOn(None, 0) /\ Accounted(None, 0, None, 0)
        BY <2>1, <2>3, <2>4 DEF Fed, PassedOn, Accounted
    <2> QED
        BY <1>0, <2>6, <2>5, ConservedStep
<1>1. ASSUME NEW g \in Sources, Hold(g) PROVE Conserved'
    <2>1. UNCHANGED <<generated, queue, evicted, processed, dropped>>
          /\ \A x \in Stages : /\ (stage[x] = "push" <=> stage'[x] = "push")
                               /\ (stage[x] \in {"judge", "work"}
                                      <=> stage'[x] \in {"judge", "work"})
        BY <1>0, <1>1 DEF DemoTypeOK, Hold, genVars, queueVars, statVars
    <2>2. \A x \in Stages : Passed(x)' = Passed(x) /\ InHand(x)' = InHand(x)
        BY <2>1 DEF Passed, InHand
    <2>3. \A x \in Stages : Account(x)' = Account(x)
        BY <2>1, <2>2 DEF Account
    <2> QED
        BY <1>100, <2>1, <2>2, <2>3
<1>2. ASSUME NEW g \in Sources, Generate(g) PROVE Conserved'
    <2>1. PICK s \in Stages : s = Feeds[g]
        BY <1>2, FeedStep
    <2>2. PICK v \in Item : v = <<g, generated[g] + 1>>
        BY <1>2, FeedStep
    <2>3. /\ stage' = Woken(s) /\ UNCHANGED statVars /\ Push(s, v)
          /\ generated' = [generated EXCEPT ![g] = @ + 1]
        BY <1>2, <2>1, <2>2, FeedStep
    <2>4. \A t \in Stages : /\ stage[t] \in {"judge", "work"} <=> stage'[t] \in {"judge", "work"}
                            /\ stage[t] = "push" <=> stage'[t] = "push"
        BY <1>0, <2>3, WokenFacts
    <2>5. \A x \in Stages : Account(x)' = Account(x) + (IF x = s THEN 1 ELSE 0)
        BY <1>0, <2>3, <2>4, AccountPush
    <2>6. \A x \in Stages : Account(x) \in Nat /\ Passed(x) \in Int
        <3> TAKE x \in Stages
        <3>1. processed[x] \in Nat
            BY <1>0 DEF DemoTypeOK
        <3> QED
            BY <1>0, <3>1, AccountType DEF Passed
    <2>7. \A x \in Stages : Passed(x)' = Passed(x) + (IF x = None THEN 0 ELSE 0)
        <3>1. \A x \in Stages : Passed(x)' = Passed(x)
            BY <2>3, <2>4 DEF Passed, statVars
        <3> QED
            BY <2>6, <3>1
    <2>8. \A x \in Sources : generated'[x] = generated[x] + (IF x = g THEN 1 ELSE 0)
        <3>1. generated \in [Sources -> Nat]
            BY <1>0 DEF DemoTypeOK
        <3>2. \A x \in Sources : generated'[x] = IF x = g THEN generated[x] + 1 ELSE generated[x]
            BY <2>3, <3>1
        <3>3. \A x \in Sources : generated[x] \in Nat
            BY <3>1
        <3> QED
            BY <3>2, <3>3
    <2>9. \A x \in Stages : Account(x)' = Account(x)
                + (IF g \in Sources /\ Feeds[g] = x THEN 1 ELSE 0)
                + (IF None \in Stages /\ Out[None] = x THEN 0 ELSE 0)
        BY <2>1, <2>5, <2>6
    <2>10. 0 \in Int /\ 1 \in Int
        OBVIOUS
    <2>11. Fed(g, 1) /\ PassedOn(None, 0) /\ Accounted(g, 1, None, 0)
        BY <2>7, <2>8, <2>9 DEF Fed, PassedOn, Accounted
    <2> QED
        BY <1>0, <2>10, <2>11, ConservedStep
<1>3. ASSUME NEW g \in Sources, Deliver(g) PROVE Conserved'
    <2>1. PICK s \in Stages : s = Feeds[g]
        BY <1>3, FeedStep
    <2>2. PICK v \in Item : v = <<g, generated[g] + 1>>
        BY <1>3, FeedStep
    <2>3. /\ stage' = Woken(s) /\ UNCHANGED statVars /\ Push(s, v)
          /\ generated' = [generated EXCEPT ![g] = @ + 1]
        BY <1>3, <2>1, <2>2, FeedStep
    <2>4. \A t \in Stages : /\ stage[t] \in {"judge", "work"} <=> stage'[t] \in {"judge", "work"}
                            /\ stage[t] = "push" <=> stage'[t] = "push"
        BY <1>0, <2>3, WokenFacts
    <2>5. \A x \in Stages : Account(x)' = Account(x) + (IF x = s THEN 1 ELSE 0)
        BY <1>0, <2>3, <2>4, AccountPush
    <2>6. \A x \in Stages : Account(x) \in Nat /\ Passed(x) \in Int
        <3> TAKE x \in Stages
        <3>1. processed[x] \in Nat
            BY <1>0 DEF DemoTypeOK
        <3> QED
            BY <1>0, <3>1, AccountType DEF Passed
    <2>7. \A x \in Stages : Passed(x)' = Passed(x) + (IF x = None THEN 0 ELSE 0)
        <3>1. \A x \in Stages : Passed(x)' = Passed(x)
            BY <2>3, <2>4 DEF Passed, statVars
        <3> QED
            BY <2>6, <3>1
    <2>8. \A x \in Sources : generated'[x] = generated[x] + (IF x = g THEN 1 ELSE 0)
        <3>1. generated \in [Sources -> Nat]
            BY <1>0 DEF DemoTypeOK
        <3>2. \A x \in Sources : generated'[x] = IF x = g THEN generated[x] + 1 ELSE generated[x]
            BY <2>3, <3>1
        <3>3. \A x \in Sources : generated[x] \in Nat
            BY <3>1
        <3> QED
            BY <3>2, <3>3
    <2>9. \A x \in Stages : Account(x)' = Account(x)
                + (IF g \in Sources /\ Feeds[g] = x THEN 1 ELSE 0)
                + (IF None \in Stages /\ Out[None] = x THEN 0 ELSE 0)
        BY <2>1, <2>5, <2>6
    <2>10. 0 \in Int /\ 1 \in Int
        OBVIOUS
    <2>11. Fed(g, 1) /\ PassedOn(None, 0) /\ Accounted(g, 1, None, 0)
        BY <2>7, <2>8, <2>9 DEF Fed, PassedOn, Accounted
    <2> QED
        BY <1>0, <2>10, <2>11, ConservedStep
<1>4. ASSUME NEW s \in Stages, Enroll(s) PROVE Conserved'
    <2>1. UNCHANGED <<generated, queue, evicted, processed, dropped>>
          /\ \A x \in Stages : /\ (stage[x] = "push" <=> stage'[x] = "push")
                               /\ (stage[x] \in {"judge", "work"}
                                      <=> stage'[x] \in {"judge", "work"})
        BY <1>0, <1>4 DEF DemoTypeOK, Enroll, genVars, queueVars, statVars
    <2>2. \A x \in Stages : Passed(x)' = Passed(x) /\ InHand(x)' = InHand(x)
        BY <2>1 DEF Passed, InHand
    <2>3. \A x \in Stages : Account(x)' = Account(x)
        BY <2>1, <2>2 DEF Account
    <2> QED
        BY <1>100, <2>1, <2>2, <2>3
<1>5. ASSUME NEW s \in Stages, TestRunning(s) PROVE Conserved'
    <2>1. UNCHANGED <<generated, queue, evicted, processed, dropped>>
          /\ \A x \in Stages : /\ (stage[x] = "push" <=> stage'[x] = "push")
                               /\ (stage[x] \in {"judge", "work"}
                                      <=> stage'[x] \in {"judge", "work"})
        BY <1>0, <1>5 DEF DemoTypeOK, TestRunning, genVars, queueVars, statVars
    <2>2. \A x \in Stages : Passed(x)' = Passed(x) /\ InHand(x)' = InHand(x)
        BY <2>1 DEF Passed, InHand
    <2>3. \A x \in Stages : Account(x)' = Account(x)
        BY <2>1, <2>2 DEF Account
    <2> QED
        BY <1>100, <2>1, <2>2, <2>3
<1>6. ASSUME NEW s \in Stages, PopWait(s) PROVE Conserved'
    <2>1. UNCHANGED <<generated, queue, evicted, processed, dropped>>
          /\ \A x \in Stages : /\ (stage[x] = "push" <=> stage'[x] = "push")
                               /\ (stage[x] \in {"judge", "work"}
                                      <=> stage'[x] \in {"judge", "work"})
        BY <1>0, <1>6 DEF DemoTypeOK, PopWait, genVars, queueVars, statVars
    <2>2. \A x \in Stages : Passed(x)' = Passed(x) /\ InHand(x)' = InHand(x)
        BY <2>1 DEF Passed, InHand
    <2>3. \A x \in Stages : Account(x)' = Account(x)
        BY <2>1, <2>2 DEF Account
    <2> QED
        BY <1>100, <2>1, <2>2, <2>3
<1>7. ASSUME NEW s \in Stages, PopStopped(s) PROVE Conserved'
    <2>1. UNCHANGED <<generated, queue, evicted, processed, dropped>>
          /\ \A x \in Stages : /\ (stage[x] = "push" <=> stage'[x] = "push")
                               /\ (stage[x] \in {"judge", "work"}
                                      <=> stage'[x] \in {"judge", "work"})
        BY <1>0, <1>7 DEF DemoTypeOK, PopStopped, genVars, queueVars, statVars
    <2>2. \A x \in Stages : Passed(x)' = Passed(x) /\ InHand(x)' = InHand(x)
        BY <2>1 DEF Passed, InHand
    <2>3. \A x \in Stages : Account(x)' = Account(x)
        BY <2>1, <2>2 DEF Account
    <2> QED
        BY <1>100, <2>1, <2>2, <2>3
<1>8. ASSUME NEW s \in Stages, PopTake(s) PROVE Conserved'
    <2>1. /\ UNCHANGED <<generated, evicted, processed, dropped>> /\ stage[s] = "pop"
          /\ stage' = [stage EXCEPT ![s] = "judge"] /\ queue' = [queue EXCEPT ![s] = Tail(@)]
          /\ queue[s] # <<>>
        BY <1>8 DEF PopTake, genVars, statVars
    <2>2. \A x \in Stages : x # s => queue'[x] = queue[x] /\ stage'[x] = stage[x]
        BY <1>0, <2>1 DEF DemoTypeOK
    <2>3. \A x \in Stages : Passed(x)' = Passed(x)
        BY <1>0, <2>1, <2>2 DEF Passed, DemoTypeOK
    <2>4. \A x \in Stages : x # s => Account(x)' = Account(x)
        BY <2>1, <2>2 DEF Account, InHand
    <2>5. InHand(s) = 0 /\ InHand(s)' = 1
        BY <1>0, <2>1 DEF InHand, DemoTypeOK
    <2>6. Len(queue[s]) \in Nat /\ Len(queue'[s]) = Len(queue[s]) - 1
        <3>1. queue[s] \in Seq(Item) /\ queue[s] # <<>> /\ queue'[s] = Tail(queue[s])
            BY <1>0, <2>1 DEF DemoTypeOK
        <3> QED
            BY <3>1
    <2>7. Account(s)' = Account(s)
        <3>1. PICK l, e, p, d \in Nat : l = Len(queue[s]) /\ e = evicted[s]
                  /\ p = processed[s] /\ d = dropped[s]
            BY <1>0, AccountType
        <3>2. Account(s) = l + e + 0 + p + d /\ Account(s)' = (l - 1) + e + 1 + p + d
            BY <2>1, <2>5, <2>6, <3>1 DEF Account
        <3> QED
            BY <3>2, Moves
    <2> QED
        BY <1>100, <2>1, <2>3, <2>4, <2>7
<1>9. ASSUME NEW s \in Stages, Drop(s) PROVE Conserved'
    <2>1. /\ UNCHANGED <<generated, evicted, processed, queue>> /\ stage[s] = "judge"
          /\ stage' = [stage EXCEPT ![s] = "test"] /\ dropped' = [dropped EXCEPT ![s] = @ + 1]
        BY <1>9 DEF Drop, genVars, queueVars
    <2>2. \A x \in Stages : x # s => dropped'[x] = dropped[x] /\ stage'[x] = stage[x]
        BY <1>0, <2>1 DEF DemoTypeOK
    <2>3. \A x \in Stages : Passed(x)' = Passed(x)
        BY <1>0, <2>1, <2>2 DEF Passed, DemoTypeOK
    <2>4. \A x \in Stages : x # s => Account(x)' = Account(x)
        BY <2>1, <2>2 DEF Account, InHand
    <2>5. InHand(s) = 1 /\ InHand(s)' = 0 /\ dropped'[s] = dropped[s] + 1
        BY <1>0, <2>1 DEF InHand, DemoTypeOK
    <2>6. Account(s)' = Account(s)
        <3>1. PICK l, e, p, d \in Nat : l = Len(queue[s]) /\ e = evicted[s]
                  /\ p = processed[s] /\ d = dropped[s]
            BY <1>0, AccountType
        <3>2. Account(s) = l + e + 1 + p + d /\ Account(s)' = l + e + 0 + p + (d + 1)
            BY <2>1, <2>5, <3>1 DEF Account
        <3> QED
            BY <3>2, Moves
    <2> QED
        BY <1>100, <2>1, <2>3, <2>4, <2>6
<1>10. ASSUME NEW s \in Stages, Compute(s) PROVE Conserved'
    <2>1. UNCHANGED <<generated, queue, evicted, processed, dropped>>
          /\ \A x \in Stages : /\ (stage[x] = "push" <=> stage'[x] = "push")
                               /\ (stage[x] \in {"judge", "work"}
                                      <=> stage'[x] \in {"judge", "work"})
        BY <1>0, <1>10 DEF DemoTypeOK, Compute, genVars, queueVars, statVars
    <2>2. \A x \in Stages : Passed(x)' = Passed(x) /\ InHand(x)' = InHand(x)
        BY <2>1 DEF Passed, InHand
    <2>3. \A x \in Stages : Account(x)' = Account(x)
        BY <2>1, <2>2 DEF Account
    <2> QED
        BY <1>100, <2>1, <2>2, <2>3
<1>11. ASSUME NEW s \in Stages, Complete(s) PROVE Conserved'
    <2>1. /\ UNCHANGED <<generated, evicted, dropped, queue>> /\ stage[s] = "work"
          /\ stage' = [stage EXCEPT ![s] = IF Out[s] = None THEN "test" ELSE "push"]
          /\ processed' = [processed EXCEPT ![s] = @ + 1]
        BY <1>11 DEF Complete, genVars, queueVars
    <2>2. \A x \in Stages : x # s => processed'[x] = processed[x] /\ stage'[x] = stage[x]
        BY <1>0, <2>1 DEF DemoTypeOK
    <2>3. /\ processed'[s] = processed[s] + 1 /\ processed[s] \in Nat
          /\ stage'[s] = IF Out[s] = None THEN "test" ELSE "push"
        BY <1>0, <2>1 DEF DemoTypeOK
    <2>4. \A x \in Stages : Account(x) \in Nat /\ Passed(x) \in Int
        <3> TAKE x \in Stages
        <3>1. processed[x] \in Nat
            BY <1>0 DEF DemoTypeOK
        <3> QED
            BY <1>0, <3>1, AccountType DEF Passed
    <2>5. \A x \in Stages : Out[x] # None => Passed(x)' = Passed(x) + (IF x = None THEN 0 ELSE 0)
        <3>1. ASSUME NEW x \in Stages, Out[x] # None PROVE Passed(x)' = Passed(x)
            <4>1. CASE x = s
                BY <2>1, <2>3, <3>1, <4>1 DEF Passed
            <4>2. CASE x # s
                BY <2>2, <4>2 DEF Passed
            <4> QED
                BY <4>1, <4>2
        <3> QED
            BY <2>4, <3>1
    <2>6. \A x \in Stages : x # s => Account(x)' = Account(x)
        BY <2>1, <2>2 DEF Account, InHand
    <2>7. InHand(s) = 1 /\ InHand(s)' = 0
        BY <2>1, <2>3 DEF InHand
    <2>8. Account(s)' = Account(s)
        <3>1. PICK l, e, p, d \in Nat : l = Len(queue[s]) /\ e = evicted[s]
                  /\ p = processed[s] /\ d = dropped[s]
            BY <1>0, AccountType
        <3>2. Account(s) = l + e + 1 + p + d /\ Account(s)' = l + e + 0 + (p + 1) + d
            BY <2>1, <2>3, <2>7, <3>1 DEF Account
        <3> QED
            BY <3>2, Moves
    <2>9. \A x \in Stages : Account(x)' = Account(x)
                + (IF None \in Sources /\ Feeds[None] = x THEN 0 ELSE 0)
                + (IF None \in Stages /\ Out[None] = x THEN 0 ELSE 0)
        BY <2>4, <2>6, <2>8
    <2>10. \A x \in Sources : generated'[x] = generated[x] + (IF x = None THEN 0 ELSE 0)
        BY <1>0, <2>1 DEF DemoTypeOK
    <2>11. 0 \in Int
        OBVIOUS
    <2>12. Fed(None, 0) /\ PassedOn(None, 0) /\ Accounted(None, 0, None, 0)
        BY <2>5, <2>9, <2>10 DEF Fed, PassedOn, Accounted
    <2> QED
        BY <1>0, <2>12, <2>11, ConservedStep
<1>12. ASSUME NEW s \in Stages, Forward(s) PROVE Conserved'
    <2>1. PICK r \in Stages : r = Out[s]
        BY <1>12, ForwardStep
    <2>2. PICK v \in Item : v = item[s]
        BY <1>12, ForwardStep
    <2>3. /\ stage' = [Woken(r) EXCEPT ![s] = "test"] /\ UNCHANGED <<statVars, generated>>
          /\ Push(r, v) /\ stage[s] = "push"
        BY <1>12, <2>1, <2>2, ForwardStep DEF genVars
    <2>4. \A t \in Stages : /\ stage[t] \in {"judge", "work"} <=> stage'[t] \in {"judge", "work"}
                            /\ t # s => (stage[t] = "push" <=> stage'[t] = "push")
        BY <1>0, <2>3, WokenFacts
    <2>5. \A x \in Stages : Account(x)' = Account(x) + (IF x = r THEN 1 ELSE 0)
        BY <1>0, <2>3, <2>4, AccountPush
    <2>6. \A x \in Stages : Account(x) \in Nat /\ Passed(x) \in Int
        <3> TAKE x \in Stages
        <3>1. processed[x] \in Nat
            BY <1>0 DEF DemoTypeOK
        <3> QED
            BY <1>0, <3>1, AccountType DEF Passed
    <2>7. \A x \in Stages : Passed(x)' = Passed(x) + (IF x = s THEN 1 ELSE 0)
        <3> TAKE x \in Stages
        <3>1. processed'[x] = processed[x] /\ processed[x] \in Nat
            BY <1>0, <2>3 DEF DemoTypeOK, statVars
        <3>2. CASE x = s
            <4>1. stage'[s] = "test"
                BY <1>0, <2>3, WokenFacts
            <4> QED
                BY <2>3, <3>1, <3>2, <4>1 DEF Passed
        <3>3. CASE x # s
            BY <2>4, <3>1, <3>3 DEF Passed
        <3> QED
            BY <3>2, <3>3
    <2>8. \A x \in Sources : generated'[x] = generated[x] + (IF x = None THEN 0 ELSE 0)
        BY <1>0, <2>3 DEF DemoTypeOK
    <2>9. \A x \in Stages : Account(x)' = Account(x)
                + (IF None \in Sources /\ Feeds[None] = x THEN 0 ELSE 0)
                + (IF s \in Stages /\ Out[s] = x THEN 1 ELSE 0)
        BY <2>1, <2>5, <2>6
    <2>10. 0 \in Int /\ 1 \in Int
        OBVIOUS
    <2>11. Fed(None, 0) /\ PassedOn(s, 1) /\ Accounted(None, 0, s, 1)
        BY <2>7, <2>8, <2>9 DEF Fed, PassedOn, Accounted
    <2> QED
        BY <1>0, <2>10, <2>11, ConservedStep
<1>13. ASSUME NEW s \in Stages, SpuriousWake(s) PROVE Conserved'
    <2>1. UNCHANGED <<generated, queue, evicted, processed, dropped>>
          /\ \A x \in Stages : /\ (stage[x] = "push" <=> stage'[x] = "push")
                               /\ (stage[x] \in {"judge", "work"}
                                      <=> stage'[x] \in {"judge", "work"})
        BY <1>0, <1>13 DEF DemoTypeOK, SpuriousWake, genVars, queueVars, statVars
    <2>2. \A x \in Stages : Passed(x)' = Passed(x) /\ InHand(x)' = InHand(x)
        BY <2>1 DEF Passed, InHand
    <2>3. \A x \in Stages : Account(x)' = Account(x)
        BY <2>1, <2>2 DEF Account
    <2> QED
        BY <1>100, <2>1, <2>2, <2>3
<1>14. ASSUME ImuStart PROVE Conserved'
    <2>1. UNCHANGED <<generated, queue, evicted, processed, dropped>>
          /\ \A x \in Stages : /\ (stage[x] = "push" <=> stage'[x] = "push")
                               /\ (stage[x] \in {"judge", "work"}
                                      <=> stage'[x] \in {"judge", "work"})
        BY <1>0, <1>14 DEF DemoTypeOK, ImuStart, genVars, queueVars, statVars
    <2>2. \A x \in Stages : Passed(x)' = Passed(x) /\ InHand(x)' = InHand(x)
        BY <2>1 DEF Passed, InHand
    <2>3. \A x \in Stages : Account(x)' = Account(x)
        BY <2>1, <2>2 DEF Account
    <2> QED
        BY <1>100, <2>1, <2>2, <2>3
<1>15. ASSUME ImuPublish PROVE Conserved'
    <2>1. UNCHANGED <<generated, queue, evicted, processed, dropped>>
          /\ \A x \in Stages : /\ (stage[x] = "push" <=> stage'[x] = "push")
                               /\ (stage[x] \in {"judge", "work"}
                                      <=> stage'[x] \in {"judge", "work"})
        BY <1>0, <1>15 DEF DemoTypeOK, ImuPublish, genVars, queueVars, statVars
    <2>2. \A x \in Stages : Passed(x)' = Passed(x) /\ InHand(x)' = InHand(x)
        BY <2>1 DEF Passed, InHand
    <2>3. \A x \in Stages : Account(x)' = Account(x)
        BY <2>1, <2>2 DEF Account
    <2> QED
        BY <1>100, <2>1, <2>2, <2>3
<1>16. ASSUME ImuWake PROVE Conserved'
    <2>1. UNCHANGED <<generated, queue, evicted, processed, dropped>>
          /\ \A x \in Stages : /\ (stage[x] = "push" <=> stage'[x] = "push")
                               /\ (stage[x] \in {"judge", "work"}
                                      <=> stage'[x] \in {"judge", "work"})
        BY <1>0, <1>16 DEF DemoTypeOK, ImuWake, genVars, queueVars, statVars
    <2>2. \A x \in Stages : Passed(x)' = Passed(x) /\ InHand(x)' = InHand(x)
        BY <2>1 DEF Passed, InHand
    <2>3. \A x \in Stages : Account(x)' = Account(x)
        BY <2>1, <2>2 DEF Account
    <2> QED
        BY <1>100, <2>1, <2>2, <2>3
<1>17. ASSUME ImuComplete PROVE Conserved'
    <2>1. UNCHANGED <<generated, queue, evicted, stage, dropped>>
          /\ processed' = [processed EXCEPT ![Imu] = @ + 1]
        BY <1>17 DEF ImuComplete, genVars, queueVars
    <2>2. \A x \in Stages : processed'[x] = processed[x]
        BY <1>0, <2>1, DemoAssumption DEF DemoTypeOK
    <2>3. \A x \in Stages : Passed(x)' = Passed(x) /\ Account(x)' = Account(x)
        BY <2>1, <2>2 DEF Passed, Account, InHand
    <2> QED
        BY <1>100, <2>1, <2>3
<1>18. ASSUME StartWorkload PROVE Conserved'
    <2>1. UNCHANGED <<generated, queue, evicted, processed, dropped>>
          /\ \A x \in Stages : /\ (stage[x] = "push" <=> stage'[x] = "push")
                               /\ (stage[x] \in {"judge", "work"}
                                      <=> stage'[x] \in {"judge", "work"})
        BY <1>0, <1>18 DEF DemoTypeOK, StartWorkload, genVars, queueVars, statVars
    <2>2. \A x \in Stages : Passed(x)' = Passed(x) /\ InHand(x)' = InHand(x)
        BY <2>1 DEF Passed, InHand
    <2>3. \A x \in Stages : Account(x)' = Account(x)
        BY <2>1, <2>2 DEF Account
    <2> QED
        BY <1>100, <2>1, <2>2, <2>3
<1>19. ASSUME JoinSources PROVE Conserved'
    <2>1. UNCHANGED <<generated, queue, evicted, processed, dropped>>
          /\ \A x \in Stages : /\ (stage[x] = "push" <=> stage'[x] = "push")
                               /\ (stage[x] \in {"judge", "work"}
                                      <=> stage'[x] \in {"judge", "work"})
        BY <1>0, <1>19 DEF DemoTypeOK, JoinSources, genVars, queueVars, statVars
    <2>2. \A x \in Stages : Passed(x)' = Passed(x) /\ InHand(x)' = InHand(x)
        BY <2>1 DEF Passed, InHand
    <2>3. \A x \in Stages : Account(x)' = Account(x)
        BY <2>1, <2>2 DEF Account
    <2> QED
        BY <1>100, <2>1, <2>2, <2>3
<1>20. ASSUME EndWindow PROVE Conserved'
    <2>1. UNCHANGED <<generated, queue, evicted, processed, dropped>>
          /\ \A x \in Stages : /\ (stage[x] = "push" <=> stage'[x] = "push")
                               /\ (stage[x] \in {"judge", "work"}
                                      <=> stage'[x] \in {"judge", "work"})
        BY <1>0, <1>20 DEF DemoTypeOK, EndWindow, genVars, queueVars, statVars
    <2>2. \A x \in Stages : Passed(x)' = Passed(x) /\ InHand(x)' = InHand(x)
        BY <2>1 DEF Passed, InHand
    <2>3. \A x \in Stages : Account(x)' = Account(x)
        BY <2>1, <2>2 DEF Account
    <2> QED
        BY <1>100, <2>1, <2>2, <2>3
<1>21. ASSUME StopQueue PROVE Conserved'
    <2>1. PICK s \in Stages : stage' = Woken(s)
        BY <1>21, StopStep
    <2>2. UNCHANGED <<generated, queue, evicted, processed, dropped>>
        BY <1>21 DEF StopQueue, genVars, queueVars, statVars
    <2>3. \A x \in Stages : /\ (stage[x] = "push" <=> stage'[x] = "push")
                            /\ (stage[x] \in {"judge", "work"} <=> stage'[x] \in {"judge", "work"})
        BY <1>0, <2>1, WokenFacts
    <2>4. \A x \in Stages : Passed(x)' = Passed(x) /\ InHand(x)' = InHand(x)
        BY <2>2, <2>3 DEF Passed, InHand
    <2>5. \A x \in Stages : Account(x)' = Account(x)
        BY <2>2, <2>4 DEF Account
    <2> QED
        BY <1>100, <2>2, <2>4, <2>5
<1>22. ASSUME JoinStages PROVE Conserved'
    <2>1. UNCHANGED <<generated, queue, evicted, processed, dropped>>
          /\ \A x \in Stages : /\ (stage[x] = "push" <=> stage'[x] = "push")
                               /\ (stage[x] \in {"judge", "work"}
                                      <=> stage'[x] \in {"judge", "work"})
        BY <1>0, <1>22 DEF DemoTypeOK, JoinStages, genVars, queueVars, statVars
    <2>2. \A x \in Stages : Passed(x)' = Passed(x) /\ InHand(x)' = InHand(x)
        BY <2>1 DEF Passed, InHand
    <2>3. \A x \in Stages : Account(x)' = Account(x)
        BY <2>1, <2>2 DEF Account
    <2> QED
        BY <1>100, <2>1, <2>2, <2>3
<1>23. ASSUME Tick PROVE Conserved'
    <2>1. UNCHANGED <<generated, queue, evicted, processed, dropped>>
          /\ \A x \in Stages : /\ (stage[x] = "push" <=> stage'[x] = "push")
                               /\ (stage[x] \in {"judge", "work"}
                                      <=> stage'[x] \in {"judge", "work"})
        BY <1>0, <1>23 DEF DemoTypeOK, Tick, genVars, queueVars, statVars
    <2>2. \A x \in Stages : Passed(x)' = Passed(x) /\ InHand(x)' = InHand(x)
        BY <2>1 DEF Passed, InHand
    <2>3. \A x \in Stages : Account(x)' = Account(x)
        BY <2>1, <2>2 DEF Account
    <2> QED
        BY <1>100, <2>1, <2>2, <2>3
<1>24. ASSUME Ended PROVE Conserved'
    <2>1. UNCHANGED <<generated, queue, evicted, processed, dropped>>
          /\ \A x \in Stages : /\ (stage[x] = "push" <=> stage'[x] = "push")
                               /\ (stage[x] \in {"judge", "work"}
                                      <=> stage'[x] \in {"judge", "work"})
        BY <1>0, <1>24 DEF DemoTypeOK, Ended, genVars, queueVars, statVars, vars
    <2>2. \A x \in Stages : Passed(x)' = Passed(x) /\ InHand(x)' = InHand(x)
        BY <2>1 DEF Passed, InHand
    <2>3. \A x \in Stages : Account(x)' = Account(x)
        BY <2>1, <2>2 DEF Account
    <2> QED
        BY <1>100, <2>1, <2>2, <2>3
<1> QED
    BY <1>1, <1>2, <1>3, <1>4, <1>5, <1>6, <1>7, <1>8, <1>9, <1>10, <1>11, <1>12,
       <1>13, <1>14, <1>15, <1>16, <1>17, <1>18, <1>19, <1>20, <1>21, <1>22,
       <1>23, <1>24 DEF Next, Stage, ImuThread, Main

-----------------------------------------------------------------------------
(* Order                                                                   *)

\* Two items of one source are in order.
Before(u, v) == u[1] = v[1] => u[2] < v[2]

\* A step that moves no item, and gives none to a stage
Still ==
    /\ UNCHANGED <<queue, item, generated>>
    /\ \A s \in Stages : stage'[s] \in {"judge", "work", "push"} =>
           stage[s] \in {"judge", "work", "push"}

LEMMA InOrderParts ==
    InOrder <=>
        /\ \A s \in Stages : \A i, k \in 1 .. Len(queue[s]) :
               i < k => Before(queue[s][i], queue[s][k])
        /\ \A s \in Stages : \A i \in 1 .. Len(queue[s]) :
               item[s] # None => Before(item[s], queue[s][i])
        /\ \A s, t \in Stages : Rank[s] < Rank[t] =>
               \A v \in Seen(s), u \in Live(t) : Before(v, u)
<1>1. (\A s \in Stages : \A i, k \in 1 .. Len(queue[s]) :
           i < k /\ queue[s][i][1] = queue[s][k][1] => queue[s][i][2] < queue[s][k][2])
      <=> (\A s \in Stages : \A i, k \in 1 .. Len(queue[s]) :
               i < k => Before(queue[s][i], queue[s][k]))
    BY DEF Before
<1>2. (\A s \in Stages : \A i \in 1 .. Len(queue[s]) :
           item[s] # None /\ item[s][1] = queue[s][i][1] => item[s][2] < queue[s][i][2])
      <=> (\A s \in Stages : \A i \in 1 .. Len(queue[s]) :
               item[s] # None => Before(item[s], queue[s][i]))
    BY DEF Before
<1>3. (\A s, t \in Stages : Rank[s] < Rank[t] =>
           \A v \in Seen(s), u \in Live(t) : v[1] = u[1] => v[2] < u[2])
      <=> (\A s, t \in Stages : Rank[s] < Rank[t] =>
               \A v \in Seen(s), u \in Live(t) : Before(v, u))
    BY DEF Before
<1> QED
    BY <1>1, <1>2, <1>3 DEF InOrder

(* What a stage has seen are items, and it has seen what it has.             *)
LEMMA SeenFacts ==
    ASSUME DemoInv, NEW s \in Stages
    PROVE  /\ Live(s) \subseteq Seen(s) /\ Seen(s) \subseteq Item
           /\ \A v \in Item : v \in Seen(s) <=> (v \in Queued(s) \/ v = item[s])
           /\ \A v \in Item : v \in Live(s) <=>
                  (v \in Queued(s) \/ (v = item[s] /\ stage[s] \in {"judge", "work", "push"}))
           /\ \A v \in Seen(s) : v[1] \in Sources /\ s \in Route(v[1]) /\ v[2] \in Nat
                                 /\ v[2] <= generated[v[1]]
<1>1. queue[s] \in Seq(Item) /\ item[s] \in Item \cup {None} /\ None \notin Item
      /\ (stage[s] \in {"judge", "work", "push"} => item[s] \in Item)
    BY DemoAssumption DEF DemoInv, DemoTypeOK, StagePlace, Item, Producers
<1>2. \A v \in Item : v[2] \in Nat
    BY DEF Item
<1>3. \A v \in Seen(s) : v[1] \in Sources /\ s \in Route(v[1]) /\ v[2] <= generated[v[1]]
    BY DEF DemoInv, OnRoute
<1> HIDE DEF Item
<1>4. Queued(s) \subseteq Item
    <2>1. PICK q \in Seq(Item) : q = queue[s]
        BY <1>1
    <2>2. \A i \in 1 .. Len(q) : q[i] \in Item
        BY <2>1
    <2> QED
        BY <2>1, <2>2 DEF Queued
<1> HIDE DEF Queued
<1>5. Live(s) \subseteq Seen(s) /\ Seen(s) \subseteq Item
    BY <1>1, <1>4 DEF Live, Seen
<1>6. \A v \in Item : /\ v \in Seen(s) <=> (v \in Queued(s) \/ v = item[s])
                      /\ v \in Live(s) <=>
                             (v \in Queued(s)
                              \/ (v = item[s] /\ stage[s] \in {"judge", "work", "push"}))
    BY <1>1 DEF Live, Seen
<1> QED
    BY <1>2, <1>3, <1>5, <1>6

LEMMA StillOrder ==
    ASSUME DemoInv, Still
    PROVE  OnRoute' /\ InOrder'
<1>1. \A s \in Stages : Queued(s)' = Queued(s) /\ Seen(s)' = Seen(s)
    BY DEF Still, Queued, Seen
<1>2. \A s \in Stages : Live(s)' \subseteq Live(s)
    BY <1>1 DEF Still, Live
<1>3. OnRoute /\ InOrder /\ UNCHANGED <<queue, item, generated>>
    BY DEF DemoInv, Still
<1>4. OnRoute'
    BY <1>1, <1>3 DEF OnRoute
<1>5. InOrder'
    BY <1>1, <1>2, <1>3 DEF InOrder
<1> QED
    BY <1>4, <1>5

(* pop() moves the oldest item of the queue to the stage.                    *)
LEMMA PopOrder ==
    ASSUME DemoInv, NEW s \in Stages, PopTake(s)
    PROVE  OnRoute' /\ InOrder'
<1>0. DemoTypeOK /\ queue[s] \in Seq(Item) /\ queue[s] # <<>>
    BY DEF DemoInv, DemoTypeOK, PopTake
<1>1. PICK q \in Seq(Item) : q = queue[s] /\ q # <<>>
    BY <1>0
<1>2. Tail(q) \in Seq(Item) /\ Len(q) \in Nat \ {0} /\ Head(q) = q[1] /\ q[1] \in Item
      /\ Len(Tail(q)) = Len(q) - 1
      /\ \A i \in 1 .. Len(q) - 1 : i + 1 \in 1 .. Len(q) /\ Tail(q)[i] = q[i + 1]
    BY <1>1
<1>3. /\ queue'[s] = Tail(q) /\ item'[s] = q[1] /\ generated' = generated
      /\ stage' = [stage EXCEPT ![s] = "judge"]
    BY <1>0, <1>1, <1>2 DEF PopTake, DemoTypeOK, genVars
<1>4. \A t \in Stages : t # s => /\ queue'[t] = queue[t] /\ item'[t] = item[t]
                                 /\ stage'[t] = stage[t]
    BY <1>0 DEF PopTake, DemoTypeOK
<1>5. \A t \in Stages : t # s => Seen(t)' = Seen(t) /\ Live(t)' = Live(t)
    BY <1>4 DEF Seen, Live, Queued
<1>6. Queued(s)' \subseteq Queued(s) /\ q[1] \in Queued(s)
    <2>1. Queued(s)' = {Tail(q)[i] : i \in 1 .. Len(q) - 1} /\ Queued(s) = {q[i] : i \in 1 .. Len(q)}
        BY <1>1, <1>2, <1>3 DEF Queued
    <2>2. 1 \in 1 .. Len(q)
        BY <1>2
    <2> QED
        BY <1>2, <2>1, <2>2
<1>7. Seen(s)' \subseteq Queued(s) /\ Live(s)' \subseteq Queued(s)
    BY <1>3, <1>6 DEF Seen, Live
<1>8. \A t \in Stages : Seen(t)' \subseteq Seen(t) /\ Live(t)' \subseteq Live(t)
    BY <1>5, <1>7 DEF Seen, Live
<1>9. OnRoute'
    BY <1>3, <1>8 DEF DemoInv, OnRoute
<1>10. /\ \A t \in Stages : \A i, k \in 1 .. Len(queue[t]) :
              i < k => Before(queue[t][i], queue[t][k])
       /\ \A t \in Stages : \A i \in 1 .. Len(queue[t]) :
              item[t] # None => Before(item[t], queue[t][i])
       /\ \A x, t \in Stages : Rank[x] < Rank[t] =>
              \A v \in Seen(x), u \in Live(t) : Before(v, u)
    BY InOrderParts DEF DemoInv
<1> HIDE DEF Before
<1>11. \A i, k \in 1 .. Len(q) : i < k => Before(q[i], q[k])
    BY <1>1, <1>10
<1>12. \A i, k \in 1 .. Len(q) - 1 : i < k => Before(Tail(q)[i], Tail(q)[k])
    <2> TAKE i, k \in 1 .. Len(q) - 1
    <2> HAVE i < k
    <2>1. i + 1 \in 1 .. Len(q) /\ k + 1 \in 1 .. Len(q) /\ i + 1 < k + 1
        BY <1>2
    <2>2. Before(q[i + 1], q[k + 1])
        BY <1>11, <2>1
    <2> QED
        BY <1>2, <2>2
<1>13. \A i \in 1 .. Len(q) - 1 : Before(q[1], Tail(q)[i])
    <2> TAKE i \in 1 .. Len(q) - 1
    <2>1. i + 1 \in 1 .. Len(q) /\ 1 \in 1 .. Len(q) /\ 1 < i + 1
        BY <1>2
    <2>2. Before(q[1], q[i + 1])
        BY <1>11, <2>1
    <2> QED
        BY <1>2, <2>2
<1>14. \A t \in Stages : \A i, k \in 1 .. Len(queue'[t]) :
           i < k => Before(queue'[t][i], queue'[t][k])
    <2> TAKE t \in Stages
    <2>1. CASE t = s
        BY <1>2, <1>3, <1>12, <2>1
    <2>2. CASE t # s
        BY <1>4, <1>10, <2>2
    <2> QED
        BY <2>1, <2>2
<1>15. \A t \in Stages : \A i \in 1 .. Len(queue'[t]) :
           item'[t] # None => Before(item'[t], queue'[t][i])
    <2> TAKE t \in Stages
    <2>1. CASE t = s
        BY <1>2, <1>3, <1>13, <2>1
    <2>2. CASE t # s
        BY <1>4, <1>10, <2>2
    <2> QED
        BY <2>1, <2>2
<1>16. \A x, t \in Stages : Rank[x] < Rank[t] =>
           \A v \in Seen(x)', u \in Live(t)' : Before(v, u)
    BY <1>8, <1>10
<1>17. InOrder'
    <2>1. \A v, u : Before(v, u) => (v[1] = u[1] => v[2] < u[2])
        BY DEF Before
    <2>2. \A t \in Stages : \A i, k \in 1 .. Len(queue'[t]) :
              i < k /\ queue'[t][i][1] = queue'[t][k][1] => queue'[t][i][2] < queue'[t][k][2]
        BY <1>14, <2>1
    <2>3. \A t \in Stages : \A i \in 1 .. Len(queue'[t]) :
              item'[t] # None /\ item'[t][1] = queue'[t][i][1] => item'[t][2] < queue'[t][i][2]
        BY <1>15, <2>1
    <2>4. \A x, t \in Stages : Rank[x] < Rank[t] =>
              \A v \in Seen(x)', u \in Live(t)' : v[1] = u[1] => v[2] < u[2]
        BY <1>16, <2>1
    <2> QED
        BY <2>2, <2>3, <2>4 DEF InOrder
<1> QED
    BY <1>9, <1>17

(* A push keeps the order if the item follows what the stages from there on  *)
(* have seen, and precedes what is still on its way.                         *)
LEMMA PushOrder ==
    ASSUME DemoInv, NEW r \in Stages, NEW v \in Item, Push(r, v), item' = item,
           \A s \in Stages : stage'[s] \in {"judge", "work", "push"} =>
               stage[s] \in {"judge", "work", "push"},
           \A x \in Sources : generated[x] <= generated'[x] /\ generated'[x] \in Nat,
           v[1] \in Sources, r \in Route(v[1]), v[2] <= generated'[v[1]],
           \A s \in Stages : Rank[s] <= Rank[r] =>
               \A u \in Seen(s) : Rank[s] < Rank[r] \/ s = r => Before(u, v),
           \A t \in Stages : Rank[r] < Rank[t] => \A u \in Live(t)' : Before(v, u)
    PROVE  OnRoute' /\ InOrder'
<1>0. DemoTypeOK /\ None \notin Item
    BY DemoAssumption DEF DemoInv, Item, Producers
<1>1. PICK f \in Seq(Item) : f = Fresh(r) /\ Thinned(f, queue[r])
    BY <1>0, FreshFacts DEF Thinned
<1>2. queue'[r] = Append(f, v) /\ \A t \in Stages : t # r => queue'[t] = queue[t]
    BY <1>0, <1>1, PushFacts
<1>3. /\ Len(f) \in Nat /\ Len(Append(f, v)) = Len(f) + 1
      /\ \A i \in 1 .. Len(f) : Append(f, v)[i] = f[i]
      /\ Append(f, v)[Len(f) + 1] = v
      /\ \A i \in 1 .. Len(f) + 1 : i \in 1 .. Len(f) \/ i = Len(f) + 1
    BY <1>1
<1>4. \A t \in Stages : t # r => Seen(t)' = Seen(t) /\ Live(t)' \subseteq Live(t)
    BY <1>2 DEF Seen, Live, Queued
<1>5. \A k \in 1 .. Len(f) : f[k] \in Queued(r)
    BY <1>1 DEF Queued, Thinned
<1>6. Queued(r)' \subseteq Queued(r) \cup {v}
    <2>1. Queued(r)' = {Append(f, v)[i] : i \in 1 .. Len(f) + 1}
        BY <1>2, <1>3 DEF Queued
    <2> QED
        BY <1>3, <1>5, <2>1
<1>7. Seen(r)' \subseteq Seen(r) \cup {v} /\ Live(r)' \subseteq Live(r) \cup {v}
    BY <1>6 DEF Seen, Live
<1>8. \A s \in Stages : \A u \in Seen(s) :
          u[1] \in Sources /\ s \in Route(u[1]) /\ u[2] \in Nat /\ u[2] <= generated[u[1]]
    BY SeenFacts
<1>9. \A s \in Stages : Rank[s] \in Nat
    BY RankFacts
<1>10. OnRoute'
    <2>1. ASSUME NEW s \in Stages, NEW u \in Seen(s)'
          PROVE  u[1] \in Sources /\ s \in Route(u[1]) /\ u[2] <= generated'[u[1]]
        <3>1. CASE u \in Seen(s)
            <4>1. u[1] \in Sources /\ s \in Route(u[1]) /\ u[2] \in Nat /\ u[2] <= generated[u[1]]
                BY <1>8, <3>1
            <4>2. generated[u[1]] \in Nat
                BY <1>0, <4>1 DEF DemoTypeOK
            <4> QED
                BY <4>1, <4>2
        <3>2. CASE u \notin Seen(s)
            <4>1. s = r /\ u = v
                BY <1>4, <1>7, <2>1, <3>2
            <4> QED
                BY <4>1
        <3> QED
            BY <3>1, <3>2
    <2> QED
        BY <2>1 DEF OnRoute
<1>11. \A u \in Seen(r) : Before(u, v)
    BY <1>9
<1>12. \A s \in Stages : Rank[s] < Rank[r] => \A u \in Seen(s) : Before(u, v)
    BY <1>9
<1>13. \A s \in Stages : Queued(s) \subseteq Seen(s)
    BY DEF Seen
<1>14. /\ \A t \in Stages : \A i, k \in 1 .. Len(queue[t]) :
              i < k => Before(queue[t][i], queue[t][k])
       /\ \A t \in Stages : \A i \in 1 .. Len(queue[t]) :
              item[t] # None => Before(item[t], queue[t][i])
       /\ \A x, t \in Stages : Rank[x] < Rank[t] =>
              \A w \in Seen(x), u \in Live(t) : Before(w, u)
    BY InOrderParts DEF DemoInv
<1> HIDE DEF Before
<1>15. \A i, k \in 1 .. Len(f) + 1 : i < k => Before(Append(f, v)[i], Append(f, v)[k])
    <2> TAKE i, k \in 1 .. Len(f) + 1
    <2> HAVE i < k
    <2>1. i \in 1 .. Len(f)
        BY <1>3
    <2>2. CASE k = Len(f) + 1
        <3>1. f[i] \in Seen(r)
            BY <1>5, <1>13, <2>1
        <3> QED
            BY <1>3, <1>11, <2>1, <2>2, <3>1
    <2>3. CASE k \in 1 .. Len(f)
        <3>1. PICK c, d \in 1 .. Len(queue[r]) : c < d /\ f[i] = queue[r][c] /\ f[k] = queue[r][d]
            BY <1>1, <2>1, <2>3 DEF Thinned
        <3>2. Before(f[i], f[k])
            BY <1>14, <3>1
        <3> QED
            BY <1>3, <2>1, <2>3, <3>2
    <2> QED
        BY <1>3, <2>2, <2>3
<1>16. item[r] # None => \A i \in 1 .. Len(f) + 1 : Before(item[r], Append(f, v)[i])
    <2> HAVE item[r] # None
    <2> TAKE i \in 1 .. Len(f) + 1
    <2>1. CASE i = Len(f) + 1
        <3>1. item[r] \in Seen(r)
            BY DEF Seen
        <3> QED
            BY <1>3, <1>11, <2>1, <3>1
    <2>2. CASE i \in 1 .. Len(f)
        <3>1. PICK d \in 1 .. Len(queue[r]) : f[i] = queue[r][d]
            BY <1>1, <2>2 DEF Thinned
        <3> QED
            BY <1>3, <1>14, <2>2, <3>1
    <2> QED
        BY <1>3, <2>1, <2>2
<1>17. \A t \in Stages : \A i, k \in 1 .. Len(queue'[t]) :
           i < k => Before(queue'[t][i], queue'[t][k])
    <2> TAKE t \in Stages
    <2>1. CASE t = r
        BY <1>2, <1>3, <1>15, <2>1
    <2>2. CASE t # r
        BY <1>2, <1>14, <2>2
    <2> QED
        BY <2>1, <2>2
<1>18. \A t \in Stages : \A i \in 1 .. Len(queue'[t]) :
           item'[t] # None => Before(item'[t], queue'[t][i])
    <2> TAKE t \in Stages
    <2>1. CASE t = r
        BY <1>2, <1>3, <1>16, <2>1
    <2>2. CASE t # r
        BY <1>2, <1>14, <2>2
    <2> QED
        BY <2>1, <2>2
<1>19. ASSUME NEW x \in Stages, NEW t \in Stages, Rank[x] < Rank[t],
              NEW w \in Seen(x)', NEW u \in Live(t)'
       PROVE  Before(w, u)
    <2>1. CASE w \in Seen(x) /\ u \in Live(t)
        BY <1>14, <1>19, <2>1
    <2>2. CASE u \notin Live(t)
        <3>1. t = r /\ u = v
            BY <1>4, <1>7, <1>19, <2>2
        <3>2. x # r
            BY <1>9, <1>19, <3>1
        <3>3. w \in Seen(x)
            BY <1>4, <1>19, <3>2
        <3> QED
            BY <1>12, <1>19, <3>1, <3>3
    <2>3. CASE w \notin Seen(x)
        <3>1. x = r /\ w = v
            BY <1>4, <1>7, <1>19, <2>3
        <3> QED
            BY <1>19, <3>1
    <2> QED
        BY <2>1, <2>2, <2>3
<1>20. InOrder'
    <2>1. \A w, u : Before(w, u) => (w[1] = u[1] => w[2] < u[2])
        BY DEF Before
    <2>2. \A t \in Stages : \A i, k \in 1 .. Len(queue'[t]) :
              i < k /\ queue'[t][i][1] = queue'[t][k][1] => queue'[t][i][2] < queue'[t][k][2]
        BY <1>17, <2>1
    <2>3. \A t \in Stages : \A i \in 1 .. Len(queue'[t]) :
              item'[t] # None /\ item'[t][1] = queue'[t][i][1] => item'[t][2] < queue'[t][i][2]
        BY <1>18, <2>1
    <2>4. \A x, t \in Stages : Rank[x] < Rank[t] =>
              \A w \in Seen(x)', u \in Live(t)' : w[1] = u[1] => w[2] < u[2]
        BY <1>19, <2>1
    <2> QED
        BY <2>2, <2>3, <2>4 DEF InOrder
<1> QED
    BY <1>10, <1>20

(* The frame that a generator pushes is later than all it has pushed.        *)
LEMMA FeedOrder ==
    ASSUME DemoInv, NEW g \in Sources, Generate(g) \/ Deliver(g)
    PROVE  OnRoute' /\ InOrder'
<1>0. DemoTypeOK
    BY DEF DemoInv
<1>1. PICK r \in Stages : r = Feeds[g]
    BY FeedStep
<1>2. PICK v \in Item : v = <<g, generated[g] + 1>>
    BY FeedStep
<1>3. Push(r, v) /\ item' = item /\ generated' = [generated EXCEPT ![g] = @ + 1]
      /\ stage' = Woken(r)
    BY <1>1, <1>2, FeedStep
<1>4. \A s \in Stages : stage'[s] \in {"judge", "work", "push"} =>
          stage[s] \in {"judge", "work", "push"}
    BY <1>0, <1>3, WokenFacts
<1>5. v[1] = g /\ v[2] = generated[g] + 1 /\ generated[g] \in Nat
    BY <1>0, <1>2 DEF DemoTypeOK
<1>6. \A x \in Sources : generated[x] <= generated'[x] /\ generated'[x] \in Nat
    <2>1. generated \in [Sources -> Nat]
        BY <1>0 DEF DemoTypeOK
    <2>2. \A x \in Sources : generated'[x] = IF x = g THEN generated[x] + 1 ELSE generated[x]
        BY <1>3, <2>1
    <2>3. \A x \in Sources : generated[x] \in Nat
        BY <2>1
    <2> QED
        BY <2>2, <2>3
<1>7. v[1] \in Sources /\ r \in Route(v[1]) /\ v[2] <= generated'[v[1]]
    <2>1. generated \in [Sources -> Nat]
        BY <1>0 DEF DemoTypeOK
    <2>2. generated'[g] = generated[g] + 1
        BY <1>3, <2>1
    <2> QED
        BY <1>1, <1>5, <2>2, RouteClosed
<1>8. \A s \in Stages : \A u \in Seen(s) : Before(u, v)
    <2> TAKE s \in Stages
    <2> TAKE u \in Seen(s)
    <2>1. u[2] \in Nat /\ u[2] <= generated[u[1]]
        BY SeenFacts
    <2> QED
        BY <1>5, <2>1 DEF Before
<1>9. ASSUME NEW t \in Stages, Rank[r] < Rank[t], NEW u \in Live(t)' PROVE Before(v, u)
    <2>1. Rank[r] \in Nat /\ Rank[t] \in Nat /\ t # r
        BY <1>9, RankFacts
    <2>2. queue'[t] = queue[t]
        BY <1>0, <1>3, <2>1, PushFacts
    <2>3. u \in Live(t)
        BY <1>3, <1>4, <1>9, <2>2 DEF Live, Queued
    <2>4. u[1] \in Sources /\ t \in Route(u[1])
        BY <2>3, SeenFacts
    <2>5. u[1] # g
        BY <1>1, <1>9, <2>1, <2>4, RouteUnique
    <2> QED
        BY <1>5, <2>5 DEF Before
<1> QED
    BY <1>3, <1>4, <1>6, <1>7, <1>8, <1>9, PushOrder

(* What a stage pushes on is later than all that went before on the route,   *)
(* and earlier than what is still queued behind it.                          *)
LEMMA ForwardOrder ==
    ASSUME DemoInv, NEW s \in Stages, Forward(s)
    PROVE  OnRoute' /\ InOrder'
<1>0. DemoTypeOK /\ None \notin Item
    BY DemoAssumption DEF DemoInv, Item, Producers
<1>1. PICK r \in Stages : r = Out[s]
    BY ForwardStep
<1>2. PICK v \in Item : v = item[s]
    BY ForwardStep
<1>3. /\ Push(r, v) /\ item' = item /\ generated' = generated /\ stage[s] = "push"
      /\ stage' = [Woken(r) EXCEPT ![s] = "test"]
    BY <1>1, <1>2, ForwardStep DEF genVars
<1>4. stage'[s] = "test" /\ \A t \in Stages : stage'[t] \in {"judge", "work", "push"} =>
          stage[t] \in {"judge", "work", "push"}
    BY <1>0, <1>3, WokenFacts
<1>5. \A x \in Sources : generated[x] <= generated'[x] /\ generated'[x] \in Nat
    BY <1>0, <1>3 DEF DemoTypeOK
<1>6. v \in Live(s) /\ v \in Seen(s)
    BY <1>2, <1>3, SeenFacts
<1>7. Rank[s] = Rank[r] + 1 /\ \A t \in Stages : Rank[t] \in Nat
    BY <1>1, RankFacts, DemoAssumption
<1>8. v[1] \in Sources /\ s \in Route(v[1]) /\ v[2] <= generated'[v[1]]
    BY <1>3, <1>6, SeenFacts
<1>9. r \in Route(v[1])
    BY <1>1, <1>8, RouteClosed, DemoAssumption
<1>10. /\ \A t \in Stages : \A i \in 1 .. Len(queue[t]) :
              item[t] # None => Before(item[t], queue[t][i])
       /\ \A x, t \in Stages : Rank[x] < Rank[t] =>
              \A w \in Seen(x), u \in Live(t) : Before(w, u)
    BY InOrderParts DEF DemoInv
<1>11. \A x \in Stages : Rank[x] <= Rank[r] => \A u \in Seen(x) : Before(u, v)
    <2> TAKE x \in Stages
    <2> HAVE Rank[x] <= Rank[r]
    <2>1. Rank[x] < Rank[s]
        BY <1>7
    <2> QED
        BY <1>6, <1>10, <2>1
<1>12. ASSUME NEW t \in Stages, Rank[r] < Rank[t], NEW u \in Live(t)' PROVE Before(v, u)
    <2>1. t # r
        BY <1>7, <1>12
    <2>2. queue'[t] = queue[t]
        BY <1>0, <1>3, <2>1, PushFacts
    <2>3. u \in Live(t)
        BY <1>3, <1>4, <1>12, <2>2 DEF Live, Queued
    <2>4. CASE t = s
        <3>1. u \in Queued(s)
            BY <1>4, <1>12, <2>2, <2>4 DEF Live, Queued
        <3>2. PICK i \in 1 .. Len(queue[s]) : u = queue[s][i]
            BY <3>1 DEF Queued
        <3> QED
            BY <1>0, <1>2, <1>10, <3>2
    <2>5. CASE t # s /\ Rank[t] = Rank[s]
        <3>1. u[1] \in Sources /\ t \in Route(u[1])
            BY <2>3, SeenFacts
        <3>2. u[1] # v[1]
            BY <1>8, <2>5, <3>1, RouteUnique
        <3> QED
            BY <3>2 DEF Before
    <2>6. CASE Rank[s] < Rank[t]
        BY <1>6, <1>10, <2>3, <2>6
    <2>7. Rank[s] < Rank[t] \/ Rank[t] = Rank[s]
        BY <1>7, <1>12
    <2> QED
        BY <2>4, <2>5, <2>6, <2>7
<1> QED
    BY <1>3, <1>4, <1>5, <1>8, <1>9, <1>11, <1>12, PushOrder

(* Items move by push() and pop() only.                                      *)
LEMMA Motion ==
    ASSUME DemoInv, Next
    PROVE  \/ Still
           \/ \E g \in Sources : Generate(g) \/ Deliver(g)
           \/ \E s \in Stages : PopTake(s) \/ Forward(s)
<1>0. DemoTypeOK
    BY DEF DemoInv
<1> DEFINE Goal == \/ Still
                   \/ \E g \in Sources : Generate(g) \/ Deliver(g)
                   \/ \E s \in Stages : PopTake(s) \/ Forward(s)
<1>1. ASSUME NEW g \in Sources, Hold(g) PROVE Goal
    BY <1>0, <1>1 DEF DemoTypeOK, Still, Hold, genVars, queueVars
<1>2. ASSUME NEW g \in Sources, Generate(g) PROVE Goal
    BY <1>2
<1>3. ASSUME NEW g \in Sources, Deliver(g) PROVE Goal
    BY <1>3
<1>4. ASSUME NEW s \in Stages, Enroll(s) PROVE Goal
    BY <1>0, <1>4 DEF DemoTypeOK, Still, Enroll, genVars, queueVars
<1>5. ASSUME NEW s \in Stages, TestRunning(s) PROVE Goal
    BY <1>0, <1>5 DEF DemoTypeOK, Still, TestRunning, genVars, queueVars
<1>6. ASSUME NEW s \in Stages, PopWait(s) PROVE Goal
    BY <1>0, <1>6 DEF DemoTypeOK, Still, PopWait, genVars, queueVars
<1>7. ASSUME NEW s \in Stages, PopStopped(s) PROVE Goal
    BY <1>0, <1>7 DEF DemoTypeOK, Still, PopStopped, genVars, queueVars
<1>8. ASSUME NEW s \in Stages, PopTake(s) PROVE Goal
    BY <1>8
<1>9. ASSUME NEW s \in Stages, Drop(s) PROVE Goal
    BY <1>0, <1>9 DEF DemoTypeOK, Still, Drop, genVars, queueVars
<1>10. ASSUME NEW s \in Stages, Compute(s) PROVE Goal
    BY <1>0, <1>10 DEF DemoTypeOK, Still, Compute, genVars, queueVars
<1>11. ASSUME NEW s \in Stages, Complete(s) PROVE Goal
    BY <1>0, <1>11 DEF DemoTypeOK, Still, Complete, genVars, queueVars
<1>12. ASSUME NEW s \in Stages, Forward(s) PROVE Goal
    BY <1>12
<1>13. ASSUME NEW s \in Stages, SpuriousWake(s) PROVE Goal
    BY <1>0, <1>13 DEF DemoTypeOK, Still, SpuriousWake, genVars, queueVars
<1>14. ASSUME ImuStart PROVE Goal
    BY <1>0, <1>14 DEF DemoTypeOK, Still, ImuStart, genVars, queueVars
<1>15. ASSUME ImuPublish PROVE Goal
    BY <1>0, <1>15 DEF DemoTypeOK, Still, ImuPublish, genVars, queueVars
<1>16. ASSUME ImuWake PROVE Goal
    BY <1>0, <1>16 DEF DemoTypeOK, Still, ImuWake, genVars, queueVars
<1>17. ASSUME ImuComplete PROVE Goal
    BY <1>0, <1>17 DEF DemoTypeOK, Still, ImuComplete, genVars, queueVars
<1>18. ASSUME StartWorkload PROVE Goal
    BY <1>0, <1>18 DEF DemoTypeOK, Still, StartWorkload, genVars, queueVars
<1>19. ASSUME JoinSources PROVE Goal
    BY <1>0, <1>19 DEF DemoTypeOK, Still, JoinSources, genVars, queueVars
<1>20. ASSUME EndWindow PROVE Goal
    BY <1>0, <1>20 DEF DemoTypeOK, Still, EndWindow, genVars, queueVars
<1>21. ASSUME StopQueue PROVE Goal
    <2>1. PICK s \in Stages : stage' = Woken(s)
        BY <1>21, StopStep
    <2>2. \A t \in Stages : stage'[t] \in {"judge", "work", "push"} =>
              stage[t] \in {"judge", "work", "push"}
        BY <1>0, <2>1, WokenFacts
    <2> QED
        BY <1>21, <2>2 DEF Still, StopQueue, genVars, queueVars
<1>22. ASSUME JoinStages PROVE Goal
    BY <1>0, <1>22 DEF DemoTypeOK, Still, JoinStages, genVars, queueVars
<1>23. ASSUME Tick PROVE Goal
    BY <1>0, <1>23 DEF DemoTypeOK, Still, Tick, genVars, queueVars
<1>24. ASSUME Ended PROVE Goal
    BY <1>24 DEF Still, Ended, vars, genVars, queueVars
<1> QED
    BY <1>1, <1>2, <1>3, <1>4, <1>5, <1>6, <1>7, <1>8, <1>9, <1>10, <1>11, <1>12,
       <1>13, <1>14, <1>15, <1>16, <1>17, <1>18, <1>19, <1>20, <1>21, <1>22,
       <1>23, <1>24 DEF Next, Stage, ImuThread, Main

(* No step lets an item overtake another of its source.                      *)
LEMMA OrderNext ==
    ASSUME DemoInv, Next
    PROVE  OnRoute' /\ InOrder'
BY Motion, StillOrder, FeedOrder, PopOrder, ForwardOrder

-----------------------------------------------------------------------------
(* The start                                                               *)

LEMMA TotalZero ==
    ASSUME NEW S, IsFiniteSet(S), NEW f \in [S -> Int], \A x \in S : f[x] = 0
    PROVE  Total(f) = 0
<1>0. PICK a : SumsOf(f, a, S)
    BY TotalRecursion
<1>1. a \in [SUBSET S -> Int] /\ Total(f) = a[S]
      /\ \A T \in SUBSET S : a[T] = SumStep(f, a, T)
    BY <1>0 DEF SumsOf
<1>2. \A T \in SUBSET S : Cardinality(T) \in Nat /\ IsFiniteSet(T)
    BY FS_Subset, FS_CardinalityType
<1> DEFINE bad == {n \in Nat : \E T \in SUBSET S : Cardinality(T) = n /\ a[T] # 0}
<1>3. bad = {}
    <2>1. SUFFICES ASSUME bad # {} PROVE FALSE
        OBVIOUS
    <2>2. PICK n \in bad : \A m \in bad : n <= m
        <3>1. bad \subseteq Nat
            OBVIOUS
        <3> HIDE DEF bad
        <3> QED
            BY <2>1, <3>1, LeastNumber
    <2>3. PICK T \in SUBSET S : Cardinality(T) = n /\ a[T] # 0
        BY <2>2
    <2>4. T # {} /\ a[T] = f[First(T)] + a[T \ {First(T)}]
        BY <1>1, <2>3 DEF SumStep
    <2>5. First(T) \in T
        BY <2>4 DEF First
    <2>6. Cardinality(T \ {First(T)}) = n - 1 /\ T \ {First(T)} \in SUBSET S
        BY <1>2, <2>3, <2>5, FS_RemoveElement
    <2>7. a[T \ {First(T)}] = 0
        <3>1. ~ (n <= n - 1) /\ n - 1 \in Nat
            BY <1>2, <2>2, <2>6
        <3>2. n - 1 \notin bad
            <4> HIDE DEF bad
            <4> QED
                BY <2>2, <3>1
        <3> QED
            BY <2>6, <3>1, <3>2
    <2>8. f[First(T)] = 0
        BY <2>3, <2>5
    <2> QED
        BY <2>3, <2>4, <2>7, <2>8
<1>4. S \in SUBSET S /\ Cardinality(S) \in Nat
    BY <1>2
<1>5. a[S] = 0
    BY <1>3, <1>4
<1> QED
    BY <1>1, <1>5

(* The counters of a stage start at zero, those of the imu thread with its   *)
(* jobs offered.                                                             *)
LEMMA StartCounts ==
    ASSUME Init
    PROVE  /\ window \in [Stages \cup {Imu} -> Counters]
           /\ cut \in [Stages \cup {Imu} -> Load]
           /\ \A s \in Stages \cup {Imu} :
                  /\ window[s].offered = IF s = Imu THEN Frames[Imu] ELSE 0
                  /\ window[s].dequeued = 0 /\ window[s].evicted = 0
                  /\ window[s].completed = 0 /\ window[s].dropped = 0
                  /\ cut[s].pending = 0 /\ cut[s].in_flight = 0
<1>1. Frames[Imu] \in Nat
    BY DemoAssumption
<1>2. \A n \in Nat : LET c == [NoCounts EXCEPT !.offered = n]
                     IN  /\ c \in Counters /\ c.offered = n /\ c.dequeued = 0
                         /\ c.evicted = 0 /\ c.completed = 0 /\ c.dropped = 0
    BY DEF NoCounts, Counters
<1>3. \A s \in Stages \cup {Imu} : \E n \in Nat :
          n = (IF s = Imu THEN Frames[Imu] ELSE 0) /\ window[s] = [NoCounts EXCEPT !.offered = n]
    BY <1>1 DEF Init
<1>4. window = [s \in Stages \cup {Imu} |-> window[s]]
    BY DEF Init
<1>5. \A s \in Stages \cup {Imu} :
          /\ window[s] \in Counters /\ window[s].offered = IF s = Imu THEN Frames[Imu] ELSE 0
          /\ window[s].dequeued = 0 /\ window[s].evicted = 0
          /\ window[s].completed = 0 /\ window[s].dropped = 0
    <2> TAKE s \in Stages \cup {Imu}
    <2>1. PICK n \in Nat : n = (IF s = Imu THEN Frames[Imu] ELSE 0)
                           /\ window[s] = [NoCounts EXCEPT !.offered = n]
        BY <1>3
    <2>2. PICK c : c = [NoCounts EXCEPT !.offered = n]
        OBVIOUS
    <2>3. /\ c \in Counters /\ c.offered = n /\ c.dequeued = 0
          /\ c.evicted = 0 /\ c.completed = 0 /\ c.dropped = 0
        BY <1>2, <2>2
    <2> QED
        BY <2>1, <2>2, <2>3
<1>6. cut \in [Stages \cup {Imu} -> Load]
    BY DEF Init, Load
<1>7. \A s \in Stages \cup {Imu} : cut[s].pending = 0 /\ cut[s].in_flight = 0
    BY DEF Init
<1>8. window \in [Stages \cup {Imu} -> Counters]
    BY <1>4, <1>5
<1> QED
    BY <1>5, <1>6, <1>7, <1>8

LEMMA DemoInit == Init => DemoInv
<1> SUFFICES ASSUME Init PROVE DemoInv
    OBVIOUS
<1>1. DemoTypeOK
    <2>1. 0 \in 0 .. MaxTime /\ 0 \in 0 .. Len(StopOrder)
        BY DemoAssumption
    <2>2. <<>> \in Seq(Item)
        OBVIOUS
    <2>3. window \in [Stages \cup {Imu} -> Counters] /\ cut \in [Stages \cup {Imu} -> Load]
        BY StartCounts
    <2>4. queue \in [Stages -> Seq(Item)] /\ held \in [Sources -> Seq(Item)]
        BY <2>2 DEF Init
    <2>5. item \in [Stages -> Item \cup {None}] /\ hint \in [Stages \cup {Imu} -> Item \cup {None}]
        BY DEF Init
    <2> HIDE DEF Item
    <2> QED
        BY <2>1, <2>3, <2>4, <2>5 DEF DemoTypeOK, Init
<1>2. StagePlace
    BY DEF StagePlace, Init
<1>3. SourcePlace
    <2>1. \A g \in Sources : Frames[g] \in Nat
        BY DemoAssumption
    <2>2. \A g \in Sources : held[g] = <<>> /\ frame[g] = 0 /\ generated[g] = 0
        BY DEF Init
    <2> QED
        BY <2>1, <2>2 DEF SourcePlace
<1>4. ImuPlace
    BY DemoAssumption DEF ImuPlace, Init
<1>5. MainPlace
    BY DEF MainPlace, Init
<1>6. NoLostWakeup /\ HintNamesItem
    BY DEF NoLostWakeup, HintNamesItem, Init
<1>7. WindowSoFar
    <2>1. Frames[Imu] \in Nat /\ now = 0 /\ Cutoff \in Nat /\ imu = "start" /\ processed[Imu] = 0
        BY DemoAssumption DEF Init
    <2>2. CASE now < Cutoff
        <3>1. LoadOf(Imu) = [in_flight |-> 0, pending |-> Frames[Imu] - 0 - 0]
            BY <2>1 DEF LoadOf
        <3>2. Reports(Imu, LoadOf(Imu))
            BY <2>1, <3>1, StartCounts DEF Reports
        <3>3. ASSUME NEW s \in Stages PROVE Reports(s, LoadOf(s))
            <4>1. s # Imu /\ Len(queue[s]) = 0 /\ InHand(s) = 0
                BY DemoAssumption DEF Init, InHand
            <4>2. LoadOf(s) = [in_flight |-> 0, pending |-> 0]
                BY <4>1 DEF LoadOf
            <4> QED
                BY <4>1, <4>2, StartCounts DEF Reports
        <3> QED
            BY <2>2, <3>2, <3>3 DEF WindowSoFar
    <2>3. CASE ~ (now < Cutoff)
        <3>1. Cutoff = 0
            BY <2>1, <2>3
        <3>2. Imu \in Sources \cup {Imu} /\ 0 \in 0 .. Frames[Imu] /\ Period[Imu] \in Nat
            BY <2>1, DemoAssumption
        <3>3. 0 < Frames[Imu] <=> 0 * Period[Imu] < Cutoff
            BY <3>2, DemoAssumption
        <3>4. 0 * Period[Imu] = 0
            BY <3>2
        <3>5. Frames[Imu] = 0
            BY <2>1, <3>1, <3>3, <3>4
        <3>6. \A s \in Stages \cup {Imu} : Reports(s, cut[s])
            BY <3>5, StartCounts DEF Reports
        <3> QED
            BY <2>3, <3>6 DEF WindowSoFar
    <2> QED
        BY <2>2, <2>3
<1>8. Conserved
    <2> SUFFICES ASSUME NEW s \in Stages
                 PROVE  Arrived(s) = Len(queue[s]) + evicted[s] + InHand(s)
                                     + processed[s] + dropped[s]
        BY DEF Conserved
    <2> DEFINE S == {g \in Sources : Feeds[g] = s}
               Q == {t \in Stages : Out[t] = s}
    <2>1. PICK f, h : /\ f = [g \in S |-> generated[g]]
                      /\ h = [t \in Q |-> processed[t] - (IF stage[t] = "push" THEN 1 ELSE 0)]
        OBVIOUS
    <2>2. Arrived(s) = Total(f) + Total(h)
        BY <2>1 DEF Arrived
    <2>3. IsFiniteSet(S) /\ IsFiniteSet(Q)
        BY DemoAssumption, FS_Subset
    <2>4. f \in [S -> Int] /\ \A x \in S : f[x] = 0
        BY <2>1 DEF Init
    <2>5. h \in [Q -> Int] /\ \A x \in Q : h[x] = 0
        BY <2>1 DEF Init
    <2> HIDE DEF S, Q
    <2>6. Total(f) = 0 /\ Total(h) = 0
        BY <2>3, <2>4, <2>5, TotalZero
    <2>7. /\ Len(queue[s]) = 0 /\ evicted[s] = 0 /\ InHand(s) = 0 /\ processed[s] = 0
          /\ dropped[s] = 0
        BY DEF Init, InHand
    <2> QED
        BY <2>2, <2>6, <2>7
<1>9. OnRoute /\ InOrder
    <2>1. \A s \in Stages : queue[s] = <<>> /\ item[s] = None
        BY DEF Init
    <2>2. \A s \in Stages : Len(queue[s]) = 0
        BY <2>1
    <2>3. \A s \in Stages : Seen(s) = {}
        BY <2>1, <2>2 DEF Seen, Queued
    <2> QED
        BY <2>2, <2>3 DEF OnRoute, InOrder
<1> QED
    BY <1>1, <1>2, <1>3, <1>4, <1>5, <1>6, <1>7, <1>8, <1>9 DEF DemoInv

-----------------------------------------------------------------------------
(* The theorems                                                            *)

LEMMA DemoInvUnchanged == DemoInv /\ UNCHANGED vars => DemoInv'
<1> SUFFICES ASSUME DemoInv, UNCHANGED vars PROVE DemoInv'
    OBVIOUS
<1>1. UNCHANGED <<now, main, running, stopped, stop, frame, held, generated, queue, waiting,
                  evicted, stage, item, processed, dropped, imu, job, hint, window, cut>>
    BY DEF vars, mainVars, genVars, queueVars, statVars, imuVars
<1>2. DemoTypeOK' /\ StagePlace'
    BY <1>1 DEF DemoInv, DemoTypeOK, StagePlace
<1>3. SourcePlace' /\ ImuPlace' /\ MainPlace'
    BY <1>1 DEF DemoInv, SourcePlace, ImuPlace, MainPlace, GeneratorDone, Delivering
<1>4. NoLostWakeup' /\ HintNamesItem'
    BY <1>1 DEF DemoInv, NoLostWakeup, HintNamesItem
<1>5. \A s \in Stages \cup {Imu} : LoadOf(s)' = LoadOf(s)
    BY <1>1 DEF LoadOf, InHand
<1>6. WindowSoFar'
    BY <1>1, <1>5 DEF DemoInv, WindowSoFar, Reports
<1>7. \A s \in Stages : Arrived(s)' = Arrived(s) /\ InHand(s)' = InHand(s)
    BY <1>1 DEF Arrived, InHand
<1>8. Conserved'
    BY <1>1, <1>7 DEF DemoInv, Conserved
<1>9. Still
    BY <1>1 DEF Still
<1>10. OnRoute' /\ InOrder'
    BY <1>9, StillOrder
<1> QED
    BY <1>2, <1>3, <1>4, <1>6, <1>8, <1>10 DEF DemoInv

(* Whatever the sources push, the stages evict and main stops, no wake-up is *)
(* lost, items keep their order and their number, and the counters agree     *)
(* with the queues.                                                          *)
THEOREM DemoInvariance == Spec => []DemoInv
<1>1. Init => DemoInv
    BY DemoInit
<1>2. DemoInv /\ [Next]_vars => DemoInv'
    <2>1. DemoInv /\ Next => DemoInv'
        BY TypeNext, StagePlaceNext, SourcePlaceNext, ImuPlaceNext, MainPlaceNext,
           NoLostWakeupNext, HintNamesItemNext, WindowNext, ConservedNext, OrderNext
           DEF DemoInv
    <2> QED
        BY <2>1, DemoInvUnchanged
<1> QED
    BY <1>1, <1>2, PTL DEF Spec

(* The hint of a stage or of the imu thread names what it works on.          *)
THEOREM HintNamesItemHolds == Spec => []HintNamesItem
<1>1. DemoInv => HintNamesItem
    BY DEF DemoInv
<1> QED
    BY <1>1, DemoInvariance, PTL

(* When main returns every frame was delivered, and nothing is in hand.      *)
THEOREM AllDeliveredHolds == Spec => []AllDelivered
<1>1. DemoInv => AllDelivered
    <2> SUFFICES ASSUME DemoInv, main = "done" PROVE AllDelivered
        BY DEF AllDelivered
    <2>1. /\ imu = "gone" /\ \A g \in Sources : GeneratorDone(g)
          /\ \A s \in Stages : stage[s] = "gone"
        BY DEF DemoInv, MainPlace
    <2>2. ASSUME NEW g \in Sources PROVE generated[g] = Frames[g] /\ held[g] = <<>>
        <3>1. /\ held[g] \in Seq(Item) /\ generated[g] \in Nat /\ frame[g] = Frames[g]
              /\ frame[g] = generated[g] + Len(held[g]) /\ ~ Delivering(g)
              /\ \A i \in 1 .. Len(held[g]) : held[g][i] = <<g, generated[g] + i>>
              /\ held[g] # <<>> => \/ frame[g] = BurstAt[g] + 1
                                   \/ frame[g] <= BurstAt[g]
              /\ BurstAt[g] \in Int /\ BurstAt[g] < Frames[g] /\ Frames[g] \in Nat
            BY <2>1, DemoAssumption DEF DemoInv, DemoTypeOK, SourcePlace, GeneratorDone
        <3>2. held[g] = <<>>
            <4>1. SUFFICES ASSUME held[g] # <<>> PROVE FALSE
                OBVIOUS
            <4>2. Len(held[g]) \in Nat /\ Len(held[g]) # 0
                BY <3>1, <4>1
            <4>3. frame[g] = BurstAt[g] + 1
                BY <3>1, <4>1
            <4>4. held[g][Len(held[g])] = <<g, generated[g] + Len(held[g])>>
                <5>1. Len(held[g]) \in 1 .. Len(held[g])
                    BY <4>2
                <5>2. \A i \in 1 .. Len(held[g]) : held[g][i] = <<g, generated[g] + i>>
                    BY <3>1
                <5> QED
                    BY <5>1, <5>2
            <4> QED
                BY <3>1, <4>1, <4>3, <4>4 DEF Delivering
        <3>3. Len(held[g]) = 0
            BY <3>2
        <3> QED
            BY <3>1, <3>2, <3>3
    <2>3. \A s \in Stages : InHand(s) = 0 /\ stage[s] # "push"
        BY <2>1 DEF InHand
    <2>4. processed[Imu] = Frames[Imu]
        <3>1. processed[Imu] = job - 1 /\ job = Frames[Imu] + 1 /\ Frames[Imu] \in Nat
            BY <2>1, DemoAssumption DEF DemoInv, ImuPlace
        <3> QED
            BY <3>1
    <2> QED
        BY <2>2, <2>3, <2>4 DEF AllDelivered
<1> QED
    BY <1>1, DemoInvariance, PTL

(* The window report is the load of every queue at the instant of the        *)
(* cutoff, although the threads went on counting nothing after it.           *)
THEOREM WindowExactHolds == Spec => []WindowExact
<1>1. DemoInv => WindowExact
    <2> SUFFICES ASSUME DemoInv, main = "done", WindowStats, NEW s \in Stages \cup {Imu}
                 PROVE  Reports(s, cut[s])
        BY DEF WindowExact
    <2>1. now \in Nat /\ Cutoff \in Nat /\ now >= Cutoff
        BY DemoAssumption DEF DemoInv, DemoTypeOK, MainPlace
    <2>2. ~ (now < Cutoff)
        BY <2>1
    <2> QED
        BY <2>2 DEF DemoInv, WindowSoFar
<1> QED
    BY <1>1, DemoInvariance, PTL

(* The push that wakes a stage finds its queue empty.                        *)
LEMMA PushWakes ==
    ASSUME DemoInv, NEW r \in Stages, NEW v \in Item, Push(r, v),
           NEW s \in Stages \ Unhinted, stage[s] = "asleep", queue'[s] # <<>>
    PROVE  hint'[s] = Head(queue'[s])
<1>1. DemoTypeOK /\ s \in Stages /\ queue[s] = <<>> /\ waiting[s]
    BY DEF DemoInv, NoLostWakeup, StagePlace
<1>2. s = r
    BY <1>1, PushFacts
<1>3. Fresh(s) = <<>>
    BY <1>1, FreshFacts
<1>4. queue'[s] = Append(<<>>, v) /\ hint'[s] = v
    BY <1>1, <1>2, <1>3, PushFacts
<1> QED
    BY <1>4

(* The scheduler reads the hint of the oldest queued item when a stage is    *)
(* woken for it.                                                             *)
THEOREM WakeSafeHolds == Spec => WakeSafe
<1>1. DemoInv /\ Next =>
          \A s \in Stages \ Unhinted :
              stage[s] = "asleep" /\ stage'[s] = "pop" /\ queue'[s] # <<>>
                  => hint'[s] = Head(queue'[s])
    <2> SUFFICES ASSUME DemoInv, Next, NEW s \in Stages \ Unhinted, stage[s] = "asleep",
                        queue'[s] # <<>>
                 PROVE  hint'[s] = Head(queue'[s])
        OBVIOUS
    <2>1. queue[s] = <<>>
        BY DEF DemoInv, NoLostWakeup
    <2>2. ~ Still
        BY <2>1 DEF Still
    <2>3. ASSUME NEW g \in Sources, Generate(g) \/ Deliver(g)
          PROVE  hint'[s] = Head(queue'[s])
        <3>1. PICK r \in Stages, v \in Item : Push(r, v)
            BY <2>3, FeedStep
        <3> QED
            BY <3>1, PushWakes
    <2>4. ASSUME NEW t \in Stages, PopTake(t) PROVE FALSE
        <3>1. t # s /\ queue' = [queue EXCEPT ![t] = Tail(@)]
            BY <2>1, <2>4 DEF PopTake
        <3>2. queue'[s] = queue[s]
            BY <3>1 DEF DemoInv, DemoTypeOK
        <3> QED
            BY <2>1, <3>2
    <2>5. ASSUME NEW t \in Stages, Forward(t) PROVE hint'[s] = Head(queue'[s])
        <3>1. PICK r \in Stages, v \in Item : Push(r, v)
            BY <2>5, ForwardStep
        <3> QED
            BY <3>1, PushWakes
    <2> QED
        BY <2>2, <2>3, <2>4, <2>5, Motion
<1>2. DemoInv /\ UNCHANGED vars =>
          \A s \in Stages \ Unhinted :
              stage[s] = "asleep" /\ stage'[s] = "pop" /\ queue'[s] # <<>>
                  => hint'[s] = Head(queue'[s])
    BY DEF vars
<1> QED
    BY <1>1, <1>2, DemoInvariance, PTL DEF Spec, WakeSafe

-----------------------------------------------------------------------------
(* The history                                                             *)

(* A step in which nothing moves leaves a stage ahead of what is upstream.   *)
LEMMA StillAhead ==
    ASSUME Still, NEW s \in Stages, NEW v, Ahead(s, v)
    PROVE  Ahead(s, v)'
<1>1. \A t \in Stages : Queued(t)' = Queued(t) /\ Live(t)' \subseteq Live(t)
    BY DEF Still, Queued, Live
<1>2. generated' = generated
    BY DEF Still
<1> QED
    BY <1>1, <1>2 DEF Ahead

(* So does a push of an item that v precedes, if the push is upstream of s.  *)
LEMMA PushAhead ==
    ASSUME DemoInv, NEW r \in Stages, NEW w \in Item, Push(r, w), item' = item,
           \A t \in Stages : stage'[t] \in {"judge", "work", "push"} =>
               stage[t] \in {"judge", "work", "push"},
           \A x \in Sources : generated[x] <= generated'[x] /\ generated'[x] \in Nat,
           NEW s \in Stages, NEW v, Ahead(s, v),
           s = r \/ Rank[s] < Rank[r] => Before(v, w)
    PROVE  Ahead(s, v)'
<1>0. DemoTypeOK
    BY DEF DemoInv
<1>1. PICK f \in Seq(Item) : f = Fresh(r) /\ Thinned(f, queue[r])
    BY <1>0, FreshFacts DEF Thinned
<1>2. queue'[r] = Append(f, w) /\ \A t \in Stages : t # r => queue'[t] = queue[t]
    BY <1>0, <1>1, PushFacts
<1>3. Queued(r)' \subseteq Queued(r) \cup {w}
    <2>1. /\ Len(Append(f, w)) = Len(f) + 1 /\ Append(f, w)[Len(f) + 1] = w
          /\ \A i \in 1 .. Len(f) + 1 : i = Len(f) + 1 \/ i \in 1 .. Len(f)
          /\ \A i \in 1 .. Len(f) : Append(f, w)[i] = f[i]
        BY <1>1
    <2>2. Queued(r)' = {Append(f, w)[i] : i \in 1 .. Len(f) + 1}
        BY <1>2, <2>1 DEF Queued
    <2>3. \A k \in 1 .. Len(f) : f[k] \in Queued(r)
        BY <1>1 DEF Queued, Thinned
    <2> QED
        BY <2>1, <2>2, <2>3
<1>4. \A t \in Stages : /\ Queued(t)' \subseteq Queued(t) \cup {w}
                        /\ Live(t)' \subseteq Live(t) \cup {w}
                        /\ t # r => Queued(t)' = Queued(t) /\ Live(t)' \subseteq Live(t)
    <2> TAKE t \in Stages
    <2>1. /\ Queued(t)' \subseteq Queued(t) \cup {w}
          /\ t # r => Queued(t)' = Queued(t)
        BY <1>2, <1>3 DEF Queued
    <2> HIDE DEF Queued
    <2> QED
        BY <2>1 DEF Live
<1>5. /\ v \in Item /\ v[1] \in Sources /\ s \in Route(v[1])
      /\ v[2] <= generated[v[1]]
      /\ \A u \in Queued(s) : Before(v, u)
      /\ \A t \in Stages : Rank[s] < Rank[t] => \A u \in Live(t) : Before(v, u)
    BY DEF Ahead, Before
<1>6. v[2] <= generated'[v[1]]
    <2>1. v[2] \in Nat /\ generated[v[1]] \in Nat
        BY <1>0, <1>5 DEF DemoTypeOK, Item
    <2>2. generated[v[1]] <= generated'[v[1]] /\ generated'[v[1]] \in Nat
        BY <1>5
    <2> QED
        BY <1>5, <2>1, <2>2
<1> HIDE DEF Before
<1>7. \A u \in Queued(s)' : Before(v, u)
    <2> TAKE u \in Queued(s)'
    <2>1. CASE u \in Queued(s)
        BY <1>5, <2>1
    <2>2. CASE u \notin Queued(s)
        BY <1>4, <2>2
    <2> QED
        BY <2>1, <2>2
<1>8. \A t \in Stages : Rank[s] < Rank[t] => \A u \in Live(t)' : Before(v, u)
    <2> TAKE t \in Stages
    <2> HAVE Rank[s] < Rank[t]
    <2> TAKE u \in Live(t)'
    <2>1. CASE u \in Live(t)
        BY <1>5, <2>1
    <2>2. CASE u \notin Live(t)
        <3>1. t = r /\ u = w
            BY <1>4, <2>2
        <3> QED
            BY <3>1
    <2> QED
        BY <2>1, <2>2
<1>9. \A u : Before(v, u) => (v[1] = u[1] => v[2] < u[2])
    BY DEF Before
<1> QED
    BY <1>5, <1>6, <1>7, <1>8, <1>9 DEF Ahead

(* A generator pushes a frame later than all that was ever popped.           *)
LEMMA FeedAhead ==
    ASSUME DemoInv, NEW g \in Sources, Generate(g) \/ Deliver(g),
           NEW s \in Stages, NEW v, Ahead(s, v)
    PROVE  Ahead(s, v)'
<1>0. DemoTypeOK
    BY DEF DemoInv
<1>1. PICK r \in Stages : r = Feeds[g]
    BY FeedStep
<1>2. PICK w \in Item : w = <<g, generated[g] + 1>>
    BY FeedStep
<1>3. Push(r, w) /\ item' = item /\ generated' = [generated EXCEPT ![g] = @ + 1]
      /\ stage' = Woken(r)
    BY <1>1, <1>2, FeedStep
<1>4. \A t \in Stages : stage'[t] \in {"judge", "work", "push"} =>
          stage[t] \in {"judge", "work", "push"}
    BY <1>0, <1>3, WokenFacts
<1>5. generated \in [Sources -> Nat]
    BY <1>0 DEF DemoTypeOK
<1>6. \A x \in Sources : generated[x] <= generated'[x] /\ generated'[x] \in Nat
    <2>1. \A x \in Sources : generated'[x] = IF x = g THEN generated[x] + 1 ELSE generated[x]
        BY <1>3, <1>5
    <2>2. \A x \in Sources : generated[x] \in Nat
        BY <1>5
    <2> QED
        BY <2>1, <2>2
<1>7. Before(v, w)
    <2>1. v[2] \in Nat /\ v[1] \in Sources /\ v[2] <= generated[v[1]]
        BY DEF Ahead, Item
    <2>2. w[1] = g /\ w[2] = generated[g] + 1 /\ generated[g] \in Nat
        BY <1>2, <1>5
    <2> QED
        BY <2>1, <2>2 DEF Before
<1> QED
    BY <1>3, <1>4, <1>6, <1>7, PushAhead

(* A stage pushes an item that was upstream of the next one and of all that  *)
(* come after it.                                                            *)
LEMMA ForwardAhead ==
    ASSUME DemoInv, NEW x \in Stages, Forward(x),
           NEW s \in Stages, NEW v, Ahead(s, v)
    PROVE  Ahead(s, v)'
<1>0. DemoTypeOK
    BY DEF DemoInv
<1>1. PICK r \in Stages : r = Out[x]
    BY ForwardStep
<1>2. PICK w \in Item : w = item[x]
    BY ForwardStep
<1>3. /\ Push(r, w) /\ item' = item /\ generated' = generated /\ stage[x] = "push"
      /\ stage' = [Woken(r) EXCEPT ![x] = "test"]
    BY <1>1, <1>2, ForwardStep DEF genVars
<1>4. \A t \in Stages : stage'[t] \in {"judge", "work", "push"} =>
          stage[t] \in {"judge", "work", "push"}
    BY <1>0, <1>3, WokenFacts
<1>5. \A y \in Sources : generated[y] <= generated'[y] /\ generated'[y] \in Nat
    BY <1>0, <1>3 DEF DemoTypeOK
<1>6. s = r \/ Rank[s] < Rank[r] => Before(v, w)
    <2> HAVE s = r \/ Rank[s] < Rank[r]
    <2>1. Rank[x] = Rank[r] + 1 /\ \A t \in Stages : Rank[t] \in Nat
        BY <1>1, RankFacts, DemoAssumption
    <2>2. Rank[s] < Rank[x]
        BY <2>1
    <2>3. w \in Live(x)
        BY <1>2, <1>3 DEF Live
    <2> QED
        BY <2>2, <2>3 DEF Ahead, Before
<1> QED
    BY <1>3, <1>4, <1>5, <1>6, PushAhead

(* pop() takes an item that is ahead of all that is left.                    *)
LEMMA PopItems ==
    ASSUME DemoInv, NEW x \in Stages, PopTake(x)
    PROVE  /\ generated' = generated /\ item'[x] \in Queued(x)
           /\ \A t \in Stages : Queued(t)' \subseteq Queued(t) /\ Live(t)' \subseteq Live(t)
           /\ \A u \in Queued(x)' : Before(item'[x], u)
<1>0. DemoTypeOK /\ queue[x] \in Seq(Item) /\ queue[x] # <<>>
    BY DEF DemoInv, DemoTypeOK, PopTake
<1>1. PICK q \in Seq(Item) : q = queue[x] /\ q # <<>>
    BY <1>0
<1>2. Tail(q) \in Seq(Item) /\ Len(q) \in Nat \ {0} /\ Head(q) = q[1]
      /\ Len(Tail(q)) = Len(q) - 1
      /\ \A i \in 1 .. Len(q) - 1 : i + 1 \in 1 .. Len(q) /\ Tail(q)[i] = q[i + 1]
    BY <1>1
<1>3. /\ queue'[x] = Tail(q) /\ item'[x] = q[1] /\ generated' = generated
      /\ stage' = [stage EXCEPT ![x] = "judge"]
    BY <1>0, <1>1, <1>2 DEF PopTake, DemoTypeOK, genVars
<1>4. \A t \in Stages : t # x => /\ queue'[t] = queue[t] /\ item'[t] = item[t]
                                 /\ stage'[t] = stage[t]
    BY <1>0 DEF PopTake, DemoTypeOK
<1>5. \A t \in Stages : t # x => Queued(t)' = Queued(t) /\ Live(t)' = Live(t)
    BY <1>4 DEF Live, Queued
<1>6. Queued(x)' = {Tail(q)[i] : i \in 1 .. Len(q) - 1} /\ Queued(x) = {q[i] : i \in 1 .. Len(q)}
    BY <1>1, <1>2, <1>3 DEF Queued
<1>7. Queued(x)' \subseteq Queued(x) /\ q[1] \in Queued(x)
    <2>1. 1 \in 1 .. Len(q)
        BY <1>2
    <2> QED
        BY <1>2, <1>6, <2>1
<1>8. Live(x)' \subseteq Live(x)
    <2>1. Live(x)' \subseteq Queued(x)' \cup {q[1]}
        BY <1>3 DEF Live
    <2> QED
        BY <1>7, <2>1 DEF Live
<1>9. \A u \in Queued(x)' : Before(q[1], u)
    <2> TAKE u \in Queued(x)'
    <2>1. PICK i \in 1 .. Len(q) - 1 : u = q[i + 1]
        BY <1>2, <1>6
    <2>2. 1 \in 1 .. Len(q) /\ i + 1 \in 1 .. Len(q) /\ 1 < i + 1
        BY <1>2
    <2>3. \A j, k \in 1 .. Len(q) : j < k => Before(q[j], q[k])
        BY <1>1, InOrderParts DEF DemoInv
    <2> HIDE DEF Before
    <2> QED
        BY <2>1, <2>2, <2>3
<1> QED
    BY <1>3, <1>5, <1>7, <1>8, <1>9

LEMMA PopAhead ==
    ASSUME DemoInv, NEW x \in Stages, PopTake(x),
           NEW s \in Stages, NEW v, Ahead(s, v)
    PROVE  Ahead(s, v)'
BY PopItems DEF Ahead

(* The popped item is itself ahead of what is left.                          *)
LEMMA PoppedAhead ==
    ASSUME DemoInv, NEW x \in Stages, PopTake(x), NEW v, v = item'[x]
    PROVE  Ahead(x, v)'
<1>1. /\ v \in Queued(x) /\ generated' = generated
      /\ \A u \in Queued(x)' : Before(v, u)
      /\ \A t \in Stages : Live(t)' \subseteq Live(t)
    BY PopItems
<1>2. v \in Seen(x)
    BY <1>1 DEF Seen
<1>3. v \in Item /\ v[1] \in Sources /\ x \in Route(v[1]) /\ v[2] <= generated[v[1]]
    BY <1>2, SeenFacts
<1>4. \A t \in Stages : Rank[x] < Rank[t] => \A u \in Live(t) : Before(v, u)
    BY <1>2, InOrderParts DEF DemoInv
<1>5. \A t \in Stages : Rank[x] < Rank[t] => \A u \in Live(t)' : Before(v, u)
    BY <1>1, <1>4
<1>6. /\ \A u \in Queued(x)' : v[1] = u[1] => v[2] < u[2]
      /\ \A t \in Stages : Rank[x] < Rank[t] =>
             \A u \in Live(t)' : v[1] = u[1] => v[2] < u[2]
    BY <1>1, <1>5 DEF Before
<1>7. v[2] <= generated'[v[1]]
    BY <1>1, <1>3
<1> QED
    BY <1>3, <1>6, <1>7 DEF Ahead

(* The history of a stage grows when it pops an item, by that item.          *)
LEMMA TakenNext ==
    ASSUME DemoInv, HistoryNext
    PROVE  \/ /\ taken' = [s \in Stages |-> taken[s]]
              /\ \A s \in Stages : \A v : Ahead(s, v) => Ahead(s, v)'
           \/ \E x \in Stages :
                  /\ PopTake(x)
                  /\ taken' = [s \in Stages |-> IF s = x THEN Append(taken[s], item'[s])
                                                ELSE taken[s]]
<1>0. DemoTypeOK
    BY DEF DemoInv
<1>1. taken' = [s \in Stages |-> IF stage[s] = "pop" /\ stage'[s] = "judge"
                                 THEN Append(taken[s], item'[s]) ELSE taken[s]]
    BY DEF HistoryNext, Record
<1>2. (\A s \in Stages : stage'[s] \in {"judge", "work", "push"} =>
                             stage[s] \in {"judge", "work", "push"})
      => taken' = [s \in Stages |-> taken[s]]
    BY <1>1
<1>3. CASE Still
    BY <1>2, <1>3, StillAhead DEF Still
<1>4. CASE \E g \in Sources : Generate(g) \/ Deliver(g)
    <2>1. PICK g \in Sources : Generate(g) \/ Deliver(g)
        BY <1>4
    <2>2. Feeds[g] \in Stages /\ stage' = Woken(Feeds[g])
        BY <2>1, FeedStep
    <2>3. \A s \in Stages : stage'[s] \in {"judge", "work", "push"} =>
                                stage[s] \in {"judge", "work", "push"}
        BY <1>0, <2>2, WokenFacts
    <2> QED
        BY <1>2, <2>1, <2>3, FeedAhead
<1>5. CASE \E s \in Stages : Forward(s)
    <2>1. PICK x \in Stages : Forward(x)
        BY <1>5
    <2>2. Out[x] \in Stages /\ stage' = [Woken(Out[x]) EXCEPT ![x] = "test"]
        BY <2>1, ForwardStep
    <2>3. \A s \in Stages : stage'[s] \in {"judge", "work", "push"} =>
                                stage[s] \in {"judge", "work", "push"}
        BY <1>0, <2>2, WokenFacts
    <2> QED
        BY <1>2, <2>1, <2>3, ForwardAhead
<1>6. CASE \E s \in Stages : PopTake(s)
    <2>1. PICK x \in Stages : PopTake(x)
        BY <1>6
    <2>2. stage[x] = "pop" /\ stage' = [stage EXCEPT ![x] = "judge"]
        BY <2>1 DEF PopTake
    <2>3. \A s \in Stages : (stage[s] = "pop" /\ stage'[s] = "judge") <=> s = x
        BY <1>0, <2>2 DEF DemoTypeOK
    <2>4. taken' = [s \in Stages |-> IF s = x THEN Append(taken[s], item'[s]) ELSE taken[s]]
        BY <1>1, <2>3
    <2> QED
        BY <2>1, <2>4
<1> QED
    BY <1>3, <1>4, <1>5, <1>6, Motion DEF HistoryNext

(* A stage that pops an item has popped those ahead of it before.            *)
LEMMA PopTaken ==
    ASSUME DemoInv, OrderInv, NEW x \in Stages, PopTake(x),
           taken' = [s \in Stages |-> IF s = x THEN Append(taken[s], item'[s]) ELSE taken[s]]
    PROVE  OrderInv'
<1>1. PICK v : v = item'[x]
    OBVIOUS
<1>2. v \in Queued(x) /\ Ahead(x, v)'
    BY <1>1, PopItems, PoppedAhead
<1>3. v \in Item
    BY <1>2 DEF Ahead
<1>4. PICK h \in Seq(Item) : h = taken[x]
    BY DEF OrderInv
<1>5. /\ Append(h, v) \in Seq(Item) /\ Len(h) \in Nat /\ Len(Append(h, v)) = Len(h) + 1
      /\ \A i \in 1 .. Len(h) : Append(h, v)[i] = h[i]
      /\ Append(h, v)[Len(h) + 1] = v
      /\ \A i \in 1 .. Len(h) + 1 : i \in 1 .. Len(h) \/ i = Len(h) + 1
    BY <1>3, <1>4
<1>6. taken'[x] = Append(h, v) /\ \A s \in Stages : s # x => taken'[s] = taken[s]
    BY <1>1, <1>4
<1>7. taken' \in [Stages -> Seq(Item)]
    BY <1>5, <1>6 DEF OrderInv
<1>8. TakenAhead'
    <2>1. ASSUME NEW s \in Stages, NEW u \in TakenBy(s)' PROVE Ahead(s, u)'
        <3>1. CASE u \in TakenBy(s)
            BY <3>1, PopAhead DEF OrderInv, TakenAhead
        <3>2. CASE u \notin TakenBy(s)
            <4>1. s = x
                BY <1>6, <2>1, <3>2 DEF TakenBy
            <4>2. PICK i \in 1 .. Len(h) + 1 : u = Append(h, v)[i]
                <5>1. PICK i \in 1 .. Len(taken'[x]) : u = taken'[x][i]
                    BY <2>1, <4>1 DEF TakenBy
                <5>2. 1 .. Len(taken'[x]) = 1 .. Len(h) + 1
                    BY <1>5, <1>6
                <5> QED
                    BY <1>6, <5>1, <5>2
            <4>3. i \notin 1 .. Len(h)
                BY <1>4, <1>5, <3>2, <4>1, <4>2 DEF TakenBy
            <4> QED
                BY <1>2, <1>5, <4>1, <4>2, <4>3
        <3> QED
            BY <3>1, <3>2
    <2> QED
        BY <2>1 DEF TakenAhead
<1>9. ASSUME NEW s \in Stages, NEW i \in 1 .. Len(taken'[s]), NEW k \in 1 .. Len(taken'[s]),
             i < k, taken'[s][i][1] = taken'[s][k][1]
      PROVE  taken'[s][i][2] < taken'[s][k][2]
    <2>1. CASE s # x
        BY <1>6, <1>9, <2>1 DEF OrderInv, StreamOrder
    <2>2. CASE s = x
        <3>1. i \in 1 .. Len(h) /\ taken'[s][i] = h[i]
            BY <1>5, <1>6, <1>9, <2>2
        <3>2. CASE k \in 1 .. Len(h)
            <4>1. taken'[s][k] = h[k]
                BY <1>5, <1>6, <2>2, <3>2
            <4> QED
                BY <1>4, <1>9, <2>2, <3>1, <3>2, <4>1 DEF OrderInv, StreamOrder
        <3>3. CASE k \notin 1 .. Len(h)
            <4>1. taken'[s][k] = v
                BY <1>5, <1>6, <2>2, <3>3
            <4>2. h[i] \in TakenBy(x)
                BY <1>4, <3>1 DEF TakenBy
            <4>3. Ahead(x, h[i])
                BY <4>2 DEF OrderInv, TakenAhead
            <4> QED
                BY <1>2, <1>9, <3>1, <4>1, <4>3 DEF Ahead
        <3> QED
            BY <3>2, <3>3
    <2> QED
        BY <2>1, <2>2
<1>10. StreamOrder'
    BY <1>9 DEF StreamOrder
<1> QED
    BY <1>7, <1>8, <1>10 DEF OrderInv

LEMMA OrderInvNext ==
    ASSUME DemoInv, OrderInv, HistoryNext
    PROVE  OrderInv'
<1>1. CASE /\ taken' = [s \in Stages |-> taken[s]]
           /\ \A s \in Stages : \A v : Ahead(s, v) => Ahead(s, v)'
    <2>1. taken' = taken
        BY <1>1 DEF OrderInv
    <2>2. \A s \in Stages : TakenBy(s)' = TakenBy(s)
        BY <2>1 DEF TakenBy
    <2>3. TakenAhead'
        BY <1>1, <2>2 DEF OrderInv, TakenAhead
    <2>4. StreamOrder'
        BY <2>1 DEF OrderInv, StreamOrder
    <2> QED
        BY <2>1, <2>3, <2>4 DEF OrderInv
<1>2. CASE \E x \in Stages :
               /\ PopTake(x)
               /\ taken' = [s \in Stages |-> IF s = x THEN Append(taken[s], item'[s])
                                             ELSE taken[s]]
    BY <1>2, PopTaken
<1> QED
    BY <1>1, <1>2, TakenNext

(* Bursts, evictions and merging producers never make a stage process two    *)
(* items of one source out of order, however many items of other sources     *)
(* come between them.                                                        *)
THEOREM StreamOrderHolds == HistorySpec => []StreamOrder
<1>1. HistorySpec => []DemoInv
    <2>1. HistoryInit => Init
        BY DEF HistoryInit
    <2>2. [HistoryNext]_historyVars => [Next]_vars
        BY DEF HistoryNext, historyVars
    <2> QED
        BY <2>1, <2>2, DemoInvariance, PTL DEF HistorySpec, Spec
<1>2. HistoryInit => OrderInv
    <2>1. HistoryInit => \A s \in Stages : taken[s] = <<>> /\ Len(taken[s]) = 0
        BY DEF HistoryInit
    <2>2. HistoryInit => taken \in [Stages -> Seq(Item)]
        BY DEF HistoryInit
    <2> QED
        BY <2>1, <2>2 DEF OrderInv, TakenAhead, TakenBy, StreamOrder
<1>3. DemoInv /\ OrderInv /\ [HistoryNext]_historyVars => OrderInv'
    <2>1. ASSUME OrderInv, UNCHANGED historyVars PROVE OrderInv'
        <3>1. \A s \in Stages : TakenBy(s)' = TakenBy(s)
            BY <2>1 DEF historyVars, TakenBy
        <3>2. \A s \in Stages : Queued(s)' = Queued(s) /\ Live(s)' = Live(s)
            BY <2>1 DEF historyVars, vars, queueVars, Queued, Live
        <3>3. generated' = generated /\ taken' = taken
            BY <2>1 DEF historyVars, vars, genVars
        <3> QED
            BY <2>1, <3>1, <3>2, <3>3 DEF OrderInv, TakenAhead, Ahead, StreamOrder
    <2> QED
        BY <2>1, OrderInvNext
<1>4. OrderInv => StreamOrder
    BY DEF OrderInv
<1> QED
    BY <1>1, <1>2, <1>3, <1>4, PTL DEF HistorySpec
=============================================================================
