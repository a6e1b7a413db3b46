-------------------------- MODULE ClassifierProofs --------------------------
(* Theorems about the classifier, for any commands and any tables of       *)
(* rules. The fold: what the last round answers is no milder than any      *)
(* round found. The scanner: the segments it finds, one atom at a time     *)
(* with a flag for the open quote, are those of the one reading of the     *)
(* command, which is stated without scanning it. Both together: what is    *)
(* let through was read so and vetted, segment by segment.                 *)
(*                                                                         *)
(* Readings is a recursive definition, and a fact about it is proved by    *)
(* taking the shortest prefix that would be a counterexample. How a        *)
(* segment is cut into words (Shlex, CommandAt) is not opened here: the    *)
(* theorems hold of any such functions.                                    *)
EXTENDS Classifier, FiniteSetTheorems, SequenceTheorems, TLAPS

-----------------------------------------------------------------------------
(* Numbers.                                                                *)

\* A set of numbers has a least one: the step of an induction, without a
\* parameter for the property that is proved.
LEMMA LeastCounterexample ==
  ASSUME NEW Bad \in SUBSET Nat, Bad # {}
  PROVE  \E n \in Bad : \A m \in Nat : m < n => m \notin Bad
<1>1. \E x \in Bad : \A y \in Bad : ~ (<<y, x>> \in OpToRel(<, Nat))
  BY NatLessThanWellFounded, WFMin
<1> QED
  BY <1>1 DEF OpToRel

\* Min of FiniteSetsExt, for sets of indices.
LEMMA MinIsLeast ==
  ASSUME NEW n \in Nat, NEW S \in SUBSET (1..n), NEW k \in S
  PROVE  Min(S) \in S /\ Min(S) \in 1..k
<1>0. S \subseteq Nat /\ S # {}
  OBVIOUS
<1>1. \E x \in S : \A y \in Nat : y < x => y \notin S
  BY <1>0, LeastCounterexample
<1>2. PICK low \in S : \A y \in S : ~ (y < low)
  BY <1>0, <1>1
<1>3. \E m \in S : \A y \in S : m <= y
  BY <1>0, <1>2
<1>4. Min(S) \in S /\ \A y \in S : Min(S) <= y
  BY <1>3 DEF Min
<1>5. \A x \in S : x \in Nat /\ x >= 1
  OBVIOUS
<1>6. \A m \in S : m <= k => m \in 1..k
  BY <1>5
<1> QED
  BY <1>4, <1>6

\* Min of FiniteSetsExt, for two numbers.
LEMMA MinOfTwo ==
  ASSUME NEW a \in Int, NEW b \in Int
  PROVE  Min({a, b}) = IF a <= b THEN a ELSE b
<1> DEFINE m == IF a <= b THEN a ELSE b
<1>1. m \in {a, b} /\ \A y \in {a, b} : m <= y
  OBVIOUS
<1>2. \A x \in {a, b} : (\A y \in {a, b} : x <= y) => x = m
  OBVIOUS
<1> HIDE DEF m
<1>3. Min({a, b}) = m
  BY <1>1, <1>2 DEF Min
<1> QED
  BY <1>3 DEF m

\* Max of FiniteSetsExt, for the largest of a set that has one.
LEMMA MaxIsGreatest ==
  ASSUME NEW S \in SUBSET Int, NEW k \in S, \A e \in S : e <= k
  PROVE  Max(S) = k
<1>1. \E x \in S : \A y \in S : x >= y
  OBVIOUS
<1>2. Max(S) \in S /\ \A y \in S : Max(S) >= y
  BY <1>1 DEF Max
<1>3. Max(S) \in Int /\ k \in Int /\ Max(S) >= k /\ Max(S) <= k
  BY <1>2
<1> QED
  BY <1>3

\* A finite set of numbers has a largest one.
LEMMA FiniteHasGreatest ==
  ASSUME NEW n \in Nat, NEW S \in SUBSET (0..n), S # {}
  PROVE  Max(S) \in S /\ \A e \in S : e <= Max(S)
<1> DEFINE D == {n - e : e \in S}
<1>0. \A e \in S : e \in Int /\ n - e \in Nat
  OBVIOUS
<1>1. D \in SUBSET Nat /\ D # {}
  BY <1>0
<1>2. PICK d \in D : \A y \in D : ~ (y < d)
  <2>1. \E d \in D : \A y \in Nat : y < d => y \notin D
    <3> HIDE DEF D
    <3> QED
      BY <1>1, LeastCounterexample
  <2> QED
    BY <1>1, <2>1
<1>3. PICK m \in S : d = n - m
  BY <1>2
<1>4. \A e \in S : e <= m
  <2>1. \A e \in S : ~ (n - e < n - m)
    BY <1>2, <1>3
  <2> QED
    BY <1>0, <2>1
<1>5. S \in SUBSET Int
  BY <1>0
<1>6. Max(S) = m
  BY <1>3, <1>4, <1>5, MaxIsGreatest
<1> QED
  BY <1>3, <1>4, <1>6

-----------------------------------------------------------------------------
(* Finite sets in increasing order, and the pieces of a command.           *)

\* A number above a set comes last in its order.
LEMMA InOrderAppends ==
  ASSUME NEW S \in SUBSET Int, IsFiniteSet(S), NEW k \in Int,
         \A e \in S : e < k
  PROVE  InOrder(S \cup {k}) = Append(InOrder(S), k)
<1> DEFINE T == S \cup {k}
           n == Cardinality(S)
           Rank(U, e) == Cardinality({d \in U : d <= e})
<1>1. n \in Nat /\ IsFiniteSet(T) /\ Cardinality(T) = n + 1
  BY FS_CardinalityType, FS_AddElement
<1>2. \A e \in S : Rank(T, e) = Rank(S, e) /\ Rank(S, e) \in Nat /\ Rank(S, e) <= n
  <2>1. \A e \in S : {d \in T : d <= e} = {d \in S : d <= e}
    OBVIOUS
  <2> QED
    BY <2>1, FS_Subset, FS_CardinalityType
<1>3. Rank(T, k) = n + 1
  <2>1. \A d \in T : d <= k
    OBVIOUS
  <2> QED
    BY <1>1, <2>1
<1>4. InOrder(S) = [m \in 1..n |-> CHOOSE e \in S : Rank(S, e) = m]
  BY DEF InOrder
<1>5. InOrder(T) = [m \in 1..n + 1 |-> CHOOSE e \in T : Rank(T, e) = m]
  BY <1>1 DEF InOrder
<1>6. ASSUME NEW m \in 1..n
      PROVE  (CHOOSE e \in T : Rank(T, e) = m) = (CHOOSE e \in S : Rank(S, e) = m)
  <2>0. m # n + 1
    BY <1>1
  <2>1. \A e : (e \in T /\ Rank(T, e) = m) <=> (e \in S /\ Rank(S, e) = m)
    <3> HIDE DEF Rank
    <3> QED
      BY <1>2, <1>3, <2>0
  <2> HIDE DEF T, Rank
  <2> QED
    BY <2>1
<1>7. (CHOOSE e \in T : Rank(T, e) = n + 1) = k
  <2>1. k \in T /\ \A e \in T : Rank(T, e) = n + 1 => e = k
    BY <1>1, <1>2
  <2> HIDE DEF T, Rank, n
  <2> QED
    BY <1>3, <2>1
<1>8. \A m \in 1..n + 1 : InOrder(T)[m] = IF m = n + 1 THEN k ELSE InOrder(S)[m]
  <2>1. ASSUME NEW m \in 1..n PROVE m # n + 1 /\ InOrder(T)[m] = InOrder(S)[m]
    <3>1. m \in 1..n + 1 /\ m # n + 1
      BY <1>1
    <3> HIDE DEF T, Rank, n
    <3> QED
      BY <3>1, <1>4, <1>5, <1>6
  <2>2. n + 1 \in 1..n + 1 /\ \A m \in 1..n + 1 : m = n + 1 \/ m \in 1..n
    BY <1>1
  <2>3. InOrder(T)[n + 1] = k
    <3> HIDE DEF T, Rank, n
    <3> QED
      BY <2>2, <1>5, <1>7
  <2> HIDE DEF T, Rank, n
  <2> QED
    BY <2>1, <2>2, <2>3
<1>9. InOrder(S) \in Seq({InOrder(S)[m] : m \in 1..n}) /\ Len(InOrder(S)) = n
  <2> HIDE DEF n, Rank
  <2>1. InOrder(S) \in [1..n -> {InOrder(S)[m] : m \in 1..n}]
    BY <1>4
  <2> QED
    BY <1>1, <2>1
<1>10. InOrder(T) = [m \in 1..n + 1 |-> InOrder(T)[m]]
  <2> HIDE DEF T, Rank, n
  <2> QED
    BY <1>5
<1> HIDE DEF T, Rank, n
<1>11. InOrder(T) = Append(InOrder(S), k)
  <2> DEFINE a == InOrder(S)
             b == InOrder(T)
             V == {a[m] : m \in 1..n} \cup {k}
             c == Append(a, k)
  <2>1. a \in Seq(V) /\ k \in V /\ Len(a) = n
    BY <1>9, <1>1
  <2>2. c \in Seq(V) /\ Len(c) = n + 1 /\ c[n + 1] = k /\ \A m \in 1..n : c[m] = a[m]
    <3> HIDE DEF a, V
    <3> QED
      BY <2>1, AppendProperties
  <2>3. \A m \in 1..n + 1 : c[m] = b[m]
    BY <1>8, <1>1, <2>2
  <2>4. c = [m \in 1..n + 1 |-> c[m]]
    <3> HIDE DEF c, V
    <3> QED
      BY <2>2
  <2>5. b = [m \in 1..n + 1 |-> b[m]]
    BY <1>10
  <2> HIDE DEF a, b, c, V
  <2>6. b = c
    BY <2>3, <2>4, <2>5
  <2> QED
    BY <2>6 DEF a, b, c
<1> QED
  BY <1>11 DEF T

\* The order of a finite set of numbers is a sequence of its length.
LEMMA InOrderIsSeq ==
  ASSUME NEW S, IsFiniteSet(S)
  PROVE  /\ Cardinality(S) \in Nat
         /\ InOrder(S) = [m \in 1..Cardinality(S) |-> InOrder(S)[m]]
         /\ Len(InOrder(S)) = Cardinality(S)
<1>1. Cardinality(S) \in Nat
  BY FS_CardinalityType
<1>2. InOrder(S) = [m \in 1..Cardinality(S) |-> InOrder(S)[m]]
  <2> DEFINE Nth(m) == CHOOSE k \in S : Cardinality({e \in S : e <= k}) = m
             a      == [m \in 1..Cardinality(S) |-> Nth(m)]
  <2>1. InOrder(S) = a
    BY DEF InOrder
  <2> HIDE DEF Nth
  <2>2. a = [m \in 1..Cardinality(S) |-> a[m]]
    OBVIOUS
  <2> QED
    BY <2>1, <2>2
<1>3. Len(InOrder(S)) = Cardinality(S)
  <2> DEFINE n == Cardinality(S)
             a == InOrder(S)
  <2>1. n \in Nat /\ a = [m \in 1..n |-> a[m]]
    BY <1>1, <1>2
  <2> HIDE DEF n, a
  <2>2. Len(a) = n
    BY <2>1
  <2> QED
    BY <2>2 DEF n, a
<1> QED
  BY <1>1, <1>2, <1>3

\* A stop after all the others adds the piece that ends at it, if it is not
\* blank.
LEMMA PieceAppends ==
  ASSUME NEW c, NEW bars, NEW stops \in SUBSET Int, IsFiniteSet(stops),
         NEW k \in Int, \A e \in stops : e < k
  PROVE  PiecesTo(c, bars, stops \cup {k}) =
           IF PieceTo(c, bars, k) = << >> THEN PiecesTo(c, bars, stops)
           ELSE Append(PiecesTo(c, bars, stops), PieceTo(c, bars, k))
<1> DEFINE P(e)   == PieceTo(c, bars, e)
           old    == {e \in stops : P(e) # << >>}
           new    == {e \in stops \cup {k} : P(e) # << >>}
           n      == Cardinality(old)
           before == PiecesTo(c, bars, stops)
           after  == PiecesTo(c, bars, stops \cup {k})
<1>0. IsFiniteSet(old) /\ old \in SUBSET Int /\ \A e \in old : e < k
  BY FS_Subset
<1>1. n \in Nat /\ Len(InOrder(old)) = n
  <2> HIDE DEF old
  <2> QED
    BY <1>0, InOrderIsSeq
<1>2. before = [m \in 1..n |-> P(InOrder(old)[m])]
  <2> HIDE DEF n, P
  <2> QED
    BY <1>1 DEF PiecesTo, P
<1>3. CASE P(k) = << >>
  <2>1. new = old
    BY <1>3
  <2> QED
    BY <1>3, <2>1 DEF PiecesTo
<1>4. CASE P(k) # << >>
  <2>1. new = old \cup {k}
    BY <1>4
  <2>2. InOrder(new) = Append(InOrder(old), k)
    <3> HIDE DEF old, new
    <3> QED
      BY <2>1, <1>0, InOrderAppends
  <2>3. InOrder(old) \in Seq({InOrder(old)[m] : m \in 1..n} \cup {k})
    <3> DEFINE a == InOrder(old)
               V == {a[m] : m \in 1..n} \cup {k}
    <3>1. a = [m \in 1..n |-> a[m]]
      <4> HIDE DEF old
      <4> QED
        BY <1>0, InOrderIsSeq DEF n
    <3> HIDE DEF a, n
    <3>2. a \in [1..n -> V]
      BY <3>1
    <3> HIDE DEF V
    <3>3. a \in Seq(V)
      BY <1>1, <3>2
    <3> QED
      BY <3>3 DEF a, V
  <2>4. /\ Len(InOrder(new)) = n + 1
        /\ InOrder(new)[n + 1] = k
        /\ \A m \in 1..n : InOrder(new)[m] = InOrder(old)[m]
    <3> DEFINE V == {InOrder(old)[m] : m \in 1..n} \cup {k}
    <3>1. k \in V /\ InOrder(old) \in Seq(V)
      BY <2>3
    <3> HIDE DEF V, n, old, new
    <3> QED
      BY <1>1, <2>2, <3>1, AppendProperties
  <2>5. after = [m \in 1..n + 1 |-> P(InOrder(new)[m])]
    <3> HIDE DEF n, P
    <3> QED
      BY <2>4 DEF PiecesTo, P
  <2>6. after = Append(before, P(k))
    <3> DEFINE q == P(k)
               V == {before[m] : m \in 1..n} \cup {q}
               d == Append(before, q)
    <3>0. before = [m \in 1..n |-> before[m]]
      <4> HIDE DEF before, n
      <4> QED
        BY <1>2
    <3>1. before \in Seq(V) /\ q \in V /\ Len(before) = n
      <4> HIDE DEF before, n, q
      <4> QED
        BY <1>1, <3>0
    <3>2. d \in Seq(V) /\ Len(d) = n + 1 /\ d[n + 1] = q /\ \A m \in 1..n : d[m] = before[m]
      <4> HIDE DEF before, V, n, q
      <4> QED
        BY <3>1, AppendProperties
    <3>3. d = [m \in 1..n + 1 |-> d[m]]
      <4> HIDE DEF d, V, n
      <4> QED
        BY <1>1, <3>2
    <3>4. \A m \in 1..n + 1 : after[m] = d[m]
      <4> HIDE DEF P, old, new, n, after, before, d
      <4> QED
        BY <1>1, <1>2, <2>4, <2>5, <3>2 DEF q
    <3> HIDE DEF P, old, new, n, after, before, d, q
    <3>5. after = [m \in 1..n + 1 |-> after[m]]
      BY <2>5
    <3>6. after = d
      BY <3>3, <3>4, <3>5
    <3> QED
      BY <3>6 DEF d, q
  <2> QED
    BY <1>4, <2>6
<1> QED
  BY <1>3, <1>4

\* The order of a set of indices lists members of it.
LEMMA InOrderLists ==
  ASSUME NEW n \in Nat, NEW S \in SUBSET (1..n), NEW m \in 1..Cardinality(S)
  PROVE  InOrder(S)[m] \in S
<1> DEFINE Bad == {x \in Nat : \E U \in SUBSET (1..x) :
                      \E y \in 1..Cardinality(U) : InOrder(U)[y] \notin U}
<1> SUFFICES ASSUME Bad # {} PROVE FALSE
  OBVIOUS
<1>1. PICK x \in Bad : \A y \in Nat : y < x => y \notin Bad
  <2>1. Bad \in SUBSET Nat
    OBVIOUS
  <2> HIDE DEF Bad
  <2> QED
    BY <2>1, LeastCounterexample
<1>2. PICK U \in SUBSET (1..x) : \E y \in 1..Cardinality(U) : InOrder(U)[y] \notin U
  BY <1>1
<1>3. x \in Nat /\ IsFiniteSet(1..x)
  BY FS_Interval
<1>4. IsFiniteSet(U) /\ U # {}
  <2>1. IsFiniteSet(U)
    BY <1>3, FS_Subset
  <2> QED
    BY <1>2, <2>1, FS_EmptySet
<1>5. x - 1 \in Nat /\ x - 1 \notin Bad
  <2>1. x # 0
    <3>1. x = 0 => 1..x = {}
      BY <1>3
    <3> QED
      BY <1>4, <3>1
  <2>2. x - 1 \in Nat /\ x - 1 < x
    BY <1>3, <2>1
  <2> HIDE DEF Bad
  <2> QED
    BY <1>1, <2>2
<1>6. x \in U
  <2>1. x \notin U => U \in SUBSET (1..x - 1)
    BY <1>3
  <2> QED
    BY <1>2, <1>5, <2>1
<1> DEFINE R == U \ {x}
<1>7. R \in SUBSET (1..x - 1) /\ IsFiniteSet(R) /\ R \in SUBSET Int /\ \A e \in R : e < x
  BY <1>3, <1>4, FS_Subset
<1>8. \A y \in 1..Cardinality(R) : InOrder(R)[y] \in R
  BY <1>5, <1>7
<1>9. InOrder(U) = Append(InOrder(R), x)
  <2>1. U = R \cup {x}
    BY <1>6
  <2>2. x \in Int
    BY <1>3
  <2> HIDE DEF R
  <2>3. InOrder(R \cup {x}) = Append(InOrder(R), x)
    BY <1>7, <2>2, InOrderAppends
  <2> QED
    BY <2>1, <2>3
<1>10. Cardinality(U) = Cardinality(R) + 1 /\ Cardinality(R) \in Nat
  <2>1. U = R \cup {x} /\ x \notin R
    BY <1>6
  <2> HIDE DEF R
  <2> QED
    BY <1>7, <2>1, FS_AddElement, FS_CardinalityType
<1>11. \A y \in 1..Cardinality(R) + 1 : InOrder(U)[y] \in U
  <2> DEFINE a == InOrder(R)
             k == Cardinality(R)
  <2>1. a \in Seq(U) /\ Len(a) = k
    <3>1. Len(a) = k /\ a = [y \in 1..k |-> a[y]]
      <4> HIDE DEF R
      <4> QED
        BY <1>7, InOrderIsSeq
    <3>2. \A y \in 1..k : a[y] \in U
      BY <1>8
    <3> HIDE DEF a, R
    <3> QED
      BY <3>1, <3>2, <1>10
  <2> HIDE DEF a, k, R
  <2> QED
    BY <1>6, <1>9, <1>10, <2>1, AppendProperties DEF a, k
<1> QED
  BY <1>2, <1>10, <1>11

\* A bar changes nothing about the pieces that end no later than at it.
LEMMA LaterBarKeeps ==
  ASSUME NEW c, NEW n \in Nat, NEW bars \in SUBSET (1..n), NEW stops \in SUBSET (1..n),
         NEW k \in Int, \A e \in stops : e <= k
  PROVE  PiecesTo(c, bars \cup {k}, stops) = PiecesTo(c, bars, stops)
<1>1. ASSUME NEW e \in stops
      PROVE  PieceTo(c, bars \cup {k}, e) = PieceTo(c, bars, e)
  <2>1. {b \in bars \cup {k} : b < e} = {b \in bars : b < e}
    OBVIOUS
  <2> QED
    BY <2>1 DEF PieceTo
<1> DEFINE ends == {e \in stops : PieceTo(c, bars, e) # << >>}
           a    == InOrder(ends)
<1>2. {e \in stops : PieceTo(c, bars \cup {k}, e) # << >>} = ends
  BY <1>1
<1>3. IsFiniteSet(ends) /\ ends \in SUBSET (1..n)
  <2>1. ends \in SUBSET (1..n)
    OBVIOUS
  <2>2. IsFiniteSet(1..n)
    BY FS_Interval
  <2> HIDE DEF ends
  <2> QED
    BY <2>1, <2>2, FS_Subset
<1>4. \A m \in 1..Len(a) : a[m] \in stops
  <2>1. ends \subseteq stops
    OBVIOUS
  <2> HIDE DEF ends
  <2> QED
    BY <1>3, <2>1, InOrderIsSeq, InOrderLists
<1>5. PiecesTo(c, bars, stops) = [m \in 1..Len(a) |-> PieceTo(c, bars, a[m])]
  BY DEF PiecesTo
<1>6. PiecesTo(c, bars \cup {k}, stops) = [m \in 1..Len(a) |-> PieceTo(c, bars \cup {k}, a[m])]
  <2> HIDE DEF ends
  <2> QED
    BY <1>2 DEF PiecesTo
<1> HIDE DEF a
<1>7. \A m \in 1..Len(a) : PieceTo(c, bars \cup {k}, a[m]) = PieceTo(c, bars, a[m])
  BY <1>1, <1>4
<1> QED
  BY <1>5, <1>6, <1>7

-----------------------------------------------------------------------------
(* The readings of the prefixes of a command.                              *)

\* One round of the recursion of Readings.
ReadingStep(c, j, R) ==
  IF j = 0 THEN {{0}}
  ELSE UNION { {cuts \cup {j} : cuts \in R[i]} :
               i \in {k \in 0..j - 1 : Lexeme(c, k, j)} }

PrefixReadings(c) ==
  CHOOSE R : R = [j \in 0..Len(c) |-> ReadingStep(c, j, R)]

\* The recursion defines a function: a prefix is read from shorter ones.
LEMMA PrefixReadingsAre ==
  ASSUME NEW c, Len(c) \in Nat
  PROVE  /\ PrefixReadings(c) = [j \in 0..Len(c) |-> ReadingStep(c, j, PrefixReadings(c))]
         /\ Readings(c) = PrefixReadings(c)[Len(c)]
<1> DEFINE Bad == {m \in Nat : ~ \E R : R = [j \in 0..m |-> ReadingStep(c, j, R)]}
<1>1. Bad = {}
  <2> SUFFICES ASSUME Bad # {} PROVE FALSE
    OBVIOUS
  <2>1. PICK m \in Bad : \A k \in Nat : k < m => k \notin Bad
    <3>1. Bad \in SUBSET Nat
      OBVIOUS
    <3> HIDE DEF Bad
    <3> QED
      BY <3>1, LeastCounterexample
  <2>2. CASE m = 0
    <3> DEFINE R == [j \in 0..0 |-> {{0}}]
    <3>1. R = [j \in 0..0 |-> ReadingStep(c, j, R)]
      BY DEF ReadingStep
    <3> QED
      BY <2>1, <2>2, <3>1
  <2>3. CASE m # 0
    <3>0. m \in Nat /\ m - 1 \in Nat /\ m - 1 < m
      BY <2>3
    <3>1. PICK g : g = [j \in 0..m - 1 |-> ReadingStep(c, j, g)]
      BY <2>1, <3>0
    <3> DEFINE h == [j \in 0..m |-> IF j \in 0..m - 1 THEN g[j] ELSE ReadingStep(c, j, g)]
    <3>3. ASSUME NEW j \in 0..m
          PROVE  h[j] = ReadingStep(c, j, h)
      <4>1. h[j] = ReadingStep(c, j, g)
        BY <3>1
      <4>2. \A k \in 0..j - 1 : h[k] = g[k]
        BY <3>0
      <4> HIDE DEF h
      <4>3. ReadingStep(c, j, g) = ReadingStep(c, j, h)
        BY <4>2 DEF ReadingStep
      <4> QED
        BY <4>1, <4>3
    <3>4. h = [j \in 0..m |-> h[j]]
      OBVIOUS
    <3>5. h = [j \in 0..m |-> ReadingStep(c, j, h)]
      <4> HIDE DEF h
      <4> QED
        BY <3>3, <3>4
    <3> HIDE DEF h
    <3> QED
      BY <2>1, <3>5
  <2> QED
    BY <2>2, <2>3
<1>2. \E R : R = [j \in 0..Len(c) |-> ReadingStep(c, j, R)]
  BY <1>1
<1>3. Readings(c) = PrefixReadings(c)[Len(c)]
  BY DEF Readings, PrefixReadings, ReadingStep
<1> QED
  BY <1>2, <1>3 DEF PrefixReadings

\* What it means that cuts is a reading of the prefix of length j.
LEMMA ReadingCases ==
  ASSUME NEW c, Len(c) \in Nat
  PROVE  /\ PrefixReadings(c)[0] = {{0}}
         /\ \A j \in 1..Len(c) : \A r :
              r \in PrefixReadings(c)[j] <=>
                \E i \in 0..j - 1 : \E cuts \in PrefixReadings(c)[i] :
                  Lexeme(c, i, j) /\ r = cuts \cup {j}
<1>1. \A j \in 0..Len(c) : PrefixReadings(c)[j] = ReadingStep(c, j, PrefixReadings(c))
  <2> DEFINE R == PrefixReadings(c)
  <2>1. R = [j \in 0..Len(c) |-> ReadingStep(c, j, R)]
    BY PrefixReadingsAre
  <2> HIDE DEF R
  <2>2. \A j \in 0..Len(c) : R[j] = ReadingStep(c, j, R)
    BY <2>1
  <2> QED
    BY <2>2 DEF R
<1>2. 0 \in 0..Len(c) /\ \A j \in 1..Len(c) : j \in 0..Len(c) /\ j # 0
  OBVIOUS
<1>3. PrefixReadings(c)[0] = {{0}}
  BY <1>1, <1>2 DEF ReadingStep
<1>4. ASSUME NEW j \in 1..Len(c), NEW r
      PROVE  r \in PrefixReadings(c)[j] <=>
                \E i \in 0..j - 1 : \E cuts \in PrefixReadings(c)[i] :
                  Lexeme(c, i, j) /\ r = cuts \cup {j}
  <2>1. PrefixReadings(c)[j] =
          UNION { {cuts \cup {j} : cuts \in PrefixReadings(c)[i]} :
                  i \in {k \in 0..j - 1 : Lexeme(c, k, j)} }
    BY <1>1, <1>2 DEF ReadingStep
  <2> QED
    BY <2>1
<1> QED
  BY <1>3, <1>4

\* A reading of a prefix cuts nowhere beyond its end, and there.
LEMMA CutsAreWithin ==
  ASSUME NEW c, Len(c) \in Nat, NEW j \in 0..Len(c), NEW r \in PrefixReadings(c)[j]
  PROVE  r \subseteq 0..j /\ j \in r
<1> DEFINE R == PrefixReadings(c)
           Bad == {m \in Nat : m <= Len(c) /\ \E s \in R[m] : ~ (s \subseteq 0..m /\ m \in s)}
<1>1. Bad = {}
  <2> SUFFICES ASSUME Bad # {} PROVE FALSE
    OBVIOUS
  <2>1. PICK m \in Bad : \A k \in Nat : k < m => k \notin Bad
    <3>1. Bad \in SUBSET Nat
      OBVIOUS
    <3> HIDE DEF Bad
    <3> QED
      BY <3>1, LeastCounterexample
  <2>2. PICK s \in R[m] : ~ (s \subseteq 0..m /\ m \in s)
    BY <2>1
  <2>3. CASE m = 0
    BY <2>2, <2>3, ReadingCases
  <2>4. CASE m # 0
    <3>1. m \in 1..Len(c)
      BY <2>1, <2>4
    <3>2. PICK i \in 0..m - 1 : \E cuts \in R[i] : s = cuts \cup {m}
      BY <3>1, <2>2, ReadingCases
    <3>c. PICK cuts \in R[i] : s = cuts \cup {m}
      BY <3>2
    <3>3. cuts \subseteq 0..i
      BY <2>1, <3>1, <3>2
    <3>4. i <= m - 1 /\ m \in Nat
      BY <3>1, <3>2
    <3>5. \A e \in s : e \in 0..m
      BY <3>c, <3>3, <3>4, <3>2
    <3>6. m \in s
      BY <3>c
    <3> QED
      BY <2>2, <3>5, <3>6
  <2> QED
    BY <2>3, <2>4
<1> QED
  BY <1>1

-----------------------------------------------------------------------------
(* Lexemes, said of the places of a command.                               *)

Marks == {"\\", "'", "\""}

\* The k-th atom ends the double-quoted string that starts after the i-th.
Closes(c, i, k) == Ends(SubSeq(c, i + 1, k), k - i)

\* A part of a command has the atoms of that part.
LEMMA PartIs ==
  ASSUME NEW c \in Seq(Atoms), NEW i \in Nat, NEW j \in 1..Len(c), i < j
  PROVE  /\ Len(SubSeq(c, i + 1, j)) = j - i
         /\ \A k \in 1..j - i : SubSeq(c, i + 1, j)[k] = c[i + k]
BY SubSeqProperties

\* Where a quoted string ends does not depend on what follows.
LEMMA EndsIsLocal ==
  ASSUME NEW c \in Seq(Atoms), NEW i \in Nat, NEW j \in 1..Len(c), i < j,
         NEW k \in i + 1..j
  PROVE  Ends(SubSeq(c, i + 1, j), k - i) <=> Closes(c, i, k)
<1> DEFINE s == SubSeq(c, i + 1, j)
           t == SubSeq(c, i + 1, k)
           h == k - i
<1>1. h \in 1..j - i /\ k \in 1..Len(c)
  OBVIOUS
<1>2. \A m \in 1..h : s[m] = t[m]
  <2>1. \A m \in 1..j - i : s[m] = c[i + m]
    BY PartIs
  <2>2. \A m \in 1..k - i : t[m] = c[i + m]
    BY <1>1, PartIs
  <2> QED
    BY <1>1, <2>1, <2>2
<1> HIDE DEF s, t, h
<1>3. BackslashesBefore(s, h) = BackslashesBefore(t, h)
  <2>1. ASSUME NEW n \in 0..h - 1
        PROVE  IsRun(s, h, n) <=> IsRun(t, h, n)
    <3>1. \A m \in h - n..h - 1 : s[m] = t[m]
      BY <1>1, <1>2
    <3>2. n < h - 1 => s[h - n - 1] = t[h - n - 1]
      BY <1>1, <1>2
    <3> QED
      BY <3>1, <3>2 DEF IsRun
  <2> QED
    BY <2>1 DEF BackslashesBefore
<1>4. s[h] = t[h]
  BY <1>1, <1>2
<1> QED
  BY <1>3, <1>4 DEF Ends, Closes, s, t, h

\* The lexemes of a command by their first atom.
LEMMA LexemeIs ==
  ASSUME NEW c \in Seq(Atoms), NEW i \in Nat, NEW j \in 1..Len(c), i < j
  PROVE  Lexeme(c, i, j) <=>
           \/ c[i + 1] \notin Marks /\ j = i + 1
           \/ c[i + 1] = "\\" /\ (j = i + 2 \/ (j = i + 1 /\ j = Len(c)))
           \/ /\ c[i + 1] = "'" /\ i + 1 < j /\ c[j] = "'"
              /\ \A k \in i + 2..j - 1 : c[k] # "'"
           \/ /\ c[i + 1] = "\"" /\ i + 1 < j /\ Closes(c, i, j)
              /\ \A k \in i + 2..j - 1 : ~ Closes(c, i, k)
<1> DEFINE s == SubSeq(c, i + 1, j)
           n == j - i
<1>1. Len(s) = n /\ \A k \in 1..n : s[k] = c[i + k]
  BY PartIs
<1>2. n \in Nat /\ n >= 1 /\ s[1] = c[i + 1] /\ s[n] = c[j] /\ 1 + i = i + 1
  BY <1>1
<1>3. \A k \in i + 1..j : k - i \in 1..n /\ (Ends(s, k - i) <=> Closes(c, i, k))
  BY EndsIsLocal
<1>l. n = 1 <=> j = i + 1
  OBVIOUS
<1>4. Bare(s) <=> c[i + 1] \notin Marks /\ j = i + 1
  <2> HIDE DEF s, n
  <2>1. Bare(s) <=> n = 1 /\ c[i + 1] \notin Marks
    BY <1>1, <1>2 DEF Bare, Marks
  <2> QED
    BY <1>l, <2>1
<1>5. Pair(s) <=> c[i + 1] = "\\" /\ j = i + 2
  <2> HIDE DEF s
  <2> QED
    BY <1>1, <1>2 DEF Pair
<1>6. s = <<"\\">> <=> c[i + 1] = "\\" /\ j = i + 1
  <2>1. s \in Seq(Atoms)
    BY SubSeqProperties
  <2> HIDE DEF s
  <2>2. s = <<"\\">> => Len(s) = 1 /\ s[1] = "\\"
    OBVIOUS
  <2>3. Len(s) = 1 /\ s[1] = "\\" => s = <<"\\">>
    BY <2>1
  <2> QED
    BY <1>1, <1>2, <2>2, <2>3
<1>7. Single(s) <=> /\ c[i + 1] = "'" /\ i + 1 < j /\ c[j] = "'"
                    /\ \A k \in i + 2..j - 1 : c[k] # "'"
  <2> DEFINE K == {k \in 2..n : s[k] = "'"}
  <2>1. n > 1 => (K = {n} <=> s[n] = "'" /\ \A k \in 2..n - 1 : s[k] # "'")
    <3> HIDE DEF s, n
    <3> QED
      BY <1>2
  <2>2. (\A k \in 2..n - 1 : s[k] # "'") <=> \A k \in i + 2..j - 1 : c[k] # "'"
    <3>1. ASSUME NEW k \in 2..n - 1 PROVE i + k \in i + 2..j - 1 /\ s[k] = c[i + k]
      BY <1>1
    <3>2. ASSUME NEW k \in i + 2..j - 1
          PROVE  k - i \in 2..n - 1 /\ s[k - i] = c[k]
      <4>1. k - i \in 2..n - 1 /\ k - i \in 1..n /\ i + (k - i) = k
        OBVIOUS
      <4> HIDE DEF s, n
      <4> QED
        BY <1>1, <4>1
    <3> HIDE DEF s, n
    <3> QED
      BY <3>1, <3>2
  <2>3. n > 1 <=> i + 1 < j
    OBVIOUS
  <2> HIDE DEF s, n
  <2> QED
    BY <1>1, <1>2, <2>1, <2>2, <2>3 DEF Single
<1>8. Double(s) <=> /\ c[i + 1] = "\"" /\ i + 1 < j /\ Closes(c, i, j)
                    /\ \A k \in i + 2..j - 1 : ~ Closes(c, i, k)
  <2> DEFINE K == {k \in 2..n : Ends(s, k)}
  <2>1. n > 1 => (K = {n} <=> Ends(s, n) /\ \A k \in 2..n - 1 : ~ Ends(s, k))
    <3> HIDE DEF s, n
    <3> QED
      BY <1>2
  <2>2. (\A k \in 2..n - 1 : ~ Ends(s, k)) <=> \A k \in i + 2..j - 1 : ~ Closes(c, i, k)
    <3>1. ASSUME NEW k \in 2..n - 1
          PROVE  i + k \in i + 2..j - 1 /\ (Ends(s, k) <=> Closes(c, i, i + k))
      <4>1. i + k \in i + 1..j /\ (i + k) - i = k /\ i + k \in i + 2..j - 1
        OBVIOUS
      <4> HIDE DEF s, n
      <4> QED
        BY <1>3, <4>1
    <3>2. ASSUME NEW k \in i + 2..j - 1
          PROVE  k - i \in 2..n - 1 /\ (Ends(s, k - i) <=> Closes(c, i, k))
      <4>1. k - i \in 2..n - 1 /\ k \in i + 1..j
        OBVIOUS
      <4> HIDE DEF s, n
      <4> QED
        BY <1>3, <4>1
    <3> HIDE DEF s, n
    <3> QED
      BY <3>1, <3>2
  <2>3. Ends(s, n) <=> Closes(c, i, j)
    BY <1>3
  <2>4. n > 1 <=> i + 1 < j
    OBVIOUS
  <2> HIDE DEF s, n
  <2> QED
    BY <1>1, <1>2, <2>1, <2>2, <2>3, <2>4 DEF Double
<1> HIDE DEF s, n
<1> QED
  BY <1>4, <1>5, <1>6, <1>7, <1>8 DEF Lexeme, s

\* A lexeme that starts at a place has one end.
LEMMA LexemeEnds ==
  ASSUME NEW c \in Seq(Atoms), NEW i \in Nat,
         NEW j \in 1..Len(c), NEW k \in 1..Len(c), i < j, i < k,
         Lexeme(c, i, j), Lexeme(c, i, k)
  PROVE  j = k
<1> DEFINE EndsAt(e) ==
      \/ c[i + 1] \notin Marks /\ e = i + 1
      \/ c[i + 1] = "\\" /\ (e = i + 2 \/ (e = i + 1 /\ e = Len(c)))
      \/ /\ c[i + 1] = "'" /\ i + 1 < e /\ c[e] = "'"
         /\ \A m \in i + 2..e - 1 : c[m] # "'"
      \/ /\ c[i + 1] = "\"" /\ i + 1 < e /\ Closes(c, i, e)
         /\ \A m \in i + 2..e - 1 : ~ Closes(c, i, m)
<1>1. EndsAt(j) /\ EndsAt(k)
  BY LexemeIs
<1>2. Len(c) \in Nat
  OBVIOUS
<1>3. CASE c[i + 1] \notin Marks
  BY <1>1, <1>3 DEF Marks
<1>4. CASE c[i + 1] = "\\"
  <2>1. c[i + 1] \in Marks /\ c[i + 1] # "'" /\ c[i + 1] # "\""
    BY <1>4 DEF Marks
  <2>2. j = i + 2 \/ (j = i + 1 /\ j = Len(c))
    BY <1>1, <2>1
  <2>3. k = i + 2 \/ (k = i + 1 /\ k = Len(c))
    BY <1>1, <2>1
  <2> QED
    BY <1>2, <2>2, <2>3
<1>5. CASE c[i + 1] = "'"
  BY <1>1, <1>5 DEF Marks
<1>6. CASE c[i + 1] = "\""
  <2>1. c[i + 1] \in Marks /\ c[i + 1] # "'" /\ c[i + 1] # "\\"
    BY <1>6 DEF Marks
  <2>2. i + 1 < j /\ Closes(c, i, j) /\ \A m \in i + 2..j - 1 : ~ Closes(c, i, m)
    BY <1>1, <2>1
  <2>3. i + 1 < k /\ Closes(c, i, k) /\ \A m \in i + 2..k - 1 : ~ Closes(c, i, m)
    BY <1>1, <2>1
  <2>4. ~ (j < k)
    <3>1. j < k => j \in i + 2..k - 1
      BY <2>2
    <3> QED
      BY <2>2, <2>3, <3>1
  <2>5. ~ (k < j)
    <3>1. k < j => k \in i + 2..j - 1
      BY <2>3
    <3> QED
      BY <2>2, <2>3, <3>1
  <2> QED
    BY <2>4, <2>5
<1> QED
  BY <1>3, <1>4, <1>5, <1>6 DEF Marks

-----------------------------------------------------------------------------
(* A command has at most one reading.                                      *)

\* A prefix with a reading ends with a lexeme after a shorter one.
LEMMA LastLexeme ==
  ASSUME NEW c \in Seq(Atoms), NEW j \in 1..Len(c), NEW r \in PrefixReadings(c)[j]
  PROVE  \E i \in 0..j - 1 : \E cuts \in PrefixReadings(c)[i] :
           Lexeme(c, i, j) /\ r = cuts \cup {j}
BY ReadingCases

\* No prefix with a reading ends inside a lexeme of a reading.
LEMMA NoCutInside ==
  ASSUME NEW c \in Seq(Atoms),
         NEW i \in Nat, NEW k \in Nat, NEW j \in 1..Len(c), i < k, k < j,
         PrefixReadings(c)[i] # {}, PrefixReadings(c)[k] # {}, Lexeme(c, i, j)
  PROVE  FALSE
<1> DEFINE R == PrefixReadings(c)
           n == Len(c)
           Bad == {x \in Nat : /\ R[x] # {}
                               /\ \E y \in 0..x - 1 : \E z \in x + 1..n :
                                    R[y] # {} /\ Lexeme(c, y, z)}
<1>0. n \in Nat
  OBVIOUS
<1>1. k \in Bad
  <2>1. i \in 0..k - 1 /\ j \in k + 1..n
    OBVIOUS
  <2> QED
    BY <2>1
<1>2. PICK x \in Bad : \A y \in Nat : y < x => y \notin Bad
  <2>1. Bad \in SUBSET Nat /\ Bad # {}
    BY <1>1
  <2> HIDE DEF Bad
  <2> QED
    BY <2>1, LeastCounterexample
<1>3. x \in Nat /\ R[x] # {}
  BY <1>2
<1>4. PICK y \in 0..x - 1 : \E z \in x + 1..n : R[y] # {} /\ Lexeme(c, y, z)
  BY <1>2
<1>5. PICK z \in x + 1..n : R[y] # {} /\ Lexeme(c, y, z)
  BY <1>4
<1>6. x \in 1..n /\ z \in 1..n
  BY <1>0, <1>3, <1>4, <1>5
<1>7. PICK m \in 0..x - 1 : R[m] # {} /\ Lexeme(c, m, x)
  BY <1>3, <1>6, LastLexeme
<1>8. CASE m > y
  <2>1. m \in Nat /\ m < x /\ y \in 0..m - 1 /\ z \in m + 1..n
    BY <1>4, <1>5, <1>7, <1>8, <1>0
  <2>2. m \in Bad
    BY <1>5, <1>7, <2>1
  <2> HIDE DEF Bad
  <2> QED
    BY <1>2, <2>1, <2>2
<1>9. CASE m = y
  <2>1. y \in Nat /\ y < x /\ y < z
    BY <1>3, <1>4, <1>5
  <2>2. x = z
    BY <1>5, <1>6, <1>7, <1>9, <2>1, LexemeEnds
  <2> QED
    BY <1>5, <1>6, <2>2
<1>10. CASE m < y
  <2>1. y \in Nat /\ y < x /\ m \in 0..y - 1 /\ x \in y + 1..n
    BY <1>3, <1>4, <1>6, <1>7, <1>10
  <2>2. y \in Bad
    BY <1>5, <1>7, <2>1
  <2> HIDE DEF Bad
  <2> QED
    BY <1>2, <2>1, <2>2
<1>11. m \in Nat /\ y \in Nat
  BY <1>3, <1>4, <1>7
<1> QED
  BY <1>8, <1>9, <1>10, <1>11

\* All readings of a prefix are the same.
LEMMA OneReading ==
  ASSUME NEW c \in Seq(Atoms), NEW j \in 0..Len(c),
         NEW r \in PrefixReadings(c)[j], NEW s \in PrefixReadings(c)[j]
  PROVE  r = s
<1> DEFINE R == PrefixReadings(c)
           n == Len(c)
           Bad == {x \in Nat : x <= n /\ \E p, q \in R[x] : p # q}
<1>0. n \in Nat
  OBVIOUS
<1> SUFFICES Bad = {}
  BY <1>0
<1> SUFFICES ASSUME Bad # {} PROVE FALSE
  OBVIOUS
<1>1. PICK x \in Bad : \A y \in Nat : y < x => y \notin Bad
  <2>1. Bad \in SUBSET Nat
    OBVIOUS
  <2> HIDE DEF Bad
  <2> QED
    BY <2>1, LeastCounterexample
<1>2. x \in Nat /\ x <= n
  BY <1>1
<1>3. PICK p \in R[x], q \in R[x] : p # q
  BY <1>1
<1>4. x # 0
  <2>1. x = 0 => R[x] = {{0}}
    BY <1>0, ReadingCases
  <2> HIDE DEF R
  <2> QED
    BY <1>3, <2>1
<1>5. x \in 1..n
  BY <1>0, <1>2, <1>4
<1>c. \A w \in R[x] : \E y \in 0..x - 1 : \E cuts \in R[y] :
        Lexeme(c, y, x) /\ w = cuts \cup {x}
  BY <1>5, LastLexeme
<1>6. PICK a \in 0..x - 1 : \E cuts \in R[a] : Lexeme(c, a, x) /\ p = cuts \cup {x}
  BY <1>3, <1>c
<1>7. PICK b \in 0..x - 1 : \E cuts \in R[b] : Lexeme(c, b, x) /\ q = cuts \cup {x}
  BY <1>3, <1>c
<1>8. a \in Nat /\ b \in Nat /\ a < x /\ b < x /\ R[a] # {} /\ R[b] # {}
  BY <1>2, <1>6, <1>7
<1>9. a = b
  <2>1. ~ (a < b)
    BY <1>5, <1>6, <1>8, NoCutInside
  <2>2. ~ (b < a)
    BY <1>5, <1>7, <1>8, NoCutInside
  <2> QED
    BY <1>8, <2>1, <2>2
<1>10. PICK u \in R[a] : p = u \cup {x}
  BY <1>6
<1>11. PICK v \in R[a] : q = v \cup {x}
  BY <1>7, <1>9
<1>12. u # v
  BY <1>3, <1>10, <1>11
<1>13. a \in Bad
  BY <1>2, <1>8, <1>10, <1>11, <1>12
<1> HIDE DEF Bad
<1> QED
  BY <1>1, <1>8, <1>13

\* Where no lexeme starts after a reading, the command has none.
LEMMA StuckHasNoReading ==
  ASSUME NEW c \in Seq(Atoms), NEW i \in Nat, i < Len(c),
         PrefixReadings(c)[i] # {}, \A j \in i + 1..Len(c) : ~ Lexeme(c, i, j)
  PROVE  Readings(c) = {}
<1> DEFINE R == PrefixReadings(c)
           n == Len(c)
           Bad == {x \in Nat : i < x /\ x <= n /\ R[x] # {}}
<1>0. n \in Nat /\ Readings(c) = R[n]
  BY PrefixReadingsAre
<1>1. Bad = {}
  <2> SUFFICES ASSUME Bad # {} PROVE FALSE
    OBVIOUS
  <2>1. PICK x \in Bad : \A y \in Nat : y < x => y \notin Bad
    <3>1. Bad \in SUBSET Nat
      OBVIOUS
    <3> HIDE DEF Bad
    <3> QED
      BY <3>1, LeastCounterexample
  <2>2. x \in Nat /\ i < x /\ x \in 1..n /\ R[x] # {}
    BY <2>1
  <2>3. PICK m \in 0..x - 1 : R[m] # {} /\ Lexeme(c, m, x)
    BY <2>2, LastLexeme
  <2>4. m \in Nat /\ m < x
    BY <2>2, <2>3
  <2>5. CASE m > i
    <3>1. m \in Bad
      BY <2>2, <2>3, <2>4, <2>5
    <3> HIDE DEF Bad
    <3> QED
      BY <2>1, <2>4, <3>1
  <2>6. CASE m = i
    <3>1. x \in i + 1..n
      BY <2>2
    <3> QED
      BY <2>3, <2>6, <3>1
  <2>7. CASE m < i
    BY <2>2, <2>3, <2>4, <2>7, NoCutInside
  <2> QED
    BY <2>4, <2>5, <2>6, <2>7
<1> QED
  BY <1>0, <1>1

-----------------------------------------------------------------------------
(* What the scanner has collected.                                         *)

\* n backslashes stand before the k-th atom in a string opened after the i-th.
RunBefore(c, i, k, n) ==
  /\ n \in 0..k - i - 2
  /\ \A m \in k - n..k - 1 : c[m] = "\\"
  /\ c[k - n - 1] # "\\"

\* A double quote closes unless an odd number of backslashes is before it.
LEMMA ClosesByRun ==
  ASSUME NEW c \in Seq(Atoms), NEW i \in Nat, NEW k \in i + 2..Len(c),
         NEW n, RunBefore(c, i, k, n)
  PROVE  Closes(c, i, k) <=> c[k] = "\"" /\ n % 2 = 0
<1> DEFINE s == SubSeq(c, i + 1, k)
           h == k - i
<1>1. k \in 1..Len(c) /\ i < k /\ h \in Nat /\ h >= 2
  OBVIOUS
<1>2. \A m \in 1..h : s[m] = c[i + m]
  BY <1>1, PartIs
<1>3. n \in Nat /\ n < h - 1
  BY DEF RunBefore
<1>4. \A m \in h - n..h - 1 : s[m] = "\\"
  <2>1. ASSUME NEW m \in h - n..h - 1 PROVE s[m] = "\\"
    <3>1. m \in 1..h /\ i + m \in k - n..k - 1
      BY <1>1, <1>3
    <3> HIDE DEF s, h
    <3> QED
      BY <3>1, <1>2 DEF RunBefore
  <2> QED
    BY <2>1
<1>5. s[h - n - 1] # "\\"
  <2>1. h - n - 1 \in 1..h /\ i + (h - n - 1) = k - n - 1
    BY <1>1, <1>3
  <2> HIDE DEF s, h
  <2> QED
    BY <2>1, <1>2 DEF RunBefore
<1>6. s[h] = c[k]
  <2>1. h \in 1..h /\ i + h = k
    BY <1>1
  <2> HIDE DEF s, h
  <2> QED
    BY <2>1, <1>2
<1> HIDE DEF s, h
<1>7. n \in 0..h - 1 /\ IsRun(s, h, n)
  BY <1>1, <1>3, <1>4, <1>5 DEF IsRun
<1>8. ASSUME NEW m \in 0..h - 1, IsRun(s, h, m)
      PROVE  m = n
  <2>1. ~ (m < n)
    <3>1. m < n => h - m - 1 \in h - n..h - 1 /\ m < h - 1
      BY <1>1, <1>3
    <3> QED
      BY <3>1, <1>4, <1>8 DEF IsRun
  <2>2. ~ (n < m)
    <3>1. n < m => h - n - 1 \in h - m..h - 1
      BY <1>1, <1>3
    <3> QED
      BY <3>1, <1>5, <1>8 DEF IsRun
  <2> QED
    BY <1>1, <1>3, <2>1, <2>2
<1>9. BackslashesBefore(s, h) = n
  BY <1>7, <1>8 DEF BackslashesBefore
<1> QED
  BY <1>6, <1>9 DEF Closes, Ends, s, h

\* What the segments and the one being collected are at the k-th atom, when
\* the command up to its last lexeme is read with these cuts and the last bar
\* is at from.
Collected(c, cuts, from, k, segs, cur) ==
  /\ from \in Bars(c, cuts) \cup {0}
  /\ \A b \in Bars(c, cuts) : b <= from
  /\ segs = PiecesTo(c, Bars(c, cuts), Bars(c, cuts))
  /\ cur = SubSeq(c, from + 1, k)

\* The bars of a reading are places of the command.
LEMMA BarsAre ==
  ASSUME NEW c \in Seq(Atoms), NEW cuts
  PROVE  Bars(c, cuts) \in SUBSET (1..Len(c)) /\ IsFiniteSet(Bars(c, cuts))
<1>1. Bars(c, cuts) \in SUBSET (1..Len(c))
  BY DEF Bars
<1>2. IsFiniteSet(1..Len(c))
  BY FS_Interval
<1> QED
  BY <1>1, <1>2, FS_Subset

\* One more cut makes one more bar after a bare separator, and none otherwise.
LEMMA BarsGrow ==
  ASSUME NEW c \in Seq(Atoms), NEW i \in Nat, NEW j \in 1..Len(c), i < j,
         NEW cuts \in SUBSET (0..i), i \in cuts
  PROVE  /\ j = i + 1 /\ c[j] \in Separators
              => Bars(c, cuts \cup {j}) = Bars(c, cuts) \cup {j}
         /\ i + 1 < j \/ c[j] \notin Separators
              => Bars(c, cuts \cup {j}) = Bars(c, cuts)
<1>1. \A k \in 1..Len(c) : {k - 1, k} \subseteq cuts \cup {j}
                           <=> \/ {k - 1, k} \subseteq cuts
                               \/ k = j /\ j = i + 1
  <2>1. \A k \in 1..Len(c) : k - 1 = j => k \notin cuts \cup {j}
    OBVIOUS
  <2>2. j \notin cuts /\ (j - 1 \in cuts <=> j = i + 1)
    <3>1. \A e \in cuts : e <= i
      OBVIOUS
    <3>2. j - 1 \in cuts => j = i + 1
      BY <3>1
    <3>3. j = i + 1 => j - 1 = i
      OBVIOUS
    <3> QED
      BY <3>1, <3>2, <3>3
  <2>3. j - 1 # j
    OBVIOUS
  <2> QED
    BY <2>1, <2>2, <2>3
<1> QED
  BY <1>1 DEF Bars

\* A lexeme that is no bare separator changes nothing about the segments.
LEMMA LexemeCollects ==
  ASSUME NEW c \in Seq(Atoms), NEW i \in Nat, NEW j \in 1..Len(c), i < j,
         NEW cuts \in PrefixReadings(c)[i], Lexeme(c, i, j),
         i + 1 < j \/ c[j] \notin Separators,
         NEW from, NEW k, NEW segs, NEW cur,
         Collected(c, cuts, from, k, segs, cur)
  PROVE  /\ cuts \cup {j} \in PrefixReadings(c)[j]
         /\ Collected(c, cuts \cup {j}, from, k, segs, cur)
<1>1. i \in 0..j - 1 /\ i \in 0..Len(c)
  OBVIOUS
<1>2. cuts \cup {j} \in PrefixReadings(c)[j]
  BY <1>1, ReadingCases
<1>3. cuts \in SUBSET (0..i) /\ i \in cuts
  BY <1>1, CutsAreWithin
<1>4. Bars(c, cuts \cup {j}) = Bars(c, cuts)
  BY <1>3, BarsGrow
<1> QED
  BY <1>2, <1>4 DEF Collected

\* A bare separator closes the segment.
LEMMA SeparatorCloses ==
  ASSUME NEW c \in Seq(Atoms), NEW i \in Nat, i < Len(c), c[i + 1] \in Separators,
         NEW cuts \in PrefixReadings(c)[i],
         NEW from, NEW segs, NEW cur, Collected(c, cuts, from, i, segs, cur)
  PROVE  /\ cuts \cup {i + 1} \in PrefixReadings(c)[i + 1]
         /\ Collected(c, cuts \cup {i + 1}, i + 1, i + 1, Closed(segs, cur), << >>)
<1> DEFINE j    == i + 1
           bars == Bars(c, cuts)
           new  == bars \cup {j}
<1>1. j \in 1..Len(c) /\ i < j /\ i \in 0..j - 1 /\ i \in 0..Len(c) /\ j \in Int
  OBVIOUS
<1>2. Lexeme(c, i, j)
  <2>1. c[i + 1] \notin Marks
    BY DEF Separators, Marks
  <2> QED
    BY <1>1, <2>1, LexemeIs
<1>3. cuts \cup {j} \in PrefixReadings(c)[j]
  BY <1>1, <1>2, ReadingCases
<1>4. cuts \in SUBSET (0..i) /\ i \in cuts
  BY <1>1, CutsAreWithin
<1>5. Bars(c, cuts \cup {j}) = new
  <2>1. j = i + 1 /\ c[j] \in Separators
    OBVIOUS
  <2> HIDE DEF j, new, bars
  <2>2. j = i + 1 /\ c[j] \in Separators
          => Bars(c, cuts \cup {j}) = Bars(c, cuts) \cup {j}
    BY <1>1, <1>4, BarsGrow
  <2> QED
    BY <2>1, <2>2 DEF new, bars
<1>6. bars \in SUBSET (1..Len(c)) /\ IsFiniteSet(bars) /\ bars \in SUBSET Int
  BY BarsAre
<1>7. \A b \in bars : b < j /\ b <= j
  BY <1>4 DEF Bars
<1>8. PieceTo(c, new, j) = Strip(cur)
  <2> DEFINE S == {b \in new : b < j} \cup {0}
  <2>1. S = bars \cup {0}
    BY <1>1, <1>7
  <2>2. from \in S /\ S \in SUBSET Int /\ \A b \in S : b <= from
    BY <1>6, <2>1 DEF Collected
  <2>3. Max(S) = from
    <3> HIDE DEF S
    <3> QED
      BY <2>2, MaxIsGreatest
  <2>4. j - 1 = i
    OBVIOUS
  <2> HIDE DEF j, new
  <2> QED
    BY <2>3, <2>4 DEF PieceTo, Collected
<1>9. PiecesTo(c, new, bars) = PiecesTo(c, bars, bars)
  <2>1. Len(c) \in Nat
    OBVIOUS
  <2> HIDE DEF j, bars
  <2> QED
    BY <2>1, <1>1, <1>6, <1>7, LaterBarKeeps
<1>10. PiecesTo(c, new, new) =
         IF PieceTo(c, new, j) = << >> THEN PiecesTo(c, new, bars)
         ELSE Append(PiecesTo(c, new, bars), PieceTo(c, new, j))
  <2> HIDE DEF j, bars
  <2> QED
    BY <1>1, <1>6, <1>7, PieceAppends
<1>11. PiecesTo(c, new, new) = Closed(segs, cur)
  BY <1>8, <1>9, <1>10 DEF Closed, Collected
<1>12. SubSeq(c, j + 1, j) = << >>
  BY <1>1, SubSeqEmpty
<1>13. j \in new /\ \A b \in new : b <= j
  BY <1>7
<1> HIDE DEF j, new
<1> QED
  BY <1>3, <1>5, <1>11, <1>12, <1>13 DEF Collected, j

\* At the end of the command what is closed are the pieces of the reading.
LEMMA EndCloses ==
  ASSUME NEW c \in Seq(Atoms), NEW cuts,
         NEW from, NEW segs, NEW cur, Collected(c, cuts, from, Len(c), segs, cur)
  PROVE  Closed(segs, cur) = Pieces(c, cuts)
<1> DEFINE j    == Len(c) + 1
           bars == Bars(c, cuts)
<1>1. j \in Int /\ j - 1 = Len(c)
  OBVIOUS
<1>2. bars \in SUBSET (1..Len(c)) /\ IsFiniteSet(bars) /\ bars \in SUBSET Int
  BY BarsAre
<1>3. \A b \in bars : b < j
  BY <1>2
<1>4. PieceTo(c, bars, j) = Strip(cur)
  <2> DEFINE S == {b \in bars : b < j} \cup {0}
  <2>1. S = bars \cup {0}
    BY <1>3
  <2>2. from \in S /\ S \in SUBSET Int /\ \A b \in S : b <= from
    BY <1>2, <2>1 DEF Collected
  <2>3. Max(S) = from
    <3> HIDE DEF S
    <3> QED
      BY <2>2, MaxIsGreatest
  <2> HIDE DEF j, bars
  <2> QED
    BY <2>3, <1>1 DEF PieceTo, Collected
<1>5. PiecesTo(c, bars, bars \cup {j}) =
         IF PieceTo(c, bars, j) = << >> THEN PiecesTo(c, bars, bars)
         ELSE Append(PiecesTo(c, bars, bars), PieceTo(c, bars, j))
  <2> HIDE DEF j, bars
  <2> QED
    BY <1>1, <1>2, <1>3, PieceAppends
<1> QED
  BY <1>4, <1>5 DEF Closed, Collected, Pieces

-----------------------------------------------------------------------------
(* Where the scanner is.                                                   *)

\* In quotes, a string opened after the i-th atom has not been closed up to
\* the k-th; outside them a lexeme ends there.
Within(c, i, k, q) ==
  /\ q = "none" => i = k
  /\ q = "single" => /\ i < k /\ c[i + 1] = "'"
                     /\ \A m \in i + 2..k : c[m] # "'"
  /\ q = "double" => /\ i < k /\ c[i + 1] = "\""
                     /\ \A m \in i + 2..k : ~ Closes(c, i, m)
                     /\ k < Len(c) => \E n \in 0..k - i - 1 : /\ RunBefore(c, i, k + 1, n)
                                                              /\ n % 2 = 0

\* The first k atoms are a reading of a prefix and what was opened after it.
Scanned(c, k, q, segs, cur) ==
  \E i \in 0..k : \E cuts \in PrefixReadings(c)[i] : \E from \in 0..i :
    /\ Collected(c, cuts, from, k, segs, cur)
    /\ Within(c, i, k, q)

\* Two adjacent parts of a command make one.
LEMMA PartsJoin ==
  ASSUME NEW c \in Seq(Atoms), NEW f \in Nat, NEW k \in f..Len(c), NEW m \in k..Len(c)
  PROVE  SubSeq(c, f + 1, k) \o SubSeq(c, k + 1, m) = SubSeq(c, f + 1, m)
<1> DEFINE a == SubSeq(c, f + 1, k)
           b == SubSeq(c, k + 1, m)
           d == SubSeq(c, f + 1, m)
<1>0. Len(c) \in Nat /\ k \in Nat /\ m \in Nat /\ f <= k /\ k <= m /\ m <= Len(c)
  OBVIOUS
<1>1. a \in Seq(Atoms) /\ Len(a) = k - f /\ \A e \in 1..k - f : a[e] = c[f + e]
  BY <1>0, SubSeqProperties
<1>2. b \in Seq(Atoms) /\ Len(b) = m - k /\ \A e \in 1..m - k : b[e] = c[k + e]
  BY <1>0, SubSeqProperties
<1>3. d \in Seq(Atoms) /\ Len(d) = m - f /\ \A e \in 1..m - f : d[e] = c[f + e]
  BY <1>0, SubSeqProperties
<1> HIDE DEF a, b, d
<1>4. a \o b \in Seq(Atoms) /\ Len(a \o b) = m - f
  BY <1>0, <1>1, <1>2
<1>5. ASSUME NEW e \in 1..m - f PROVE (a \o b)[e] = d[e]
  <2>1. (a \o b)[e] = IF e <= k - f THEN a[e] ELSE b[e - (k - f)]
    BY <1>0, <1>1, <1>2, ConcatProperties
  <2>2. CASE e <= k - f
    <3>1. e \in 1..k - f
      BY <1>0, <2>2
    <3> QED
      BY <1>1, <1>3, <2>1, <2>2, <3>1
  <2>3. CASE ~ (e <= k - f)
    <3>1. e - (k - f) \in 1..m - k /\ k + (e - (k - f)) = f + e /\ ~ (e <= k - f)
      BY <1>0, <2>3
    <3> QED
      BY <1>2, <1>3, <2>1, <3>1
  <2> QED
    BY <2>2, <2>3
<1>6. a \o b = d
  BY <1>3, <1>4, <1>5, SeqEqual
<1> QED
  BY <1>6 DEF a, b, d

\* More atoms of the open segment.
LEMMA CollectMore ==
  ASSUME NEW c \in Seq(Atoms), NEW cuts, NEW from \in Nat,
         NEW k \in from..Len(c), NEW m \in k..Len(c), NEW segs, NEW cur,
         Collected(c, cuts, from, k, segs, cur)
  PROVE  Collected(c, cuts, from, m, segs, cur \o SubSeq(c, k + 1, m))
BY PartsJoin DEF Collected

\* Atoms that complete a lexeme.
LEMMA LexemeScans ==
  ASSUME NEW c \in Seq(Atoms), NEW i \in Nat, NEW k \in i..Len(c), NEW m \in k..Len(c),
         NEW cuts \in PrefixReadings(c)[i], NEW from \in 0..i, NEW segs, NEW cur,
         Collected(c, cuts, from, k, segs, cur),
         i < m, Lexeme(c, i, m), i + 1 < m \/ c[m] \notin Separators
  PROVE  Scanned(c, m, "none", segs, cur \o SubSeq(c, k + 1, m))
<1> DEFINE more == cur \o SubSeq(c, k + 1, m)
<1>1. m \in 1..Len(c) /\ m \in 0..m /\ from \in 0..m /\ from \in Nat /\ k \in from..Len(c)
  OBVIOUS
<1>2. Collected(c, cuts, from, m, segs, more)
  BY <1>1, CollectMore
<1> HIDE DEF more
<1>3. /\ cuts \cup {m} \in PrefixReadings(c)[m]
      /\ Collected(c, cuts \cup {m}, from, m, segs, more)
  BY <1>1, <1>2, LexemeCollects
<1>4. Within(c, m, m, "none")
  BY DEF Within
<1>5. Scanned(c, m, "none", segs, more)
  BY <1>1, <1>3, <1>4 DEF Scanned
<1> QED
  BY <1>5 DEF more

\* Atoms that leave a string open, or open one.
LEMMA OpenScans ==
  ASSUME NEW c \in Seq(Atoms), NEW i \in Nat, NEW k \in i..Len(c), NEW m \in k..Len(c),
         NEW cuts \in PrefixReadings(c)[i], NEW from \in 0..i, NEW segs, NEW cur,
         Collected(c, cuts, from, k, segs, cur),
         NEW q, Within(c, i, m, q)
  PROVE  Scanned(c, m, q, segs, cur \o SubSeq(c, k + 1, m))
<1>1. i \in 0..m /\ from \in Nat /\ k \in from..Len(c)
  OBVIOUS
<1>2. Collected(c, cuts, from, m, segs, cur \o SubSeq(c, k + 1, m))
  BY <1>1, CollectMore
<1> QED
  BY <1>1, <1>2 DEF Scanned

-----------------------------------------------------------------------------
(* The steps of the scanner.                                               *)

\* Nothing is read yet.
LEMMA ScanStarts ==
  ASSUME NEW c \in Seq(Atoms)
  PROVE  Scanned(c, 0, "none", << >>, << >>)
<1>1. {0} \in PrefixReadings(c)[0]
  BY ReadingCases
<1>2. Bars(c, {0}) = {}
  BY DEF Bars
<1>3. PiecesTo(c, {}, {}) = << >>
  <2>1. {k \in {} : PieceTo(c, {}, k) # << >>} = {}
    OBVIOUS
  <2>2. Cardinality({}) = 0
    BY FS_EmptySet
  <2>3. InOrder({}) = << >>
    BY <2>2 DEF InOrder
  <2> QED
    BY <2>1, <2>3 DEF PiecesTo
<1>4. SubSeq(c, 1, 0) = << >>
  BY SubSeqEmpty
<1>5. Collected(c, {0}, 0, 0, << >>, << >>)
  <2>1. 0 + 1 = 1 /\ 0 \in {} \cup {0} /\ \A b \in {} : b <= 0
    OBVIOUS
  <2> QED
    BY <1>2, <1>3, <1>4, <2>1 DEF Collected
<1>6. Within(c, 0, 0, "none")
  BY DEF Within
<1> QED
  BY <1>1, <1>5, <1>6 DEF Scanned

\* A backslash in a double-quoted string, and the atom after it.
LEMMA EscapeInQuotes ==
  ASSUME NEW c \in Seq(Atoms), NEW i \in Nat, NEW k \in Nat, k < Len(c),
         c[k + 1] = "\\", Within(c, i, k, "double")
  PROVE  Within(c, i, IF k + 2 <= Len(c) THEN k + 2 ELSE Len(c), "double")
<1>0. Len(c) \in Nat
  OBVIOUS
<1>t. i < k /\ k < Len(c)
  BY DEF Within
<1>1. i < k /\ c[i + 1] = "\"" /\ \A m \in i + 2..k : ~ Closes(c, i, m)
  BY DEF Within
<1>2. PICK n \in 0..k - i - 1 : RunBefore(c, i, k + 1, n) /\ n % 2 = 0
  BY DEF Within
<1>3. ~ Closes(c, i, k + 1)
  <2>1. k + 1 \in i + 2..Len(c)
    BY <1>0, <1>t
  <2> QED
    BY <1>2, <2>1, ClosesByRun
<1>4. CASE k + 2 > Len(c)
  <2>1. Len(c) = k + 1
    BY <1>0, <1>4
  <2>2. \A m \in i + 2..k + 1 : m \in i + 2..k \/ m = k + 1
    OBVIOUS
  <2>3. i < k + 1 /\ ~ (k + 1 < Len(c)) /\ ~ (k + 2 <= Len(c))
    BY <1>0, <1>t, <2>1
  <2>4. Within(c, i, k + 1, "double")
    BY <1>1, <1>3, <2>2, <2>3 DEF Within
  <2> QED
    BY <2>1, <2>3, <2>4
<1>5. CASE k + 2 <= Len(c)
  <2>1. RunBefore(c, i, k + 2, n + 1)
    <3>1. n + 1 \in 0..(k + 2) - i - 2
      BY <1>t, <1>2
    <3>2. \A m \in (k + 2) - (n + 1)..(k + 2) - 1 : m = k + 1 \/ m \in (k + 1) - n..(k + 1) - 1
      BY <1>2
    <3>3. (k + 2) - (n + 1) - 1 = (k + 1) - n - 1
      BY <1>2
    <3> QED
      BY <1>2, <3>1, <3>2, <3>3 DEF RunBefore
  <2>2. ~ Closes(c, i, k + 2)
    <3>1. k + 2 \in i + 2..Len(c)
      BY <1>0, <1>t, <1>5
    <3>2. (n + 1) % 2 # 0
      BY <1>2
    <3> QED
      BY <2>1, <3>1, <3>2, ClosesByRun
  <2>3. \A m \in i + 2..k + 2 : m \in i + 2..k \/ m = k + 1 \/ m = k + 2
    OBVIOUS
  <2>4. k + 2 < Len(c) => \E e \in 0..(k + 2) - i - 1 : /\ RunBefore(c, i, (k + 2) + 1, e)
                                                        /\ e % 2 = 0
    <3>1. CASE c[k + 2] = "\\"
      <4>1. n + 2 \in 0..((k + 2) + 1) - i - 2 /\ n + 2 \in 0..(k + 2) - i - 1
        BY <1>t, <1>2
      <4>2. \A m \in ((k + 2) + 1) - (n + 2)..((k + 2) + 1) - 1 :
              m = k + 2 \/ m \in (k + 2) - (n + 1)..(k + 2) - 1
        BY <1>2
      <4>3. ((k + 2) + 1) - (n + 2) - 1 = (k + 2) - (n + 1) - 1
        BY <1>2
      <4>4. RunBefore(c, i, (k + 2) + 1, n + 2)
        BY <2>1, <3>1, <4>1, <4>2, <4>3 DEF RunBefore
      <4>5. (n + 2) % 2 = 0
        BY <1>2
      <4> QED
        BY <4>1, <4>4, <4>5
    <3>2. CASE c[k + 2] # "\\"
      <4>1. 0 \in 0..((k + 2) + 1) - i - 2 /\ 0 \in 0..(k + 2) - i - 1
        BY <1>t
      <4>2. RunBefore(c, i, (k + 2) + 1, 0)
        <5>1. ((k + 2) + 1) - 0 - 1 = k + 2
          OBVIOUS
        <5>2. \A m \in ((k + 2) + 1) - 0..((k + 2) + 1) - 1 : FALSE
          OBVIOUS
        <5> QED
          BY <3>2, <4>1, <5>1, <5>2 DEF RunBefore
      <4>3. 0 % 2 = 0
        OBVIOUS
      <4> QED
        BY <4>1, <4>2, <4>3
    <3> QED
      BY <3>1, <3>2
  <2>5. i < k + 2
    BY <1>t
  <2> QED
    BY <1>1, <1>3, <1>5, <2>2, <2>3, <2>4, <2>5 DEF Within
<1> QED
  BY <1>0, <1>4, <1>5

\* Escape: a pair, a last backslash, or two atoms of an open string.
LEMMA EscapeScans ==
  ASSUME NEW c \in Seq(Atoms), NEW k \in Nat, k < Len(c), c[k + 1] = "\\",
         NEW q \in {"none", "double"}, NEW segs, NEW cur, Scanned(c, k, q, segs, cur)
  PROVE  LET m == IF k + 2 <= Len(c) THEN k + 2 ELSE Len(c)
         IN  Scanned(c, m, q, segs, cur \o SubSeq(c, k + 1, m))
<1> DEFINE m == IF k + 2 <= Len(c) THEN k + 2 ELSE Len(c)
<1>1. PICK i \in 0..k : \E cuts \in PrefixReadings(c)[i] : \E from \in 0..i :
         Collected(c, cuts, from, k, segs, cur) /\ Within(c, i, k, q)
  BY DEF Scanned
<1>2. PICK cuts \in PrefixReadings(c)[i] : \E from \in 0..i :
         Collected(c, cuts, from, k, segs, cur) /\ Within(c, i, k, q)
  BY <1>1
<1>3. PICK from \in 0..i : Collected(c, cuts, from, k, segs, cur) /\ Within(c, i, k, q)
  BY <1>2
<1>4. /\ i \in Nat /\ k \in i..Len(c) /\ m \in k..Len(c) /\ i < m
      /\ m = k + 2 \/ (m = k + 1 /\ m = Len(c))
      /\ m \in 1..Len(c)
  <2>1. Len(c) \in Nat /\ i \in 0..k
    OBVIOUS
  <2> QED
    BY <2>1
<1>5. CASE q = "none"
  <2>1. i = k
    BY <1>3, <1>5 DEF Within
  <2> HIDE DEF m
  <2>2. Lexeme(c, i, m)
    BY <1>4, <2>1, LexemeIs
  <2>3. i + 1 < m \/ c[m] \notin Separators
    <3>1. m = k + 1 => c[m] = "\\"
      OBVIOUS
    <3>2. "\\" \notin Separators
      BY DEF Separators
    <3>3. m = k + 2 => i + 1 < m
      BY <2>1
    <3> QED
      BY <1>4, <3>1, <3>2, <3>3
  <2>4. Scanned(c, m, "none", segs, cur \o SubSeq(c, k + 1, m))
    BY <1>3, <1>4, <2>2, <2>3, LexemeScans
  <2> QED
    BY <1>5, <2>4 DEF m
<1>6. CASE q = "double"
  <2>1. Within(c, i, m, "double")
    BY <1>3, <1>4, <1>6, EscapeInQuotes
  <2> HIDE DEF m
  <2>2. Scanned(c, m, q, segs, cur \o SubSeq(c, k + 1, m))
    BY <1>3, <1>4, <1>6, <2>1, OpenScans
  <2> QED
    BY <2>2 DEF m
<1> QED
  BY <1>5, <1>6

\* Any other single atom: what it does to the open quote.
After(q, a) ==
  IF a = "'" /\ q # "double" THEN IF q = "single" THEN "none" ELSE "single"
  ELSE IF a = "\"" /\ q # "single" THEN IF q = "double" THEN "none" ELSE "double"
  ELSE q

\* SingleQuote, DoubleQuote and Collect: one atom of a lexeme or of a string.
LEMMA AtomScans ==
  ASSUME NEW c \in Seq(Atoms), NEW k \in Nat, k < Len(c),
         NEW q \in {"none", "single", "double"},
         c[k + 1] = "\\" => q = "single",
         c[k + 1] \in Separators => q # "none",
         NEW segs, NEW cur, Scanned(c, k, q, segs, cur)
  PROVE  Scanned(c, k + 1, After(q, c[k + 1]), segs, cur \o SubSeq(c, k + 1, k + 1))
<1> DEFINE m == k + 1
           a == c[k + 1]
<1>1. PICK i \in 0..k : \E cuts \in PrefixReadings(c)[i] : \E from \in 0..i :
         Collected(c, cuts, from, k, segs, cur) /\ Within(c, i, k, q)
  BY DEF Scanned
<1>2. PICK cuts \in PrefixReadings(c)[i] : \E from \in 0..i :
         Collected(c, cuts, from, k, segs, cur) /\ Within(c, i, k, q)
  BY <1>1
<1>3. PICK from \in 0..i : Collected(c, cuts, from, k, segs, cur) /\ Within(c, i, k, q)
  BY <1>2
<1>4. /\ i \in Nat /\ k \in i..Len(c) /\ m \in k..Len(c) /\ i < m /\ m \in 1..Len(c)
      /\ i <= k /\ Len(c) \in Nat /\ m \in Nat
  <2>1. Len(c) \in Nat /\ i \in 0..k
    OBVIOUS
  <2> QED
    BY <2>1
<1>5. ASSUME Lexeme(c, i, m), i + 1 < m \/ c[m] \notin Separators
      PROVE  Scanned(c, m, "none", segs, cur \o SubSeq(c, k + 1, m))
  <2> HIDE DEF m, a
  <2> QED
    BY <1>3, <1>4, <1>5, LexemeScans
<1>6. ASSUME NEW p, Within(c, i, m, p)
      PROVE  Scanned(c, m, p, segs, cur \o SubSeq(c, k + 1, m))
  <2> HIDE DEF m, a
  <2> QED
    BY <1>3, <1>4, <1>6, OpenScans
<1>7. CASE q = "none"
  <2>1. i = k /\ a # "\\" /\ a \notin Separators
    BY <1>3, <1>7 DEF Within
  <2>2. CASE a \notin Marks
    <3>1. Lexeme(c, i, m)
      BY <1>4, <2>1, <2>2, LexemeIs
    <3>2. After(q, a) = "none"
      BY <1>7, <2>2 DEF After, Marks
    <3> QED
      BY <1>5, <2>1, <3>1, <3>2
  <2>3. CASE a = "'"
    <3>1. \A e \in i + 2..m : FALSE
      BY <2>1
    <3>2. Within(c, i, m, "single")
      BY <1>4, <2>1, <2>3, <3>1 DEF Within
    <3>3. After(q, a) = "single"
      BY <1>7, <2>3 DEF After
    <3> QED
      BY <1>6, <3>2, <3>3
  <2>4. CASE a = "\""
    <3>1. \A e \in i + 2..m : FALSE
      BY <2>1
    <3>2. 0 \in 0..m - i - 1 /\ 0 % 2 = 0 /\ RunBefore(c, i, m + 1, 0)
      <4>1. 0 \in 0..m - i - 1 /\ 0 \in 0..(m + 1) - i - 2 /\ (m + 1) - 0 - 1 = k + 1
        BY <1>4, <2>1
      <4>2. \A e \in (m + 1) - 0..(m + 1) - 1 : FALSE
        BY <1>4
      <4>3. 0 % 2 = 0 /\ "\"" # "\\"
        OBVIOUS
      <4> QED
        BY <2>4, <4>1, <4>2, <4>3 DEF RunBefore
    <3>3. Within(c, i, m, "double")
      BY <1>4, <2>1, <2>4, <3>1, <3>2 DEF Within
    <3>4. After(q, a) = "double"
      BY <1>7, <2>4 DEF After
    <3> QED
      BY <1>6, <3>3, <3>4
  <2> QED
    BY <2>1, <2>2, <2>3, <2>4 DEF Marks
<1>8. CASE q = "single"
  <2>1. i < k /\ c[i + 1] = "'" /\ \A e \in i + 2..k : c[e] # "'"
    BY <1>3, <1>8 DEF Within
  <2>2. CASE a = "'"
    <3>1. Lexeme(c, i, m) /\ i + 1 < m
      <4>1. i + 1 < m /\ m - 1 = k
        BY <1>4, <2>1
      <4> QED
        BY <1>4, <2>1, <2>2, <4>1, LexemeIs
    <3>2. After(q, a) = "none"
      BY <1>8, <2>2 DEF After
    <3> QED
      BY <1>5, <3>1, <3>2
  <2>3. CASE a # "'"
    <3>1. \A e \in i + 2..m : e \in i + 2..k \/ e = m
      BY <1>4
    <3>2. Within(c, i, m, "single")
      BY <1>4, <2>1, <2>3, <3>1 DEF Within
    <3>3. After(q, a) = "single"
      BY <1>8, <2>3 DEF After
    <3> QED
      BY <1>6, <3>2, <3>3
  <2> QED
    BY <2>2, <2>3
<1>9. CASE q = "double"
  <2>t. i < k
    BY <1>3, <1>9 DEF Within
  <2>1. c[i + 1] = "\"" /\ \A e \in i + 2..k : ~ Closes(c, i, e)
    BY <1>3, <1>9 DEF Within
  <2>2. PICK n \in 0..k - i - 1 : RunBefore(c, i, k + 1, n) /\ n % 2 = 0
    BY <1>3, <1>9 DEF Within
  <2>3. m \in i + 2..Len(c)
    BY <1>4, <2>t
  <2>4. Closes(c, i, m) <=> a = "\""
    BY <1>4, <2>2, <2>3, ClosesByRun
  <2>5. CASE a = "\""
    <3>1. Lexeme(c, i, m) /\ i + 1 < m
      <4>1. i + 1 < m /\ m - 1 = k
        BY <1>4, <2>t
      <4> QED
        BY <1>4, <2>1, <2>4, <2>5, <4>1, LexemeIs
    <3>2. After(q, a) = "none"
      BY <1>9, <2>5 DEF After
    <3> QED
      BY <1>5, <3>1, <3>2
  <2>6. CASE a # "\""
    <3>1. \A e \in i + 2..m : e \in i + 2..k \/ e = m
      BY <1>4
    <3>2. 0 \in 0..m - i - 1 /\ 0 % 2 = 0 /\ RunBefore(c, i, m + 1, 0)
      <4>1. 0 \in 0..m - i - 1 /\ 0 \in 0..(m + 1) - i - 2 /\ (m + 1) - 0 - 1 = k + 1
        BY <1>4, <2>t
      <4>2. \A e \in (m + 1) - 0..(m + 1) - 1 : FALSE
        BY <1>4
      <4>3. 0 % 2 = 0 /\ a # "\\"
        BY <1>9
      <4> QED
        BY <4>1, <4>2, <4>3 DEF RunBefore
    <3>3. Within(c, i, m, "double")
      BY <1>4, <2>1, <2>4, <2>6, <3>1, <3>2 DEF Within
    <3>4. After(q, a) = "double"
      BY <1>9, <2>6 DEF After
    <3> QED
      BY <1>6, <3>3, <3>4
  <2> QED
    BY <2>5, <2>6
<1> QED
  BY <1>7, <1>8, <1>9

\* Nothing to strip.
LEMMA NothingToClose ==
  ASSUME NEW segs
  PROVE  Closed(segs, << >>) = segs
<1>1. Len(<< >>) = 0 /\ 1..0 = {}
  OBVIOUS
<1>2. {k \in 1..Len(<< >>) : << >>[k] \notin Blank} = {}
  BY <1>1
<1>3. Strip(<< >>) = << >>
  BY <1>2 DEF Strip
<1> QED
  BY <1>3 DEF Closed

\* Separate: one bar, or two with nothing between them.
LEMMA SeparatorScans ==
  ASSUME NEW c \in Seq(Atoms), NEW k \in Nat, k < Len(c), c[k + 1] \in Separators,
         NEW segs, NEW cur, Scanned(c, k, "none", segs, cur)
  PROVE  /\ Scanned(c, k + 1, "none", Closed(segs, cur), << >>)
         /\ k + 1 < Len(c) /\ c[k + 2] = c[k + 1]
              => Scanned(c, k + 2, "none", Closed(segs, cur), << >>)
<1>0. Len(c) \in Nat
  OBVIOUS
<1>1. ASSUME NEW h \in Nat, h < Len(c), c[h + 1] \in Separators,
             NEW ss, NEW s, Scanned(c, h, "none", ss, s)
      PROVE  Scanned(c, h + 1, "none", Closed(ss, s), << >>)
  <2>1. PICK i \in 0..h : \E cuts \in PrefixReadings(c)[i] : \E from \in 0..i :
           Collected(c, cuts, from, h, ss, s) /\ Within(c, i, h, "none")
    BY <1>1 DEF Scanned
  <2>2. i = h
    BY <2>1 DEF Within
  <2>3. PICK cuts \in PrefixReadings(c)[h] : \E from \in 0..h :
           Collected(c, cuts, from, h, ss, s)
    BY <2>1, <2>2
  <2>4. PICK from \in 0..h : Collected(c, cuts, from, h, ss, s)
    BY <2>3
  <2>5. /\ cuts \cup {h + 1} \in PrefixReadings(c)[h + 1]
        /\ Collected(c, cuts \cup {h + 1}, h + 1, h + 1, Closed(ss, s), << >>)
    BY <1>1, <2>4, SeparatorCloses
  <2>6. Within(c, h + 1, h + 1, "none")
    BY DEF Within
  <2>7. h + 1 \in 0..h + 1
    OBVIOUS
  <2> QED
    BY <2>5, <2>6, <2>7 DEF Scanned
<1>2. Scanned(c, k + 1, "none", Closed(segs, cur), << >>)
  BY <1>1
<1>3. ASSUME k + 1 < Len(c), c[k + 2] = c[k + 1]
      PROVE  Scanned(c, k + 2, "none", Closed(segs, cur), << >>)
  <2>1. k + 1 \in Nat /\ (k + 1) + 1 = k + 2
    OBVIOUS
  <2>2. Scanned(c, (k + 1) + 1, "none", Closed(Closed(segs, cur), << >>), << >>)
    <3> DEFINE ss == Closed(segs, cur)
    <3> HIDE DEF ss
    <3>1. Scanned(c, k + 1, "none", ss, << >>)
      BY <1>2 DEF ss
    <3>2. c[(k + 1) + 1] \in Separators
      BY <1>3, <2>1
    <3>3. Scanned(c, (k + 1) + 1, "none", Closed(ss, << >>), << >>)
      BY <1>1, <1>3, <2>1, <3>1, <3>2
    <3> QED
      BY <3>3 DEF ss
  <2> QED
    BY <2>1, <2>2, NothingToClose
<1> QED
  BY <1>2, <1>3

\* At the end: outside quotes the segments are those of a reading, and a
\* command with an open quote has none.
LEMMA EndScans ==
  ASSUME NEW c \in Seq(Atoms), NEW q \in {"none", "single", "double"},
         NEW segs, NEW cur, Scanned(c, Len(c), q, segs, cur)
  PROVE  /\ q = "none" => \E r \in Readings(c) : Closed(segs, cur) = Pieces(c, r)
         /\ q # "none" => Readings(c) = {}
<1> DEFINE n == Len(c)
<1>0. n \in Nat /\ Readings(c) = PrefixReadings(c)[n]
  BY PrefixReadingsAre
<1>1. PICK i \in 0..n : \E cuts \in PrefixReadings(c)[i] : \E from \in 0..i :
         Collected(c, cuts, from, n, segs, cur) /\ Within(c, i, n, q)
  BY DEF Scanned
<1>2. PICK cuts \in PrefixReadings(c)[i] : \E from \in 0..i :
         Collected(c, cuts, from, n, segs, cur) /\ Within(c, i, n, q)
  BY <1>1
<1>3. PICK from \in 0..i : Collected(c, cuts, from, n, segs, cur) /\ Within(c, i, n, q)
  BY <1>2
<1>4. CASE q = "none"
  <2>1. i = n
    BY <1>3, <1>4 DEF Within
  <2>2. Closed(segs, cur) = Pieces(c, cuts)
    BY <1>3, EndCloses
  <2> QED
    BY <1>0, <1>2, <1>4, <2>1, <2>2
<1>5. CASE q # "none"
  <2>1. i < n
    BY <1>3, <1>5 DEF Within
  <2>2. ASSUME NEW j \in i + 1..n
        PROVE  ~ Lexeme(c, i, j)
    <3>1. i \in Nat /\ j \in 1..n /\ i < j /\ (i + 1 < j => j \in i + 2..n)
      BY <1>0
    <3>2. \/ /\ c[i + 1] = "'"
             /\ \A m \in i + 2..n : c[m] # "'"
          \/ /\ c[i + 1] = "\""
             /\ \A m \in i + 2..n : ~ Closes(c, i, m)
      BY <1>3, <1>5 DEF Within
    <3> QED
      BY <3>1, <3>2, LexemeIs DEF Marks
  <2>3. PrefixReadings(c)[i] # {} /\ i \in Nat
    BY <1>0, <1>2
  <2>4. Readings(c) = {}
    BY <2>1, <2>2, <2>3, StuckHasNoReading
  <2> QED
    BY <1>5, <2>4
<1> QED
  BY <1>4, <1>5

\* A command has one reading at most, and the empty one is read.
LEMMA ReadingsAgree ==
  ASSUME NEW c \in Seq(Atoms)
  PROVE  /\ \A r, s \in Readings(c) : r = s
         /\ c = << >> => Readings(c) # {}
<1>1. Len(c) \in 0..Len(c) /\ Readings(c) = PrefixReadings(c)[Len(c)]
  BY PrefixReadingsAre
<1>2. c = << >> => Readings(c) = {{0}}
  <2>1. c = << >> => Len(c) = 0
    OBVIOUS
  <2> QED
    BY <1>1, <2>1, ReadingCases
<1> QED
  BY <1>1, <1>2, OneReading

\* What is stripped is a string of atoms.
LEMMA StripType ==
  ASSUME NEW s \in Seq(Atoms)
  PROVE  Strip(s) \in Seq(Atoms)
<1> DEFINE n    == Len(s)
           kept == {k \in 1..n : s[k] \notin Blank}
<1>0. n \in Nat
  OBVIOUS
<1>1. CASE kept = {}
  BY <1>1 DEF Strip
<1>2. CASE kept # {}
  <2>1. kept \in SUBSET (1..n) /\ kept \in SUBSET (0..n)
    OBVIOUS
  <2>2. Max(kept) \in kept
    <3> HIDE DEF kept, n
    <3> QED
      BY <1>0, <1>2, <2>1, FiniteHasGreatest
  <2>3. Min(kept) \in kept
    <3> HIDE DEF kept, n
    <3> QED
      BY <1>0, <1>2, <2>1, <2>2, MinIsLeast
  <2>4. Min(kept) \in 1..n /\ Max(kept) \in 1..n
    BY <2>1, <2>2, <2>3
  <2> HIDE DEF kept
  <2>5. SubSeq(s, Min(kept), Max(kept)) \in Seq(Atoms)
    <3>1. \A k \in Min(kept)..Max(kept) : s[k] \in Atoms
      BY <2>4
    <3> QED
      BY <2>4, <3>1, SubSeqProperties
  <2> QED
    BY <1>2, <2>5 DEF Strip, kept
<1> QED
  BY <1>1, <1>2

-----------------------------------------------------------------------------
(* The verdict on a segment.                                               *)

\* The fold answers one of its arguments, and never the milder one.
LEMMA WorseIsWorse ==
  ASSUME NEW a \in Verdicts, NEW b \in Verdicts
  PROVE  /\ Worse(a, b) \in {a, b}
         /\ "deny" \in {a, b} => Worse(a, b) = "deny"
         /\ Worse(a, b) = "allow" => a = "allow" /\ b = "allow"
BY DEF Worse, Verdicts

\* The verdict on a segment is a verdict.
LEMMA SegmentVerdictIsVerdict ==
  ASSUME NEW segs, NEW i
  PROVE  SegmentVerdict(segs, i) \in Verdicts
<1>1. DenyVerdict(segs, i) \in {"none", "ask", "deny"}
  BY DEF DenyVerdict
<1> QED
  BY <1>1, TablesAssumption DEF SegmentVerdict, Verdicts

\* A segment that a hard rule matches is denied: hard rules come first, and
\* the special case of crontab is no case of theirs.
LEMMA HardRuleDenies ==
  ASSUME NEW segs, NEW i, NEW k \in 1..Len(DenyRules),
         DenyRules[k].hard,
         Tokenizes(segs[i]),
         Name(Tokenize(segs[i])) # "",
         Matches(DenyRules[k], Tokenize(segs[i]))
  PROVE  SegmentVerdict(segs, i) = "deny"
<1> DEFINE tokens  == Tokenize(segs[i])
           n       == Len(DenyRules)
           matched == {j \in 1..n : Matches(DenyRules[j], tokens)}
<1>1. k \in matched /\ matched \in SUBSET (1..n)
  OBVIOUS
<1>2. Min(matched) \in matched /\ Min(matched) \in 1..k
  <2>1. n \in Nat
    BY TablesAssumption
  <2> HIDE DEF n, matched
  <2> QED
    BY <1>1, <2>1, MinIsLeast
<1>3. DenyRules[Min(matched)].hard
  BY <1>2, TablesAssumption
<1>4. Name(tokens) # "crontab"
  <2>1. DenyRules[k].cmds # {} /\ "crontab" \notin DenyRules[k].cmds
    BY TablesAssumption
  <2>2. DenyRules[k].cmds = {} \/ Name(tokens) \in DenyRules[k].cmds
    BY DEF Matches
  <2> QED
    BY <2>1, <2>2
<1>5. matched # {}
  BY <1>1
<1>6. DenyVerdict(segs, i) = "deny"
  BY <1>3, <1>4, <1>5 DEF DenyVerdict
<1> QED
  BY <1>6 DEF SegmentVerdict

-----------------------------------------------------------------------------
(* The inductive invariant of the fold.                                    *)

\* The verdict so far is no milder than that on any segment judged so far.
Folded ==
  /\ verdict \in Verdicts
  /\ judged \in Nat
  /\ \A i \in 1..judged :
       /\ SegmentVerdict(segments, i) = "deny" => verdict = "deny"
       /\ verdict = "allow" => SegmentVerdict(segments, i) = "allow"

\* Nothing is judged before the segments are known; an answer comes after the
\* last one, or is the "ask" of a command that cannot be read.
Stages ==
  /\ pc \in {"split", "detect"} => judged = 0
  /\ pc = "done" => \/ judged = Len(segments)
                    \/ /\ verdict = "ask"
                       /\ quote # "none" \/ Bypasses(cmd, segments)

IInv == Folded /\ Stages

\* The invariant holds when classify is called.
LEMMA InitIInv == Init => IInv
BY DEF Init, IInv, Folded, Stages, Verdicts

\* A step of the scanner leaves verdict and count alone.
LEMMA ScanKeeps ==
  ASSUME IInv, pc = "split", pc' = pc, judged' = judged, verdict' = verdict
  PROVE  IInv'
BY DEF IInv, Folded, Stages

\* Every step preserves the invariant.
LEMMA NextIInv == IInv /\ [Next]_vars => IInv'
<1> SUFFICES ASSUME IInv, [Next]_vars PROVE IInv'
  OBVIOUS
<1>1. CASE Escape
  BY <1>1, ScanKeeps DEF Escape, Reading
<1>2. CASE SingleQuote \/ DoubleQuote
  BY <1>2, ScanKeeps DEF SingleQuote, DoubleQuote, Turn, Reading
<1>3. CASE Separate
  BY <1>3, ScanKeeps DEF Separate, Reading
<1>4. CASE Collect
  BY <1>4, ScanKeeps DEF Collect, Reading
<1>5. CASE EndOfCommand
  <2>1. judged = 0 /\ judged' = 0
    BY <1>5 DEF EndOfCommand, IInv, Stages
  <2>2. CASE quote # "none"
    BY <1>5, <2>1, <2>2 DEF EndOfCommand, IInv, Folded, Stages, Verdicts
  <2>3. CASE quote = "none"
    BY <1>5, <2>1, <2>3 DEF EndOfCommand, IInv, Folded, Stages
  <2> QED
    BY <2>2, <2>3
<1>6. CASE Detect
  <2>1. judged = 0 /\ judged' = 0 /\ UNCHANGED <<cmd, segments>>
    BY <1>6 DEF Detect, IInv, Stages
  <2>2. CASE Bypasses(cmd, segments)
    <3>1. pc' = "done" /\ verdict' = "ask" /\ Bypasses(cmd, segments)'
      BY <1>6, <2>1, <2>2 DEF Detect, Bypasses
    <3> QED
      BY <2>1, <3>1 DEF IInv, Folded, Stages, Verdicts
  <2>3. CASE ~ Bypasses(cmd, segments)
    <3>1. pc' = "judge" /\ verdict' = verdict
      BY <1>6, <2>3 DEF Detect
    <3> QED
      BY <2>1, <3>1 DEF IInv, Folded, Stages
  <2> QED
    BY <2>2, <2>3
<1>7. CASE Judge
  <2> DEFINE v == SegmentVerdict(segments, judged + 1)
  <2>1. /\ pc' = "judge"
        /\ segments' = segments
        /\ judged' = judged + 1
        /\ verdict' = Worse(verdict, v)
    BY <1>7 DEF Judge
  <2>2. v \in Verdicts /\ verdict \in Verdicts /\ judged \in Nat
    BY SegmentVerdictIsVerdict DEF IInv, Folded
  <2> HIDE DEF v
  <2>3. /\ verdict' \in {verdict, v}
        /\ verdict = "deny" \/ v = "deny" => verdict' = "deny"
        /\ verdict' = "allow" => verdict = "allow" /\ v = "allow"
    BY <2>1, <2>2, WorseIsWorse
  <2>4. ASSUME NEW i \in 1..judged'
        PROVE  /\ SegmentVerdict(segments', i) = "deny" => verdict' = "deny"
               /\ verdict' = "allow" => SegmentVerdict(segments', i) = "allow"
    <3>0. SegmentVerdict(segments', i) = SegmentVerdict(segments, i)
      BY <2>1
    <3>1. CASE i = judged + 1
      BY <2>3, <3>0, <3>1 DEF v
    <3>2. CASE i \in 1..judged
      BY <2>3, <3>0, <3>2 DEF IInv, Folded
    <3> QED
      BY <2>1, <2>2, <3>1, <3>2
  <2>5. Folded'
    BY <2>1, <2>2, <2>3, <2>4 DEF Folded
  <2> QED
    BY <2>1, <2>5 DEF IInv, Stages
<1>8. CASE Answer
  BY <1>8 DEF Answer, IInv, Folded, Stages
<1>9. CASE Answered \/ UNCHANGED vars
  <2>1. UNCHANGED vars
    BY <1>9 DEF Answered
  <2>2. /\ UNCHANGED <<cmd, pc, quote, judged, verdict, segments>>
        /\ Bypasses(cmd, segments) => Bypasses(cmd, segments)'
    BY <2>1 DEF vars, Bypasses
  <2> QED
    BY <2>2 DEF IInv, Folded, Stages
<1> QED
  BY <1>1, <1>2, <1>3, <1>4, <1>5, <1>6, <1>7, <1>8, <1>9 DEF Next

\* The inductive invariant holds in every reachable state.
THEOREM Invariance == Spec => []IInv
BY InitIInv, NextIInv, PTL DEF Spec

-----------------------------------------------------------------------------
(* The inductive invariant of the reading.                                 *)

\* The segments are the pieces of a reading; a blank command has one, empty.
Settled(c, segs) ==
  \E r \in Readings(c) :
    segs = IF Pieces(c, r) = << >> THEN << << >> >> ELSE Pieces(c, r)

\* Until the end of the command the scanner follows a reading of it; what is
\* judged is that reading, with no bypass in it; a command that is answered
\* was read so, or is asked about, and an open quote means it has no reading.
ReadInv ==
  /\ cmd \in Seq(Atoms)
  /\ at \in 0..Len(cmd)
  /\ quote \in {"none", "single", "double"}
  /\ pc = "split" => Scanned(cmd, at, quote, segments, current)
  /\ pc \in {"detect", "judge"} => quote = "none" /\ Settled(cmd, segments)
  /\ pc = "judge" => ~ Bypasses(cmd, segments)
  /\ pc = "done" => \/ cmd = << >>
                    \/ verdict = "ask"
                    \/ Settled(cmd, segments) /\ ~ Bypasses(cmd, segments)
  /\ pc = "done" /\ quote # "none" => Readings(cmd) = {}

\* A command that is stripped is where the scanner starts.
LEMMA InitReadInv == Init => ReadInv
<1> SUFFICES ASSUME Init PROVE ReadInv
  OBVIOUS
<1>1. cmd \in Seq(Atoms)
  <2>1. PICK c \in Commands : cmd = Strip(c)
    BY DEF Init
  <2>2. c \in Seq(Atoms)
    BY TablesAssumption
  <2> QED
    BY <2>1, <2>2, StripType
<1>2. at = 0 /\ quote = "none" /\ current = << >> /\ segments = << >>
  BY DEF Init
<1>3. 0 \in 0..Len(cmd)
  BY <1>1
<1>4. Scanned(cmd, at, quote, segments, current)
  BY <1>1, <1>2, ScanStarts
<1>5. (pc = "done" /\ cmd = << >>) \/ pc = "split"
  BY DEF Init
<1> QED
  BY <1>1, <1>2, <1>3, <1>4, <1>5 DEF ReadInv

\* A step of the scanner that follows a reading further.
LEMMA ScanReads ==
  ASSUME ReadInv, pc = "split", UNCHANGED <<cmd, pc>>,
         at' \in 0..Len(cmd), quote' \in {"none", "single", "double"},
         Scanned(cmd, at', quote', segments', current')
  PROVE  ReadInv'
BY DEF ReadInv

\* What Consume takes.
LEMMA ConsumeTakes ==
  ASSUME ReadInv, Reading, NEW k \in {1, 2}, Consume(k)
  PROVE  /\ at \in Nat /\ at < Len(cmd) /\ Len(cmd) \in Nat
         /\ at' = IF at + k <= Len(cmd) THEN at + k ELSE Len(cmd)
         /\ current' = current \o SubSeq(cmd, at + 1, at')
         /\ at' \in 0..Len(cmd)
<1>1. at \in Nat /\ Len(cmd) \in Nat /\ at < Len(cmd)
  BY DEF ReadInv, Reading
<1>2. Min({at + k, Len(cmd)}) = IF at + k <= Len(cmd) THEN at + k ELSE Len(cmd)
  BY <1>1, MinOfTwo
<1>3. at' = Min({at + k, Len(cmd)}) /\ current' = current \o SubSeq(cmd, at + 1, at')
  BY DEF Consume
<1> QED
  BY <1>1, <1>2, <1>3

\* A step that consumes one atom.
LEMMA OneAtomReads ==
  ASSUME ReadInv, Reading, Consume(1), UNCHANGED <<cmd, pc, segments>>,
         Here = "\\" => quote = "single",
         Here \in Separators => quote # "none",
         quote' = After(quote, Here)
  PROVE  ReadInv'
<1>1. at \in Nat /\ at < Len(cmd) /\ at' = at + 1 /\ at + 1 \in 0..Len(cmd)
      /\ current' = current \o SubSeq(cmd, at + 1, at + 1)
  BY ConsumeTakes
<1>2. /\ cmd \in Seq(Atoms) /\ quote \in {"none", "single", "double"}
      /\ pc = "split" /\ Scanned(cmd, at, quote, segments, current)
  BY DEF ReadInv, Reading
<1>3. Scanned(cmd, at + 1, After(quote, Here), segments,
              current \o SubSeq(cmd, at + 1, at + 1))
  BY <1>1, <1>2, AtomScans DEF Here
<1>4. quote' \in {"none", "single", "double"}
  BY <1>2 DEF After
<1> QED
  BY <1>1, <1>2, <1>3, <1>4, ScanReads

\* Every step keeps to the reading.
LEMMA NextReadInv == ReadInv /\ [Next]_vars => ReadInv'
<1> SUFFICES ASSUME ReadInv, [Next]_vars PROVE ReadInv'
  OBVIOUS
<1>0. cmd \in Seq(Atoms) /\ quote \in {"none", "single", "double"}
  BY DEF ReadInv
<1>1. CASE Escape
  <2>1. Reading /\ Here = "\\" /\ quote # "single" /\ Consume(2)
        /\ UNCHANGED <<cmd, pc, quote, segments>>
    BY <1>1 DEF Escape
  <2>2. /\ at \in Nat /\ at < Len(cmd)
        /\ at' = IF at + 2 <= Len(cmd) THEN at + 2 ELSE Len(cmd)
        /\ current' = current \o SubSeq(cmd, at + 1, at')
        /\ at' \in 0..Len(cmd)
    BY <2>1, ConsumeTakes
  <2>3. pc = "split" /\ Scanned(cmd, at, quote, segments, current)
    BY <2>1 DEF ReadInv, Reading
  <2>4. Scanned(cmd, at', quote, segments, current \o SubSeq(cmd, at + 1, at'))
    BY <1>0, <2>1, <2>2, <2>3, EscapeScans DEF Here
  <2> QED
    BY <1>0, <2>1, <2>2, <2>3, <2>4, ScanReads
<1>2. CASE SingleQuote
  <2>1. /\ Reading /\ Here = "'" /\ quote # "double" /\ Consume(1)
        /\ UNCHANGED <<cmd, pc, segments>>
        /\ quote' = IF quote = "single" THEN "none" ELSE "single"
    BY <1>2 DEF SingleQuote, Turn
  <2>2. Here # "\\" /\ Here \notin Separators /\ quote' = After(quote, Here)
    BY <2>1 DEF After, Separators
  <2> QED
    BY <2>1, <2>2, OneAtomReads
<1>3. CASE DoubleQuote
  <2>1. /\ Reading /\ Here = "\"" /\ quote # "single" /\ Consume(1)
        /\ UNCHANGED <<cmd, pc, segments>>
        /\ quote' = IF quote = "double" THEN "none" ELSE "double"
    BY <1>3 DEF DoubleQuote, Turn
  <2>2. Here # "\\" /\ Here \notin Separators /\ quote' = After(quote, Here)
    BY <2>1 DEF After, Separators
  <2> QED
    BY <2>1, <2>2, OneAtomReads
<1>4. CASE Collect
  <2>1. /\ Reading /\ Consume(1) /\ UNCHANGED <<cmd, pc, quote, segments>>
        /\ Here = "\\" => quote = "single"
        /\ Here = "'" => quote = "double"
        /\ Here = "\"" => quote = "single"
        /\ Here \in Separators => quote # "none"
    BY <1>4 DEF Collect
  <2>2. quote' = After(quote, Here)
    BY <2>1 DEF After
  <2> QED
    BY <2>1, <2>2, OneAtomReads
<1>5. CASE Separate
  <2> DEFINE twice == Here \in {"&", "|"} /\ at + 1 < Len(cmd) /\ cmd[at + 2] = Here
  <2>1. /\ Reading /\ quote = "none" /\ Here \in Separators
        /\ at' = IF twice THEN at + 2 ELSE at + 1
        /\ segments' = Closed(segments, current) /\ current' = << >>
        /\ UNCHANGED <<cmd, pc, quote>>
    BY <1>5 DEF Separate
  <2>2. /\ at \in Nat /\ at < Len(cmd) /\ Len(cmd) \in Nat
        /\ pc = "split" /\ Scanned(cmd, at, "none", segments, current)
    BY <2>1 DEF ReadInv, Reading
  <2>3. /\ Scanned(cmd, at + 1, "none", Closed(segments, current), << >>)
        /\ at + 1 < Len(cmd) /\ cmd[at + 2] = cmd[at + 1]
             => Scanned(cmd, at + 2, "none", Closed(segments, current), << >>)
    BY <1>0, <2>1, <2>2, SeparatorScans DEF Here
  <2>4. Scanned(cmd, at', quote', segments', current') /\ at' \in 0..Len(cmd)
    BY <2>1, <2>2, <2>3 DEF Here
  <2> QED
    BY <1>0, <2>1, <2>2, <2>4, ScanReads
<1>6. CASE EndOfCommand
  <2>1. pc = "split" /\ at = Len(cmd) /\ UNCHANGED <<cmd, at, quote>>
    BY <1>6 DEF EndOfCommand
  <2>2. Scanned(cmd, Len(cmd), quote, segments, current)
    BY <2>1 DEF ReadInv
  <2>3. CASE quote # "none"
    <3>1. pc' = "done" /\ verdict' = "ask"
      BY <1>6, <2>3 DEF EndOfCommand
    <3>2. Readings(cmd) = {}
      BY <1>0, <2>2, <2>3, EndScans
    <3> QED
      BY <2>1, <3>1, <3>2 DEF ReadInv
  <2>4. CASE quote = "none"
    <3>1. /\ pc' = "detect"
          /\ segments' = IF Closed(segments, current) = << >> THEN << << >> >>
                         ELSE Closed(segments, current)
      BY <1>6, <2>4 DEF EndOfCommand
    <3>2. \E r \in Readings(cmd) : Closed(segments, current) = Pieces(cmd, r)
      BY <1>0, <2>2, <2>4, EndScans
    <3>3. Settled(cmd, segments')
      BY <3>1, <3>2 DEF Settled
    <3> QED
      BY <2>1, <2>4, <3>1, <3>3 DEF ReadInv
  <2> QED
    BY <2>3, <2>4
<1>7. CASE Detect
  <2>1. pc = "detect" /\ UNCHANGED <<cmd, at, quote, segments>>
        /\ Settled(cmd, segments)
    BY <1>7 DEF Detect, ReadInv
  <2>2. quote = "none"
    BY <2>1 DEF ReadInv
  <2>3. CASE Bypasses(cmd, segments)
    <3>1. pc' = "done" /\ verdict' = "ask"
      BY <1>7, <2>3 DEF Detect
    <3> QED
      BY <2>1, <2>2, <3>1 DEF ReadInv
  <2>4. CASE ~ Bypasses(cmd, segments)
    <3>1. pc' = "judge"
      BY <1>7, <2>4 DEF Detect
    <3> QED
      BY <2>1, <2>2, <2>4, <3>1 DEF ReadInv
  <2> QED
    BY <2>3, <2>4
<1>8. CASE Judge
  BY <1>8 DEF Judge, ReadInv
<1>9. CASE Answer
  BY <1>9 DEF Answer, ReadInv
<1>10. CASE Answered \/ UNCHANGED vars
  BY <1>10 DEF Answered, vars, ReadInv
<1> QED
  BY <1>1, <1>2, <1>3, <1>4, <1>5, <1>6, <1>7, <1>8, <1>9, <1>10 DEF Next

-----------------------------------------------------------------------------
(* The theorems.                                                           *)

\* Whatever the other segments and the soft rules say, a command with a
\* segment that a hard rule matches, by the command _resolve_command finds in
\* it, is denied, unless _detect_bypass stops it before: classify combines with
\* _VERDICT_ORDER and never stops early.
THEOREM HardRulesWin == Spec => []HardRuleDecides
<1>1. IInv => HardRuleDecides
  <2> SUFFICES ASSUME IInv, pc = "done", ~ Bypasses(cmd, segments),
                      NEW i \in 1..Len(segments), NEW k \in 1..Len(DenyRules),
                      quote = "none", Tokenizes(segments[i]), DenyRules[k].hard,
                      Name(Tokenize(segments[i])) # "",
                      Matches(DenyRules[k], Tokenize(segments[i]))
               PROVE  verdict = "deny"
    BY DEF HardRuleDecides
  <2>1. SegmentVerdict(segments, i) = "deny"
    BY HardRuleDenies
  <2>2. judged = Len(segments)
    BY DEF IInv, Stages
  <2> QED
    BY <2>1, <2>2 DEF IInv, Folded
<1> QED
  BY <1>1, Invariance, PTL

\* No table of allow rules lets a segment through that _resolve_command reads as
\* "crontab -", unless a segment before it lists the old table: the check comes
\* before every rule, and its "ask" is not lowered by what comes after.
THEOREM InstallsAreSeen == Spec => []InstallsAreListedFirst
<1>1. IInv => InstallsAreListedFirst
  <2> SUFFICES ASSUME IInv, pc = "done", verdict = "allow",
                      NEW i \in 1..Len(segments),
                      Name(Tokenize(segments[i])) = "crontab",
                      Args(Tokenize(segments[i])) = <<"-">>,
                      Unlisted(segments, i)
               PROVE  FALSE
    BY DEF InstallsAreListedFirst
  <2>1. judged = Len(segments)
    BY DEF IInv, Stages
  <2>2. SegmentVerdict(segments, i) = "allow"
    BY <2>1 DEF IInv, Folded
  <2>3. DenyVerdict(segments, i) = "ask"
    BY DEF DenyVerdict
  <2>4. SegmentVerdict(segments, i) = "ask"
    BY <2>3 DEF SegmentVerdict
  <2> QED
    BY <2>2, <2>4
<1> QED
  BY <1>1, Invariance, PTL

\* The invariant of the reading holds in every reachable state.
THEOREM ReadingInvariance == Spec => []ReadInv
BY InitReadInv, NextReadInv, PTL DEF Spec

\* The scanner of _split_segments finds, for every command, the segments of its
\* one reading, and a command without one is never judged but asked about.
THEOREM ScannerReads == Spec => []SegmentsAreTheReading
<1>1. ReadInv => SegmentsAreTheReading
  <2> SUFFICES ASSUME ReadInv PROVE SegmentsAreTheReading
    OBVIOUS
  <2>0. /\ cmd \in Seq(Atoms)
        /\ \A r, s \in Readings(cmd) : r = s
        /\ cmd = << >> => Readings(cmd) # {}
    BY ReadingsAgree DEF ReadInv
  <2>1. ASSUME pc = "detect"
        PROVE  /\ Cardinality(Readings(cmd)) = 1
               /\ segments = IF Pieces(cmd, CHOOSE r \in Readings(cmd) : TRUE) = << >>
                             THEN << << >> >>
                             ELSE Pieces(cmd, CHOOSE r \in Readings(cmd) : TRUE)
    <3>1. PICK r \in Readings(cmd) :
            segments = IF Pieces(cmd, r) = << >> THEN << << >> >> ELSE Pieces(cmd, r)
      BY <2>1 DEF ReadInv, Settled
    <3>2. Readings(cmd) = {r}
      BY <2>0
    <3>3. (CHOOSE s \in Readings(cmd) : TRUE) = r
      BY <3>2
    <3>4. Cardinality(Readings(cmd)) = 1
      BY <3>2, FS_Singleton
    <3> QED
      BY <3>1, <3>3, <3>4
  <2>2. ASSUME pc = "done", Readings(cmd) = {}
        PROVE  verdict = "ask"
    BY <2>0, <2>2 DEF ReadInv, Settled
  <2> QED
    BY <2>1, <2>2 DEF SegmentsAreTheReading
<1> QED
  BY <1>1, ReadingInvariance, PTL

\* An open quote at the end is no fault of the scanner: the command has no
\* reading that it could have missed.
THEOREM OnlyUnreadableIsRefused ==
  Spec => [](pc = "done" /\ quote # "none" => Readings(cmd) = {})
<1>1. ReadInv => (pc = "done" /\ quote # "none" => Readings(cmd) = {})
  BY DEF ReadInv
<1> QED
  BY <1>1, ReadingInvariance, PTL

\* A segment the fold lets through is a no-op, or allow-listed with no deny
\* rule that matches it.
LEMMA AllowIsVetted ==
  ASSUME NEW segs, NEW i, SegmentVerdict(segs, i) = "allow", UnknownPolicy # "allow"
  PROVE  Vetted(segs[i])
<1> DEFINE tokens  == Tokenize(segs[i])
           matched == {k \in 1..Len(DenyRules) : Matches(DenyRules[k], tokens)}
<1>1. Tokenizes(segs[i])
  BY DEF SegmentVerdict
<1>2. CASE Name(tokens) = ""
  BY <1>1, <1>2 DEF SegmentVerdict, Vetted
<1>3. CASE Name(tokens) # ""
  <2>1. DenyVerdict(segs, i) \in {"none", "ask", "deny"}
    BY DEF DenyVerdict
  <2>2. DenyVerdict(segs, i) = "none" /\ Allowed(tokens)
    BY <1>1, <1>3, <2>1 DEF SegmentVerdict
  <2>3. matched = {}
    BY <2>2 DEF DenyVerdict
  <2> QED
    BY <1>1, <2>2, <2>3 DEF Vetted
<1> QED
  BY <1>2, <1>3

\* Whatever the tables and the command, what is let through was read without
\* the scanner's help, each of its segments vetted as the command that
\* _resolve_command finds in it, and none of these a shell fed by another.
THEOREM AllowedWasVetted == Spec => []AllowedIsVetted
<1>1. IInv /\ ReadInv => AllowedIsVetted
  <2> SUFFICES ASSUME IInv, ReadInv, pc = "done", verdict = "allow",
                      cmd # << >>, UnknownPolicy # "allow"
               PROVE  \E r \in Readings(cmd) :
                        LET pieces == Pieces(cmd, r)
                        IN  \A i \in 1..Len(pieces) :
                              Vetted(pieces[i]) /\ (i > 1 => ~ FedShell(pieces[i]))
    BY DEF AllowedIsVetted
  <2>1. /\ Settled(cmd, segments)
        /\ ~ Bypasses(cmd, segments)
        /\ judged = Len(segments)
        /\ \A i \in 1..judged : SegmentVerdict(segments, i) = "allow"
    BY DEF ReadInv, IInv, Stages, Folded
  <2>2. PICK r \in Readings(cmd) :
          segments = IF Pieces(cmd, r) = << >> THEN << << >> >> ELSE Pieces(cmd, r)
    BY <2>1 DEF Settled
  <2> DEFINE pieces == Pieces(cmd, r)
  <2>3. ASSUME NEW i \in 1..Len(pieces)
        PROVE  Vetted(pieces[i]) /\ (i > 1 => ~ FedShell(pieces[i]))
    <3>1. segments = pieces
      <4>1. pieces # << >>
        <5>1. Len(<< >>) = 0 /\ 1..0 = {}
          OBVIOUS
        <5> HIDE DEF pieces
        <5> QED
          BY <2>3, <5>1
      <4> QED
        BY <2>2, <4>1
    <3> HIDE DEF pieces
    <3>2. Vetted(pieces[i])
      BY <2>1, <3>1, AllowIsVetted
    <3>3. i > 1 => i \in 2..Len(pieces)
      OBVIOUS
    <3> QED
      BY <2>1, <3>1, <3>2, <3>3 DEF Bypasses
  <2> QED
    BY <2>3
<1> QED
  BY <1>1, Invariance, ReadingInvariance, PTL

-----------------------------------------------------------------------------
(* Types.                                                                  *)

\* The parts of TypeOK that neither invariant holds.
Typed ==
  /\ pc \in {"split", "detect", "judge", "done"}
  /\ current \in Seq(Atoms)
  /\ segments \in Seq(Seq(Atoms))
  /\ judged \in 0..Len(segments)

\* A segment that is closed is one of atoms.
LEMMA ClosedType ==
  ASSUME NEW segs \in Seq(Seq(Atoms)), NEW cur \in Seq(Atoms)
  PROVE  Closed(segs, cur) \in Seq(Seq(Atoms))
<1>1. Strip(cur) \in Seq(Atoms)
  BY StripType
<1> QED
  BY <1>1 DEF Closed

\* What is consumed is added to the open segment.
LEMMA ConsumeType ==
  ASSUME Typed, ReadInv, Reading, NEW k \in {1, 2}, Consume(k), UNCHANGED <<pc, segments, judged>>
  PROVE  Typed'
<1>1. /\ at \in Nat /\ at' \in 0..Len(cmd)
      /\ current' = current \o SubSeq(cmd, at + 1, at')
  BY ConsumeTakes
<1>2. cmd \in Seq(Atoms)
  BY DEF ReadInv
<1>3. SubSeq(cmd, at + 1, at') \in Seq(Atoms)
  <2>1. \A e \in at + 1..at' : cmd[e] \in Atoms
    BY <1>1, <1>2
  <2> QED
    BY <1>1, <2>1, SubSeqProperties
<1>4. current' \in Seq(Atoms)
  BY <1>1, <1>3 DEF Typed
<1> QED
  BY <1>4 DEF Typed

\* The classifier's variables keep their types; a round never goes past the
\* last segment.
THEOREM TypeCorrect == Spec => []TypeOK
<1>1. Init => Typed
  <2>1. << >> \in Seq(Atoms) /\ << >> \in Seq(Seq(Atoms)) /\ 0 \in 0..Len(<< >>)
    OBVIOUS
  <2> QED
    BY <2>1 DEF Init, Typed
<1>2. IInv /\ ReadInv /\ Typed /\ [Next]_vars => Typed'
  <2> SUFFICES ASSUME IInv, ReadInv, Typed, [Next]_vars PROVE Typed'
    OBVIOUS
  <2>0. /\ current \in Seq(Atoms) /\ segments \in Seq(Seq(Atoms))
        /\ judged \in 0..Len(segments)
    BY DEF Typed
  <2>1. CASE Escape
    BY <2>1, ConsumeType DEF Escape
  <2>2. CASE SingleQuote \/ DoubleQuote
    BY <2>2, ConsumeType DEF SingleQuote, DoubleQuote, Turn
  <2>3. CASE Collect
    BY <2>3, ConsumeType DEF Collect
  <2>4. CASE Separate
    <3>1. /\ pc = "split" /\ segments' = Closed(segments, current)
          /\ current' = << >> /\ UNCHANGED <<pc, judged>>
      BY <2>4 DEF Separate, Reading
    <3>2. segments' \in Seq(Seq(Atoms)) /\ << >> \in Seq(Atoms)
      BY <2>0, <3>1, ClosedType
    <3>3. judged' = 0 /\ 0 \in 0..Len(segments')
      BY <3>1, <3>2 DEF IInv, Stages
    <3> QED
      BY <3>1, <3>2, <3>3 DEF Typed
  <2>5. CASE EndOfCommand
    <3>1. /\ pc = "split" /\ UNCHANGED <<current, judged>>
          /\ pc' \in {"done", "detect"}
          /\ segments' \in {segments, << << >> >>, Closed(segments, current)}
      BY <2>5 DEF EndOfCommand
    <3>2. << << >> >> \in Seq(Seq(Atoms)) /\ Closed(segments, current) \in Seq(Seq(Atoms))
      BY <2>0, ClosedType
    <3>3. segments' \in Seq(Seq(Atoms))
      BY <2>0, <3>1, <3>2
    <3>4. judged' = 0 /\ 0 \in 0..Len(segments')
      BY <3>1, <3>3 DEF IInv, Stages
    <3> QED
      BY <2>0, <3>1, <3>3, <3>4 DEF Typed
  <2>6. CASE Detect
    BY <2>6, <2>0 DEF Detect, Typed
  <2>7. CASE Judge
    <3>1. /\ judged < Len(segments) /\ judged' = judged + 1
          /\ UNCHANGED <<pc, current, segments>>
      BY <2>7 DEF Judge
    <3>2. judged' \in 0..Len(segments)
      BY <2>0, <3>1
    <3> QED
      BY <3>1, <3>2 DEF Typed
  <2>8. CASE Answer
    BY <2>8, <2>0 DEF Answer, Typed
  <2>9. CASE Answered \/ UNCHANGED vars
    BY <2>9 DEF Answered, vars, Typed
  <2> QED
    BY <2>1, <2>2, <2>3, <2>4, <2>5, <2>6, <2>7, <2>8, <2>9 DEF Next
<1>3. IInv /\ ReadInv /\ Typed => TypeOK
  BY DEF IInv, Folded, ReadInv, Typed, TypeOK
<1> QED
  BY <1>1, <1>2, <1>3, Invariance, ReadingInvariance, PTL DEF Spec
=============================================================================
