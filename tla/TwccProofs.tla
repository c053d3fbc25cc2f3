------------------------------- MODULE TwccProofs -------------------------------
(***************************************************************************)
(* Proofs about Twcc: the sequence number is read back out of any header     *)
(* extension; the recorder knows which packets have come, however they were  *)
(* lost and overtaken; and a feedback, as the publisher decodes it, says of  *)
(* each packet once whether it came, and when.                               *)
(***************************************************************************)
EXTENDS Twcc, FiniteSetTheorems, WellFoundedInduction, TLAPS

-----------------------------------------------------------------------------
\* Numbers, sums and sequences.

\* A set of natural numbers that is not empty has a least one.
LEMMA LeastNat ==
    ASSUME NEW T, T \subseteq Nat, T # {}
    PROVE  \E x \in T : \A y \in T : x <= y
  <1>1. PICK x \in T : \A y \in T : ~(<<y, x>> \in OpToRel(<, Nat))
    BY NatLessThanWellFounded, WFMin
  <1>2. \A y \in T : ~(y < x)
    BY <1>1 DEF OpToRel
  <1> QED
    BY <1>2

\* A set of numbers up to n has a largest one.
LEMMA MaxIsLargest ==
    ASSUME NEW n \in Nat, NEW S, S \subseteq 1..n, S # {}
    PROVE  Max(S) \in S /\ \A y \in S : y <= Max(S)
  <1> DEFINE T == {n - y : y \in S}
  <1>1. T \subseteq Nat /\ T # {}
    <2>1. \A y \in S : y \in 1..n /\ n - y \in Nat
      OBVIOUS
    <2> QED
      BY ONLY <2>1, S # {}
  <1>2. PICK t \in T : \A u \in T : t <= u
    <2> HIDE DEF T
    <2> QED
      BY <1>1, LeastNat
  <1>3. PICK x \in S : t = n - x
    BY <1>2
  <1>4. \A y \in S : x >= y
    <2> TAKE y \in S
    <2>1. n - y \in T
      OBVIOUS
    <2>2. n - x <= n - y
      BY <1>2, <1>3, <2>1
    <2>3. x \in Int /\ y \in Int
      OBVIOUS
    <2> HIDE DEF T
    <2> QED
      BY <2>2, <2>3
  <1>5. Max(S) \in S /\ \A y \in S : Max(S) >= y
    BY <1>4 DEF Max
  <1>6. \A y \in S : y \in Int
    OBVIOUS
  <1> DEFINE m == Max(S)
  <1>7. m \in S /\ \A y \in S : m >= y
    BY ONLY <1>5
  <1> HIDE DEF m
  <1>8. m \in S /\ \A y \in S : y <= m
    BY ONLY <1>6, <1>7
  <1> QED
    BY ONLY <1>8 DEF m

\* And a smallest.
LEMMA MinIsSmallest ==
    ASSUME NEW n \in Nat, NEW S, S \subseteq 1..n, S # {}
    PROVE  Min(S) \in S /\ \A y \in S : Min(S) <= y
  <1>1. S \subseteq Nat
    OBVIOUS
  <1>2. \E x \in S : \A y \in S : x <= y
    BY <1>1, LeastNat
  <1> QED
    BY <1>2 DEF Min

\* Quotient and remainder are unique.
LEMMA ModUnique ==
    ASSUME NEW n \in Nat \ {0}, NEW a \in Int, NEW p \in Int, NEW r \in 0..n - 1, a = n * p + r
    PROVE  a % n = r
  <1> DEFINE d == a \div n
             m == a % n
  <1>1. d \in Int /\ m \in 0..n - 1 /\ a = n * d + m
    OBVIOUS
  <1> HIDE DEF d, m
  <1> DEFINE x == d - p
             y == n * x
  <1>2. x \in Int /\ y = r - m
    BY <1>1
  <1>3. -n < y /\ y < n
    BY <1>1, <1>2
  <1>4. x >= 1 => y >= n
    BY <1>2
  <1>5. x <= -1 => y <= -n
    BY <1>2
  <1>6. y \in Int
    BY <1>2
  <1> HIDE DEF x, y
  <1>7. x = 0
    BY <1>2, <1>3, <1>4, <1>5, <1>6
  <1>8. y = 0
    BY <1>7 DEF y
  <1>9. m = r
    BY <1>1, <1>2, <1>8
  <1> QED
    BY <1>9 DEF m

\* What differs by a multiple of n has the same remainder.
LEMMA ModShift ==
    ASSUME NEW n \in Nat \ {0}, NEW a \in Int, NEW k \in Int, NEW b \in Int, b = a + n * k
    PROVE  b % n = a % n
  <1> DEFINE d == a \div n
             m == a % n
  <1>1. d \in Int /\ m \in 0..n - 1 /\ a = n * d + m
    OBVIOUS
  <1> HIDE DEF d, m
  <1>2. d + k \in Int /\ b = n * (d + k) + m
    BY <1>1
  <1>3. b % n = m
    BY <1>1, <1>2, ModUnique
  <1> QED
    BY <1>3 DEF m

\* A number is its remainder and a multiple.
LEMMA ModOf ==
    ASSUME NEW n \in Nat \ {0}, NEW a \in Int
    PROVE  a % n \in 0..n - 1 /\ \E k \in Int : a = (a % n) + n * k
  <1>1. a \div n \in Int /\ a % n \in 0..n - 1 /\ a = n * (a \div n) + (a % n)
    OBVIOUS
  <1> DEFINE d == a \div n
             m == a % n
  <1>2. d \in Int /\ m \in 0..n - 1 /\ a = n * d + m
    BY <1>1
  <1> HIDE DEF d, m
  <1>3. a = m + n * d
    BY <1>2
  <1>4. m \in 0..n - 1 /\ \E k \in Int : a = m + n * k
    BY <1>2, <1>3
  <1> QED
    BY <1>4 DEF m

\* The remainder of a number that is not negative is not larger, and smaller only if the
\* number is n or more.
LEMMA ModBelow ==
    ASSUME NEW n \in Nat \ {0}, NEW a \in Nat
    PROVE  a % n <= a /\ (a < n => a % n = a)
  <1> DEFINE m == a % n
  <1>1. m \in 0..n - 1
    BY ModOf
  <1>2. a < n => m = a
    OBVIOUS
  <1> HIDE DEF m
  <1>3. m <= a
    BY <1>1, <1>2
  <1> QED
    BY <1>2, <1>3 DEF m

\* Remainders may be taken of the terms of a sum.
LEMMA ModTerms ==
    ASSUME NEW n \in Nat \ {0}, NEW a \in Int, NEW b \in Int
    PROVE  /\ ((a % n) + (b % n)) % n = (a + b) % n
           /\ ((a % n) - (b % n)) % n = (a - b) % n
           /\ ((a % n) - b) % n = (a - b) % n
           /\ (a - (b % n)) % n = (a - b) % n
           /\ ((a % n) + b) % n = (a + b) % n
           /\ ((a % n) - (b % n) + 1) % n = (a - b + 1) % n
  <1> DEFINE x == a % n
             y == b % n
  <1>1. x \in Int /\ y \in Int
    BY ModOf
  <1>2. PICK j \in Int : a = x + n * j
    BY ModOf
  <1>3. PICK k \in Int : b = y + n * k
    BY ModOf
  <1> HIDE DEF x, y
  <1>4. /\ a + b = (x + y) + n * (j + k) /\ a - b = (x - y) + n * (j - k)
        /\ a - b = (x - b) + n * j /\ a - b = (a - y) + n * (-k)
        /\ a + b = (x + b) + n * j /\ a - b + 1 = (x - y + 1) + n * (j - k)
    BY <1>1, <1>2, <1>3
  <1>5. \A p, i \in Int : (p + n * i) % n = p % n
    <2>1. ASSUME NEW p \in Int, NEW i \in Int PROVE (p + n * i) % n = p % n
      <3> DEFINE q == p + n * i
      <3>1. q \in Int /\ q = p + n * i
        OBVIOUS
      <3> HIDE DEF q
      <3>2. q % n = p % n
        BY ONLY <3>1, n \in Nat \ {0}, p \in Int, i \in Int, ModShift
      <3> QED
        BY ONLY <3>2 DEF q
    <2> QED
      BY <2>1
  <1>6. /\ x + y \in Int /\ x - y \in Int /\ x - b \in Int /\ a - y \in Int /\ x + b \in Int
        /\ x - y + 1 \in Int /\ j + k \in Int /\ j - k \in Int /\ -k \in Int
    BY <1>1
  <1>7. (a + b) % n = (x + y) % n
    BY ONLY <1>4, <1>5, <1>6
  <1>8. (a - b) % n = (x - y) % n
    BY ONLY <1>4, <1>5, <1>6
  <1> DEFINE l == -k
  <1>9. l \in Int /\ a - b = (a - y) + n * l
    BY ONLY <1>4, <1>6
  <1> HIDE DEF l
  <1>10. /\ ((x - b) + n * j) % n = (x - b) % n /\ ((a - y) + n * l) % n = (a - y) % n
         /\ ((x + b) + n * j) % n = (x + b) % n
    BY ONLY <1>5, <1>6, <1>9, j \in Int
  <1>11. (a - b) % n = (x - b) % n
    BY ONLY <1>4, <1>10
  <1>12. (a - b) % n = (a - y) % n
    BY ONLY <1>9, <1>10
  <1>13. (a + b) % n = (x + b) % n
    BY ONLY <1>4, <1>10
  <1>14. (a - b + 1) % n = (x - y + 1) % n
    BY ONLY <1>4, <1>5, <1>6
  <1> QED
    BY ONLY <1>7, <1>8, <1>11, <1>12, <1>13, <1>14 DEF x, y
\* A whole round more has the same remainder.
LEMMA ModPlus ==
    ASSUME NEW n \in Nat \ {0}, NEW a \in Int, NEW b \in Int, b = a + n
    PROVE  b % n = a % n
  <1>1. b = a + n * 1 /\ 1 \in Int
    OBVIOUS
  <1> QED
    BY <1>1, ModShift

\* g is defined by recursion on 0..n, step[i] being what is done in the i-th step.
IsRecursion(g, n, x, step) == g[0] = x /\ \A i \in 1..n : g[i] = step[i][g[i - 1]]

\* Such a function exists.
LEMMA RecursionExists ==
    ASSUME NEW T, NEW n \in Nat, NEW x \in T, NEW step \in [1..n -> [T -> T]]
    PROVE  \E g \in [0..n -> T] : IsRecursion(g, n, x, step)
  <1> DEFINE Good(m) == \E g \in [0..m -> T] : IsRecursion(g, m, x, step)
             Bad == {m \in Nat : m <= n /\ ~Good(m)}
  <1>1. Good(0)
    <2> DEFINE g == [i \in 0..0 |-> x]
    <2>1. g \in [0..0 -> T] /\ g[0] = x /\ \A i \in 1..0 : FALSE
      OBVIOUS
    <2> HIDE DEF g
    <2>2. IsRecursion(g, 0, x, step)
      BY <2>1 DEF IsRecursion
    <2> QED
      BY <2>1, <2>2
  <1>2. ASSUME NEW m \in Nat, m < n, Good(m) PROVE Good(m + 1)
    <2>1. PICK g \in [0..m -> T] : IsRecursion(g, m, x, step)
      BY <1>2
    <2> DEFINE y == step[m + 1][g[m]]
               h == [i \in 0..m + 1 |-> IF i = m + 1 THEN y ELSE g[i]]
    <2>2. y \in T
      <3>1. m + 1 \in 1..n /\ m \in 0..m
        BY <1>2
      <3> QED
        BY <3>1
    <2> HIDE DEF y
    <2>3. h \in [0..m + 1 -> T]
      BY <2>2
    <2>4. h[0] = x
      BY <2>1 DEF IsRecursion
    <2>5. ASSUME NEW i \in 1..m + 1 PROVE h[i] = step[i][h[i - 1]]
      <3>1. i - 1 \in 0..m + 1 /\ i \in 0..m + 1 /\ i - 1 # m + 1
        OBVIOUS
      <3>2. h[i - 1] = g[i - 1]
        BY <3>1
      <3>3. CASE i = m + 1
        <4>1. i - 1 = m /\ h[i] = y
          BY <3>1, <3>3
        <4> QED
          BY <3>2, <3>3, <4>1 DEF y
      <3>4. CASE i \in 1..m
        <4>1. h[i] = g[i]
          BY <3>1, <3>4
        <4> QED
          BY <2>1, <3>2, <3>4, <4>1 DEF IsRecursion
      <3>5. i = m + 1 \/ i \in 1..m
        OBVIOUS
      <3> HIDE DEF h
      <3> QED
        BY <3>3, <3>4, <3>5
    <2> HIDE DEF h
    <2>6. IsRecursion(h, m + 1, x, step)
      BY <2>4, <2>5 DEF IsRecursion
    <2> QED
      BY <2>3, <2>6
  <1> HIDE DEF Good
  <1>3. ASSUME Bad # {} PROVE FALSE
    <2>1. PICK m \in Bad : \A k \in Bad : m <= k
      BY <1>3, LeastNat
    <2>2. m \in Nat /\ m <= n /\ ~Good(m) /\ m # 0
      BY <1>1, <2>1
    <2>3. m - 1 \in Nat /\ m - 1 < n /\ Good(m - 1)
      BY <2>1, <2>2
    <2>4. Good((m - 1) + 1)
      BY <1>2, <2>3
    <2> QED
      BY <2>2, <2>4
  <1>4. Good(n)
    BY <1>3
  <1> QED
    BY <1>4 DEF Good

\* What h[j] holds is x and the sum of a[1] to a[j].
IsSum(h, n, x, a) == h = [j \in 0..n |-> IF j = 0 THEN x ELSE h[j - 1] + a[j]]

\* There is such a function.
LEMMA SumExists ==
    ASSUME NEW n \in Nat, NEW x \in Int, NEW a \in [1..n -> Int]
    PROVE  \E h : IsSum(h, n, x, a)
  <1> DEFINE step == [j \in 1..n |-> [y \in Int |-> y + a[j]]]
  <1>1. step \in [1..n -> [Int -> Int]] /\ \A j \in 1..n : \A y \in Int : step[j][y] = y + a[j]
    OBVIOUS
  <1> HIDE DEF step
  <1>2. PICK h \in [0..n -> Int] : IsRecursion(h, n, x, step)
    BY <1>1, RecursionExists
  <1>3. ASSUME NEW j \in 1..n PROVE h[j] = h[j - 1] + a[j]
    <2>1. j - 1 \in 0..n
      OBVIOUS
    <2>2. h[j - 1] \in Int
      BY <1>2, <2>1
    <2>3. h[j] = step[j][h[j - 1]]
      BY <1>2 DEF IsRecursion
    <2> QED
      BY <1>1, <2>2, <2>3
  <1>4. h[0] = x
    BY <1>2 DEF IsRecursion
  <1>5. \A j \in 0..n : h[j] = IF j = 0 THEN x ELSE h[j - 1] + a[j]
    BY <1>3, <1>4
  <1>6. IsSum(h, n, x, a)
    BY <1>2, <1>5 DEF IsSum
  <1> QED
    BY <1>6

\* How to compute it.
Adds(h, n, x, a) ==
    /\ h[0] = x
    /\ \A j \in 1..n : h[j] = h[j - 1] + a[j]
    /\ \A j \in 0..n : h[j] \in Int

\* Its values are numbers, and each is the one before and one more term.
LEMMA SumIs ==
    ASSUME NEW n \in Nat, NEW x \in Int, NEW a \in [1..n -> Int], NEW h, IsSum(h, n, x, a)
    PROVE  Adds(h, n, x, a)
  <1>1. \A j \in 0..n : h[j] = IF j = 0 THEN x ELSE h[j - 1] + a[j]
    BY DEF IsSum
  <1>2. h[0] = x /\ \A j \in 1..n : h[j] = h[j - 1] + a[j]
    <2>1. 0 \in 0..n /\ \A j \in 1..n : j \in 0..n /\ j # 0
      OBVIOUS
    <2> QED
      BY ONLY <1>1, <2>1
  <1> DEFINE Bad == {j \in Nat : j <= n /\ h[j] \notin Int}
  <1>3. ASSUME Bad # {} PROVE FALSE
    <2>1. PICK j \in Bad : \A k \in Bad : j <= k
      BY <1>3, LeastNat
    <2>2. j \in Nat /\ j <= n /\ h[j] \notin Int /\ j # 0
      BY <1>2, <2>1
    <2>3. j - 1 \in Nat /\ j - 1 <= n /\ ~(j <= j - 1) /\ j \in 1..n
      BY <2>2
    <2>4. h[j - 1] \in Int
      BY <2>1, <2>3
    <2>5. h[j] = h[j - 1] + a[j] /\ a[j] \in Int
      BY <1>2, <2>3
    <2> QED
      BY ONLY <2>2, <2>4, <2>5
  <1>4. ASSUME NEW j \in 0..n PROVE h[j] \in Int
    <2>1. j \in Nat /\ j <= n
      OBVIOUS
    <2> QED
      BY <1>3, <2>1
  <1> QED
    BY ONLY <1>2, <1>4 DEF Adds

\* What a concatenation holds.
LEMMA Concatenated ==
    ASSUME NEW T, NEW a \in Seq(T), NEW b \in Seq(T)
    PROVE  /\ a \o b \in Seq(T) /\ Len(a \o b) = Len(a) + Len(b)
           /\ Len(a) \in Nat /\ Len(b) \in Nat /\ Len(a \o b) \in Nat
           /\ \A k \in 1..Len(a) : (a \o b)[k] = a[k]
           /\ \A k \in 1..Len(b) : (a \o b)[Len(a) + k] = b[k]
  OBVIOUS

\* F holds the concatenations of the first of n sequences.
IsPrefixes(F, T, n, s) ==
    /\ F \in [0..n -> Seq(T)]
    /\ F[0] = <<>>
    /\ \A i \in 1..n : F[i] = F[i - 1] \o s[i]

\* There are such prefixes.
LEMMA PrefixesExist ==
    ASSUME NEW T, NEW n \in Nat, NEW s \in [1..n -> Seq(T)]
    PROVE  \E F : IsPrefixes(F, T, n, s)
  <1> DEFINE step == [i \in 1..n |-> [a \in Seq(T) |-> a \o s[i]]]
  <1>1. <<>> \in Seq(T)
    OBVIOUS
  <1>2. /\ step \in [1..n -> [Seq(T) -> Seq(T)]]
        /\ \A i \in 1..n : \A a \in Seq(T) : step[i][a] = a \o s[i]
    <2>1. ASSUME NEW i \in 1..n, NEW a \in Seq(T) PROVE a \o s[i] \in Seq(T)
      BY Concatenated
    <2> QED
      BY <2>1
  <1> HIDE DEF step
  <1>3. PICK F \in [0..n -> Seq(T)] : IsRecursion(F, n, <<>>, step)
    BY <1>1, <1>2, RecursionExists
  <1>4. ASSUME NEW i \in 1..n PROVE F[i] = F[i - 1] \o s[i]
    <2>1. i - 1 \in 0..n
      OBVIOUS
    <2>2. F[i - 1] \in Seq(T) /\ F[i] = step[i][F[i - 1]]
      BY <1>3, <2>1 DEF IsRecursion
    <2> QED
      BY <1>2, <2>2
  <1> QED
    BY <1>3, <1>4 DEF IsPrefixes, IsRecursion

\* FlattenSeq through its prefixes.
LEMMA Flattened ==
    ASSUME NEW T, NEW n \in Nat, NEW s \in [1..n -> Seq(T)]
    PROVE  \E F : IsPrefixes(F, T, n, s) /\ F[n] = FlattenSeq(s)
  <1>1. CASE n = 0
    <2>1. s = <<>> /\ Len(s) = 0
      BY <1>1
    <2>2. FlattenSeq(s) = <<>>
      BY <2>1 DEF FlattenSeq
    <2>3. PICK F : IsPrefixes(F, T, n, s)
      BY PrefixesExist
    <2> QED
      BY <1>1, <2>2, <2>3 DEF IsPrefixes
  <1>2. CASE n # 0
    <2> DEFINE E(f) == [i \in 1..Len(s) |-> IF i = 1 THEN s[i] ELSE f[i - 1] \o s[i]]
               C == CHOOSE f : f = E(f)
    <2>1. Len(s) = n /\ n \in 1..n
      BY <1>2
    <2>2. FlattenSeq(s) = C[Len(s)]
      BY <1>2, <2>1 DEF FlattenSeq
    <2>0. PICK F : IsPrefixes(F, T, n, s)
      BY PrefixesExist
    <2>3. /\ F \in [0..n -> Seq(T)] /\ F[0] = <<>>
          /\ \A i \in 1..n : F[i] = F[i - 1] \o s[i]
      BY <2>0 DEF IsPrefixes
    <2>4. \E f : f = E(f)
      <3> DEFINE G == [i \in 1..n |-> F[i]]
      <3>1. ASSUME NEW i \in 1..n PROVE G[i] = IF i = 1 THEN s[i] ELSE G[i - 1] \o s[i]
        <4>1. CASE i = 1
          <5>1. 1 \in 1..n /\ s[1] \in Seq(T) /\ 1 - 1 = 0
            BY <1>2
          <5>2. F[1] = <<>> \o s[1]
            BY <2>3, <5>1
          <5> QED
            BY <4>1, <5>1, <5>2
        <4>2. CASE i # 1
          <5>1. i - 1 \in 1..n
            BY <4>2
          <5> QED
            BY <2>3, <4>2, <5>1
        <4> QED
          BY <4>1, <4>2
      <3>2. G = E(G)
        BY <2>1, <3>1
      <3> HIDE DEF G, E
      <3> QED
        BY <3>2
    <2>5. C = E(C)
      <3> HIDE DEF E
      <3> QED
        BY <2>4
    <2> HIDE DEF C
    <2>6. \A i \in 1..n : C[i] = IF i = 1 THEN s[i] ELSE C[i - 1] \o s[i]
      BY <2>1, <2>5
    <2> DEFINE Bad == {i \in Nat : i \in 1..n /\ C[i] # F[i]}
    <2>7. ASSUME Bad # {} PROVE FALSE
      <3>1. PICK m \in Bad : \A k \in Bad : m <= k
        BY <2>7, LeastNat
      <3>2. m \in 1..n /\ C[m] # F[m]
        BY <3>1
      <3>3. CASE m = 1
        <4>1. 1 \in 1..n /\ s[1] \in Seq(T) /\ 1 - 1 = 0
          BY <1>2
        <4>2. F[1] = <<>> \o s[1] /\ C[1] = s[1]
          BY <2>3, <2>6, <4>1
        <4> QED
          BY <3>2, <3>3, <4>1, <4>2
      <3>4. CASE m # 1
        <4>1. m - 1 \in 1..n /\ C[m - 1] = F[m - 1]
          BY <3>1, <3>2, <3>4
        <4> QED
          BY <2>3, <2>6, <3>2, <3>4, <4>1
      <3> QED
        BY <3>3, <3>4
    <2>8. C[n] = F[n]
      BY <2>1, <2>7
    <2> QED
      BY <2>0, <2>1, <2>2, <2>8
  <1> QED
    BY <1>1, <1>2

\* Each prefix is the beginning of what follows.
LEMMA PrefixesGrow ==
    ASSUME NEW T, NEW n \in Nat, NEW s \in [1..n -> Seq(T)], NEW F,
           IsPrefixes(F, T, n, s), NEW i \in 0..n
    PROVE  Len(F[i]) <= Len(F[n]) /\ \A k \in 1..Len(F[i]) : F[n][k] = F[i][k]
  <1> DEFINE Good(m) == Len(F[i]) <= Len(F[m]) /\ \A k \in 1..Len(F[i]) : F[m][k] = F[i][k]
             Bad == {m \in Nat : m \in i..n /\ ~Good(m)}
  <1>1. ASSUME NEW m \in i + 1..n, Good(m - 1) PROVE Good(m)
    <2>0. m \in 1..n /\ m \in 0..n /\ m - 1 \in 0..n
      OBVIOUS
    <2>1. F[m] = F[m - 1] \o s[m] /\ F[m - 1] \in Seq(T) /\ s[m] \in Seq(T) /\ F[i] \in Seq(T)
      BY <2>0 DEF IsPrefixes
    <2> DEFINE a == F[m - 1]
               b == s[m]
    <2>2. F[m] = a \o b /\ a \in Seq(T) /\ b \in Seq(T)
      BY <2>1
    <2>3. Len(F[i]) \in Nat /\ Len(F[i]) <= Len(a) /\ \A k \in 1..Len(F[i]) : a[k] = F[i][k]
      BY <1>1, <2>1
    <2> HIDE DEF a, b
    <2>4. /\ Len(a \o b) = Len(a) + Len(b) /\ Len(a) \in Nat /\ Len(b) \in Nat
          /\ \A k \in 1..Len(a) : (a \o b)[k] = a[k]
      BY <2>2, Concatenated
    <2>5. Len(F[m]) = Len(a) + Len(b) /\ \A k \in 1..Len(a) : F[m][k] = a[k]
      BY <2>2, <2>4
    <2>6. Len(F[i]) <= Len(F[m])
      BY <2>3, <2>4, <2>5
    <2>7. ASSUME NEW k \in 1..Len(F[i]) PROVE F[m][k] = F[i][k]
      BY <2>3, <2>4, <2>5
    <2> QED
      BY <2>6, <2>7
  <1>2. Good(i)
    <2>1. Len(F[i]) \in Nat
      BY DEF IsPrefixes
    <2> QED
      BY <2>1
  <1> HIDE DEF Good
  <1>3. ASSUME Bad # {} PROVE FALSE
    <2>1. PICK m \in Bad : \A k \in Bad : m <= k
      BY <1>3, LeastNat
    <2>2. m \in i..n /\ ~Good(m) /\ m # i
      BY <1>2, <2>1
    <2>3. m \in i + 1..n /\ m - 1 \in i..n /\ m - 1 \in Nat
      BY <2>2
    <2>4. Good(m - 1)
      BY <2>1, <2>3
    <2> QED
      BY <1>1, <2>2, <2>3, <2>4
  <1>4. n \in i..n
    OBVIOUS
  <1>5. Good(n)
    BY <1>3, <1>4
  <1> QED
    BY <1>5 DEF Good

\* Where the parts of a concatenation are.
EndAt(B, n, s) == B[0] = 0 /\ \A j \in 1..n : B[j] = B[j - 1] + Len(s[j])

\* Where the parts are in the concatenation c.
AreParts(B, n, s, c) ==
    /\ Len(c) = B[n]
    /\ \A i \in 1..n : \A k \in 1..Len(s[i]) : c[B[i - 1] + k] = s[i][k]

\* Each part of a concatenation is between the ends of the part before and its own.
LEMMA PartsOf ==
    ASSUME NEW T, NEW n \in Nat, NEW s \in [1..n -> Seq(T)], NEW B, EndAt(B, n, s)
    PROVE  AreParts(B, n, s, FlattenSeq(s))
  <1>0. B[0] = 0 /\ \A j \in 1..n : B[j] = B[j - 1] + Len(s[j])
    BY DEF EndAt
  <1>1. PICK F : IsPrefixes(F, T, n, s) /\ F[n] = FlattenSeq(s)
    BY Flattened
  <1>2. /\ F \in [0..n -> Seq(T)] /\ F[0] = <<>>
        /\ \A i \in 1..n : F[i] = F[i - 1] \o s[i]
    BY <1>1 DEF IsPrefixes
  <1>3. ASSUME NEW i \in 1..n
        PROVE  /\ F[i - 1] \in Seq(T) /\ s[i] \in Seq(T) /\ F[i] = F[i - 1] \o s[i]
               /\ Len(F[i]) = Len(F[i - 1]) + Len(s[i])
               /\ Len(F[i - 1]) \in Nat /\ Len(s[i]) \in Nat
               /\ \A k \in 1..Len(s[i]) : F[i][Len(F[i - 1]) + k] = s[i][k]
    <2>1. i - 1 \in 0..n
      OBVIOUS
    <2>2. F[i - 1] \in Seq(T) /\ s[i] \in Seq(T) /\ F[i] = F[i - 1] \o s[i]
      BY <1>2, <2>1
    <2> DEFINE a == F[i - 1]
               b == s[i]
    <2>3. a \in Seq(T) /\ b \in Seq(T) /\ F[i] = a \o b
      BY <2>2
    <2> HIDE DEF a, b
    <2>4. /\ Len(a \o b) = Len(a) + Len(b)
          /\ Len(a) \in Nat /\ Len(b) \in Nat
          /\ \A k \in 1..Len(b) : (a \o b)[Len(a) + k] = b[k]
      BY ONLY <2>3, Concatenated
    <2> QED
      BY ONLY <2>2, <2>3, <2>4 DEF a, b
  <1> DEFINE Bad == {j \in Nat : j <= n /\ Len(F[j]) # B[j]}
  <1>4. ASSUME Bad # {} PROVE FALSE
    <2>1. PICK j \in Bad : \A k \in Bad : j <= k
      BY <1>4, LeastNat
    <2>2. j \in Nat /\ j <= n /\ Len(F[j]) # B[j]
      BY <2>1
    <2>3. j # 0
      BY <1>0, <1>2, <2>2
    <2>4. j - 1 \in Nat /\ j - 1 <= n /\ ~(j <= j - 1) /\ j \in 1..n
      BY <2>2, <2>3
    <2>5. Len(F[j - 1]) = B[j - 1]
      BY <2>1, <2>4
    <2> QED
      BY <1>0, <1>3, <2>2, <2>4, <2>5
  <1>5. ASSUME NEW j \in 0..n PROVE Len(F[j]) = B[j]
    <2>1. j \in Nat /\ j <= n
      OBVIOUS
    <2> QED
      BY <1>4, <2>1
  <1>6. ASSUME NEW i \in 1..n, NEW k \in 1..Len(s[i]) PROVE F[n][B[i - 1] + k] = s[i][k]
    <2>1. i \in 0..n /\ i - 1 \in 0..n
      OBVIOUS
    <2>2. F[i][B[i - 1] + k] = s[i][k]
      BY <1>3, <1>5, <2>1
    <2>3. B[i - 1] + k \in 1..Len(F[i])
      <3> DEFINE p == Len(F[i - 1])
                 q == Len(s[i])
      <3>1. p \in Nat /\ q \in Nat /\ Len(F[i]) = p + q /\ B[i - 1] = p /\ k \in 1..q
        BY <1>3, <1>5, <2>1
      <3> HIDE DEF p, q
      <3> QED
        BY ONLY <3>1
    <2>4. \A l \in 1..Len(F[i]) : F[n][l] = F[i][l]
      BY <1>1, <2>1, PrefixesGrow
    <2> QED
      BY ONLY <2>2, <2>3, <2>4
  <1>7. n \in 0..n
    OBVIOUS
  <1> QED
    BY ONLY <1>1, <1>5, <1>6, <1>7 DEF AreParts

-----------------------------------------------------------------------------
\* The header extension.

\* Positions, bytes, sequence numbers, and the elements of an extension.
Pos == Nat \ {0}
Bytes == 0..255
Numbers == {v \in Nat : v < 256 * 256}
Shape == [id : 0..15, data : Seq(Bytes)]

\* One call of the parser's loop at pos, f standing for the calls behind it.
ReadAt(bytes, f, pos) ==
    IF pos > Len(bytes) THEN None
    ELSE LET id == bytes[pos] \div 16  len == 1 + (bytes[pos] % 16) IN
         IF bytes[pos] = 0 THEN f[pos + 1]
         ELSE IF id = 15 \/ pos + len > Len(bytes) THEN None
         ELSE IF id = ExtId /\ len >= 2 THEN 256 * bytes[pos + 1] + bytes[pos + 2]
         ELSE f[pos + 1 + len]

\* f holds, for every position, what the parser finds from there on.
Reading(bytes, f) == f = [pos \in Pos |-> ReadAt(bytes, f, pos)]

\* The loop only goes forward, and yields a number or None.
LEMMA ReadsForward ==
    ASSUME NEW bytes \in Seq(Bytes), NEW pos \in Pos,
           NEW f \in [Pos -> Nat \cup {None}], NEW g \in [Pos -> Nat \cup {None}],
           \A q \in Pos : q > pos => f[q] = g[q]
    PROVE  ReadAt(bytes, f, pos) = ReadAt(bytes, g, pos)
           /\ ReadAt(bytes, f, pos) \in Nat \cup {None}
  <1>1. CASE pos > Len(bytes)
    BY <1>1 DEF ReadAt
  <1>2. CASE ~(pos > Len(bytes))
    <2>1. Len(bytes) \in Nat /\ pos \in 1..Len(bytes)
      BY <1>2 DEF Pos
    <2> DEFINE c == bytes[pos]
               id == c \div 16
               len == 1 + (c % 16)
    <2>2. c \in Bytes
      BY <2>1
    <2> HIDE DEF c
    <2>3. len \in 1..16 /\ pos + 1 \in Pos /\ pos + 1 + len \in Pos
          /\ pos + 1 > pos /\ pos + 1 + len > pos
      BY <2>1, <2>2 DEF Bytes, Pos
    <2> HIDE DEF len, id
    <2>4. f[pos + 1] = g[pos + 1] /\ f[pos + 1 + len] = g[pos + 1 + len]
      BY <2>3
    <2>5. f[pos + 1] \in Nat \cup {None} /\ f[pos + 1 + len] \in Nat \cup {None}
      BY <2>3
    <2>6. ASSUME pos + len <= Len(bytes), len >= 2
          PROVE  256 * bytes[pos + 1] + bytes[pos + 2] \in Nat
      <3>1. pos + 1 \in 1..Len(bytes) /\ pos + 2 \in 1..Len(bytes)
        BY <2>1, <2>3, <2>6
      <3>2. bytes[pos + 1] \in Bytes /\ bytes[pos + 2] \in Bytes
        BY <3>1
      <3> DEFINE a == bytes[pos + 1]
                 b == bytes[pos + 2]
      <3>3. a \in Bytes /\ b \in Bytes
        BY <3>2
      <3> HIDE DEF a, b
      <3>4. 256 * a + b \in Nat
        BY <3>3 DEF Bytes
      <3> QED
        BY <3>4 DEF a, b
    <2>7. pos + len > Len(bytes) \/ pos + len <= Len(bytes)
      BY <2>1, <2>3
    <2>8. \A h : ReadAt(bytes, h, pos) =
            IF bytes[pos] = 0 THEN h[pos + 1]
            ELSE IF id = 15 \/ pos + len > Len(bytes) THEN None
            ELSE IF id = ExtId /\ len >= 2 THEN 256 * bytes[pos + 1] + bytes[pos + 2]
            ELSE h[pos + 1 + len]
      BY <1>2 DEF ReadAt, id, len, c
    <2> QED
      BY <2>4, <2>5, <2>6, <2>7, <2>8
  <1> QED
    BY <1>1, <1>2

\* There is a function that the parser's recursion defines.
LEMMA ReadingExists ==
    ASSUME NEW bytes \in Seq(Bytes)
    PROVE  \E f : Reading(bytes, f)
  <1> DEFINE V == Nat \cup {None}
             Good(m) == \E f \in [Pos -> V] :
                          \A pos \in Pos : pos > Len(bytes) - m => f[pos] = ReadAt(bytes, f, pos)
             Bad == {m \in Nat : ~Good(m)}
  <1>1. Len(bytes) \in Nat
    OBVIOUS
  <1>2. Good(0)
    <2> DEFINE f == [pos \in Pos |-> None]
    <2>1. f \in [Pos -> V]
      OBVIOUS
    <2>2. ASSUME NEW pos \in Pos, pos > Len(bytes) - 0 PROVE f[pos] = ReadAt(bytes, f, pos)
      BY <1>1, <2>2 DEF ReadAt
    <2> HIDE DEF f
    <2> QED
      BY <2>1, <2>2
  <1>3. ASSUME NEW m \in Nat, Good(m) PROVE Good(m + 1)
    <2> DEFINE q == Len(bytes) - m
    <2>1. PICK f \in [Pos -> V] : \A pos \in Pos : pos > q => f[pos] = ReadAt(bytes, f, pos)
      BY <1>3
    <2>2. q \in Int /\ \A pos \in Pos : pos > Len(bytes) - (m + 1) <=> pos > q \/ pos = q
      BY <1>1 DEF Pos
    <2> HIDE DEF q
    <2>3. CASE q \notin Pos
      <3>1. \A pos \in Pos : pos > Len(bytes) - (m + 1) => f[pos] = ReadAt(bytes, f, pos)
        BY <2>1, <2>2, <2>3
      <3> QED
        BY <3>1
    <2>4. CASE q \in Pos
      <3> DEFINE g == [f EXCEPT ![q] = ReadAt(bytes, f, q)]
      <3>1. ReadAt(bytes, f, q) \in V
        BY <2>4, ReadsForward
      <3>2. g \in [Pos -> V] /\ g[q] = ReadAt(bytes, f, q)
            /\ \A pos \in Pos : pos # q => g[pos] = f[pos]
        BY <2>4, <3>1
      <3> HIDE DEF g
      <3>3. ASSUME NEW pos \in Pos, pos > q \/ pos = q PROVE g[pos] = ReadAt(bytes, g, pos)
        <4>1. \A r \in Pos : r > pos => f[r] = g[r]
          BY <2>2, <3>2, <3>3 DEF Pos
        <4>2. ReadAt(bytes, f, pos) = ReadAt(bytes, g, pos)
          BY <3>2, <4>1, ReadsForward
        <4>3. pos # q => g[pos] = f[pos] /\ f[pos] = ReadAt(bytes, f, pos)
          BY <2>1, <3>2, <3>3
        <4> QED
          BY <3>2, <4>2, <4>3
      <3>4. \A pos \in Pos : pos > Len(bytes) - (m + 1) => g[pos] = ReadAt(bytes, g, pos)
        BY <2>2, <3>3
      <3> QED
        BY <3>2, <3>4
    <2> QED
      BY <2>3, <2>4
  <1>4. Good(Len(bytes))
    <2> HIDE DEF Good
    <2>1. ASSUME Bad # {} PROVE FALSE
      <3>1. PICK m \in Bad : \A k \in Bad : m <= k
        BY <2>1, LeastNat
      <3>2. m \in Nat /\ ~Good(m) /\ m # 0
        BY <1>2, <3>1
      <3>3. m - 1 \in Nat /\ Good(m - 1)
        BY <3>1, <3>2
      <3>4. Good((m - 1) + 1)
        BY <1>3, <3>3
      <3> QED
        BY <3>2, <3>4
    <2> QED
      BY <1>1, <2>1
  <1>5. PICK f \in [Pos -> V] :
               \A pos \in Pos : pos > Len(bytes) - Len(bytes) => f[pos] = ReadAt(bytes, f, pos)
    BY <1>4
  <1>6. \A pos \in Pos : f[pos] = ReadAt(bytes, f, pos)
    BY <1>1, <1>5 DEF Pos
  <1>7. f = [pos \in Pos |-> ReadAt(bytes, f, pos)]
    BY <1>6
  <1> QED
    BY <1>7 DEF Reading

\* The parser is its loop at the first byte.
LEMMA ParsedByReading ==
    ASSUME NEW bytes \in Seq(Bytes)
    PROVE  \E f : Reading(bytes, f) /\ ParseTwccSeq(bytes) = f[1]
  <1> DEFINE C == CHOOSE f : Reading(bytes, f)
  <1>1. ParseTwccSeq(bytes) = C[1]
    BY DEF ParseTwccSeq, Reading, ReadAt, Pos
  <1>2. Reading(bytes, C)
    BY ReadingExists
  <1> QED
    BY <1>1, <1>2

\* A byte in front of others.
LEMMA ByteInFront ==
    ASSUME NEW h \in Bytes, NEW d \in Seq(Bytes)
    PROVE  /\ Cons(h, d) \in Seq(Bytes) /\ Len(Cons(h, d)) = 1 + Len(d)
           /\ Cons(h, d)[1] = h
           /\ \A k \in 1..Len(d) : Cons(h, d)[1 + k] = d[k]
  BY DEF Cons

\* What an element is written as.
IsElement(b, id, v) ==
    /\ b \in Seq(Bytes)
    /\ id = 0 => Len(b) = 1 /\ b[1] = 0
    /\ id # 0 => /\ Len(b) = 2 + (b[1] % 16) /\ Len(b) \in 2..17
                 /\ b[1] # 0 /\ b[1] \div 16 = id
    /\ id = ExtId => Len(b) = 3 /\ 256 * b[2] + b[3] = v

\* An element of the extension is its head and the bytes of its data.
LEMMA IsWritten ==
    ASSUME NEW i \in 1..15, NEW d \in Seq(Bytes), Len(d) \in 1..16, NEW v,
           i = ExtId => Len(d) = 2 /\ 256 * d[1] + d[2] = v
    PROVE  IsElement(Cons(16 * i + Len(d) - 1, d), i, v)
  <1> DEFINE l == Len(d)
             h == 16 * i + l - 1
             b == Cons(h, d)
             n == Len(b)
  <1>1. l \in 1..16
    OBVIOUS
  <1>2. i = ExtId => l = 2 /\ 256 * d[1] + d[2] = v
    OBVIOUS
  <1> HIDE DEF l
  <1>3. h \in Bytes /\ h # 0 /\ h \div 16 = i /\ h % 16 = l - 1
    BY ONLY <1>1, i \in 1..15 DEF Bytes
  <1> HIDE DEF h
  <1>4. b \in Seq(Bytes) /\ n = 1 + l /\ b[1] = h /\ \A k \in 1..l : b[1 + k] = d[k]
    BY <1>3, ByteInFront DEF l
  <1> HIDE DEF b, n
  <1>5. i = ExtId => n = 3 /\ 256 * b[2] + b[3] = v
    <2>1. l = 2 => b[2] = d[1] /\ b[3] = d[2]
      <3>1. l = 2 => 1 \in 1..l /\ 2 \in 1..l /\ 1 + 1 = 2 /\ 1 + 2 = 3
        BY ONLY <1>1
      <3> QED
        BY ONLY <1>4, <3>1
    <2>2. l = 2 => n = 3
      BY ONLY <1>4
    <2> QED
      BY ONLY <1>2, <2>1, <2>2
  <1>6. n = 2 + (h % 16) /\ n \in 2..17
    BY ONLY <1>1, <1>3, <1>4
  <1>7. i # 0
    OBVIOUS
  <1>8. IsElement(b, i, v)
    <2>1. b[1] = h /\ h # 0 /\ h \div 16 = i /\ n = 2 + (b[1] % 16) /\ b[1] \div 16 = i
      BY ONLY <1>3, <1>4, <1>6
    <2> QED
      BY ONLY <1>4, <1>5, <1>6, <1>7, <2>1 DEF IsElement, n
  <1> QED
    BY ONLY <1>8 DEF b, h, l

\* A number is put together again from its two bytes.
LEMMA NumberInBytes ==
    ASSUME NEW v \in Numbers
    PROVE  <<v \div 256, v % 256>> \in Seq(Bytes) /\ 256 * (v \div 256) + (v % 256) = v
  <1>1. v \div 256 \in 0..255 /\ v % 256 \in 0..255 /\ 256 * (v \div 256) + (v % 256) = v
    <2>1. v \in Nat /\ v < 65536
      BY DEF Numbers
    <2> QED
      BY ONLY <2>1
  <1> QED
    BY <1>1 DEF Bytes

\* An element that fits the format.
IsWritable(x) == x \in Shape /\ (x.id \notin {0, ExtId} => Len(x.data) \in 1..16)

\* What Element writes is an element, and how long it is.
LEMMA ElementFacts ==
    ASSUME NEW x, IsWritable(x), NEW v \in Numbers
    PROVE  IsElement(Element(x, v), x.id, v)
  <1> DEFINE i == x.id
             c == x.data
             d == Data(x, v)
             e == Element(x, v)
             p == <<v \div 256, v % 256>>
  <1>1. i \in 0..15 /\ c \in Seq(Bytes) /\ (i \notin {0, ExtId} => Len(c) \in 1..16)
    BY DEF Shape, IsWritable
  <1>2. d = IF i = ExtId THEN p ELSE c
    BY ONLY TRUE DEF Data
  <1>3. e = IF i = 0 THEN <<0>> ELSE Cons(16 * i + Len(d) - 1, d)
    BY ONLY TRUE DEF Element
  <1>4. p \in Seq(Bytes) /\ Len(p) = 2 /\ 256 * p[1] + p[2] = v
    BY ONLY v \in Numbers, NumberInBytes
  <1>5. ExtId \in 1..14
    BY TwccAssumption
  <1> HIDE DEF i, c, d, e, p
  <1>6. CASE i = 0
    <2>1. <<0>> \in Seq(Bytes) /\ Len(<<0>>) = 1 /\ <<0>>[1] = 0
      BY ONLY TRUE DEF Bytes
    <2>2. e \in Seq(Bytes) /\ Len(e) = 1 /\ e[1] = 0
      BY ONLY <1>3, <1>6, <2>1
    <2>3. i # ExtId
      BY ONLY <1>5, <1>6
    <2>4. IsElement(e, i, v)
      BY ONLY <1>6, <2>2, <2>3 DEF IsElement
    <2> QED
      BY ONLY <2>4 DEF e, i
  <1>7. CASE i # 0
    <2>1. i \in 1..15
      BY ONLY <1>1, <1>7
    <2>2. d \in Seq(Bytes) /\ Len(d) \in 1..16
          /\ (i = ExtId => Len(d) = 2 /\ 256 * d[1] + d[2] = v)
      BY ONLY <1>1, <1>2, <1>4, <1>7
    <2>3. IsElement(Cons(16 * i + Len(d) - 1, d), i, v)
      BY ONLY <2>1, <2>2, IsWritten
    <2>4. IsElement(e, i, v)
      BY ONLY <1>3, <1>7, <2>3
    <2> QED
      BY ONLY <2>4 DEF e, i
  <1> QED
    BY ONLY <1>6, <1>7

\* The bytes from pos on begin with those of b.
Holds(bytes, pos, b) ==
    /\ pos + Len(b) - 1 <= Len(bytes)
    /\ \A k \in 1..Len(b) : bytes[pos - 1 + k] = b[k]

\* The first byte of an element, as the parser sees it.
LEMMA HeadIsRead ==
    ASSUME NEW bytes \in Seq(Bytes), NEW pos \in Pos, NEW b, NEW i \in 0..15, NEW v,
           IsElement(b, i, v), Holds(bytes, pos, b)
    PROVE  /\ ~(pos > Len(bytes)) /\ bytes[pos] = b[1] /\ bytes[pos] \in Bytes
           /\ Len(b) \in 1..17 /\ Len(bytes) \in Nat
           /\ Len(b) = 3 => bytes[pos + 1] = b[2] /\ bytes[pos + 2] = b[3]
  <1>1. Len(b) \in 1..17 /\ Len(bytes) \in Nat /\ pos \in Nat /\ pos > 0
    BY DEF IsElement, Pos
  <1>2. pos + Len(b) - 1 <= Len(bytes)
    BY DEF Holds
  <1>3. ~(pos > Len(bytes)) /\ pos - 1 + 1 = pos /\ pos - 1 + 2 = pos + 1
        /\ pos - 1 + 3 = pos + 2 /\ 1 \in 1..Len(b)
        /\ (Len(b) = 3 => 2 \in 1..Len(b) /\ 3 \in 1..Len(b))
    <2> DEFINE l == Len(b)
               n == Len(bytes)
    <2>1. l \in 1..17 /\ n \in Nat /\ pos \in Nat /\ pos > 0 /\ pos + l - 1 <= n
      BY ONLY <1>1, <1>2
    <2> HIDE DEF l, n
    <2>2. /\ ~(pos > n) /\ pos - 1 + 1 = pos /\ pos - 1 + 2 = pos + 1
          /\ pos - 1 + 3 = pos + 2 /\ 1 \in 1..l
          /\ (l = 3 => 2 \in 1..l /\ 3 \in 1..l)
      BY ONLY <2>1
    <2> QED
      BY ONLY <2>2 DEF l, n
  <1>4. \A k \in 1..Len(b) : bytes[pos - 1 + k] = b[k]
    BY DEF Holds
  <1>5. bytes[pos] = b[1] /\ (Len(b) = 3 => bytes[pos + 1] = b[2] /\ bytes[pos + 2] = b[3])
    BY ONLY <1>3, <1>4
  <1>6. b[1] \in Bytes
    BY <1>3 DEF IsElement
  <1> QED
    BY ONLY <1>1, <1>3, <1>5, <1>6

\* What the parser makes of an element at pos: it stops at a terminator, has found the
\* number, or goes on behind the element.
LEMMA ElementIsRead ==
    ASSUME NEW bytes \in Seq(Bytes), NEW f, Reading(bytes, f), NEW pos \in Pos,
           NEW b, NEW i \in 0..15, NEW v, IsElement(b, i, v), Holds(bytes, pos, b)
    PROVE  /\ i = 15 => f[pos] = None
           /\ i = ExtId => f[pos] = v
           /\ i # 15 /\ i # ExtId => f[pos] = f[pos + Len(b)]
  <1> DEFINE l == Len(b)
             h == bytes[pos]
             id == h \div 16
             len == 1 + (h % 16)
             n == Len(bytes)
             number == 256 * bytes[pos + 1] + bytes[pos + 2]
             next == f[pos + 1]
             behind == f[pos + 1 + len]
             after == f[pos + l]
             y == f[pos]
  <1>1. /\ ~(pos > n) /\ h = b[1] /\ h \in Bytes /\ l \in 1..17 /\ n \in Nat
        /\ l = 3 => number = 256 * b[2] + b[3]
    <2>1. /\ ~(pos > Len(bytes)) /\ bytes[pos] = b[1] /\ bytes[pos] \in Bytes
          /\ Len(b) \in 1..17 /\ Len(bytes) \in Nat
          /\ Len(b) = 3 => bytes[pos + 1] = b[2] /\ bytes[pos + 2] = b[3]
      BY HeadIsRead
    <2> QED
      BY ONLY <2>1
  <1>2. /\ i = 0 => l = 1 /\ h = 0
        /\ i # 0 => l = 2 + (h % 16) /\ h # 0 /\ h \div 16 = i
        /\ i = ExtId => l = 3 /\ number = v
    <2>1. /\ i = 0 => l = 1 /\ b[1] = 0
          /\ i # 0 => l = 2 + (b[1] % 16) /\ b[1] # 0 /\ b[1] \div 16 = i
          /\ i = ExtId => l = 3 /\ 256 * b[2] + b[3] = v
      BY DEF IsElement
    <2>2. b[1] = h /\ (l = 3 => number = 256 * b[2] + b[3])
      BY ONLY <1>1
    <2> HIDE DEF l, h, number
    <2> QED
      BY ONLY <2>1, <2>2
  <1>3. i \in 0..15 /\ ExtId \in 1..14 /\ pos \in Nat
    BY TwccAssumption DEF Pos
  <1>4. y = ReadAt(bytes, f, pos)
    BY DEF Reading
  <1>5. pos + l - 1 <= n
    BY DEF Holds
  <1>6. /\ h = 0 => y = next
        /\ h # 0 /\ id = 15 => y = None
        /\ h # 0 /\ id # 15 /\ ~(pos + len > n) /\ id = ExtId /\ len >= 2 => y = number
        /\ h # 0 /\ id # 15 /\ ~(pos + len > n) /\ id # ExtId => y = behind
    BY ONLY <1>1, <1>4 DEF ReadAt
  <1>7. id = h \div 16 /\ len = 1 + (h % 16)
    OBVIOUS
  <1> HIDE DEF h, id, len, l, n
  <1>8. /\ h = 0 <=> i = 0
        /\ i = 0 => pos + 1 = pos + l
        /\ i # 0 => id = i /\ len = l - 1 /\ ~(pos + len > n) /\ pos + 1 + len = pos + l
    <2>1. h \in 0..255 /\ l \in 1..17 /\ n \in Nat
      BY ONLY <1>1 DEF Bytes
    <2> QED
      BY ONLY <1>2, <1>3, <1>5, <1>7, <2>1
  <1>9. (i = 0 => next = after) /\ (i # 0 => behind = after)
    BY ONLY <1>8
  <1> HIDE DEF number, next, behind, after, y
  <1>10. i = ExtId => y = v
    BY ONLY <1>2, <1>3, <1>6, <1>8
  <1>11. i = 15 => y = None
    BY ONLY <1>6, <1>8
  <1>12. i # 15 /\ i # ExtId => y = after
    BY ONLY <1>6, <1>8, <1>9
  <1> QED
    BY ONLY <1>10, <1>11, <1>12 DEF y, after, l

\* From the i-th of n elements on, one has the sequence number and no terminator is before.
FoundFrom(id, n, i) == \E j \in i..n : id[j] = ExtId /\ \A k \in i..j : id[k] # 15

\* Whether the number is found from place i on, from what is at i and behind it.
LEMMA FoundStep ==
    ASSUME NEW n \in Nat, NEW id, NEW i \in 1..n
    PROVE  FoundFrom(id, n, i) <=> id[i] # 15 /\ (id[i] = ExtId \/ FoundFrom(id, n, i + 1))
  <1>1. ASSUME FoundFrom(id, n, i)
        PROVE  id[i] # 15 /\ (id[i] = ExtId \/ FoundFrom(id, n, i + 1))
    <2>1. PICK j \in i..n : id[j] = ExtId /\ \A k \in i..j : id[k] # 15
      BY <1>1 DEF FoundFrom
    <2>2. i \in i..j /\ (j = i \/ j \in i + 1..n) /\ \A k \in i + 1..j : k \in i..j
      BY <2>1
    <2> QED
      BY <2>1, <2>2 DEF FoundFrom
  <1>2. ASSUME id[i] # 15, id[i] = ExtId PROVE FoundFrom(id, n, i)
    <2>1. i \in i..n /\ \A k \in i..i : k = i
      OBVIOUS
    <2> QED
      BY <1>2, <2>1 DEF FoundFrom
  <1>3. ASSUME id[i] # 15, FoundFrom(id, n, i + 1) PROVE FoundFrom(id, n, i)
    <2>1. PICK j \in i + 1..n : id[j] = ExtId /\ \A k \in i + 1..j : id[k] # 15
      BY <1>3 DEF FoundFrom
    <2>2. j \in i..n /\ \A k \in i..j : k = i \/ k \in i + 1..j
      BY <2>1
    <2> QED
      BY <1>3, <2>1, <2>2 DEF FoundFrom
  <1> QED
    BY <1>1, <1>2, <1>3

\* A second sequence begins behind the first, and the whole begins with both.
LEMMA HoldsSecond ==
    ASSUME NEW bytes \in Seq(Bytes), NEW a \in Seq(Bytes), NEW b \in Seq(Bytes),
           Len(a \o b) <= Len(bytes), \A k \in 1..Len(a \o b) : bytes[k] = (a \o b)[k]
    PROVE  /\ Holds(bytes, Len(a) + 1, b) /\ Len(a) + 1 \in Pos
           /\ Len(a) + 1 + Len(b) = Len(a \o b) + 1
  <1> DEFINE c == a \o b
  <1>1. /\ Len(c) = Len(a) + Len(b) /\ Len(a) \in Nat /\ Len(b) \in Nat /\ Len(c) \in Nat
        /\ \A k \in 1..Len(b) : c[Len(a) + k] = b[k]
    BY Concatenated
  <1>2. Len(c) <= Len(bytes) /\ (\A k \in 1..Len(c) : bytes[k] = c[k]) /\ Len(bytes) \in Nat
    OBVIOUS
  <1> HIDE DEF c
  <1> DEFINE la == Len(a)
             lb == Len(b)
             lc == Len(c)
             n == Len(bytes)
  <1>3. lc = la + lb /\ la \in Nat /\ lb \in Nat /\ lc \in Nat /\ lc <= n /\ n \in Nat
    BY ONLY <1>1, <1>2
  <1>4. \A k \in 1..lb : c[la + k] = b[k]
    BY ONLY <1>1
  <1>5. \A k \in 1..lc : bytes[k] = c[k]
    BY ONLY <1>2
  <1> HIDE DEF la, lb, lc, n
  <1>6. la + 1 + lb - 1 <= n /\ la + 1 \in Pos /\ la + 1 + lb = lc + 1
    BY ONLY <1>3 DEF Pos
  <1>7. ASSUME NEW k \in 1..lb PROVE bytes[la + 1 - 1 + k] = b[k]
    <2>1. la + 1 - 1 + k = la + k /\ la + k \in 1..lc
      BY ONLY <1>3, <1>7
    <2> QED
      BY ONLY <1>4, <1>5, <1>7, <2>1
  <1> QED
    BY ONLY <1>6, <1>7 DEF Holds, la, lb, lc, n, c

\* The parser finds the sequence number if and only if an element has it that no
\* terminator precedes, whatever other elements and padding are in front of it.
AreElements(n, id, s, v) ==
    /\ n \in Nat /\ id \in [1..n -> 0..15] /\ s \in [1..n -> Seq(Bytes)]
    /\ \A i \in 1..n : IsElement(s[i], id[i], v)

\* What the parser finds.
Outcome(id, n, i, v) == IF FoundFrom(id, n, i) THEN v ELSE None

\* A parser that reads elements one after the other finds the first number before a
\* terminator.
LEMMA ElementsAreRead ==
    ASSUME NEW n, NEW id, NEW s, NEW v, AreElements(n, id, s, v)
    PROVE  ParseTwccSeq(FlattenSeq(s)) = Outcome(id, n, 1, v)
  <1>0. /\ n \in Nat /\ id \in [1..n -> 0..15] /\ s \in [1..n -> Seq(Bytes)]
        /\ \A i \in 1..n : IsElement(s[i], id[i], v)
    BY DEF AreElements
  <1> DEFINE bytes == FlattenSeq(s)
  <1>1. PICK F : IsPrefixes(F, Bytes, n, s) /\ F[n] = bytes
    BY <1>0, Flattened
  <1>2. bytes \in Seq(Bytes) /\ F \in [0..n -> Seq(Bytes)] /\ F[0] = <<>>
    <2> HIDE DEF bytes
    <2>1. F \in [0..n -> Seq(Bytes)] /\ F[0] = <<>> /\ F[n] = bytes
      BY ONLY <1>1 DEF IsPrefixes
    <2>2. n \in 0..n
      BY ONLY <1>0
    <2> QED
      BY ONLY <2>1, <2>2
  <1>3. PICK f : Reading(bytes, f) /\ ParseTwccSeq(bytes) = f[1]
    <2> HIDE DEF bytes
    <2> QED
      BY <1>2, ParsedByReading
  <1> HIDE DEF bytes
  <1> DEFINE Right(i) == f[Len(F[i - 1]) + 1] = Outcome(id, n, i, v)
             Bad == {m \in Nat : m <= n /\ ~Right(n + 1 - m)}
  <1>4. Right(n + 1)
    <2> DEFINE m == n + 1
               q == Len(bytes) + 1
    <2>1. m - 1 = n /\ q \in Pos /\ q > Len(bytes) /\ m..n = {}
      BY <1>0, <1>2 DEF Pos
    <2>2. f[q] = ReadAt(bytes, f, q)
      BY <1>3, <2>1 DEF Reading
    <2> HIDE DEF m
    <2>3. Len(F[m - 1]) + 1 = q
      BY ONLY <1>1, <2>1
    <2> HIDE DEF q
    <2>4. f[q] = None
      BY ONLY <2>1, <2>2 DEF ReadAt
    <2>5. Outcome(id, n, m, v) = None
      BY ONLY <2>1 DEF FoundFrom, Outcome
    <2> DEFINE p == Len(F[m - 1]) + 1
               o == Outcome(id, n, m, v)
    <2> HIDE DEF p, o
    <2>6. f[p] = o
      BY ONLY <2>3, <2>4, <2>5 DEF p, o
    <2> QED
      BY ONLY <2>6 DEF p, o, m
  <1>5. ASSUME NEW i \in 1..n, Right(i + 1) PROVE Right(i)
    <2> DEFINE a == F[i - 1]
               b == s[i]
               pos == Len(a) + 1
               c == id[i]
    <2>1. F[i] = a \o b /\ a \in Seq(Bytes) /\ b \in Seq(Bytes) /\ i \in 0..n /\ i + 1 - 1 = i
      <3>1. i - 1 \in 0..n /\ i \in 0..n /\ i + 1 - 1 = i /\ i \in 1..n
        BY <1>0
      <3>2. F[i - 1] \in Seq(Bytes) /\ s[i] \in Seq(Bytes)
        BY <1>0, <1>2, <3>1
      <3>3. F[i] = F[i - 1] \o s[i]
        BY ONLY <1>1, <3>1 DEF IsPrefixes
      <3> QED
        BY ONLY <3>1, <3>2, <3>3
    <2>2. Len(F[i]) <= Len(bytes) /\ \A k \in 1..Len(F[i]) : bytes[k] = F[i][k]
      <3>1. IsPrefixes(F, Bytes, n, s) /\ i \in 0..n
        BY ONLY <1>1, <2>1
      <3>2. Len(F[i]) <= Len(F[n]) /\ \A k \in 1..Len(F[i]) : F[n][k] = F[i][k]
        BY <1>0, <3>1, PrefixesGrow
      <3>3. F[n] = bytes
        BY ONLY <1>1
      <3> QED
        BY ONLY <3>2, <3>3
    <2>3. IsElement(b, c, v) /\ c \in 0..15
      BY <1>0
    <2> HIDE DEF a, b, c
    <2>4. Holds(bytes, pos, b) /\ pos \in Pos /\ pos + Len(b) = Len(F[i]) + 1
      <3>1. Len(a \o b) <= Len(bytes) /\ \A k \in 1..Len(a \o b) : bytes[k] = (a \o b)[k]
        BY ONLY <2>1, <2>2
      <3>2. Holds(bytes, Len(a) + 1, b) /\ Len(a) + 1 \in Pos
            /\ Len(a) + 1 + Len(b) = Len(a \o b) + 1
        BY ONLY <1>2, <2>1, <3>1, HoldsSecond
      <3> QED
        BY ONLY <2>1, <3>2
    <2> HIDE DEF pos
    <2>5. /\ c = 15 => f[pos] = None
          /\ c = ExtId => f[pos] = v
          /\ c # 15 /\ c # ExtId => f[pos] = f[pos + Len(b)]
      BY ONLY <1>2, <1>3, <2>3, <2>4, ElementIsRead
    <2>6. f[pos + Len(b)] = Outcome(id, n, i + 1, v)
      <3>1. f[Len(F[i + 1 - 1]) + 1] = Outcome(id, n, i + 1, v)
        BY ONLY <1>5
      <3>2. f[Len(F[i]) + 1] = Outcome(id, n, i + 1, v)
        BY ONLY <2>1, <3>1
      <3> QED
        BY ONLY <2>4, <3>2
    <2>7. FoundFrom(id, n, i) <=> c # 15 /\ (c = ExtId \/ FoundFrom(id, n, i + 1))
      BY <1>0, FoundStep DEF c
    <2>8. ExtId # 15
      BY TwccAssumption
    <2>9. f[pos] = Outcome(id, n, i, v)
      BY ONLY <2>5, <2>6, <2>7, <2>8 DEF Outcome
    <2> QED
      BY ONLY <2>9 DEF pos, a
  <1>6. \A i \in 1..n : Right(i + 1) => Right(i)
    BY ONLY <1>5
  <1> HIDE DEF Right
  <1>7. ASSUME Bad # {} PROVE FALSE
    <2>1. PICK m \in Bad : \A k \in Bad : m <= k
      BY ONLY <1>7, LeastNat
    <2>2. m \in Nat /\ m <= n /\ ~Right(n + 1 - m)
      BY ONLY <2>1
    <2>3. m # 0
      <3>1. m = 0 => n + 1 - m = n + 1
        BY ONLY <1>0
      <3> QED
        BY ONLY <1>4, <2>2, <3>1
    <2>4. m - 1 \in Nat /\ m - 1 <= n /\ ~(m <= m - 1)
      BY ONLY <1>0, <2>2, <2>3
    <2>5. Right(n + 1 - (m - 1))
      BY ONLY <2>1, <2>4
    <2>6. n + 1 - m \in 1..n /\ n + 1 - (m - 1) = (n + 1 - m) + 1
      BY ONLY <1>0, <2>2, <2>3
    <2> QED
      BY ONLY <1>6, <2>2, <2>5, <2>6
  <1>8. Right(1)
    <2>1. n \in Nat /\ n <= n /\ n + 1 - n = 1
      BY ONLY <1>0
    <2> QED
      BY ONLY <1>7, <2>1
  <1>9. Len(F[1 - 1]) + 1 = 1
    BY ONLY <1>2
  <1>10. f[1] = Outcome(id, n, 1, v)
    BY ONLY <1>8, <1>9 DEF Right
  <1> QED
    BY ONLY <1>3, <1>10 DEF bytes

\* parse_twcc_seq finds the number in every header extension that carries it before a
\* terminator, whatever padding and other elements are around it, and nothing in others.
THEOREM ParserReads ==
    ASSUME NEW x \in Extensions, NEW v \in Numbers
    PROVE  ParseTwccSeq(Serialize(x, v)) = IF Carries(x) THEN v ELSE None
  <1> DEFINE n == Len(x)
             id == [i \in 1..n |-> x[i].id]
             s == [i \in 1..n |-> Element(x[i], v)]
  <1>1. x \in Seq(Shape)
    BY ExtensionAssumption DEF Shape, Bytes
  <1>2. n \in Nat /\ DOMAIN x = 1..n
    BY ONLY <1>1
  <1>3. ASSUME NEW i \in 1..n
        PROVE  /\ x[i].id \in 0..15
               /\ Element(x[i], v) \in Seq(Bytes) /\ IsElement(Element(x[i], v), x[i].id, v)
    <2> DEFINE y == x[i]
    <2>1. y \in Shape
      BY ONLY <1>1, <1>2, <1>3
    <2>2. y.id \notin {0, ExtId} => Len(y.data) \in 1..16
      BY ONLY ExtensionAssumption, <1>2, <1>3, x \in Extensions
    <2> HIDE DEF y
    <2>3. IsWritable(y) /\ y.id \in 0..15
      BY ONLY <2>1, <2>2 DEF IsWritable, Shape
    <2>4. IsElement(Element(y, v), y.id, v)
      BY ONLY <2>3, v \in Numbers, ElementFacts
    <2>5. Element(y, v) \in Seq(Bytes)
      BY ONLY <2>4 DEF IsElement
    <2> QED
      BY ONLY <2>3, <2>4, <2>5 DEF y
  <1> DEFINE P(i) == x[i].id
             Q(i) == Element(x[i], v)
  <1>4. Serialize(x, v) = FlattenSeq(s)
    BY ONLY <1>2 DEF Serialize
  <1>5. Carries(x) <=> \E j \in 1..n : P(j) = ExtId /\ \A k \in 1..j : P(k) # 15
    BY ONLY <1>2 DEF Carries
  <1>6. id = [i \in 1..n |-> P(i)] /\ s = [i \in 1..n |-> Q(i)]
    OBVIOUS
  <1>7. \A i \in 1..n : P(i) \in 0..15 /\ Q(i) \in Seq(Bytes) /\ IsElement(Q(i), P(i), v)
    BY ONLY <1>3
  <1>8. n \in Nat
    BY ONLY <1>2
  <1> HIDE DEF P, Q, n, id, s
  <1>9. \A i \in 1..n : id[i] = P(i) /\ s[i] = Q(i)
    BY ONLY <1>6
  <1>10. Carries(x) <=> FoundFrom(id, n, 1)
    <2>1. ASSUME NEW j \in 1..n
          PROVE  (\A k \in 1..j : id[k] # 15) <=> (\A k \in 1..j : P(k) # 15)
      <3>1. \A k \in 1..j : k \in 1..n
        BY ONLY <1>8, <2>1
      <3> QED
        BY ONLY <1>9, <3>1
    <2> QED
      BY ONLY <1>5, <1>9, <2>1 DEF FoundFrom
  <1>11. \A i \in 1..n : IsElement(s[i], id[i], v)
    BY ONLY <1>7, <1>9
  <1>12. id \in [1..n -> 0..15] /\ s \in [1..n -> Seq(Bytes)]
    BY ONLY <1>6, <1>7
  <1>13. AreElements(n, id, s, v)
    BY ONLY <1>8, <1>11, <1>12 DEF AreElements
  <1>14. ParseTwccSeq(FlattenSeq(s)) = Outcome(id, n, 1, v)
    BY ONLY <1>13, ElementsAreRead
  <1> QED
    BY ONLY <1>4, <1>10, <1>14 DEF Outcome

-----------------------------------------------------------------------------
\* The status chunks.

\* The bits of the c-th chunk as they grow by the symbols s.
IsChunk(g, s) ==
    /\ g \in [0..Symbols -> Nat] /\ g[0] = 3
    /\ \A slot \in 1..Symbols : g[slot] = 4 * g[slot - 1] + s[slot]

\* A chunk can be written for any symbols.
LEMMA ChunkExists ==
    ASSUME NEW s \in [1..Symbols -> 0..2]
    PROVE  \E g : /\ IsChunk(g, s)
                  /\ g = [slot \in 0..Symbols |-> IF slot = 0 THEN 3 ELSE 4 * g[slot - 1] + s[slot]]
  <1> DEFINE step == [slot \in 1..Symbols |-> [x \in Nat |-> 4 * x + s[slot]]]
  <1>1. Symbols \in Nat \ {0}
    BY TwccAssumption
  <1>2. step \in [1..Symbols -> [Nat -> Nat]]
    OBVIOUS
  <1>3. \A slot \in 1..Symbols : \A x \in Nat : step[slot][x] = 4 * x + s[slot]
    OBVIOUS
  <1> HIDE DEF step
  <1>4. PICK g \in [0..Symbols -> Nat] : IsRecursion(g, Symbols, 3, step)
    BY <1>1, <1>2, RecursionExists
  <1>5. ASSUME NEW slot \in 1..Symbols PROVE g[slot] = 4 * g[slot - 1] + s[slot]
    <2>1. slot - 1 \in 0..Symbols
      BY <1>1
    <2>2. g[slot - 1] \in Nat
      BY <1>4, <2>1
    <2>3. g[slot] = step[slot][g[slot - 1]]
      BY <1>4 DEF IsRecursion
    <2> QED
      BY <1>3, <2>2, <2>3
  <1>6. g[0] = 3
    BY <1>4 DEF IsRecursion
  <1>7. \A slot \in 0..Symbols : g[slot] = IF slot = 0 THEN 3 ELSE 4 * g[slot - 1] + s[slot]
    BY <1>1, <1>5, <1>6
  <1>8. g = [slot \in 0..Symbols |-> IF slot = 0 THEN 3 ELSE 4 * g[slot - 1] + s[slot]]
    BY <1>4, <1>7
  <1> QED
    BY <1>4, <1>5, <1>6, <1>8 DEF IsChunk

\* What was written into a chunk is read out of it.
LEMMA DigitIsRead ==
    ASSUME NEW s \in [1..Symbols -> 0..2], NEW g, IsChunk(g, s), NEW slot \in 1..Symbols
    PROVE  Digit(g[Symbols], slot) = s[slot]
  <1> DEFINE chunk == g[Symbols]
             step == [k \in 1..Symbols |-> [x \in Nat |-> x \div 4]]
             E(h) == [k \in 0..Symbols |-> IF k = 0 THEN chunk ELSE h[k - 1] \div 4]
             C == CHOOSE h : h = E(h)
  <1>1. Symbols \in Nat \ {0} /\ Symbols \in 0..Symbols
    BY TwccAssumption
  <1>2. /\ g \in [0..Symbols -> Nat]
        /\ \A i \in 1..Symbols : g[i] = 4 * g[i - 1] + s[i]
    BY DEF IsChunk
  <1>3. chunk \in Nat
    BY <1>1, <1>2
  <1>4. step \in [1..Symbols -> [Nat -> Nat]]
    OBVIOUS
  <1>5. \A k \in 1..Symbols : \A x \in Nat : step[k][x] = x \div 4
    OBVIOUS
  <1> HIDE DEF step
  <1>6. Digit(chunk, slot) = C[Symbols - slot] % 4
    BY DEF Digit
  <1> HIDE DEF chunk
  <1>7. \E h : h = E(h)
    <2>1. PICK h \in [0..Symbols -> Nat] : IsRecursion(h, Symbols, chunk, step)
      BY <1>1, <1>3, <1>4, RecursionExists
    <2>2. ASSUME NEW k \in 1..Symbols PROVE h[k] = h[k - 1] \div 4
      <3>1. k - 1 \in 0..Symbols
        BY <1>1
      <3>2. h[k - 1] \in Nat
        BY <2>1, <3>1
      <3>3. h[k] = step[k][h[k - 1]]
        BY <2>1 DEF IsRecursion
      <3> QED
        BY <1>5, <3>2, <3>3
    <2>3. h[0] = chunk
      BY <2>1 DEF IsRecursion
    <2>4. \A k \in 0..Symbols : h[k] = IF k = 0 THEN chunk ELSE h[k - 1] \div 4
      BY <1>1, <2>2, <2>3
    <2>5. h = E(h)
      BY <2>1, <2>4
    <2> HIDE DEF E
    <2> QED
      BY <2>5
  <1>8. C = E(C)
    <2> HIDE DEF E
    <2> QED
      BY <1>7
  <1> HIDE DEF C
  <1>9. C[0] = chunk /\ \A k \in 1..Symbols : C[k] = C[k - 1] \div 4
    <2>1. \A k \in 0..Symbols : C[k] = IF k = 0 THEN chunk ELSE C[k - 1] \div 4
      BY <1>8
    <2> HIDE DEF E
    <2>2. 0 \in 0..Symbols /\ \A k \in 1..Symbols : k \in 0..Symbols /\ k # 0
      BY <1>1
    <2> QED
      BY ONLY <2>1, <2>2
  <1> HIDE DEF E
  <1> DEFINE Bad == {k \in Nat : k <= Symbols /\ C[k] # g[Symbols - k]}
  <1>10. ASSUME Bad # {} PROVE FALSE
    <2>1. PICK m \in Bad : \A k \in Bad : m <= k
      BY <1>10, LeastNat
    <2>2. m \in Nat /\ m <= Symbols /\ C[m] # g[Symbols - m]
      BY <2>1
    <2>3. m # 0
      <3>1. Symbols - 0 = Symbols
        BY <1>1
      <3> QED
        BY <1>9, <2>2, <3>1 DEF chunk
    <2>4. m - 1 \in Nat /\ m - 1 <= Symbols /\ ~(m <= m - 1) /\ m \in 1..Symbols
      BY <1>1, <2>2, <2>3
    <2>5. C[m - 1] = g[Symbols - (m - 1)]
      BY <2>1, <2>4
    <2> DEFINE j == Symbols - (m - 1)
    <2>6. j \in 1..Symbols /\ j - 1 = Symbols - m /\ j - 1 \in 0..Symbols
      BY <1>1, <2>2, <2>4
    <2> HIDE DEF j
    <2>7. g[j] = 4 * g[j - 1] + s[j] /\ s[j] \in 0..2 /\ g[j - 1] \in Nat
      BY <1>2, <2>6
    <2>8. g[j] \div 4 = g[j - 1]
      <3> DEFINE a == g[j]
                 b == g[j - 1]
                 c == s[j]
      <3>1. a = 4 * b + c /\ c \in 0..2 /\ b \in Nat
        BY <2>7
      <3> HIDE DEF a, b, c
      <3>2. a \div 4 = b
        BY ONLY <3>1
      <3> QED
        BY <3>2 DEF a, b
    <2>9. C[m] = C[m - 1] \div 4
      BY <1>9, <2>4
    <2> QED
      BY <2>2, <2>5, <2>6, <2>8, <2>9 DEF j
  <1>11. C[Symbols - slot] = g[slot]
    <2> DEFINE k == Symbols - slot
    <2>1. k \in Nat /\ k <= Symbols /\ Symbols - k = slot
      BY <1>1
    <2> HIDE DEF k
    <2>2. C[k] = g[Symbols - k]
      BY <1>10, <2>1
    <2> QED
      BY <2>1, <2>2 DEF k
  <1>12. g[slot] % 4 = s[slot]
    <2> DEFINE a == g[slot]
               b == g[slot - 1]
               c == s[slot]
    <2>1. slot - 1 \in 0..Symbols
      BY <1>1
    <2>2. a = 4 * b + c /\ c \in 0..2 /\ b \in Nat
      BY <1>2, <2>1
    <2> HIDE DEF a, b, c
    <2>3. a % 4 = c
      BY ONLY <2>2
    <2> QED
      BY <2>3 DEF a, c
  <1> QED
    BY <1>6, <1>11, <1>12 DEF chunk

\* Where the i-th symbol is, in chunks of Symbols each.
LEMMA PlaceOfSymbol ==
    ASSUME NEW m \in Nat, NEW i \in 1..m * Symbols
    PROVE  LET c == 1 + ((i - 1) \div Symbols)
               slot == 1 + ((i - 1) % Symbols)
           IN c \in 1..m /\ slot \in 1..Symbols /\ Symbols * (c - 1) + slot = i
  <1> DEFINE q == (i - 1) \div Symbols
             r == (i - 1) % Symbols
  <1>1. Symbols \in Nat \ {0}
    BY TwccAssumption
  <1>2. m * Symbols \in Nat
    BY <1>1
  <1>3. i \in Nat /\ i >= 1 /\ i <= m * Symbols
    BY <1>2
  <1>4. q \in Int /\ r \in 0..Symbols - 1 /\ i - 1 = Symbols * q + r
    BY <1>1, <1>3
  <1> HIDE DEF q, r
  <1>5. q >= 0
    <2>1. q <= -1 => Symbols * q <= -Symbols
      BY <1>1, <1>4
    <2> QED
      BY <1>1, <1>3, <1>4, <2>1
  <1>6. q < m
    <2>1. q >= m => Symbols * q >= m * Symbols
      BY <1>1, <1>4
    <2> QED
      BY <1>1, <1>3, <1>4, <2>1
  <1>7. 1 + q \in 1..m /\ 1 + r \in 1..Symbols /\ Symbols * ((1 + q) - 1) + (1 + r) = i
    <2>1. (1 + q) - 1 = q
      BY <1>4
    <2>2. Symbols * q \in Int
      BY <1>1, <1>4
    <2>3. Symbols * q + (1 + r) = i
      BY <1>3, <1>4, <2>2
    <2> QED
      BY <1>1, <1>4, <1>5, <1>6, <2>1, <2>3
  <1> QED
    BY <1>7 DEF q, r

\* How many chunks n statuses take.
LEMMA ChunkCount ==
    ASSUME NEW n \in Nat
    PROVE  LET m == (n + Symbols - 1) \div Symbols
           IN m \in Nat /\ m * Symbols \in n..(n + Symbols - 1)
  <1> DEFINE a == n + Symbols - 1
             m == a \div Symbols
             r == a % Symbols
  <1>1. Symbols \in Nat \ {0}
    BY TwccAssumption
  <1>2. a \in Nat
    BY <1>1
  <1>3. m \in Int /\ r \in 0..Symbols - 1 /\ a = Symbols * m + r
    BY <1>1, <1>2
  <1>4. a = n + Symbols - 1
    OBVIOUS
  <1> HIDE DEF m, r, a
  <1>5. m >= 0
    <2>1. m <= -1 => Symbols * m <= -Symbols
      BY <1>1, <1>3
    <2> QED
      BY <1>1, <1>2, <1>3, <2>1
  <1>6. m * Symbols = Symbols * m /\ Symbols * m \in Int
    BY <1>1, <1>3
  <1>7. m * Symbols \in n..(n + Symbols - 1)
    BY <1>1, <1>3, <1>4, <1>6
  <1> QED
    BY <1>3, <1>5, <1>7 DEF m, a

\* The chunks of n statuses hold them in order, and nothing behind them.
LEMMA StatusesAreRead ==
    ASSUME NEW n \in Nat, NEW st \in [1..n -> 0..2], NEW f, f.chunks = EncodeStatusChunks(st)
    PROVE  /\ Len(f.chunks) * Symbols \in n..(n + Symbols - 1)
           /\ \A i \in 1..Len(f.chunks) * Symbols :
                ReadStatus(f, i) = IF i <= n THEN st[i] ELSE 0
  <1> DEFINE m == (n + Symbols - 1) \div Symbols
             At(i) == IF i <= n THEN st[i] ELSE 0
             s(c) == [slot \in 1..Symbols |-> At(Symbols * (c - 1) + slot)]
             E(c, g) == [slot \in 0..Symbols |->
                           IF slot = 0 THEN 3
                           ELSE 4 * g[slot - 1] + At(Symbols * (c - 1) + slot)]
             C(c) == CHOOSE g : g = E(c, g)
             chunks == [c \in 1..m |-> C(c)[Symbols]]
  <1>1. Symbols \in Nat \ {0} /\ m \in Nat /\ m * Symbols \in n..(n + Symbols - 1)
    <2>1. m \in Nat /\ m * Symbols \in n..(n + Symbols - 1)
      BY ChunkCount
    <2> QED
      BY <2>1, TwccAssumption
  <1>2. Len(st) = n
    OBVIOUS
  <1>3. f.chunks = chunks
    BY <1>2 DEF EncodeStatusChunks
  <1> HIDE DEF m
  <1>4. Len(chunks) = m
    BY <1>1
  <1>5. ASSUME NEW c \in 1..m
        PROVE  \A slot \in 1..Symbols : Digit(C(c)[Symbols], slot) = s(c)[slot]
    <2>1. s(c) \in [1..Symbols -> 0..2]
      <3>1. ASSUME NEW slot \in 1..Symbols PROVE At(Symbols * (c - 1) + slot) \in 0..2
        <4> DEFINE i == Symbols * (c - 1) + slot
        <4>1. i \in Nat /\ i >= 1
          <5>1. Symbols * (c - 1) \in Nat
            BY <1>1
          <5> QED
            BY <5>1
        <4> HIDE DEF i
        <4>2. At(i) \in 0..2
          BY <4>1
        <4> QED
          BY <4>2 DEF i
      <3> HIDE DEF At
      <3> QED
        BY <3>1
    <2> DEFINE sc == s(c)
               D(g) == [slot \in 0..Symbols |-> IF slot = 0 THEN 3 ELSE 4 * g[slot - 1] + sc[slot]]
    <2>2. \A g : E(c, g) = D(g)
      <3>1. \A slot \in 1..Symbols : sc[slot] = At(Symbols * (c - 1) + slot)
        BY DEF s
      <3>2. \A slot \in 0..Symbols : slot # 0 => slot \in 1..Symbols
        BY <1>1
      <3> HIDE DEF At, sc
      <3> QED
        BY ONLY <3>1, <3>2
    <2>3. PICK g : IsChunk(g, sc) /\ g = D(g)
      <3> HIDE DEF s, E, C, At
      <3> QED
        BY <2>1, ChunkExists
    <2> DEFINE h == C(c)
    <2>4. h = E(c, h)
      <3>1. \E x : x = E(c, x)
        <4> HIDE DEF D, E
        <4> QED
          BY <2>2, <2>3
      <3> HIDE DEF E
      <3> QED
        BY <3>1
    <2>5. h = D(h)
      <3> HIDE DEF D, E, h
      <3> QED
        BY <2>2, <2>4
    <2> HIDE DEF h, E, C, sc
    <2>6. IsChunk(h, sc)
      <3>1. /\ DOMAIN h = 0..Symbols /\ h = [slot \in 0..Symbols |-> h[slot]] /\ h[0] = 3
            /\ \A slot \in 1..Symbols : h[slot] = 4 * h[slot - 1] + sc[slot]
        <4>1. 0 \in 0..Symbols /\ \A slot \in 1..Symbols : slot \in 0..Symbols /\ slot # 0
          BY <1>1
        <4>2. DOMAIN h = 0..Symbols /\ h = [slot \in 0..Symbols |-> h[slot]]
          BY ONLY <2>5
        <4>3. \A slot \in 0..Symbols : h[slot] = IF slot = 0 THEN 3 ELSE 4 * h[slot - 1] + sc[slot]
          BY ONLY <2>5
        <4> QED
          BY ONLY <4>1, <4>2, <4>3
      <3> DEFINE Bad == {k \in Nat : k <= Symbols /\ h[k] \notin Nat}
      <3>2. ASSUME Bad # {} PROVE FALSE
        <4>1. PICK k \in Bad : \A j \in Bad : k <= j
          BY <3>2, LeastNat
        <4>2. k \in Nat /\ k <= Symbols /\ h[k] \notin Nat /\ k # 0
          BY <3>1, <4>1
        <4>3. k - 1 \in Nat /\ k - 1 <= Symbols /\ ~(k <= k - 1) /\ k \in 1..Symbols
          BY <1>1, <4>2
        <4>4. h[k - 1] \in Nat
          BY <4>1, <4>3
        <4>5. sc[k] \in 0..2
          BY <2>1, <4>3 DEF sc
        <4>6. h[k] = 4 * h[k - 1] + sc[k]
          BY <3>1, <4>3
        <4> QED
          BY ONLY <4>2, <4>4, <4>5, <4>6
      <3>3. \A k \in 0..Symbols : h[k] \in Nat
        BY <1>1, <3>2
      <3>4. h \in [0..Symbols -> Nat]
        BY ONLY <3>1, <3>3
      <3> QED
        BY ONLY <3>1, <3>4 DEF IsChunk
    <2>7. \A slot \in 1..Symbols : Digit(h[Symbols], slot) = sc[slot]
      BY <2>1, <2>6, DigitIsRead DEF sc
    <2> QED
      BY <2>7 DEF h, sc
  <1>6. ASSUME NEW i \in 1..m * Symbols PROVE ReadStatus(f, i) = At(i)
    <2> DEFINE c == 1 + ((i - 1) \div Symbols)
               slot == 1 + ((i - 1) % Symbols)
    <2>1. c \in 1..m /\ slot \in 1..Symbols /\ Symbols * (c - 1) + slot = i
      BY <1>1, PlaceOfSymbol
    <2>2. ReadStatus(f, i) = Digit(f.chunks[c], slot)
      BY DEF ReadStatus
    <2> HIDE DEF c, slot, C, At
    <2>3. f.chunks[c] = C(c)[Symbols]
      BY ONLY <1>3, <2>1
    <2>4. Digit(C(c)[Symbols], slot) = s(c)[slot]
      BY <1>5, <2>1
    <2>5. s(c)[slot] = At(i)
      BY <2>1
    <2> QED
      BY ONLY <2>2, <2>3, <2>4, <2>5
  <1> HIDE DEF chunks
  <1> QED
    BY <1>1, <1>3, <1>4, <1>6

-----------------------------------------------------------------------------
\* The recorder.

\* What the assumptions say of the constants.
LEMMA Constants ==
    /\ SeqRange \in Nat \ {0} /\ Capacity \in Nat \ {0} /\ FeedbackMod \in Nat \ {0}
    /\ StepBack \in 0..(Capacity - 1) /\ 2 * Capacity <= SeqRange
    /\ Gaps \subseteq Nat /\ MaxSent \in Nat /\ MaxTime \in Nat /\ None \notin Int
    /\ Overtaking \in Nat /\ Jump \in Nat
  BY TwccAssumption

\* Packets that share a slot are at least Capacity apart.
LEMMA ApartInSlot ==
    ASSUME NEW a \in Nat, NEW b \in Nat, a % Capacity = b % Capacity, a > b
    PROVE  a >= b + Capacity
  <1>1. Capacity \in Nat \ {0}
    BY Constants
  <1> DEFINE r == a % Capacity
  <1>0. a \in Int /\ b \in Int
    OBVIOUS
  <1>2. PICK j \in Int : a = r + Capacity * j
    BY ONLY <1>0, <1>1, ModOf
  <1>3. PICK k \in Int : b = r + Capacity * k
    <2>1. \E k \in Int : b = (b % Capacity) + Capacity * k
      BY ONLY <1>0, <1>1, ModOf
    <2> QED
      BY <2>1
  <1>4. r \in Int
    BY <1>1, ModOf
  <1> HIDE DEF r
  <1> DEFINE x == j - k
             y == Capacity * x
  <1>5. x \in Int /\ y = a - b
    BY <1>1, <1>2, <1>3, <1>4
  <1>6. x <= 0 => y <= 0
    BY <1>1, <1>5
  <1>7. x >= 1 => y >= Capacity
    BY <1>1, <1>5
  <1> HIDE DEF x, y
  <1> QED
    BY <1>1, <1>5, <1>6, <1>7

\* The slot of a packet is found by its sequence number.
LEMMA SlotOfPacket ==
    ASSUME NEW n \in Nat
    PROVE  Slot(n % SeqRange) = n % Capacity
  <1>1. SeqRange \in Nat \ {0} /\ Capacity \in Nat \ {0} /\ SeqRange % Capacity = 0
    BY TwccAssumption
  <1> DEFINE v == n % SeqRange
  <1>2. v \in Int
    BY <1>1, ModOf
  <1>8. n \in Int /\ SeqRange \in Int
    BY <1>1
  <1>3. PICK k \in Int : n = v + SeqRange * k
    BY ONLY <1>1, <1>8, ModOf
  <1>4. PICK q \in Int : SeqRange = (SeqRange % Capacity) + Capacity * q
    BY ONLY <1>1, <1>8, ModOf
  <1> HIDE DEF v
  <1>5. SeqRange = Capacity * q
    BY <1>1, <1>4
  <1>6. n = v + Capacity * (q * k) /\ q * k \in Int
    BY <1>1, <1>2, <1>3, <1>5
  <1>7. n % Capacity = v % Capacity
    BY ONLY <1>1, <1>2, <1>6, <1>8, ModShift
  <1> QED
    BY <1>7 DEF v, Slot

\* Sequence numbers are the same after whole rounds of them.
LEMMA SameNumber ==
    ASSUME NEW a \in Nat, NEW b \in Nat
    PROVE  a % SeqRange = b % SeqRange <=> (b - a) % SeqRange = 0
  <1>1. SeqRange \in Nat \ {0} /\ a \in Int /\ b \in Int
    BY Constants
  <1> DEFINE x == a % SeqRange
             y == b % SeqRange
             d == y - x
  <1>2. x \in 0..SeqRange - 1
    BY ONLY <1>1, ModOf
  <1>3. y \in 0..SeqRange - 1
    BY ONLY <1>1, ModOf
  <1>4. (y - x) % SeqRange = (b - a) % SeqRange
    BY ONLY <1>1, ModTerms
  <1> HIDE DEF x, y
  <1>5. d \in Int /\ (x = y <=> d = 0) /\ d > -SeqRange /\ d < SeqRange
    BY ONLY <1>1, <1>2, <1>3
  <1> HIDE DEF d
  <1>6. d >= 0 => d % SeqRange = d
    BY ONLY <1>1, <1>5, ModBelow
  <1>7. d < 0 => d % SeqRange # 0
    <2> DEFINE e == d + SeqRange
    <2>1. e \in Int /\ e = d + SeqRange /\ (d < 0 => e \in Nat /\ e < SeqRange /\ e # 0)
      BY ONLY <1>1, <1>5
    <2> HIDE DEF e
    <2>2. e % SeqRange = d % SeqRange
      BY ONLY <1>1, <1>5, <2>1, ModPlus
    <2>3. d < 0 => e % SeqRange = e
      BY ONLY <1>1, <2>1, ModBelow
    <2> QED
      BY ONLY <2>1, <2>2, <2>3
  <1>8. x = y <=> d % SeqRange = 0
    BY ONLY <1>1, <1>5, <1>6, <1>7
  <1>9. d % SeqRange = (b - a) % SeqRange
    BY ONLY <1>4 DEF d
  <1> QED
    BY ONLY <1>8, <1>9 DEF x, y

\* And so are slots.
LEMMA SameSlot ==
    ASSUME NEW a \in Nat, NEW b \in Nat, (b - a) % SeqRange = 0
    PROVE  a % Capacity = b % Capacity
  <1>1. a % SeqRange = b % SeqRange
    BY SameNumber
  <1>2. Slot(a % SeqRange) = a % Capacity /\ Slot(b % SeqRange) = b % Capacity
    BY SlotOfPacket
  <1> QED
    BY <1>1, <1>2

\* What a step of the timer does to the recorder.
LEMMA FeedbackStep ==
    ASSUME Feedback
    PROVE  /\ PendingCount > 0
           /\ UNCHANGED <<now, arrivals, max_seq, started, base_time, highest, when>>
           /\ \/ /\ PendingCount > Capacity /\ pending_base_seq' = WrappingSub(max_seq, StepBack)
                 /\ feedback' = None /\ covered' = highest - StepBack /\ UNCHANGED fb_pkt_count
              \/ /\ ~(PendingCount > Capacity)
                 /\ feedback'.base = pending_base_seq /\ feedback'.count = PendingCount
                 /\ feedback'.since = covered
                 /\ fb_pkt_count' = (fb_pkt_count + 1) % FeedbackMod
                 /\ pending_base_seq' = AdvanceBase(pending_base_seq, PendingCount)
                 /\ covered' = highest + 1
  BY DEF Feedback

\* The packet that has the sequence number of a packet n of the publisher is noted if its
\* extension carries the number; otherwise only the time passes.
LEMMA ArriveStep ==
    ASSUME NEW n \in Packets, NEW gap \in Gaps, NEW extension \in Extensions,
           Arrive(n, gap, extension)
    PROVE  /\ started => n \in (highest - Overtaking)..(highest + Jump)
           /\ now' = now + gap
           /\ \/ /\ Carries(extension) /\ Record(n % SeqRange)
                 /\ when' = [when EXCEPT ![n] = now']
                 /\ highest' = (IF ~started \/ n > highest THEN n ELSE highest)
                 /\ covered' = (IF ~started THEN n ELSE covered)
              \/ /\ ~Carries(extension) /\ UNCHANGED <<recorder, highest, covered>>
                 /\ when' = [when EXCEPT ![n] = when[n]]
           /\ when[n] = None /\ feedback' = None /\ UNCHANGED fb_pkt_count
  <1> DEFINE v == n % SeqRange
  <1>1. n \in Nat /\ SeqRange \in Nat \ {0} /\ SeqRange <= 65536
    BY TwccAssumption DEF Packets
  <1>2. v \in 0..SeqRange - 1
    BY <1>1, ModOf
  <1> HIDE DEF v
  <1>3. v \in Numbers /\ v \in Int
    BY <1>1, <1>2 DEF Numbers
  <1> DEFINE seq == ParseTwccSeq(Serialize(extension, v))
             c == Carries(extension)
  <1>4. seq = IF c THEN v ELSE None
    BY <1>3, ParserReads
  <1>5. None \notin Int
    BY TwccAssumption
  <1>6. /\ when[n] = None
        /\ started => n \in (highest - Overtaking)..(highest + Jump)
        /\ now' = now + gap
        /\ IF seq = None THEN UNCHANGED recorder ELSE Record(seq)
        /\ when' = [when EXCEPT ![n] = IF c THEN now' ELSE @]
        /\ highest' = IF c /\ (~started \/ n > highest) THEN n ELSE highest
        /\ covered' = IF c /\ ~started THEN n ELSE covered
        /\ feedback' = None
        /\ UNCHANGED fb_pkt_count
    BY DEF Arrive, v
  <1> HIDE DEF seq, c
  <1>7. CASE c
    <2>1. seq = v /\ seq # None
      BY ONLY <1>3, <1>4, <1>5, <1>7
    <2>2. Record(v)
      BY ONLY <1>6, <2>1
    <2>3. when' = [when EXCEPT ![n] = now']
      BY ONLY <1>6, <1>7
    <2>4. highest' = (IF ~started \/ n > highest THEN n ELSE highest)
          /\ covered' = (IF ~started THEN n ELSE covered)
      BY ONLY <1>6, <1>7
    <2> QED
      BY ONLY <1>6, <1>7, <2>2, <2>3, <2>4 DEF c, v
  <1>8. CASE ~c
    <2>1. seq = None
      BY ONLY <1>4, <1>8
    <2>2. UNCHANGED recorder
      BY ONLY <1>6, <2>1
    <2>3. when' = [when EXCEPT ![n] = when[n]]
      BY ONLY <1>6, <1>8
    <2>4. highest' = highest /\ covered' = covered
      BY ONLY <1>6, <1>8
    <2> QED
      BY ONLY <1>6, <1>8, <2>2, <2>3, <2>4 DEF c
  <1> QED
    BY ONLY <1>7, <1>8

\* What the recorder takes for newer is newer, as far as packets are apart.
LEMMA NewerIsAhead ==
    ASSUME NEW h \in Nat, NEW n \in Nat, n \in (h - Overtaking)..(h + Jump)
    PROVE  WrappingSub(n % SeqRange, h % SeqRange) \in 1..(SeqRange \div 2 - 1) <=> n > h
  <1> DEFINE d == n - h
             half == SeqRange \div 2
             r == d % SeqRange
  <1>1. /\ SeqRange \in Nat \ {0} /\ Overtaking \in Nat /\ Jump \in Nat
        /\ Jump < half /\ 2 * Overtaking < SeqRange
    BY TwccAssumption
  <1>2. half \in Nat /\ 2 * half <= SeqRange
    BY <1>1
  <1>3. d \in Int /\ -Overtaking <= d /\ d <= Jump /\ (n > h <=> d > 0)
    BY <1>1
  <1>4. WrappingSub(n % SeqRange, h % SeqRange) = r
    <2>1. ((n % SeqRange) - (h % SeqRange)) % SeqRange = (n - h) % SeqRange
      <3>1. SeqRange \in Nat \ {0} /\ n \in Int /\ h \in Int
        BY <1>1
      <3> QED
        BY ONLY <3>1, ModTerms
    <2> QED
      BY ONLY <2>1 DEF WrappingSub
  <1> HIDE DEF d, half
  <1>5. d >= 0 => r = d
    BY <1>1, <1>2, <1>3, ModBelow
  <1>6. d < 0 => r = d + SeqRange
    <2> DEFINE b == d + SeqRange
    <2>1. b \in Int /\ d \in Int /\ b = d + SeqRange
      BY <1>1, <1>3
    <2>2. d < 0 => b \in Nat /\ b < SeqRange
      BY <1>1, <1>3
    <2> HIDE DEF b
    <2>3. b % SeqRange = d % SeqRange
      BY ONLY <1>1, <2>1, ModPlus
    <2>4. d < 0 => b % SeqRange = b
      BY <1>1, <2>2, ModBelow
    <2> QED
      BY <2>3, <2>4 DEF b
  <1> HIDE DEF r
  <1>7. r \in 1..(half - 1) <=> d > 0
    BY <1>1, <1>2, <1>3, <1>5, <1>6
  <1> QED
    BY <1>3, <1>4, <1>7 DEF half

\* The recorder's numbers are those of the packets, wrapped.
Numbered ==
    started => max_seq = highest % SeqRange /\ pending_base_seq = covered % SeqRange

\* The feedback f covers the packets from since up to high, wrapped as they are.
CoversFrom(f, since, high) ==
    /\ since \in 0..high + 1 /\ f.since = since
    /\ f.base = since % SeqRange
    /\ f.count = (high - since + 1) % SeqRange /\ f.count \in 1..Capacity

\* What the feedback covers.
FeedbackCovers == feedback # None => \E since \in Int : CoversFrom(feedback, since, highest)

\* The invariant behind the first two theorems.
IInv == TypeOK /\ Numbered /\ covered <= highest + 1 /\ FeedbackCovers

\* The number of pending packets, which the code takes from wrapped numbers.
LEMMA CountIsPending ==
    ASSUME TypeOK, Numbered, covered <= highest + 1, started
    PROVE  PendingCount = (highest - covered + 1) % SeqRange
  <1>1. SeqRange \in Nat \ {0} /\ highest \in Int /\ covered \in Int
    BY TwccAssumption DEF TypeOK, Packets
  <1>2. PendingCount = (max_seq - pending_base_seq + 1) % SeqRange
    BY DEF PendingCount
  <1>3. max_seq = highest % SeqRange /\ pending_base_seq = covered % SeqRange
    BY DEF Numbered
  <1> QED
    BY ONLY <1>1, <1>2, <1>3, ModTerms

\* A packet is noted.
LEMMA RecordKeeps ==
    ASSUME IInv, NEW n \in Packets, NEW gap \in Gaps, Record(n % SeqRange),
           started => n \in (highest - Overtaking)..(highest + Jump), now' = now + gap,
           when' = [when EXCEPT ![n] = now'],
           highest' = (IF ~started \/ n > highest THEN n ELSE highest),
           covered' = (IF ~started THEN n ELSE covered),
           feedback' = None, UNCHANGED fb_pkt_count
    PROVE  IInv'
  <1> DEFINE v == n % SeqRange
             slot == Slot(v)
             x == [twcc_seq |-> v, arrival |-> now']
  <1>1. v \in 0..SeqRange - 1 /\ slot \in 0..Capacity - 1 /\ v \in Int
    BY Constants, ModOf DEF Packets, Slot
  <1>2. /\ TypeOK /\ Numbered /\ covered <= highest + 1
    BY DEF IInv
  <1>3. /\ arrivals' = [arrivals EXCEPT ![slot] = x] /\ started' = TRUE
        /\ IF started
           THEN /\ max_seq' = IF WrappingSub(v, max_seq) \in 1..(SeqRange \div 2 - 1)
                              THEN v ELSE max_seq
                /\ UNCHANGED <<pending_base_seq, base_time>>
           ELSE max_seq' = v /\ pending_base_seq' = v /\ base_time' = now'
    BY DEF Record
  <1>4. now \in Nat /\ now' \in Nat /\ now <= now'
    BY <1>2, Constants DEF TypeOK
  <1>5. n \in Nat /\ n <= MaxSent /\ MaxSent \in Nat
    BY Constants DEF Packets
  <1> HIDE DEF v
  <1>6. arrivals' \in [0..Capacity - 1 -> [twcc_seq : 0..SeqRange - 1, arrival : 0..now'] \cup {None}]
    <2> DEFINE A(t) == [twcc_seq : 0..SeqRange - 1, arrival : 0..t] \cup {None}
    <2>1. x \in A(now')
      BY <1>1, <1>4
    <2>2. A(now) \subseteq A(now')
      BY <1>4
    <2>3. arrivals \in [0..Capacity - 1 -> A(now)]
      BY <1>2 DEF TypeOK
    <2> HIDE DEF A, x, slot
    <2>4. arrivals' \in [0..Capacity - 1 -> A(now')]
      BY <1>1, <1>3, <2>1, <2>2, <2>3
    <2> QED
      BY <2>4 DEF A
  <1>7. \A s \in 0..Capacity - 1 : arrivals'[s] # None => Slot(arrivals'[s].twcc_seq) = s
    <2>1. \A s \in 0..Capacity - 1 : arrivals[s] # None => Slot(arrivals[s].twcc_seq) = s
      BY <1>2 DEF TypeOK
    <2>2. DOMAIN arrivals = 0..Capacity - 1
      BY <1>2 DEF TypeOK
    <2>3. Slot(x.twcc_seq) = slot
      OBVIOUS
    <2> HIDE DEF x, slot
    <2> QED
      BY <1>1, <1>3, <2>1, <2>2, <2>3
  <1>8. started' \in BOOLEAN /\ (started' <=> base_time' # None)
    <2>1. CASE started
      BY <1>2, <1>3, <2>1 DEF TypeOK
    <2>2. CASE ~started
      BY <1>3, <1>4, <2>2, Constants
    <2> QED
      BY <2>1, <2>2
  <1>9. {pending_base_seq', max_seq'} \subseteq 0..SeqRange - 1
    BY <1>1, <1>2, <1>3 DEF TypeOK
  <1>10. highest' \in Packets /\ covered' \in 0..MaxSent + 1 /\ covered' <= highest' + 1
    BY <1>2, <1>5 DEF TypeOK, Packets
  <1>11. when' \in [Packets -> 0..now' \cup {None}]
    <2>1. when \in [Packets -> 0..now \cup {None}] /\ 0..now \subseteq 0..now' /\ now' \in 0..now'
      BY <1>2, <1>4 DEF TypeOK
    <2> QED
      BY <2>1
  <1>12. TypeOK'
    <2>1. fb_pkt_count' \in 0..FeedbackMod - 1
      BY <1>2 DEF TypeOK
    <2> QED
      BY <1>4, <1>6, <1>7, <1>8, <1>9, <1>10, <1>11, <2>1 DEF TypeOK
  <1>13. Numbered'
    <2>1. CASE started
      <3>1. max_seq = highest % SeqRange /\ pending_base_seq = covered % SeqRange /\ highest \in Nat
        BY <1>2, <2>1 DEF Numbered, TypeOK, Packets
      <3>2. n \in (highest - Overtaking)..(highest + Jump)
        BY <2>1
      <3>3. WrappingSub(v, max_seq) \in 1..(SeqRange \div 2 - 1) <=> n > highest
        BY <1>5, <3>1, <3>2, NewerIsAhead DEF v
      <3>4. max_seq' = highest' % SeqRange
        BY <1>3, <2>1, <3>1, <3>3 DEF v
      <3>5. pending_base_seq' = covered' % SeqRange
        BY <1>3, <2>1, <3>1
      <3> QED
        BY <3>4, <3>5 DEF Numbered
    <2>2. CASE ~started
      BY <1>3, <2>2 DEF Numbered, v
    <2> QED
      BY <2>1, <2>2
  <1>14. FeedbackCovers'
    BY DEF FeedbackCovers
  <1> QED
    BY <1>10, <1>12, <1>13, <1>14 DEF IInv

\* A packet arrives.
LEMMA ArriveKeeps ==
    ASSUME IInv, NEW n \in Packets, NEW gap \in Gaps, NEW extension \in Extensions,
           Arrive(n, gap, extension)
    PROVE  IInv'
  <1> DEFINE c == Carries(extension)
  <1>1. /\ started => n \in (highest - Overtaking)..(highest + Jump)
        /\ now' = now + gap
        /\ \/ /\ c /\ Record(n % SeqRange)
              /\ when' = [when EXCEPT ![n] = now']
              /\ highest' = (IF ~started \/ n > highest THEN n ELSE highest)
              /\ covered' = (IF ~started THEN n ELSE covered)
           \/ /\ ~c /\ UNCHANGED <<recorder, highest, covered>>
              /\ when' = [when EXCEPT ![n] = when[n]]
        /\ feedback' = None /\ UNCHANGED fb_pkt_count
    BY ArriveStep
  <1> HIDE DEF c
  <1>2. CASE c
    BY <1>1, <1>2, RecordKeeps
  <1>3. CASE ~c
    <2>1. /\ UNCHANGED <<arrivals, pending_base_seq, max_seq, started, base_time,
                         highest, covered, fb_pkt_count>>
          /\ feedback' = None
      BY <1>1, <1>3 DEF recorder
    <2>2. TypeOK /\ Numbered /\ covered <= highest + 1
      BY DEF IInv
    <2>3. when' = when
      BY <1>1, <1>3, <2>2 DEF TypeOK
    <2>4. now \in Nat /\ now' \in Nat /\ 0..now \subseteq 0..now'
      BY <1>1, <2>2, Constants DEF TypeOK
    <2> DEFINE A(t) == [twcc_seq : 0..SeqRange - 1, arrival : 0..t] \cup {None}
    <2>5. A(now) \subseteq A(now')
      BY <2>4
    <2>6. arrivals \in [0..Capacity - 1 -> A(now)]
      BY <2>2 DEF TypeOK
    <2> HIDE DEF A
    <2>7. arrivals' \in [0..Capacity - 1 -> A(now')]
      BY <2>1, <2>5, <2>6
    <2>8. when' \in [Packets -> 0..now' \cup {None}]
      BY <2>2, <2>3, <2>4 DEF TypeOK
    <2>9. TypeOK'
      BY <2>1, <2>2, <2>4, <2>7, <2>8 DEF TypeOK, A
    <2>10. Numbered' /\ FeedbackCovers' /\ covered' <= highest' + 1
      BY <2>1, <2>2 DEF Numbered, FeedbackCovers
    <2> QED
      BY <2>9, <2>10 DEF IInv
  <1> QED
    BY <1>2, <1>3

\* The timer builds a feedback, or restarts a recorder that is overfull.
LEMMA FeedbackKeeps ==
    ASSUME IInv, Feedback
    PROVE  IInv'
  <1> DEFINE count == PendingCount
  <1>1. /\ count > 0
        /\ UNCHANGED <<now, arrivals, max_seq, started, base_time, highest, when>>
        /\ \/ /\ count > Capacity /\ pending_base_seq' = WrappingSub(max_seq, StepBack)
              /\ feedback' = None /\ covered' = highest - StepBack /\ UNCHANGED fb_pkt_count
           \/ /\ ~(count > Capacity)
              /\ feedback'.base = pending_base_seq /\ feedback'.count = count
              /\ feedback'.since = covered
              /\ fb_pkt_count' = (fb_pkt_count + 1) % FeedbackMod
              /\ pending_base_seq' = AdvanceBase(pending_base_seq, count)
              /\ covered' = highest + 1
    BY FeedbackStep
  <1>2. TypeOK /\ Numbered /\ covered <= highest + 1
    BY DEF IInv
  <1>3. started
    BY <1>1 DEF PendingCount
  <1>4. count = (highest - covered + 1) % SeqRange
    BY <1>2, <1>3, CountIsPending
  <1>5. max_seq = highest % SeqRange /\ pending_base_seq = covered % SeqRange
    BY <1>2, <1>3 DEF Numbered
  <1>6. highest \in Nat /\ highest <= MaxSent /\ covered \in Nat /\ SeqRange \in Nat \ {0}
        /\ Capacity \in Nat /\ StepBack \in Nat /\ StepBack < Capacity
    BY <1>2, Constants DEF TypeOK, Packets
  <1> HIDE DEF count
  <1> DEFINE d == highest - covered + 1
  <1>7. d \in Nat
    BY <1>2, <1>6
  <1>8. count \in 0..SeqRange - 1 /\ count <= d
    <2>1. d % SeqRange <= d /\ d % SeqRange \in 0..SeqRange - 1
      <3> HIDE DEF d
      <3>1. d % SeqRange <= d
        BY ONLY <1>6, <1>7, ModBelow
      <3>2. d \in Int
        BY ONLY <1>7
      <3>3. d % SeqRange \in 0..SeqRange - 1
        BY ONLY <1>6, <3>2, ModOf
      <3> QED
        BY ONLY <3>1, <3>3
    <2> QED
      BY ONLY <1>4, <2>1
  <1>9. /\ covered' \in 0..MaxSent + 1 /\ covered' <= highest' + 1
        /\ pending_base_seq' = covered' % SeqRange
        /\ fb_pkt_count' \in 0..FeedbackMod - 1
        /\ FeedbackCovers'
    <2>1. CASE count > Capacity
      <3>1. covered' = highest - StepBack /\ highest' = highest /\ feedback' = None
            /\ pending_base_seq' = WrappingSub(max_seq, StepBack) /\ fb_pkt_count' = fb_pkt_count
        BY <1>1, <2>1
      <3>2. covered' \in 0..MaxSent + 1 /\ covered' <= highest' + 1
        BY <1>6, <1>8, <2>1, <3>1, Constants
      <3>3. pending_base_seq' = (highest - StepBack) % SeqRange
        <4>1. ((highest % SeqRange) - StepBack) % SeqRange = (highest - StepBack) % SeqRange
          <5>1. SeqRange \in Nat \ {0} /\ highest \in Int /\ StepBack \in Int
            BY <1>6
          <5> QED
            BY ONLY <5>1, ModTerms
        <4> QED
          BY <1>5, <3>1, <4>1 DEF WrappingSub
      <3>4. fb_pkt_count' \in 0..FeedbackMod - 1
        BY <1>2, <3>1 DEF TypeOK
      <3> QED
        BY <3>1, <3>2, <3>3, <3>4 DEF FeedbackCovers
    <2>2. CASE ~(count > Capacity)
      <3>1. /\ covered' = highest + 1 /\ highest' = highest
            /\ feedback'.base = pending_base_seq /\ feedback'.count = count
            /\ feedback'.since = covered
            /\ pending_base_seq' = AdvanceBase(pending_base_seq, count)
            /\ fb_pkt_count' = (fb_pkt_count + 1) % FeedbackMod
        BY <1>1, <2>2
      <3>2. covered' \in 0..MaxSent + 1 /\ covered' <= highest' + 1
        BY <1>6, <3>1, Constants
      <3>3. pending_base_seq' = (highest + 1) % SeqRange
        <4> DEFINE a == covered
        <4>1. SeqRange \in Nat \ {0} /\ a \in Int /\ d \in Int /\ a + d = highest + 1
          BY <1>6
        <4>2. ((a % SeqRange) + (d % SeqRange)) % SeqRange = (a + d) % SeqRange
          <5> HIDE DEF d, a
          <5> QED
            BY ONLY <4>1, ModTerms
        <4>3. pending_base_seq' = ((a % SeqRange) + (d % SeqRange)) % SeqRange
          BY ONLY <1>4, <1>5, <3>1 DEF AdvanceBase
        <4> QED
          BY ONLY <4>1, <4>2, <4>3
      <3>4. fb_pkt_count' \in 0..FeedbackMod - 1
        <4>1. fb_pkt_count + 1 \in Int
          BY <1>2, Constants DEF TypeOK
        <4> QED
          BY <3>1, <4>1, Constants, ModOf
      <3>5. CoversFrom(feedback', covered, highest')
        <4>1. covered \in 0..highest' + 1 /\ count \in 1..Capacity
          BY <1>1, <1>2, <1>6, <1>8, <2>2, <3>1
        <4> QED
          BY <1>4, <1>5, <3>1, <4>1 DEF CoversFrom
      <3>6. FeedbackCovers'
        <4>1. covered \in Int
          BY <1>6
        <4> QED
          BY ONLY <3>5, <4>1 DEF FeedbackCovers
      <3> QED
        BY <3>1, <3>2, <3>3, <3>4, <3>6
    <2> QED
      BY <2>1, <2>2
  <1>10. pending_base_seq' \in 0..SeqRange - 1
    <2>1. covered' \in Int
      BY <1>9
    <2> QED
      BY <1>6, <1>9, <2>1, ModOf
  <1>11. TypeOK'
    BY <1>1, <1>2, <1>9, <1>10 DEF TypeOK
  <1>12. Numbered'
    BY <1>1, <1>5, <1>9 DEF Numbered
  <1> QED
    BY <1>9, <1>11, <1>12 DEF IInv

\* The recorder begins empty.
LEMMA InitOK == Init => IInv
  <1> SUFFICES ASSUME Init PROVE IInv
    OBVIOUS
  <1>1. 0 \in 0..SeqRange - 1 /\ 0 \in 0..FeedbackMod - 1 /\ 0 \in Packets
    BY Constants DEF Packets
  <1>2. now = 0 /\ arrivals = [slot \in 0..Capacity - 1 |-> None]
        /\ when = [n \in Packets |-> None] /\ base_time = None /\ started = FALSE
        /\ pending_base_seq = 0 /\ max_seq = 0 /\ fb_pkt_count = 0 /\ highest = 0 /\ covered = 0
        /\ feedback = None
    BY DEF Init
  <1>3. arrivals \in [0..Capacity - 1 -> [twcc_seq : 0..SeqRange - 1, arrival : 0..now] \cup {None}]
        /\ \A slot \in 0..Capacity - 1 : arrivals[slot] = None
    BY ONLY <1>2
  <1>4. when \in [Packets -> 0..now \cup {None}]
    BY ONLY <1>2
  <1>5. covered \in 0..MaxSent + 1
    BY ONLY <1>2, Constants
  <1>6. TypeOK
    BY ONLY <1>1, <1>2, <1>3, <1>4, <1>5 DEF TypeOK
  <1> QED
    BY ONLY <1>2, <1>6 DEF IInv, Numbered, FeedbackCovers

\* Every step preserves IInv.
LEMMA StepOK == IInv /\ [Next]_vars => IInv'
  <1> SUFFICES ASSUME IInv, [Next]_vars PROVE IInv'
    OBVIOUS
  <1>1. CASE Next
    BY <1>1, ArriveKeeps, FeedbackKeeps DEF Next
  <1>2. CASE UNCHANGED vars
    BY <1>2 DEF vars, recorder, history, IInv, TypeOK, Numbered, FeedbackCovers, CoversFrom
  <1> QED
    BY <1>1, <1>2

\* What IInv says of a feedback is what the property says.
LEMMA EachIsCovered == IInv => EachIsCoveredOnce
  <1> SUFFICES ASSUME IInv, feedback # None
               PROVE  /\ Meant(feedback, 1) >= feedback.since
                      /\ Meant(feedback, 1) > feedback.since => highest - feedback.since >= SeqRange
                      /\ Meant(feedback, feedback.count) = highest
    BY DEF EachIsCoveredOnce
  <1> DEFINE f == feedback
  <1>1. PICK c \in Int : CoversFrom(f, c, highest)
    BY DEF IInv, FeedbackCovers
  <1>2. highest \in Int /\ SeqRange \in Nat \ {0} /\ Capacity \in Nat
    BY Constants DEF IInv, TypeOK, Packets
  <1> DEFINE count == f.count
             base == f.base
             since == f.since
             d == highest - c
  <1>3. /\ c \in 0..highest + 1 /\ since = c /\ base = c % SeqRange
        /\ count = (d + 1) % SeqRange /\ count \in 1..Capacity
    BY <1>1 DEF CoversFrom
  <1>4. /\ Meant(f, 1) = highest - ((highest - (base + 1 - 1)) % SeqRange)
        /\ Meant(f, count) = highest - ((highest - (base + count - 1)) % SeqRange)
    BY DEF Meant
  <1> HIDE DEF f, count, base, since
  <1>5. d \in Int /\ d >= -1 /\ base \in Int /\ d + 1 \in Int
    BY <1>2, <1>3, ModOf
  <1>6. d \in Nat
    <2>1. d # -1
      <3>1. ASSUME d = -1 PROVE FALSE
        <4>1. 0 % SeqRange = 0
          BY <1>2, ModBelow
        <4> QED
          BY <1>3, <3>1, <4>1
      <3> QED
        BY <3>1
    <2> QED
      BY <1>5, <2>1
  <1>7. highest - (base + 1 - 1) = highest - base /\ (highest - base) % SeqRange = d % SeqRange
    <2>1. (highest - (c % SeqRange)) % SeqRange = (highest - c) % SeqRange
      BY ONLY <1>2, c \in Int, ModTerms
    <2> QED
      BY <1>2, <1>3, <1>5, <2>1
  <1>8. d % SeqRange \in Nat /\ d % SeqRange <= d /\ (d < SeqRange => d % SeqRange = d)
    <2> HIDE DEF d
    <2> QED
      BY <1>2, <1>6, ModBelow, ModOf
  <1>9. (highest - (base + count - 1)) % SeqRange = 0
    <2> DEFINE e == d + 1
    <2>1. ((c % SeqRange) + (e % SeqRange)) % SeqRange = (c + e) % SeqRange
      <3> HIDE DEF e
      <3>1. e \in Int
        BY <1>5 DEF e
      <3> QED
        BY ONLY <1>2, <3>1, c \in Int, ModTerms
    <2>2. (base + count) % SeqRange = (highest + 1) % SeqRange
      <3>1. c + e = highest + 1
        BY <1>2, <1>5
      <3>2. (base + count) % SeqRange = (c + e) % SeqRange
        BY ONLY <1>3, <2>1
      <3> QED
        BY ONLY <3>1, <3>2
    <2> DEFINE p == highest + 1
               q == base + count
    <2>3. p \in Int /\ q \in Int /\ highest - (base + count - 1) = p - q
      BY <1>2, <1>3, <1>5
    <2>4. p % SeqRange = q % SeqRange
      BY <2>2
    <2> HIDE DEF p, q
    <2>5. (p - q) % SeqRange = ((p % SeqRange) - (q % SeqRange)) % SeqRange
      BY ONLY <1>2, <2>3, ModTerms
    <2>6. (p % SeqRange) - (q % SeqRange) = 0
      <3>1. p % SeqRange \in 0..SeqRange - 1
        BY ONLY <1>2, <2>3, ModOf
      <3> DEFINE m == p % SeqRange
      <3>2. m \in Int
        BY ONLY <1>2, <3>1
      <3>3. q % SeqRange = m
        BY ONLY <2>4
      <3> HIDE DEF m
      <3>4. m - m = 0
        BY ONLY <3>2
      <3> QED
        BY ONLY <3>3, <3>4 DEF m
    <2>7. 0 % SeqRange = 0
      BY <1>2, ModBelow
    <2> QED
      BY ONLY <2>3, <2>5, <2>6, <2>7
  <1> DEFINE r == d % SeqRange
  <1>10. Meant(f, 1) = highest - r
    BY ONLY <1>4, <1>7
  <1>11. Meant(f, count) = highest
    BY ONLY <1>2, <1>4, <1>9
  <1>12. r \in Nat /\ r <= d /\ (d < SeqRange => r = d)
    BY <1>8
  <1> HIDE DEF r
  <1>13. highest - r >= since /\ (highest - r > since => highest - since >= SeqRange)
    BY <1>2, <1>3, <1>6, <1>12
  <1> QED
    BY ONLY <1>10, <1>11, <1>13 DEF f, count, since

\* What the slots hold: each the last packet that fell into it.
Occupies(n, slot) ==
    /\ n % Capacity = slot /\ when[n] # None
    /\ arrivals[slot] = [twcc_seq |-> n % SeqRange, arrival |-> when[n]]
    /\ \A k \in Packets : k % Capacity = slot /\ k > n => when[k] = None

\* The invariant that says which packets the recorder knows of.
Noted ==
    /\ started => base_time \in 0..now
    /\ \A n \in Packets : when[n] # None => started /\ n <= highest /\ base_time <= when[n]
    /\ \A slot \in 0..Capacity - 1 :
         \/ arrivals[slot] = None /\ \A n \in Packets : n % Capacity = slot => when[n] = None
         \/ \E n \in Packets : Occupies(n, slot)

\* A packet is noted in place of an older one.
LEMMA RecordNotes ==
    ASSUME TypeOK, Noted, NEW n \in Packets, NEW gap \in Gaps, Record(n % SeqRange),
           started => n \in (highest - Overtaking)..(highest + Jump), now' = now + gap,
           when' = [when EXCEPT ![n] = now'],
           highest' = (IF ~started \/ n > highest THEN n ELSE highest)
    PROVE  Noted'
  <1> DEFINE s == n % Capacity
             v == n % SeqRange
             x == [twcc_seq |-> v, arrival |-> now']
  <1>1. /\ arrivals' = [arrivals EXCEPT ![s] = x] /\ started' = TRUE
        /\ IF started THEN UNCHANGED base_time ELSE base_time' = now'
    <2>1. Slot(v) = s
      BY SlotOfPacket DEF Packets
    <2> QED
      BY <2>1 DEF Record
  <1>2. /\ now \in Nat /\ now' \in Nat /\ now <= now' /\ Capacity \in Nat \ {0}
        /\ Overtaking \in Nat /\ Overtaking < Capacity /\ None \notin Int /\ highest \in Nat
        /\ Packets \subseteq Nat
    BY Constants, TwccAssumption DEF TypeOK, Packets
  <1>3. s \in 0..Capacity - 1
    <2>1. n \in Int
      BY <1>2
    <2> QED
      BY ONLY <1>2, <2>1, ModOf
  <1>4. DOMAIN arrivals = 0..Capacity - 1 /\ DOMAIN when = Packets
    BY DEF TypeOK
  <1>5. when'[n] = now' /\ when'[n] # None /\ \A k \in Packets \ {n} : when'[k] = when[k]
    BY <1>2, <1>4
  <1>6. arrivals'[s] = x /\ \A slot \in (0..Capacity - 1) \ {s} : arrivals'[slot] = arrivals[slot]
    BY <1>1, <1>3, <1>4
  <1>7. \A k \in Packets : when[k] # None => started /\ k <= highest /\ base_time <= when[k]
    BY DEF Noted
  <1>8. started => base_time \in 0..now
    BY DEF Noted
  <1> HIDE DEF s, v, x
  <1>9. started' => base_time' \in 0..now'
    BY <1>1, <1>2, <1>8
  <1>10. ASSUME NEW k \in Packets, when'[k] # None
         PROVE  started' /\ k <= highest' /\ base_time' <= when'[k]
    <2>1. k \in Nat /\ n \in Nat
      BY <1>2
    <2>2. CASE k = n
      <3>1. base_time' <= now'
        BY <1>1, <1>2, <1>9
      <3> QED
        BY <1>1, <1>2, <1>5, <2>1, <2>2, <3>1
    <2>3. CASE k # n
      <3>1. when[k] # None /\ when'[k] = when[k]
        BY <1>5, <1>10, <2>3
      <3>2. started /\ k <= highest /\ base_time <= when[k]
        BY <1>7, <3>1
      <3>3. base_time' = base_time /\ k <= highest'
        BY <1>1, <1>2, <2>1, <3>2
      <3> QED
        BY <1>1, <3>1, <3>2, <3>3
    <2> QED
      BY <2>2, <2>3
  <1>11. ASSUME NEW k \in Packets, k % Capacity = s, k > n PROVE when'[k] = None
    <2>1. k \in Nat /\ n \in Nat /\ k # n
      BY <1>2, <1>11
    <2>2. ASSUME when[k] # None PROVE FALSE
      <3>1. k <= highest /\ n >= highest - Overtaking
        BY <1>2, <1>7, <2>1, <2>2
      <3>2. k >= n + Capacity
        BY <1>11, <2>1, ApartInSlot DEF s
      <3> QED
        BY <1>2, <2>1, <3>1, <3>2
    <2> QED
      BY <1>5, <2>1, <2>2
  <1>12. ASSUME NEW slot \in 0..Capacity - 1
         PROVE  \/ arrivals'[slot] = None /\ \A k \in Packets : k % Capacity = slot => when'[k] = None
                \/ \E k \in Packets : Occupies(k, slot)'
    <2>1. CASE slot = s
      <3>1. Occupies(n, slot)'
        BY <1>5, <1>6, <1>11, <2>1 DEF Occupies, x, v, s
      <3> QED
        BY <3>1
    <2>2. CASE slot # s
      <3>1. arrivals'[slot] = arrivals[slot]
        BY <1>6, <2>2
      <3>2. \A k \in Packets : k % Capacity = slot => when'[k] = when[k]
        BY <1>5, <2>2 DEF s
      <3>3. CASE arrivals[slot] = None /\ \A k \in Packets : k % Capacity = slot => when[k] = None
        BY <3>1, <3>2, <3>3
      <3>4. CASE \E k \in Packets : Occupies(k, slot)
        <4>1. PICK k \in Packets : Occupies(k, slot)
          BY <3>4
        <4>2. Occupies(k, slot)'
          BY <3>1, <3>2, <4>1 DEF Occupies
        <4> QED
          BY <4>2
      <3> QED
        BY <3>3, <3>4 DEF Noted
    <2> QED
      BY <2>1, <2>2
  <1> QED
    BY <1>9, <1>10, <1>12 DEF Noted

\* Every step preserves Noted.
LEMMA NotedKept == TypeOK /\ Noted /\ [Next]_vars => Noted'
  <1> SUFFICES ASSUME TypeOK, Noted, [Next]_vars PROVE Noted'
    OBVIOUS
  <1>1. ASSUME NEW t \in Nat, now' = now + t, UNCHANGED <<arrivals, started, base_time, highest, when>>
        PROVE  Noted'
    <2>1. started' => base_time' \in 0..now'
      BY <1>1 DEF TypeOK, Noted
    <2>2. \A k \in Packets : when'[k] # None => started' /\ k <= highest' /\ base_time' <= when'[k]
      BY <1>1 DEF Noted
    <2>3. \A slot \in 0..Capacity - 1 : \A k \in Packets : Occupies(k, slot) => Occupies(k, slot)'
      BY <1>1 DEF Occupies
    <2>4. \A slot \in 0..Capacity - 1 :
            \/ arrivals'[slot] = None /\ \A k \in Packets : k % Capacity = slot => when'[k] = None
            \/ \E k \in Packets : Occupies(k, slot)'
      BY <1>1, <2>3 DEF Noted
    <2> QED
      BY <2>1, <2>2, <2>4 DEF Noted
  <1>2. ASSUME NEW n \in Packets, NEW gap \in Gaps, NEW extension \in Extensions,
               Arrive(n, gap, extension)
        PROVE  Noted'
    <2> DEFINE c == Carries(extension)
    <2>1. /\ started => n \in (highest - Overtaking)..(highest + Jump)
          /\ now' = now + gap
          /\ \/ /\ c /\ Record(n % SeqRange)
                /\ when' = [when EXCEPT ![n] = now']
                /\ highest' = (IF ~started \/ n > highest THEN n ELSE highest)
             \/ /\ ~c /\ UNCHANGED <<recorder, highest>>
                /\ when' = [when EXCEPT ![n] = when[n]]
      BY <1>2, ArriveStep
    <2> HIDE DEF c
    <2>2. CASE c
      BY <2>1, <2>2, RecordNotes
    <2>3. CASE ~c
      <3>1. when' = when
        BY <2>1, <2>3 DEF TypeOK
      <3>2. gap \in Nat
        BY Constants
      <3> QED
        BY <1>1, <2>1, <2>3, <3>1, <3>2 DEF recorder
    <2> QED
      BY <2>2, <2>3
  <1>3. CASE Feedback
    <2>1. now' = now + 0
      BY <1>3, FeedbackStep DEF TypeOK
    <2> QED
      BY <1>1, <1>3, <2>1, FeedbackStep
  <1>4. CASE UNCHANGED vars
    <2>1. now' = now + 0
      BY <1>4 DEF vars, TypeOK
    <2> QED
      BY <1>1, <1>4, <2>1 DEF vars, recorder, history
  <1> QED
    BY <1>2, <1>3, <1>4 DEF Next
\* No packet has come at first.
LEMMA NotedFirst == Init => Noted
  <1> SUFFICES ASSUME Init PROVE Noted
    OBVIOUS
  <1>1. /\ now = 0 /\ arrivals = [slot \in 0..Capacity - 1 |-> None]
        /\ when = [n \in Packets |-> None] /\ started = FALSE
    BY DEF Init
  <1>2. /\ \A slot \in 0..Capacity - 1 : arrivals[slot] = None
        /\ \A n \in Packets : when[n] = None
    BY ONLY <1>1
  <1> QED
    BY ONLY <1>1, <1>2 DEF Noted

-----------------------------------------------------------------------------
\* The feedback.

\* The packets that a feedback is about, by their sequence numbers.
LEMMA MeantPacket ==
    ASSUME TypeOK, Numbered, covered <= highest + 1, started,
           PendingCount \in 1..Capacity, NEW i \in 1..PendingCount, NEW m,
           m = highest - PendingCount + i
    PROVE  /\ m \in Packets /\ m > highest - Capacity /\ m <= highest
           /\ (pending_base_seq + i - 1) % SeqRange = m % SeqRange
           /\ highest - ((highest - (pending_base_seq + i - 1)) % SeqRange) = m
  <1> DEFINE count == PendingCount
             base == pending_base_seq
             d == highest - covered + 1
  <1>1. /\ SeqRange \in Nat \ {0} /\ Capacity \in Nat \ {0} /\ 2 * Capacity <= SeqRange
        /\ highest \in Nat /\ highest <= MaxSent /\ covered \in Nat /\ MaxSent \in Nat
    BY Constants DEF TypeOK, Packets
  <1>2. count = d % SeqRange
    BY CountIsPending
  <1>3. base = covered % SeqRange
    BY DEF Numbered
  <1>4. d \in Nat
    BY <1>1
  <1>5. count \in Nat /\ count >= 1 /\ count <= Capacity /\ i \in Nat /\ i >= 1 /\ i <= count
    BY <1>1
  <1> HIDE DEF count
  <1>6. PICK k \in Int : d = count + SeqRange * k
    <2> HIDE DEF d
    <2>1. d \in Int
      BY <1>4
    <2>2. \E k \in Int : d = (d % SeqRange) + SeqRange * k
      BY ONLY <1>1, <2>1, ModOf
    <2> QED
      BY ONLY <1>2, <2>2
  <1>7. base \in Int /\ \E j \in Int : covered = base + SeqRange * j
    <2> DEFINE v == covered % SeqRange
    <2>1. covered \in Int
      BY <1>1
    <2>2. v \in 0..SeqRange - 1 /\ \E j \in Int : covered = v + SeqRange * j
      BY ONLY <1>1, <2>1, ModOf
    <2>3. base = v
      BY ONLY <1>3
    <2> HIDE DEF v
    <2>4. v \in Int
      BY ONLY <1>1, <2>2
    <2> QED
      BY ONLY <2>2, <2>3, <2>4
  <1>8. PICK j \in Int : covered = base + SeqRange * j
    BY <1>7
  <1>9. count <= d
    <2> HIDE DEF d
    <2>1. d % SeqRange <= d
      BY ONLY <1>1, <1>4, ModBelow
    <2> QED
      BY ONLY <1>2, <2>1
  <1> DEFINE p == base + i - 1
             q == highest - p
             y == SeqRange * (j + k)
             z == -(j + k)
  <1>10. m = highest - count + i /\ m \in Int
    BY <1>1, <1>5 DEF count
  <1>11. y = SeqRange * j + SeqRange * k /\ y \in Int /\ SeqRange * z = -y /\ z \in Int /\ j + k \in Int
         /\ SeqRange * j \in Int /\ SeqRange * k \in Int
    BY <1>1
  <1>12. p \in Int /\ p = m + SeqRange * z /\ q \in Int /\ q = SeqRange * (j + k) + (count - i)
    <2> DEFINE u == SeqRange * j
               w == SeqRange * k
               t == SeqRange * z
    <2>1. u \in Int /\ w \in Int /\ t = -y /\ y = u + w /\ covered = base + u /\ d = count + w
      BY <1>6, <1>8, <1>11
    <2> HIDE DEF u, w, y, t
    <2> HIDE DEF z
    <2>2. p \in Int /\ p = m + t /\ q \in Int /\ q = y + (count - i)
      BY <1>1, <1>5, <1>7, <1>10, <2>1
    <2> QED
      BY <2>2 DEF y, t
  <1>13. m \in Packets /\ m > highest - Capacity /\ m <= highest
    BY <1>1, <1>5, <1>9, <1>10 DEF Packets
  <1> HIDE DEF p, q, z
  <1>14. p % SeqRange = m % SeqRange
    <2>1. SeqRange \in Nat \ {0} /\ m \in Int /\ z \in Int /\ p \in Int /\ p = m + SeqRange * z
      BY ONLY <1>1, <1>10, <1>11, <1>12 DEF z
    <2> QED
      BY ONLY <2>1, ModShift
  <1>15. q % SeqRange = count - i
    <2> DEFINE r == count - i
               x == j + k
    <2>1. r \in 0..SeqRange - 1 /\ x \in Int /\ q = SeqRange * x + r
      BY <1>1, <1>5, <1>12
    <2> HIDE DEF r, x
    <2>2. q % SeqRange = r
      BY ONLY <1>1, <1>12, <2>1, ModUnique
    <2> QED
      BY <2>2 DEF r
  <1>16. highest - (q % SeqRange) = m
    BY ONLY <1>1, <1>5, <1>10, <1>15
  <1> QED
    BY ONLY <1>13, <1>14, <1>16 DEF p, q

\* What is in the slot of a packet of the last round.
LEMMA EntryIs ==
    ASSUME TypeOK, Noted, NEW m \in Packets, m > highest - Capacity, m <= highest
    PROVE  /\ Get(m % SeqRange) # None <=> when[m] # None \/ IsStale(m)
           /\ when[m] # None => Get(m % SeqRange).arrival = when[m]
           /\ Get(m % SeqRange) # None => Get(m % SeqRange).arrival \in 0..now
  <1> DEFINE v == m % SeqRange
             s == m % Capacity
             x == arrivals[s]
             e == Get(v)
  <1>1. /\ SeqRange \in Nat \ {0} /\ Capacity \in Nat \ {0} /\ m \in Nat /\ highest \in Nat
        /\ Packets \subseteq Nat /\ m \in Int
    BY Constants DEF TypeOK, Packets
  <1>2. s \in 0..Capacity - 1 /\ v \in Int
    BY ONLY <1>1, ModOf
  <1>3. e = IF x # None /\ x.twcc_seq = v THEN x ELSE None
    BY <1>1, SlotOfPacket DEF Get
  <1>4. \A k \in Packets : when[k] # None => k <= highest
    BY DEF Noted
  <1>5. \A k \in Packets : k % Capacity = s /\ k > m => when[k] = None
    <2>1. ASSUME NEW k \in Packets, k % Capacity = s, k > m, when[k] # None PROVE FALSE
      <3>1. k \in Nat /\ k <= highest
        BY <1>1, <1>4, <2>1
      <3>2. k >= m + Capacity
        BY <1>1, <2>1, <3>1, ApartInSlot
      <3> QED
        BY <1>1, <3>1, <3>2
    <2> QED
      BY <2>1
  <1> HIDE DEF v, s
  <1>6. CASE x = None /\ \A k \in Packets : k % Capacity = s => when[k] = None
    <2>1. e = None /\ when[m] = None
      BY <1>3, <1>6 DEF s
    <2>2. ~IsStale(m)
      <3>1. ASSUME NEW k \in 0..m - 1, (m - k) % SeqRange = 0, when[k] # None PROVE FALSE
        <4>1. k \in Packets /\ k \in Nat
          BY <1>1, Constants DEF Packets
        <4>2. k % Capacity = s
          BY <1>1, <3>1, <4>1, SameSlot DEF s
        <4> QED
          BY <1>6, <3>1, <4>1, <4>2
      <3> QED
        BY <3>1 DEF IsStale
    <2> QED
      BY <2>1, <2>2 DEF v
  <1>7. CASE \E n \in Packets : Occupies(n, s)
    <2>1. PICK n \in Packets : Occupies(n, s)
      BY <1>7
    <2> DEFINE w == n % SeqRange
    <2>2. /\ n % Capacity = s /\ when[n] # None
          /\ x = [twcc_seq |-> w, arrival |-> when[n]]
          /\ \A k \in Packets : k % Capacity = s /\ k > n => when[k] = None
      BY <2>1 DEF Occupies
    <2>3. n \in Nat /\ n \in Int /\ w \in Int /\ when[n] \in 0..now /\ when[n] \in Int /\ now \in Nat
      <3>1. n \in Nat /\ n \in Int
        BY <1>1
      <3>2. when[n] \in 0..now /\ now \in Nat
        BY <2>2 DEF TypeOK
      <3>3. w \in Int
        BY ONLY <1>1, <3>1, ModOf
      <3> QED
        BY <3>1, <3>2, <3>3
    <2>4. n <= m
      BY <1>1, <1>5, <2>2, <2>3
    <2>5. x # None
      <3>1. x \in [twcc_seq : Int, arrival : Int]
        BY ONLY <2>2, <2>3
      <3> QED
        BY <3>1, TwccAssumption
    <2>6. x.twcc_seq = w /\ x.arrival = when[n]
      BY ONLY <2>2
    <2> HIDE DEF w, x, e
    <2>7. (w = v => e = x) /\ (w # v => e = None)
      BY ONLY <1>3, <2>5, <2>6
    <2>8. CASE when[m] # None
      <3>1. ~(m > n)
        BY <2>2, <2>8 DEF s
      <3>2. n = m
        BY <1>1, <2>3, <2>4, <3>1
      <3>3. e = x
        BY <2>7, <3>2 DEF w, v
      <3> QED
        BY <2>3, <2>5, <2>6, <2>8, <3>2, <3>3 DEF e, v
    <2>9. CASE when[m] = None
      <3>1. n # m /\ n \in 0..m - 1
        BY <1>1, <2>2, <2>3, <2>4, <2>9
      <3>2. w = v => IsStale(m)
        <4>1. w = v => (m - n) % SeqRange = 0
          BY <1>1, <2>3, SameNumber DEF w, v
        <4>2. \A k \in n + 1..m : k % Capacity = m % Capacity => when[k] = None
          <5>1. ASSUME NEW k \in n + 1..m PROVE k \in Packets /\ k > n
            <6>1. k \in Nat /\ k > n /\ k <= m
              BY <1>1, <2>3
            <6>2. m <= MaxSent /\ MaxSent \in Nat
              BY Constants DEF Packets
            <6> QED
              BY <1>1, <6>1, <6>2 DEF Packets
          <5> QED
            BY <2>2, <5>1 DEF s
        <4> QED
          BY <2>2, <3>1, <4>1, <4>2 DEF IsStale
      <3>3. IsStale(m) => w = v
        <4>1. ASSUME IsStale(m) PROVE w = v
          <5>1. PICK k \in 0..m - 1 :
                  /\ (m - k) % SeqRange = 0 /\ when[k] # None
                  /\ \A l \in k + 1..m : l % Capacity = m % Capacity => when[l] = None
            BY <4>1 DEF IsStale
          <5>2. k \in Packets /\ k \in Nat
            BY <1>1, <5>1, Constants DEF Packets
          <5>3. k % Capacity = s
            BY <1>1, <5>1, <5>2, SameSlot DEF s
          <5>4. ~(k > n)
            BY <2>2, <5>1, <5>2, <5>3
          <5>5. n \notin k + 1..m
            BY <2>2, <5>1 DEF s
          <5>6. n = k
            BY <1>1, <2>3, <2>4, <5>2, <5>4, <5>5
          <5>7. k % SeqRange = m % SeqRange
            BY <1>1, <5>1, <5>2, SameNumber
          <5> QED
            BY <5>6, <5>7 DEF w, v
        <4> QED
          BY <4>1
      <3>4. e # None <=> w = v
        BY <2>5, <2>7
      <3>5. e # None => e.arrival \in 0..now
        BY <2>3, <2>6, <2>7
      <3> QED
        BY <2>9, <3>2, <3>3, <3>4, <3>5 DEF e, v
    <2> QED
      BY <2>8, <2>9
  <1> QED
    BY <1>2, <1>6, <1>7 DEF Noted

\* Where the deltas of a feedback end.
LEMMA BytesAdd ==
    ASSUME NEW f, NEW n \in Nat, f.count = n, NEW a \in [1..n -> Int],
           \A j \in 1..n : ReadStatus(f, j) = a[j]
    PROVE  /\ ByteCount(f, 0) = 0
           /\ \A j \in 1..n : ByteCount(f, j) = ByteCount(f, j - 1) + a[j]
           /\ \A j \in 0..n : ByteCount(f, j) \in Int
  <1> DEFINE E(h) == [j \in 0..f.count |-> IF j = 0 THEN 0 ELSE h[j - 1] + ReadStatus(f, j)]
             C == CHOOSE h : h = E(h)
  <1>1. \A i : ByteCount(f, i) = C[i]
    BY DEF ByteCount
  <1>2. \A h : h = E(h) <=> IsSum(h, n, 0, a)
    <2>1. \A j \in 0..n : j # 0 => j \in 1..n
      OBVIOUS
    <2>2. \A h : E(h) = [j \in 0..n |-> IF j = 0 THEN 0 ELSE h[j - 1] + a[j]]
      BY <2>1
    <2> HIDE DEF E
    <2> QED
      BY ONLY <2>2 DEF IsSum
  <1> HIDE DEF E
  <1>3. \E h : h = E(h)
    BY <1>2, SumExists
  <1>4. IsSum(C, n, 0, a)
    BY <1>2, <1>3
  <1> HIDE DEF C
  <1>5. Adds(C, n, 0, a)
    BY ONLY <1>4, SumIs, n \in Nat, a \in [1..n -> Int], 0 \in Int
  <1> QED
    BY ONLY <1>1, <1>5 DEF Adds

\* How the times that it gives follow from the deltas.
LEMMA TimesAdd ==
    ASSUME NEW f, NEW n \in Nat, f.count = n, NEW a \in [1..n -> Int],
           \A j \in 1..n : ReadDelta(f, j) = a[j], Byte * f.reference \in Int
    PROVE  /\ ReadTime(f, 0) = Byte * f.reference
           /\ \A j \in 1..n : ReadTime(f, j) = ReadTime(f, j - 1) + a[j]
           /\ \A j \in 0..n : ReadTime(f, j) \in Int
  <1> DEFINE x == Byte * f.reference
             E(h) == [j \in 0..f.count |-> IF j = 0 THEN x ELSE h[j - 1] + ReadDelta(f, j)]
             C == CHOOSE h : h = E(h)
  <1>1. \A i : ReadTime(f, i) = C[i]
    BY DEF ReadTime
  <1>2. x \in Int
    OBVIOUS
  <1> HIDE DEF x
  <1>3. \A h : h = E(h) <=> IsSum(h, n, x, a)
    <2>1. \A j \in 0..n : j # 0 => j \in 1..n
      OBVIOUS
    <2>2. \A h : E(h) = [j \in 0..n |-> IF j = 0 THEN x ELSE h[j - 1] + a[j]]
      BY <2>1
    <2> HIDE DEF E
    <2> QED
      BY ONLY <2>2 DEF IsSum
  <1> HIDE DEF E
  <1>4. \E h : h = E(h)
    BY <1>2, <1>3, SumExists
  <1>5. IsSum(C, n, x, a)
    BY <1>3, <1>4
  <1> HIDE DEF C
  <1>6. Adds(C, n, x, a)
    BY ONLY <1>2, <1>5, SumIs, n \in Nat, a \in [1..n -> Int]
  <1> QED
    BY ONLY <1>1, <1>6 DEF x, Adds

\* How many deltas there are.
LEMMA DeltasAdd ==
    ASSUME NEW f, NEW n \in Nat
    PROVE  /\ DeltaCount(f, 0) = 0
           /\ \A j \in 1..n : DeltaCount(f, j) =
                DeltaCount(f, j - 1) + (IF ReadStatus(f, j) = 0 THEN 0 ELSE 1)
           /\ \A j \in 0..n : DeltaCount(f, j) \in Nat
  <1> DEFINE S(i) == {j \in 1..i : ReadStatus(f, j) # 0}
  <1>1. \A i : DeltaCount(f, i) = Cardinality(S(i))
    BY DEF DeltaCount
  <1>2. ASSUME NEW i \in Nat PROVE IsFiniteSet(S(i)) /\ Cardinality(S(i)) \in Nat
    <2>1. IsFiniteSet(1..i)
      BY FS_Interval
    <2>2. S(i) \subseteq 1..i
      OBVIOUS
    <2> HIDE DEF S
    <2> QED
      BY <2>1, <2>2, FS_Subset, FS_CardinalityType
  <1>3. S(0) = {}
    OBVIOUS
  <1>4. ASSUME NEW j \in 1..n
        PROVE  Cardinality(S(j)) = Cardinality(S(j - 1)) + (IF ReadStatus(f, j) = 0 THEN 0 ELSE 1)
    <2>1. j - 1 \in Nat /\ j \notin S(j - 1)
      OBVIOUS
    <2>2. CASE ReadStatus(f, j) = 0
      <3>1. S(j) = S(j - 1)
        BY <2>2
      <3>2. Cardinality(S(j - 1)) \in Nat
        BY <1>2, <2>1
      <3> QED
        BY <2>2, <3>1, <3>2
    <2>3. CASE ReadStatus(f, j) # 0
      <3>1. S(j) = S(j - 1) \cup {j}
        BY <2>3
      <3> HIDE DEF S
      <3> QED
        BY <1>2, <2>1, <2>3, <3>1, FS_AddElement
    <2> QED
      BY <2>2, <2>3
  <1>5. Cardinality(S(0)) = 0
    BY <1>3, FS_EmptySet
  <1> HIDE DEF S
  <1>6. /\ DeltaCount(f, 0) = 0
        /\ \A j \in 0..n : DeltaCount(f, j) \in Nat
    BY <1>1, <1>2, <1>5
  <1> QED
    BY <1>1, <1>4, <1>6

\* Truncation is off by less than one unit.
LEMMA UnitsNear ==
    ASSUME NEW t \in Int
    PROVE  /\ Units(t) \in Int
           /\ t - Tick * Units(t) > -Tick /\ t - Tick * Units(t) < Tick
           /\ t >= 0 => Units(t) >= 0 /\ t - Tick * Units(t) >= 0
  <1>1. Tick \in Nat \ {0}
    BY TwccAssumption
  <1>2. ASSUME NEW a \in Nat
        PROVE  /\ a \div Tick \in Nat
               /\ a - Tick * (a \div Tick) >= 0 /\ a - Tick * (a \div Tick) < Tick
    <2> DEFINE q == a \div Tick
               r == a % Tick
    <2>1. q \in Int /\ r \in 0..Tick - 1 /\ a = Tick * q + r
      BY <1>1
    <2> HIDE DEF q, r
    <2>2. Tick * q \in Int
      BY <1>1, <2>1
    <2>3. q <= -1 => Tick * q <= -Tick
      BY <1>1, <2>1
    <2>4. q >= 0
      BY <1>1, <2>1, <2>2, <2>3
    <2>5. a - Tick * q = r
      BY <2>1, <2>2
    <2> QED
      BY <1>1, <2>1, <2>4, <2>5 DEF q
  <1>3. CASE t < 0
    <2> DEFINE q == (-t) \div Tick
               y == Tick * q
    <2>1. -t \in Nat
      BY <1>3
    <2>2. q \in Nat /\ (-t) - y >= 0 /\ (-t) - y < Tick
      BY <1>2, <2>1
    <2>3. Units(t) = -q
      BY <1>3 DEF Units
    <2> HIDE DEF q
    <2>4. y \in Int /\ Tick * (-q) = -y
      BY <1>1, <2>2
    <2> HIDE DEF y
    <2>5. t - (-y) > -Tick /\ t - (-y) < Tick
      BY <1>1, <2>2, <2>4
    <2> QED
      BY <1>3, <2>2, <2>3, <2>4, <2>5
  <1>4. CASE ~(t < 0)
    <2> DEFINE q == t \div Tick
               y == Tick * q
    <2>1. t \in Nat
      BY <1>4
    <2>2. q \in Nat /\ t - y >= 0 /\ t - y < Tick
      BY <1>2, <2>1
    <2>3. Units(t) = q
      BY <1>4 DEF Units
    <2> HIDE DEF q
    <2>4. y \in Int
      BY <1>1, <2>2
    <2>5. y = Tick * Units(t)
      BY <2>3
    <2> HIDE DEF y
    <2> QED
      BY <1>1, <2>2, <2>3, <2>4, <2>5
  <1> QED
    BY <1>3, <1>4

\* A distance is a natural number.
LEMMA AbsIs ==
    ASSUME NEW x \in Int
    PROVE  Abs(x) \in Nat
  BY DEF Abs

\* A difference is clamped to the nearest that a large delta may be.
LEMMA ClampNearest ==
    ASSUME NEW d \in Int
    PROVE  /\ Clamp(d, LargeDeltas) \in LargeDeltas
           /\ \A y \in LargeDeltas : Abs(d - Clamp(d, LargeDeltas)) <= Abs(d - y)
  <1>1. LargeDeltas \subseteq Int /\ LargeDeltas # {}
    BY TwccAssumption
  <1> DEFINE T == {Abs(d - y) : y \in LargeDeltas}
  <1>2. \A y \in LargeDeltas : d - y \in Int /\ Abs(d - y) \in Nat
    BY <1>1, AbsIs
  <1>3. T \subseteq Nat /\ T # {}
    BY ONLY <1>1, <1>2
  <1>4. PICK t \in T : \A u \in T : t <= u
    <2> HIDE DEF T
    <2> QED
      BY <1>3, LeastNat
  <1>5. \E x \in LargeDeltas : \A y \in LargeDeltas : Abs(d - x) <= Abs(d - y)
    <2>1. PICK x \in LargeDeltas : t = Abs(d - x)
      BY <1>4
    <2>2. \A y \in LargeDeltas : Abs(d - y) \in T
      OBVIOUS
    <2> HIDE DEF T
    <2> QED
      BY ONLY <1>4, <2>1, <2>2
  <1> QED
    BY <1>5 DEF Clamp

\* The two bytes of a large delta.
LEMMA SignedBack ==
    ASSUME NEW x \in LargeDeltas, NEW u, u = x % (Byte * Byte)
    PROVE  /\ u \div Byte \in Int /\ u % Byte \in Int
           /\ Byte * (u \div Byte) + (u % Byte) = u
           /\ (IF 2 * u >= Byte * Byte THEN u - Byte * Byte ELSE u) = x
  <1> DEFINE w == Byte * Byte
  <1>1. Byte \in Nat \ {0} /\ x \in Int /\ -w <= 2 * x /\ 2 * x < w
    BY TwccAssumption
  <1>2. w \in Nat \ {0}
    <2>1. Byte >= 1 => Byte * Byte >= Byte
      BY <1>1
    <2> QED
      BY <1>1, <2>1
  <1> HIDE DEF w
  <1>3. u = x % w /\ u \in Int
    <2>1. x % w \in 0..w - 1
      BY ONLY <1>1, <1>2, ModOf
    <2> QED
      BY <1>2, <2>1 DEF w
  <1>4. x >= 0 => u = x
    BY ONLY <1>1, <1>2, <1>3, ModBelow
  <1>5. x < 0 => u = x + w
    <2> DEFINE e == x + w
    <2>1. e \in Int /\ e = x + w /\ (x < 0 => e \in Nat /\ e < w)
      BY ONLY <1>1, <1>2
    <2> HIDE DEF e
    <2>2. e % w = x % w
      BY ONLY <1>1, <1>2, <2>1, ModPlus
    <2>3. x < 0 => e % w = e
      BY ONLY <1>2, <2>1, ModBelow
    <2> QED
      BY ONLY <1>3, <2>1, <2>2, <2>3
  <1>6. (IF 2 * u >= w THEN u - w ELSE u) = x
    BY ONLY <1>1, <1>2, <1>3, <1>4, <1>5
  <1>7. u \div Byte \in Int /\ u % Byte \in Int /\ Byte * (u \div Byte) + (u % Byte) = u
    BY ONLY <1>1, <1>3
  <1> QED
    BY ONLY <1>6, <1>7 DEF w

\* What the publisher makes of a delta.
Decoded(d) == IF Status(d) = 1 THEN d ELSE Clamp(d, LargeDeltas)

\* A delta is read back out of its bytes, unless it was clamped.
LEMMA DeltaInBytes ==
    ASSUME NEW d \in Int
    PROVE  /\ Status(d) \in {1, 2} /\ DeltaBytes(d) \in Seq(Int) /\ Len(DeltaBytes(d)) = Status(d)
           /\ Decoded(d) \in Int
           /\ Status(d) = 1 => DeltaBytes(d)[1] = Decoded(d)
           /\ Status(d) = 2 =>
                LET u == Byte * DeltaBytes(d)[1] + DeltaBytes(d)[2] IN
                (IF 2 * u >= Byte * Byte THEN u - Byte * Byte ELSE u) = Decoded(d)
  <1>1. Status(d) = 1 \/ Status(d) = 2
    BY DEF Status
  <1>2. CASE Status(d) = 1
    <2>1. DeltaBytes(d) = <<d>> /\ Decoded(d) = d
      BY <1>2 DEF DeltaBytes, Decoded
    <2> QED
      BY <1>2, <2>1
  <1>3. CASE Status(d) = 2
    <2> DEFINE x == Clamp(d, LargeDeltas)
               u == x % (Byte * Byte)
               p == u \div Byte
               q == u % Byte
    <2>1. DeltaBytes(d) = <<p, q>> /\ Decoded(d) = x
      BY <1>3 DEF DeltaBytes, Decoded
    <2>2. x \in LargeDeltas
      BY ClampNearest
    <2> HIDE DEF x
    <2>3. x \in Int
      BY <2>2, TwccAssumption
    <2>4. /\ p \in Int /\ q \in Int /\ Byte * p + q = u
          /\ (IF 2 * u >= Byte * Byte THEN u - Byte * Byte ELSE u) = x
      BY <2>2, SignedBack
    <2> HIDE DEF p, q, u
    <2>5. /\ DeltaBytes(d) \in Seq(Int) /\ Len(DeltaBytes(d)) = 2
          /\ DeltaBytes(d)[1] = p /\ DeltaBytes(d)[2] = q
      BY <2>1, <2>4
    <2> QED
      BY ONLY <1>3, <2>1, <2>3, <2>4, <2>5
  <1> QED
    BY <1>1, <1>2, <1>3

\* The entries of n places of a feedback, and the feedback itself.
AreEntries(e, n) == e \in [1..n -> [twcc_seq : Int, arrival : Int] \cup {None}]

\* The feedback f has been built from them.
IsReport(f, e, n) ==
    /\ f.count = n /\ f.chunks = EncodeStatusChunks(Statuses(e)) /\ f.bytes = EncodeRecvDeltas(e)

\* A delta is the difference to the packet received before, if there is one.
LEMMA DeltaOf ==
    ASSUME NEW n \in Nat, NEW e, AreEntries(e, n), base_time \in Int,
           NEW i \in 1..n, e[i] # None
    PROVE  /\ e[i].arrival \in Int /\ Delta(e, i) \in Int
           /\ \/ /\ \A j \in 1..i - 1 : e[j] = None
                 /\ Delta(e, i) = Units(e[i].arrival - base_time) % Byte
              \/ \E l \in 1..i - 1 :
                   /\ e[l] # None /\ \A j \in l + 1..i - 1 : e[j] = None
                   /\ e[l].arrival \in Int /\ Delta(e, i) = Units(e[i].arrival - e[l].arrival)
  <1>1. DOMAIN e = 1..n /\ \A j \in 1..n : e[j] # None => e[j].arrival \in Int
    BY DEF AreEntries
  <1>2. Byte \in Nat \ {0}
    BY TwccAssumption
  <1> DEFINE S == ReceivedBefore(e, i)
  <1>3. S = {j \in 1..n : e[j] # None /\ j < i}
    BY <1>1 DEF Received, ReceivedBefore
  <1>4. Delta(e, i) = IF S = {} THEN Units(e[i].arrival - base_time) % Byte
                      ELSE Units(e[i].arrival - e[Max(S)].arrival)
    BY DEF Delta
  <1> HIDE DEF S
  <1>5. e[i].arrival \in Int
    BY <1>1
  <1>6. CASE S = {}
    <2>1. \A j \in 1..i - 1 : e[j] = None
      BY <1>3, <1>6
    <2>2. e[i].arrival - base_time \in Int
      BY <1>5
    <2> DEFINE t == e[i].arrival - base_time
    <2>3. Units(t) \in Int
      BY <2>2, UnitsNear
    <2> HIDE DEF t
    <2>4. Units(t) % Byte \in 0..Byte - 1
      BY ONLY <1>2, <2>3, ModOf
    <2>5. Units(t) % Byte \in Int
      BY ONLY <1>2, <2>4
    <2> QED
      BY <1>4, <1>5, <1>6, <2>1, <2>5 DEF t
  <1>7. CASE S # {}
    <2> DEFINE l == Max(S)
    <2>1. l \in S /\ \A y \in S : y <= l
      BY <1>3, <1>7, MaxIsLargest
    <2> HIDE DEF l
    <2>2. l \in 1..i - 1 /\ e[l] # None /\ l \in 1..n
      BY <1>3, <2>1
    <2>3. \A j \in l + 1..i - 1 : e[j] = None
      <3>1. ASSUME NEW j \in l + 1..i - 1, e[j] # None PROVE FALSE
        <4>1. j \in S /\ j > l
          BY <1>3, <2>2, <3>1
        <4>2. j \in Int /\ l \in Int
          BY <2>2
        <4> QED
          BY <2>1, <4>1, <4>2
      <3> QED
        BY <3>1
    <2>4. e[l].arrival \in Int
      BY <1>1, <2>2
    <2> DEFINE t == e[i].arrival - e[l].arrival
    <2>5. t \in Int
      BY <1>5, <2>4
    <2>6. Delta(e, i) = Units(t)
      BY <1>4, <1>7 DEF l
    <2> HIDE DEF t
    <2>7. Units(t) \in Int
      BY ONLY <2>5, UnitsNear
    <2> QED
      BY <1>5, <2>2, <2>3, <2>4, <2>6, <2>7 DEF t
  <1> QED
    BY <1>6, <1>7

\* A feedback gives each place its status and delta, and its last byte is the last one's.
LEMMA ReportIsRead ==
    ASSUME NEW n \in Nat, NEW e, AreEntries(e, n), base_time \in Int, NEW f, IsReport(f, e, n)
    PROVE  /\ Len(f.chunks) * Symbols \in n..(n + Symbols - 1)
           /\ \A i \in 1..Len(f.chunks) * Symbols :
                ReadStatus(f, i) = (IF i <= n THEN IF e[i] = None THEN 0 ELSE Status(Delta(e, i)) ELSE 0)
           /\ ByteCount(f, n) = Len(f.bytes)
           /\ \A i \in 1..n : ReadDelta(f, i) = IF e[i] = None THEN 0 ELSE Decoded(Delta(e, i))
  <1> DEFINE d == [i \in 1..n |-> Delta(e, i)]
             st == [i \in 1..n |-> IF e[i] = None THEN 0 ELSE Status(d[i])]
             s == [i \in 1..n |-> IF e[i] = None THEN <<>> ELSE DeltaBytes(d[i])]
             B == [j \in 0..n |-> ByteCount(f, j)]
  <1>1. DOMAIN e = 1..n
    BY DEF AreEntries
  <1>2. \A i \in 1..n : e[i] # None => d[i] = Delta(e, i) /\ d[i] \in Int
    BY DeltaOf
  <1>3. f.chunks = EncodeStatusChunks(st) /\ f.bytes = FlattenSeq(s) /\ f.count = n
    BY <1>1 DEF IsReport, Statuses, EncodeRecvDeltas
  <1>4. \A i \in 1..n : /\ st[i] = (IF e[i] = None THEN 0 ELSE Status(d[i]))
                        /\ s[i] = (IF e[i] = None THEN <<>> ELSE DeltaBytes(d[i]))
    OBVIOUS
  <1> HIDE DEF d
  <1>5. \A i \in 1..n : st[i] \in 0..2 /\ s[i] \in Seq(Int) /\ Len(s[i]) = st[i]
    <2>1. ASSUME NEW i \in 1..n PROVE st[i] \in 0..2 /\ s[i] \in Seq(Int) /\ Len(s[i]) = st[i]
      <3>1. CASE e[i] = None
        BY <1>4, <3>1
      <3>2. CASE e[i] # None
        <4>1. d[i] \in Int
          BY <1>2, <3>2
        <4>2. Status(d[i]) \in {1, 2} /\ DeltaBytes(d[i]) \in Seq(Int)
              /\ Len(DeltaBytes(d[i])) = Status(d[i])
          BY <4>1, DeltaInBytes
        <4> QED
          BY <1>4, <3>2, <4>2
      <3> QED
        BY <3>1, <3>2
    <2> QED
      BY <2>1
  <1>6. st \in [1..n -> 0..2] /\ st \in [1..n -> Int] /\ s \in [1..n -> Seq(Int)]
    BY <1>5
  <1> HIDE DEF st, s
  <1>7. /\ Len(f.chunks) * Symbols \in n..(n + Symbols - 1)
        /\ \A i \in 1..Len(f.chunks) * Symbols : ReadStatus(f, i) = IF i <= n THEN st[i] ELSE 0
    BY <1>3, <1>6, StatusesAreRead
  <1>8. ASSUME NEW i \in 1..n PROVE i \in 1..Len(f.chunks) * Symbols /\ i <= n
    <2> DEFINE m == Len(f.chunks) * Symbols
    <2>1. m \in n..(n + Symbols - 1) /\ Symbols \in Nat
      BY <1>7, TwccAssumption
    <2> HIDE DEF m
    <2>2. i \in 1..m
      BY ONLY <2>1, n \in Nat, i \in 1..n
    <2> QED
      BY <2>2 DEF m
  <1>9. \A i \in 1..n : ReadStatus(f, i) = st[i]
    BY <1>7, <1>8
  <1>10. /\ ByteCount(f, 0) = 0
         /\ \A j \in 1..n : ByteCount(f, j) = ByteCount(f, j - 1) + st[j]
         /\ \A j \in 0..n : ByteCount(f, j) \in Int
    BY ONLY <1>3, <1>6, <1>9, n \in Nat, BytesAdd
  <1>11. B[0] = 0 /\ \A j \in 1..n : B[j] = B[j - 1] + Len(s[j])
    <2>1. 0 \in 0..n /\ \A j \in 1..n : j \in 0..n /\ j - 1 \in 0..n
      OBVIOUS
    <2> QED
      BY <1>5, <1>10, <2>1
  <1>12. \A j \in 0..n : B[j] = ByteCount(f, j) /\ B[j] \in Int
    BY <1>10
  <1> HIDE DEF B
  <1>13. /\ Len(FlattenSeq(s)) = B[n]
         /\ \A i \in 1..n : \A k \in 1..Len(s[i]) : FlattenSeq(s)[B[i - 1] + k] = s[i][k]
    <2>1. EndAt(B, n, s)
      BY ONLY <1>11 DEF EndAt
    <2> DEFINE c == FlattenSeq(s)
    <2>2. AreParts(B, n, s, c)
      BY ONLY <1>6, <2>1, n \in Nat, PartsOf
    <2> HIDE DEF c
    <2>3. /\ Len(c) = B[n]
          /\ \A i \in 1..n : \A k \in 1..Len(s[i]) : c[B[i - 1] + k] = s[i][k]
      BY ONLY <2>2 DEF AreParts
    <2> QED
      BY ONLY <2>3 DEF c
  <1>14. ByteCount(f, n) = Len(f.bytes)
    <2>1. n \in 0..n
      OBVIOUS
    <2> QED
      BY <1>3, <1>12, <1>13, <2>1
  <1>15. ASSUME NEW i \in 1..n
         PROVE  ReadDelta(f, i) = IF e[i] = None THEN 0 ELSE Decoded(Delta(e, i))
    <2> DEFINE b == ByteCount(f, i)
               r == ReadStatus(f, i)
               D == Byte * f.bytes[b - 1] + f.bytes[b]
    <2>1. ReadDelta(f, i) = CASE r = 0 -> 0
                              [] r = 1 -> f.bytes[b]
                              [] r = 2 -> IF 2 * D >= Byte * Byte THEN D - Byte * Byte ELSE D
      BY DEF ReadDelta
    <2>2. r = st[i]
      BY <1>9
    <2>3. i \in 0..n /\ i - 1 \in 0..n
      OBVIOUS
    <2> DEFINE p == B[i - 1]
    <2>4. p \in Int /\ b = p + st[i]
      BY <1>10, <1>12, <2>3
    <2>5. \A k \in 1..st[i] : f.bytes[p + k] = s[i][k]
      BY <1>3, <1>5, <1>13
    <2> HIDE DEF b, r, p
    <2>6. CASE e[i] = None
      <3>1. r = 0
        BY <1>4, <2>2, <2>6
      <3> QED
        BY <2>1, <2>6, <3>1
    <2>7. CASE e[i] # None
      <3> DEFINE x == d[i]
                 u == Byte * DeltaBytes(x)[1] + DeltaBytes(x)[2]
      <3>1. x \in Int /\ x = Delta(e, i) /\ st[i] = Status(x) /\ s[i] = DeltaBytes(x)
        BY <1>2, <1>4, <2>7
      <3> HIDE DEF x
      <3>2. /\ Status(x) \in {1, 2}
            /\ Status(x) = 1 => DeltaBytes(x)[1] = Decoded(x)
            /\ Status(x) = 2 => (IF 2 * u >= Byte * Byte THEN u - Byte * Byte ELSE u) = Decoded(x)
        BY <3>1, DeltaInBytes
      <3>3. CASE Status(x) = 1
        <4>1. r = 1 /\ b = p + 1 /\ f.bytes[p + 1] = s[i][1]
          BY ONLY <2>2, <2>4, <2>5, <3>1, <3>3
        <4>2. ReadDelta(f, i) = f.bytes[b]
          BY ONLY <2>1, <4>1
        <4> QED
          BY <2>7, <3>1, <3>2, <3>3, <4>1, <4>2
      <3>4. CASE Status(x) = 2
        <4>1. r = 2 /\ b = p + 2 /\ f.bytes[p + 1] = s[i][1] /\ f.bytes[p + 2] = s[i][2]
          BY ONLY <2>2, <2>4, <2>5, <3>1, <3>4
        <4>2. b - 1 = p + 1
          BY ONLY <2>4, <4>1
        <4>3. D = u
          BY ONLY <3>1, <4>1, <4>2
        <4>4. ReadDelta(f, i) = IF 2 * D >= Byte * Byte THEN D - Byte * Byte ELSE D
          BY ONLY <2>1, <4>1
        <4> HIDE DEF D, u
        <4> QED
          BY <2>7, <3>1, <3>2, <3>4, <4>3, <4>4
      <3> QED
        BY <3>2, <3>3, <3>4
    <2> QED
      BY <2>6, <2>7
  <1>16. ASSUME NEW i \in 1..Len(f.chunks) * Symbols
         PROVE  ReadStatus(f, i) =
                  (IF i <= n THEN IF e[i] = None THEN 0 ELSE Status(Delta(e, i)) ELSE 0)
    <2>1. i <= n => i \in 1..n
      <3> DEFINE m == Len(f.chunks) * Symbols
      <3>1. m \in n..(n + Symbols - 1) /\ i \in 1..m
        BY <1>7
      <3> HIDE DEF m
      <3> QED
        BY ONLY <3>1, n \in Nat
    <2>2. CASE i <= n
      BY <1>2, <1>4, <1>7, <2>1, <2>2
    <2>3. CASE ~(i <= n)
      BY <1>7, <2>3
    <2> QED
      BY <2>2, <2>3
  <1> QED
    BY <1>7, <1>14, <1>15, <1>16

\* What build_twcc_feedback finds at each place of the feedback.
Entries == [i \in 1..PendingCount |-> Get((pending_base_seq + i - 1) % SeqRange)]

\* The feedback that a step sends is made from Entries.
LEMMA FeedbackIsBuilt ==
    ASSUME Feedback, feedback' # None
    PROVE  /\ PendingCount > 0 /\ ~(PendingCount > Capacity)
           /\ IsReport(feedback', Entries, PendingCount)
           /\ feedback'.base = pending_base_seq
           /\ Received(Entries) # {}
           /\ feedback'.reference =
                (Units(Entries[Min(Received(Entries))].arrival - base_time) \div Byte) % RefMod
           /\ UNCHANGED <<base_time, highest, when>>
  <1>1. /\ PendingCount > 0 /\ ~(PendingCount > Capacity)
        /\ Received(Entries) # {}
        /\ feedback' =
             [base |-> pending_base_seq, count |-> PendingCount,
              reference |->
                (Units(Entries[Min(Received(Entries))].arrival - base_time) \div Byte) % RefMod,
              number |-> fb_pkt_count,
              chunks |-> EncodeStatusChunks(Statuses(Entries)),
              bytes |-> EncodeRecvDeltas(Entries),
              since |-> covered]
    BY DEF Feedback, Entries
  <1>2. UNCHANGED <<base_time, highest, when>>
    BY DEF Feedback
  <1>3. /\ feedback'.base = pending_base_seq /\ feedback'.count = PendingCount
        /\ feedback'.chunks = EncodeStatusChunks(Statuses(Entries))
        /\ feedback'.bytes = EncodeRecvDeltas(Entries)
        /\ feedback'.reference =
             (Units(Entries[Min(Received(Entries))].arrival - base_time) \div Byte) % RefMod
    BY ONLY <1>1
  <1> QED
    BY ONLY <1>1, <1>2, <1>3 DEF IsReport

\* The place of packet m holds whether it arrived.
Tells(e, i, m) ==
    /\ m \in Packets
    /\ e[i] # None <=> when[m] # None \/ IsStale(m)
    /\ when[m] # None => e[i].arrival = when[m]

\* Entries tell of each packet that is meant whether it came.
LEMMA EntriesTell ==
    ASSUME IInv, Noted, started, PendingCount \in 1..Capacity
    PROVE  /\ AreEntries(Entries, PendingCount) /\ base_time \in Int
           /\ \A f : f.base = pending_base_seq =>
                \A i \in 1..PendingCount :
                  Meant(f, i) \in Packets /\ Tells(Entries, i, Meant(f, i))
  <1>1. TypeOK /\ Numbered /\ covered <= highest + 1
    BY DEF IInv
  <1> DEFINE A == [twcc_seq : Int, arrival : Int] \cup {None}
  <1>2. \A s \in 0..Capacity - 1 : arrivals[s] \in A
    <2>1. [twcc_seq : 0..SeqRange - 1, arrival : 0..now] \subseteq [twcc_seq : Int, arrival : Int]
      BY <1>1, Constants DEF TypeOK
    <2> QED
      BY <1>1, <2>1 DEF TypeOK
  <1>3. \A v \in Int : Get(v) \in A
    <2>1. ASSUME NEW v \in Int PROVE Get(v) \in A
      <3>1. Slot(v) \in 0..Capacity - 1
        BY Constants, ModOf DEF Slot
      <3>2. Get(v) = arrivals[Slot(v)] \/ Get(v) = None
        BY DEF Get
      <3>3. None \in A
        OBVIOUS
      <3> HIDE DEF A
      <3> QED
        BY ONLY <1>2, <3>1, <3>2, <3>3
    <2> QED
      BY <2>1
  <1>4. AreEntries(Entries, PendingCount)
    <2>1. ASSUME NEW i \in 1..PendingCount PROVE (pending_base_seq + i - 1) % SeqRange \in Int
      <3>1. pending_base_seq \in Int /\ SeqRange \in Nat \ {0} /\ i \in Int
        BY <1>1, Constants DEF TypeOK
      <3> DEFINE p == pending_base_seq + i - 1
      <3>2. p \in Int
        BY <3>1
      <3> HIDE DEF p
      <3>3. p % SeqRange \in 0..SeqRange - 1
        BY ONLY <3>1, <3>2, ModOf
      <3> QED
        BY <3>1, <3>3 DEF p
    <2> HIDE DEF A
    <2>2. Entries \in [1..PendingCount -> A]
      BY <1>3, <2>1 DEF Entries
    <2> QED
      BY <2>2 DEF AreEntries, A
  <1>5. base_time \in Int
    BY <1>1 DEF Noted, TypeOK
  <1>6. ASSUME NEW f, f.base = pending_base_seq, NEW i \in 1..PendingCount
        PROVE  Meant(f, i) \in Packets /\ Tells(Entries, i, Meant(f, i))
    <2> DEFINE m == highest - PendingCount + i
               v == (pending_base_seq + i - 1) % SeqRange
               e == Entries[i]
    <2>1. /\ m \in Packets /\ m > highest - Capacity /\ m <= highest
          /\ v = m % SeqRange
          /\ highest - ((highest - (pending_base_seq + i - 1)) % SeqRange) = m
      BY <1>1, MeantPacket
    <2>2. Meant(f, i) = m
      BY <1>6, <2>1 DEF Meant
    <2>3. e = Get(m % SeqRange)
      BY <2>1 DEF Entries
    <2> HIDE DEF m, e, v
    <2>4. /\ Get(m % SeqRange) # None <=> when[m] # None \/ IsStale(m)
          /\ when[m] # None => Get(m % SeqRange).arrival = when[m]
      BY <1>1, <2>1, EntryIs
    <2>5. /\ e # None <=> when[m] # None \/ IsStale(m)
          /\ when[m] # None => e.arrival = when[m]
      BY ONLY <2>3, <2>4
    <2> QED
      BY ONLY <2>1, <2>2, <2>5 DEF Tells, e
  <1> QED
    BY <1>4, <1>5, <1>6

\* A feedback that is sent covers no more than the recorder holds.
LEMMA CountIsNat ==
    ASSUME TypeOK, started, PendingCount > 0, ~(PendingCount > Capacity)
    PROVE  PendingCount \in 1..Capacity /\ PendingCount \in Nat
  <1>1. SeqRange \in Nat \ {0} /\ Capacity \in Nat
    BY Constants
  <1> DEFINE d == max_seq - pending_base_seq + 1
             n == PendingCount
  <1>2. d \in Int
    BY Constants DEF TypeOK
  <1>3. n = d % SeqRange
    BY DEF PendingCount
  <1> HIDE DEF d, n
  <1>4. d % SeqRange \in 0..SeqRange - 1
    BY ONLY <1>1, <1>2, ModOf
  <1>5. n \in Nat
    BY ONLY <1>1, <1>3, <1>4
  <1> QED
    BY <1>1, <1>5 DEF n

\* A feedback that is sent says what has arrived.
LEMMA FeedbackReports ==
    ASSUME IInv, Noted, Feedback
    PROVE  ReportsWhatArrived'
  <1> SUFFICES ASSUME feedback' # None PROVE ReportsWhatArrived'
    BY DEF ReportsWhatArrived
  <1> DEFINE f == feedback'
             n == PendingCount
             e == Entries
  <1>1. /\ n > 0 /\ ~(n > Capacity) /\ IsReport(f, e, n) /\ f.base = pending_base_seq
        /\ highest' = highest /\ when' = when
    BY FeedbackIsBuilt
  <1>2. started
    BY <1>1 DEF PendingCount
  <1>3. n \in 1..Capacity /\ n \in Nat
    BY <1>1, <1>2, CountIsNat DEF IInv
  <1>4. /\ AreEntries(e, n) /\ base_time \in Int
        /\ \A i \in 1..n : Meant(f, i) \in Packets /\ Tells(e, i, Meant(f, i))
    BY <1>1, <1>2, <1>3, EntriesTell
  <1> HIDE DEF f, e, n
  <1>5. /\ Len(f.chunks) * Symbols \in n..(n + Symbols - 1)
        /\ \A i \in 1..Len(f.chunks) * Symbols :
             ReadStatus(f, i) = (IF i <= n THEN IF e[i] = None THEN 0 ELSE Status(Delta(e, i)) ELSE 0)
        /\ ByteCount(f, n) = Len(f.bytes)
    BY ONLY <1>1, <1>3, <1>4, ReportIsRead
  <1>6. f.count = n
    BY <1>1 DEF IsReport
  <1> DEFINE all == Len(f.chunks) * Symbols
  <1>7. all \in Nat /\ n <= all /\ all \in n..(n + Symbols - 1)
    <2>1. Symbols \in Nat
      BY TwccAssumption
    <2>2. all \in n..(n + Symbols - 1)
      BY <1>5
    <2> HIDE DEF all
    <2> QED
      BY ONLY <1>3, <2>1, <2>2
  <1>8. \A i \in 1..all :
          ReadStatus(f, i) = (IF i <= n THEN IF e[i] = None THEN 0 ELSE Status(Delta(e, i)) ELSE 0)
    BY <1>5
  <1>9. \A d : Status(d) \in {1, 2}
    BY DEF Status
  <1> HIDE DEF all
  <1>10. ASSUME NEW i \in 1..n
         PROVE  Meant(f, i) \in Packets /\ (ReadStatus(f, i) \in {1, 2} <=>
                  when[Meant(f, i)] # None \/ IsStale(Meant(f, i)))
    <2>1. i \in 1..all /\ i <= n
      BY ONLY <1>3, <1>7, i \in 1..n
    <2>2. ReadStatus(f, i) = IF e[i] = None THEN 0 ELSE Status(Delta(e, i))
      BY ONLY <1>8, <2>1
    <2>3. ReadStatus(f, i) \in {1, 2} <=> e[i] # None
      BY ONLY <1>9, <2>2
    <2>4. Meant(f, i) \in Packets /\ (e[i] # None <=> when[Meant(f, i)] # None \/ IsStale(Meant(f, i)))
      BY <1>4 DEF Tells
    <2> QED
      BY ONLY <2>3, <2>4
  <1>11. ASSUME NEW i \in n + 1..all PROVE ReadStatus(f, i) = 0
    <2>1. i \in 1..all /\ ~(i <= n)
      BY ONLY <1>3, <1>7, i \in n + 1..all
    <2> QED
      BY ONLY <1>8, <2>1
  <1>12. /\ Chunked(f)
         /\ \A i \in 1..f.count :
              /\ Meant(f, i) \in Packets
              /\ ReadStatus(f, i) \in {1, 2} <=> when[Meant(f, i)] # None \/ IsStale(Meant(f, i))
         /\ \A i \in f.count + 1..Len(f.chunks) * Symbols : ReadStatus(f, i) = 0
         /\ ByteCount(f, f.count) = Len(f.bytes)
    BY <1>5, <1>6, <1>7, <1>10, <1>11 DEF Chunked, all
  <1> QED
    BY <1>1, <1>12 DEF ReportsWhatArrived, Meant, IsStale, Chunked, f

-----------------------------------------------------------------------------
\* The times in a feedback.

\* After so many ticks the reference time begins again.
Round == RefMod * Byte * Tick
\* The difference v is less than b, up to rounds.
IsNear(v, b) == \E x \in Int, k \in Int : v = x + Round * k /\ -b < x /\ x < b

\* A round takes time.
LEMMA RoundIsPositive == Round \in Nat \ {0}
  <1>1. RefMod \in Nat \ {0} /\ Byte \in Nat \ {0} /\ Tick \in Nat \ {0}
    BY TwccAssumption
  <1>2. \A a, b \in Nat \ {0} : a * b \in Nat \ {0}
    <2>1. ASSUME NEW a \in Nat \ {0}, NEW b \in Nat \ {0} PROVE a * b \in Nat \ {0}
      <3>1. a * b \in Int
        OBVIOUS
      <3>2. a >= 1 => a * b >= b
        OBVIOUS
      <3> QED
        BY <3>1, <3>2
    <2> QED
      BY <2>1
  <1>3. RefMod * Byte \in Nat \ {0}
    BY ONLY <1>1, <1>2
  <1> QED
    BY ONLY <1>1, <1>2, <1>3 DEF Round

\* A difference of less than t more.
LEMMA NearerBy ==
    ASSUME NEW v \in Int, NEW b \in Int, IsNear(v, b), NEW y \in Int, NEW t \in Int, -t < y, y < t
    PROVE  IsNear(v + y, b + t)
  <1>1. PICK x \in Int, k \in Int : v = x + Round * k /\ -b < x /\ x < b
    BY DEF IsNear
  <1>2. Round * k \in Int
    BY RoundIsPositive
  <1>3. x + y \in Int /\ v + y = (x + y) + Round * k /\ -(b + t) < x + y /\ x + y < b + t
    BY <1>1, <1>2
  <1> QED
    BY <1>1, <1>3 DEF IsNear

\* What is near is within b of a multiple of Round, on one side or the other.
LEMMA NearIsClose ==
    ASSUME NEW v \in Int, NEW b \in Int, IsNear(v, b)
    PROVE  v % Round < b \/ v % Round > Round - b
  <1>0. Round \in Nat \ {0}
    BY RoundIsPositive
  <1>1. PICK x \in Int, k \in Int : v = x + Round * k /\ -b < x /\ x < b
    BY DEF IsNear
  <1>2. v % Round = x % Round
    BY ONLY <1>0, <1>1, v \in Int, ModShift
  <1> DEFINE r == x % Round
  <1>3. r \in 0..Round - 1 /\ (x >= 0 => r <= x)
    <2>1. r \in 0..Round - 1
      BY ONLY <1>0, <1>1, ModOf
    <2>2. x >= 0 => r <= x
      BY ONLY <1>0, <1>1, ModBelow
    <2> QED
      BY <2>1, <2>2
  <1>4. x < 0 => r >= x + Round
    <2> DEFINE z == x + Round
    <2>1. z \in Int /\ z = x + Round
      BY ONLY <1>0, <1>1
    <2> HIDE DEF z
    <2>2. z % Round = r
      BY ONLY <1>0, <1>1, <2>1, ModPlus
    <2>3. z >= 0 => z < Round \/ x >= 0
      BY ONLY <1>0, <1>1, <2>1
    <2>4. z >= 0 /\ z < Round => z % Round = z
      BY ONLY <1>0, <2>1, ModBelow
    <2>5. x < 0 /\ z < 0 => r >= z
      BY ONLY <1>0, <1>3, <2>1
    <2>6. x < 0 /\ z >= 0 => r = z
      BY ONLY <1>1, <2>2, <2>3, <2>4
    <2> QED
      BY ONLY <1>0, <1>1, <1>3, <2>1, <2>5, <2>6
  <1> HIDE DEF r
  <1>5. r < b \/ r > Round - b
    BY ONLY <1>0, <1>1, <1>3, <1>4, b \in Int
  <1> QED
    BY ONLY <1>2, <1>5 DEF r

\* What is not at the end of what a large delta may be has not been clamped.
LEMMA NotClamped ==
    ASSUME NEW d \in Int, Clamp(d, LargeDeltas) - 1 \in LargeDeltas,
           Clamp(d, LargeDeltas) + 1 \in LargeDeltas
    PROVE  Clamp(d, LargeDeltas) = d
  <1> DEFINE x == Clamp(d, LargeDeltas)
  <1>1. x \in LargeDeltas /\ \A y \in LargeDeltas : Abs(d - x) <= Abs(d - y)
    BY ClampNearest
  <1>2. LargeDeltas \subseteq Int
    BY TwccAssumption
  <1>3. x - 1 \in LargeDeltas /\ x + 1 \in LargeDeltas
    OBVIOUS
  <1> HIDE DEF x
  <1>4. Abs(d - x) <= Abs(d - (x - 1)) /\ Abs(d - x) <= Abs(d - (x + 1)) /\ x \in Int
    BY ONLY <1>1, <1>2, <1>3
  <1>5. x = d
    BY ONLY <1>4, d \in Int DEF Abs
  <1> QED
    BY <1>5 DEF x

\* As in TimesAreTrue.
Clamped(f, i) ==
    ReadStatus(f, i) = 2 /\ \E d \in LargeDeltas :
        ReadDelta(f, i) = d /\ {d - 1, d + 1} \cap LargeDeltas # {d - 1, d + 1}

\* A delta that was not clamped is read as it is.
LEMMA DeltaIsTrue ==
    ASSUME NEW f, NEW i, NEW d \in Int, ReadStatus(f, i) = Status(d),
           ReadDelta(f, i) = Decoded(d), ~Clamped(f, i)
    PROVE  ReadDelta(f, i) = d
  <1>1. CASE Status(d) = 1
    BY <1>1 DEF Decoded
  <1>2. CASE Status(d) = 2
    <2> DEFINE x == Clamp(d, LargeDeltas)
    <2>1. ReadDelta(f, i) = x /\ x \in LargeDeltas
      BY <1>2, ClampNearest DEF Decoded
    <2>2. {x - 1, x + 1} \cap LargeDeltas = {x - 1, x + 1}
      BY <1>2, <2>1 DEF Clamped
    <2>3. x - 1 \in LargeDeltas /\ x + 1 \in LargeDeltas
      <3> HIDE DEF x
      <3> QED
        BY ONLY <2>2
    <2> QED
      BY <2>1, <2>3, NotClamped
  <1> QED
    BY <1>1, <1>2 DEF Status

\* The reference time and the first delta together give the time of the first packet
\* received, up to whole rounds.
LEMMA FirstTime ==
    ASSUME NEW t \in Int, NEW r, r = (Units(t) \div Byte) % RefMod
    PROVE  /\ Byte * r \in Int
           /\ IsNear(t - Tick * (Byte * r + (Units(t) % Byte)), Tick)
  <1>1. RefMod \in Nat \ {0} /\ Byte \in Nat \ {0} /\ Tick \in Nat \ {0}
    BY TwccAssumption
  <1> DEFINE u == Units(t)
             q == u \div Byte
             s == u % Byte
             y == t - Tick * u
  <1>2. u \in Int /\ y > -Tick /\ y < Tick
    BY UnitsNear
  <1> HIDE DEF u
  <1>3. q \in Int /\ s \in 0..Byte - 1 /\ u = Byte * q + s
    BY ONLY <1>1, <1>2
  <1> HIDE DEF q, s
  <1>4. r \in Int /\ \E k \in Int : q = r + RefMod * k
    <2> DEFINE v == q % RefMod
    <2>1. v \in 0..RefMod - 1 /\ \E k \in Int : q = v + RefMod * k
      BY ONLY <1>1, <1>3, ModOf
    <2>2. r = v
      BY DEF q, u
    <2> HIDE DEF v
    <2>3. v \in Int
      BY ONLY <1>1, <2>1
    <2> QED
      BY ONLY <2>1, <2>2, <2>3
  <1>5. PICK k \in Int : q = r + RefMod * k
    BY <1>4
  <1> DEFINE w == Byte * r + s
             z == RefMod * Byte * k
  <1>6. Byte * r \in Int /\ s \in Int /\ w \in Int /\ z \in Int
    BY ONLY <1>1, <1>3, <1>4, <1>5
  <1>7. u = w + z
    <2>1. Byte * q = Byte * r + RefMod * Byte * k
      BY ONLY <1>1, <1>4, <1>5
    <2> DEFINE a == Byte * q
               b == Byte * r
    <2>2. a = b + z /\ b \in Int /\ u = a + s
      BY ONLY <1>3, <1>6, <2>1
    <2> HIDE DEF a, z
    <2>3. u = (b + s) + z
      BY ONLY <1>6, <2>2
    <2> QED
      BY ONLY <2>3 DEF b
  <1>8. Tick * u = Tick * w + Round * k
    <2>1. Tick * z = Round * k
      BY ONLY <1>1, <1>5 DEF Round
    <2> HIDE DEF w, z
    <2>2. Tick * (w + z) = Tick * w + Tick * z
      BY ONLY <1>1, <1>6
    <2> QED
      BY ONLY <1>7, <2>1, <2>2
  <1>9. Tick * w \in Int /\ Round * k \in Int /\ Tick * u \in Int
    BY ONLY <1>1, <1>2, <1>5, <1>6, RoundIsPositive
  <1>10. t - Tick * w = y + Round * k /\ y \in Int
    <2> DEFINE a == Tick * w
               b == Round * k
               c == Tick * u
    <2>1. c = a + b /\ a \in Int /\ b \in Int /\ c \in Int /\ y = t - c
      BY ONLY <1>8, <1>9
    <2> HIDE DEF a, b, c, y
    <2>2. t - a = y + b /\ y \in Int
      BY ONLY <2>1, t \in Int
    <2> QED
      BY ONLY <2>2 DEF a, b
  <1> HIDE DEF y, w
  <1>11. IsNear(t - Tick * w, Tick)
    BY ONLY <1>2, <1>5, <1>10 DEF IsNear
  <1> QED
    BY ONLY <1>6, <1>11 DEF w, s, u

\* The packet l is the last one received up to the i-th place.
IsLast(e, i, l) == l \in 1..i /\ e[l] # None /\ \A j \in l + 1..i : e[j] = None

\* The time read at place i is near that of the last packet received.
TimeNear(f, e, i) ==
    \/ (\A j \in 1..i : e[j] = None) /\ ReadTime(f, i) = Byte * f.reference /\ DeltaCount(f, i) = 0
    \/ \E l \in Nat :
         /\ IsLast(e, i, l)
         /\ IsNear(e[l].arrival - base_time - Tick * ReadTime(f, i), DeltaCount(f, i) * Tick)

\* By induction over the places: each delta adds an error of less than one unit.
LEMMA TimesNear ==
    ASSUME NEW n \in Nat, NEW e, AreEntries(e, n), base_time \in Int, NEW f, IsReport(f, e, n),
           Received(e) # {},
           f.reference = (Units(e[Min(Received(e))].arrival - base_time) \div Byte) % RefMod,
           NEW i \in 1..n, \A j \in 1..i : ~Clamped(f, j)
    PROVE  TimeNear(f, e, i) /\ ReadTime(f, i) \in Int /\ DeltaCount(f, i) \in Nat
  <1> DEFINE a == [j \in 1..n |-> ReadDelta(f, j)]
             T(j) == ReadTime(f, j)
             c(j) == DeltaCount(f, j)
             S == Received(e)
             first == Min(S)
  <1>1. Tick \in Nat \ {0} /\ Byte \in Nat \ {0} /\ f.count = n
    BY TwccAssumption DEF IsReport
  <1>2. DOMAIN e = 1..n /\ \A j \in 1..n : e[j] # None => e[j].arrival \in Int
    BY DEF AreEntries
  <1>3. S = {j \in 1..n : e[j] # None}
    BY <1>2 DEF Received
  <1>4. first \in 1..n /\ e[first] # None /\ \A j \in 1..n : e[j] # None => first <= j
    <2> HIDE DEF S
    <2>1. S \subseteq 1..n /\ S # {}
      BY <1>3 DEF S
    <2>2. first \in S /\ \A y \in S : first <= y
      BY ONLY <2>1, n \in Nat, MinIsSmallest
    <2> QED
      BY ONLY <1>3, <2>2
  <1> DEFINE t1 == e[first].arrival - base_time
  <1>5. f.reference = (Units(t1) \div Byte) % RefMod /\ t1 \in Int
    BY <1>2, <1>4
  <1> HIDE DEF first, S
  <1>6. /\ Byte * f.reference \in Int
        /\ IsNear(t1 - Tick * (Byte * f.reference + (Units(t1) % Byte)), Tick)
    <2> HIDE DEF t1
    <2> QED
      BY ONLY <1>5, FirstTime
  <1>7. ASSUME NEW j \in 1..n
        PROVE  /\ ReadStatus(f, j) = (IF e[j] = None THEN 0 ELSE Status(Delta(e, j)))
               /\ ReadDelta(f, j) = (IF e[j] = None THEN 0 ELSE Decoded(Delta(e, j)))
               /\ e[j] # None => Delta(e, j) \in Int
    <2> DEFINE all == Len(f.chunks) * Symbols
    <2>1. /\ all \in n..(n + Symbols - 1)
          /\ \A k \in 1..all :
               ReadStatus(f, k) = (IF k <= n THEN IF e[k] = None THEN 0 ELSE Status(Delta(e, k)) ELSE 0)
          /\ \A k \in 1..n : ReadDelta(f, k) = IF e[k] = None THEN 0 ELSE Decoded(Delta(e, k))
      BY ReportIsRead
    <2>2. Symbols \in Nat
      BY TwccAssumption
    <2> HIDE DEF all
    <2>3. j \in 1..all /\ j <= n
      BY ONLY <2>1, <2>2, n \in Nat, j \in 1..n
    <2>4. ReadStatus(f, j) = (IF e[j] = None THEN 0 ELSE Status(Delta(e, j)))
      BY ONLY <2>1, <2>3
    <2>5. e[j] # None => Delta(e, j) \in Int
      BY DeltaOf
    <2> QED
      BY ONLY <2>1, <2>4, <2>5, j \in 1..n
  <1>8. \A j \in 1..n : ReadDelta(f, j) = a[j] /\ a[j] \in Int
    <2>1. ASSUME NEW j \in 1..n PROVE ReadDelta(f, j) \in Int
      <3>1. CASE e[j] = None
        BY <1>7, <3>1
      <3>2. CASE e[j] # None
        <4>1. Decoded(Delta(e, j)) \in Int
          BY <1>7, <3>2, DeltaInBytes
        <4> QED
          BY <1>7, <3>2, <4>1
      <3> QED
        BY <3>1, <3>2
    <2> QED
      BY <2>1
  <1>9. a \in [1..n -> Int]
    BY <1>8
  <1> HIDE DEF a
  <1>10. /\ T(0) = Byte * f.reference
         /\ \A j \in 1..n : T(j) = T(j - 1) + a[j]
         /\ \A j \in 0..n : T(j) \in Int
    BY ONLY <1>1, <1>6, <1>8, <1>9, n \in Nat, TimesAdd
  <1>11. /\ c(0) = 0
         /\ \A j \in 1..n : c(j) = c(j - 1) + (IF ReadStatus(f, j) = 0 THEN 0 ELSE 1)
         /\ \A j \in 0..n : c(j) \in Nat
    BY DeltasAdd
  <1>12. ASSUME NEW j \in 1..i, TimeNear(f, e, j - 1) PROVE TimeNear(f, e, j)
    <2>1. j \in 1..n /\ j - 1 \in 0..n /\ j \in 0..n /\ j \in Nat /\ i \in Nat /\ i <= n
      OBVIOUS
    <2>2. T(j) = T(j - 1) + ReadDelta(f, j) /\ T(j - 1) \in Int /\ T(j) \in Int
          /\ c(j) = c(j - 1) + (IF ReadStatus(f, j) = 0 THEN 0 ELSE 1) /\ c(j - 1) \in Nat
      BY <1>8, <1>10, <1>11, <2>1
    <2>3. /\ ReadStatus(f, j) = (IF e[j] = None THEN 0 ELSE Status(Delta(e, j)))
          /\ ReadDelta(f, j) = (IF e[j] = None THEN 0 ELSE Decoded(Delta(e, j)))
          /\ e[j] # None => Delta(e, j) \in Int
      BY <1>7, <2>1
    <2>4. \/ (\A k \in 1..j - 1 : e[k] = None) /\ T(j - 1) = Byte * f.reference /\ c(j - 1) = 0
          \/ \E l \in Nat : IsLast(e, j - 1, l)
                /\ IsNear(e[l].arrival - base_time - Tick * T(j - 1), c(j - 1) * Tick)
      BY <1>12 DEF TimeNear
    <2>5. CASE e[j] = None
      <3>1. T(j) = T(j - 1) /\ c(j) = c(j - 1)
        BY <2>2, <2>3, <2>5
      <3>2. ASSUME \A k \in 1..j - 1 : e[k] = None PROVE \A k \in 1..j : e[k] = None
        <4>1. \A k \in 1..j : k \in 1..j - 1 \/ k = j
          BY <2>1
        <4> QED
          BY <2>5, <3>2, <4>1
      <3>3. ASSUME NEW l \in Nat, IsLast(e, j - 1, l) PROVE IsLast(e, j, l)
        <4>1. l \in 1..j /\ \A k \in l + 1..j : k \in l + 1..j - 1 \/ k = j
          BY <2>1, <3>3 DEF IsLast
        <4> QED
          BY <2>5, <3>3, <4>1 DEF IsLast
      <3> HIDE DEF T, c
      <3>4. \/ (\A k \in 1..j : e[k] = None) /\ T(j) = Byte * f.reference /\ c(j) = 0
            \/ \E l \in Nat : IsLast(e, j, l)
                  /\ IsNear(e[l].arrival - base_time - Tick * T(j), c(j) * Tick)
        BY <2>4, <3>1, <3>2, <3>3
      <3> QED
        BY ONLY <3>4 DEF TimeNear, T, c
    <2>6. CASE e[j] # None
      <3> DEFINE d == Delta(e, j)
                 p == e[j].arrival
      <3>1. d \in Int /\ p \in Int
        BY <1>2, <2>1, <2>3, <2>6
      <3>2. ReadDelta(f, j) = d
        <4>1. ReadStatus(f, j) = Status(d) /\ ReadDelta(f, j) = Decoded(d)
          BY <2>3, <2>6
        <4> HIDE DEF d
        <4> QED
          BY <3>1, <4>1, DeltaIsTrue
      <3>3. c(j) = c(j - 1) + 1
        <4>1. Status(d) # 0
          BY DEF Status
        <4> QED
          BY <2>2, <2>3, <2>6, <4>1
      <3>4. T(j) = T(j - 1) + d
        BY <2>2, <3>2
      <3>5. IsLast(e, j, j)
        <4>1. j \in 1..j /\ \A k \in j + 1..j : FALSE
          BY <2>1
        <4> QED
          BY <2>6, <4>1 DEF IsLast
      <3>6. \/ /\ \A k \in 1..j - 1 : e[k] = None
               /\ d = Units(p - base_time) % Byte
            \/ \E l \in 1..j - 1 :
                 /\ e[l] # None /\ \A k \in l + 1..j - 1 : e[k] = None
                 /\ e[l].arrival \in Int /\ d = Units(p - e[l].arrival)
        BY <2>1, <2>6, DeltaOf
      <3> HIDE DEF d
      <3>7. CASE (\A k \in 1..j - 1 : e[k] = None) /\ d = Units(p - base_time) % Byte
        <4>1. T(j - 1) = Byte * f.reference /\ c(j - 1) = 0
          <5>1. ASSUME NEW l \in Nat, IsLast(e, j - 1, l) PROVE FALSE
            BY <3>7, <5>1 DEF IsLast
          <5> QED
            BY <2>4, <5>1
        <4>2. first = j
          <5>1. first <= j
            BY <1>4, <2>1, <2>6
          <5>2. ~(first \in 1..j - 1)
            BY <1>4, <3>7
          <5> QED
            BY <1>4, <2>1, <5>1, <5>2
        <4>3. t1 = p - base_time
          BY <4>2
        <4>4. T(j) = Byte * f.reference + (Units(t1) % Byte)
          BY <3>4, <3>7, <4>1, <4>3
        <4>5. IsNear(p - base_time - Tick * T(j), Tick)
          BY <1>6, <4>3, <4>4
        <4>6. c(j) * Tick = Tick
          BY <1>1, <3>3, <4>1
        <4>7. IsNear(p - base_time - Tick * T(j), c(j) * Tick)
          BY ONLY <4>5, <4>6
        <4> QED
          BY <2>1, <3>5, <4>7 DEF TimeNear
      <3>8. CASE \E l \in 1..j - 1 :
                   /\ e[l] # None /\ \A k \in l + 1..j - 1 : e[k] = None
                   /\ e[l].arrival \in Int /\ d = Units(p - e[l].arrival)
        <4>1. PICK l \in 1..j - 1 :
                   /\ e[l] # None /\ \A k \in l + 1..j - 1 : e[k] = None
                   /\ e[l].arrival \in Int /\ d = Units(p - e[l].arrival)
          BY <3>8
        <4>2. PICK m \in Nat : IsLast(e, j - 1, m)
                /\ IsNear(e[m].arrival - base_time - Tick * T(j - 1), c(j - 1) * Tick)
          BY <2>4, <4>1
        <4>3. m = l
          <5>1. m \in 1..j - 1 /\ e[m] # None /\ \A k \in m + 1..j - 1 : e[k] = None
            BY <4>2 DEF IsLast
          <5>2. ~(m \in l + 1..j - 1) /\ ~(l \in m + 1..j - 1)
            BY <4>1, <5>1
          <5> QED
            BY <2>1, <4>1, <5>1, <5>2
        <4> DEFINE q == e[l].arrival
                   v == q - base_time - Tick * T(j - 1)
                   y == (p - q) - Tick * d
                   b == c(j - 1) * Tick
        <4>4. q \in Int
          BY <4>1
        <4>5. y > -Tick /\ y < Tick
          <5>1. p - q \in Int /\ d = Units(p - q)
            BY <3>1, <4>1
          <5> QED
            BY <5>1, UnitsNear
        <4>6. IsNear(v, b)
          BY <4>2, <4>3
        <4>7. Tick * T(j - 1) \in Int /\ Tick * d \in Int /\ b \in Int
          BY <1>1, <2>2, <3>1
        <4>8. Tick * T(j) = Tick * T(j - 1) + Tick * d
          <5> HIDE DEF T
          <5> QED
            BY <1>1, <2>2, <3>1, <3>4
        <4>9. c(j) * Tick = b + Tick
          BY <1>1, <2>2, <3>3
        <4>10. v \in Int /\ y \in Int
          BY <3>1, <4>4, <4>7
        <4>11. IsNear(v + y, b + Tick)
          <5>1. Tick \in Int /\ b \in Int /\ -Tick < y /\ y < Tick
            BY <1>1, <4>5, <4>7, <4>10
          <5> HIDE DEF v, y, b
          <5> QED
            BY ONLY <4>6, <4>10, <5>1, NearerBy
        <4>12. v + y = p - base_time - Tick * T(j)
          <5> DEFINE g == Tick * T(j - 1)
                     h == Tick * d
                     w == Tick * T(j)
          <5>1. w = g + h /\ g \in Int /\ h \in Int /\ v = q - base_time - g /\ y = (p - q) - h
            BY <4>7, <4>8
          <5> HIDE DEF g, h, w, v, y, p, q
          <5>2. v + y = p - base_time - w
            BY <3>1, <4>4, <5>1
          <5> QED
            BY ONLY <5>2 DEF w
        <4>13. IsNear(p - base_time - Tick * T(j), c(j) * Tick)
          BY ONLY <4>9, <4>11, <4>12
        <4> QED
          BY <2>1, <3>5, <4>13 DEF TimeNear
      <3> QED
        BY <3>6, <3>7, <3>8
    <2> QED
      BY <2>5, <2>6
  <1>13. TimeNear(f, e, 0)
    <2>1. \A j \in 1..0 : e[j] = None
      OBVIOUS
    <2> QED
      BY <1>10, <1>11, <2>1 DEF TimeNear
  <1> DEFINE Bad == {j \in Nat : j <= i /\ ~TimeNear(f, e, j)}
  <1>14. ASSUME Bad # {} PROVE FALSE
    <2>1. PICK j \in Bad : \A k \in Bad : j <= k
      BY <1>14, LeastNat
    <2>2. j \in Nat /\ j <= i /\ ~TimeNear(f, e, j) /\ j # 0
      BY <1>13, <2>1
    <2>3. j - 1 \in Nat /\ j - 1 <= i /\ ~(j <= j - 1) /\ j \in 1..i
      BY <2>2
    <2>4. TimeNear(f, e, j - 1)
      BY <2>1, <2>3
    <2> QED
      BY <1>12, <2>2, <2>3, <2>4
  <1>15. i \in Nat /\ i <= i /\ i \in 0..n
    OBVIOUS
  <1>16. TimeNear(f, e, i)
    BY <1>14, <1>15
  <1> QED
    BY ONLY <1>10, <1>11, <1>15, <1>16

\* A feedback that is sent gives the times truly.
LEMMA FeedbackTimes ==
    ASSUME IInv, Noted, Feedback
    PROVE  TimesAreTrue'
  <1> SUFFICES ASSUME feedback' # None PROVE TimesAreTrue'
    BY DEF TimesAreTrue
  <1> DEFINE f == feedback'
             n == PendingCount
             e == Entries
  <1>1. /\ n > 0 /\ ~(n > Capacity) /\ IsReport(f, e, n) /\ f.base = pending_base_seq
        /\ Received(e) # {}
        /\ f.reference = (Units(e[Min(Received(e))].arrival - base_time) \div Byte) % RefMod
        /\ highest' = highest /\ when' = when /\ base_time' = base_time
    BY FeedbackIsBuilt
  <1>2. started
    BY <1>1 DEF PendingCount
  <1>3. n \in 1..Capacity /\ n \in Nat
    BY <1>1, <1>2, CountIsNat DEF IInv
  <1>4. /\ AreEntries(e, n) /\ base_time \in Int
        /\ \A i \in 1..n : Meant(f, i) \in Packets /\ Tells(e, i, Meant(f, i))
    BY <1>1, <1>2, <1>3, EntriesTell
  <1> HIDE DEF f, e, n
  <1>5. f.count = n
    BY <1>1 DEF IsReport
  <1>6. ASSUME NEW i \in 1..n, when[Meant(f, i)] # None, \A j \in 1..i : ~Clamped(f, j)
        PROVE  LET error == (when[Meant(f, i)] - base_time - Tick * ReadTime(f, i)) % Round
                   bound == DeltaCount(f, i) * Tick
               IN error < bound \/ error > Round - bound
    <2> DEFINE p == when[Meant(f, i)]
               c == DeltaCount(f, i)
               v == p - base_time - Tick * ReadTime(f, i)
    <2>1. e[i] # None /\ e[i].arrival = p
      BY <1>4, <1>6 DEF Tells
    <2>2. TimeNear(f, e, i) /\ ReadTime(f, i) \in Int /\ c \in Nat
      BY ONLY <1>1, <1>3, <1>4, <1>6, TimesNear
    <2>3. i \in Nat /\ i \in 1..i
      BY <1>3
    <2>4. PICK l \in Nat :
            IsLast(e, i, l) /\ IsNear(e[l].arrival - base_time - Tick * ReadTime(f, i), c * Tick)
      BY <2>1, <2>2, <2>3 DEF TimeNear
    <2>5. l = i
      <3>1. l \in 1..i /\ ~(i \in l + 1..i)
        BY <2>1, <2>4 DEF IsLast
      <3> QED
        BY <2>3, <3>1
    <2>6. IsNear(v, c * Tick)
      BY <2>1, <2>4, <2>5
    <2>7. p \in Int /\ Tick \in Nat /\ c \in Nat /\ ReadTime(f, i) \in Int
      <3>1. p \in Int
        BY <1>4, <2>1 DEF AreEntries
      <3> QED
        BY <2>2, <3>1, TwccAssumption
    <2>8. v \in Int /\ c * Tick \in Int
      <3> HIDE DEF p, c
      <3>1. Tick * ReadTime(f, i) \in Int /\ c * Tick \in Int
        BY <2>7
      <3> QED
        BY <1>4, <2>7, <3>1
    <2> DEFINE b == c * Tick
    <2>9. v % Round < b \/ v % Round > Round - b
      <3> HIDE DEF v, b
      <3>1. v \in Int /\ b \in Int /\ IsNear(v, b)
        BY <2>6, <2>8 DEF b
      <3> QED
        BY ONLY <3>1, NearIsClose
    <2> QED
      BY <2>9
  <1>7. \A i \in 1..n : when[Meant(f, i)] # None /\ (\A j \in 1..i : ~Clamped(f, j)) =>
          LET error == (when[Meant(f, i)] - base_time - Tick * ReadTime(f, i)) % Round
              bound == DeltaCount(f, i) * Tick
          IN error < bound \/ error > Round - bound
    BY <1>6
  <1> QED
    BY <1>1, <1>5, <1>7 DEF TimesAreTrue, Meant, Clamped, Round, f

-----------------------------------------------------------------------------
\* What the theorems follow from.
Inv == IInv /\ Noted /\ ReportsWhatArrived /\ TimesAreTrue

\* The properties hold at first, when no feedback has been sent.
LEMMA InvFirst == Init => Inv
  <1> SUFFICES ASSUME Init PROVE Inv
    OBVIOUS
  <1>1. feedback = None
    BY DEF Init
  <1> QED
    BY <1>1, InitOK, NotedFirst DEF Inv, ReportsWhatArrived, TimesAreTrue

\* Every step preserves them.
LEMMA InvKept == Inv /\ [Next]_vars => Inv'
  <1> SUFFICES ASSUME Inv, [Next]_vars PROVE Inv'
    OBVIOUS
  <1>1. IInv' /\ Noted'
    BY StepOK, NotedKept DEF Inv, IInv
  <1>2. ASSUME NEW n \in Packets, NEW gap \in Gaps, NEW extension \in Extensions,
               Arrive(n, gap, extension)
        PROVE  Inv'
    <2>1. feedback' = None
      BY <1>2 DEF Arrive
    <2> QED
      BY <1>1, <2>1 DEF Inv, ReportsWhatArrived, TimesAreTrue
  <1>3. CASE Feedback
    <2>1. ReportsWhatArrived' /\ TimesAreTrue'
      BY <1>3, FeedbackReports, FeedbackTimes DEF Inv
    <2> QED
      BY <1>1, <2>1 DEF Inv
  <1>4. CASE UNCHANGED vars
    <2>1. feedback' = feedback /\ highest' = highest /\ when' = when /\ base_time' = base_time
      BY <1>4 DEF vars, recorder, history
    <2>2. ReportsWhatArrived'
      BY <2>1 DEF Inv, ReportsWhatArrived, Meant, IsStale
    <2>3. TimesAreTrue'
      BY <2>1 DEF Inv, TimesAreTrue, Meant
    <2> QED
      BY <1>1, <2>2, <2>3 DEF Inv
  <1> QED
    BY <1>2, <1>3, <1>4 DEF Next

\* The recorder, the bookkeeping of the feedback and the times have their types.
THEOREM Types == Spec => []TypeOK
  <1>1. IInv => TypeOK
    BY DEF IInv
  <1> QED
    BY <1>1, InitOK, StepOK, PTL DEF Spec

\* The base that build_twcc_feedback moves on, and wraps, neither repeats a packet nor
\* passes one over that the recorder could hold.
THEOREM CoveredOnce == Spec => []EachIsCoveredOnce
  BY InitOK, StepOK, EachIsCovered, PTL DEF Spec

\* What encode_status_chunks packs, for any number of packets and any losses, the
\* publisher unpacks to what the recorder has seen arrive.
THEOREM Reports == Spec => []ReportsWhatArrived
  <1>1. Inv => ReportsWhatArrived
    BY DEF Inv
  <1> QED
    BY <1>1, InvFirst, InvKept, PTL DEF Spec

\* The errors of the deltas that encode_recv_deltas writes do not add up to more than
\* one unit for each, reference time, wrapping and signs included.
THEOREM Times == Spec => []TimesAreTrue
  <1>1. Inv => TimesAreTrue
    BY DEF Inv
  <1> QED
    BY <1>1, InvFirst, InvKept, PTL DEF Spec
===============================================================================
