------------------------------- MODULE RtxProofs -------------------------------
(***************************************************************************)
(* Proofs about Rtx: an RTX packet is the one that was asked for, whatever   *)
(* has wrapped and been overwritten since; a compound of any blocks in any   *)
(* order is taken apart and its parts come to the publishers they are for;   *)
(* and a REMB says the bitrate configured, to the last bit of its mantissa.  *)
(***************************************************************************)
EXTENDS Rtx, FiniteSetTheorems, WellFoundedInduction, TLAPS

-----------------------------------------------------------------------------
\* Numbers and sequences.

\* A set of natural numbers that is not empty has a least one.
LEMMA LeastNat ==
    ASSUME NEW T, T \subseteq Nat, T # {}
    PROVE  \E x \in T : \A y \in T : x <= y
  <1>1. PICK x \in T : \A y \in T : ~(<<y, x>> \in OpToRel(<, Nat))
    BY NatLessThanWellFounded, WFMin
  <1>2. \A y \in T : ~(y < x)
    BY <1>1 DEF OpToRel
  <1> QED
    BY <1>2

\* Quotient and remainder are unique.
LEMMA ModUnique ==
    ASSUME NEW n \in Nat \ {0}, NEW a \in Int, NEW p \in Int, NEW r \in 0..n - 1, a = n * p + r
    PROVE  a % n = r
  <1> DEFINE d == a \div n
             m == a % n
  <1>1. d \in Int /\ m \in 0..n - 1 /\ a = n * d + m
    OBVIOUS
  <1> HIDE DEF d, m
  <1> DEFINE x == d - p
             y == n * x
  <1>2. x \in Int /\ y = r - m
    BY <1>1
  <1>3. -n < y /\ y < n
    BY <1>1, <1>2
  <1>4. x >= 1 => y >= n
    BY <1>2
  <1>5. x <= -1 => y <= -n
    BY <1>2
  <1>6. y \in Int
    BY <1>2
  <1> HIDE DEF x, y
  <1>7. x = 0
    BY <1>2, <1>3, <1>4, <1>5, <1>6
  <1>8. y = 0
    BY <1>7 DEF y
  <1>9. m = r
    BY <1>1, <1>2, <1>8
  <1> QED
    BY <1>9 DEF m

\* What differs by a multiple of n has the same remainder.
LEMMA ModShift ==
    ASSUME NEW n \in Nat \ {0}, NEW a \in Int, NEW k \in Int, NEW b \in Int, b = a + n * k
    PROVE  b % n = a % n
  <1> DEFINE d == a \div n
             m == a % n
  <1>1. d \in Int /\ m \in 0..n - 1 /\ a = n * d + m
    OBVIOUS
  <1> HIDE DEF d, m
  <1>2. d + k \in Int /\ b = n * (d + k) + m
    BY <1>1
  <1>3. b % n = m
    BY <1>1, <1>2, ModUnique
  <1> QED
    BY <1>3 DEF m

\* A number is its remainder and a multiple.
LEMMA ModOf ==
    ASSUME NEW n \in Nat \ {0}, NEW a \in Int
    PROVE  a % n \in 0..n - 1 /\ \E k \in Int : a = (a % n) + n * k
  <1>1. a \div n \in Int /\ a % n \in 0..n - 1 /\ a = n * (a \div n) + (a % n)
    OBVIOUS
  <1> DEFINE d == a \div n
             m == a % n
  <1>2. d \in Int /\ m \in 0..n - 1 /\ a = n * d + m
    BY <1>1
  <1> HIDE DEF d, m
  <1>3. a = m + n * d
    BY <1>2
  <1>4. m \in 0..n - 1 /\ \E k \in Int : a = m + n * k
    BY <1>2, <1>3
  <1> QED
    BY <1>4 DEF m

\* g is defined by recursion on 0..n, step[i] being what is done in the i-th step.
IsRecursion(g, n, x, step) == g[0] = x /\ \A i \in 1..n : g[i] = step[i][g[i - 1]]

\* Such a function exists.
LEMMA RecursionExists ==
    ASSUME NEW T, NEW n \in Nat, NEW x \in T, NEW step \in [1..n -> [T -> T]]
    PROVE  \E g \in [0..n -> T] : IsRecursion(g, n, x, step)
  <1> DEFINE Good(m) == \E g \in [0..m -> T] : IsRecursion(g, m, x, step)
             Bad == {m \in Nat : m <= n /\ ~Good(m)}
  <1>1. Good(0)
    <2> DEFINE g == [i \in 0..0 |-> x]
    <2>1. g \in [0..0 -> T] /\ g[0] = x /\ \A i \in 1..0 : FALSE
      OBVIOUS
    <2> HIDE DEF g
    <2>2. IsRecursion(g, 0, x, step)
      BY <2>1 DEF IsRecursion
    <2> QED
      BY <2>1, <2>2
  <1>2. ASSUME NEW m \in Nat, m < n, Good(m) PROVE Good(m + 1)
    <2>1. PICK g \in [0..m -> T] : IsRecursion(g, m, x, step)
      BY <1>2
    <2> DEFINE y == step[m + 1][g[m]]
               h == [i \in 0..m + 1 |-> IF i = m + 1 THEN y ELSE g[i]]
    <2>2. y \in T
      <3>1. m + 1 \in 1..n /\ m \in 0..m
        BY <1>2
      <3> QED
        BY <3>1
    <2> HIDE DEF y
    <2>3. h \in [0..m + 1 -> T]
      BY <2>2
    <2>4. h[0] = x
      BY <2>1 DEF IsRecursion
    <2>5. ASSUME NEW i \in 1..m + 1 PROVE h[i] = step[i][h[i - 1]]
      <3>1. i - 1 \in 0..m + 1 /\ i \in 0..m + 1 /\ i - 1 # m + 1
        OBVIOUS
      <3>2. h[i - 1] = g[i - 1]
        BY <3>1
      <3>3. CASE i = m + 1
        <4>1. i - 1 = m /\ h[i] = y
          BY <3>1, <3>3
        <4> QED
          BY <3>2, <3>3, <4>1 DEF y
      <3>4. CASE i \in 1..m
        <4>1. h[i] = g[i]
          BY <3>1, <3>4
        <4> QED
          BY <2>1, <3>2, <3>4, <4>1 DEF IsRecursion
      <3>5. i = m + 1 \/ i \in 1..m
        OBVIOUS
      <3> HIDE DEF h
      <3> QED
        BY <3>3, <3>4, <3>5
    <2> HIDE DEF h
    <2>6. IsRecursion(h, m + 1, x, step)
      BY <2>4, <2>5 DEF IsRecursion
    <2> QED
      BY <2>3, <2>6
  <1> HIDE DEF Good
  <1>3. ASSUME Bad # {} PROVE FALSE
    <2>1. PICK m \in Bad : \A k \in Bad : m <= k
      BY <1>3, LeastNat
    <2>2. m \in Nat /\ m <= n /\ ~Good(m) /\ m # 0
      BY <1>1, <2>1
    <2>3. m - 1 \in Nat /\ m - 1 < n /\ Good(m - 1)
      BY <2>1, <2>2
    <2>4. Good((m - 1) + 1)
      BY <1>2, <2>3
    <2> QED
      BY <2>2, <2>4
  <1>4. Good(n)
    BY <1>3
  <1> QED
    BY <1>4 DEF Good

\* What h[j] holds is x and the sum of a[1] to a[j].
IsSum(h, n, x, a) == h = [j \in 0..n |-> IF j = 0 THEN x ELSE h[j - 1] + a[j]]

\* There is such a function.
LEMMA SumExists ==
    ASSUME NEW n \in Nat, NEW x \in Int, NEW a \in [1..n -> Int]
    PROVE  \E h : IsSum(h, n, x, a)
  <1> DEFINE step == [j \in 1..n |-> [y \in Int |-> y + a[j]]]
  <1>1. step \in [1..n -> [Int -> Int]] /\ \A j \in 1..n : \A y \in Int : step[j][y] = y + a[j]
    OBVIOUS
  <1> HIDE DEF step
  <1>2. PICK h \in [0..n -> Int] : IsRecursion(h, n, x, step)
    BY <1>1, RecursionExists
  <1>3. ASSUME NEW j \in 1..n PROVE h[j] = h[j - 1] + a[j]
    <2>1. j - 1 \in 0..n
      OBVIOUS
    <2>2. h[j - 1] \in Int
      BY <1>2, <2>1
    <2>3. h[j] = step[j][h[j - 1]]
      BY <1>2 DEF IsRecursion
    <2> QED
      BY <1>1, <2>2, <2>3
  <1>4. h[0] = x
    BY <1>2 DEF IsRecursion
  <1>5. \A j \in 0..n : h[j] = IF j = 0 THEN x ELSE h[j - 1] + a[j]
    BY <1>3, <1>4
  <1>6. IsSum(h, n, x, a)
    BY <1>2, <1>5 DEF IsSum
  <1> QED
    BY <1>6

\* How to compute it.
Adds(h, n, x, a) ==
    /\ h[0] = x
    /\ \A j \in 1..n : h[j] = h[j - 1] + a[j]
    /\ \A j \in 0..n : h[j] \in Int

\* Its values are numbers, and each is the one before and one more term.
LEMMA SumIs ==
    ASSUME NEW n \in Nat, NEW x \in Int, NEW a \in [1..n -> Int], NEW h, IsSum(h, n, x, a)
    PROVE  Adds(h, n, x, a)
  <1>1. \A j \in 0..n : h[j] = IF j = 0 THEN x ELSE h[j - 1] + a[j]
    BY DEF IsSum
  <1>2. h[0] = x /\ \A j \in 1..n : h[j] = h[j - 1] + a[j]
    <2>1. 0 \in 0..n /\ \A j \in 1..n : j \in 0..n /\ j # 0
      OBVIOUS
    <2> QED
      BY ONLY <1>1, <2>1
  <1> DEFINE Bad == {j \in Nat : j <= n /\ h[j] \notin Int}
  <1>3. ASSUME Bad # {} PROVE FALSE
    <2>1. PICK j \in Bad : \A k \in Bad : j <= k
      BY <1>3, LeastNat
    <2>2. j \in Nat /\ j <= n /\ h[j] \notin Int /\ j # 0
      BY <1>2, <2>1
    <2>3. j - 1 \in Nat /\ j - 1 <= n /\ ~(j <= j - 1) /\ j \in 1..n
      BY <2>2
    <2>4. h[j - 1] \in Int
      BY <2>1, <2>3
    <2>5. h[j] = h[j - 1] + a[j] /\ a[j] \in Int
      BY <1>2, <2>3
    <2> QED
      BY ONLY <2>2, <2>4, <2>5
  <1>4. ASSUME NEW j \in 0..n PROVE h[j] \in Int
    <2>1. j \in Nat /\ j <= n
      OBVIOUS
    <2> QED
      BY <1>3, <2>1
  <1> QED
    BY ONLY <1>2, <1>4 DEF Adds

\* What a concatenation holds.
LEMMA Concatenated ==
    ASSUME NEW T, NEW a \in Seq(T), NEW b \in Seq(T)
    PROVE  /\ a \o b \in Seq(T) /\ Len(a \o b) = Len(a) + Len(b)
           /\ Len(a) \in Nat /\ Len(b) \in Nat /\ Len(a \o b) \in Nat
           /\ \A k \in 1..Len(a) : (a \o b)[k] = a[k]
           /\ \A k \in 1..Len(b) : (a \o b)[Len(a) + k] = b[k]
  OBVIOUS

\* F holds the concatenations of the first of n sequences.
IsPrefixes(F, T, n, s) ==
    /\ F \in [0..n -> Seq(T)]
    /\ F[0] = <<>>
    /\ \A i \in 1..n : F[i] = F[i - 1] \o s[i]

\* There are such prefixes.
LEMMA PrefixesExist ==
    ASSUME NEW T, NEW n \in Nat, NEW s \in [1..n -> Seq(T)]
    PROVE  \E F : IsPrefixes(F, T, n, s)
  <1> DEFINE step == [i \in 1..n |-> [a \in Seq(T) |-> a \o s[i]]]
  <1>1. <<>> \in Seq(T)
    OBVIOUS
  <1>2. /\ step \in [1..n -> [Seq(T) -> Seq(T)]]
        /\ \A i \in 1..n : \A a \in Seq(T) : step[i][a] = a \o s[i]
    <2>1. ASSUME NEW i \in 1..n, NEW a \in Seq(T) PROVE a \o s[i] \in Seq(T)
      BY Concatenated
    <2> QED
      BY <2>1
  <1> HIDE DEF step
  <1>3. PICK F \in [0..n -> Seq(T)] : IsRecursion(F, n, <<>>, step)
    BY <1>1, <1>2, RecursionExists
  <1>4. ASSUME NEW i \in 1..n PROVE F[i] = F[i - 1] \o s[i]
    <2>1. i - 1 \in 0..n
      OBVIOUS
    <2>2. F[i - 1] \in Seq(T) /\ F[i] = step[i][F[i - 1]]
      BY <1>3, <2>1 DEF IsRecursion
    <2> QED
      BY <1>2, <2>2
  <1> QED
    BY <1>3, <1>4 DEF IsPrefixes, IsRecursion

\* FlattenSeq through its prefixes.
LEMMA Flattened ==
    ASSUME NEW T, NEW n \in Nat, NEW s \in [1..n -> Seq(T)]
    PROVE  \E F : IsPrefixes(F, T, n, s) /\ F[n] = FlattenSeq(s)
  <1>1. CASE n = 0
    <2>1. s = <<>> /\ Len(s) = 0
      BY <1>1
    <2>2. FlattenSeq(s) = <<>>
      BY <2>1 DEF FlattenSeq
    <2>3. PICK F : IsPrefixes(F, T, n, s)
      BY PrefixesExist
    <2> QED
      BY <1>1, <2>2, <2>3 DEF IsPrefixes
  <1>2. CASE n # 0
    <2> DEFINE E(f) == [i \in 1..Len(s) |-> IF i = 1 THEN s[i] ELSE f[i - 1] \o s[i]]
               C == CHOOSE f : f = E(f)
    <2>1. Len(s) = n /\ n \in 1..n
      BY <1>2
    <2>2. FlattenSeq(s) = C[Len(s)]
      BY <1>2, <2>1 DEF FlattenSeq
    <2>0. PICK F : IsPrefixes(F, T, n, s)
      BY PrefixesExist
    <2>3. /\ F \in [0..n -> Seq(T)] /\ F[0] = <<>>
          /\ \A i \in 1..n : F[i] = F[i - 1] \o s[i]
      BY <2>0 DEF IsPrefixes
    <2>4. \E f : f = E(f)
      <3> DEFINE G == [i \in 1..n |-> F[i]]
      <3>1. ASSUME NEW i \in 1..n PROVE G[i] = IF i = 1 THEN s[i] ELSE G[i - 1] \o s[i]
        <4>1. CASE i = 1
          <5>1. 1 \in 1..n /\ s[1] \in Seq(T) /\ 1 - 1 = 0
            BY <1>2
          <5>2. F[1] = <<>> \o s[1]
            BY <2>3, <5>1
          <5> QED
            BY <4>1, <5>1, <5>2
        <4>2. CASE i # 1
          <5>1. i - 1 \in 1..n
            BY <4>2
          <5> QED
            BY <2>3, <4>2, <5>1
        <4> QED
          BY <4>1, <4>2
      <3>2. G = E(G)
        BY <2>1, <3>1
      <3> HIDE DEF G, E
      <3> QED
        BY <3>2
    <2>5. C = E(C)
      <3> HIDE DEF E
      <3> QED
        BY <2>4
    <2> HIDE DEF C
    <2>6. \A i \in 1..n : C[i] = IF i = 1 THEN s[i] ELSE C[i - 1] \o s[i]
      BY <2>1, <2>5
    <2> DEFINE Bad == {i \in Nat : i \in 1..n /\ C[i] # F[i]}
    <2>7. ASSUME Bad # {} PROVE FALSE
      <3>1. PICK m \in Bad : \A k \in Bad : m <= k
        BY <2>7, LeastNat
      <3>2. m \in 1..n /\ C[m] # F[m]
        BY <3>1
      <3>3. CASE m = 1
        <4>1. 1 \in 1..n /\ s[1] \in Seq(T) /\ 1 - 1 = 0
          BY <1>2
        <4>2. F[1] = <<>> \o s[1] /\ C[1] = s[1]
          BY <2>3, <2>6, <4>1
        <4> QED
          BY <3>2, <3>3, <4>1, <4>2
      <3>4. CASE m # 1
        <4>1. m - 1 \in 1..n /\ C[m - 1] = F[m - 1]
          BY <3>1, <3>2, <3>4
        <4> QED
          BY <2>3, <2>6, <3>2, <3>4, <4>1
      <3> QED
        BY <3>3, <3>4
    <2>8. C[n] = F[n]
      BY <2>1, <2>7
    <2> QED
      BY <2>0, <2>1, <2>2, <2>8
  <1> QED
    BY <1>1, <1>2

\* Each prefix is the beginning of what follows.
LEMMA PrefixesGrow ==
    ASSUME NEW T, NEW n \in Nat, NEW s \in [1..n -> Seq(T)], NEW F,
           IsPrefixes(F, T, n, s), NEW i \in 0..n
    PROVE  Len(F[i]) <= Len(F[n]) /\ \A k \in 1..Len(F[i]) : F[n][k] = F[i][k]
  <1> DEFINE Good(m) == Len(F[i]) <= Len(F[m]) /\ \A k \in 1..Len(F[i]) : F[m][k] = F[i][k]
             Bad == {m \in Nat : m \in i..n /\ ~Good(m)}
  <1>1. ASSUME NEW m \in i + 1..n, Good(m - 1) PROVE Good(m)
    <2>0. m \in 1..n /\ m \in 0..n /\ m - 1 \in 0..n
      OBVIOUS
    <2>1. F[m] = F[m - 1] \o s[m] /\ F[m - 1] \in Seq(T) /\ s[m] \in Seq(T) /\ F[i] \in Seq(T)
      BY <2>0 DEF IsPrefixes
    <2> DEFINE a == F[m - 1]
               b == s[m]
    <2>2. F[m] = a \o b /\ a \in Seq(T) /\ b \in Seq(T)
      BY <2>1
    <2>3. Len(F[i]) \in Nat /\ Len(F[i]) <= Len(a) /\ \A k \in 1..Len(F[i]) : a[k] = F[i][k]
      BY <1>1, <2>1
    <2> HIDE DEF a, b
    <2>4. /\ Len(a \o b) = Len(a) + Len(b) /\ Len(a) \in Nat /\ Len(b) \in Nat
          /\ \A k \in 1..Len(a) : (a \o b)[k] = a[k]
      BY <2>2, Concatenated
    <2>5. Len(F[m]) = Len(a) + Len(b) /\ \A k \in 1..Len(a) : F[m][k] = a[k]
      BY <2>2, <2>4
    <2>6. Len(F[i]) <= Len(F[m])
      BY <2>3, <2>4, <2>5
    <2>7. ASSUME NEW k \in 1..Len(F[i]) PROVE F[m][k] = F[i][k]
      BY <2>3, <2>4, <2>5
    <2> QED
      BY <2>6, <2>7
  <1>2. Good(i)
    <2>1. Len(F[i]) \in Nat
      BY DEF IsPrefixes
    <2> QED
      BY <2>1
  <1> HIDE DEF Good
  <1>3. ASSUME Bad # {} PROVE FALSE
    <2>1. PICK m \in Bad : \A k \in Bad : m <= k
      BY <1>3, LeastNat
    <2>2. m \in i..n /\ ~Good(m) /\ m # i
      BY <1>2, <2>1
    <2>3. m \in i + 1..n /\ m - 1 \in i..n /\ m - 1 \in Nat
      BY <2>2
    <2>4. Good(m - 1)
      BY <2>1, <2>3
    <2> QED
      BY <1>1, <2>2, <2>3, <2>4
  <1>4. n \in i..n
    OBVIOUS
  <1>5. Good(n)
    BY <1>3, <1>4
  <1> QED
    BY <1>5 DEF Good

\* Where the parts of a concatenation are.
EndAt(B, n, s) == B[0] = 0 /\ \A j \in 1..n : B[j] = B[j - 1] + Len(s[j])

\* Where the parts are in the concatenation c.
AreParts(B, n, s, c) ==
    /\ Len(c) = B[n]
    /\ \A i \in 1..n : \A k \in 1..Len(s[i]) : c[B[i - 1] + k] = s[i][k]

\* Each part of a concatenation is between the ends of the part before and its own.
LEMMA PartsOf ==
    ASSUME NEW T, NEW n \in Nat, NEW s \in [1..n -> Seq(T)], NEW B, EndAt(B, n, s)
    PROVE  AreParts(B, n, s, FlattenSeq(s))
  <1>0. B[0] = 0 /\ \A j \in 1..n : B[j] = B[j - 1] + Len(s[j])
    BY DEF EndAt
  <1>1. PICK F : IsPrefixes(F, T, n, s) /\ F[n] = FlattenSeq(s)
    BY Flattened
  <1>2. /\ F \in [0..n -> Seq(T)] /\ F[0] = <<>>
        /\ \A i \in 1..n : F[i] = F[i - 1] \o s[i]
    BY <1>1 DEF IsPrefixes
  <1>3. ASSUME NEW i \in 1..n
        PROVE  /\ F[i - 1] \in Seq(T) /\ s[i] \in Seq(T) /\ F[i] = F[i - 1] \o s[i]
               /\ Len(F[i]) = Len(F[i - 1]) + Len(s[i])
               /\ Len(F[i - 1]) \in Nat /\ Len(s[i]) \in Nat
               /\ \A k \in 1..Len(s[i]) : F[i][Len(F[i - 1]) + k] = s[i][k]
    <2>1. i - 1 \in 0..n
      OBVIOUS
    <2>2. F[i - 1] \in Seq(T) /\ s[i] \in Seq(T) /\ F[i] = F[i - 1] \o s[i]
      BY <1>2, <2>1
    <2> DEFINE a == F[i - 1]
               b == s[i]
    <2>3. a \in Seq(T) /\ b \in Seq(T) /\ F[i] = a \o b
      BY <2>2
    <2> HIDE DEF a, b
    <2>4. /\ Len(a \o b) = Len(a) + Len(b)
          /\ Len(a) \in Nat /\ Len(b) \in Nat
          /\ \A k \in 1..Len(b) : (a \o b)[Len(a) + k] = b[k]
      BY ONLY <2>3, Concatenated
    <2> QED
      BY ONLY <2>2, <2>3, <2>4 DEF a, b
  <1> DEFINE Bad == {j \in Nat : j <= n /\ Len(F[j]) # B[j]}
  <1>4. ASSUME Bad # {} PROVE FALSE
    <2>1. PICK j \in Bad : \A k \in Bad : j <= k
      BY <1>4, LeastNat
    <2>2. j \in Nat /\ j <= n /\ Len(F[j]) # B[j]
      BY <2>1
    <2>3. j # 0
      BY <1>0, <1>2, <2>2
    <2>4. j - 1 \in Nat /\ j - 1 <= n /\ ~(j <= j - 1) /\ j \in 1..n
      BY <2>2, <2>3
    <2>5. Len(F[j - 1]) = B[j - 1]
      BY <2>1, <2>4
    <2> QED
      BY <1>0, <1>3, <2>2, <2>4, <2>5
  <1>5. ASSUME NEW j \in 0..n PROVE Len(F[j]) = B[j]
    <2>1. j \in Nat /\ j <= n
      OBVIOUS
    <2> QED
      BY <1>4, <2>1
  <1>6. ASSUME NEW i \in 1..n, NEW k \in 1..Len(s[i]) PROVE F[n][B[i - 1] + k] = s[i][k]
    <2>1. i \in 0..n /\ i - 1 \in 0..n
      OBVIOUS
    <2>2. F[i][B[i - 1] + k] = s[i][k]
      BY <1>3, <1>5, <2>1
    <2>3. B[i - 1] + k \in 1..Len(F[i])
      <3> DEFINE p == Len(F[i - 1])
                 q == Len(s[i])
      <3>1. p \in Nat /\ q \in Nat /\ Len(F[i]) = p + q /\ B[i - 1] = p /\ k \in 1..q
        BY <1>3, <1>5, <2>1
      <3> HIDE DEF p, q
      <3> QED
        BY ONLY <3>1
    <2>4. \A l \in 1..Len(F[i]) : F[n][l] = F[i][l]
      BY <1>1, <2>1, PrefixesGrow
    <2> QED
      BY ONLY <2>2, <2>3, <2>4
  <1>7. n \in 0..n
    OBVIOUS
  <1> QED
    BY ONLY <1>1, <1>5, <1>6, <1>7 DEF AreParts

\* A quotient is at least k if k times the divisor is not too much.
LEMMA DivAtLeast ==
    ASSUME NEW n \in Nat \ {0}, NEW x \in Nat, NEW k \in Nat
    PROVE  x \div n \in Nat /\ (x \div n >= k <=> x >= n * k)
  <1> DEFINE d == x \div n
             m == x % n
  <1>1. d \in Int /\ m \in 0..n - 1 /\ x = n * d + m
    OBVIOUS
  <1> HIDE DEF d, m
  <1>2. n * d \in Int /\ n * k \in Int
    BY <1>1
  <1>3. d >= k => n * d >= n * k
    <2> SUFFICES ASSUME d >= k PROVE n * d >= n * k
      OBVIOUS
    <2> DEFINE i == d - k
    <2>1. i \in Nat /\ d = k + i
      BY <1>1
    <2> HIDE DEF i
    <2>2. n * i \in Nat /\ n * d = n * k + n * i
      BY <2>1
    <2> QED
      BY <1>2, <2>2
  <1>4. d < k => n * d <= n * k - n
    <2> SUFFICES ASSUME d < k PROVE n * d <= n * k - n
      OBVIOUS
    <2> DEFINE i == k - 1 - d
    <2>1. i \in Nat /\ k = d + 1 + i
      BY <1>1
    <2> HIDE DEF i
    <2>2. n * i \in Nat /\ n * k = n * d + n + n * i
      BY <1>1, <2>1
    <2> QED
      BY <1>2, <2>2
  <1>5. d >= k <=> x >= n * k
    BY <1>1, <1>2, <1>3, <1>4
  <1>6. d \in Nat
    <2>1. d <= -1 => n * d <= -n
      <3> SUFFICES ASSUME d <= -1 PROVE n * d <= -n
        OBVIOUS
      <3> DEFINE i == -1 - d
      <3>1. i \in Nat /\ d = -1 - i
        BY <1>1
      <3> HIDE DEF i
      <3>2. n * i \in Nat /\ n * d = -n - n * i
        BY <3>1
      <3> QED
        BY <1>2, <3>2
    <2> QED
      BY <1>1, <1>2, <2>1
  <1> QED
    BY <1>5, <1>6 DEF d

-----------------------------------------------------------------------------
\* The bitrate of a REMB.

\* The recursion of PowerOfTwo.
LEMMA PowerStep ==
    /\ PowerOfTwo[0] = 1
    /\ \A n \in 1..63 : PowerOfTwo[n] = 2 * PowerOfTwo[n - 1]
    /\ \A n \in 0..63 : PowerOfTwo[n] \in Nat \ {0}
  <1> DEFINE P == Nat \ {0}
             Doubling(f) == [n \in 0..63 |-> IF n = 0 THEN 1 ELSE 2 * f[n - 1]]
             C == CHOOSE f : f = Doubling(f)
             step == [n \in 1..63 |-> [x \in P |-> 2 * x]]
  <1>1. step \in [1..63 -> [P -> P]] /\ \A n \in 1..63 : \A x \in P : step[n][x] = 2 * x
    OBVIOUS
  <1> HIDE DEF step
  <1>2. PICK g \in [0..63 -> P] : IsRecursion(g, 63, 1, step)
    <2>1. 1 \in P /\ 63 \in Nat
      OBVIOUS
    <2> HIDE DEF P
    <2> QED
      BY ONLY <1>1, <2>1, RecursionExists
  <1>3. \A n \in 0..63 : g[n] = IF n = 0 THEN 1 ELSE 2 * g[n - 1]
    <2>1. ASSUME NEW n \in 1..63 PROVE g[n] = 2 * g[n - 1]
      <3>1. n - 1 \in 0..63
        OBVIOUS
      <3>2. g[n - 1] \in P /\ g[n] = step[n][g[n - 1]]
        BY <1>2, <3>1 DEF IsRecursion
      <3> QED
        BY <1>1, <3>2
    <2> QED
      BY <1>2, <2>1 DEF IsRecursion
  <1>4. g = Doubling(g)
    BY <1>2, <1>3
  <1>5. C = Doubling(C)
    <2> HIDE DEF Doubling
    <2> QED
      BY <1>4
  <1>6. PowerOfTwo = C
    BY DEF PowerOfTwo
  <1> HIDE DEF C
  <1>7. \A n \in 0..63 : C[n] = IF n = 0 THEN 1 ELSE 2 * C[n - 1]
    BY <1>5
  <1> DEFINE Bad == {n \in Nat : n <= 63 /\ C[n] \notin P}
  <1>8. ASSUME Bad # {} PROVE FALSE
    <2>1. PICK n \in Bad : \A k \in Bad : n <= k
      BY <1>8, LeastNat
    <2>2. n \in 0..63 /\ n # 0 /\ n - 1 \in 0..63 /\ C[n - 1] \in P
      BY <1>7, <2>1
    <2>3. C[n] = 2 * C[n - 1]
      BY <1>7, <2>2
    <2> QED
      BY <2>1, <2>2, <2>3
  <1>9. \A n \in 0..63 : C[n] \in P
    BY <1>8
  <1> QED
    BY <1>6, <1>7, <1>9

\* The mantissa fits into eighteen bits.
LEMMA MantissaFits ==
    ASSUME NEW k \in 1..18
    PROVE  PowerOfTwo[k] <= 262144
  <1>1. PowerOfTwo[1] = 2 /\ PowerOfTwo[2] = 4 /\ PowerOfTwo[3] = 8 /\ PowerOfTwo[4] = 16
    BY PowerStep
  <1>2. PowerOfTwo[5] = 32 /\ PowerOfTwo[6] = 64 /\ PowerOfTwo[7] = 128 /\ PowerOfTwo[8] = 256
    BY <1>1, PowerStep
  <1>3. PowerOfTwo[9] = 512 /\ PowerOfTwo[10] = 1024 /\ PowerOfTwo[11] = 2048 /\ PowerOfTwo[12] = 4096
    BY <1>2, PowerStep
  <1>4. PowerOfTwo[13] = 8192 /\ PowerOfTwo[14] = 16384 /\ PowerOfTwo[15] = 32768
    BY <1>3, PowerStep
  <1>5. PowerOfTwo[16] = 65536 /\ PowerOfTwo[17] = 131072 /\ PowerOfTwo[18] = 262144
    BY <1>4, PowerStep
  <1>6. k \in {1, 2, 3, 4, 5, 6, 7, 8, 9, 10, 11, 12, 13, 14, 15, 16, 17, 18}
    OBVIOUS
  <1> QED
    BY ONLY <1>1, <1>2, <1>3, <1>4, <1>5, <1>6

\* The exponent is the smallest for which the mantissa is small enough.
IsExponent(bps, e) ==
    /\ e \in Shifts
    /\ bps \div PowerOfTwo[e] < PowerOfTwo[Mantissa]
    /\ \A d \in 0..e - 1 : bps \div PowerOfTwo[d] >= PowerOfTwo[Mantissa]

LEMMA RembEncoding ==
    ASSUME NEW bps \in Bitrates
    PROVE  \E e : IsExponent(bps, e)
                  /\ EncodeRembBitrate(bps) = [exp |-> e, mantissa |-> bps \div PowerOfTwo[e]]
  <1> DEFINE Fits == {e \in Shifts : bps \div PowerOfTwo[e] < PowerOfTwo[Mantissa]}
             C == CHOOSE e \in Shifts : /\ bps \div PowerOfTwo[e] < PowerOfTwo[Mantissa]
                                        /\ \A d \in 0..e - 1 : bps \div PowerOfTwo[d] >= PowerOfTwo[Mantissa]
  <1>1. bps \in Nat /\ Fits # {} /\ Mantissa \in 1..18
    BY RtxAssumption
  <1>2. Fits \subseteq Nat
    BY DEF Shifts
  <1>3. PICK e \in Fits : \A d \in Fits : e <= d
    BY <1>1, <1>2, LeastNat
  <1>4. ASSUME NEW d \in 0..e - 1 PROVE bps \div PowerOfTwo[d] >= PowerOfTwo[Mantissa]
    <2>1. d \in Shifts /\ d \notin Fits /\ d \in 0..63 /\ Mantissa \in 0..63
      BY <1>1, <1>3 DEF Shifts
    <2>2. PowerOfTwo[d] \in Nat \ {0} /\ PowerOfTwo[Mantissa] \in Nat \ {0}
      BY <2>1, PowerStep
    <2>3. bps \div PowerOfTwo[d] \in Nat
      BY <1>1, <2>2, DivAtLeast
    <2> QED
      BY <2>1, <2>2, <2>3
  <1>5. C \in Shifts /\ bps \div PowerOfTwo[C] < PowerOfTwo[Mantissa]
        /\ \A d \in 0..C - 1 : bps \div PowerOfTwo[d] >= PowerOfTwo[Mantissa]
    BY <1>3, <1>4
  <1>6. EncodeRembBitrate(bps) = [exp |-> C, mantissa |-> bps \div PowerOfTwo[C]]
    BY DEF EncodeRembBitrate
  <1> HIDE DEF C
  <1>7. IsExponent(bps, C)
    BY <1>5 DEF IsExponent
  <1> QED
    BY <1>6, <1>7

\* What the mantissa loses is less than its last place.
LEMMA MantissaIsClose ==
    ASSUME NEW bps \in Nat, NEW e, IsExponent(bps, e), Mantissa \in 1..18
    PROVE  LET m == bps \div PowerOfTwo[e] IN
           /\ m \in Nat /\ m < 262144
           /\ m * PowerOfTwo[e] <= bps
           /\ bps - m * PowerOfTwo[e] <= bps \div PowerOfTwo[Mantissa - 1]
  <1> DEFINE p == PowerOfTwo[e]
             l == PowerOfTwo[Mantissa - 1]
             k == PowerOfTwo[Mantissa]
             m == bps \div p
             r == bps % p
             pm == p * m
  <1>1. e \in 0..63 /\ Mantissa \in 1..63 /\ Mantissa - 1 \in 0..63
    BY DEF IsExponent, Shifts
  <1>2. p \in Nat \ {0} /\ l \in Nat \ {0} /\ k \in Nat \ {0} /\ k = 2 * l
    <2>1. p \in Nat \ {0}
      BY ONLY <1>1, PowerStep
    <2>2. l \in Nat \ {0}
      BY ONLY <1>1, PowerStep
    <2>3. k \in Nat \ {0}
      BY ONLY <1>1, PowerStep
    <2>4. k = 2 * l
      BY ONLY <1>1, PowerStep
    <2> QED
      BY ONLY <2>1, <2>2, <2>3, <2>4
  <1>3. k <= 262144
    BY MantissaFits
  <1>4. m < k
    BY DEF IsExponent
  <1>5. m \in Nat
    BY <1>2, DivAtLeast
  <1>6. r \in 0..p - 1 /\ bps = pm + r /\ pm = m * p /\ pm \in Int
    <2> HIDE DEF p
    <2> QED
      BY <1>2, <1>5
  <1>7. bps \div l \in Nat
    BY <1>2, DivAtLeast
  <1>8. CASE e = 0
    <2>1. p = 1
      BY <1>8, PowerStep
    <2>2. r = 0
      BY <1>6, <2>1
    <2> HIDE DEF p, l, k, m, r, pm
    <2>3. m < 262144 /\ m * p <= bps /\ bps - m * p <= bps \div l
      BY <1>2, <1>3, <1>4, <1>5, <1>6, <1>7, <2>2
    <2> QED
      BY <1>5, <2>3 DEF p, l, m
  <1>9. CASE e # 0
    <2> DEFINE q == PowerOfTwo[e - 1]
    <2>1. e \in 1..63 /\ e - 1 \in 0..63 /\ e - 1 \in 0..e - 1
      BY <1>1, <1>9
    <2>2. q \in Nat \ {0} /\ p = 2 * q
      BY <2>1, PowerStep
    <2>3. bps \div q >= k
      BY <2>1 DEF IsExponent
    <2> HIDE DEF q
    <2>4. bps >= q * k
      BY <1>2, <2>2, <2>3, DivAtLeast
    <2> HIDE DEF p, l, k, m, r, pm
    <2>5. q * k = l * p
      <3>1. q * k = q * (2 * l)
        BY <1>2
      <3>2. l * p = l * (2 * q)
        BY <2>2
      <3>3. q * (2 * l) = l * (2 * q)
        BY ONLY <1>2, <2>2, l \in Nat, q \in Nat
      <3> QED
        BY <3>1, <3>2, <3>3
    <2>6. bps >= l * p
      BY <2>4, <2>5
    <2>7. bps \div l >= p
      BY <1>2, <2>6, DivAtLeast
    <2>8. m < 262144 /\ m * p <= bps /\ bps - m * p <= bps \div l
      BY <1>2, <1>3, <1>4, <1>5, <1>6, <1>7, <2>7
    <2> QED
      BY <1>5, <2>8 DEF p, l, m
  <1> QED
    BY <1>8, <1>9

\* Three bytes hold eighteen bits and six more.
LEMMA BytesOfRemb ==
    ASSUME NEW m \in Nat, m < 262144, NEW e \in Nat
    PROVE  LET b == 4 * e + ((m \div 65536) % 4) IN
           b % 4 = (m \div 65536) % 4 /\ b \div 4 = e
           /\ (b % 4) * 65536 + ((m \div 256) % 256) * 256 + (m % 256) = m
  <1> DEFINE h == m \div 65536
             d == h % 4
             b == 4 * e + d
  <1>1. h \in 0..3
    OBVIOUS
  <1>2. d = h
    BY <1>1
  <1>3. b % 4 = d /\ b \div 4 = e
    <2> HIDE DEF d
    <2> QED
      BY <1>1, <1>2
  <1>4. h * 65536 + ((m \div 256) % 256) * 256 + (m % 256) = m
    OBVIOUS
  <1> QED
    BY <1>2, <1>3, <1>4

\* The publisher's decoding of build_remb's bytes.
LEMMA RembOf ==
    ASSUME NEW bps \in Bitrates
    PROVE  LET b == BuildRemb(bps)
               decoded == ((b[1] % 4) * 65536 + b[2] * 256 + b[3]) * PowerOfTwo[b[1] \div 4]
           IN decoded <= bps /\ bps - decoded <= bps \div PowerOfTwo[Mantissa - 1]
  <1>1. PICK e : IsExponent(bps, e)
                 /\ EncodeRembBitrate(bps) = [exp |-> e, mantissa |-> bps \div PowerOfTwo[e]]
    BY RembEncoding
  <1>2. bps \in Nat /\ Mantissa \in 1..18 /\ e \in Nat
    BY <1>1, RtxAssumption DEF IsExponent, Shifts
  <1> DEFINE m == bps \div PowerOfTwo[e]
  <1>3. /\ m \in Nat /\ m < 262144 /\ m * PowerOfTwo[e] <= bps
        /\ bps - m * PowerOfTwo[e] <= bps \div PowerOfTwo[Mantissa - 1]
    BY <1>1, <1>2, MantissaIsClose
  <1>4. BuildRemb(bps) = <<4 * e + ((m \div 65536) % 4), (m \div 256) % 256, m % 256>>
    BY <1>1 DEF BuildRemb
  <1> HIDE DEF m
  <1> DEFINE a == 4 * e + ((m \div 65536) % 4)
             b == (m \div 256) % 256
             c == m % 256
  <1>5. a \div 4 = e /\ (a % 4) * 65536 + b * 256 + c = m
    <2>1. a % 4 = (m \div 65536) % 4 /\ a \div 4 = e
          /\ (a % 4) * 65536 + b * 256 + c = m
      BY <1>2, <1>3, BytesOfRemb
    <2> QED
      BY <2>1
  <1>6. BuildRemb(bps)[1] = a /\ BuildRemb(bps)[2] = b /\ BuildRemb(bps)[3] = c
    BY <1>4
  <1> HIDE DEF a, b, c
  <1> QED
    BY <1>3, <1>5, <1>6

-----------------------------------------------------------------------------
\* Selections.

\* The first n elements of u are those of s.
StartsLike(u, s, n) == \A i \in 1..n : u[i] = s[i]

\* Concatenations have one sequence of prefixes.
LEMMA PrefixesAreOne ==
    ASSUME NEW T, NEW n \in Nat, NEW s, NEW F, IsPrefixes(F, T, n, s),
           NEW m \in Nat, NEW u, NEW G, IsPrefixes(G, T, m, u),
           n <= m, StartsLike(u, s, n)
    PROVE  F[n] = G[n]
  <1> DEFINE Bad == {i \in Nat : i <= n /\ F[i] # G[i]}
  <1>1. ASSUME Bad # {} PROVE FALSE
    <2>1. PICK i \in Bad : \A k \in Bad : i <= k
      BY <1>1, LeastNat
    <2>2. i \in Nat /\ i <= n /\ F[i] # G[i] /\ i # 0
      BY <2>1 DEF IsPrefixes
    <2>3. i - 1 \in Nat /\ i - 1 <= n /\ ~(i <= i - 1) /\ i \in 1..n /\ i \in 1..m
      BY <2>2
    <2>4. F[i - 1] = G[i - 1]
      BY <2>1, <2>3
    <2>5. F[i] = F[i - 1] \o s[i] /\ G[i] = G[i - 1] \o u[i] /\ u[i] = s[i]
      BY <2>3 DEF IsPrefixes, StartsLike
    <2> QED
      BY <2>2, <2>4, <2>5
  <1> QED
    BY <1>1

\* What is selected: nothing of nothing, and one more element if it is in the set.
LEMMA OnlyGrows ==
    ASSUME NEW T, NEW S, NEW s \in Seq(T)
    PROVE  /\ Only(s, S) \in Seq(T)
           /\ Only(<<>>, S) = <<>>
           /\ \A x \in T : Only(Append(s, x), S) = IF x \in S THEN Append(Only(s, S), x) ELSE Only(s, S)
  <1> DEFINE Part(x) == IF x \in S THEN <<x>> ELSE <<>>
             Parts(r) == [i \in DOMAIN r |-> IF r[i] \in S THEN <<r[i]>> ELSE <<>>]
  <1>1. ASSUME NEW r \in Seq(T)
        PROVE  /\ Len(r) \in Nat /\ Parts(r) \in [1..Len(r) -> Seq(T)]
               /\ \A i \in 1..Len(r) : Parts(r)[i] = Part(r[i])
               /\ Only(r, S) = FlattenSeq(Parts(r))
    <2>1. DOMAIN r = 1..Len(r) /\ Len(r) \in Nat /\ \A i \in 1..Len(r) : r[i] \in T
      OBVIOUS
    <2>2. \A x \in T : Part(x) \in Seq(T)
      OBVIOUS
    <2> QED
      BY <2>1, <2>2 DEF Only
  <1> HIDE DEF Parts
  <1>2. ASSUME NEW r \in Seq(T)
        PROVE  \E F : IsPrefixes(F, T, Len(r), Parts(r)) /\ F[Len(r)] = Only(r, S)
    <2> DEFINE n == Len(r)
               p == Parts(r)
    <2>1. n \in Nat /\ p \in [1..n -> Seq(T)] /\ Only(r, S) = FlattenSeq(p)
      BY <1>1
    <2> HIDE DEF n, p
    <2>2. \E F : IsPrefixes(F, T, n, p) /\ F[n] = FlattenSeq(p)
      BY ONLY <2>1, Flattened
    <2> QED
      BY ONLY <2>1, <2>2 DEF n, p
  <1>3. ASSUME NEW r \in Seq(T) PROVE Only(r, S) \in Seq(T)
    <2>1. PICK F : IsPrefixes(F, T, Len(r), Parts(r)) /\ F[Len(r)] = Only(r, S)
      BY <1>2
    <2>2. Len(r) \in 0..Len(r)
      OBVIOUS
    <2> QED
      BY <2>1, <2>2 DEF IsPrefixes
  <1>4. Only(<<>>, S) = <<>>
    <2>1. <<>> \in Seq(T) /\ Len(<<>>) = 0
      OBVIOUS
    <2>2. PICK F : IsPrefixes(F, T, Len(<<>>), Parts(<<>>)) /\ F[Len(<<>>)] = Only(<<>>, S)
      BY <1>2, <2>1
    <2> QED
      BY <2>1, <2>2 DEF IsPrefixes
  <1>5. ASSUME NEW x \in T
        PROVE  Only(Append(s, x), S) = IF x \in S THEN Append(Only(s, S), x) ELSE Only(s, S)
    <2> DEFINE r == Append(s, x)
               n == Len(s)
    <2>1. /\ r \in Seq(T) /\ n \in Nat /\ Len(r) = n + 1 /\ r[n + 1] = x
          /\ \A i \in 1..n : r[i] = s[i]
      OBVIOUS
    <2> HIDE DEF r, n, Part
    <2>2. PICK F : IsPrefixes(F, T, n, Parts(s)) /\ F[n] = Only(s, S)
      BY <1>2 DEF n
    <2>3. PICK G : IsPrefixes(G, T, n + 1, Parts(r)) /\ G[n + 1] = Only(r, S)
      BY <1>2, <2>1
    <2>4. /\ Parts(s) \in [1..n -> Seq(T)] /\ \A i \in 1..n : Parts(s)[i] = Part(s[i])
          /\ Parts(r) \in [1..n + 1 -> Seq(T)] /\ \A i \in 1..n + 1 : Parts(r)[i] = Part(r[i])
      <3>1. /\ Parts(s) \in [1..n -> Seq(T)] /\ \A i \in 1..n : Parts(s)[i] = Part(s[i])
        BY <1>1 DEF n
      <3>2. /\ Parts(r) \in [1..Len(r) -> Seq(T)] /\ \A i \in 1..Len(r) : Parts(r)[i] = Part(r[i])
        BY <1>1, <2>1
      <3> QED
        BY <2>1, <3>1, <3>2
    <2>5. \A i \in 1..n : Parts(r)[i] = Parts(s)[i]
      BY <2>1, <2>4
    <2>6. n + 1 \in Nat /\ n <= n + 1 /\ n \in 0..n /\ n + 1 \in 1..n + 1
      BY <2>1
    <2>7. F[n] = G[n]
      <3> DEFINE u == Parts(r)
                 v == Parts(s)
                 m == n + 1
      <3>1. /\ u \in [1..m -> Seq(T)] /\ v \in [1..n -> Seq(T)] /\ m \in Nat /\ n \in Nat /\ n <= m
            /\ IsPrefixes(F, T, n, v) /\ IsPrefixes(G, T, m, u) /\ StartsLike(u, v, n)
        BY ONLY <2>1, <2>2, <2>3, <2>4, <2>5, <2>6 DEF StartsLike
      <3> HIDE DEF u, v, m
      <3> QED
        BY ONLY <3>1, PrefixesAreOne
    <2>8. G[n + 1] = G[(n + 1) - 1] \o Parts(r)[n + 1]
      BY <2>3, <2>6 DEF IsPrefixes
    <2>9. Only(r, S) = Only(s, S) \o Part(x)
      <3>1. Parts(r)[n + 1] = Part(x) /\ (n + 1) - 1 = n
        BY <2>1, <2>4, <2>6
      <3> QED
        BY ONLY <2>2, <2>3, <2>7, <2>8, <3>1
    <2>10. Only(s, S) \in Seq(T)
      BY <1>3
    <2> QED
      BY <2>9, <2>10 DEF r, Part
  <1> QED
    BY <1>3, <1>4, <1>5

\* What holds of no element and of one more holds of every number of elements.
LEMMA Counting ==
    ASSUME NEW n \in Nat, NEW S, 0 \in S, \A k \in 0..n - 1 : k \in S => k + 1 \in S
    PROVE  n \in S
  <1> DEFINE Bad == {k \in Nat : k <= n /\ k \notin S}
  <1>1. ASSUME Bad # {} PROVE FALSE
    <2>1. PICK k \in Bad : \A l \in Bad : k <= l
      BY <1>1, LeastNat
    <2>2. k \in Nat /\ k <= n /\ k \notin S /\ k # 0
      BY <2>1
    <2>3. k - 1 \in Nat /\ k - 1 <= n /\ k - 1 \in 0..n - 1 /\ ~(k <= k - 1) /\ (k - 1) + 1 = k
      BY <2>2
    <2>4. k - 1 \in S
      BY <2>1, <2>3
    <2> QED
      BY <2>2, <2>3, <2>4
  <1> QED
    BY <1>1

\* The first k elements, one by one.
LEMMA Beginnings ==
    ASSUME NEW T, NEW s \in Seq(T)
    PROVE  /\ SubSeq(s, 1, 0) = <<>> /\ SubSeq(s, 1, Len(s)) = s
           /\ \A k \in 0..Len(s) : SubSeq(s, 1, k) \in Seq(T) /\ Len(SubSeq(s, 1, k)) = k
           /\ \A k \in 0..Len(s) - 1 : /\ k + 1 \in 1..Len(s) /\ s[k + 1] \in T
                                       /\ SubSeq(s, 1, k + 1) = Append(SubSeq(s, 1, k), s[k + 1])
  OBVIOUS

\* Selecting twice is selecting from both sets.
LEMMA OnlyTwice ==
    ASSUME NEW T, NEW s \in Seq(T), NEW S, NEW U
    PROVE  Only(Only(s, S), U) = Only(s, S \cap U)
  <1> DEFINE B(k) == SubSeq(s, 1, k)
             Good == {k \in Nat : Only(Only(B(k), S), U) = Only(B(k), S \cap U)}
             n == Len(s)
  <1>1. /\ n \in Nat /\ B(0) = <<>> /\ B(n) = s
        /\ \A k \in 0..n : B(k) \in Seq(T)
        /\ \A k \in 0..n - 1 : s[k + 1] \in T /\ B(k + 1) = Append(B(k), s[k + 1])
    BY Beginnings
  <1> HIDE DEF B, n
  <1>2. 0 \in Good
    <2>1. <<>> \in Seq(T)
      OBVIOUS
    <2>2. \A R : Only(<<>>, R) = <<>>
      BY <2>1, OnlyGrows
    <2> QED
      BY <1>1, <2>2
  <1>3. ASSUME NEW k \in 0..n - 1, k \in Good PROVE k + 1 \in Good
    <2> DEFINE b == B(k)
               x == s[k + 1]
    <2>1. b \in Seq(T) /\ x \in T /\ B(k + 1) = Append(b, x) /\ k + 1 \in Nat
      <3>1. k \in 0..n
        BY <1>1
      <3> QED
        BY <1>1, <3>1
    <2>2. Only(Only(b, S), U) = Only(b, S \cap U)
      BY <1>3
    <2> HIDE DEF b, x
    <2>3. Only(b, S) \in Seq(T) /\ Only(Append(b, x), S) = IF x \in S THEN Append(Only(b, S), x) ELSE Only(b, S)
      BY ONLY <2>1, OnlyGrows
    <2>4. Only(Append(Only(b, S), x), U) = IF x \in U THEN Append(Only(Only(b, S), U), x) ELSE Only(Only(b, S), U)
      BY ONLY <2>1, <2>3, OnlyGrows
    <2>5. Only(Append(b, x), S \cap U) = IF x \in S \cap U THEN Append(Only(b, S \cap U), x) ELSE Only(b, S \cap U)
      BY ONLY <2>1, OnlyGrows
    <2>6. Only(Only(Append(b, x), S), U) = Only(Append(b, x), S \cap U)
      <3>1. CASE x \in S
        <4>1. Only(Append(b, x), S) = Append(Only(b, S), x) /\ (x \in S \cap U <=> x \in U)
          BY ONLY <2>3, <3>1
        <4> QED
          BY ONLY <2>2, <2>4, <2>5, <4>1
      <3>2. CASE x \notin S
        <4>1. Only(Append(b, x), S) = Only(b, S) /\ x \notin S \cap U
          BY ONLY <2>3, <3>2
        <4> QED
          BY ONLY <2>2, <2>5, <4>1
      <3> QED
        BY ONLY <3>1, <3>2
    <2> QED
      BY <2>1, <2>6
  <1>4. n \in Good
    <2> HIDE DEF Good
    <2> QED
      BY <1>1, <1>2, <1>3, Counting
  <1> QED
    BY <1>1, <1>4

\* The operations of a sequence of records.
Ops(s) == [i \in DOMAIN s |-> s[i].op]

\* What is selected at the same places of two sequences agrees as these do.
LEMMA OnlyAlike ==
    ASSUME NEW T, NEW s \in Seq(T), NEW S, NEW V, NEW t \in Seq(V), NEW U, Len(s) = Len(t),
           \A i \in 1..Len(s) : s[i].op = t[i].op /\ (s[i] \in S <=> t[i] \in U)
    PROVE  Ops(Only(s, S)) = Ops(Only(t, U))
  <1> DEFINE B(k) == SubSeq(s, 1, k)
             C(k) == SubSeq(t, 1, k)
             Same(k) == Len(Only(B(k), S)) = Len(Only(C(k), U)) /\ Ops(Only(B(k), S)) = Ops(Only(C(k), U))
             Good == {k \in Nat : Same(k)}
             n == Len(s)
  <1>1. /\ n \in Nat /\ B(0) = <<>> /\ B(n) = s
        /\ \A k \in 0..n : B(k) \in Seq(T)
        /\ \A k \in 0..n - 1 : k + 1 \in 1..n /\ s[k + 1] \in T /\ B(k + 1) = Append(B(k), s[k + 1])
    BY Beginnings
  <1>2. /\ C(0) = <<>> /\ C(n) = t
        /\ \A k \in 0..n : C(k) \in Seq(V)
        /\ \A k \in 0..n - 1 : t[k + 1] \in V /\ C(k + 1) = Append(C(k), t[k + 1])
    BY Beginnings
  <1>3. \A i \in 1..n : s[i].op = t[i].op /\ (s[i] \in S <=> t[i] \in U)
    OBVIOUS
  <1> HIDE DEF B, C, n
  <1>4. 0 \in Good
    <2>1. <<>> \in Seq(T) /\ <<>> \in Seq(V)
      OBVIOUS
    <2>2. \A R : Only(<<>>, R) = <<>>
      BY <2>1, OnlyGrows
    <2> QED
      BY <1>1, <1>2, <2>2
  <1>5. ASSUME NEW k \in 0..n - 1, k \in Good PROVE k + 1 \in Good
    <2> DEFINE b == B(k)
               x == s[k + 1]
               c == C(k)
               y == t[k + 1]
    <2>1. b \in Seq(T) /\ x \in T /\ B(k + 1) = Append(b, x) /\ k + 1 \in Nat
          /\ c \in Seq(V) /\ y \in V /\ C(k + 1) = Append(c, y)
          /\ x.op = y.op /\ (x \in S <=> y \in U)
      <3>1. k \in 0..n /\ k + 1 \in 1..n /\ k + 1 \in Nat
        BY ONLY <1>1, <1>5
      <3>2. b \in Seq(T) /\ x \in T /\ B(k + 1) = Append(b, x)
        BY ONLY <1>1, <1>5, <3>1
      <3>3. c \in Seq(V) /\ y \in V /\ C(k + 1) = Append(c, y)
        BY ONLY <1>2, <1>5, <3>1
      <3>4. x.op = y.op /\ (x \in S <=> y \in U)
        BY ONLY <1>3, <3>1
      <3> QED
        BY ONLY <3>1, <3>2, <3>3, <3>4
    <2>2. Len(Only(b, S)) = Len(Only(c, U)) /\ Ops(Only(b, S)) = Ops(Only(c, U))
      BY <1>5
    <2> HIDE DEF b, c, x, y
    <2>3. Only(b, S) \in Seq(T) /\ Only(Append(b, x), S) = IF x \in S THEN Append(Only(b, S), x) ELSE Only(b, S)
      BY ONLY <2>1, OnlyGrows
    <2>4. Only(c, U) \in Seq(V) /\ Only(Append(c, y), U) = IF y \in U THEN Append(Only(c, U), y) ELSE Only(c, U)
      BY ONLY <2>1, OnlyGrows
    <2> DEFINE p == Only(b, S)
               q == Only(c, U)
    <2>5. p \in Seq(T) /\ q \in Seq(V) /\ Len(p) = Len(q) /\ Ops(p) = Ops(q)
      BY <2>2, <2>3, <2>4
    <2> HIDE DEF p, q
    <2>6. Len(Append(p, x)) = Len(Append(q, y)) /\ Ops(Append(p, x)) = Ops(Append(q, y))
      <3>1. /\ DOMAIN p = 1..Len(p) /\ DOMAIN q = 1..Len(p) /\ Len(p) \in Nat
            /\ DOMAIN Append(p, x) = 1..Len(p) + 1 /\ DOMAIN Append(q, y) = 1..Len(p) + 1
            /\ \A i \in 1..Len(p) : Append(p, x)[i] = p[i] /\ Append(q, y)[i] = q[i]
            /\ Append(p, x)[Len(p) + 1] = x /\ Append(q, y)[Len(p) + 1] = y
            /\ Len(Append(p, x)) = Len(p) + 1 /\ Len(Append(q, y)) = Len(p) + 1
        BY ONLY <2>1, <2>5
      <3>2. \A i \in 1..Len(p) : p[i].op = q[i].op
        <4> TAKE i \in 1..Len(p)
        <4>1. Ops(p)[i] = p[i].op /\ Ops(q)[i] = q[i].op
          BY ONLY <3>1 DEF Ops
        <4> QED
          BY ONLY <2>5, <4>1
      <3>3. \A i \in 1..Len(p) + 1 : Append(p, x)[i].op = Append(q, y)[i].op
        <4> TAKE i \in 1..Len(p) + 1
        <4>1. i \in 1..Len(p) \/ i = Len(p) + 1
          BY ONLY <3>1
        <4> QED
          BY ONLY <2>1, <3>1, <3>2, <4>1
      <3> QED
        BY ONLY <3>1, <3>3 DEF Ops
    <2>7. Len(Only(Append(b, x), S)) = Len(Only(Append(c, y), U))
          /\ Ops(Only(Append(b, x), S)) = Ops(Only(Append(c, y), U))
      BY ONLY <2>1, <2>3, <2>4, <2>5, <2>6 DEF p, q
    <2> QED
      BY <2>1, <2>7
  <1>6. n \in Good
    <2> HIDE DEF Good
    <2> QED
      BY <1>1, <1>4, <1>5, Counting
  <1> QED
    BY <1>1, <1>2, <1>6

-----------------------------------------------------------------------------
\* Compound RTCP.

\* Where parts that are not empty end in their concatenation.
LEMMA EndsExist ==
    ASSUME NEW T, NEW n \in Nat, NEW s \in [1..n -> Seq(T)], \A i \in 1..n : Len(s[i]) >= 1
    PROVE  \E B : /\ EndAt(B, n, s)
                  /\ \A i \in 0..n : B[i] \in Nat /\ i <= B[i] /\ B[i] <= B[n]
  <1> DEFINE a == [i \in 1..n |-> Len(s[i])]
  <1>1. a \in [1..n -> Int] /\ \A i \in 1..n : a[i] = Len(s[i]) /\ a[i] \in Nat /\ a[i] >= 1
    OBVIOUS
  <1> HIDE DEF a
  <1>2. PICK B : IsSum(B, n, 0, a)
    BY <1>1, SumExists
  <1>3. Adds(B, n, 0, a)
    BY <1>1, <1>2, SumIs
  <1>4. B[0] = 0 /\ \A i \in 1..n : B[i] = B[i - 1] + a[i] /\ B[i] \in Int
    <2>1. \A i \in 1..n : i \in 0..n
      OBVIOUS
    <2> QED
      BY <1>3, <2>1 DEF Adds
  <1>5. EndAt(B, n, s)
    BY <1>1, <1>4 DEF EndAt
  <1> DEFINE Low == {i \in Nat : i <= n => B[i] \in Nat /\ i <= B[i]}
  <1>6. ASSUME NEW i \in 0..n PROVE B[i] \in Nat /\ i <= B[i]
    <2>1. 0 \in Low
      BY <1>4
    <2>2. ASSUME NEW k \in 0..i - 1, k \in Low PROVE k + 1 \in Low
      <3>1. k \in Nat /\ k <= n /\ k + 1 \in 1..n /\ (k + 1) - 1 = k
        OBVIOUS
      <3>2. B[k] \in Nat /\ k <= B[k]
        BY <2>2, <3>1
      <3>3. B[k + 1] = B[k] + a[k + 1] /\ a[k + 1] \in Nat /\ a[k + 1] >= 1
        BY <1>1, <1>4, <3>1
      <3> QED
        BY <3>1, <3>2, <3>3
    <2> HIDE DEF Low
    <2>3. i \in Low
      BY <2>1, <2>2, Counting
    <2> QED
      BY <2>3 DEF Low
  <1>7. ASSUME NEW i \in 0..n PROVE B[i] <= B[n]
    <2> DEFINE High == {k \in Nat : i + k <= n => B[i] <= B[i + k]}
               m == n - i
    <2>1. 0 \in High /\ m \in Nat
      BY <1>6
    <2>2. ASSUME NEW k \in 0..m - 1, k \in High PROVE k + 1 \in High
      <3> DEFINE j == i + k
      <3>1. j \in 0..n /\ j + 1 \in 1..n /\ (j + 1) - 1 = j /\ i + (k + 1) = j + 1 /\ k + 1 \in Nat
        OBVIOUS
      <3>2. B[i] <= B[j]
        BY <2>2, <3>1
      <3> HIDE DEF j
      <3>3. B[j + 1] = B[j] + a[j + 1] /\ a[j + 1] \in Nat /\ B[j] \in Nat /\ B[i] \in Nat
        BY <1>1, <1>4, <1>6, <3>1
      <3>4. B[i] <= B[j + 1]
        BY <3>2, <3>3
      <3> QED
        BY <3>1, <3>4
    <2> HIDE DEF High
    <2>3. m \in High
      BY <2>1, <2>2, Counting
    <2> QED
      BY <2>3 DEF High
  <1> QED
    BY <1>5, <1>6, <1>7

\* A compound of n blocks, block i ending at B[i], headers telling the lengths.
IsCompound(words, n, B) ==
    /\ n \in Nat
    /\ Len(words) = B[n] /\ B[0] = 0
    /\ \A i \in 0..n : B[i] \in Nat /\ i <= B[i] /\ B[i] <= B[n]
    /\ \A i \in 1..n : B[i - 1] + 1 <= B[i] /\ words[B[i - 1] + 1].len + 1 = B[i] - B[i - 1]

\* What split_compound_rtcp makes of block i.
BlockAt(words, B, i) ==
    [op |-> words[B[i - 1] + 1].op,
     media_ssrc |-> IF B[i - 1] + 3 <= Len(words) THEN words[B[i - 1] + 3] ELSE Ssrc(None),
     words |-> SubSeq(words, B[i - 1] + 1, B[i])]

\* The loop after k rounds.
AfterRound(words, n, B, k) ==
    LET m == IF k <= n THEN k ELSE n IN
    [offset |-> B[m], blocks |-> [i \in 1..m |-> BlockAt(words, B, i)]]

\* One more element of a sequence that is given by a rule.
LEMMA OneMore ==
    ASSUME NEW m \in Nat, NEW f
    PROVE  Append([i \in 1..m |-> f[i]], f[m + 1]) = [i \in 1..m + 1 |-> f[i]]
  <1> DEFINE T == {f[i] : i \in 1..m + 1}
             s == [i \in 1..m |-> f[i]]
             t == [i \in 1..m + 1 |-> f[i]]
  <1>1. s \in Seq(T) /\ Len(s) = m /\ t \in Seq(T) /\ Len(t) = m + 1 /\ f[m + 1] \in T
    <2>1. \A i \in 1..m : i \in 1..m + 1
      OBVIOUS
    <2>2. s \in [1..m -> T] /\ t \in [1..m + 1 -> T] /\ m + 1 \in 1..m + 1 /\ m + 1 \in Nat
      BY <2>1
    <2> HIDE DEF s, t, T
    <2>3. s \in Seq(T) /\ Len(s) = m /\ t \in Seq(T) /\ Len(t) = m + 1
      BY <2>2
    <2> QED
      BY <2>2, <2>3 DEF T
  <1>2. \A i \in 1..m : s[i] = f[i] /\ t[i] = f[i]
    OBVIOUS
  <1>3. t[m + 1] = f[m + 1]
    OBVIOUS
  <1> HIDE DEF s, t, T
  <1>4. Append(s, f[m + 1]) = t
    BY <1>1, <1>2, <1>3
  <1> QED
    BY <1>4 DEF s, t

\* Every round takes one block off, until there is none.
LEMMA RoundIs ==
    ASSUME NEW words, NEW n, NEW B, IsCompound(words, n, B), NEW k \in Nat
    PROVE  NextBlock(words, AfterRound(words, n, B, k)) = AfterRound(words, n, B, k + 1)
  <1>1. /\ n \in Nat /\ Len(words) = B[n]
        /\ \A i \in 0..n : B[i] \in Nat /\ B[i] <= B[n]
        /\ \A i \in 1..n : B[i - 1] + 1 <= B[i] /\ words[B[i - 1] + 1].len + 1 = B[i] - B[i - 1]
    BY DEF IsCompound
  <1>2. CASE k < n
    <2> DEFINE o == B[k]
               len == words[o + 1].len + 1
               bs == [i \in 1..k |-> BlockAt(words, B, i)]
               x == BlockAt(words, B, k + 1)
    <2>1. k \in 0..n /\ k + 1 \in 1..n /\ (k + 1) - 1 = k /\ k <= n /\ k + 1 <= n /\ k + 1 \in 0..n
      BY <1>1, <1>2
    <2>2. /\ o \in Nat /\ o + 1 <= B[k + 1] /\ len = B[k + 1] - o
          /\ B[k + 1] \in Nat /\ B[k + 1] <= Len(words) /\ Len(words) \in Nat
      <3>1. o \in Nat /\ B[k + 1] \in Nat /\ B[k + 1] <= B[n] /\ B[n] \in Nat
        <4>1. n \in 0..n
          BY <1>1
        <4> QED
          BY <1>1, <2>1, <4>1
      <3>2. B[(k + 1) - 1] + 1 <= B[k + 1] /\ words[B[(k + 1) - 1] + 1].len + 1 = B[k + 1] - B[(k + 1) - 1]
        BY <1>1, <2>1
      <3> QED
        BY ONLY <1>1, <2>1, <3>1, <3>2
    <2>3. AfterRound(words, n, B, k) = [offset |-> o, blocks |-> bs]
      BY <2>1 DEF AfterRound
    <2>4. o + len = B[k + 1] /\ ~(o + 1 > Len(words)) /\ ~(o + len > Len(words))
      <3> HIDE DEF len, o
      <3> QED
        BY <2>2
    <2>5. x = [op |-> words[o + 1].op,
               media_ssrc |-> IF o + 3 <= Len(words) THEN words[o + 3] ELSE Ssrc(None),
               words |-> SubSeq(words, o + 1, o + len)]
      BY <2>1, <2>4 DEF BlockAt
    <2>6. NextBlock(words, [offset |-> o, blocks |-> bs])
            = [offset |-> o + len, blocks |-> Append(bs, x)]
      <3> HIDE DEF bs
      <3> QED
        BY <2>4, <2>5 DEF NextBlock
    <2>7. Append(bs, x) = [i \in 1..k + 1 |-> BlockAt(words, B, i)]
      <3> DEFINE f == [i \in 1..k + 1 |-> BlockAt(words, B, i)]
      <3>1. bs = [i \in 1..k |-> f[i]] /\ x = f[k + 1] /\ f = [i \in 1..k + 1 |-> f[i]]
        OBVIOUS
      <3> HIDE DEF f, bs, x
      <3>2. Append(bs, x) = f
        BY <3>1, OneMore
      <3> QED
        BY <3>2 DEF f
    <2>8. AfterRound(words, n, B, k + 1) = [offset |-> B[k + 1], blocks |-> [i \in 1..k + 1 |-> BlockAt(words, B, i)]]
      BY <2>1 DEF AfterRound
    <2> QED
      BY <2>3, <2>4, <2>6, <2>7, <2>8
  <1>3. CASE ~(k < n)
    <2> DEFINE bs == [i \in 1..n |-> BlockAt(words, B, i)]
    <2>1. AfterRound(words, n, B, k) = [offset |-> B[n], blocks |-> bs]
      <3>1. k <= n => k = n
        BY <1>1, <1>3
      <3> QED
        BY <3>1 DEF AfterRound
    <2>2. AfterRound(words, n, B, k + 1) = [offset |-> B[n], blocks |-> bs]
      <3>1. ~(k + 1 <= n)
        BY <1>1, <1>3
      <3> QED
        BY <3>1 DEF AfterRound
    <2>3. B[n] + 1 > Len(words)
      <3>1. n \in 0..n
        BY <1>1
      <3> QED
        BY <1>1, <3>1
    <2> HIDE DEF bs
    <2>4. NextBlock(words, [offset |-> B[n], blocks |-> bs]) = [offset |-> B[n], blocks |-> bs]
      BY <2>3 DEF NextBlock
    <2> QED
      BY <2>1, <2>2, <2>4
  <1> QED
    BY <1>2, <1>3

\* A compound is taken apart into its blocks.
LEMMA CompoundIsSplit ==
    ASSUME NEW words, NEW n, NEW B, IsCompound(words, n, B)
    PROVE  SplitCompound(words) = [i \in 1..n |-> BlockAt(words, B, i)]
  <1> DEFINE l == Len(words)
             X(k) == AfterRound(words, n, B, k)
             first == [offset |-> 0, blocks |-> <<>>]
             Loop(f) == [k \in 0..l |-> IF k = 0 THEN first ELSE NextBlock(words, f[k - 1])]
             C == CHOOSE f : f = Loop(f)
  <1>1. n \in Nat /\ l \in Nat /\ n <= l /\ B[0] = 0
    <2>1. n \in Nat /\ l = B[n] /\ B[0] = 0 /\ \A i \in 0..n : B[i] \in Nat /\ i <= B[i]
      BY DEF IsCompound
    <2>2. n \in 0..n
      BY <2>1
    <2> QED
      BY <2>1, <2>2
  <1>2. SplitCompound(words) = C[l].blocks
    BY DEF SplitCompound
  <1>3. X(0) = first
    <2>1. [i \in 1..0 |-> BlockAt(words, B, i)] = <<>>
      OBVIOUS
    <2> QED
      BY <1>1, <2>1 DEF AfterRound
  <1>4. \A k \in Nat : NextBlock(words, X(k)) = X(k + 1)
    BY RoundIs
  <1>5. X(l).blocks = [i \in 1..n |-> BlockAt(words, B, i)]
    <2>1. l <= n => l = n
      BY <1>1
    <2> QED
      BY <2>1 DEF AfterRound
  <1> HIDE DEF X, first, l
  <1>6. \E f : f = Loop(f)
    <2> DEFINE g == [k \in 0..l |-> X(k)]
    <2>1. ASSUME NEW k \in 0..l PROVE g[k] = IF k = 0 THEN first ELSE NextBlock(words, g[k - 1])
      <3>1. CASE k = 0
        BY <1>1, <1>3, <3>1
      <3>2. CASE k # 0
        <4>1. k - 1 \in 0..l /\ k - 1 \in Nat /\ (k - 1) + 1 = k
          BY <1>1, <3>2
        <4>2. NextBlock(words, X(k - 1)) = X(k)
          BY <1>4, <4>1
        <4> QED
          BY <3>2, <4>1, <4>2
      <3> QED
        BY <3>1, <3>2
    <2>2. g = Loop(g)
      BY <2>1
    <2> HIDE DEF g, Loop
    <2> QED
      BY <2>2
  <1>7. C = Loop(C)
    <2> HIDE DEF Loop
    <2> QED
      BY <1>6
  <1> HIDE DEF C
  <1>8. \A k \in 0..l : C[k] = IF k = 0 THEN first ELSE NextBlock(words, C[k - 1])
    BY <1>7
  <1> DEFINE Good == {k \in Nat : k <= l => C[k] = X(k)}
  <1>9. 0 \in Good
    BY <1>1, <1>3, <1>8
  <1>10. ASSUME NEW k \in 0..l - 1, k \in Good PROVE k + 1 \in Good
    <2>1. k \in Nat /\ k <= l /\ k + 1 \in 0..l /\ k + 1 # 0 /\ (k + 1) - 1 = k
      BY <1>1
    <2>2. C[k] = X(k) /\ C[k + 1] = NextBlock(words, C[k])
      BY <1>8, <1>10, <2>1
    <2>3. C[k + 1] = X(k + 1)
      BY <1>4, <2>1, <2>2
    <2> QED
      BY <2>1, <2>3
  <1>11. l \in Good
    <2> HIDE DEF Good
    <2> QED
      BY <1>1, <1>9, <1>10, Counting
  <1>12. C[l] = X(l)
    BY <1>1, <1>11
  <1> QED
    BY <1>2, <1>5, <1>12

\* A concatenation has the type of its parts.
LEMMA FlattenTyped ==
    ASSUME NEW T, NEW n \in Nat, NEW s \in [1..n -> Seq(T)]
    PROVE  FlattenSeq(s) \in Seq(T)
  <1>1. PICK F : IsPrefixes(F, T, n, s) /\ F[n] = FlattenSeq(s)
    BY Flattened
  <1>2. n \in 0..n
    OBVIOUS
  <1> QED
    BY <1>1, <1>2 DEF IsPrefixes

\* What the assumptions say of the sizes.
LEMMA Sizes ==
    /\ SeqRange \in Nat \ {0} /\ CacheSize \in Nat \ {0} /\ NackBits \in Nat
    /\ QueueSize \in Nat \ {0} /\ Window \in Nat
  BY RtxAssumption

\* An item that asks for packets of a set.
IsItem(x, missing) ==
    \E m \in missing : /\ x.pid = Seq16(m)
                       /\ \A i \in 0..NackBits - 1 : i \in x.blp => m + i + 1 \in missing

ItemWords(missing) == {x \in [pid : Int, blp : SUBSET Int, missing : {missing}] : IsItem(x, missing)}

\* A NACK asks for what is missing.
LEMMA ItemsAreAsked ==
    ASSUME NEW missing, missing \subseteq Nat, IsFiniteSet(missing)
    PROVE  Items(missing) \in Seq(ItemWords(missing))
  <1> DEFINE n == Cardinality(missing)
             T == [items : Seq(ItemWords(missing)), left : SUBSET missing]
             first == [items |-> <<>>, left |-> missing]
             Pid(left) == CHOOSE m \in left : \A k \in left : m <= k
             Bits(left) == {i \in 0..NackBits - 1 : Pid(left) + i + 1 \in left}
             Round(done) ==
               IF done.left = {} THEN done
               ELSE LET pid == CHOOSE m \in done.left : \A k \in done.left : m <= k
                        bits == {i \in 0..NackBits - 1 : pid + i + 1 \in done.left} IN
                    [items |-> Append(done.items, [pid |-> Seq16(pid), blp |-> bits, missing |-> missing]),
                     left |-> done.left \ ({pid} \cup {pid + i + 1 : i \in bits})]
             Loop(f) == [k \in 0..n |-> IF k = 0 THEN first ELSE Round(f[k - 1])]
             C == CHOOSE f : f = Loop(f)
             step == [k \in 1..n |-> [done \in T |-> Round(done)]]
  <1>1. n \in Nat
    BY FS_CardinalityType
  <1>2. Items(missing) = C[n].items
    BY DEF Items
  <1>3. first \in T
    OBVIOUS
  <1>4. ASSUME NEW done \in T PROVE Round(done) \in T
    <2>1. CASE done.left = {}
      BY <2>1
    <2>2. CASE done.left # {}
      <3> DEFINE left == done.left
                 pid == Pid(left)
                 bits == Bits(left)
                 item == [pid |-> Seq16(pid), blp |-> bits, missing |-> missing]
                 rest == left \ ({pid} \cup {pid + i + 1 : i \in bits})
      <3>1. left \subseteq missing /\ left \subseteq Nat /\ left # {} /\ done.items \in Seq(ItemWords(missing))
        BY <2>2
      <3> HIDE DEF left
      <3>2. \E m \in left : \A k \in left : m <= k
        BY <3>1, LeastNat
      <3>3. pid \in left
        BY <3>2
      <3>4. pid \in Nat /\ pid \in missing
        BY <3>1, <3>3
      <3>5. \A i \in bits : i \in 0..NackBits - 1 /\ pid + i + 1 \in left
        OBVIOUS
      <3>6. bits \subseteq Int
        OBVIOUS
      <3> HIDE DEF pid, bits
      <3>7. Seq16(pid) \in Int
        BY <3>4, Sizes, ModOf DEF Seq16
      <3>8. item \in [pid : Int, blp : SUBSET Int, missing : {missing}]
        BY <3>6, <3>7
      <3>9. IsItem(item, missing)
        <4>1. \A i \in 0..NackBits - 1 : i \in item.blp => pid + i + 1 \in missing
          BY <3>1, <3>5
        <4> QED
          BY <3>4, <4>1 DEF IsItem
      <3>10. item \in ItemWords(missing)
        BY <3>8, <3>9 DEF ItemWords
      <3> HIDE DEF item
      <3>11. Append(done.items, item) \in Seq(ItemWords(missing)) /\ rest \in SUBSET missing
        <4>1. rest \in SUBSET missing
          BY <3>1
        <4> DEFINE W == ItemWords(missing)
                   s == done.items
        <4>2. s \in Seq(W) /\ item \in W
          BY <3>1, <3>10
        <4> HIDE DEF W, s
        <4>3. Append(s, item) \in Seq(W)
          BY ONLY <4>2
        <4> QED
          BY <4>1, <4>3 DEF W, s
      <3>12. Round(done) = [items |-> Append(done.items, item), left |-> rest]
        BY <2>2 DEF left, item, pid, bits
      <3> HIDE DEF rest
      <3> QED
        BY <3>11, <3>12
    <2> QED
      BY <2>1, <2>2
  <1> HIDE DEF Round, T, first
  <1>5. step \in [1..n -> [T -> T]] /\ \A k \in 1..n : \A done \in T : step[k][done] = Round(done)
    BY <1>4
  <1> HIDE DEF step, n
  <1>6. PICK g \in [0..n -> T] : IsRecursion(g, n, first, step)
    BY ONLY <1>1, <1>3, <1>5, RecursionExists
  <1>7. \A k \in 0..n : g[k] = IF k = 0 THEN first ELSE Round(g[k - 1])
    <2> TAKE k \in 0..n
    <2>1. CASE k = 0
      BY <1>6, <2>1 DEF IsRecursion
    <2>2. CASE k # 0
      <3>1. k \in 1..n /\ k - 1 \in 0..n
        BY <1>1, <2>2
      <3>2. g[k] = step[k][g[k - 1]] /\ g[k - 1] \in T
        BY <1>6, <3>1 DEF IsRecursion
      <3> QED
        BY <1>5, <2>2, <3>1, <3>2
    <2> QED
      BY <2>1, <2>2
  <1>8. g = Loop(g)
    BY <1>6, <1>7
  <1>9. C = Loop(C)
    <2> HIDE DEF Loop
    <2> QED
      BY <1>8
  <1> HIDE DEF C
  <1>10. \A k \in 0..n : C[k] = IF k = 0 THEN first ELSE Round(C[k - 1])
    BY <1>9
  <1> DEFINE Good == {k \in Nat : k <= n => C[k] \in T}
  <1>11. 0 \in Good
    BY <1>1, <1>3, <1>10
  <1>12. ASSUME NEW k \in 0..n - 1, k \in Good PROVE k + 1 \in Good
    <2>1. k \in Nat /\ k <= n /\ k + 1 \in 0..n /\ k + 1 # 0 /\ (k + 1) - 1 = k
      BY <1>1
    <2>2. C[k] \in T /\ C[k + 1] = Round(C[k])
      BY <1>10, <1>12, <2>1
    <2>3. C[k + 1] \in T
      BY <1>4, <2>2
    <2> QED
      BY <2>1, <2>3
  <1>13. n \in Good
    <2> HIDE DEF Good
    <2> QED
      BY <1>1, <1>11, <1>12, Counting
  <1>14. C[n] \in T
    BY <1>1, <1>13
  <1> QED
    BY <1>2, <1>14 DEF T

\* The words of RTCP, and what a compound is made of.
Headers == [op : {"nack", "rr", "pli", "remb"}, len : Nat]
Words == Headers \cup [ssrc : Publishers \cup {None}]
                 \cup [pid : Int, blp : SUBSET Int, missing : SUBSET Int]
Blocks == [op : {"nack", "rr", "pli", "remb"}, about : Publishers \cup {None}]

\* What lies between two places.
LEMMA PartOf ==
    ASSUME NEW T, NEW s \in Seq(T), NEW a \in Nat, NEW b \in Nat, a <= b, b <= Len(s)
    PROVE  Len(SubSeq(s, a + 1, b)) = b - a /\ \A k \in 1..b - a : SubSeq(s, a + 1, b)[k] = s[a + k]
  OBVIOUS

\* Who asks misses something of a track.
MayAsk(b) == b.op = "nack" => /\ b.about \in Publishers
                              /\ Missing(b.about) \subseteq Nat /\ IsFiniteSet(Missing(b.about))

\* A block says how long it is and, if it is long enough, what it is about.
IsWritten(w, b) ==
    /\ w \in Seq(Words) /\ Len(w) >= 2
    /\ w[1] \in Headers /\ w[1].op = b.op /\ w[1].len + 1 = Len(w)
    /\ b.about # None => Len(w) >= 3
    /\ Len(w) >= 3 => w[3] = Ssrc(b.about)
    /\ b.op = "nack" => \A j \in 1..Len(w) - 3 : w[j + 3] \in ItemWords(Missing(b.about))

\* Each block of an RTCP packet is.
LEMMA BlockIsWritten ==
    ASSUME NEW b \in Blocks, MayAsk(b)
    PROVE  IsWritten(Block(b), b)
  <1>0. b.op \in {"nack", "rr", "pli", "remb"} /\ b.about \in Publishers \cup {None}
    BY DEF Blocks
  <1>1. CASE b.op = "nack"
    <2> DEFINE items == Items(Missing(b.about))
               I == ItemWords(Missing(b.about))
               h == Header("nack", 2 + Len(items))
               head == <<h, Ssrc(None), Ssrc(b.about)>>
               w == head \o items
    <2>1. items \in Seq(I)
      BY <1>1, ItemsAreAsked DEF MayAsk
    <2>2. I \subseteq Words
      <3>1. ASSUME NEW x \in I PROVE x \in Words
        <4>1. x \in [pid : Int, blp : SUBSET Int, missing : {Missing(b.about)}]
          BY DEF ItemWords
        <4>2. Missing(b.about) \in SUBSET Int
          BY <1>1 DEF MayAsk
        <4>3. x \in [pid : Int, blp : SUBSET Int, missing : SUBSET Int]
          BY <4>1, <4>2
        <4> QED
          BY <4>3 DEF Words
      <3> QED
        BY <3>1
    <2>3. Block(b) = w
      BY <1>1 DEF Block
    <2>4. Len(items) \in Nat
      BY <2>1
    <2> HIDE DEF items, I
    <2>5. h \in Headers /\ h.op = "nack" /\ h.len = 2 + Len(items)
      BY <2>4 DEF Header, Headers
    <2>6. Ssrc(None) \in Words /\ Ssrc(b.about) \in Words
      BY <1>0 DEF Ssrc, Words
    <2>7. h \in Words
      BY <2>5 DEF Words
    <2> HIDE DEF h
    <2>8. head \in Seq(Words) /\ Len(head) = 3 /\ head[1] = h /\ head[3] = Ssrc(b.about)
      BY <2>6, <2>7
    <2>9. items \in Seq(Words)
      BY <2>1, <2>2
    <2> HIDE DEF head
    <2>10. /\ w \in Seq(Words) /\ Len(w) = 3 + Len(items)
           /\ \A k \in 1..3 : w[k] = head[k]
           /\ \A k \in 1..Len(items) : w[3 + k] = items[k]
      BY <2>8, <2>9, Concatenated
    <2> HIDE DEF w
    <2>11. w[1] = h /\ w[3] = Ssrc(b.about)
      BY <2>8, <2>10
    <2>12. \A j \in 1..Len(w) - 3 : w[j + 3] \in I
      <3> TAKE j \in 1..Len(w) - 3
      <3>1. j \in 1..Len(items) /\ j + 3 = 3 + j
        BY <2>4, <2>10
      <3>2. items[j] \in I
        BY <2>1, <3>1
      <3> QED
        BY <2>10, <3>1, <3>2
    <2>13. Len(w) >= 3 /\ h.len + 1 = Len(w)
      BY <2>4, <2>5, <2>10
    <2>14. IsWritten(w, b)
      BY <1>1, <2>4, <2>5, <2>10, <2>11, <2>12, <2>13 DEF IsWritten, I
    <2> QED
      BY <2>3, <2>14
  <1>2. CASE b.op # "nack" /\ b.op = "rr" /\ b.about = None
    <2> DEFINE h == Header("rr", 1)
               w == <<h, Ssrc(None)>>
    <2>1. Block(b) = w
      BY <1>2 DEF Block
    <2>2. h \in Headers /\ h.op = "rr" /\ h.len = 1 /\ h \in Words /\ Ssrc(None) \in Words
      BY DEF Header, Headers, Words, Ssrc
    <2> HIDE DEF h
    <2>3. w \in Seq(Words) /\ Len(w) = 2 /\ w[1] = h
      BY <2>2
    <2> HIDE DEF w
    <2>4. IsWritten(w, b)
      BY <1>2, <2>2, <2>3 DEF IsWritten
    <2> QED
      BY <2>1, <2>4
  <1>3. CASE b.op # "nack" /\ ~(b.op = "rr" /\ b.about = None)
    <2> DEFINE h == Header(b.op, 2)
               w == <<h, Ssrc(None), Ssrc(b.about)>>
    <2>1. Block(b) = w
      BY <1>3 DEF Block
    <2>2. h \in Headers /\ h.op = b.op /\ h.len = 2 /\ h \in Words
          /\ Ssrc(None) \in Words /\ Ssrc(b.about) \in Words
      BY <1>0 DEF Header, Headers, Words, Ssrc
    <2> HIDE DEF h
    <2>3. w \in Seq(Words) /\ Len(w) = 3 /\ w[1] = h /\ w[3] = Ssrc(b.about)
      BY <2>2
    <2> HIDE DEF w
    <2>4. IsWritten(w, b)
      BY <1>3, <2>2, <2>3 DEF IsWritten
    <2> QED
      BY <2>1, <2>4
  <1> QED
    BY <1>1, <1>2, <1>3

\* What the items of a NACK are to the server.
AskedItems(p) == {x \in [about : {p}, pid : Int, blp : SUBSET Int, missing : {Missing(p)}] :
                    IsItem(x, Missing(p))}

\* Block x is understood as it was meant.
IsUnderstood(x, b) ==
    /\ x.op = b.op
    /\ \A p \in Publishers : x.media_ssrc = Ssrc(p) <=> b.about = p
    /\ b.op = "nack" => NackItems(x) \in Seq(AskedItems(b.about))

\* The ends of the blocks.
EndsOf(words, n, parts, B) ==
    /\ \A i \in 0..n : B[i] \in Nat /\ B[i] <= B[n]
    /\ \A i \in 1..n : B[i] = B[i - 1] + Len(parts[i])
    /\ words \in Seq(Words) /\ Len(words) = B[n]
    /\ \A i \in 1..n : \A k \in 1..Len(parts[i]) : words[B[i - 1] + k] = parts[i][k]

\* So each block of a compound is.
LEMMA BlockIsUnderstood ==
    ASSUME NEW n \in Nat, NEW compound \in Seq(Blocks), Len(compound) = n,
           \A i \in 1..n : MayAsk(compound[i]),
           NEW parts, \A i \in 1..n : IsWritten(parts[i], compound[i]),
           NEW words, NEW B, EndsOf(words, n, parts, B), NEW i \in 1..n
    PROVE  IsUnderstood(BlockAt(words, B, i), compound[i])
  <1> DEFINE b == compound[i]
             w == parts[i]
             o == B[i - 1]
             x == BlockAt(words, B, i)
  <1>1. b \in Blocks /\ MayAsk(b) /\ IsWritten(w, b)
    OBVIOUS
  <1>2. /\ o \in Nat /\ B[i] = o + Len(w) /\ B[i] <= Len(words) /\ Len(words) \in Nat
        /\ words \in Seq(Words) /\ \A k \in 1..Len(w) : words[o + k] = w[k]
    <2>1. i - 1 \in 0..n /\ i \in 0..n
      OBVIOUS
    <2> QED
      BY <2>1 DEF EndsOf
  <1>3. /\ x.op = words[o + 1].op
        /\ x.media_ssrc = IF o + 3 <= Len(words) THEN words[o + 3] ELSE Ssrc(None)
        /\ x.words = SubSeq(words, o + 1, B[i])
    BY DEF BlockAt
  <1>4. \A p \in Publishers : Ssrc(None) # Ssrc(p)
    <2>1. \A p : Ssrc(p).ssrc = p
      BY DEF Ssrc
    <2> QED
      BY <2>1, RtxAssumption
  <1>5. Len(words) > B[i] => words[B[i] + 1] \in Headers
    <2> SUFFICES ASSUME Len(words) > B[i] PROVE words[B[i] + 1] \in Headers
      OBVIOUS
    <2>1. i + 1 \in 1..n
      <3>1. i # n
        <4>1. Len(words) = B[n]
          BY DEF EndsOf
        <4> QED
          BY <1>2, <4>1
      <3> QED
        BY <3>1
    <2>2. IsWritten(parts[i + 1], compound[i + 1])
      BY <2>1
    <2>3. 1 \in 1..Len(parts[i + 1]) /\ parts[i + 1][1] \in Headers
      BY <2>2 DEF IsWritten
    <2>4. \A k \in 1..Len(parts[i + 1]) : words[B[(i + 1) - 1] + k] = parts[i + 1][k]
      BY <2>1 DEF EndsOf
    <2>5. (i + 1) - 1 = i
      OBVIOUS
    <2> QED
      BY <2>3, <2>4, <2>5
  <1> HIDE DEF x, b, w, o
  <1>6. Len(w) \in Nat /\ Len(w) >= 2 /\ w[1].op = b.op
        /\ (b.about # None => Len(w) >= 3) /\ (Len(w) >= 3 => w[3] = Ssrc(b.about))
    BY <1>1 DEF IsWritten
  <1>7. x.op = b.op
    <2>1. 1 \in 1..Len(w)
      BY <1>6
    <2> QED
      BY <1>2, <1>3, <1>6, <2>1
  <1>8. ASSUME Len(w) >= 3 PROVE x.media_ssrc = Ssrc(b.about)
    <2>1. 3 \in 1..Len(w) /\ o + 3 <= Len(words)
      BY <1>2, <1>6, <1>8
    <2> QED
      BY <1>2, <1>3, <1>6, <1>8, <2>1
  <1>9. ASSUME NEW p \in Publishers PROVE x.media_ssrc = Ssrc(p) <=> b.about = p
    <2>1. CASE Len(w) >= 3
      <3>1. \A q : Ssrc(q).ssrc = q
        BY DEF Ssrc
      <3> QED
        BY <1>8, <2>1, <3>1
    <2>2. CASE ~(Len(w) >= 3)
      <3>1. b.about = None /\ Len(w) = 2
        <4>1. b.about = None
          BY <1>6, <2>2
        <4> DEFINE l == Len(w)
        <4>2. l \in Nat /\ l >= 2 /\ ~(l >= 3)
          BY <1>6, <2>2
        <4> HIDE DEF l
        <4>3. l = 2
          BY ONLY <4>2
        <4> QED
          BY <4>1, <4>3 DEF l
      <3>2. b.about # p
        BY <3>1, RtxAssumption
      <3>3. x.media_ssrc # Ssrc(p)
        <4>1. CASE o + 3 <= Len(words)
          <5>1. o + 3 = B[i] + 1 /\ Len(words) > B[i]
            BY <1>2, <3>1, <4>1
          <5>2. x.media_ssrc \in Headers
            BY <1>3, <1>5, <4>1, <5>1
          <5>3. DOMAIN x.media_ssrc = {"op", "len"}
            BY <5>2 DEF Headers
          <5>4. DOMAIN Ssrc(p) = {"ssrc"}
            BY DEF Ssrc
          <5> QED
            BY <5>3, <5>4
        <4>2. CASE ~(o + 3 <= Len(words))
          BY <1>3, <1>4, <4>2
        <4> QED
          BY <4>1, <4>2
      <3> QED
        BY <3>2, <3>3
    <2> QED
      BY <2>1, <2>2
  <1>10. ASSUME b.op = "nack" PROVE NackItems(x) \in Seq(AskedItems(b.about))
    <2> DEFINE p == b.about
               m == Len(w) - 3
    <2>1. p \in Publishers /\ Len(w) >= 3
      <3>1. p \in Publishers
        BY <1>1, <1>10 DEF MayAsk
      <3> QED
        BY <1>6, <3>1, RtxAssumption
    <2>2. x.media_ssrc.ssrc = p
      BY <1>8, <2>1 DEF Ssrc
    <2>3. Len(x.words) = Len(w) /\ \A j \in 1..Len(w) : x.words[j] = w[j]
      <3> DEFINE v == SubSeq(words, o + 1, B[i])
      <3>1. Len(v) = Len(w) /\ \A j \in 1..Len(w) : v[j] = words[o + j]
        <4> DEFINE e == B[i]
                   l == Len(w)
        <4>1. e = o + l /\ o \in Nat /\ l \in Nat /\ e \in Nat /\ e <= Len(words) /\ o <= e
          BY <1>2, <1>6
        <4> HIDE DEF e, l, v
        <4>2. v = SubSeq(words, o + 1, e)
          BY DEF v, e
        <4>3. Len(v) = e - o /\ \A k \in 1..e - o : v[k] = words[o + k]
          BY <1>2, <4>1, <4>2, PartOf
        <4>4. e - o = l
          BY <4>1
        <4> QED
          BY <4>3, <4>4 DEF l
      <3> HIDE DEF v
      <3>2. x.words = v
        BY <1>3 DEF v
      <3> QED
        BY <1>2, <3>1, <3>2
    <2>4. ASSUME NEW j \in 1..m
          PROVE  LET y == x.words[j + 3] IN
                 [about |-> p, pid |-> y.pid, blp |-> y.blp, missing |-> y.missing] \in AskedItems(p)
      <3> DEFINE y == x.words[j + 3]
                 z == [about |-> p, pid |-> y.pid, blp |-> y.blp, missing |-> y.missing]
      <3>1. j + 3 \in 1..Len(w)
        BY <1>6
      <3>2. y \in ItemWords(Missing(p))
        <4>1. w[j + 3] \in ItemWords(Missing(p))
          BY <1>1, <1>10 DEF IsWritten
        <4> QED
          BY <2>3, <3>1, <4>1
      <3> HIDE DEF y
      <3>3. y \in [pid : Int, blp : SUBSET Int, missing : {Missing(p)}] /\ IsItem(y, Missing(p))
        BY <3>2 DEF ItemWords
      <3>4. z \in [about : {p}, pid : Int, blp : SUBSET Int, missing : {Missing(p)}]
        BY <3>3
      <3>5. z.pid = y.pid /\ z.blp = y.blp
        OBVIOUS
      <3> HIDE DEF z
      <3>6. IsItem(z, Missing(p))
        BY <3>3, <3>5 DEF IsItem
      <3>7. z \in AskedItems(p)
        BY <3>4, <3>6 DEF AskedItems
      <3> QED
        BY <3>7 DEF y, z
    <2>5. NackItems(x) = [j \in 1..m |-> LET y == x.words[j + 3] IN
                            [about |-> p, pid |-> y.pid, blp |-> y.blp, missing |-> y.missing]]
      BY <2>2, <2>3 DEF NackItems
    <2>6. m \in Nat
      BY <1>6, <2>1
    <2>7. NackItems(x) \in [1..m -> AskedItems(p)]
      <3> HIDE DEF m, p
      <3> QED
        BY <2>4, <2>5
    <2> HIDE DEF m
    <2> QED
      BY <2>6, <2>7
  <1>11. IsUnderstood(x, b)
    BY <1>7, <1>9, <1>10 DEF IsUnderstood
  <1> QED
    BY <1>11 DEF x, b

\* A compound comes apart into the blocks it was put together from.
LEMMA CompoundIsUnderstood ==
    ASSUME NEW compound \in Seq(Blocks), \A i \in 1..Len(compound) : MayAsk(compound[i]),
           NEW words, words = FlattenSeq([i \in DOMAIN compound |-> Block(compound[i])])
    PROVE  LET blocks == SplitCompound(words) IN
           /\ blocks \in Seq({blocks[i] : i \in 1..Len(compound)}) /\ Len(blocks) = Len(compound)
           /\ \A i \in 1..Len(compound) : IsUnderstood(blocks[i], compound[i])
  <1> DEFINE n == Len(compound)
             parts == [i \in 1..n |-> Block(compound[i])]
  <1>1. n \in Nat /\ DOMAIN compound = 1..n /\ \A i \in 1..n : compound[i] \in Blocks
    OBVIOUS
  <1>2. ASSUME NEW i \in 1..n PROVE IsWritten(parts[i], compound[i])
    BY <1>1, BlockIsWritten
  <1>3. words = FlattenSeq(parts)
    BY <1>1
  <1> HIDE DEF parts
  <1>4. parts \in [1..n -> Seq(Words)] /\ \A i \in 1..n : Len(parts[i]) >= 1 /\ Len(parts[i]) \in Nat
    <2>1. \A i \in 1..n : parts[i] \in Seq(Words) /\ Len(parts[i]) >= 2 /\ Len(parts[i]) \in Nat
      BY <1>2 DEF IsWritten
    <2>2. parts = [i \in 1..n |-> parts[i]]
      BY DEF parts
    <2> HIDE DEF n
    <2> QED
      BY <2>1, <2>2
  <1> HIDE DEF n
  <1>5. PICK B : /\ EndAt(B, n, parts)
                 /\ \A i \in 0..n : B[i] \in Nat /\ i <= B[i] /\ B[i] <= B[n]
    BY <1>1, <1>4, EndsExist
  <1>6. AreParts(B, n, parts, words)
    BY <1>1, <1>3, <1>4, <1>5, PartsOf
  <1>7. words \in Seq(Words)
    BY <1>1, <1>3, <1>4, FlattenTyped
  <1>8. EndsOf(words, n, parts, B)
    BY <1>5, <1>6, <1>7 DEF EndsOf, EndAt, AreParts
  <1>9. IsCompound(words, n, B)
    <2>1. ASSUME NEW i \in 1..n
          PROVE  B[i - 1] + 1 <= B[i] /\ words[B[i - 1] + 1].len + 1 = B[i] - B[i - 1]
      <3> DEFINE l == Len(parts[i])
                 o == B[i - 1]
      <3>1. i - 1 \in 0..n /\ i \in 0..n
        BY <1>1
      <3>2. l \in Nat /\ l >= 1 /\ B[i] = o + l /\ o \in Nat
        BY <1>4, <1>5, <3>1 DEF EndAt
      <3>3. parts[i][1].len + 1 = l
        BY <1>2 DEF IsWritten
      <3>4. 1 \in 1..l
        BY <3>2
      <3>5. words[o + 1] = parts[i][1]
        BY <1>6, <3>4 DEF AreParts
      <3> HIDE DEF l, o
      <3>6. o + 1 <= B[i] /\ words[o + 1].len + 1 = B[i] - o
        BY <3>2, <3>3, <3>5
      <3> QED
        BY <3>6 DEF o
    <2> QED
      BY <1>1, <1>5, <1>6, <2>1 DEF IsCompound, EndAt, AreParts
  <1> DEFINE blocks == SplitCompound(words)
  <1>10. blocks = [i \in 1..n |-> BlockAt(words, B, i)]
    BY ONLY <1>9, CompoundIsSplit
  <1>11. ASSUME NEW i \in 1..n PROVE IsUnderstood(blocks[i], compound[i])
    <2>1. blocks[i] = BlockAt(words, B, i)
      BY <1>10
    <2>2. IsUnderstood(BlockAt(words, B, i), compound[i])
      <3>1. Len(compound) = n /\ \A j \in 1..n : MayAsk(compound[j])
        BY DEF n
      <3> QED
        BY <1>1, <1>2, <1>8, <3>1, BlockIsUnderstood
    <2> QED
      BY <2>1, <2>2
  <1>12. blocks \in Seq({blocks[i] : i \in 1..n}) /\ Len(blocks) = n
    <2>1. blocks = [i \in 1..n |-> blocks[i]]
      BY <1>10
    <2> HIDE DEF blocks
    <2> DEFINE T == {blocks[i] : i \in 1..n}
    <2>2. blocks \in [1..n -> T]
      BY <2>1
    <2> HIDE DEF T
    <2>3. blocks \in Seq(T) /\ Len(blocks) = n
      BY <1>1, <2>2
    <2> QED
      BY <2>3 DEF T
  <1> QED
    BY <1>11, <1>12 DEF n

\* What is relayed of a compound: to each publisher, the blocks about its track.
RelaysOf(relay, compound) ==
    \A p \in Publishers :
        Ops(Only(relay, {b \in Range(relay) : b.media_ssrc = Ssrc(p)}))
          = Ops(Only(compound, {b \in Range(compound) : b.op # "nack" /\ b.about = p}))

\* That is what is left of the blocks without NACKs.
LEMMA RelayOfBlocks ==
    ASSUME NEW compound \in Seq(Blocks), NEW T, NEW blocks \in Seq(T), Len(blocks) = Len(compound),
           \A i \in 1..Len(compound) : IsUnderstood(blocks[i], compound[i])
    PROVE  RelaysOf(Only(blocks, {b \in Range(blocks) : b.op \in {"rr", "pli", "remb"}}), compound)
  <1> DEFINE n == Len(compound)
             S == {b \in Range(blocks) : b.op \in {"rr", "pli", "remb"}}
             relay == Only(blocks, S)
  <1>1. n \in Nat /\ DOMAIN compound = 1..n /\ DOMAIN blocks = 1..n
        /\ \A i \in 1..n : blocks[i] \in T /\ compound[i] \in Blocks
    OBVIOUS
  <1>2. ASSUME NEW p \in Publishers
        PROVE  Ops(Only(relay, {b \in Range(relay) : b.media_ssrc = Ssrc(p)}))
                 = Ops(Only(compound, {b \in Range(compound) : b.op # "nack" /\ b.about = p}))
    <2> DEFINE U == {b \in Range(relay) : b.media_ssrc = Ssrc(p)}
               W == {b \in T : b.media_ssrc = Ssrc(p)}
               V == {b \in Range(compound) : b.op # "nack" /\ b.about = p}
    <2>1. relay \in Seq(T)
      <3> HIDE DEF S
      <3> QED
        BY OnlyGrows
    <2>2. Only(relay, U) = Only(relay, W)
      <3> HIDE DEF relay
      <3>1. \A i \in DOMAIN relay : relay[i] \in T /\ relay[i] \in Range(relay)
        BY <2>1 DEF Range
      <3>2. \A i \in DOMAIN relay : relay[i] \in U <=> relay[i] \in W
        BY <3>1
      <3> HIDE DEF U, W
      <3>3. [i \in DOMAIN relay |-> IF relay[i] \in U THEN <<relay[i]>> ELSE <<>>]
              = [i \in DOMAIN relay |-> IF relay[i] \in W THEN <<relay[i]>> ELSE <<>>]
        BY <3>2
      <3> QED
        BY <3>3 DEF Only
    <2>3. Only(relay, W) = Only(blocks, S \cap W)
      <3> HIDE DEF S, W
      <3> QED
        BY OnlyTwice
    <2>4. ASSUME NEW i \in 1..n
          PROVE  blocks[i].op = compound[i].op /\ (blocks[i] \in S \cap W <=> compound[i] \in V)
      <3>1. /\ blocks[i].op = compound[i].op
            /\ blocks[i].media_ssrc = Ssrc(p) <=> compound[i].about = p
        BY DEF IsUnderstood
      <3>2. compound[i].op \in {"nack", "rr", "pli", "remb"}
        BY <1>1 DEF Blocks
      <3>3. blocks[i] \in Range(blocks) /\ compound[i] \in Range(compound) /\ blocks[i] \in T
        BY <1>1 DEF Range
      <3> QED
        BY <3>1, <3>2, <3>3
    <2> DEFINE X == S \cap W
    <2>5. Len(blocks) = n
      OBVIOUS
    <2>6. \A i \in 1..Len(blocks) : blocks[i].op = compound[i].op /\ (blocks[i] \in X <=> compound[i] \in V)
      BY <2>4, <2>5
    <2>7. Ops(Only(blocks, X)) = Ops(Only(compound, V))
      <3> HIDE DEF X, V
      <3> QED
        BY <2>6, OnlyAlike
    <2> QED
      BY <2>2, <2>3, <2>7
  <1> HIDE DEF relay
  <1>3. RelaysOf(relay, compound)
    BY <1>2 DEF RelaysOf
  <1> QED
    BY <1>3 DEF relay

-----------------------------------------------------------------------------
\* What the subscriber has and means.

\* A remainder may be taken of one term of a sum first.
LEMMA ModThen ==
    ASSUME NEW n \in Nat \ {0}, NEW a \in Int, NEW b \in Int
    PROVE  ((a % n) + b) % n = (a + b) % n
  <1> DEFINE x == a % n
             y == x + b
             z == a + b
  <1>1. x \in Int
    BY ModOf
  <1>2. PICK j \in Int : a = x + n * j
    BY ModOf
  <1> HIDE DEF x
  <1>3. y \in Int /\ z \in Int /\ z = y + n * j
    BY <1>1, <1>2
  <1> HIDE DEF y, z
  <1>4. z % n = y % n
    BY ONLY <1>3, n \in Nat \ {0}, j \in Int, ModShift
  <1> QED
    BY <1>4 DEF x, y, z

\* Numbers less than a round apart are told apart by their remainders.
LEMMA SameNumber ==
    ASSUME NEW a \in Int, NEW b \in Int, Seq16(a) = Seq16(b), a - b < SeqRange, b - a < SeqRange
    PROVE  a = b
  <1> DEFINE n == SeqRange
             r == a % n
  <1>1. n \in Nat \ {0} /\ b % n = r
    BY Sizes DEF Seq16
  <1>2. PICK j \in Int : a = r + n * j
    BY <1>1, ModOf
  <1>3. PICK k \in Int : b = (b % n) + n * k
    BY <1>1, ModOf
  <1>4. r \in Int /\ b = r + n * k
    BY <1>1, <1>3, ModOf
  <1>5. a - b < n /\ b - a < n
    OBVIOUS
  <1> HIDE DEF n, r
  <1> DEFINE i == j - k
             y == n * i
  <1>6. i \in Int /\ y = a - b
    BY <1>1, <1>2, <1>4
  <1>7. i >= 1 => y >= n
    BY <1>1, <1>6
  <1>8. i <= -1 => y <= -n
    BY <1>1, <1>6
  <1>9. y \in Int /\ -n < y /\ y < n
    BY <1>1, <1>5, <1>6
  <1> HIDE DEF i, y
  <1>10. i = 0
    BY <1>1, <1>6, <1>7, <1>8, <1>9
  <1>11. y = 0
    BY <1>1, <1>10 DEF y
  <1> QED
    BY <1>6, <1>11

\* The slot of a packet is that of its number.
LEMMA SlotIs ==
    ASSUME NEW n \in Int
    PROVE  Seq16(n) \in Int /\ Seq16(n) % CacheSize = n % CacheSize /\ n % CacheSize \in 0..CacheSize - 1
  <1> DEFINE r == n % SeqRange
             c == CacheSize
             q == SeqRange \div c
  <1>1. SeqRange \in Nat \ {0} /\ c \in Nat \ {0} /\ SeqRange % c = 0
    BY Sizes, RtxAssumption
  <1>2. PICK j \in Int : n = r + SeqRange * j
    BY <1>1, ModOf
  <1>3. r \in Int
    BY <1>1, ModOf
  <1>4. PICK k \in Int : SeqRange = c * k
    <2> DEFINE m == SeqRange
    <2>0. m \in Int /\ m % c = 0
      BY <1>1
    <2> HIDE DEF m, c
    <2>1. PICK k \in Int : m = (m % c) + c * k
      BY <1>1, <2>0, ModOf
    <2> DEFINE y == c * k
    <2>2. y \in Int
      BY <1>1
    <2>3. m = (m % c) + y
      BY <2>1
    <2> HIDE DEF y
    <2>4. m = y
      BY <2>0, <2>2, <2>3
    <2> QED
      BY <2>4 DEF y, m
  <1> HIDE DEF r, c
  <1> DEFINE i == k * j
  <1>5. i \in Int
    BY <1>2, <1>4
  <1>6. n = r + c * i
    <2>1. (c * k) * j = c * (k * j)
      BY <1>1, <1>2, <1>4
    <2> QED
      BY <1>2, <1>4, <2>1
  <1> HIDE DEF i
  <1>7. n % c = r % c
    BY ONLY <1>1, <1>3, <1>5, <1>6, ModShift
  <1>8. n % c \in 0..c - 1
    BY <1>1, ModOf
  <1> QED
    BY <1>3, <1>7, <1>8 DEF Seq16, r, c

\* A later packet of the same slot comes a round of the cache later at least.
LEMMA SlotAfter ==
    ASSUME NEW a \in Int, NEW b \in Int, a % CacheSize = b % CacheSize, a > b
    PROVE  a - b >= CacheSize
  <1> DEFINE n == CacheSize
             r == a % n
  <1>1. n \in Nat \ {0} /\ b % n = r
    BY Sizes
  <1>2. PICK j \in Int : a = r + n * j
    BY <1>1, ModOf
  <1>3. PICK k \in Int : b = (b % n) + n * k
    BY <1>1, ModOf
  <1>4. r \in Int /\ b = r + n * k
    BY <1>1, <1>3, ModOf
  <1> HIDE DEF n, r
  <1> DEFINE i == j - k
             y == n * i
  <1>5. i \in Int /\ y = a - b
    BY <1>1, <1>2, <1>4
  <1>6. i >= 1 => y >= n
    BY <1>1, <1>5
  <1>7. i <= 0 => y <= 0
    BY <1>1, <1>5
  <1>8. y \in Int /\ y > 0
    BY <1>5
  <1> HIDE DEF i, y
  <1> QED
    BY <1>1, <1>5, <1>6, <1>7, <1>8 DEF n

\* Half the numbers.
Half == SeqRange \div 2

\* The numbers of a track.
LEMMA NumbersOf ==
    ASSUME NEW p \in Publishers
    PROVE  /\ FirstPacket[p] \in Nat /\ LastPacket[p] \in Nat /\ Numbers(p) \subseteq Nat
           /\ \A n \in Numbers(p) : n <= FirstPacket[p] + LastPacket[p]
           /\ \A n \in Numbers(p) : n >= FirstPacket[p] => n <= LastPacket[p]
           /\ Half \in Nat /\ 2 * Half <= SeqRange
  <1>1. /\ FirstPacket[p] \in Nat /\ LastPacket[p] \in Nat
        /\ Earlier[p] \subseteq Nat /\ \A n \in Earlier[p] : n < FirstPacket[p]
    BY RtxAssumption
  <1>2. Half \in Nat /\ 2 * Half <= SeqRange
    BY Sizes DEF Half
  <1>3. Numbers(p) \subseteq Nat
    BY <1>1 DEF Numbers
  <1>4. ASSUME NEW n \in Numbers(p)
        PROVE  n <= FirstPacket[p] + LastPacket[p] /\ (n >= FirstPacket[p] => n <= LastPacket[p])
    <2>1. CASE n \in Earlier[p]
      <3>1. n \in Nat /\ n < FirstPacket[p]
        BY <1>1, <2>1
      <3> QED
        BY <1>1, <3>1
    <2>2. CASE n \in FirstPacket[p]..LastPacket[p]
      BY <1>1, <2>2
    <2> QED
      BY <2>1, <2>2 DEF Numbers
  <1> QED
    BY <1>1, <1>2, <1>3, <1>4

\* Some of them have a highest.
LEMMA LastIs ==
    ASSUME NEW l \in Nat, NEW S, S \subseteq Nat, S # {}, \A n \in S : n <= l
    PROVE  \E n \in S : \A m \in S : m <= n
  <1> DEFINE T == {l - n : n \in S}
  <1>1. T \subseteq Nat /\ T # {}
    <2>1. \A n \in S : l - n \in Nat
      OBVIOUS
    <2>2. PICK n \in S : TRUE
      OBVIOUS
    <2> QED
      BY <2>1, <2>2
  <1>2. PICK t \in T : \A u \in T : t <= u
    <2> HIDE DEF T
    <2> QED
      BY <1>1, LeastNat
  <1>3. PICK n \in S : t = l - n
    BY <1>2
  <1>4. \A m \in S : m <= n
    <2> TAKE m \in S
    <2>1. l - m \in T
      OBVIOUS
    <2>2. l - n <= l - m
      BY <1>2, <1>3, <2>1
    <2> QED
      BY <2>2
  <1> QED
    BY <1>4

LEMMA HighestIs ==
    ASSUME NEW p \in Publishers, NEW S, S \subseteq Numbers(p), S # {}
    PROVE  \E n \in S : \A m \in S : m <= n
  <1> DEFINE l == FirstPacket[p] + LastPacket[p]
  <1>1. l \in Nat /\ S \subseteq Nat /\ \A n \in S : n <= l
    BY NumbersOf
  <1> HIDE DEF l
  <1> QED
    BY <1>1, LastIs

\* That of what a subscriber has of a track.
LEMMA HighestOf ==
    ASSUME NEW p \in Publishers, got[p] \subseteq Numbers(p), got[p] # {}
    PROVE  Highest(p) \in got[p] /\ Highest(p) \in Numbers(p) /\ \A m \in got[p] : m <= Highest(p)
  <1>1. \E m \in got[p] : \A k \in got[p] : k <= m
    BY HighestIs
  <1> QED
    BY <1>1 DEF Highest

\* By it the subscriber tells what a sequence number means.
LEMMA UnwrapIs ==
    ASSUME NEW p \in Publishers, got[p] \subseteq Numbers(p), got[p] # {}, NEW n \in Int,
           Highest(p) - n < Half, n - Highest(p) < Half
    PROVE  Unwrap(p, Seq16(n)) = n
  <1> DEFINE h == Highest(p)
             d == Half
             I == (h - d + 1)..(h + d)
  <1>1. /\ h \in Nat /\ d \in Nat /\ 2 * d <= SeqRange /\ SeqRange \in Nat
        /\ h - n < d /\ n - h < d
    BY HighestOf, NumbersOf, Sizes
  <1>2. Unwrap(p, Seq16(n)) = CHOOSE m \in I : Seq16(m) = Seq16(n)
    BY DEF Unwrap, Half
  <1> HIDE DEF h, d
  <1>3. n \in I
    BY <1>1
  <1>4. ASSUME NEW m \in I, Seq16(m) = Seq16(n) PROVE m = n
    <2>1. m \in Int /\ m - n < SeqRange /\ n - m < SeqRange
      BY <1>1, <1>3
    <2> QED
      BY <1>4, <2>1, SameNumber
  <1> HIDE DEF I
  <1> QED
    BY <1>2, <1>3, <1>4

\* What is missing is of the track, and not far behind.
LEMMA MissingIs ==
    ASSUME NEW p \in Publishers, got[p] \subseteq Numbers(p)
    PROVE  /\ Missing(p) \subseteq Numbers(p) /\ Missing(p) \subseteq Nat
           /\ IsFiniteSet(Missing(p)) /\ (Missing(p) # {} => got[p] # {})
           /\ \A m \in Missing(p) : m <= Highest(p) /\ Highest(p) - m <= Window
  <1>1. CASE got[p] = {}
    <2>1. Missing(p) = {}
      BY <1>1 DEF Missing
    <2> QED
      BY <2>1, FS_EmptySet
  <1>2. CASE got[p] # {}
    <2> DEFINE h == Highest(p)
               I == h - Window..h
    <2>1. h \in Numbers(p)
      BY <1>2, HighestOf
    <2>2. h \in Nat /\ (h >= FirstPacket[p] => h <= LastPacket[p]) /\ h - Window \in Int
      BY <2>1, NumbersOf, Sizes
    <2>3. Missing(p) = {n \in I : n >= FirstPacket[p]} \ got[p]
      BY <1>2 DEF Missing
    <2> HIDE DEF h
    <2>4. IsFiniteSet(I) /\ \A n \in I : n <= h /\ h - n <= Window
      BY <2>2, Sizes, FS_Interval
    <2>5. \A n \in I : n >= FirstPacket[p] => n \in Numbers(p)
      <3> SUFFICES ASSUME NEW n \in I, n >= FirstPacket[p] PROVE n \in FirstPacket[p]..LastPacket[p]
        BY DEF Numbers
      <3>1. FirstPacket[p] \in Nat /\ LastPacket[p] \in Nat
        BY NumbersOf
      <3> QED
        BY <2>2, <3>1
    <2> HIDE DEF I
    <2>6. Missing(p) \subseteq I /\ Missing(p) \subseteq Numbers(p)
      BY <2>3, <2>5
    <2>7. IsFiniteSet(Missing(p))
      BY <2>4, <2>6, FS_Subset
    <2>8. \A m \in Missing(p) : m <= Highest(p) /\ Highest(p) - m <= Window
      BY <2>4, <2>6 DEF h
    <2> QED
      BY <1>2, <2>6, <2>7, <2>8, NumbersOf
  <1> QED
    BY <1>1, <1>2

\* What is kept is some of it, and the highest.
LEMMA KeptIs ==
    ASSUME NEW p \in Publishers, NEW S, S \subseteq Numbers(p),
           NEW n \in S, \A m \in S : m <= n
    PROVE  Kept(S) \subseteq S /\ n \in Kept(S)
  <1>1. \A m \in S : m - n <= Window
    <2> TAKE m \in S
    <2>1. m \in Nat /\ n \in Nat /\ m <= n /\ Window \in Nat
      BY NumbersOf, Sizes
    <2> QED
      BY <2>1
  <1> QED
    BY <1>1 DEF Kept

\* The server's answer to an item, number by number.
LEMMA ExpandedAre ==
    ASSUME NEW item, NEW missing, missing \subseteq Nat, item.pid \in Int, IsItem(item, missing)
    PROVE  ExpandNack(item) \in Seq({Seq16(m) : m \in missing})
  <1> DEFINE T == {Seq16(m) : m \in missing}
             parts == [i \in 1..NackBits |-> IF i - 1 \in item.blp THEN <<Seq16(item.pid + i)>> ELSE <<>>]
  <1>1. PICK m \in missing : /\ item.pid = Seq16(m)
                             /\ \A i \in 0..NackBits - 1 : i \in item.blp => m + i + 1 \in missing
    BY DEF IsItem
  <1>2. item.pid \in T
    BY <1>1
  <1>3. ASSUME NEW i \in 1..NackBits PROVE parts[i] \in Seq(T)
    <2>1. CASE i - 1 \in item.blp
      <3>1. i - 1 \in 0..NackBits - 1 /\ m \in Int /\ m + (i - 1) + 1 = m + i
        BY Sizes
      <3>2. m + i \in missing
        BY <1>1, <2>1, <3>1
      <3>3. Seq16(item.pid + i) = Seq16(m + i)
        <4>1. SeqRange \in Nat \ {0} /\ i \in Int
          BY Sizes
        <4>2. ((m % SeqRange) + i) % SeqRange = (m + i) % SeqRange
          BY <3>1, <4>1, ModThen
        <4> QED
          BY <1>1, <4>2 DEF Seq16
      <3>4. Seq16(m + i) \in T
        BY <3>2
      <3> HIDE DEF T
      <3> QED
        BY <2>1, <3>3, <3>4
    <2>2. CASE i - 1 \notin item.blp
      BY <2>2
    <2> QED
      BY <2>1, <2>2
  <1>4. parts \in [1..NackBits -> Seq(T)]
    <2>1. parts = [i \in 1..NackBits |-> parts[i]]
      OBVIOUS
    <2> HIDE DEF parts, T
    <2> QED
      BY <1>3, <2>1
  <1>5. ExpandNack(item) = <<item.pid>> \o FlattenSeq(parts)
    BY DEF ExpandNack
  <1> HIDE DEF parts, T
  <1>6. FlattenSeq(parts) \in Seq(T)
    BY <1>4, Sizes, FlattenTyped
  <1>7. <<item.pid>> \in Seq(T)
    BY <1>2
  <1>8. ExpandNack(item) \in Seq(T)
    BY <1>5, <1>6, <1>7, Concatenated
  <1> QED
    BY <1>8 DEF T

-----------------------------------------------------------------------------
\* The invariant.

\* The packets of a track that may be on their way to the subscriber, and those it may
\* have asked for.
Ahead(p) == {n \in Numbers(p) : n <= highest[p] /\ highest[p] - n + Window < Half}
Behind(p) == {m \in Numbers(p) : m <= Highest(p) /\ highest[p] - m < Half}

\* What is in the worker's hands and in the queue, of tracks of which the subscriber has
\* packets.
Heard == {p \in Publishers : got[p] # {}}

Asks ==
    {x \in [about : Heard, pid : Int, blp : SUBSET Int, missing : SUBSET Int] :
        x.missing \subseteq Behind(x.about) /\ IsItem(x, x.missing)}
RtxOf ==
    {x \in [op : {"rtx"}, from : Heard, seq : Int, n : Int, missing : SUBSET Int, stale : SUBSET Int] :
        /\ x.missing \subseteq Behind(x.from)
        /\ \E m \in x.missing : x.seq = Seq16(m) /\ (x.n = m \/ m \in x.stale)}
RtpOf == {x \in [op : {"rtp"}, from : Publishers, seq : Int, n : Int] : x.n \in Ahead(x.from)}
SrOf == [op : {"sr"}, from : Publishers, seq : Int, n : Int]
Carried == RtpOf \cup SrOf \cup RtxOf

\* A slot of the cache holds the last packet that fell into it.
Holds(n, numbers, slot) ==
    IF n = None THEN \A j \in numbers : j % CacheSize # slot
    ELSE /\ n \in numbers /\ n % CacheSize = slot
         /\ \A j \in numbers : j % CacheSize = slot => j <= n

ServerOK ==
    /\ published \subseteq Publishers
    /\ highest \in [Publishers -> Int]
    /\ \A p \in Publishers : highest[p] \in Numbers(p) \cup {FirstPacket[p] - 1}
    /\ arrived \in [Publishers -> SUBSET Nat]
    /\ \A p \in Publishers : arrived[p] \subseteq Numbers(p) /\ \A n \in arrived[p] : n <= highest[p]
    /\ rtp_cache \in [Publishers -> [0..CacheSize - 1 -> Int \cup {None}]]
    /\ \A p \in Publishers : \A slot \in 0..CacheSize - 1 : rtp_cache[p][slot] \in Numbers(p) \cup {None}
    /\ \A p \in Audios : \A slot \in 0..CacheSize - 1 : rtp_cache[p][slot] = None
    /\ \A p \in Videos : \A slot \in 0..CacheSize - 1 : Holds(rtp_cache[p][slot], arrived[p], slot)

QueueOK == queue \in Seq(Carried) /\ Len(queue) <= QueueSize

GotOK ==
    /\ got \in [Publishers -> SUBSET Nat]
    /\ \A p \in Publishers : got[p] \subseteq Numbers(p)
    /\ \A p \in Heard : Highest(p) \in Ahead(p)

WorkerOK ==
    /\ worker = [nacks |-> worker.nacks, answers |-> worker.answers, relay |-> worker.relay, compound |-> worker.compound]
    /\ worker.nacks \in Seq(Asks)
    /\ worker.answers \in Seq(RtxOf)
    /\ worker = AtRest \/ RelaysOf(worker.relay, worker.compound)

CountsOK == losses \in 0..MaxLosses /\ reports \in 0..MaxReports

IInv == ServerOK /\ QueueOK /\ GotOK /\ WorkerOK /\ CountsOK /\ RelayIsComplete /\ RembIsClose

LEMMA InitOK == Init => IInv
  <1> SUFFICES ASSUME Init PROVE IInv
    OBVIOUS
  <1>1. ServerOK
    <2>1. \A p \in Publishers : FirstPacket[p] \in Nat /\ FirstPacket[p] - 1 \in Int
      BY NumbersOf
    <2>2. Audios \subseteq Publishers /\ Videos \subseteq Publishers /\ \A p \in Audios : p \notin Videos
      BY RtxAssumption DEF Publishers
    <2>3. ASSUME NEW p \in Publishers
          PROVE  Earlier[p] \subseteq Nat /\ Earlier[p] \subseteq Numbers(p) /\ \A n \in Earlier[p] : n <= FirstPacket[p] - 1
      <3>1. Earlier[p] \subseteq Nat /\ \A n \in Earlier[p] : n < FirstPacket[p]
        BY RtxAssumption
      <3>2. \A n \in Earlier[p] : n <= FirstPacket[p] - 1
        BY <2>1, <3>1
      <3> QED
        BY <3>1, <3>2 DEF Numbers
    <2> DEFINE E(p, slot) == {n \in Earlier[p] : n % CacheSize = slot}
    <2>4. ASSUME NEW p \in Publishers, NEW slot \in 0..CacheSize - 1
          PROVE  Holds(LastOf(E(p, slot)), Earlier[p], slot)
                 /\ LastOf(E(p, slot)) \in Int \cup {None} /\ LastOf(E(p, slot)) \in Numbers(p) \cup {None}
      <3> DEFINE S == E(p, slot)
                 c == LastOf(S)
      <3>1. CASE S = {}
        <4>1. c = None
          BY <3>1 DEF LastOf
        <4>2. \A j \in Earlier[p] : j % CacheSize # slot
          BY <3>1
        <4> QED
          BY <4>1, <4>2 DEF Holds
      <3>2. CASE S # {}
        <4>1. S \subseteq Numbers(p)
          BY <2>3
        <4>2. \E n \in S : \A m \in S : m <= n
          BY <3>2, <4>1, HighestIs
        <4>3. c \in S /\ \A m \in S : m <= c
          BY <3>2, <4>2 DEF LastOf
        <4>4. c \in Earlier[p] /\ c % CacheSize = slot /\ \A j \in Earlier[p] : j % CacheSize = slot => j <= c
          BY <4>3
        <4>5. c \in Int /\ c # None /\ c \in Numbers(p)
          BY <2>3, <4>4, RtxAssumption
        <4> QED
          BY <4>4, <4>5 DEF Holds
      <3> QED
        BY <3>1, <3>2
    <2> HIDE DEF E
    <2>5. rtp_cache = [p \in Publishers |-> [slot \in 0..CacheSize - 1 |->
                          IF p \in Videos THEN LastOf(E(p, slot)) ELSE None]]
      BY DEF Init, E
    <2>6. published = {} /\ highest = [p \in Publishers |-> FirstPacket[p] - 1] /\ arrived = Earlier
          /\ Earlier \in [Publishers -> SUBSET Nat]
      BY RtxAssumption DEF Init
    <2>7. \A p \in Videos : \A slot \in 0..CacheSize - 1 : Holds(rtp_cache[p][slot], arrived[p], slot)
      BY <2>2, <2>4, <2>5, <2>6
    <2>8. /\ rtp_cache \in [Publishers -> [0..CacheSize - 1 -> Int \cup {None}]]
          /\ \A p \in Publishers : \A slot \in 0..CacheSize - 1 : rtp_cache[p][slot] \in Numbers(p) \cup {None}
          /\ \A p \in Audios : \A slot \in 0..CacheSize - 1 : rtp_cache[p][slot] = None
      BY <2>2, <2>4, <2>5
    <2>9. \A p \in Publishers : arrived[p] \subseteq Numbers(p) /\ \A n \in arrived[p] : n <= highest[p]
      BY <2>3, <2>6
    <2> QED
      BY <2>1, <2>6, <2>7, <2>8, <2>9 DEF ServerOK
  <1>2. QueueOK
    BY Sizes DEF Init, QueueOK
  <1>3. GotOK
    BY DEF Init, GotOK, Heard
  <1>4. WorkerOK
    BY DEF Init, WorkerOK, AtRest
  <1>5. CountsOK
    BY RtxAssumption DEF Init, CountsOK
  <1>6. RelayIsComplete /\ RembIsClose
    BY DEF Init, RelayIsComplete, RembIsClose
  <1> QED
    BY <1>1, <1>2, <1>3, <1>4, <1>5, <1>6 DEF IInv

\* A sequence of members of a set is one of a larger set.
LEMMA SeqOfMore ==
    ASSUME NEW S, NEW T, S \subseteq T
    PROVE  Seq(S) \subseteq Seq(T)
  <1> SUFFICES ASSUME NEW s \in Seq(S) PROVE s \in Seq(T)
    OBVIOUS
  <1>1. \A i \in 1..Len(s) : s[i] \in T
    OBVIOUS
  <1> QED
    BY <1>1

\* When the subscriber hears more, nothing is lost from these.
LEMMA MoreHeard ==
    ASSUME UNCHANGED highest, Heard \subseteq Heard', highest \in [Publishers -> Int],
           \A p \in Heard : Highest(p) \in Int /\ Highest(p)' \in Int /\ Highest(p) <= Highest(p)'
    PROVE  /\ Asks \subseteq Asks' /\ RtxOf \subseteq RtxOf' /\ Carried \subseteq Carried'
           /\ Seq(Asks) \subseteq Seq(Asks') /\ Seq(RtxOf) \subseteq Seq(RtxOf')
           /\ Seq(Carried) \subseteq Seq(Carried')
  <1>1. \A p \in Heard : Behind(p) \subseteq Behind(p)'
    <2> SUFFICES ASSUME NEW p \in Heard, NEW m \in Behind(p) PROVE m \in Behind(p)'
      OBVIOUS
    <2> DEFINE h == Highest(p)
               k == Highest(p)'
    <2>1. m \in Numbers(p) /\ m <= h /\ highest[p] - m < Half
      BY DEF Behind
    <2>2. m \in Nat
      BY <2>1, NumbersOf DEF Heard
    <2>3. h \in Int /\ k \in Int /\ h <= k
      OBVIOUS
    <2> HIDE DEF h, k
    <2>4. m <= k
      BY <2>1, <2>2, <2>3
    <2> QED
      BY <2>1, <2>4 DEF Behind, k
  <1>2. \A p \in Publishers : Ahead(p)' = Ahead(p)
    BY DEF Ahead
  <1>3. Asks \subseteq Asks'
    <2> SUFFICES ASSUME NEW x \in Asks PROVE x \in Asks'
      OBVIOUS
    <2>1. x \in [about : Heard, pid : Int, blp : SUBSET Int, missing : SUBSET Int]
          /\ x.missing \subseteq Behind(x.about) /\ IsItem(x, x.missing)
      BY DEF Asks
    <2>2. x \in [about : Heard', pid : Int, blp : SUBSET Int, missing : SUBSET Int] /\ x.about \in Heard
      BY <2>1
    <2>3. x.missing \subseteq Behind(x.about)'
      BY <1>1, <2>1, <2>2
    <2> QED
      BY <2>1, <2>2, <2>3 DEF Asks
  <1>4. RtxOf \subseteq RtxOf'
    <2> SUFFICES ASSUME NEW x \in RtxOf PROVE x \in RtxOf'
      OBVIOUS
    <2> DEFINE Right == \E m \in x.missing : x.seq = Seq16(m) /\ (x.n = m \/ m \in x.stale)
    <2>1. x \in [op : {"rtx"}, from : Heard, seq : Int, n : Int, missing : SUBSET Int, stale : SUBSET Int]
          /\ x.missing \subseteq Behind(x.from) /\ Right
      BY DEF RtxOf
    <2>2. x \in [op : {"rtx"}, from : Heard', seq : Int, n : Int, missing : SUBSET Int, stale : SUBSET Int]
          /\ x.from \in Heard
      BY <2>1
    <2>3. x.missing \subseteq Behind(x.from)'
      BY <1>1, <2>1, <2>2
    <2> QED
      BY <2>1, <2>2, <2>3 DEF RtxOf
  <1>5. Carried \subseteq Carried'
    <2>1. RtpOf' = RtpOf
      BY <1>2 DEF RtpOf
    <2>2. SrOf' = SrOf
      BY DEF SrOf
    <2> QED
      BY <1>4, <2>1, <2>2 DEF Carried
  <1> QED
    BY <1>3, <1>4, <1>5, SeqOfMore

\* A packet more keeps the queue in order.
LEMMA TrySendKeeps ==
    ASSUME queue \in Seq(Carried'), Len(queue) <= QueueSize, NEW x \in Carried', TrySend(x)
    PROVE  QueueOK'
  <1> DEFINE T == Carried'
  <1>1. queue \in Seq(T) /\ x \in T /\ Len(queue) <= QueueSize
    OBVIOUS
  <1> HIDE DEF T
  <1>2. Append(queue, x) \in Seq(T) /\ Len(Append(queue, x)) = Len(queue) + 1 /\ Len(queue) \in Nat
    BY <1>1
  <1>3. queue' \in Seq(T) /\ Len(queue') <= QueueSize
    BY <1>1, <1>2, Sizes DEF TrySend
  <1> QED
    BY <1>3 DEF QueueOK, T

\* What leaves the worker, the subscriber's packets and the results alone keeps them so.
LEMMA SameKeeps ==
    ASSUME IInv
    PROVE  /\ (UNCHANGED <<highest, got>> => GotOK' /\ Heard' = Heard /\ Carried' = Carried /\ Asks' = Asks /\ RtxOf' = RtxOf)
           /\ (UNCHANGED <<worker, got, highest>> => WorkerOK')
           /\ (UNCHANGED <<queue, got, highest>> => QueueOK')
           /\ (UNCHANGED server => ServerOK')
           /\ (UNCHANGED <<losses, reports>> => CountsOK')
           /\ (Quiet => RelayIsComplete' /\ RembIsClose')
  <1>1. ASSUME UNCHANGED <<highest, got>>
        PROVE  GotOK' /\ Heard' = Heard /\ Carried' = Carried /\ Asks' = Asks /\ RtxOf' = RtxOf
    <2>1. Heard' = Heard
      BY <1>1 DEF Heard
    <2>2. \A p : Highest(p)' = Highest(p)
      BY <1>1 DEF Highest
    <2>3. \A p : Ahead(p)' = Ahead(p) /\ Behind(p)' = Behind(p)
      BY <1>1, <2>2 DEF Ahead, Behind
    <2>4. Asks' = Asks
      BY <2>1, <2>3 DEF Asks
    <2>5. RtxOf' = RtxOf
      BY <2>1, <2>3 DEF RtxOf
    <2>6. Carried' = Carried
      BY <2>3, <2>5 DEF Carried, RtpOf, SrOf
    <2>7. GotOK'
      BY <1>1, <2>1, <2>2, <2>3 DEF IInv, GotOK
    <2> QED
      BY <2>1, <2>4, <2>5, <2>6, <2>7
  <1>2. UNCHANGED <<worker, got, highest>> => WorkerOK'
    BY <1>1 DEF IInv, WorkerOK
  <1>3. UNCHANGED <<queue, got, highest>> => QueueOK'
    BY <1>1 DEF IInv, QueueOK
  <1>4. UNCHANGED server => ServerOK'
    BY DEF IInv, ServerOK, server
  <1>5. UNCHANGED <<losses, reports>> => CountsOK'
    BY DEF IInv, CountsOK
  <1>6. Quiet => RelayIsComplete' /\ RembIsClose'
    BY DEF Quiet, RelayIsComplete, RembIsClose
  <1> QED
    BY <1>1, <1>2, <1>3, <1>4, <1>5, <1>6

LEMMA AddTrackKeeps ==
    ASSUME IInv, NEW p \in Publishers, AddTrack(p)
    PROVE  IInv'
  <1>1. ServerOK'
    BY DEF IInv, AddTrack, ServerOK
  <1>2. UNCHANGED <<highest, queue, worker, got, losses, reports>> /\ Quiet
    BY DEF AddTrack
  <1> QED
    BY <1>1, <1>2, SameKeeps DEF IInv

\* The last packet that fell into a slot is the one that is in it.
LEMMA StoreHolds ==
    ASSUME ServerOK, NEW p \in Publishers, NEW n \in Numbers(p), n + Overtaking >= highest[p],
           NEW slot \in 0..CacheSize - 1, Holds(rtp_cache[p][slot], arrived[p], slot)
    PROVE  Holds(IF n % CacheSize = slot THEN n ELSE rtp_cache[p][slot], arrived[p] \cup {n}, slot)
  <1> DEFINE A == arrived[p]
             c == rtp_cache[p][slot]
  <1>1. n \in Nat /\ n # None /\ highest[p] \in Int /\ Overtaking \in Nat /\ Overtaking < CacheSize /\ CacheSize \in Nat
    BY NumbersOf, RtxAssumption DEF ServerOK
  <1>2. A \subseteq Nat /\ \A j \in A : j <= highest[p]
    BY DEF ServerOK
  <1>3. CASE n % CacheSize = slot
    <2>1. ASSUME NEW j \in A \cup {n}, j % CacheSize = slot PROVE j <= n
      <3>1. CASE j \in A /\ j > n
        <4>1. j - n >= CacheSize
          BY <1>1, <1>2, <1>3, <2>1, <3>1, SlotAfter
        <4> QED
          BY <1>1, <1>2, <3>1, <4>1
      <3> QED
        BY <1>1, <1>2, <3>1
    <2> QED
      BY <1>1, <1>3, <2>1 DEF Holds
  <1>4. CASE n % CacheSize # slot
    BY <1>4 DEF Holds
  <1> QED
    BY <1>3, <1>4

LEMMA ArrivalKeeps ==
    ASSUME IInv, NEW p \in Publishers, NEW n \in Numbers(p), Rtp(p, n)
    PROVE  ServerOK'
  <1>1. /\ n + Overtaking >= highest[p] /\ n \in Nat
        /\ published' = published /\ highest' = [highest EXCEPT ![p] = IF n > @ THEN n ELSE @]
        /\ arrived' = [arrived EXCEPT ![p] = @ \cup {n}]
        /\ rtp_cache' = IF p \in Videos THEN CacheStore(p, n) ELSE rtp_cache
    BY NumbersOf DEF Rtp
  <1>2. ServerOK
    BY DEF IInv
  <1>3. /\ highest' \in [Publishers -> Int]
        /\ \A q \in Publishers : highest'[q] \in Numbers(q) \cup {FirstPacket[q] - 1}
        /\ \A q \in Publishers : q # p => highest'[q] = highest[q]
        /\ highest'[p] >= n /\ highest'[p] >= highest[p]
    BY <1>1, <1>2 DEF ServerOK
  <1>4. /\ arrived' \in [Publishers -> SUBSET Nat]
        /\ arrived'[p] = arrived[p] \cup {n}
        /\ \A q \in Publishers : q # p => arrived'[q] = arrived[q]
    BY <1>1, <1>2 DEF ServerOK
  <1>5. ASSUME NEW q \in Publishers
        PROVE  arrived'[q] \subseteq Numbers(q) /\ \A m \in arrived'[q] : m <= highest'[q]
    <2>1. arrived[q] \subseteq Numbers(q) /\ arrived[q] \subseteq Nat
          /\ highest[q] \in Int /\ highest'[q] \in Int /\ \A m \in arrived[q] : m <= highest[q]
      BY <1>2, <1>3 DEF ServerOK
    <2>2. CASE q = p
      <3>1. \A m \in arrived[q] : m <= highest'[q]
        BY <1>3, <2>1, <2>2
      <3> QED
        BY <1>1, <1>3, <1>4, <2>1, <2>2, <3>1
    <2>3. CASE q # p
      BY <1>3, <1>4, <2>1, <2>3
    <2> QED
      BY <2>2, <2>3
  <1> DEFINE s == Seq16(n) % CacheSize
             old == rtp_cache[p]
             ring == [old EXCEPT ![s] = n]
  <1>6. s = n % CacheSize /\ s \in 0..CacheSize - 1
    BY <1>1, SlotIs
  <1>7. CacheStore(p, n) = [rtp_cache EXCEPT ![p] = ring]
    BY DEF CacheStore
  <1> HIDE DEF s
  <1>8. old \in [0..CacheSize - 1 -> Int \cup {None}]
        /\ \A slot \in 0..CacheSize - 1 : old[slot] \in Numbers(p) \cup {None}
    BY <1>2 DEF ServerOK
  <1>9. p \in Videos => \A slot \in 0..CacheSize - 1 :
                          ring[slot] = IF n % CacheSize = slot THEN n ELSE rtp_cache[p][slot]
    BY <1>6, <1>8
  <1>10. p \in Videos => \A slot \in 0..CacheSize - 1 : Holds(ring[slot], arrived[p] \cup {n}, slot)
    <2> SUFFICES ASSUME p \in Videos, NEW slot \in 0..CacheSize - 1
                 PROVE  Holds(ring[slot], arrived[p] \cup {n}, slot)
      OBVIOUS
    <2>1. Holds(rtp_cache[p][slot], arrived[p], slot)
      BY <1>2 DEF ServerOK
    <2>2. Holds(IF n % CacheSize = slot THEN n ELSE rtp_cache[p][slot], arrived[p] \cup {n}, slot)
      BY <1>1, <1>2, <2>1, StoreHolds
    <2> QED
      BY <1>9, <2>2
  <1> HIDE DEF old
  <1>11. ring \in [0..CacheSize - 1 -> Int \cup {None}]
         /\ \A slot \in 0..CacheSize - 1 : ring[slot] \in Numbers(p) \cup {None}
    BY <1>1, <1>6, <1>8
  <1> HIDE DEF ring
  <1>12. /\ rtp_cache' \in [Publishers -> [0..CacheSize - 1 -> Int \cup {None}]]
         /\ \A q \in Publishers : \A slot \in 0..CacheSize - 1 : rtp_cache'[q][slot] \in Numbers(q) \cup {None}
         /\ \A q \in Publishers : q # p \/ p \notin Videos => rtp_cache'[q] = rtp_cache[q]
         /\ p \in Videos => rtp_cache'[p] = ring
    <2>1. CASE p \in Videos
      BY <1>1, <1>2, <1>7, <1>11, <2>1 DEF ServerOK
    <2>2. CASE p \notin Videos
      BY <1>1, <1>2, <2>2 DEF ServerOK
    <2> QED
      BY <2>1, <2>2
  <1>13. \A q \in Audios : rtp_cache'[q] = rtp_cache[q]
    <2> TAKE q \in Audios
    <2>1. q \in Publishers /\ q \notin Videos
      BY RtxAssumption DEF Publishers
    <2> QED
      BY <1>12, <2>1
  <1>14. \A q \in Videos : \A slot \in 0..CacheSize - 1 : Holds(rtp_cache'[q][slot], arrived'[q], slot)
    <2> TAKE q \in Videos
    <2>0. q \in Publishers
      BY DEF Publishers
    <2>1. CASE q = p
      BY <1>4, <1>10, <1>12, <2>0, <2>1
    <2>2. CASE q # p
      BY <1>2, <1>4, <1>12, <2>0, <2>2 DEF ServerOK
    <2> QED
      BY <2>1, <2>2
  <1>15. \A q \in Audios : \A slot \in 0..CacheSize - 1 : rtp_cache'[q][slot] = None
    BY <1>2, <1>13 DEF ServerOK
  <1>16. published' \subseteq Publishers
    BY <1>1, <1>2 DEF ServerOK
  <1> QED
    BY <1>3, <1>4, <1>5, <1>12, <1>14, <1>15, <1>16 DEF ServerOK

\* A packet that is in time leaves no other too far behind.
LEMMA ArrivalInTime ==
    ASSUME IInv, NEW p \in Publishers, NEW n \in Numbers(p), Rtp(p, n)
    PROVE  /\ \A q \in Publishers : \A k \in Ahead(q) : (q = p => k \in Sent(p)) => k \in Ahead(q)'
           /\ \A q \in Heard : \A m \in Behind(q) : (q = p => m \in AskedFor(p)) => m \in Behind(q)'
           /\ n \in Ahead(p)'
  <1>1. /\ n + Overtaking >= highest[p] /\ n \in Nat /\ InTime(p, n) /\ got' = got
        /\ highest' = [highest EXCEPT ![p] = IF n > @ THEN n ELSE @]
    BY NumbersOf DEF Rtp
  <1>2. highest \in [Publishers -> Int]
    BY DEF IInv, ServerOK
  <1>3. /\ highest'[p] = IF n > highest[p] THEN n ELSE highest[p]
        /\ \A q \in Publishers : q # p => highest'[q] = highest[q]
    BY <1>1, <1>2
  <1>4. Half \in Nat /\ Window \in Nat /\ Overtaking \in Nat /\ Overtaking + Window < Half
    BY NumbersOf, RtxAssumption DEF Half
  <1>5. ASSUME NEW q \in Publishers, NEW k \in Ahead(q), q = p => k \in Sent(p) PROVE k \in Ahead(q)'
    <2>1. k \in Numbers(q) /\ k \in Nat /\ k <= highest[q] /\ highest[q] - k + Window < Half /\ highest[q] \in Int
      BY <1>2, NumbersOf DEF Ahead
    <2>2. CASE q = p
      <3>1. n - k + Window < Half
        BY <1>1, <1>5, <2>2 DEF InTime, Half
      <3>2. k <= highest'[q] /\ highest'[q] - k + Window < Half
        BY <1>1, <1>3, <1>4, <2>1, <2>2, <3>1
      <3> QED
        BY <2>1, <3>2 DEF Ahead
    <2>3. CASE q # p
      BY <1>3, <2>1, <2>3 DEF Ahead
    <2> QED
      BY <2>2, <2>3
  <1>6. ASSUME NEW q \in Heard, NEW m \in Behind(q), q = p => m \in AskedFor(p) PROVE m \in Behind(q)'
    <2>1. m \in Numbers(q) /\ m \in Nat /\ m <= Highest(q) /\ highest[q] - m < Half /\ highest[q] \in Int /\ q \in Publishers
      BY <1>2, NumbersOf DEF Behind, Heard
    <2>2. Highest(q)' = Highest(q)
      BY <1>1 DEF Highest
    <2>3. CASE q = p
      <3>1. n - m < Half
        BY <1>1, <1>6, <2>3 DEF InTime, Half
      <3>2. highest'[q] - m < Half
        BY <1>1, <1>3, <1>4, <2>1, <2>3, <3>1
      <3> QED
        BY <2>1, <2>2, <3>2 DEF Behind
    <2>4. CASE q # p
      BY <1>3, <2>1, <2>2, <2>4 DEF Behind
    <2> QED
      BY <2>3, <2>4
  <1>7. n \in Ahead(p)'
    <2>1. highest[p] \in Int
      BY <1>2
    <2>2. n <= highest'[p] /\ highest'[p] - n + Window < Half
      BY <1>1, <1>3, <1>4, <2>1
    <2> QED
      BY <2>2 DEF Ahead
  <1> QED
    BY <1>5, <1>6, <1>7

\* So what is on its way, and what is asked for, stays in order.
LEMMA ArrivalLeaves ==
    ASSUME IInv, NEW p \in Publishers, NEW n \in Numbers(p), Rtp(p, n)
    PROVE  /\ queue \in Seq(Carried') /\ worker.nacks \in Seq(Asks') /\ worker.answers \in Seq(RtxOf')
           /\ GotOK'
  <1> DEFINE a == worker.answers
             b == worker.nacks
             C == Carried
             R == RtxOf
             A == Asks
  <1>0. got' = got /\ Heard' = Heard
    BY DEF Rtp, Heard
  <1>1. queue \in Seq(C) /\ a \in Seq(R) /\ b \in Seq(A)
    BY DEF IInv, QueueOK, WorkerOK
  <1> HIDE DEF a, b, C, R, A
  <1>2. /\ \A i \in 1..Len(queue) : queue[i] \in C /\ queue[i] \in Range(queue) /\ queue[i] \in Range(a \o queue)
        /\ \A i \in 1..Len(a) : a[i] \in R /\ a[i] \in Range(a \o queue)
        /\ \A i \in 1..Len(b) : b[i] \in A /\ b[i] \in Range(b)
    <2>1. Len(a) \in Nat /\ Len(queue) \in Nat /\ DOMAIN queue = 1..Len(queue) /\ DOMAIN b = 1..Len(b)
      BY <1>1
    <2>2. \A i \in 1..Len(queue) : Len(a) + i \in DOMAIN (a \o queue) /\ (a \o queue)[Len(a) + i] = queue[i]
      BY <1>1, <2>1
    <2>3. \A i \in 1..Len(a) : i \in DOMAIN (a \o queue) /\ (a \o queue)[i] = a[i]
      BY <1>1, <2>1
    <2>4. \A i \in 1..Len(queue) : queue[i] \in Range(a \o queue)
      BY <2>2 DEF Range
    <2>5. \A i \in 1..Len(a) : a[i] \in Range(a \o queue)
      BY <2>3 DEF Range
    <2> QED
      BY <1>1, <2>1, <2>4, <2>5 DEF Range
  <1>3. ASSUME NEW x \in R, x \in Range(a \o queue) PROVE x \in RtxOf'
    <2> DEFINE Right == \E m \in x.missing : x.seq = Seq16(m) /\ (x.n = m \/ m \in x.stale)
    <2>1. x \in [op : {"rtx"}, from : Heard, seq : Int, n : Int, missing : SUBSET Int, stale : SUBSET Int]
          /\ x.missing \subseteq Behind(x.from) /\ Right
      BY DEF RtxOf, R
    <2>2. x.op = "rtx" /\ x.from \in Heard
      BY <2>1
    <2>3. x.from = p => x.missing \subseteq AskedFor(p)
      BY <1>3, <2>2 DEF AskedFor, a
    <2>4. x.missing \subseteq Behind(x.from)'
      <3> SUFFICES ASSUME NEW m \in x.missing PROVE m \in Behind(x.from)'
        OBVIOUS
      <3>1. m \in Behind(x.from) /\ (x.from = p => m \in AskedFor(p))
        BY <2>1, <2>3
      <3> QED
        BY <2>2, <3>1, ArrivalInTime
    <2> QED
      BY <1>0, <2>1, <2>4 DEF RtxOf
  <1>4. ASSUME NEW x \in A, x \in Range(b) PROVE x \in Asks'
    <2>1. x \in [about : Heard, pid : Int, blp : SUBSET Int, missing : SUBSET Int]
          /\ x.missing \subseteq Behind(x.about) /\ IsItem(x, x.missing)
      BY DEF Asks, A
    <2>2. x.about \in Heard
      BY <2>1
    <2>3. x.about = p => x.missing \subseteq AskedFor(p)
      BY <1>4 DEF AskedFor, b
    <2>4. x.missing \subseteq Behind(x.about)'
      <3> SUFFICES ASSUME NEW m \in x.missing PROVE m \in Behind(x.about)'
        OBVIOUS
      <3>1. m \in Behind(x.about) /\ (x.about = p => m \in AskedFor(p))
        BY <2>1, <2>3
      <3> QED
        BY <2>2, <3>1, ArrivalInTime
    <2> QED
      BY <1>0, <2>1, <2>4 DEF Asks
  <1>5. ASSUME NEW x \in C, x \in Range(queue), x \in Range(a \o queue) PROVE x \in Carried'
    <2>1. CASE x \in RtpOf
      <3>1. x \in [op : {"rtp"}, from : Publishers, seq : Int, n : Int] /\ x.n \in Ahead(x.from)
        BY <2>1 DEF RtpOf
      <3>2. x.op = "rtp" /\ x.from \in Publishers
        BY <3>1
      <3>3. x.from = p => x.n \in Sent(p)
        BY <1>5, <3>2 DEF Sent
      <3>4. x.n \in Ahead(x.from)'
        BY <3>1, <3>2, <3>3, ArrivalInTime
      <3> QED
        BY <3>1, <3>4 DEF Carried, RtpOf
    <2>2. CASE x \in SrOf
      BY <2>2 DEF Carried, SrOf
    <2>3. CASE x \in RtxOf
      BY <1>3, <1>5, <2>3 DEF Carried, R
    <2> QED
      BY <2>1, <2>2, <2>3 DEF Carried, C
  <1>6. queue \in Seq(Carried')
    <2>1. \A i \in 1..Len(queue) : queue[i] \in Carried'
      BY <1>2, <1>5
    <2> DEFINE T == Carried'
    <2> HIDE DEF T
    <2> QED
      BY <1>1, <2>1 DEF T
  <1>7. a \in Seq(RtxOf')
    <2>1. \A i \in 1..Len(a) : a[i] \in RtxOf'
      BY <1>2, <1>3
    <2> DEFINE T == RtxOf'
    <2> HIDE DEF T
    <2> QED
      BY <1>1, <2>1 DEF T
  <1>8. b \in Seq(Asks')
    <2>1. \A i \in 1..Len(b) : b[i] \in Asks'
      BY <1>2, <1>4
    <2> DEFINE T == Asks'
    <2> HIDE DEF T
    <2> QED
      BY <1>1, <2>1 DEF T
  <1>9. GotOK'
    <2>1. GotOK
      BY DEF IInv
    <2>2. ASSUME NEW q \in Heard PROVE Highest(q)' \in Ahead(q)'
      <3>1. Highest(q)' = Highest(q) /\ Highest(q) \in Ahead(q) /\ q \in Publishers /\ got[q] # {}
        BY <1>0, <2>1 DEF Highest, GotOK, Heard
      <3>2. q = p => Highest(q) \in Sent(p)
        BY <3>1 DEF Sent
      <3> QED
        BY <3>1, <3>2, ArrivalInTime
    <2> QED
      BY <1>0, <2>1, <2>2 DEF GotOK
  <1> QED
    BY <1>6, <1>7, <1>8, <1>9 DEF a, b

LEMMA RtpKeeps ==
    ASSUME IInv, NEW p \in Publishers, NEW n \in Numbers(p), Rtp(p, n)
    PROVE  IInv'
  <1>1. /\ n \in Nat /\ highest[p] \in Int /\ losses' <= MaxLosses
        /\ losses' = losses + (IF n > highest[p] THEN n - highest[p] - 1 ELSE 0)
    BY NumbersOf DEF IInv, ServerOK, Rtp
  <1>2. CountsOK'
    <2>1. losses \in Nat /\ MaxLosses \in Nat /\ reports' = reports /\ reports \in 0..MaxReports
      BY RtxAssumption DEF IInv, CountsOK, Rtp
    <2>2. losses' \in 0..MaxLosses
      BY <1>1, <2>1
    <2> QED
      BY <2>1, <2>2 DEF CountsOK
  <1>3. ServerOK' /\ GotOK'
    BY ArrivalKeeps, ArrivalLeaves
  <1>4. worker' = worker /\ Quiet
    BY DEF Rtp
  <1>5. WorkerOK'
    <2>1. worker.nacks \in Seq(Asks') /\ worker.answers \in Seq(RtxOf')
      BY ArrivalLeaves
    <2> QED
      BY <1>4, <2>1 DEF IInv, WorkerOK
  <1>6. QueueOK'
    <2> DEFINE x == [op |-> "rtp", from |-> p, seq |-> Seq16(n), n |-> n]
    <2>1. Seq16(n) \in Int
      BY <1>1, SlotIs
    <2>2. n \in Ahead(p)'
      BY ArrivalInTime
    <2>3. x \in Carried'
      BY <1>1, <2>1, <2>2 DEF Carried, RtpOf
    <2>4. TrySend(x) /\ Len(queue) <= QueueSize /\ queue \in Seq(Carried')
      BY ArrivalLeaves DEF Rtp, IInv, QueueOK
    <2> HIDE DEF x
    <2> QED
      BY <2>3, <2>4, TrySendKeeps
  <1>7. RelayIsComplete' /\ RembIsClose'
    BY <1>4, SameKeeps
  <1> QED
    BY <1>2, <1>3, <1>5, <1>6, <1>7 DEF IInv

LEMMA SenderReportKeeps ==
    ASSUME IInv, NEW p \in Publishers, SenderReport(p)
    PROVE  IInv'
  <1>1. UNCHANGED <<server, highest, worker, got, losses>> /\ Quiet
        /\ reports < MaxReports /\ reports' = reports + 1
    BY DEF SenderReport, server
  <1>2. CountsOK'
    BY <1>1, RtxAssumption DEF IInv, CountsOK
  <1>3. QueueOK'
    <2> DEFINE x == [op |-> "sr", from |-> p, seq |-> 0, n |-> 0]
    <2>1. x \in Carried
      BY DEF Carried, SrOf
    <2>2. TrySend(x) /\ QueueOK /\ Carried' = Carried
      BY <1>1, SameKeeps DEF SenderReport, IInv
    <2> HIDE DEF x
    <2> QED
      BY <2>1, <2>2, TrySendKeeps DEF QueueOK
  <1> QED
    BY <1>1, <1>2, <1>3, SameKeeps DEF IInv

\* What more the subscriber has of one track leaves the rest in order.
LEMMA HearingKeeps ==
    ASSUME IInv, UNCHANGED <<server, worker, losses, reports>>, Quiet, GotOK', Heard \subseteq Heard',
           \A p \in Heard : Highest(p) \in Int /\ Highest(p)' \in Int /\ Highest(p) <= Highest(p)',
           queue # <<>>, queue' = Tail(queue)
    PROVE  IInv'
  <1>0. /\ Seq(Asks) \subseteq Seq(Asks') /\ Seq(RtxOf) \subseteq Seq(RtxOf')
        /\ Seq(Carried) \subseteq Seq(Carried')
    <2>1. UNCHANGED highest /\ highest \in [Publishers -> Int]
      BY DEF server, IInv, ServerOK
    <2> QED
      BY <2>1, MoreHeard
  <1>1. QueueOK'
    <2> DEFINE T == Carried
    <2>1. queue \in Seq(T) /\ Len(queue) <= QueueSize
      BY DEF IInv, QueueOK
    <2> HIDE DEF T
    <2>2. Tail(queue) \in Seq(T) /\ Len(Tail(queue)) <= QueueSize
      BY <2>1, Sizes
    <2>3. Seq(T) \subseteq Seq(Carried')
      BY <1>0 DEF T
    <2> QED
      BY <2>2, <2>3 DEF QueueOK
  <1>2. WorkerOK'
    BY <1>0 DEF IInv, WorkerOK
  <1> QED
    BY <1>1, <1>2, SameKeeps DEF IInv

\* A packet that the subscriber gets: one that was sent, or an older one it has asked for.
LEMMA GotMore ==
    ASSUME GotOK, highest' = highest, highest \in [Publishers -> Int],
           NEW p \in Publishers, NEW n \in Numbers(p),
           n \in Ahead(p) \/ (p \in Heard /\ n <= Highest(p)),
           got' = [got EXCEPT ![p] = Kept(@ \cup {n})]
    PROVE  /\ GotOK' /\ Heard \subseteq Heard'
           /\ \A q \in Heard : Highest(q) \in Int /\ Highest(q)' \in Int /\ Highest(q) <= Highest(q)'
  <1> DEFINE S == got[p] \cup {n}
             K == Kept(S)
  <1>1. S \subseteq Numbers(p) /\ S # {} /\ Numbers(p) \subseteq Nat /\ n \in S /\ got[p] \subseteq S
    BY NumbersOf DEF GotOK
  <1>2. PICK b \in S : \A m \in S : m <= b
    BY <1>1, HighestIs
  <1>3. K \subseteq S /\ b \in K
    <2> HIDE DEF S
    <2> QED
      BY <1>1, <1>2, KeptIs
  <1>4. got' = [got EXCEPT ![p] = K] /\ got \in [Publishers -> SUBSET Nat]
    BY DEF GotOK
  <1>5. \A q \in Heard : Highest(q) \in got[q] /\ Highest(q) \in Nat /\ Highest(q) \in Ahead(q)
    <2> TAKE q \in Heard
    <2>1. q \in Publishers /\ got[q] # {} /\ got[q] \subseteq Numbers(q) /\ Highest(q) \in Ahead(q)
      BY DEF Heard, GotOK
    <2> QED
      BY <2>1, HighestOf, NumbersOf
  <1> HIDE DEF K
  <1>6. got'[p] = K /\ \A q \in Publishers : q # p => got'[q] = got[q]
    BY <1>4
  <1>7. Highest(p)' = b
    <2>1. \A m \in K : m <= b
      BY <1>2, <1>3
    <2>2. \A c \in K : (\A m \in K : m <= c) => c = b
      <3> SUFFICES ASSUME NEW c \in K, \A m \in K : m <= c PROVE c = b
        OBVIOUS
      <3>1. b <= c /\ c <= b /\ b \in Nat /\ c \in Nat
        BY <1>1, <1>3, <2>1
      <3> QED
        BY <3>1
    <2>3. Highest(p)' = CHOOSE c \in K : \A m \in K : m <= c
      BY <1>6 DEF Highest
    <2> QED
      BY <1>3, <2>1, <2>2, <2>3
  <1>8. \A q : q # p /\ q \in Publishers => Highest(q)' = Highest(q)
    BY <1>6 DEF Highest
  <1>9. p \in Heard => Highest(p) <= b
    BY <1>1, <1>2, <1>5
  <1>10. b \in Ahead(p)
    <2>1. CASE b = n
      <3>1. CASE n \in Ahead(p)
        BY <2>1, <3>1
      <3>2. CASE p \in Heard /\ n <= Highest(p)
        <4>1. b = Highest(p)
          BY <1>1, <1>5, <1>9, <2>1, <3>2
        <4> QED
          BY <1>5, <3>2, <4>1
      <3> QED
        BY <3>1, <3>2
    <2>2. CASE b \in got[p]
      <3>1. p \in Heard
        BY <2>2 DEF Heard
      <3>2. b <= Highest(p)
        BY <2>2, <3>1, HighestOf DEF GotOK, Heard
      <3>3. b = Highest(p)
        BY <1>1, <1>5, <1>9, <3>1, <3>2
      <3> QED
        BY <1>5, <3>1, <3>3
    <2> QED
      BY <2>1, <2>2
  <1>11. \A q \in Publishers : Ahead(q)' = Ahead(q)
    BY DEF Ahead
  <1>12. Heard \subseteq Heard' /\ \A q \in Heard' : q \in Publishers /\ (q # p => q \in Heard)
    BY <1>3, <1>6 DEF Heard
  <1>13. K \subseteq Numbers(p) /\ K \in SUBSET Nat
    BY <1>1, <1>3
  <1>14. GotOK'
    <2>1. got' \in [Publishers -> SUBSET Nat]
      BY <1>4, <1>13
    <2>2. \A q \in Publishers : got'[q] \subseteq Numbers(q)
      BY <1>6, <1>13 DEF GotOK
    <2>3. \A q \in Heard' : Highest(q)' \in Ahead(q)'
      BY <1>5, <1>7, <1>8, <1>10, <1>11, <1>12
    <2> QED
      BY <2>1, <2>2, <2>3 DEF GotOK
  <1>15. \A q \in Heard : Highest(q) \in Int /\ Highest(q)' \in Int /\ Highest(q) <= Highest(q)'
    <2> TAKE q \in Heard
    <2>1. q \in Publishers /\ Highest(q) \in Nat
      BY <1>5 DEF Heard
    <2>2. CASE q = p
      <3>1. b \in Nat
        BY <1>1
      <3> QED
        BY <1>7, <1>9, <2>1, <2>2, <3>1
    <2>3. CASE q # p
      <3>1. Highest(q)' = Highest(q)
        BY <1>8, <2>1, <2>3
      <3> QED
        BY <2>1, <3>1
    <2> QED
      BY <2>2, <2>3
  <1> QED
    BY <1>12, <1>14, <1>15

\* What the subscriber takes the number of an RTX packet for.
LEMMA AskedIs ==
    ASSUME ServerOK, GotOK, NEW x \in RtxOf
    PROVE  \E m \in x.missing : /\ Unwrap(x.from, x.seq) = m /\ m \in Behind(x.from)
                                /\ x.n = m \/ m \in x.stale
  <1> DEFINE p == x.from
  <1>1. p \in Heard /\ x.missing \subseteq Behind(p)
    BY DEF RtxOf
  <1>2. PICK m \in x.missing : x.seq = Seq16(m) /\ (x.n = m \/ m \in x.stale)
    BY DEF RtxOf
  <1> HIDE DEF p
  <1>3. p \in Publishers /\ got[p] # {} /\ got[p] \subseteq Numbers(p) /\ Highest(p) \in Ahead(p)
    BY <1>1 DEF Heard, GotOK
  <1>4. m \in Behind(p)
    BY <1>1
  <1>5. /\ m \in Nat /\ Highest(p) \in Nat /\ highest[p] \in Int
        /\ m <= Highest(p) /\ Highest(p) <= highest[p] /\ highest[p] - m < Half
    <2>1. m \in Numbers(p) /\ m <= Highest(p) /\ highest[p] - m < Half
      BY <1>4 DEF Behind
    <2>2. Highest(p) \in Numbers(p) /\ Highest(p) <= highest[p]
      BY <1>3 DEF Ahead
    <2>3. highest[p] \in Int
      BY <1>3 DEF ServerOK
    <2> QED
      BY <1>3, <2>1, <2>2, <2>3, NumbersOf
  <1>6. Highest(p) - m < Half /\ m - Highest(p) < Half
    <2> DEFINE h == Highest(p)
    <2>1. h \in Nat /\ m \in Nat /\ m <= h /\ h <= highest[p] /\ highest[p] - m < Half /\ highest[p] \in Int
      BY <1>5
    <2> HIDE DEF h
    <2>2. Half \in Nat
      BY <1>3, NumbersOf
    <2>3. h - m < Half /\ m - h < Half
      BY <2>1, <2>2
    <2> QED
      BY <2>3 DEF h
  <1>7. Unwrap(p, Seq16(m)) = m
    BY <1>3, <1>5, <1>6, UnwrapIs
  <1> QED
    BY <1>2, <1>4, <1>7 DEF p

LEMMA DeliverKeeps ==
    ASSUME IInv, Deliver
    PROVE  IInv'
  <1> DEFINE x == Head(queue)
             p == x.from
  <1>1. /\ UNCHANGED <<server, highest, worker, losses, reports>> /\ Quiet
        /\ queue # <<>> /\ queue' = Tail(queue)
        /\ got' = CASE x.op = "rtp" -> [got EXCEPT ![x.from] = Kept(@ \cup {x.n})]
                    [] x.op = "rtx" -> [got EXCEPT ![x.from] = Kept(@ \cup {Unwrap(x.from, x.seq)})]
                    [] OTHER -> got
    BY DEF Deliver, server
  <1>2. x \in Carried
    <2> DEFINE T == Carried
    <2>1. queue \in Seq(T)
      BY DEF IInv, QueueOK
    <2> HIDE DEF T
    <2>2. Head(queue) \in T
      BY <1>1, <2>1
    <2> QED
      BY <2>2 DEF T
  <1>3. GotOK /\ ServerOK /\ highest \in [Publishers -> Int]
    BY DEF IInv, ServerOK
  <1> HIDE DEF x
  <1> DEFINE More ==
        /\ GotOK' /\ Heard \subseteq Heard'
        /\ \A q \in Heard : Highest(q) \in Int /\ Highest(q)' \in Int /\ Highest(q) <= Highest(q)'
  <1>4. More
    <2>1. CASE x \in RtpOf
      <3>1. x.op = "rtp" /\ p \in Publishers /\ x.n \in Ahead(p)
        BY <2>1 DEF RtpOf
      <3>2. got' = [got EXCEPT ![p] = Kept(@ \cup {x.n})] /\ x.n \in Numbers(p)
        BY <1>1, <3>1 DEF Ahead
      <3> QED
        BY <1>1, <1>3, <3>1, <3>2, GotMore
    <2>2. CASE x \in RtxOf
      <3>1. x.op = "rtx" /\ p \in Heard /\ p \in Publishers
        BY <2>2 DEF RtxOf, Heard
      <3>2. PICK m \in x.missing : Unwrap(p, x.seq) = m /\ m \in Behind(p)
        BY <1>3, <2>2, AskedIs
      <3>3. m \in Numbers(p) /\ m <= Highest(p)
        BY <3>2 DEF Behind
      <3>4. got' = [got EXCEPT ![p] = Kept(@ \cup {m})]
        BY <1>1, <3>1, <3>2
      <3> QED
        BY <1>1, <1>3, <3>1, <3>3, <3>4, GotMore
    <2>3. CASE x \in SrOf
      <3>1. x.op = "sr"
        BY <2>3 DEF SrOf
      <3>2. got' = got
        BY <1>1, <3>1
      <3>3. GotOK' /\ Heard' = Heard
        BY <1>1, <3>2, SameKeeps
      <3>4. ASSUME NEW q \in Heard
            PROVE  Highest(q) \in Int /\ Highest(q)' \in Int /\ Highest(q) <= Highest(q)'
        <4>1. Highest(q)' = Highest(q)
          BY <3>2 DEF Highest
        <4>2. Highest(q) \in Nat
          BY <1>3, HighestOf, NumbersOf DEF GotOK, Heard
        <4> QED
          BY <4>1, <4>2
      <3> QED
        BY <3>3, <3>4
    <2> QED
      BY <1>2, <2>1, <2>2, <2>3 DEF Carried
  <1> QED
    BY <1>1, <1>4, HearingKeeps

LEMMA LoseKeeps ==
    ASSUME IInv, Lose
    PROVE  IInv'
  <1>1. UNCHANGED <<server, highest, worker, got, reports>> /\ Quiet /\ queue # <<>> /\ queue' = Tail(queue)
        /\ losses < MaxLosses /\ losses' = losses + 1
    BY DEF Lose, server
  <1>2. CountsOK'
    BY <1>1, RtxAssumption DEF IInv, CountsOK
  <1>3. QueueOK'
    <2> DEFINE T == Carried
    <2>1. queue \in Seq(T) /\ Len(queue) <= QueueSize
      BY DEF IInv, QueueOK
    <2> HIDE DEF T
    <2>2. Tail(queue) \in Seq(T) /\ Len(Tail(queue)) <= QueueSize
      BY <1>1, <2>1, Sizes
    <2>3. Carried' = Carried
      BY <1>1, SameKeeps
    <2> QED
      BY <1>1, <2>2, <2>3 DEF QueueOK, T
  <1> QED
    BY <1>1, <1>2, <1>3, SameKeeps DEF IInv

\* The subscriber asks for what it misses of a track.
LEMMA AskedAre ==
    ASSUME IInv, NEW p \in Publishers, Missing(p) # {}
    PROVE  AskedItems(p) \subseteq Asks
  <1>1. /\ Missing(p) \subseteq Numbers(p) /\ Missing(p) \subseteq Nat /\ got[p] # {}
        /\ \A m \in Missing(p) : m <= Highest(p) /\ Highest(p) - m <= Window
    BY MissingIs DEF IInv, GotOK
  <1>2. p \in Heard
    BY <1>1 DEF Heard
  <1>3. Missing(p) \subseteq Behind(p)
    <2> DEFINE h == Highest(p)
    <2>1. h \in Ahead(p)
      BY <1>2 DEF IInv, GotOK
    <2>2. h \in Nat /\ h <= highest[p] /\ highest[p] - h + Window < Half /\ highest[p] \in Int
      BY <2>1, NumbersOf DEF Ahead, IInv, ServerOK
    <2>3. \A m \in Missing(p) : m <= h /\ h - m <= Window
      BY <1>1
    <2> HIDE DEF h
    <2>4. ASSUME NEW m \in Missing(p) PROVE m <= h /\ highest[p] - m < Half
      <3>1. m \in Nat /\ m <= h /\ h - m <= Window
        BY <1>1, <2>3
      <3>2. Half \in Nat /\ Window \in Nat
        BY NumbersOf, Sizes
      <3> QED
        BY <2>2, <3>1, <3>2
    <2> QED
      BY <1>1, <2>4 DEF Behind, h
  <1> SUFFICES ASSUME NEW x \in AskedItems(p) PROVE x \in Asks
    OBVIOUS
  <1>4. x \in [about : {p}, pid : Int, blp : SUBSET Int, missing : {Missing(p)}] /\ IsItem(x, Missing(p))
    BY DEF AskedItems
  <1>5. x \in [about : Heard, pid : Int, blp : SUBSET Int, missing : SUBSET Int]
    BY <1>1, <1>2, <1>4
  <1>6. x.missing = Missing(p) /\ x.about = p
    BY <1>4
  <1> QED
    BY <1>3, <1>4, <1>5, <1>6 DEF Asks

LEMMA RtcpKeeps ==
    ASSUME IInv, NEW compound \in Compounds, Rtcp(compound)
    PROVE  IInv'
  <1> DEFINE words == FlattenSeq([i \in DOMAIN compound |-> Block(compound[i])])
             blocks == SplitCompound(words)
             n == Len(compound)
             parts == [i \in DOMAIN blocks |-> IF blocks[i].op = "nack" THEN NackItems(blocks[i]) ELSE <<>>]
             relay == Only(blocks, {b \in Range(blocks) : b.op \in {"rr", "pli", "remb"}})
  <1>1. worker' = [nacks |-> FlattenSeq(parts), answers |-> <<>>, relay |-> relay, compound |-> compound]
    BY DEF Rtcp
  <1>2. compound \in Seq(Blocks) /\ \A i \in 1..n : compound[i].op = "nack" => compound[i].about # None
    <2>1. compound \in Seq(Blocks)
      BY RtxAssumption DEF Blocks
    <2>2. DOMAIN compound = 1..n
      BY <2>1
    <2> QED
      BY <2>1, <2>2, RtxAssumption
  <1>3. ASSUME NEW i \in 1..n, compound[i].op = "nack"
        PROVE  compound[i].about \in Publishers /\ Missing(compound[i].about) # {}
    <2>1. i \in DOMAIN compound /\ compound[i] \in Blocks
      BY <1>2
    <2>2. compound[i].about \in Publishers
      BY <1>2, <1>3, <2>1 DEF Blocks
    <2>3. Missing(compound[i].about) # {}
      BY <1>3, <2>1 DEF Rtcp
    <2> QED
      BY <2>2, <2>3
  <1>4. \A i \in 1..n : MayAsk(compound[i])
    <2> TAKE i \in 1..n
    <2>1. ASSUME compound[i].op = "nack"
          PROVE  /\ compound[i].about \in Publishers /\ Missing(compound[i].about) \subseteq Nat
                 /\ IsFiniteSet(Missing(compound[i].about))
      <3>1. compound[i].about \in Publishers
        BY <1>3, <2>1
      <3> QED
        BY <3>1, MissingIs DEF IInv, GotOK
    <2> QED
      BY <2>1 DEF MayAsk
  <1> DEFINE T == {blocks[i] : i \in 1..n}
  <1>5. /\ blocks \in Seq(T) /\ Len(blocks) = n
        /\ \A i \in 1..n : IsUnderstood(blocks[i], compound[i])
    <2>1. words = FlattenSeq([i \in DOMAIN compound |-> Block(compound[i])])
      OBVIOUS
    <2> HIDE DEF words
    <2> QED
      BY <1>2, <1>4, <2>1, CompoundIsUnderstood
  <1> HIDE DEF blocks, T, words
  <1>6. n \in Nat /\ DOMAIN blocks = 1..n
    BY <1>2, <1>5
  <1>7. RelaysOf(relay, compound)
    BY <1>2, <1>5, RelayOfBlocks
  <1>8. ASSUME NEW i \in 1..n PROVE parts[i] \in Seq(Asks)
    <2>1. CASE blocks[i].op = "nack"
      <3>1. IsUnderstood(blocks[i], compound[i])
        BY <1>5
      <3>2. compound[i].op = "nack" /\ NackItems(blocks[i]) \in Seq(AskedItems(compound[i].about))
        BY <2>1, <3>1 DEF IsUnderstood
      <3>3. AskedItems(compound[i].about) \subseteq Asks
        BY <1>3, <3>2, AskedAre
      <3> DEFINE A == AskedItems(compound[i].about)
                 H == Asks
                 s == NackItems(blocks[i])
      <3>4. s \in Seq(A) /\ A \subseteq H
        BY <3>2, <3>3
      <3> HIDE DEF A, H, s
      <3>5. s \in Seq(H)
        <4>1. \A j \in 1..Len(s) : s[j] \in H
          BY <3>4
        <4> QED
          BY <3>4, <4>1
      <3>6. parts[i] = s
        BY <1>6, <2>1 DEF s
      <3> QED
        BY <3>5, <3>6 DEF H
    <2>2. CASE blocks[i].op # "nack"
      <3>1. parts[i] = <<>>
        BY <1>6, <2>2
      <3> DEFINE H == Asks
      <3> HIDE DEF H, parts
      <3>2. parts[i] \in Seq(H)
        BY ONLY <3>1
      <3> QED
        BY <3>2 DEF H
    <2> QED
      BY <2>1, <2>2
  <1>9. parts \in [1..n -> Seq(Asks)]
    <2>1. parts = [i \in 1..n |-> parts[i]]
      BY <1>6
    <2> HIDE DEF parts
    <2> QED
      BY <1>8, <2>1
  <1> HIDE DEF parts, relay
  <1>10. FlattenSeq(parts) \in Seq(Asks)
    <2> DEFINE H == Asks
    <2>1. parts \in [1..n -> Seq(H)]
      BY <1>9
    <2> HIDE DEF H, n
    <2>2. FlattenSeq(parts) \in Seq(H)
      BY ONLY <1>6, <2>1, FlattenTyped
    <2> QED
      BY <2>2 DEF H
  <1>11. UNCHANGED <<server, highest, queue, got, losses, reports>> /\ Quiet
    BY DEF Rtcp, server
  <1>12. Asks' = Asks /\ RtxOf' = RtxOf
    BY <1>11, SameKeeps
  <1>13. WorkerOK'
    <2>1. /\ worker'.nacks = FlattenSeq(parts) /\ worker'.answers = <<>>
          /\ worker'.relay = relay /\ worker'.compound = compound
      BY <1>1
    <2>2. worker' = [nacks |-> worker'.nacks, answers |-> worker'.answers,
                     relay |-> worker'.relay, compound |-> worker'.compound]
      BY <1>1, <2>1
    <2>3. <<>> \in Seq(RtxOf)
      OBVIOUS
    <2> QED
      BY <1>7, <1>10, <1>12, <2>1, <2>2, <2>3 DEF WorkerOK
  <1> QED
    BY <1>11, <1>13, SameKeeps DEF IInv

\* What the cache returns for a number asked for is the packet that is missing, unless an
\* older one of the same number is the last that fell into the slot.
LEMMA CacheAnswers ==
    ASSUME ServerOK, NEW p \in Videos, NEW missing, missing \subseteq Numbers(p),
           NEW seq \in {Seq16(m) : m \in missing}, CacheGet(p, seq) # None
    PROVE  /\ CacheGet(p, seq) \in Numbers(p) /\ Seq16(CacheGet(p, seq)) = seq
           /\ \E m \in missing : seq = Seq16(m) /\ (CacheGet(p, seq) = m \/ IsStale(p, m))
  <1> DEFINE n == rtp_cache[p][seq % CacheSize]
  <1>0. p \in Publishers
    BY DEF Publishers
  <1>1. PICK m \in missing : seq = Seq16(m)
    OBVIOUS
  <1>2. m \in Numbers(p) /\ m \in Int
    BY <1>0, NumbersOf
  <1>3. seq % CacheSize = m % CacheSize /\ m % CacheSize \in 0..CacheSize - 1
    BY <1>1, <1>2, SlotIs
  <1>4. n \in Numbers(p) \cup {None} /\ Holds(n, arrived[p], m % CacheSize)
    BY <1>0, <1>3 DEF ServerOK
  <1>5. n # None /\ Seq16(n) = seq /\ CacheGet(p, seq) = n
    BY DEF CacheGet
  <1> HIDE DEF n
  <1>6. n \in arrived[p] /\ \A j \in arrived[p] : j % CacheSize = m % CacheSize => j <= n
    BY <1>4, <1>5 DEF Holds
  <1>7. n = m \/ IsStale(p, m)
    BY <1>1, <1>5, <1>6 DEF IsStale
  <1> QED
    BY <1>1, <1>4, <1>5, <1>7

LEMMA LookUpKeeps ==
    ASSUME IInv, LookUp
    PROVE  IInv'
  <1> DEFINE item == Head(worker.nacks)
             p == item.about
             missing == item.missing
             asked == ExpandNack(item)
             n(i) == CacheGet(p, asked[i])
             stale == {m \in missing : IsStale(p, m)}
             Rtx(k) == [op |-> "rtx", from |-> p, seq |-> Seq16(k), n |-> k,
                        missing |-> missing, stale |-> stale]
             parts == [i \in DOMAIN asked |-> IF HasRtx(p) /\ n(i) # None THEN <<Rtx(n(i))>> ELSE <<>>]
             A == Asks
             R == RtxOf
  <1>1. /\ worker.nacks # <<>>
        /\ worker' = [worker EXCEPT !.nacks = Tail(@), !.answers = FlattenSeq(parts)]
        /\ UNCHANGED <<server, highest, queue, got, losses, reports>> /\ Quiet
    BY DEF LookUp, server
  <1>2. worker.nacks \in Seq(A)
    BY DEF IInv, WorkerOK
  <1> HIDE DEF A
  <1>3. item \in A /\ Tail(worker.nacks) \in Seq(A)
    BY <1>1, <1>2
  <1> HIDE DEF item
  <1>4. /\ p \in Heard /\ item.pid \in Int /\ missing \subseteq Int
        /\ missing \subseteq Behind(p) /\ missing \subseteq Numbers(p) /\ IsItem(item, missing)
    BY <1>3 DEF A, Asks, Behind
  <1>5. p \in Publishers /\ missing \subseteq Nat
    BY <1>4, NumbersOf DEF Heard
  <1>6. asked \in Seq({Seq16(m) : m \in missing})
    BY <1>4, <1>5, ExpandedAre
  <1> DEFINE l == Len(asked)
  <1>7. l \in Nat /\ DOMAIN asked = 1..l /\ \A i \in 1..l : asked[i] \in {Seq16(m) : m \in missing}
    <2> DEFINE S == {Seq16(m) : m \in missing}
    <2>1. asked \in Seq(S)
      BY <1>6
    <2> HIDE DEF S, asked
    <2>2. Len(asked) \in Nat /\ DOMAIN asked = 1..Len(asked) /\ \A i \in 1..Len(asked) : asked[i] \in S
      BY ONLY <2>1
    <2> QED
      BY <2>2 DEF S
  <1> HIDE DEF asked, p, missing
  <1>8. ASSUME NEW i \in 1..l, HasRtx(p), n(i) # None PROVE Rtx(n(i)) \in R
    <2> DEFINE k == n(i)
               x == Rtx(k)
    <2>1. p \in Videos /\ ServerOK /\ asked[i] \in {Seq16(m) : m \in missing}
      BY <1>7, <1>8 DEF HasRtx, IInv
    <2>2. /\ k \in Numbers(p) /\ Seq16(k) = asked[i]
          /\ \E m \in missing : asked[i] = Seq16(m) /\ (k = m \/ IsStale(p, m))
      BY <1>4, <1>8, <2>1, CacheAnswers
    <2> HIDE DEF k
    <2>3. k \in Int /\ Seq16(k) \in Int
      BY <1>5, <2>2, NumbersOf, SlotIs
    <2>4. PICK m \in missing : Seq16(k) = Seq16(m) /\ (k = m \/ m \in stale)
      BY <2>2
    <2>5. stale \subseteq Int
      BY <1>4
    <2> HIDE DEF stale
    <2>6. x \in [op : {"rtx"}, from : Heard, seq : Int, n : Int, missing : SUBSET Int, stale : SUBSET Int]
      BY <1>4, <2>3, <2>5
    <2>7. x.n = k /\ x.missing = missing /\ x.stale = stale /\ x.from = p /\ x.seq = Seq16(k)
      OBVIOUS
    <2> HIDE DEF x
    <2>8. x \in R
      BY <1>4, <2>4, <2>6, <2>7 DEF RtxOf
    <2> QED
      BY <2>8 DEF x, k
  <1> HIDE DEF R, n, Rtx, l
  <1>9. ASSUME NEW i \in 1..l PROVE parts[i] \in Seq(R)
    <2>1. parts[i] = IF HasRtx(p) /\ n(i) # None THEN <<Rtx(n(i))>> ELSE <<>>
      BY <1>7
    <2> HIDE DEF parts
    <2> QED
      BY <1>8, <2>1
  <1>10. parts \in [1..l -> Seq(R)]
    <2>1. parts = [i \in 1..l |-> parts[i]]
      BY <1>7
    <2> HIDE DEF parts
    <2> QED
      BY <1>9, <2>1
  <1> HIDE DEF parts
  <1>11. FlattenSeq(parts) \in Seq(R)
    BY ONLY <1>7, <1>10, FlattenTyped
  <1>12. WorkerOK'
    <2>1. WorkerOK /\ worker # AtRest
      BY <1>1 DEF IInv, WorkerOK, AtRest
    <2>2. worker = [nacks |-> worker.nacks, answers |-> worker.answers,
                    relay |-> worker.relay, compound |-> worker.compound]
      BY <2>1 DEF WorkerOK
    <2>3. worker' = [nacks |-> Tail(worker.nacks), answers |-> FlattenSeq(parts),
                     relay |-> worker.relay, compound |-> worker.compound]
      BY <1>1, <2>2
    <2>4. /\ worker'.nacks = Tail(worker.nacks) /\ worker'.answers = FlattenSeq(parts)
          /\ worker'.relay = worker.relay /\ worker'.compound = worker.compound
      BY <2>3
    <2>5. worker' = [nacks |-> worker'.nacks, answers |-> worker'.answers,
                     relay |-> worker'.relay, compound |-> worker'.compound]
      BY <2>3, <2>4
    <2>6. RelaysOf(worker'.relay, worker'.compound)
      BY <2>1, <2>4 DEF WorkerOK
    <2>7. Asks' = Asks /\ RtxOf' = RtxOf
      BY <1>1, SameKeeps
    <2> QED
      BY <1>3, <1>11, <2>4, <2>5, <2>6, <2>7 DEF WorkerOK, A, R
  <1> QED
    BY <1>1, <1>12, SameKeeps DEF IInv

LEMMA SendRtxKeeps ==
    ASSUME IInv, SendRtx
    PROVE  IInv'
  <1> DEFINE R == RtxOf
             x == Head(worker.answers)
  <1>1. /\ worker.answers # <<>> /\ TrySend(x)
        /\ worker' = [worker EXCEPT !.answers = Tail(@)]
        /\ UNCHANGED <<server, highest, got, losses, reports>> /\ Quiet
    BY DEF SendRtx, server
  <1>2. worker.answers \in Seq(R)
    BY DEF IInv, WorkerOK
  <1> HIDE DEF R
  <1>3. x \in R /\ Tail(worker.answers) \in Seq(R)
    BY <1>1, <1>2
  <1>4. Carried' = Carried /\ Asks' = Asks /\ RtxOf' = RtxOf
    BY <1>1, SameKeeps
  <1>5. QueueOK'
    <2>1. x \in Carried /\ QueueOK
      BY <1>3 DEF Carried, R, IInv
    <2> HIDE DEF x
    <2> QED
      BY <1>1, <1>4, <2>1, TrySendKeeps DEF QueueOK
  <1>6. WorkerOK'
    <2>1. WorkerOK /\ worker # AtRest
      BY <1>1 DEF IInv, WorkerOK, AtRest
    <2>2. worker = [nacks |-> worker.nacks, answers |-> worker.answers,
                    relay |-> worker.relay, compound |-> worker.compound]
      BY <2>1 DEF WorkerOK
    <2>3. worker' = [nacks |-> worker.nacks, answers |-> Tail(worker.answers),
                     relay |-> worker.relay, compound |-> worker.compound]
      BY <1>1, <2>2
    <2>4. /\ worker'.nacks = worker.nacks /\ worker'.answers = Tail(worker.answers)
          /\ worker'.relay = worker.relay /\ worker'.compound = worker.compound
      BY <2>3
    <2>5. worker' = [nacks |-> worker'.nacks, answers |-> worker'.answers,
                     relay |-> worker'.relay, compound |-> worker'.compound]
      BY <2>3, <2>4
    <2>6. RelaysOf(worker'.relay, worker'.compound)
      BY <2>1, <2>4 DEF WorkerOK
    <2> QED
      BY <1>3, <1>4, <2>1, <2>4, <2>5, <2>6 DEF WorkerOK, R
  <1> QED
    BY <1>1, <1>5, <1>6, SameKeeps DEF IInv

LEMMA RelayKeeps ==
    ASSUME IInv, Relay
    PROVE  IInv'
  <1> DEFINE To(p) == Only(worker.relay, {b \in Range(worker.relay) : b.media_ssrc = Ssrc(p)})
  <1>1. /\ worker # AtRest
        /\ relayed' = [compound |-> worker.compound, known |-> published, to |-> [p \in published |-> To(p)]]
        /\ worker' = AtRest /\ remb' = None
        /\ UNCHANGED <<server, highest, queue, got, losses, reports>>
    BY DEF Relay, server
  <1>2. RelaysOf(worker.relay, worker.compound) /\ published \subseteq Publishers
    BY <1>1 DEF IInv, WorkerOK, ServerOK
  <1>3. WorkerOK'
    <2>1. worker' = AtRest
      BY <1>1
    <2> QED
      BY <2>1 DEF WorkerOK, AtRest
  <1>4. RelayIsComplete'
    <2> HIDE DEF To
    <2>1. ASSUME NEW p \in published
          PROVE  [i \in DOMAIN relayed'.to[p] |-> relayed'.to[p][i].op]
                   = LET mine == Only(relayed'.compound, {b \in Range(relayed'.compound) : b.op # "nack" /\ b.about = p})
                     IN [i \in DOMAIN mine |-> mine[i].op]
      <3>1. relayed'.to[p] = To(p) /\ relayed'.compound = worker.compound
        BY <1>1, <2>1
      <3>2. Ops(To(p)) = Ops(Only(worker.compound, {b \in Range(worker.compound) : b.op # "nack" /\ b.about = p}))
        BY <1>2 DEF RelaysOf, To
      <3> QED
        BY <3>1, <3>2 DEF Ops
    <2>2. relayed'.known = published
      BY <1>1
    <2> QED
      BY <2>1, <2>2 DEF RelayIsComplete
  <1>5. RembIsClose'
    BY <1>1 DEF RembIsClose
  <1> QED
    BY <1>1, <1>3, <1>4, <1>5, SameKeeps DEF IInv

LEMMA SendRembKeeps ==
    ASSUME IInv, NEW p \in Publishers, NEW bps \in Bitrates, SendRemb(p, bps)
    PROVE  IInv'
  <1>1. /\ reports < MaxReports /\ reports' = reports + 1
        /\ remb' = [bps |-> bps, bytes |-> BuildRemb(bps)] /\ relayed' = None
        /\ UNCHANGED <<server, highest, queue, worker, got, losses>>
    BY DEF SendRemb, server
  <1>2. CountsOK'
    BY <1>1, RtxAssumption DEF IInv, CountsOK
  <1>3. RelayIsComplete'
    BY <1>1 DEF RelayIsComplete
  <1>4. RembIsClose'
    <2>1. remb'.bps = bps /\ remb'.bytes = BuildRemb(bps)
      BY <1>1
    <2>2. LET b == BuildRemb(bps)
              decoded == ((b[1] % 4) * 65536 + b[2] * 256 + b[3]) * PowerOfTwo[b[1] \div 4]
          IN decoded <= bps /\ bps - decoded <= bps \div PowerOfTwo[Mantissa - 1]
      BY RembOf
    <2> QED
      BY <2>1, <2>2 DEF RembIsClose
  <1> QED
    BY <1>1, <1>2, <1>3, <1>4, SameKeeps DEF IInv

LEMMA StepOK == IInv /\ [Next]_vars => IInv'
  <1> SUFFICES ASSUME IInv, [Next]_vars PROVE IInv'
    OBVIOUS
  <1>1. ASSUME NEW p \in Publishers, AddTrack(p) PROVE IInv'
    BY <1>1, AddTrackKeeps
  <1>2. ASSUME NEW p \in Publishers, SenderReport(p) PROVE IInv'
    BY <1>2, SenderReportKeeps
  <1>3. ASSUME NEW p \in Publishers, NEW bps \in Bitrates, SendRemb(p, bps) PROVE IInv'
    BY <1>3, SendRembKeeps
  <1>4. ASSUME NEW p \in Publishers, NEW n \in FirstPacket[p]..LastPacket[p], Rtp(p, n) PROVE IInv'
    BY <1>4, RtpKeeps DEF Numbers
  <1>5. CASE Deliver
    BY <1>5, DeliverKeeps
  <1>6. CASE Lose
    BY <1>6, LoseKeeps
  <1>7. ASSUME NEW compound \in Compounds, Rtcp(compound) PROVE IInv'
    BY <1>7, RtcpKeeps
  <1>8. CASE Worker
    BY <1>8, LookUpKeeps, SendRtxKeeps, RelayKeeps DEF Worker
  <1>9. CASE UNCHANGED vars
    <2>1. UNCHANGED <<server, highest, queue, worker, got, losses, reports>> /\ relayed' = relayed /\ remb' = remb
      BY <1>9 DEF vars, server
    <2>2. RelayIsComplete'
      BY <2>1, Zenon DEF IInv, RelayIsComplete
    <2>3. RembIsClose'
      <3> DEFINE Close(r) ==
            r # None =>
              LET b == r.bytes
                  decoded == ((b[1] % 4) * 65536 + b[2] * 256 + b[3]) * PowerOfTwo[b[1] \div 4]
              IN decoded <= r.bps /\ r.bps - decoded <= r.bps \div PowerOfTwo[Mantissa - 1]
      <3>1. Close(remb)
        BY DEF IInv, RembIsClose
      <3>2. Close(remb') <=> RembIsClose'
        BY DEF RembIsClose
      <3> HIDE DEF Close
      <3>3. Close(remb')
        BY ONLY <2>1, <3>1
      <3> QED
        BY <3>2, <3>3
    <2> QED
      BY <2>1, <2>2, <2>3, SameKeeps DEF IInv
  <1> QED
    BY <1>1, <1>2, <1>3, <1>4, <1>5, <1>6, <1>7, <1>8, <1>9 DEF Next

LEMMA TypesHold == IInv => TypeOK
  <1> SUFFICES ASSUME IInv PROVE TypeOK
    OBVIOUS
  <1> DEFINE T == Carried
  <1>1. queue \in Seq(T) /\ Len(queue) <= QueueSize
    BY DEF IInv, QueueOK
  <1>2. \A x \in T : x.op \in {"rtp", "rtx", "sr"} /\ x.from \in Publishers
    BY DEF Carried, RtpOf, SrOf, RtxOf, Heard
  <1> HIDE DEF T
  <1>3. \A i \in DOMAIN queue : queue[i].op \in {"rtp", "rtx", "sr"} /\ queue[i].from \in Publishers
    BY <1>1, <1>2
  <1> QED
    BY <1>1, <1>3 DEF IInv, ServerOK, GotOK, CountsOK, TypeOK

LEMMA GapIsFilled == IInv => RtxFillsTheGap
  <1> SUFFICES ASSUME IInv, NEW x \in Range(worker.answers \o queue), x.op = "rtx"
               PROVE  LET m == Unwrap(x.from, x.seq) IN m \in x.missing /\ (x.n = m \/ m \in x.stale)
    BY DEF RtxFillsTheGap
  <1> DEFINE T == Carried
             R == RtxOf
             a == worker.answers
  <1>1. a \in Seq(R) /\ queue \in Seq(T)
    BY DEF IInv, WorkerOK, QueueOK
  <1>2. R \subseteq T
    BY DEF Carried
  <1> HIDE DEF T, R, a
  <1>3. a \in Seq(T)
    BY <1>1, <1>2
  <1>4. a \o queue \in Seq(T)
    BY <1>1, <1>3, Concatenated
  <1>5. x \in T
    BY <1>4 DEF Range, a
  <1>6. x \in RtxOf
    BY <1>5 DEF T, Carried, RtpOf, SrOf
  <1> QED
    BY <1>6, AskedIs DEF IInv

-----------------------------------------------------------------------------
\* The theorems.

\* The variables have their types, and the egress queue its bound: there may be any
\* publishers, packets, losses and compounds.
THEOREM Types == Spec => []TypeOK
  <1>1. Spec => []IInv
    BY InitOK, StepOK, PTL DEF Spec
  <1> QED
    BY <1>1, TypesHold, PTL

\* handle_nack_block answers a request that split_compound_rtcp, parse_rtcp_nack and
\* expand_nack have taken apart: what a number in its answer means to the subscriber was
\* missing, and the packet behind it is that one, unless an older one of the same number
\* still stood in its slot of the ring when handle_nack_block looked.  A track may have any
\* number of packets, the ring and the numbers may wrap any number of times.
THEOREM Retransmission == Spec => []RtxFillsTheGap
  <1>1. Spec => []IInv
    BY InitOK, StepOK, PTL DEF Spec
  <1> QED
    BY <1>1, GapIsFilled, PTL

\* Of any compound, the blocks other than NACKs come to the publishers they are about,
\* each once and in their order, even where a block is too short to be about anybody.
THEOREM Relaying == Spec => []RelayIsComplete
  <1>1. Spec => []IInv
    BY InitOK, StepOK, PTL DEF Spec
  <1>2. IInv => RelayIsComplete
    BY DEF IInv
  <1> QED
    BY <1>1, <1>2, PTL

\* encode_remb_bitrate and build_remb lose nothing but what does not fit into the
\* mantissa, for every bitrate of 64 bits.
THEOREM Bitrate == Spec => []RembIsClose
  <1>1. Spec => []IInv
    BY InitOK, StepOK, PTL DEF Spec
  <1>2. IInv => RembIsClose
    BY DEF IInv
  <1> QED
    BY <1>1, <1>2, PTL
================================================================================
