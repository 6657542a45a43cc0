----------------------- MODULE LedgerArithmeticProofs -----------------------
(***************************************************************************)
(* The algebra of LedgerArithmetic: a pro-rata share never exceeds the     *)
(* amount it is a share of, totals are additive, and identifiers that are  *)
(* each served what those before them leave of a quantity are together     *)
(* served the quantity, or all that they ask for.  Induction on the length *)
(* of a sum is done by taking the smallest counterexample.                 *)
(***************************************************************************)
EXTENDS LedgerArithmetic, WellFoundedInduction, TLAPS

\* A non-empty set of numbers has a smallest element.
LEMMA LeastElement ==
    ASSUME NEW T \in SUBSET Nat, T # {}
    PROVE  \E n \in T : \A m \in Nat : m < n => m \notin T
<1>1. IsWellFoundedOn({p \in Nat \X Nat : p[1] < p[2]}, Nat)
    BY NatLessThanWellFounded DEF OpToRel
<1>2. \E n \in T : \A m \in T : ~(<<m, n>> \in {p \in Nat \X Nat : p[1] < p[2]})
    BY <1>1, WFMin
<1>3. \E n \in T : \A m \in T : ~(m < n)
    BY <1>2
<1>4. QED BY <1>3

\* The share of a part (0 <= s <= q) of a non-negative amount lies between
\* zero and the amount, whichever way the division rounds (settle_return and
\* DustLedger.consume subtract it from a cost that must not become negative).
LEMMA ProRataBounds ==
    ASSUME NEW a \in Nat, NEW s \in Nat, NEW q \in Nat, q > 0, s <= q
    PROVE  ProRata(a, s, q) \in 0..a
<1> DEFINE d == (a * s) \div q
           r == (a * s) % q
<1>1. a * s \in Nat /\ a * q \in Nat
    OBVIOUS
<1>2. a * s <= a * q
    BY SMT
<1>3. d \in Int /\ r \in 0..(q - 1) /\ a * s = q * d + r
    BY <1>1, SMT
<1> HIDE DEF d, r
<1>4. d >= 0
    BY <1>1, <1>3, SMT
<1>5. d <= a
    <2> SUFFICES ASSUME d >= a + 1 PROVE FALSE
        BY <1>3
    <2>1. q * d >= q * (a + 1)
        BY <1>3, SMT
    <2> QED BY <2>1, <1>2, <1>3, SMT
<1>6. d = a => r = 0
    BY <1>2, <1>3, SMT
<1> QED
    BY <1>3, <1>4, <1>5, <1>6, SMT DEF ProRata, d, r

-----------------------------------------------------------------------------
\* The first n values of the running sum of h.
IsPrefixSum(g, h, n) ==
    /\ g \in [0..n -> Int]
    /\ g[0] = 0
    /\ \A k \in 1..n : g[k] = g[k - 1] + h[k]

\* Every prefix of the sum exists ...
LEMMA PrefixSumExists ==
    ASSUME NEW h \in [Nat -> Int]
    PROVE  \A n \in Nat : \E g : IsPrefixSum(g, h, n)
<1> DEFINE T == {n \in Nat : ~ \E g : IsPrefixSum(g, h, n)}
<1>1. SUFFICES ASSUME T # {} PROVE FALSE
    OBVIOUS
<1>2. PICK n \in T : \A m \in Nat : m < n => m \notin T
    <2> HIDE DEF T
    <2>1. T \in SUBSET Nat
        BY DEF T
    <2>2. QED BY <1>1, <2>1, LeastElement
<1>3. CASE n = 0
    <2>1. IsPrefixSum([k \in 0..0 |-> 0], h, 0)
        BY DEF IsPrefixSum
    <2>2. QED BY <1>2, <1>3, <2>1
<1>4. CASE n # 0
    <2>1. n - 1 \in Nat /\ n - 1 \notin T
        BY <1>2, <1>4
    <2>2. PICK g : IsPrefixSum(g, h, n - 1)
        BY <2>1
    <2> DEFINE e == [k \in 0..n |-> IF k = n THEN g[n - 1] + h[n] ELSE g[k]]
    <2>3. IsPrefixSum(e, h, n)
        <3>1. e \in [0..n -> Int]
            BY <2>1, <2>2 DEF IsPrefixSum
        <3>2. e[0] = 0
            BY <1>4, <2>1, <2>2 DEF IsPrefixSum
        <3>3. ASSUME NEW k \in 1..n PROVE e[k] = e[k - 1] + h[k]
            <4>1. CASE k = n
                BY <4>1, <2>1, <1>4
            <4>2. CASE k # n
                BY <4>2, <2>1, <2>2, <3>3 DEF IsPrefixSum
            <4>3. QED BY <4>1, <4>2
        <3>4. QED BY <3>1, <3>2, <3>3 DEF IsPrefixSum
    <2>4. QED BY <1>2, <2>3
<1>5. QED BY <1>3, <1>4

\* Two running sums of the same amounts agree where both are defined.
LEMMA PrefixSumUnique ==
    ASSUME NEW h \in [Nat -> Int], NEW n \in Nat, NEW m \in Nat, n <= m,
           NEW f, NEW g, IsPrefixSum(f, h, n), IsPrefixSum(g, h, m)
    PROVE  \A k \in 0..n : f[k] = g[k]
<1> DEFINE T == {k \in 0..n : f[k] # g[k]}
<1>1. SUFFICES ASSUME T # {} PROVE FALSE
    OBVIOUS
<1>2. PICK k \in T : \A j \in Nat : j < k => j \notin T
    <2> HIDE DEF T
    <2>1. T \in SUBSET Nat
        BY DEF T
    <2>2. QED BY <1>1, <2>1, LeastElement
<1>3. k # 0
    BY <1>2 DEF IsPrefixSum
<1>4. k - 1 \in 0..n /\ k - 1 \notin T
    BY <1>2, <1>3
<1>5. f[k] = f[k - 1] + h[k] /\ g[k] = g[k - 1] + h[k]
    BY <1>2, <1>3 DEF IsPrefixSum
<1>6. QED BY <1>2, <1>4, <1>5

\* Sigma(h) satisfies its recursion equation.
LEMMA SigmaEquation ==
    ASSUME NEW h \in [Nat -> Int]
    PROVE  /\ Sigma(h) \in [Nat -> Int]
           /\ Sigma(h)[0] = 0
           /\ \A n \in Nat : Sigma(h)[n + 1] = Sigma(h)[n] + h[n + 1]
<1> DEFINE P(n) == CHOOSE g : IsPrefixSum(g, h, n)
           G == [n \in Nat |-> P(n)[n]]
           Eq(f) == f = [n \in Nat |-> IF n = 0 THEN 0 ELSE f[n - 1] + h[n]]
<1>1. \A n \in Nat : IsPrefixSum(P(n), h, n)
    BY PrefixSumExists
<1> HIDE DEF P
<1>2. \A n \in Nat : G[n] \in Int
    BY <1>1 DEF IsPrefixSum
<1>3. G[0] = 0
    BY <1>1 DEF IsPrefixSum
<1>4. ASSUME NEW n \in Nat, n # 0
      PROVE  G[n] = G[n - 1] + h[n]
    <2>1. n - 1 \in Nat
        BY <1>4
    <2>2. P(n)[n] = P(n)[n - 1] + h[n]
        BY <1>1, <1>4 DEF IsPrefixSum
    <2>3. P(n - 1)[n - 1] = P(n)[n - 1]
        BY <2>1, <1>1, PrefixSumUnique
    <2>4. QED BY <2>1, <2>2, <2>3
<1>5. Eq(G)
    BY <1>3, <1>4
<1> HIDE DEF G
<1>6. Sigma(h) = CHOOSE f : Eq(f)
    BY DEF Sigma
<1>7. Eq(Sigma(h))
    BY <1>5, <1>6
<1>8. \A f : Eq(f) => \A n \in Nat : f[n] = IF n = 0 THEN 0 ELSE f[n - 1] + h[n]
    OBVIOUS
<1> DEFINE s == Sigma(h)
<1> HIDE DEF s
<1>9. \A n \in Nat : s[n] = IF n = 0 THEN 0 ELSE s[n - 1] + h[n]
    BY <1>7, <1>8 DEF s
<1>10. s[0] = 0 /\ \A n \in Nat : s[n + 1] = s[n] + h[n + 1]
    BY <1>9
<1>11. \A n \in Nat : s[n] \in Int
    <2> DEFINE T == {n \in Nat : s[n] \notin Int}
    <2>1. SUFFICES ASSUME T # {} PROVE FALSE
        OBVIOUS
    <2>2. PICK n \in T : \A m \in Nat : m < n => m \notin T
        <3> HIDE DEF T
        <3>1. T \in SUBSET Nat
            BY DEF T
        <3>2. QED BY <2>1, <3>1, LeastElement
    <2>3. n # 0
        BY <2>2, <1>10
    <2>4. n - 1 \in Nat /\ n - 1 \notin T
        BY <2>2, <2>3
    <2>5. QED BY <2>2, <2>3, <2>4, <1>9
<1>12. s \in [Nat -> Int]
    <2>1. s = [n \in Nat |-> IF n = 0 THEN 0 ELSE s[n - 1] + h[n]]
        BY <1>7 DEF s
    <2>2. s = [n \in Nat |-> s[n]]
        BY <2>1
    <2>3. QED BY <2>2, <1>11
<1>13. QED BY <1>10, <1>12 DEF s

-----------------------------------------------------------------------------
\* The sum of a sum is the sum of the sums.
LEMMA SigmaAdd ==
    ASSUME NEW f \in [Nat -> Int], NEW g \in [Nat -> Int], NEW h \in [Nat -> Int],
           NEW n \in Nat, \A i \in 1..n : h[i] = f[i] + g[i]
    PROVE  Sigma(h)[n] = Sigma(f)[n] + Sigma(g)[n]
<1> DEFINE T == {k \in 0..n : Sigma(h)[k] # Sigma(f)[k] + Sigma(g)[k]}
<1>1. SUFFICES ASSUME T # {} PROVE FALSE
    OBVIOUS
<1>2. PICK k \in T : \A j \in Nat : j < k => j \notin T
    <2> HIDE DEF T
    <2>1. T \in SUBSET Nat
        BY DEF T
    <2>2. QED BY <1>1, <2>1, LeastElement
<1>3. k # 0
    BY <1>2, SigmaEquation
<1>4. k - 1 \in Nat /\ k - 1 \in 0..n /\ k \in 1..n /\ k - 1 \notin T
    BY <1>2, <1>3
<1> DEFINE j == k - 1
<1>5. j \in Nat /\ k = j + 1 /\ Sigma(h)[j] = Sigma(f)[j] + Sigma(g)[j]
    BY <1>4
<1> HIDE DEF j
<1>6. /\ Sigma(h)[k] = Sigma(h)[j] + h[k]
      /\ Sigma(f)[k] = Sigma(f)[j] + f[k]
      /\ Sigma(g)[k] = Sigma(g)[j] + g[k]
    BY <1>5, SigmaEquation
<1>7. /\ Sigma(f)[j] \in Int /\ Sigma(g)[j] \in Int
      /\ f[k] \in Int /\ g[k] \in Int /\ h[k] = f[k] + g[k]
    BY <1>4, <1>5, SigmaEquation
<1>8. Sigma(h)[k] = Sigma(f)[k] + Sigma(g)[k]
    BY <1>5, <1>6, <1>7
<1>9. QED BY <1>2, <1>8

\* A sum of amounts that are all zero but for one is that one.
LEMMA SigmaPoint ==
    ASSUME NEW h \in [Nat -> Int], NEW n \in Nat, NEW i \in 1..n,
           \A j \in (1..n) \ {i} : h[j] = 0
    PROVE  Sigma(h)[n] = h[i]
<1> DEFINE T == {k \in 0..n : Sigma(h)[k] # IF k < i THEN 0 ELSE h[i]}
<1>1. SUFFICES ASSUME T # {} PROVE FALSE
    OBVIOUS
<1>2. PICK k \in T : \A j \in Nat : j < k => j \notin T
    <2> HIDE DEF T
    <2>1. T \in SUBSET Nat
        BY DEF T
    <2>2. QED BY <1>1, <2>1, LeastElement
<1>3. k # 0
    BY <1>2, SigmaEquation
<1> DEFINE j == k - 1
<1>4. j \in Nat /\ j \in 0..n /\ k \in 1..n /\ k = j + 1 /\ j \notin T
    BY <1>2, <1>3
<1>5. Sigma(h)[j] = IF j < i THEN 0 ELSE h[i]
    BY <1>4
<1> HIDE DEF j
<1>6. Sigma(h)[k] = Sigma(h)[j] + h[k]
    BY <1>4, SigmaEquation
<1>7. Sigma(h)[k] = IF k < i THEN 0 ELSE h[i]
    <2>1. CASE k = i
        <3>1. i \in Nat /\ h[i] \in Int /\ j < i
            BY <2>1, <1>4
        <3>2. Sigma(h)[k] = 0 + h[i]
            BY <2>1, <3>1, <1>5, <1>6
        <3>3. QED BY <2>1, <3>1, <3>2
    <2>2. CASE k # i
        BY <2>2, <1>4, <1>5, <1>6
    <2>3. QED BY <2>1, <2>2
<1>8. QED BY <1>2, <1>7

\* Non-negative amounts have a non-negative sum.
LEMMA SigmaNat ==
    ASSUME NEW h \in [Nat -> Int], NEW n \in Nat, \A i \in 1..n : h[i] >= 0
    PROVE  Sigma(h)[n] \in Nat
<1> DEFINE T == {k \in 0..n : Sigma(h)[k] < 0}
<1>1. SUFFICES ASSUME T # {} PROVE FALSE
    BY SigmaEquation
<1>2. PICK k \in T : \A j \in Nat : j < k => j \notin T
    <2> HIDE DEF T
    <2>1. T \in SUBSET Nat
        BY DEF T
    <2>2. QED BY <1>1, <2>1, LeastElement
<1>3. k # 0
    BY <1>2, SigmaEquation
<1> DEFINE j == k - 1
<1>4. j \in Nat /\ j \in 0..n /\ k \in 1..n /\ k = j + 1 /\ j \notin T
    BY <1>2, <1>3
<1>5. Sigma(h)[j] >= 0 /\ Sigma(h)[j] \in Int
    BY <1>4, SigmaEquation
<1> HIDE DEF j
<1>6. Sigma(h)[k] = Sigma(h)[j] + h[k]
    BY <1>4, SigmaEquation
<1>7. QED BY <1>2, <1>4, <1>5, <1>6

-----------------------------------------------------------------------------
(* Totals: h[i] over the identifiers i \in S, S a subset of 1..n.          *)

\* The masked amounts are a function on all numbers.
LEMMA MaskedType ==
    ASSUME NEW S, NEW h, \A i \in S : h[i] \in Int
    PROVE  Masked(S, h) \in [Nat -> Int]
BY DEF Masked

\* A total of integers is an integer ...
LEMMA TotalType ==
    ASSUME NEW n \in Nat, NEW S, NEW h, \A i \in S : h[i] \in Int
    PROVE  Total(S, h, n) \in Int
BY MaskedType, SigmaEquation DEF Total

\* ... and of natural numbers a natural number.
LEMMA TotalNat ==
    ASSUME NEW n \in Nat, NEW S, NEW h, \A i \in S : h[i] \in Nat
    PROVE  Total(S, h, n) \in Nat
<1>1. Masked(S, h) \in [Nat -> Int] /\ \A i \in 1..n : Masked(S, h)[i] >= 0
    BY DEF Masked
<1>2. QED BY <1>1, SigmaNat DEF Total

\* The total of termwise sums is the sum of the totals.
LEMMA TotalAdd ==
    ASSUME NEW n \in Nat, NEW S, NEW f, NEW g, NEW h,
           \A i \in S : f[i] \in Int /\ g[i] \in Int /\ h[i] = f[i] + g[i]
    PROVE  Total(S, h, n) = Total(S, f, n) + Total(S, g, n)
<1>1. /\ Masked(S, f) \in [Nat -> Int]
      /\ Masked(S, g) \in [Nat -> Int]
      /\ Masked(S, h) \in [Nat -> Int]
    BY DEF Masked
<1>2. \A i \in 1..n : Masked(S, h)[i] = Masked(S, f)[i] + Masked(S, g)[i]
    BY DEF Masked
<1>3. QED BY <1>1, <1>2, SigmaAdd DEF Total

\* A sum over no index is zero.
LEMMA TotalEmpty ==
    ASSUME NEW n \in Nat, NEW h
    PROVE  Total({}, h, n) = 0
<1>1. Total({}, h, n) \in Int
    BY TotalType
<1>2. Total({}, h, n) = Total({}, h, n) + Total({}, h, n)
    BY TotalAdd
<1>3. \A x \in Int : x = x + x => x = 0
    OBVIOUS
<1>4. QED BY <1>1, <1>2, <1>3

\* Only what the identifiers of S hold counts.
LEMMA TotalSame ==
    ASSUME NEW n \in Nat, NEW S, NEW T \in SUBSET S, NEW f, NEW g,
           \A i \in T : f[i] = g[i],
           \A i \in S \ T : g[i] = 0
    PROVE  Total(T, f, n) = Total(S, g, n)
<1>1. Masked(T, f) = Masked(S, g)
    BY DEF Masked
<1>2. QED BY <1>1 DEF Total

\* A total whose amounts are zero but at k.
LEMMA TotalPoint ==
    ASSUME NEW n \in Nat, NEW S \in SUBSET (1..n), NEW h,
           NEW k \in S, h[k] \in Int, \A i \in S \ {k} : h[i] = 0
    PROVE  Total(S, h, n) = h[k]
<1>1. Masked(S, h) \in [Nat -> Int] /\ Masked(S, h)[k] = h[k]
    BY DEF Masked
<1>2. \A j \in (1..n) \ {k} : Masked(S, h)[j] = 0
    BY DEF Masked
<1>3. QED BY <1>1, <1>2, SigmaPoint DEF Total

\* Changing one amount changes the total by as much.
LEMMA TotalChange ==
    ASSUME NEW n \in Nat, NEW S \in SUBSET (1..n), NEW f, NEW g, NEW k \in S,
           \A i \in S : f[i] \in Int /\ g[i] \in Int,
           \A i \in S \ {k} : f[i] = g[i]
    PROVE  Total(S, g, n) = Total(S, f, n) + (g[k] - f[k])
<1> DEFINE d == [i \in S |-> IF i = k THEN g[k] - f[k] ELSE 0]
<1>1. \A i \in S : f[i] \in Int /\ d[i] \in Int /\ g[i] = f[i] + d[i]
    OBVIOUS
<1>2. d[k] = g[k] - f[k] /\ d[k] \in Int /\ \A i \in S \ {k} : d[i] = 0
    BY <1>1
<1> HIDE DEF d
<1>3. Total(S, g, n) = Total(S, f, n) + Total(S, d, n)
    BY <1>1, TotalAdd
<1>4. Total(S, d, n) = d[k]
    BY <1>2, TotalPoint
<1>5. QED BY <1>2, <1>3, <1>4

\* A total stays the same if identifier k takes over the amounts e of others.
LEMMA TotalTransfer ==
    ASSUME NEW n \in Nat, NEW S \in SUBSET (1..n), NEW f, NEW g, NEW e, NEW k \in S,
           \A i \in S : f[i] \in Int /\ g[i] \in Int /\ e[i] \in Int,
           \A i \in S \ {k} : g[i] = f[i] - e[i],
           f[k] = 0, e[k] = 0, g[k] = Total(S, e, n)
    PROVE  Total(S, g, n) = Total(S, f, n)
<1> DEFINE t == Total(S, e, n)
           point == [i \in S |-> IF i = k THEN t ELSE 0]
           all == [i \in S |-> f[i] + point[i]]
<1>1. t \in Int
    BY TotalType
<1>2. \A i \in S : /\ point[i] \in Int /\ all[i] = f[i] + point[i] /\ all[i] = g[i] + e[i]
    BY <1>1
<1>3. point[k] = t /\ point[k] \in Int /\ \A i \in S \ {k} : point[i] = 0
    BY <1>1
<1> HIDE DEF point, all
<1>4. Total(S, all, n) = Total(S, f, n) + Total(S, point, n)
    BY <1>2, TotalAdd
<1>5. Total(S, all, n) = Total(S, g, n) + t
    <2>1. \A i \in S : g[i] \in Int /\ e[i] \in Int /\ all[i] = g[i] + e[i]
        BY <1>2
    <2>2. QED BY <2>1, TotalAdd
<1>6. Total(S, point, n) = t
    BY <1>3, TotalPoint
<1>7. Total(S, f, n) \in Int /\ Total(S, g, n) \in Int
    BY TotalType
<1> HIDE DEF t
<1>8. QED BY <1>1, <1>4, <1>5, <1>6, <1>7

\* The share of everything is everything.
LEMMA ProRataWhole ==
    ASSUME NEW a \in Nat, NEW q \in Nat, q > 0
    PROVE  ProRata(a, q, q) = a
<1>1. (a * q) \div q = a /\ (a * q) % q = 0
    BY SMT
<1>2. QED BY <1>1 DEF ProRata
-----------------------------------------------------------------------------
(* Totals over a part of the identifiers.                                  *)

\* A total is that of a part and of the rest.
LEMMA TotalSplit ==
    ASSUME NEW n \in Nat, NEW S, NEW T \in SUBSET S, NEW h, \A i \in S : h[i] \in Int
    PROVE  Total(S, h, n) = Total(T, h, n) + Total(S \ T, h, n)
<1> DEFINE f == [i \in S |-> IF i \in T THEN h[i] ELSE 0]
           g == [i \in S |-> IF i \in T THEN 0 ELSE h[i]]
<1>1. \A i \in S : f[i] \in Int /\ g[i] \in Int /\ h[i] = f[i] + g[i]
    OBVIOUS
<1>2. /\ \A i \in T : h[i] = f[i]
      /\ \A i \in S \ T : f[i] = 0
      /\ \A i \in S \ T : h[i] = g[i]
      /\ \A i \in S \ (S \ T) : g[i] = 0
    OBVIOUS
<1> HIDE DEF f, g
<1>3. Total(S, h, n) = Total(S, f, n) + Total(S, g, n)
    BY <1>1, TotalAdd
<1>4. Total(T, h, n) = Total(S, f, n)
    BY <1>2, TotalSame
<1>5. Total(S \ T, h, n) = Total(S, g, n)
    BY <1>2, TotalSame
<1>6. QED BY <1>3, <1>4, <1>5

\* A part of natural numbers is not more than the whole ...
LEMMA TotalSubset ==
    ASSUME NEW n \in Nat, NEW S, NEW T \in SUBSET S, NEW h, \A i \in S : h[i] \in Nat
    PROVE  Total(T, h, n) <= Total(S, h, n)
<1>1. Total(S, h, n) = Total(T, h, n) + Total(S \ T, h, n)
    BY TotalSplit
<1>2. Total(T, h, n) \in Nat /\ Total(S \ T, h, n) \in Nat
    BY TotalNat
<1>3. QED BY <1>1, <1>2

\* The total over one identifier is its amount.
LEMMA TotalOne ==
    ASSUME NEW n \in Nat, NEW k \in 1..n, NEW h, h[k] \in Int
    PROVE  Total({k}, h, n) = h[k]
<1>1. {k} \in SUBSET (1..n) /\ k \in {k} /\ h[k] \in Int /\ \A i \in {k} \ {k} : h[i] = 0
    OBVIOUS
<1>2. QED BY <1>1, TotalPoint

\* One identifier outside a part leaves room for its amount.
LEMMA TotalRoom ==
    ASSUME NEW n \in Nat, NEW S, NEW T, NEW k \in 1..n, NEW h,
           T \in SUBSET S, k \in S, k \notin T, \A i \in S : h[i] \in Nat
    PROVE  Total(T, h, n) + h[k] <= Total(S, h, n)
<1>1. \A i \in S : h[i] \in Int
    OBVIOUS
<1>2. Total(S, h, n) = Total(T, h, n) + Total(S \ T, h, n)
    BY <1>1, TotalSplit
<1>3. \A i \in S \ T : h[i] \in Nat
    OBVIOUS
<1>4. h[k] \in Int /\ h[k] <= Total(S \ T, h, n)
    <2>1. k \in S \ T
        OBVIOUS
    <2>2. \A R : k \in R /\ (\A i \in R : h[i] \in Nat) => h[k] <= Total(R, h, n)
        <3> SUFFICES ASSUME NEW R, k \in R, \A i \in R : h[i] \in Nat PROVE h[k] <= Total(R, h, n)
            OBVIOUS
        <3>1. {k} \in SUBSET R /\ h[k] \in Int
            OBVIOUS
        <3>2. Total({k}, h, n) <= Total(R, h, n)
            BY <3>1, TotalSubset
        <3>3. Total({k}, h, n) = h[k]
            BY <3>1, TotalOne
        <3>4. QED BY <3>2, <3>3
    <2>3. h[k] \in Int
        OBVIOUS
    <2>4. QED BY <1>3, <2>1, <2>2, <2>3
<1>5. Total(T, h, n) \in Nat /\ Total(S \ T, h, n) \in Nat
    <2>1. \A i \in T : h[i] \in Nat
        OBVIOUS
    <2>2. QED BY <1>3, <2>1, TotalNat
<1>6. QED BY <1>2, <1>4, <1>5

\* Smaller amounts have a smaller total.
LEMMA TotalLeq ==
    ASSUME NEW n \in Nat, NEW S, NEW f, NEW g,
           \A i \in S : f[i] \in Int /\ g[i] \in Int /\ f[i] <= g[i]
    PROVE  Total(S, f, n) <= Total(S, g, n)
<1> DEFINE d == [i \in S |-> g[i] - f[i]]
<1>1. \A i \in S : d[i] \in Nat /\ f[i] \in Int /\ d[i] \in Int /\ g[i] = f[i] + d[i]
    OBVIOUS
<1> HIDE DEF d
<1>2. Total(S, g, n) = Total(S, f, n) + Total(S, d, n)
    BY <1>1, TotalAdd
<1>3. Total(S, d, n) \in Nat /\ Total(S, f, n) \in Int
    BY <1>1, TotalNat, TotalType
<1>4. QED BY <1>2, <1>3
-----------------------------------------------------------------------------
(* A quantity q that serves identifiers in an order: ahead[i] are those    *)
(* before i, and i is served what they leave of q.                         *)

\* What is served after a first part is what it leaves.
LEMMA ClampOfRest ==
    ASSUME NEW q \in Int, NEW b \in Nat, NEW c \in Nat
    PROVE  Clamp(q, b) + Clamp(q - b, c) = Clamp(q, b + c)
BY DEF Clamp

\* The type of what is served.
LEMMA ClampType ==
    ASSUME NEW x \in Int, NEW high \in Nat
    PROVE  Clamp(x, high) \in 0..high
BY DEF Clamp

\* Those of a rank below r, and of rank r.
Below(S, rank, r)  == {i \in S : rank[i] < r}
AtRank(S, rank, r) == {i \in S : rank[i] = r}

\* Nobody is below zero.
LEMMA BelowZero ==
    ASSUME NEW S, NEW rank \in [S -> Nat]
    PROVE  Below(S, rank, 0) = {}
<1>1. \A i \in S : ~ (rank[i] < 0)
    OBVIOUS
<1>2. QED BY <1>1 DEF Below

\* One rank up there are those of that rank too.
LEMMA BelowUp ==
    ASSUME NEW S, NEW rank \in [S -> Nat], NEW r \in Nat
    PROVE  /\ Below(S, rank, r) \in SUBSET S
           /\ Below(S, rank, r + 1) = Below(S, rank, r) \cup AtRank(S, rank, r)
<1>1. \A i \in S : rank[i] < r + 1 <=> rank[i] < r \/ rank[i] = r
    OBVIOUS
<1>2. QED BY <1>1 DEF Below, AtRank

\* Each identifier of S asks for a[i] and is served t[i], in the order of rank.
ServedBy(rank, S, q, a, t, n) ==
    /\ S \subseteq 1..n
    /\ rank \in [S -> Nat]
    /\ \A i, j \in S : rank[i] = rank[j] => i = j
    /\ \A i \in S : a[i] \in Nat
    /\ \A i \in S : t[i] \in Int
    /\ \A i \in S : t[i] = Clamp(q - Total(Below(S, rank, rank[i]), a, n), a[i])

\* All together are served q, or all that they ask for: if those of a rank
\* below p are, so are those of a rank below p + 1 ...
LEMMA ServedNextRank ==
    ASSUME NEW n \in Nat, NEW S, NEW q \in Int, NEW a, NEW t, NEW rank,
           ServedBy(rank, S, q, a, t, n), NEW p \in Nat,
           Total(Below(S, rank, p), t, n) = Clamp(q, Total(Below(S, rank, p), a, n))
    PROVE  Total(Below(S, rank, p + 1), t, n) = Clamp(q, Total(Below(S, rank, p + 1), a, n))
<1>1. rank \in [S -> Nat]
    BY DEF ServedBy
<1>2. /\ Below(S, rank, p) \in SUBSET S
      /\ Below(S, rank, p + 1) = Below(S, rank, p) \cup AtRank(S, rank, p)
    BY <1>1, BelowUp
<1>3. CASE \A i \in S : rank[i] # p
    <2>1. AtRank(S, rank, p) = {}
        BY <1>3 DEF AtRank
    <2>2. Below(S, rank, p + 1) = Below(S, rank, p)
        BY <1>2, <2>1
    <2>3. QED BY <2>2
<1>4. CASE \E i \in S : rank[i] = p
    <2>1. PICK i \in S : rank[i] = p
        BY <1>4
    <2>2. AtRank(S, rank, p) = {i}
        BY <2>1 DEF ServedBy, AtRank
    <2>3. i \notin Below(S, rank, p)
        <3>1. ~ (rank[i] < p)
            BY <1>1, <2>1
        <3>2. QED BY <3>1 DEF Below
    <2>4. PICK F, G : F = Below(S, rank, p) /\ G = Below(S, rank, p + 1)
        OBVIOUS
    <2>5. G = F \cup {i} /\ i \notin F
        BY <1>2, <2>2, <2>3, <2>4
    <2>6. F \in SUBSET S /\ G \in SUBSET S /\ i \in 1..n /\ a[i] \in Nat
        BY <1>2, <2>4, <2>5 DEF ServedBy
    <2>7. \A k \in F : a[k] \in Nat
        BY <2>6 DEF ServedBy
    <2>8. ASSUME NEW h, \A k \in G : h[k] \in Int
          PROVE  Total(G, h, n) = Total(F, h, n) + h[i]
        <3>1. F \in SUBSET G /\ G \ F = {i} /\ i \in 1..n /\ h[i] \in Int
            BY <2>5, <2>6, <2>8
        <3>2. Total(G, h, n) = Total(F, h, n) + Total(G \ F, h, n)
            BY <2>8, <3>1, TotalSplit
        <3>3. Total({i}, h, n) = h[i]
            BY <3>1, TotalOne
        <3>4. QED BY <3>1, <3>2, <3>3
    <2>9. Total(G, t, n) = Total(F, t, n) + t[i] /\ Total(G, a, n) = Total(F, a, n) + a[i]
        <3>1. (\A k \in G : t[k] \in Int) /\ (\A k \in G : a[k] \in Int)
            BY <2>6 DEF ServedBy
        <3>2. QED BY <2>8, <3>1
    <2>10. PICK x \in Nat, y \in Nat : x = Total(F, a, n) /\ y = a[i]
        BY <2>6, <2>7, TotalNat
    <2>11. t[i] = Clamp(q - x, y)
        BY <2>1, <2>4, <2>10 DEF ServedBy
    <2>12. Clamp(q, x) + Clamp(q - x, y) = Clamp(q, x + y)
        BY ClampOfRest
    <2>13. QED BY <2>4, <2>9, <2>10, <2>11, <2>12
<1>5. QED BY <1>3, <1>4

\* ... hence for every rank.
LEMMA ServedByRank ==
    ASSUME NEW n \in Nat, NEW S, NEW q \in Int, NEW a, NEW t, NEW rank,
           ServedBy(rank, S, q, a, t, n), NEW m \in Nat
    PROVE  Total(Below(S, rank, m), t, n) = Clamp(q, Total(Below(S, rank, m), a, n))
<1> DEFINE Holds(r) == Total(Below(S, rank, r), t, n) = Clamp(q, Total(Below(S, rank, r), a, n))
<1>1. Holds(0)
    <2>1. Below(S, rank, 0) = {}
        BY BelowZero DEF ServedBy
    <2>2. Total({}, t, n) = 0 /\ Total({}, a, n) = 0
        BY TotalEmpty
    <2>3. Clamp(q, 0) = 0
        BY DEF Clamp
    <2>4. QED BY <2>1, <2>2, <2>3
<1>2. ASSUME NEW r \in Nat, Holds(r)
      PROVE  Holds(r + 1)
    BY <1>2, ServedNextRank
<1> HIDE DEF Holds
<1>3. \A r \in Nat : Holds(r)
    <2> DEFINE T == {r \in Nat : ~ Holds(r)}
    <2>1. SUFFICES ASSUME T # {} PROVE FALSE
        OBVIOUS
    <2>2. PICK r \in T : \A p \in Nat : p < r => p \notin T
        BY <2>1, LeastElement
    <2>3. r # 0
        BY <1>1, <2>2
    <2>4. r - 1 \in Nat /\ Holds(r - 1) /\ (r - 1) + 1 = r
        BY <2>2, <2>3
    <2>5. Holds(r)
        BY <1>2, <2>4
    <2>6. QED BY <2>2, <2>5
<1>4. QED BY <1>3 DEF Holds

\* ahead[i] are those of S before i, in some order of S.
IsOrder(ahead, S) ==
    /\ \A i \in S : ahead[i] \in SUBSET S /\ i \notin ahead[i]
    /\ \A i, j \in S : i # j => i \in ahead[j] \/ j \in ahead[i]
    /\ \A i, j \in S : i \in ahead[j] => ahead[i] \in SUBSET ahead[j]

\* The number of those before i is a rank of that order.
LEMMA RankOfOrder ==
    ASSUME NEW n \in Nat, NEW S, S \subseteq 1..n, NEW ahead, IsOrder(ahead, S)
    PROVE  \E rank \in [S -> Nat], m \in Nat :
               /\ \A i \in S : rank[i] < m
               /\ \A i, j \in S : i \in ahead[j] <=> rank[i] < rank[j]
               /\ \A i, j \in S : rank[i] = rank[j] => i = j
<1> DEFINE one  == [i \in S |-> 1]
           rank == [i \in S |-> Total(ahead[i], one, n)]
           m    == Total(S, one, n) + 1
<1>1. \A i \in S : one[i] \in Nat /\ one[i] = 1
    OBVIOUS
<1> HIDE DEF one
<1>2. \A i \in S : Total(ahead[i], one, n) \in Nat
    <2>1. ASSUME NEW i \in S PROVE Total(ahead[i], one, n) \in Nat
        <3>1. \A k \in ahead[i] : one[k] \in Nat
            BY <1>1 DEF IsOrder
        <3>2. QED BY <3>1, TotalNat
    <2>2. QED BY <2>1
<1>3. Total(S, one, n) \in Nat /\ m \in Nat
    <2>1. Total(S, one, n) \in Nat
        BY <1>1, TotalNat
    <2>2. QED BY <2>1
<1>4. rank \in [S -> Nat]
    BY <1>2
<1>5. \A i \in S : rank[i] < m
    <2>1. ASSUME NEW i \in S PROVE Total(ahead[i], one, n) <= Total(S, one, n)
        <3>1. ahead[i] \in SUBSET S
            BY DEF IsOrder
        <3>2. QED BY <1>1, <3>1, TotalSubset
    <2>2. QED BY <1>2, <1>3, <2>1
<1>6. \A i, j \in S : j \in ahead[i] => rank[j] < rank[i]
    <2>1. ASSUME NEW i \in S, NEW j \in S, j \in ahead[i]
          PROVE  Total(ahead[j], one, n) + one[j] <= Total(ahead[i], one, n)
        <3>1. ahead[j] \in SUBSET ahead[i] /\ j \notin ahead[j] /\ j \in 1..n
            BY <2>1 DEF IsOrder
        <3>2. \A k \in ahead[i] : one[k] \in Nat
            BY <1>1 DEF IsOrder
        <3>3. QED BY <2>1, <3>1, <3>2, TotalRoom
    <2>2. ASSUME NEW i \in S, NEW j \in S, j \in ahead[i]
          PROVE  rank[j] < rank[i]
        <3>1. Total(ahead[j], one, n) + 1 <= Total(ahead[i], one, n)
            BY <1>1, <2>1, <2>2
        <3>2. QED BY <1>2, <3>1
    <2>3. QED BY <2>2
<1> HIDE DEF rank, m
<1>7. \A i, j \in S : i \in ahead[j] <=> rank[i] < rank[j]
    <2>1. ASSUME NEW i \in S, NEW j \in S, rank[i] < rank[j], i \notin ahead[j]
          PROVE  FALSE
        <3>1. i # j
            BY <1>4, <2>1
        <3>2. j \in ahead[i]
            BY <2>1, <3>1 DEF IsOrder
        <3>3. rank[j] < rank[i]
            BY <1>6, <3>2
        <3>4. QED BY <1>4, <2>1, <3>3
    <2>2. QED BY <1>6, <2>1
<1>8. \A i, j \in S : rank[i] = rank[j] => i = j
    <2>1. ASSUME NEW i \in S, NEW j \in S, rank[i] = rank[j], i # j
          PROVE  FALSE
        <3>1. i \in ahead[j] \/ j \in ahead[i]
            BY <2>1 DEF IsOrder
        <3>2. rank[i] < rank[j] \/ rank[j] < rank[i]
            BY <1>6, <3>1
        <3>3. QED BY <1>4, <2>1, <3>2
    <2>2. QED BY <2>1
<1>9. QED BY <1>3, <1>4, <1>5, <1>7, <1>8

\* Each identifier of S is served what those before it leave of q.
InTurn(ahead, S, q, a, t, n) ==
    /\ S \subseteq 1..n
    /\ IsOrder(ahead, S)
    /\ \A i \in S : a[i] \in Nat
    /\ \A i \in S : t[i] = Clamp(q - Total(ahead[i], a, n), a[i])

\* Together they are served q, or all that they ask for.
LEMMA ServedInOrder ==
    ASSUME NEW n \in Nat, NEW q \in Int, NEW S, NEW ahead, NEW a, NEW t,
           InTurn(ahead, S, q, a, t, n)
    PROVE  Total(S, t, n) = Clamp(q, Total(S, a, n))
<1>0. /\ S \subseteq 1..n /\ IsOrder(ahead, S)
      /\ \A i \in S : a[i] \in Nat
      /\ \A i \in S : t[i] = Clamp(q - Total(ahead[i], a, n), a[i])
    BY DEF InTurn
<1>1. PICK rank \in [S -> Nat], m \in Nat :
          /\ \A i \in S : rank[i] < m
          /\ \A i, j \in S : i \in ahead[j] <=> rank[i] < rank[j]
          /\ \A i, j \in S : rank[i] = rank[j] => i = j
    BY <1>0, RankOfOrder
<1>2. \A i \in S : ahead[i] = Below(S, rank, rank[i])
    <2>1. ASSUME NEW i \in S, NEW j PROVE j \in ahead[i] <=> j \in Below(S, rank, rank[i])
        <3>1. ahead[i] \in SUBSET S
            BY <1>0 DEF IsOrder
        <3>2. QED BY <1>1, <3>1 DEF Below
    <2>2. QED BY <2>1
<1>3. \A i \in S : t[i] \in Int
    <2>1. ASSUME NEW i \in S PROVE t[i] \in Int
        <3>1. \A k \in ahead[i] : a[k] \in Nat
            BY <1>0 DEF IsOrder
        <3>2. Total(ahead[i], a, n) \in Nat
            BY <3>1, TotalNat
        <3>3. PICK x \in Int, high \in Nat : x = q - Total(ahead[i], a, n) /\ high = a[i]
            BY <1>0, <3>2
        <3>4. Clamp(x, high) \in 0..high
            BY ClampType
        <3>5. QED BY <1>0, <3>3, <3>4
    <2>2. QED BY <2>1
<1>4. ServedBy(rank, S, q, a, t, n)
    BY <1>0, <1>1, <1>2, <1>3 DEF ServedBy
<1>5. Below(S, rank, m) = S
    BY <1>1 DEF Below
<1>6. QED BY <1>4, <1>5, ServedByRank
=============================================================================
