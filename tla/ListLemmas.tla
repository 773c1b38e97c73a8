----------------------------- MODULE ListLemmas -----------------------------
(***************************************************************************)
(* Lemmas about sequences and what is in them, and about functions defined *)
(* by recursion over the first natural numbers.  Induction is the least    *)
(* element of a set of numbers: the set of counterexamples.                *)
(***************************************************************************)
EXTENDS Lists, WellFoundedInduction, TLAPS

LEMMA WithoutProperties ==
  ASSUME NEW S, NEW s \in Seq(S), NEW i \in 1 .. Len(s)
  PROVE  /\ Without(s, i) \in Seq(S)
         /\ Len(Without(s, i)) = Len(s) - 1
         /\ \A j \in 1 .. Len(s) - 1 :
              Without(s, i)[j] = s[IF j < i THEN j ELSE j + 1]
  BY DEF Without

LEMMA ConcatenationProperties ==
  ASSUME NEW S, NEW s \in Seq(S), NEW t \in Seq(S)
  PROVE  /\ s \o t \in Seq(S)
         /\ Len(s \o t) = Len(s) + Len(t)
         /\ \A j \in 1 .. Len(s) + Len(t) :
              (s \o t)[j] = IF j <= Len(s) THEN s[j] ELSE t[j - Len(s)]
  OBVIOUS

\* What is in a sequence, and in one after a change made to it.
LEMMA InRange ==
  ASSUME NEW S, NEW s \in Seq(S), NEW e
  PROVE  e \in Range(s) <=> \E j \in 1 .. Len(s) : e = s[j]
  BY DEF Range

LEMMA RangeWithout ==
  ASSUME NEW S, NEW s \in Seq(S), NEW i \in 1 .. Len(s)
  PROVE  Range(Without(s, i)) \subseteq Range(s)
  <1> DEFINE w == Without(s, i)
  <1>1. /\ w \in Seq(S) /\ Len(w) = Len(s) - 1
        /\ \A j \in 1 .. Len(s) - 1 : w[j] = s[IF j < i THEN j ELSE j + 1]
    BY WithoutProperties
  <1> HIDE DEF w
  <1>2. SUFFICES ASSUME NEW j \in 1 .. Len(s) - 1 PROVE w[j] \in Range(s)
    BY <1>1, InRange DEF w
  <1>3. (IF j < i THEN j ELSE j + 1) \in 1 .. Len(s)
    OBVIOUS
  <1> QED  BY <1>1, <1>3, InRange

LEMMA RangeOfBoth ==
  ASSUME NEW S, NEW s \in Seq(S), NEW t \in Seq(S)
  PROVE  Range(s \o t) = Range(s) \cup Range(t)
  <1> DEFINE c == s \o t
  <1>1. /\ c \in Seq(S) /\ Len(c) = Len(s) + Len(t)
        /\ \A j \in 1 .. Len(s) + Len(t) :
             c[j] = IF j <= Len(s) THEN s[j] ELSE t[j - Len(s)]
    BY ConcatenationProperties
  <1> HIDE DEF c
  <1>2. ASSUME NEW e \in Range(c) PROVE e \in Range(s) \cup Range(t)
    <2>1. PICK j \in 1 .. Len(s) + Len(t) : e = c[j]
      BY <1>1, <1>2, InRange
    <2>2. CASE j <= Len(s)
      <3>1. j \in 1 .. Len(s) /\ e = s[j]
        BY <1>1, <2>1, <2>2
      <3> QED  BY <3>1, InRange
    <2>3. CASE j > Len(s)
      <3>1. j - Len(s) \in 1 .. Len(t) /\ e = t[j - Len(s)]
        BY <1>1, <2>1, <2>3
      <3> QED  BY <3>1, InRange
    <2> QED  BY <2>2, <2>3
  <1>3. ASSUME NEW e \in Range(s) PROVE e \in Range(c)
    <2>1. PICK j \in 1 .. Len(s) : e = s[j]
      BY <1>3, InRange
    <2>2. j \in 1 .. Len(c) /\ e = c[j]
      BY <1>1, <2>1
    <2> QED  BY <1>1, <2>2, InRange
  <1>4. ASSUME NEW e \in Range(t) PROVE e \in Range(c)
    <2>1. PICK j \in 1 .. Len(t) : e = t[j]
      BY <1>4, InRange
    <2>2. Len(s) + j \in 1 .. Len(c) /\ e = c[Len(s) + j]
      <3>1. /\ Len(s) + j \in 1 .. Len(s) + Len(t)
            /\ ~ (Len(s) + j <= Len(s))
            /\ (Len(s) + j) - Len(s) = j
        OBVIOUS
      <3> QED  BY <1>1, <2>1, <3>1
    <2> QED  BY <1>1, <2>2, InRange
  <1> QED  BY <1>2, <1>3, <1>4 DEF c

LEMMA RangeAppend ==
  ASSUME NEW S, NEW s \in Seq(S), NEW e \in S
  PROVE  Range(Append(s, e)) = Range(s) \cup {e}
  <1>1. Append(s, e) = s \o <<e>> /\ <<e>> \in Seq(S)
    OBVIOUS
  <1>2. Range(<<e>>) = {e}
    BY DEF Range
  <1> DEFINE one == <<e>>
  <1>3. Range(s \o one) = Range(s) \cup Range(one)
    <2> HIDE DEF one
    <2>1. one \in Seq(S)
      BY <1>1 DEF one
    <2> QED  BY <2>1, RangeOfBoth
  <1> QED  BY <1>1, <1>2, <1>3

LEMMA RangeEmpty == Range(<<>>) = {}
  BY DEF Range

LEMMA RangeSingle == ASSUME NEW e PROVE Range(<<e>>) = {e}
  BY DEF Range

\* The two parts of a sequence together.
LEMMA RangeSplit ==
  ASSUME NEW S, NEW s \in Seq(S), NEW i \in 1 .. Len(s) + 1
  PROVE  /\ SubSeq(s, 1, i - 1) \in Seq(S) /\ SubSeq(s, i, Len(s)) \in Seq(S)
         /\ Len(SubSeq(s, 1, i - 1)) = i - 1 /\ Len(SubSeq(s, i, Len(s))) = Len(s) - i + 1
         /\ Range(SubSeq(s, 1, i - 1)) = {s[j] : j \in 1 .. i - 1}
         /\ Range(SubSeq(s, i, Len(s))) = {s[j] : j \in i .. Len(s)}
         /\ Range(s) = Range(SubSeq(s, 1, i - 1)) \cup Range(SubSeq(s, i, Len(s)))
  <1> DEFINE a == SubSeq(s, 1, i - 1)
             b == SubSeq(s, i, Len(s))
  <1>1. /\ a \in Seq(S) /\ Len(a) = i - 1 /\ \A j \in 1 .. i - 1 : a[j] = s[j]
        /\ b \in Seq(S) /\ Len(b) = Len(s) - i + 1
        /\ \A j \in 1 .. Len(s) - i + 1 : b[j] = s[i + j - 1]
    OBVIOUS
  <1> HIDE DEF a, b
  <1>2. Range(a) = {s[j] : j \in 1 .. i - 1}
    <2>1. \A e : e \in Range(a) <=> \E j \in 1 .. i - 1 : e = a[j]
      BY <1>1, InRange
    <2>2. \A e : e \in Range(a) <=> \E j \in 1 .. i - 1 : e = s[j]
      BY <1>1, <2>1
    <2> QED  BY <2>2
  <1>3. ASSUME NEW e \in Range(b) PROVE \E j \in i .. Len(s) : e = s[j]
    <2>1. PICK j \in 1 .. Len(s) - i + 1 : e = b[j]
      BY <1>1, InRange
    <2>2. i + j - 1 \in i .. Len(s) /\ e = s[i + j - 1]
      BY <1>1, <2>1
    <2> QED  BY <2>2
  <1>4. ASSUME NEW j \in i .. Len(s) PROVE s[j] \in Range(b)
    <2>1. j - i + 1 \in 1 .. Len(b) /\ i + (j - i + 1) - 1 = j
      BY <1>1
    <2>2. b[j - i + 1] = s[j]
      BY <1>1, <2>1
    <2> QED  BY <1>1, <2>1, <2>2, InRange
  <1>5. Range(b) = {s[j] : j \in i .. Len(s)}
    BY <1>3, <1>4
  <1>6. Range(s) = {s[j] : j \in 1 .. Len(s)}
    BY DEF Range
  <1>7. 1 .. Len(s) = (1 .. i - 1) \cup (i .. Len(s))
    OBVIOUS
  <1> QED  BY <1>1, <1>2, <1>5, <1>6, <1>7 DEF a, b

----------------------------------------------------------------------------
(* Induction and recursion.                                                *)

LEMMA LeastNumber ==
  ASSUME NEW T \in SUBSET Nat, T # {}
  PROVE  \E n \in T : \A m \in T : n <= m
  <1> DEFINE R == OpToRel(<, Nat)
  <1>1. IsWellFoundedOn(R, Nat)
    BY NatLessThanWellFounded
  <1>2. \A x, y \in Nat : x < y => <<x, y>> \in R
    BY DEF OpToRel
  <1> HIDE DEF R
  <1>3. PICK n \in T : \A m \in T : ~ (<<m, n>> \in R)
    BY <1>1, WFMin
  <1>4. \A m \in T : m \in Nat /\ n \in Nat /\ ~ (m < n)
    BY <1>2, <1>3
  <1> QED  BY <1>4

LEMMA InductiveSet ==
  ASSUME NEW S, 0 \in S, \A n \in Nat : n \in S => n + 1 \in S
  PROVE  Nat \subseteq S
  <1> SUFFICES ASSUME Nat \ S # {} PROVE FALSE
    OBVIOUS
  <1>1. PICK n \in Nat \ S : \A m \in Nat \ S : n <= m
    BY LeastNumber
  <1>2. n # 0 /\ n - 1 \in Nat /\ (n - 1) + 1 = n /\ ~ (n <= n - 1)
    BY <1>1
  <1>3. n - 1 \in S
    BY <1>1, <1>2
  <1> QED  BY <1>1, <1>2, <1>3

\* What every step of a function leads to, its last value is.
LEMMA StepsLead ==
  ASSUME NEW T, NEW N \in Nat, NEW f, f[0] \in T[0],
         \A i \in 1 .. N : f[i - 1] \in T[i - 1] => f[i] \in T[i]
  PROVE  f[N] \in T[N]
  <1> DEFINE S == {i \in Nat : i <= N => f[i] \in T[i]}
  <1>1. 0 \in S
    OBVIOUS
  <1>2. ASSUME NEW n \in Nat, n \in S PROVE n + 1 \in S
    <2> SUFFICES ASSUME n + 1 <= N PROVE f[n + 1] \in T[n + 1]
      OBVIOUS
    <2>1. n + 1 \in 1 .. N /\ (n + 1) - 1 = n /\ f[n] \in T[n]
      BY <1>2
    <2> QED  BY <2>1
  <1> HIDE DEF S
  <1>3. Nat \subseteq S
    BY <1>1, <1>2, InductiveSet
  <1> QED  BY <1>3 DEF S

\* The values of f are reached from first by the steps of G.
AreSteps(f, N, first, G) == f[0] = first /\ \A i \in 1 .. N : f[i] = G[<<i, f[i - 1]>>]

\* Where every step is given by a function on T, there is a sequence of steps.
LEMMA StepsExist ==
  ASSUME NEW T, NEW N \in Nat, NEW first \in T, NEW G \in [(1 .. N) \X T -> T]
  PROVE  \E f \in [0 .. N -> T] : AreSteps(f, N, first, G)
  <1> DEFINE Upto(n, f) ==
               /\ f \in [0 .. n -> T] /\ f[0] = first
               /\ \A i \in 1 .. n : f[i] = G[<<i, f[i - 1]>>]
             S == {n \in Nat : n <= N => \E f \in [0 .. n -> T] : Upto(n, f)}
  <1>1. 0 \in S
    <2>1. Upto(0, [i \in 0 .. 0 |-> first])
      OBVIOUS
    <2> QED  BY <2>1
  <1>2. ASSUME NEW n \in Nat, n \in S PROVE n + 1 \in S
    <2> SUFFICES ASSUME n + 1 <= N PROVE \E f \in [0 .. n + 1 -> T] : Upto(n + 1, f)
      OBVIOUS
    <2>1. PICK f \in [0 .. n -> T] : Upto(n, f)
      BY <1>2
    <2> DEFINE g == [i \in 0 .. n + 1 |-> IF i = n + 1 THEN G[<<n + 1, f[n]>>] ELSE f[i]]
    <2>2. n \in 0 .. n /\ f[n] \in T /\ <<n + 1, f[n]>> \in (1 .. N) \X T
      BY <2>1
    <2>3. G[<<n + 1, f[n]>>] \in T
      BY <2>2
    <2>4. /\ DOMAIN g = 0 .. n + 1 /\ g[n + 1] = G[<<n + 1, f[n]>>]
          /\ \A i \in 0 .. n : g[i] = f[i]
      OBVIOUS
    <2>5. g \in [0 .. n + 1 -> T]
      BY <2>1, <2>3
    <2> HIDE DEF g
    <2>6. g[0] = first
      BY <2>1, <2>4
    <2>7. ASSUME NEW i \in 1 .. n + 1 PROVE g[i] = G[<<i, g[i - 1]>>]
      <3>1. CASE i = n + 1
        <4>1. g[i - 1] = f[n]
          BY <2>2, <2>4, <3>1
        <4> QED  BY <2>4, <3>1, <4>1
      <3>2. CASE i # n + 1
        <4>1. i \in 1 .. n /\ i \in 0 .. n /\ i - 1 \in 0 .. n
          BY <3>2
        <4> QED  BY <2>1, <2>4, <4>1
      <3> QED  BY <3>1, <3>2
    <2> QED  BY <2>5, <2>6, <2>7
  <1> HIDE DEF S
  <1>3. N \in S
    BY <1>1, <1>2, InductiveSet
  <1> QED  BY <1>3 DEF S, AreSteps

\* What is in T wherever all that is less by the measure M is in T, is all in T.
Inductive(S, T, M) ==
  M \in [S -> Nat] /\ \A x \in S : (\A y \in S : M[y] < M[x] => y \in T) => x \in T

LEMMA MeasureInduction ==
  ASSUME NEW S, NEW T, NEW M, Inductive(S, T, M) PROVE S \subseteq T
  <1> DEFINE N == {n \in Nat : \A x \in S : M[x] < n => x \in T}
  <1>1. \A x \in S : M[x] \in Nat
    BY DEF Inductive
  <1>2. 0 \in N
    BY <1>1
  <1>3. ASSUME NEW n \in Nat, n \in N PROVE n + 1 \in N
    <2> SUFFICES ASSUME NEW x \in S, M[x] < n + 1 PROVE x \in T
      OBVIOUS
    <2>1. \A y \in S : M[y] < M[x] => M[y] < n
      BY <1>1
    <2> QED  BY <1>3, <2>1 DEF Inductive
  <1> HIDE DEF N
  <1>4. Nat \subseteq N
    BY <1>2, <1>3, InductiveSet
  <1> SUFFICES ASSUME NEW x \in S PROVE x \in T
    OBVIOUS
  <1>5. M[x] + 1 \in Nat /\ M[x] < M[x] + 1
    BY <1>1
  <1> QED  BY <1>4, <1>5 DEF N

\* The value at x follows, by G, from those where the measure M is less.
Recursive(S, V, M, G) ==
  /\ M \in [S -> Nat] /\ G \in [S \X [S -> V] -> V]
  /\ \A x \in S : \A f, g \in [S -> V] :
       (\A y \in S : M[y] < M[x] => f[y] = g[y]) => G[<<x, f>>] = G[<<x, g>>]

Computes(f, S, G) == \A x \in S : f[x] = G[<<x, f>>]

\* So there is such a function, whatever it is that it computes.
LEMMA RecursionExists ==
  ASSUME NEW S, NEW V, NEW v \in V, NEW M, NEW G, Recursive(S, V, M, G)
  PROVE  \E f \in [S -> V] : Computes(f, S, G)
  <1> DEFINE F == [S -> V]
             Below(n, f, g) == \A x \in S : M[x] < n => f[x] = g[x]
             Upto(n, f) == \A x \in S : M[x] < n => f[x] = G[<<x, f>>]
             N == {n \in Nat : \E f \in F : Upto(n, f)}
  <1>1. \A x \in S : \A f, g \in F : Below(M[x], f, g) => G[<<x, f>>] = G[<<x, g>>]
    BY DEF Recursive
  <1>0. \A x \in S : M[x] \in Nat
    BY DEF Recursive
  <1>2. \A x \in S, f \in F : f[x] \in V /\ G[<<x, f>>] \in V
    BY DEF Recursive
  <1>3. 0 \in N
    <2> DEFINE f == [x \in S |-> v]
    <2>1. f \in F
      OBVIOUS
    <2>2. Upto(0, f)
      BY <1>0, <1>2
    <2> QED  BY <2>1, <2>2
  <1>4. ASSUME NEW n \in Nat, n \in N PROVE n + 1 \in N
    <2>1. PICK f \in F : Upto(n, f)
      BY <1>4
    <2> DEFINE g == [x \in S |-> G[<<x, f>>]]
    <2>2. g \in F /\ \A x \in S : g[x] = G[<<x, f>>]
      BY <1>0, <1>2
    <2> HIDE DEF g
    <2>3. Below(n, f, g)
      BY <2>1, <2>2
    <2>4. ASSUME NEW x \in S, M[x] < n + 1 PROVE g[x] = G[<<x, g>>]
      <3>1. Below(M[x], f, g)
        BY <1>0, <1>2, <2>3, <2>4
      <3> QED  BY <1>1, <2>2, <3>1
    <2> QED  BY <2>2, <2>4
  <1> HIDE DEF N
  <1>5. \A n \in Nat : \E f \in F : Upto(n, f)
    BY <1>3, <1>4, InductiveSet DEF N
  <1>6. ASSUME NEW n \in Nat, NEW f \in F, NEW g \in F, Upto(n, f), Upto(n, g)
        PROVE  Below(n, f, g)
    <2> DEFINE K == {m \in Nat : m <= n => Below(m, f, g)}
    <2>1. 0 \in K
      BY <1>0, <1>2
    <2>2. ASSUME NEW m \in Nat, m \in K PROVE m + 1 \in K
      <3> SUFFICES ASSUME m + 1 <= n, NEW x \in S, M[x] < m + 1 PROVE f[x] = g[x]
        OBVIOUS
      <3>1. Below(m, f, g) /\ M[x] <= m /\ M[x] < n
        BY <1>0, <1>2, <2>2
      <3>2. Below(M[x], f, g)
        BY <1>0, <1>2, <3>1
      <3>3. G[<<x, f>>] = G[<<x, g>>]
        BY <1>1, <3>2
      <3> QED  BY <1>6, <3>1, <3>3
    <2> HIDE DEF K
    <2>3. n \in K
      BY <2>1, <2>2, InductiveSet
    <2> QED  BY <2>3 DEF K
  <1> DEFINE h(n) == CHOOSE f \in F : Upto(n, f)
             f == [x \in S |-> h(M[x] + 1)[x]]
  <1>7. \A n \in Nat : h(n) \in F /\ Upto(n, h(n))
    BY <1>5
  <1> HIDE DEF h, Upto, Below
  <1>8. \A x \in S : M[x] + 1 \in Nat /\ h(M[x] + 1) \in F
    BY <1>0, <1>2, <1>7
  <1>9. f \in F /\ \A x \in S : f[x] = h(M[x] + 1)[x]
    BY <1>0, <1>2, <1>8
  <1> HIDE DEF f
  <1>10. ASSUME NEW n \in Nat PROVE Below(n, f, h(n))
    <2> SUFFICES ASSUME NEW x \in S, M[x] < n PROVE f[x] = h(n)[x]
      BY DEF Below
    <2> DEFINE m == M[x] + 1
    <2>1. m \in Nat /\ m <= n /\ M[x] < m
      BY <1>0, <1>2
    <2>2. Upto(m, h(n)) /\ Upto(m, h(m)) /\ h(n) \in F /\ h(m) \in F
      <3> HIDE DEF m
      <3>1. Upto(n, h(n)) /\ h(n) \in F /\ Upto(m, h(m)) /\ h(m) \in F
        BY <1>7, <2>1
      <3>2. \A y \in S : M[y] < m => M[y] < n
        BY <1>0, <1>2, <2>1
      <3> QED  BY <3>1, <3>2 DEF Upto
    <2> HIDE DEF m
    <2>3. Below(m, h(n), h(m))
      BY <1>6, <2>1, <2>2
    <2> QED  BY <1>9, <2>1, <2>3 DEF Below, m
  <1>11. ASSUME NEW x \in S PROVE f[x] = G[<<x, f>>]
    <2> DEFINE m == M[x] + 1
               g == h(m)
    <2>1. m \in Nat /\ M[x] \in Nat /\ M[x] < m
      BY <1>0, <1>2
    <2>2. g \in F /\ Upto(m, g) /\ Below(m, f, g)
      BY <1>7, <1>10, <2>1
    <2>3. f[x] = g[x]
      BY <1>9
    <2> HIDE DEF g, m
    <2>4. \A y \in S : M[y] < M[x] => M[y] < m
      BY <1>0, <1>2, <2>1
    <2>5. Below(M[x], f, g)
      BY <2>2, <2>4 DEF Below
    <2>6. G[<<x, f>>] = G[<<x, g>>]
      BY <1>1, <1>9, <2>2, <2>5
    <2>7. g[x] = G[<<x, g>>]
      BY <2>1, <2>2 DEF Upto
    <2> QED  BY <2>3, <2>6, <2>7
  <1> QED  BY <1>9, <1>11 DEF Computes

=============================================================================
