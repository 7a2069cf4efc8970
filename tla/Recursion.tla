------------------------------ MODULE Recursion ------------------------------
(***************************************************************************)
(* Induction over the natural numbers, and the existence of the functions  *)
(* recursion defines over them.  Both are stated with sets and functions   *)
(* instead of operators, which every prover can instantiate; they unfold   *)
(* the recursive functions of the other modules.                           *)
(***************************************************************************)
EXTENDS Integers, Sequences, FiniteSets, TLAPS, WellFoundedInduction, FiniteSetTheorems, SequencesExt, Lists

\* A set of natural numbers that is not empty has a least element.
LEMMA LeastElement ==
  ASSUME NEW T \in SUBSET Nat, T # {}
  PROVE  \E n \in T : \A m \in T : n <= m
<1> DEFINE U == {0 .. n : n \in T}
<1>1. U \subseteq FiniteSubsetsOf(Nat) /\ U # {}
  <2>1. \A n \in T : 0 .. n \in SUBSET Nat /\ IsFiniteSet(0 .. n)
    BY FS_Interval
  <2>2. QED
    BY <2>1 DEF FiniteSubsetsOf
<1>2. IsWellFoundedOn(StrictSubsetOrdering(Nat), FiniteSubsetsOf(Nat))
  BY FS_StrictSubsetOrderingWellFounded
<1> HIDE DEF U
<1>3. PICK X \in U : \A Y \in U : ~ (<<Y, X>> \in StrictSubsetOrdering(Nat))
  BY <1>1, <1>2, WFMin
<1>4. PICK n \in T : X = 0 .. n
  BY <1>3 DEF U
<1>5. ASSUME NEW m \in T, m < n  PROVE FALSE
  <2>1. 0 .. m \in U
    BY DEF U
  <2>2. 0 .. m \subseteq 0 .. n /\ 0 .. m # 0 .. n
    BY <1>5
  <2>3. <<0 .. m, 0 .. n>> \in StrictSubsetOrdering(Nat)
    BY <2>2 DEF StrictSubsetOrdering
  <2>4. QED
    BY <2>1, <2>3, <1>3, <1>4
<1>6. QED
  BY <1>5

\* Induction: a set with 0 and the successors of its members holds all.
LEMMA SetInduction ==
  ASSUME NEW S \in SUBSET Nat, 0 \in S, \A n \in S : n + 1 \in S
  PROVE  S = Nat
<1>1. SUFFICES ASSUME Nat \ S # {}  PROVE FALSE
  OBVIOUS
<1>2. PICK n \in Nat \ S : \A m \in Nat \ S : n <= m
  BY <1>1, LeastElement
<1>3. n - 1 \in Nat /\ n - 1 \in S
  BY <1>2
<1>4. QED
  BY <1>2, <1>3

-----------------------------------------------------------------------------

\* g follows from a by F up to its argument n.
Follows(g, n, a, F) == g[0] = a /\ \A m \in 0 .. n - 1 : g[m + 1] = F[m][g[m]]

\* Whatever follows from a by F has one value at each argument.
LEMMA FollowsUnique ==
  ASSUME NEW a, NEW F, NEW n \in Nat, NEW k \in Nat, NEW g, NEW h,
         Follows(g, n, a, F), Follows(h, k, a, F)
  PROVE  \A m \in Nat : m <= n /\ m <= k => g[m] = h[m]
<1> DEFINE S == {m \in Nat : m <= n /\ m <= k => g[m] = h[m]}
<1>1. 0 \in S
  BY DEF Follows
<1>2. ASSUME NEW m \in S  PROVE m + 1 \in S
  <2>1. SUFFICES ASSUME m + 1 <= n, m + 1 <= k  PROVE g[m + 1] = h[m + 1]
    OBVIOUS
  <2>2. m \in 0 .. n - 1 /\ m \in 0 .. k - 1 /\ g[m] = h[m]
    BY <2>1
  <2>3. QED
    BY <2>2 DEF Follows
<1> HIDE DEF S
<1>3. S = Nat
  BY <1>1, <1>2, SetInduction DEF S
<1>4. QED
  BY <1>3 DEF S

\* f is defined by recursion: it starts with a, and F gives its next value.
IsRecursion(f, V, a, F) ==
  f \in [Nat -> V] /\ f[0] = a /\ \A n \in Nat : f[n + 1] = F[n][f[n]]

\* There is a function that starts with a and whose next value is F of the
\* argument and of the value there.
LEMMA RecursionExists ==
  ASSUME NEW V, NEW a \in V, NEW F \in [Nat -> [V -> V]]
  PROVE  \E f : IsRecursion(f, V, a, F)
<1> DEFINE S == {n \in Nat : \E g \in [0 .. n -> V] : Follows(g, n, a, F)}
<1>1. 0 \in S
  <2> DEFINE g == [i \in 0 .. 0 |-> a]
  <2>1. g \in [0 .. 0 -> V] /\ Follows(g, 0, a, F)
    BY DEF Follows
  <2>2. QED
    BY <2>1
<1>2. ASSUME NEW n \in S  PROVE n + 1 \in S
  <2>1. PICK g \in [0 .. n -> V] : Follows(g, n, a, F)
    OBVIOUS
  <2> DEFINE h == [i \in 0 .. n + 1 |-> IF i = n + 1 THEN F[n][g[n]] ELSE g[i]]
  <2>2. h \in [0 .. n + 1 -> V]
    OBVIOUS
  <2>3. ASSUME NEW m \in 0 .. (n + 1) - 1  PROVE h[m + 1] = F[m][h[m]]
    <3>1. m \in 0 .. n /\ h[m] = g[m]
      OBVIOUS
    <3>2. CASE m = n
      <4>1. h[n + 1] = F[n][g[n]]
        OBVIOUS
      <4>2. h[m + 1] = h[n + 1] /\ g[n] = h[m]
        BY <3>1, <3>2
      <4> HIDE DEF h
      <4>3. QED
        BY <3>2, <4>1, <4>2
    <3>3. CASE m # n
      <4>1. m \in 0 .. n - 1 /\ h[m + 1] = g[m + 1]
        BY <3>3
      <4>2. g[m + 1] = F[m][g[m]]
        BY <4>1, <2>1 DEF Follows
      <4> HIDE DEF h
      <4>3. QED
        BY <3>1, <4>1, <4>2
    <3>4. QED
      BY <3>2, <3>3
  <2>4. h[0] = a
    BY <2>1 DEF Follows
  <2> HIDE DEF h
  <2>5. Follows(h, n + 1, a, F)
    BY <2>3, <2>4 DEF Follows
  <2>6. QED
    BY <2>2, <2>5
<1> HIDE DEF S
<1>3. S = Nat
  BY <1>1, <1>2, SetInduction DEF S
<1> DEFINE G(n) == CHOOSE g \in [0 .. n -> V] : Follows(g, n, a, F)
           f == [n \in Nat |-> G(n)[n]]
<1>4. ASSUME NEW n \in Nat  PROVE G(n) \in [0 .. n -> V] /\ Follows(G(n), n, a, F)
  BY <1>3 DEF S
<1> HIDE DEF G
<1>5. f \in [Nat -> V]
  <2>1. ASSUME NEW n \in Nat  PROVE G(n)[n] \in V
    BY <1>4
  <2>2. QED
    BY <2>1
<1>6. f[0] = a
  BY <1>4 DEF Follows
<1>7. ASSUME NEW n \in Nat  PROVE f[n + 1] = F[n][f[n]]
  <2>1. n + 1 \in Nat /\ n \in 0 .. (n + 1) - 1
    OBVIOUS
  <2>2. Follows(G(n), n, a, F) /\ Follows(G(n + 1), n + 1, a, F)
    BY <1>4, <2>1
  <2>3. G(n + 1)[n] = G(n)[n]
    BY <2>1, <2>2, FollowsUnique
  <2>4. G(n + 1)[n + 1] = F[n][G(n + 1)[n]]
    BY <2>1, <2>2 DEF Follows
  <2>5. QED
    BY <2>1, <2>3, <2>4
<1>8. QED
  BY <1>5, <1>6, <1>7 DEF IsRecursion

\* Induction up to N.
LEMMA UpTo ==
  ASSUME NEW N \in Nat, NEW S, 0 \in S, \A n \in 0 .. N - 1 : n \in S => n + 1 \in S
  PROVE  0 .. N \subseteq S
<1> DEFINE T == {n \in Nat : n <= N => n \in S}
<1>1. 0 \in T
  OBVIOUS
<1>2. ASSUME NEW n \in T  PROVE n + 1 \in T
  <2>1. n + 1 <= N => n \in 0 .. N - 1
    OBVIOUS
  <2>2. QED
    BY <2>1
<1> HIDE DEF T
<1>3. T = Nat
  BY <1>1, <1>2, SetInduction DEF T
<1>4. QED
  BY <1>3 DEF T

\* g is defined by recursion on an interval.
IsRecursionTo(g, N, V, a, F) ==
  g \in [0 .. N -> V] /\ g[0] = a /\ \A n \in 1 .. N : g[n] = F[n][g[n - 1]]

\* There is a function that follows from a by F on an interval.
LEMMA RecursionTo ==
  ASSUME NEW N \in Nat, NEW V, NEW a \in V, NEW F \in [1 .. N -> [V -> V]]
  PROVE  \E g : IsRecursionTo(g, N, V, a, F)
<1> DEFINE G == [n \in Nat |-> IF n < N THEN F[n + 1] ELSE [v \in V |-> v]]
<1>1. G \in [Nat -> [V -> V]]
  <2>1. ASSUME NEW n \in Nat  PROVE (IF n < N THEN F[n + 1] ELSE [v \in V |-> v]) \in [V -> V]
    <3>1. n < N => n + 1 \in 1 .. N
      OBVIOUS
    <3>2. QED
      BY <3>1
  <2>2. QED
    BY <2>1
<1>2. PICK f : IsRecursion(f, V, a, G)
  <2> HIDE DEF G
  <2>1. QED
    BY <1>1, RecursionExists
<1> DEFINE g == [n \in 0 .. N |-> f[n]]
<1>3. g \in [0 .. N -> V] /\ g[0] = a
  BY <1>2 DEF IsRecursion
<1>4. ASSUME NEW n \in 1 .. N  PROVE g[n] = F[n][g[n - 1]]
  <2>1. n - 1 \in Nat /\ n - 1 < N /\ (n - 1) + 1 = n
    OBVIOUS
  <2>2. f[(n - 1) + 1] = G[n - 1][f[n - 1]]
    BY <1>2, <2>1 DEF IsRecursion
  <2>3. G[n - 1] = F[n]
    BY <2>1
  <2>4. n \in 0 .. N /\ n - 1 \in 0 .. N
    OBVIOUS
  <2>5. QED
    BY <2>1, <2>2, <2>3, <2>4
<1>5. QED
  BY <1>3, <1>4 DEF IsRecursionTo

\* What goes on by F from a has its values where F has them.
LEMMA RecursionTyped ==
  ASSUME NEW N \in Nat, NEW V, NEW f, f = [n \in 0 .. N |-> f[n]], f[0] \in V,
         \A n \in 1 .. N : f[n - 1] \in V => f[n] \in V
  PROVE  f \in [0 .. N -> V]
<1> DEFINE S == {n \in 0 .. N : f[n] \in V}
<1>1. 0 \in S
  OBVIOUS
<1>2. ASSUME NEW n \in 0 .. N - 1, n \in S  PROVE n + 1 \in S
  <2>1. n + 1 \in 1 .. N /\ (n + 1) - 1 = n /\ n + 1 \in 0 .. N
    OBVIOUS
  <2>2. QED
    BY <1>2, <2>1
<1> HIDE DEF S
<1>3. 0 .. N \subseteq S
  BY <1>1, <1>2, UpTo
<1>4. QED
  BY <1>3 DEF S

-----------------------------------------------------------------------------
(* Counting.                                                               *)

\* An interval from 1 has as many numbers as it says.
LEMMA CountTo ==
  ASSUME NEW n \in Nat
  PROVE  IsFiniteSet(1 .. n) /\ Cardinality(1 .. n) = n
<1>1. IsFiniteSet(1 .. n) /\ Cardinality(1 .. n) = IF 1 > n THEN 0 ELSE n - 1 + 1
  <2>1. 1 \in Int /\ n \in Int
    OBVIOUS
  <2>2. QED
    BY <2>1, FS_Interval, Zenon
<1>2. n = IF 1 > n THEN 0 ELSE n - 1 + 1
  OBVIOUS
<1>3. QED
  BY <1>1, <1>2

\* Different images of the first n numbers are n.
LEMMA ImageCount ==
  ASSUME NEW n \in Nat, NEW f, \A i, j \in 1 .. n : f[i] = f[j] => i = j
  PROVE  IsFiniteSet({f[i] : i \in 1 .. n}) /\ Cardinality({f[i] : i \in 1 .. n}) = n
<1> DEFINE R == {f[i] : i \in 1 .. n}
           g == [i \in 1 .. n |-> f[i]]
<1>1. IsFiniteSet(1 .. n) /\ Cardinality(1 .. n) = n
  BY CountTo
<1>2. g \in [1 .. n -> R]
  OBVIOUS
<1>3. \A r \in R : \E i \in 1 .. n : g[i] = r
  OBVIOUS
<1>4. \A i, j \in 1 .. n : g[i] = g[j] => i = j
  OBVIOUS
<1> HIDE DEF R, g
<1>5. g \in Bijection(1 .. n, R)
  BY <1>2, <1>3, <1>4 DEF Bijection, Injection, IsInjective, Surjection
<1>6. ExistsBijection(1 .. n, R)
  BY <1>5 DEF ExistsBijection
<1>7. IsFiniteSet(R) /\ Cardinality(R) = Cardinality(1 .. n)
  BY <1>1, <1>6, FS_Bijection
<1>8. QED
  BY <1>1, <1>7 DEF R

\* The same of a set of images.
LEMMA ImagesCount ==
  ASSUME NEW n \in Nat, NEW f, \A i, j \in 1 .. n : f[i] = f[j] => i = j,
         NEW R, \A r : r \in R <=> \E i \in 1 .. n : r = f[i]
  PROVE  IsFiniteSet(R) /\ Cardinality(R) = n
<1>1. R = {f[i] : i \in 1 .. n}
  OBVIOUS
<1>2. IsFiniteSet({f[i] : i \in 1 .. n}) /\ Cardinality({f[i] : i \in 1 .. n}) = n
  BY ImageCount
<1>3. QED
  BY <1>1, <1>2, Zenon

-----------------------------------------------------------------------------
(* Sequences.                                                              *)

\* Those takes its elements from one prefix to the next.
LEMMA ThoseIs ==
  ASSUME NEW V, NEW s \in Seq(V), NEW T
  PROVE  \E f \in [0 .. Len(s) -> Seq(V)] :
           /\ Those(s, T) = f[Len(s)] /\ f[0] = <<>>
           /\ \A n \in 1 .. Len(s) : f[n] = IF s[n] \in T THEN Append(f[n - 1], s[n]) ELSE f[n - 1]
<1> DEFINE N == Len(s)
           P(n, x) == IF s[n] \in T THEN Append(x, s[n]) ELSE x
           F == [n \in 1 .. N |-> [x \in Seq(V) |-> P(n, x)]]
           Is(g) == g = [n \in 0 .. N |-> IF n = 0 THEN <<>> ELSE P(n, g[n - 1])]
           those == CHOOSE g : Is(g)
<1>1. N \in Nat /\ \A n \in 1 .. N : s[n] \in V
  OBVIOUS
<1>2. \A n \in 1 .. N : \A x \in Seq(V) : P(n, x) \in Seq(V)
  BY <1>1
<1> HIDE DEF P, N
<1>3. F \in [1 .. N -> [Seq(V) -> Seq(V)]] /\ <<>> \in Seq(V)
  BY <1>2
<1>4. PICK g : IsRecursionTo(g, N, Seq(V), <<>>, F)
  <2> HIDE DEF F
  <2>1. QED
    BY <1>1, <1>3, RecursionTo
<1>5. Is(g)
  <2>1. g \in [0 .. N -> Seq(V)] /\ g[0] = <<>>
    BY <1>4 DEF IsRecursionTo
  <2>2. ASSUME NEW n \in 1 .. N  PROVE g[n] = P(n, g[n - 1])
    <3>1. n - 1 \in 0 .. N /\ g[n - 1] \in Seq(V)
      BY <1>1, <2>1
    <3>2. g[n] = F[n][g[n - 1]]
      BY <1>4 DEF IsRecursionTo
    <3>3. QED
      BY <3>1, <3>2
  <2>3. ASSUME NEW n \in 0 .. N  PROVE g[n] = IF n = 0 THEN <<>> ELSE P(n, g[n - 1])
    BY <1>1, <2>1, <2>2
  <2>4. QED
    BY <2>1, <2>3
<1>6. Is(those)
  BY <1>5, Zenon
<1>7. Those(s, T) = those[N]
  BY DEF Those, P, N
<1> HIDE DEF those
<1>8. those[0] = <<>> /\ \A n \in 1 .. N : those[n] = P(n, those[n - 1])
  BY <1>1, <1>6
<1>9. those = [n \in 0 .. N |-> those[n]]
  BY <1>6
<1>10. those \in [0 .. N -> Seq(V)]
  <2>1. \A n \in 1 .. N : those[n - 1] \in Seq(V) => those[n] \in Seq(V)
    BY <1>2, <1>8
  <2>2. those[0] \in Seq(V)
    BY <1>3, <1>8
  <2>3. QED
    BY <1>1, <1>9, <2>1, <2>2, RecursionTyped
<1>11. QED
  BY <1>7, <1>8, <1>10 DEF P, N

\* at says where in the first n elements of s those of t are, which are all
\* that are in T.
Takes(at, t, s, n, T) ==
  /\ at \in [1 .. Len(t) -> 1 .. n]
  /\ \A i, j \in 1 .. Len(t) : i < j => at[i] < at[j]
  /\ \A i \in 1 .. Len(t) : t[i] = s[at[i]] /\ s[at[i]] \in T
  /\ \A k \in 1 .. n : s[k] \in T => \E i \in 1 .. Len(t) : at[i] = k

\* One more element.
LEMMA TakesNext ==
  ASSUME NEW V, NEW s \in Seq(V), NEW T, NEW n \in 1 .. Len(s), NEW t \in Seq(V),
         NEW at, Takes(at, t, s, n - 1, T)
  PROVE  LET u == IF s[n] \in T THEN Append(t, s[n]) ELSE t
         IN  \E bt : Takes(bt, u, s, n, T)
<1>1. Len(t) \in Nat /\ n \in Nat /\ n >= 1 /\ s[n] \in V
  OBVIOUS
<1>2. CASE s[n] \notin T
  <2>1. at \in [1 .. Len(t) -> 1 .. n]
    BY <1>1 DEF Takes
  <2>2. ASSUME NEW k \in 1 .. n, s[k] \in T  PROVE \E i \in 1 .. Len(t) : at[i] = k
    <3>1. k # n
      BY <1>2, <2>2
    <3>2. k \in 1 .. n - 1
      BY <1>1, <3>1
    <3>3. QED
      BY <2>2, <3>2 DEF Takes
  <2>3. Takes(at, t, s, n, T)
    BY <2>1, <2>2 DEF Takes
  <2>4. QED
    BY <1>2, <2>3
<1>3. CASE s[n] \in T
  <2> DEFINE u == Append(t, s[n])
             bt == [i \in 1 .. Len(t) + 1 |-> IF i = Len(t) + 1 THEN n ELSE at[i]]
  <2>1. u \in Seq(V) /\ Len(u) = Len(t) + 1 /\ u[Len(t) + 1] = s[n] /\ \A i \in 1 .. Len(t) : u[i] = t[i]
    BY <1>1
  <2>2. \A i \in 1 .. Len(t) : at[i] \in 1 .. n - 1 /\ bt[i] = at[i]
    BY <1>1 DEF Takes
  <2>3. bt[Len(t) + 1] = n
    BY <1>1
  <2>4. bt \in [1 .. Len(u) -> 1 .. n]
    <3>1. 1 .. n - 1 \subseteq 1 .. n /\ n \in 1 .. n
      BY <1>1
    <3>2. ASSUME NEW i \in 1 .. Len(t) + 1
          PROVE (IF i = Len(t) + 1 THEN n ELSE at[i]) \in 1 .. n
      <4>1. CASE i = Len(t) + 1
        BY <3>1, <4>1
      <4>2. CASE i # Len(t) + 1
        <5>1. i \in 1 .. Len(t)
          BY <1>1, <4>2
        <5>2. QED
          BY <2>2, <3>1, <4>2, <5>1
      <4>3. QED
        BY <4>1, <4>2
    <3>3. QED
      BY <2>1, <3>2
  <2> HIDE DEF u, bt
  <2>5. ASSUME NEW i \in 1 .. Len(u), NEW j \in 1 .. Len(u), i < j  PROVE bt[i] < bt[j]
    <3>1. i \in 1 .. Len(t)
      BY <1>1, <2>1, <2>5
    <3>2. CASE j = Len(t) + 1
      BY <1>1, <2>2, <2>3, <3>1, <3>2
    <3>3. CASE j # Len(t) + 1
      <4>1. j \in 1 .. Len(t)
        BY <1>1, <2>1, <3>3
      <4>2. at[i] < at[j]
        BY <2>5, <3>1, <4>1 DEF Takes
      <4>3. QED
        BY <2>2, <3>1, <4>1, <4>2
    <3>4. QED
      BY <3>2, <3>3
  <2>6. ASSUME NEW i \in 1 .. Len(u)  PROVE u[i] = s[bt[i]] /\ s[bt[i]] \in T
    <3>1. CASE i = Len(t) + 1
      BY <1>3, <2>1, <2>3, <3>1
    <3>2. CASE i # Len(t) + 1
      <4>1. i \in 1 .. Len(t)
        BY <1>1, <2>1, <3>2
      <4>2. QED
        BY <2>1, <2>2, <4>1 DEF Takes
    <3>3. QED
      BY <3>1, <3>2
  <2>7. ASSUME NEW k \in 1 .. n, s[k] \in T  PROVE \E i \in 1 .. Len(u) : bt[i] = k
    <3>1. CASE k = n
      <4>1. Len(t) + 1 \in 1 .. Len(u)
        BY <1>1, <2>1
      <4>2. QED
        BY <2>3, <3>1, <4>1
    <3>2. CASE k # n
      <4>1. k \in 1 .. n - 1
        BY <1>1, <3>2
      <4>2. PICK i \in 1 .. Len(t) : at[i] = k
        BY <2>7, <4>1 DEF Takes
      <4>3. i \in 1 .. Len(u)
        BY <1>1, <2>1
      <4>4. QED
        BY <2>2, <4>2, <4>3
    <3>3. QED
      BY <3>1, <3>2
  <2>8. Takes(bt, u, s, n, T)
    BY <2>4, <2>5, <2>6, <2>7 DEF Takes
  <2>9. QED
    BY <1>3, <2>8 DEF u
<1>4. QED
  BY <1>2, <1>3

\* Those takes the elements in T and no others, in their order.
LEMMA ThoseTaken ==
  ASSUME NEW V, NEW s \in Seq(V), NEW T
  PROVE  Those(s, T) \in Seq(V) /\ \E at : Takes(at, Those(s, T), s, Len(s), T)
<1>1. PICK f \in [0 .. Len(s) -> Seq(V)] :
         /\ Those(s, T) = f[Len(s)] /\ f[0] = <<>>
         /\ \A n \in 1 .. Len(s) : f[n] = IF s[n] \in T THEN Append(f[n - 1], s[n]) ELSE f[n - 1]
  BY ThoseIs
<1> DEFINE S == {n \in 0 .. Len(s) : \E at : Takes(at, f[n], s, n, T)}
<1>2. Len(s) \in Nat
  OBVIOUS
<1>3. 0 \in S
  <2>1. Takes(<<>>, <<>>, s, 0, T)
    BY DEF Takes
  <2>2. QED
    BY <1>1, <1>2, <2>1
<1>4. ASSUME NEW n \in 0 .. Len(s) - 1, n \in S  PROVE n + 1 \in S
  <2>1. n + 1 \in 1 .. Len(s) /\ (n + 1) - 1 = n /\ n + 1 \in 0 .. Len(s) /\ n \in 0 .. Len(s)
    BY <1>2
  <2>2. PICK at : Takes(at, f[n], s, (n + 1) - 1, T)
    BY <1>4, <2>1
  <2>3. f[n] \in Seq(V)
    BY <1>1, <2>1
  <2> DEFINE u == IF s[n + 1] \in T THEN Append(f[n], s[n + 1]) ELSE f[n]
  <2>4. \E bt : Takes(bt, u, s, n + 1, T)
    BY <2>1, <2>2, <2>3, TakesNext
  <2>5. f[n + 1] = u
    BY <1>1, <2>1
  <2> HIDE DEF u
  <2>6. QED
    BY <2>1, <2>4, <2>5
<1> HIDE DEF S
<1>5. 0 .. Len(s) \subseteq S
  BY <1>2, <1>3, <1>4, UpTo
<1>6. Len(s) \in S
  BY <1>2, <1>5
<1>7. QED
  BY <1>1, <1>2, <1>6 DEF S

\* What follows for lengths, elements and repetitions.
LEMMA ThoseProperties ==
  ASSUME NEW V, NEW s \in Seq(V), NEW T
  PROVE  /\ Those(s, T) \in Seq(V)
         /\ Len(Those(s, T)) <= Len(s)
         /\ ToSet(Those(s, T)) = ToSet(s) \intersect T
         /\ IsInjective(s) => IsInjective(Those(s, T))
<1> DEFINE t == Those(s, T)
           n == Len(s)
<1>1. PICK at : Takes(at, t, s, n, T)
  BY ThoseTaken
<1>2. t \in Seq(V)
  BY ThoseTaken
<1> HIDE DEF t
<1>3. /\ Len(t) \in Nat /\ n \in Nat /\ DOMAIN t = 1 .. Len(t) /\ DOMAIN s = 1 .. n
  BY <1>2
<1>4. Len(t) <= n
  <2> DEFINE S == {i \in 0 .. Len(t) : i > 0 => at[i] >= i}
  <2>1. 0 \in S
    BY <1>3
  <2>2. ASSUME NEW i \in 0 .. Len(t) - 1, i \in S  PROVE i + 1 \in S
    <3>1. i + 1 \in 1 .. Len(t) /\ at[i + 1] \in 1 .. n
      BY <1>1, <1>3 DEF Takes
    <3>2. CASE i = 0
      BY <1>3, <3>1, <3>2
    <3>3. CASE i > 0
      <4>1. i \in 1 .. Len(t) /\ at[i] \in 1 .. n /\ at[i] >= i /\ i < i + 1
        BY <1>1, <1>3, <2>2, <3>3 DEF Takes
      <4>2. at[i] < at[i + 1]
        BY <1>1, <3>1, <4>1 DEF Takes
      <4>3. QED
        BY <1>3, <3>1, <4>1, <4>2
    <3>4. QED
      BY <1>3, <3>2, <3>3
  <2> HIDE DEF S
  <2>3. 0 .. Len(t) \subseteq S
    BY <1>3, <2>1, <2>2, UpTo
  <2>4. CASE Len(t) = 0
    BY <1>3, <2>4
  <2>5. CASE Len(t) > 0
    <3>1. at[Len(t)] >= Len(t) /\ at[Len(t)] \in 1 .. n
      BY <1>1, <1>3, <2>3, <2>5 DEF S, Takes
    <3>2. QED
      BY <1>3, <3>1
  <2>6. QED
    BY <1>3, <2>4, <2>5
<1>5. ToSet(t) = ToSet(s) \intersect T
  <2>1. ASSUME NEW x \in ToSet(t)  PROVE x \in ToSet(s) \intersect T
    <3>1. PICK i \in 1 .. Len(t) : x = t[i]
      BY <1>3 DEF ToSet
    <3>2. at[i] \in 1 .. n /\ t[i] = s[at[i]] /\ s[at[i]] \in T
      BY <1>1, <1>3 DEF Takes
    <3>3. QED
      BY <1>3, <3>1, <3>2 DEF ToSet
  <2>2. ASSUME NEW x \in ToSet(s), x \in T  PROVE x \in ToSet(t)
    <3>1. PICK k \in 1 .. n : x = s[k]
      BY <1>3 DEF ToSet
    <3>2. PICK i \in 1 .. Len(t) : at[i] = k
      BY <1>1, <2>2, <3>1 DEF Takes
    <3>3. t[i] = x
      BY <1>1, <3>1, <3>2 DEF Takes
    <3>4. QED
      BY <1>3, <3>3 DEF ToSet
  <2>3. QED
    BY <2>1, <2>2
<1>6. ASSUME IsInjective(s)  PROVE IsInjective(t)
  <2>1. ASSUME NEW i \in 1 .. Len(t), NEW j \in 1 .. Len(t), t[i] = t[j]  PROVE i = j
    <3>1. /\ at[i] \in 1 .. n /\ at[j] \in 1 .. n /\ s[at[i]] = s[at[j]]
          /\ (i < j => at[i] < at[j]) /\ (j < i => at[j] < at[i])
      BY <1>1, <2>1 DEF Takes
    <3>2. at[i] = at[j]
      BY <1>3, <1>6, <3>1 DEF IsInjective
    <3>3. QED
      BY <1>3, <3>1, <3>2
  <2>2. QED
    BY <1>3, <2>1 DEF IsInjective
<1>7. QED
  BY <1>2, <1>4, <1>5, <1>6 DEF t

\* Total is an integer.
LEMMA TotalIs ==
  ASSUME NEW s \in Seq(Int)
  PROVE  Total(s) \in Int
<1> DEFINE N == Len(s)
           W == Int
           P(n, x) == x + s[n]
           F == [n \in 1 .. N |-> [x \in W |-> P(n, x)]]
           Is(g) == g = [n \in 0 .. N |-> IF n = 0 THEN 0 ELSE P(n, g[n - 1])]
           total == CHOOSE g : Is(g)
<1>1. N \in Nat /\ \A n \in 1 .. N : s[n] \in Int
  OBVIOUS
<1>2. 0 \in W /\ \A n \in 1 .. N : \A x \in W : P(n, x) \in W
  BY <1>1
<1> HIDE DEF P, N, W
<1>3. F \in [1 .. N -> [W -> W]]
  BY <1>2
<1>4. PICK g : IsRecursionTo(g, N, W, 0, F)
  <2> HIDE DEF F
  <2>1. QED
    BY <1>1, <1>2, <1>3, RecursionTo
<1>5. Is(g)
  <2>1. g \in [0 .. N -> W] /\ g[0] = 0
    BY <1>4 DEF IsRecursionTo
  <2>2. ASSUME NEW n \in 1 .. N  PROVE g[n] = P(n, g[n - 1])
    <3>1. n - 1 \in 0 .. N /\ g[n - 1] \in W
      BY <1>1, <2>1
    <3>2. g[n] = F[n][g[n - 1]]
      BY <1>4 DEF IsRecursionTo
    <3>3. QED
      BY <3>1, <3>2
  <2>3. ASSUME NEW n \in 0 .. N  PROVE g[n] = IF n = 0 THEN 0 ELSE P(n, g[n - 1])
    BY <1>1, <2>1, <2>2
  <2>4. QED
    BY <2>1, <2>3
<1>6. Is(total)
  BY <1>5, Zenon
<1>7. Total(s) = total[N]
  BY DEF Total, P, N
<1> HIDE DEF total
<1>8. total[0] = 0 /\ \A n \in 1 .. N : total[n] = P(n, total[n - 1])
  BY <1>1, <1>6
<1>9. total = [n \in 0 .. N |-> total[n]]
  BY <1>6
<1>10. total \in [0 .. N -> W]
  <2>1. \A n \in 1 .. N : total[n - 1] \in W => total[n] \in W
    BY <1>2, <1>8
  <2>2. QED
    BY <1>1, <1>2, <1>8, <1>9, <2>1, RecursionTyped
<1>11. QED
  BY <1>1, <1>7, <1>10 DEF W

\* FlattenSeq puts one sequence behind the other.
LEMMA FlattenFrom ==
  ASSUME NEW V, NEW s \in Seq(Seq(V))
  PROVE  \E f \in [0 .. Len(s) -> Seq(V)] :
           /\ FlattenSeq(s) = f[Len(s)] /\ f[0] = <<>>
           /\ \A n \in 1 .. Len(s) : f[n] = f[n - 1] \o s[n]
<1> DEFINE N == Len(s)
           W == Seq(V)
           P(n, x) == x \o s[n]
           F == [n \in 1 .. N |-> [x \in W |-> P(n, x)]]
           Is(g) == g = [i \in 1 .. N |-> IF i = 1 THEN s[i] ELSE P(i, g[i - 1])]
           flatten == CHOOSE g : Is(g)
<1>1. N \in Nat /\ \A n \in 1 .. N : s[n] \in W
  OBVIOUS
<1>2. \A n \in 1 .. N : \A x \in W : P(n, x) \in W
  BY <1>1
<1>3. \A n \in 1 .. N : P(n, <<>>) = s[n]
  BY <1>1
<1>4. <<>> \in W
  OBVIOUS
<1>5. FlattenSeq(s) = IF N = 0 THEN s ELSE flatten[N]
  BY DEF FlattenSeq
<1>6. CASE N = 0
  <2>1. FlattenSeq(s) = <<>>
    BY <1>5, <1>6
  <2> DEFINE f == [n \in 0 .. 0 |-> <<>>]
  <2>2. f \in [0 .. N -> W] /\ FlattenSeq(s) = f[N] /\ f[0] = <<>>
    <3> HIDE DEF W
    <3>1. QED
      BY <1>4, <1>6, <2>1
  <2>3. 1 .. N = {}
    BY <1>6
  <2> HIDE DEF f
  <2>4. QED
    BY <2>2, <2>3
<1>7. CASE N # 0
  <2> HIDE DEF P, N, W
  <2>1. F \in [1 .. N -> [W -> W]]
    BY <1>2
  <2>2. PICK g : IsRecursionTo(g, N, W, <<>>, F)
    <3> HIDE DEF F
    <3>1. QED
      BY <1>1, <1>4, <2>1, RecursionTo
  <2>3. g \in [0 .. N -> W] /\ g[0] = <<>>
    BY <2>2 DEF IsRecursionTo
  <2>4. ASSUME NEW n \in 1 .. N  PROVE g[n] = P(n, g[n - 1])
    <3>1. n - 1 \in 0 .. N /\ g[n - 1] \in W
      BY <1>1, <2>3
    <3>2. g[n] = F[n][g[n - 1]]
      BY <2>2 DEF IsRecursionTo
    <3>3. QED
      BY <3>1, <3>2
  <2> DEFINE h == [i \in 1 .. N |-> g[i]]
  <2>5. Is(h)
    <3>1. ASSUME NEW i \in 1 .. N  PROVE h[i] = IF i = 1 THEN s[i] ELSE P(i, h[i - 1])
      <4>1. CASE i = 1
        BY <1>1, <1>3, <2>3, <2>4, <4>1
      <4>2. CASE i # 1
        <5>1. i - 1 \in 1 .. N
          BY <1>1, <4>2
        <5>2. QED
          BY <2>4, <4>2, <5>1
      <4>3. QED
        BY <4>1, <4>2
    <3>2. QED
      BY <3>1
  <2>6. Is(flatten)
    <3> HIDE DEF h
    <3>1. QED
      BY <2>5, Zenon
  <2> HIDE DEF flatten
  <2> DEFINE f == [n \in 0 .. N |-> IF n = 0 THEN <<>> ELSE flatten[n]]
  <2>7. ASSUME NEW n \in 1 .. N  PROVE f[n] = P(n, f[n - 1])
    <3>1. CASE n = 1
      <4>1. f[n] = s[n] /\ f[n - 1] = <<>>
        BY <1>1, <2>6, <3>1
      <4>2. QED
        BY <1>3, <4>1
    <3>2. CASE n # 1
      <4>1. n - 1 \in 1 .. N /\ n - 1 \in 0 .. N /\ n \in 0 .. N /\ n - 1 # 0 /\ n # 0
        BY <1>1, <3>2
      <4>2. flatten[n] = P(n, flatten[n - 1]) /\ f[n - 1] = flatten[n - 1] /\ f[n] = flatten[n]
        BY <2>6, <3>2, <4>1
      <4>3. QED
        BY <4>2
    <3>3. QED
      BY <3>1, <3>2
  <2>8. f = [n \in 0 .. N |-> f[n]] /\ f[0] = <<>>
    BY <1>1
  <2>9. f[N] = flatten[N]
    BY <1>1, <1>7
  <2> HIDE DEF f
  <2>10. f \in [0 .. N -> W]
    <3>1. \A n \in 1 .. N : f[n - 1] \in W => f[n] \in W
      BY <1>2, <2>7
    <3>2. QED
      BY <1>1, <1>4, <2>8, <3>1, RecursionTyped
  <2>11. FlattenSeq(s) = f[N]
    BY <1>5, <1>7, <2>9
  <2>12. QED
    BY <2>7, <2>8, <2>10, <2>11 DEF W, N, P
<1>8. QED
  BY <1>6, <1>7

\* FlattenSeq of sequences of V is one.
LEMMA FlattenIs ==
  ASSUME NEW V, NEW s \in Seq(Seq(V))
  PROVE  FlattenSeq(s) \in Seq(V)
<1>1. PICK f \in [0 .. Len(s) -> Seq(V)] : FlattenSeq(s) = f[Len(s)]
  BY FlattenFrom
<1>2. Len(s) \in 0 .. Len(s)
  OBVIOUS
<1>3. QED
  BY <1>1, <1>2

\* What is in the sequences is in FlattenSeq, once if it is once in them.
LEMMA FlattenElements ==
  ASSUME NEW V, NEW s \in Seq(Seq(V))
  PROVE  /\ \A x : x \in ToSet(FlattenSeq(s)) <=> \E b \in DOMAIN s : x \in ToSet(s[b])
         /\ (\A b, c \in DOMAIN s : \A i \in DOMAIN s[b] : \A j \in DOMAIN s[c] :
               s[b][i] = s[c][j] => b = c /\ i = j)
            => IsInjective(FlattenSeq(s))
<1> DEFINE N == Len(s)
           Once == \A b, c \in DOMAIN s : \A i \in DOMAIN s[b] : \A j \in DOMAIN s[c] :
                     s[b][i] = s[c][j] => b = c /\ i = j
<1>1. PICK f \in [0 .. N -> Seq(V)] :
         /\ FlattenSeq(s) = f[N] /\ f[0] = <<>>
         /\ \A n \in 1 .. N : f[n] = f[n - 1] \o s[n]
  BY FlattenFrom
<1>2. N \in Nat /\ DOMAIN s = 1 .. N /\ \A n \in 1 .. N : s[n] \in Seq(V)
  OBVIOUS
<1> DEFINE Has(n) == /\ \A x : x \in ToSet(f[n]) <=> \E b \in 1 .. n : x \in ToSet(s[b])
                     /\ Once => IsInjective(f[n])
           S == {n \in 0 .. N : Has(n)}
<1>3. 0 \in S
  <2>1. ToSet(<<>>) = {} /\ IsInjective(<<>>) /\ 1 .. 0 = {}
    BY DEF ToSet, IsInjective
  <2>2. QED
    BY <1>1, <1>2, <2>1
<1>4. ASSUME NEW n \in 0 .. N - 1, n \in S  PROVE n + 1 \in S
  <2>1. n \in 0 .. N /\ n + 1 \in 1 .. N /\ n + 1 \in 0 .. N /\ (n + 1) - 1 = n
    BY <1>2
  <2> DEFINE t == f[n]
             u == s[n + 1]
  <2>2. t \in Seq(V) /\ u \in Seq(V) /\ f[n + 1] = t \o u
    BY <1>1, <1>2, <2>1
  <2>3. Has(n)
    BY <1>4
  <2>4. 1 .. n + 1 = (1 .. n) \union {n + 1}
    BY <2>1
  <2> HIDE DEF t, u
  <2>5. /\ DOMAIN t = 1 .. Len(t) /\ DOMAIN u = 1 .. Len(u) /\ Len(t) \in Nat /\ Len(u) \in Nat
        /\ DOMAIN (t \o u) = 1 .. Len(t) + Len(u)
        /\ \A i \in 1 .. Len(t) : (t \o u)[i] = t[i]
        /\ \A i \in 1 .. Len(u) : (t \o u)[Len(t) + i] = u[i]
    BY <2>2
  <2>6. ASSUME NEW i \in DOMAIN (t \o u)
        PROVE  \/ i \in DOMAIN t /\ (t \o u)[i] = t[i]
               \/ i - Len(t) \in DOMAIN u /\ (t \o u)[i] = u[i - Len(t)]
    <3>1. CASE i <= Len(t)
      BY <2>5, <3>1
    <3>2. CASE i > Len(t)
      <4>1. i - Len(t) \in 1 .. Len(u) /\ Len(t) + (i - Len(t)) = i
        BY <2>5, <3>2
      <4>2. QED
        BY <2>5, <4>1
    <3>3. QED
      BY <2>5, <3>1, <3>2
  <2>7. \A x : x \in ToSet(t \o u) <=> x \in ToSet(t) \/ x \in ToSet(u)
    <3>1. ASSUME NEW x \in ToSet(t \o u)  PROVE x \in ToSet(t) \/ x \in ToSet(u)
      BY <2>6 DEF ToSet
    <3>2. ASSUME NEW x \in ToSet(t)  PROVE x \in ToSet(t \o u)
      <4>1. PICK i \in 1 .. Len(t) : x = t[i]
        BY <2>5 DEF ToSet
      <4>2. i \in DOMAIN (t \o u) /\ (t \o u)[i] = x
        BY <2>5, <4>1
      <4>3. QED
        BY <4>2 DEF ToSet
    <3>3. ASSUME NEW x \in ToSet(u)  PROVE x \in ToSet(t \o u)
      <4>1. PICK i \in 1 .. Len(u) : x = u[i]
        BY <2>5 DEF ToSet
      <4>2. Len(t) + i \in DOMAIN (t \o u) /\ (t \o u)[Len(t) + i] = x
        BY <2>5, <4>1
      <4>3. QED
        BY <4>2 DEF ToSet
    <3>4. QED
      BY <3>1, <3>2, <3>3
  <2>8. \A x : x \in ToSet(f[n + 1]) <=> \E b \in 1 .. n + 1 : x \in ToSet(s[b])
    BY <2>2, <2>3, <2>4, <2>7 DEF t, u
  <2>9. ASSUME Once  PROVE IsInjective(f[n + 1])
    <3>1. IsInjective(t)
      BY <2>3, <2>9 DEF t
    <3>2. \A i, j \in DOMAIN u : u[i] = u[j] => i = j
      BY <1>2, <2>1, <2>9, SMTT(30) DEF u
    <3>3. ASSUME NEW i \in DOMAIN t, NEW j \in DOMAIN u, t[i] = u[j]  PROVE FALSE
      <4>1. t[i] \in ToSet(t)
        BY DEF ToSet
      <4>2. PICK b \in 1 .. n : t[i] \in ToSet(s[b])
        BY <2>3, <4>1 DEF t
      <4>3. PICK k \in DOMAIN s[b] : t[i] = s[b][k]
        BY <4>2 DEF ToSet
      <4>4. b \in DOMAIN s /\ n + 1 \in DOMAIN s /\ b # n + 1
        BY <1>2, <2>1
      <4>5. QED
        BY <2>9, <3>3, <4>3, <4>4 DEF u
    <3>4. ASSUME NEW i \in DOMAIN (t \o u), NEW j \in DOMAIN (t \o u), (t \o u)[i] = (t \o u)[j]
          PROVE  i = j
      <4>1. i \in Int /\ j \in Int
        BY <2>5
      <4>2. CASE i \in DOMAIN t /\ (t \o u)[i] = t[i]
        <5>1. CASE j \in DOMAIN t /\ (t \o u)[j] = t[j]
          BY <3>1, <3>4, <4>2, <5>1 DEF IsInjective
        <5>2. CASE j - Len(t) \in DOMAIN u /\ (t \o u)[j] = u[j - Len(t)]
          BY <3>3, <3>4, <4>2, <5>2
        <5>3. QED
          BY <2>6, <5>1, <5>2
      <4>3. CASE i - Len(t) \in DOMAIN u /\ (t \o u)[i] = u[i - Len(t)]
        <5>1. CASE j \in DOMAIN t /\ (t \o u)[j] = t[j]
          BY <3>3, <3>4, <4>3, <5>1
        <5>2. CASE j - Len(t) \in DOMAIN u /\ (t \o u)[j] = u[j - Len(t)]
          <6>1. i - Len(t) = j - Len(t)
            BY <3>2, <3>4, <4>3, <5>2
          <6>2. QED
            BY <2>5, <4>1, <6>1
        <5>3. QED
          BY <2>6, <5>1, <5>2
      <4>4. QED
        BY <2>6, <4>2, <4>3
    <3>5. IsInjective(t \o u)
      BY <3>4 DEF IsInjective
    <3>6. QED
      BY <2>2, <3>5
  <2>10. QED
    BY <2>1, <2>8, <2>9
<1> HIDE DEF S
<1>5. 0 .. N \subseteq S
  BY <1>2, <1>3, <1>4, UpTo
<1>6. Has(N)
  BY <1>2, <1>5 DEF S
<1>7. QED
  BY <1>1, <1>2, <1>6

\* The places of a grid of a rows and b columns.
LEMMA GridPlace ==
  ASSUME NEW a \in Nat, NEW b \in Nat, NEW k \in 1 .. a * b
  PROVE  /\ b > 0
         /\ ((k - 1) \div b) + 1 \in 1 .. a
         /\ ((k - 1) % b) + 1 \in 1 .. b
<1>1. b > 0
  <2>1. CASE b = 0
    <3>1. a * b = 0
      BY <2>1
    <3>2. QED
      BY <3>1
  <2>2. QED
    BY <2>1
<1> DEFINE q == (k - 1) \div b
           r == (k - 1) % b
<1>2. a * b \in Nat /\ k \in Nat /\ k >= 1 /\ k <= a * b
  OBVIOUS
<1>3. q \in Int /\ r \in 0 .. b - 1 /\ k - 1 = b * q + r
  BY <1>1, <1>2
<1> HIDE DEF q, r
<1>4. q >= 0
  <2>1. CASE q <= -1
    <3>1. b * q <= -b
      BY <1>1, <1>3, <2>1
    <3>2. QED
      BY <1>2, <1>3, <3>1
  <2>2. QED
    BY <1>3, <2>1
<1>5. q <= a - 1
  <2>1. CASE q >= a
    <3>1. b * q >= a * b
      BY <1>1, <1>3, <2>1
    <3>2. QED
      BY <1>2, <1>3, <3>1
  <2>2. QED
    BY <1>3, <2>1
<1>6. QED
  BY <1>1, <1>3, <1>4, <1>5 DEF q, r

\* Extended has each element of s with an element of t behind it.
LEMMA ExtendedIs ==
  ASSUME NEW U, NEW V, NEW W, NEW s \in Seq(U), NEW t \in Seq(V),
         \A x \in U : \A y \in V : Append(x, y) \in W
  PROVE  Extended(s, t) \in Seq(W)
<1> DEFINE a == Len(s)
           b == Len(t)
<1>1. a \in Nat /\ b \in Nat /\ a * b \in Nat
  OBVIOUS
<1>2. ASSUME NEW k \in 1 .. a * b
      PROVE Append(s[((k - 1) \div b) + 1], t[((k - 1) % b) + 1]) \in W
  <2>1. ((k - 1) \div b) + 1 \in 1 .. a /\ ((k - 1) % b) + 1 \in 1 .. b
    <3> HIDE DEF a, b
    <3>1. QED
      BY <1>1, GridPlace
  <2>2. QED
    BY <2>1
<1>3. Extended(s, t) = [k \in 1 .. a * b |-> Append(s[((k - 1) \div b) + 1], t[((k - 1) % b) + 1])]
  BY DEF Extended
<1> HIDE DEF a, b
<1>4. Extended(s, t) \in [1 .. a * b -> W]
  BY <1>2, <1>3
<1>5. QED
  BY <1>1, <1>4

\* The place of column j of row i in a grid of b columns, and the row and column
\* of that place.
LEMMA PlaceInGrid ==
  ASSUME NEW a \in Nat, NEW b \in Nat, NEW i \in 1 .. a, NEW j \in 1 .. b
  PROVE  LET k == b * (i - 1) + j
         IN  k \in 1 .. a * b /\ ((k - 1) \div b) + 1 = i /\ ((k - 1) % b) + 1 = j
<1> DEFINE k == b * (i - 1) + j
           p == b * (i - 1)
<1>1. b > 0 /\ i \in Nat /\ i >= 1 /\ i <= a /\ j \in Nat /\ j >= 1 /\ j <= b
  OBVIOUS
<1>2. p \in Nat /\ p + b = b * i /\ b * i <= a * b
  BY <1>1
<1> HIDE DEF p
<1>3. k = p + j
  BY DEF p
<1>4. k \in 1 .. a * b
  BY <1>1, <1>2, <1>3
<1>5. PICK q, r : q = (k - 1) \div b /\ r = (k - 1) % b
  OBVIOUS
<1>6. q \in Int /\ r \in 0 .. b - 1 /\ k - 1 = b * q + r
  BY <1>1, <1>4, <1>5
<1>7. b * q + r = p + (j - 1)
  BY <1>1, <1>2, <1>3, <1>6
<1>8. q = i - 1
  <2>1. ASSUME q >= i  PROVE FALSE
    <3>1. b * q >= b * i
      BY <1>1, <1>6, <2>1
    <3>2. b * q \in Int
      BY <1>1, <1>6
    <3>3. QED
      BY <1>1, <1>2, <1>6, <1>7, <3>1, <3>2
  <2>2. ASSUME q <= i - 2  PROVE FALSE
    <3>1. b * q <= b * (i - 2)
      BY <1>1, <1>6, <2>2
    <3>2. b * (i - 2) = p - b
      BY <1>1 DEF p
    <3>3. b * q \in Int
      BY <1>1, <1>6
    <3>4. QED
      BY <1>1, <1>2, <1>6, <1>7, <3>1, <3>2, <3>3
  <2>3. QED
    BY <1>1, <1>6, <2>1, <2>2
<1>9. r = j - 1
  <2>1. b * q = p
    BY <1>8 DEF p
  <2>2. QED
    BY <1>1, <1>2, <1>6, <1>7, <2>1
<1>10. QED
  BY <1>1, <1>4, <1>5, <1>8, <1>9

\* e has every element of s with every element of t behind it, each once: row
\* and col say which.
Grid(e, s, t, row, col) ==
  /\ \A k \in 1 .. Len(s) * Len(t) : /\ row[k] \in 1 .. Len(s) /\ col[k] \in 1 .. Len(t)
                                     /\ e[k] = Append(s[row[k]], t[col[k]])
  /\ \A i \in 1 .. Len(s) : \A j \in 1 .. Len(t) :
       \E k \in 1 .. Len(s) * Len(t) : row[k] = i /\ col[k] = j
  /\ \A k, m \in 1 .. Len(s) * Len(t) : row[k] = row[m] /\ col[k] = col[m] => k = m

\* Extended has each element of s with each of t behind it.
LEMMA ExtendedGrid ==
  ASSUME NEW U, NEW V, NEW s \in Seq(U), NEW t \in Seq(V)
  PROVE  /\ Len(Extended(s, t)) = Len(s) * Len(t)
         /\ \E row, col : Grid(Extended(s, t), s, t, row, col)
<1> DEFINE a == Len(s)
           b == Len(t)
           E == Extended(s, t)
           row == [k \in 1 .. a * b |-> ((k - 1) \div b) + 1]
           col == [k \in 1 .. a * b |-> ((k - 1) % b) + 1]
<1>1. a \in Nat /\ b \in Nat /\ a * b \in Nat
  OBVIOUS
<1>2. E = [k \in 1 .. a * b |-> Append(s[((k - 1) \div b) + 1], t[((k - 1) % b) + 1])]
  BY DEF Extended
<1> HIDE DEF a, b, E
<1>3. Len(E) = a * b
  BY <1>1, <1>2
<1>4. \A k \in 1 .. a * b : /\ row[k] \in 1 .. a /\ col[k] \in 1 .. b
                            /\ E[k] = Append(s[row[k]], t[col[k]])
  BY <1>1, <1>2, GridPlace
<1>5. ASSUME NEW i \in 1 .. a, NEW j \in 1 .. b
      PROVE  \E k \in 1 .. a * b : row[k] = i /\ col[k] = j
  <2> DEFINE k == b * (i - 1) + j
  <2>1. k \in 1 .. a * b /\ ((k - 1) \div b) + 1 = i /\ ((k - 1) % b) + 1 = j
    BY <1>1, PlaceInGrid
  <2> HIDE DEF k
  <2>2. QED
    BY <2>1
<1>6. ASSUME NEW k \in 1 .. a * b, NEW m \in 1 .. a * b, row[k] = row[m], col[k] = col[m]
      PROVE  k = m
  <2>1. b > 0
    BY <1>1, GridPlace
  <2>2. /\ (k - 1) \div b = (m - 1) \div b /\ (k - 1) % b = (m - 1) % b
    <3>1. \A n \in 1 .. a * b : (n - 1) \div b \in Int /\ (n - 1) % b \in Int
      BY <1>1, <2>1
    <3>2. QED
      BY <1>6, <3>1
  <2>3. \A n \in 1 .. a * b : n - 1 = b * ((n - 1) \div b) + ((n - 1) % b)
    BY <1>1, <2>1
  <2>4. QED
    BY <1>1, <2>2, <2>3
<1> HIDE DEF row, col
<1>7. Grid(E, s, t, row, col)
  BY <1>4, <1>5, <1>6 DEF Grid, a, b
<1>8. QED
  BY <1>3, <1>7 DEF a, b, E
=============================================================================
