---------------------------- MODULE ContentsProofs ----------------------------
(***************************************************************************)
(* Theorems about the algorithms that compare the contents of two files,   *)
(* for any formulas, references, regions and slides: a link in use is      *)
(* reported, slides and elements are matched once and rightly, the impacts *)
(* of a finding do not depend on what was asked before it, the circles     *)
(* found are those of the formulas, and no row is lost or doubled.         *)
(*                                                                         *)
(* First the facts about numbers, sets, sequences and recursive functions  *)
(* that their proofs use.  Induction is by sets: the numbers at which a    *)
(* formula holds are all numbers.                                          *)
(***************************************************************************)
EXTENDS MCContents, FiniteSetTheorems, WellFoundedInduction, TLAPS

-----------------------------------------------------------------------------
(* Numbers.                                                                 *)

(* Naturals are well ordered. *)
LEMMA LeastNatural ==
  ASSUME NEW T, T \subseteq Nat, T # {}
  PROVE  \E x \in T : \A y \in T : x <= y
<1>1. IsWellFoundedOn(OpToRel(<, Nat), Nat)
  BY NatLessThanWellFounded
<1>2. \E x \in T : \A y \in T : <<y, x>> \notin OpToRel(<, Nat)
  BY <1>1, WFMin
<1>3. \A x, y \in Nat : <<y, x>> \notin OpToRel(<, Nat) => x <= y
  BY DEF OpToRel
<1> QED
  BY <1>2, <1>3

(* A set with 0 and the successor of each of its naturals has all of them. *)
LEMMA Induction ==
  ASSUME NEW S, 0 \in S, \A n \in Nat : n \in S => n + 1 \in S
  PROVE  \A n \in Nat : n \in S
<1> SUFFICES ASSUME Nat \ S # {} PROVE FALSE
  OBVIOUS
<1>1. PICK x \in Nat \ S : \A y \in Nat \ S : x <= y
  BY LeastNatural
<1>2. x # 0 /\ x - 1 \in Nat
  BY <1>1
<1>3. x - 1 \in S
  BY <1>1, <1>2
<1> QED
  BY <1>1, <1>2, <1>3

(* A set that has each natural below which it has all has all of them.      *)
LEMMA CompleteInduction ==
  ASSUME NEW S, \A n \in Nat : (\A m \in Nat : m < n => m \in S) => n \in S
  PROVE  \A n \in Nat : n \in S
<1> SUFFICES ASSUME Nat \ S # {} PROVE FALSE
  OBVIOUS
<1>1. PICK x \in Nat \ S : \A y \in Nat \ S : x <= y
  BY LeastNatural
<1>2. \A m \in Nat : m < x => m \in S
  BY <1>1
<1> QED
  BY <1>1, <1>2

(* A bounded set of integers has a least and a greatest one.               *)
LEMMA LeastInteger ==
  ASSUME NEW T, \A x \in T : x \in Int, T # {}, NEW low \in Int, \A x \in T : low <= x
  PROVE  \E x \in T : \A y \in T : x <= y
<1> DEFINE U == {n \in Nat : n + low \in T}
<1>1. U \subseteq Nat
  OBVIOUS
<1>2. U # {}
  <2>1. PICK x \in T : TRUE
    OBVIOUS
  <2>2. x - low \in Nat /\ (x - low) + low = x
    BY <2>1
  <2>3. x - low \in U
    BY <2>1, <2>2
  <2> QED
    BY <2>3
<1>3. PICK u \in U : \A v \in U : u <= v
  BY <1>1, <1>2, LeastNatural
<1>4. ASSUME NEW y \in T PROVE u + low <= y
  <2>0. y \in Int /\ low <= y /\ u \in Nat
    BY <1>3
  <2>1. y - low \in Nat /\ (y - low) + low = y
    BY <2>0
  <2>2. y - low \in U
    BY <2>1
  <2>3. u <= y - low
    BY <1>3, <2>2
  <2> QED
    BY <2>0, <2>3
<1>5. u + low \in T
  BY <1>3
<1> QED
  BY <1>4, <1>5

(* And a greatest one if it is bounded above.                               *)
LEMMA GreatestInteger ==
  ASSUME NEW T, \A x \in T : x \in Int, T # {}, NEW high \in Int, \A x \in T : x <= high
  PROVE  \E x \in T : \A y \in T : y <= x
<1> DEFINE U == {n \in Nat : high - n \in T}
<1>1. U \subseteq Nat
  OBVIOUS
<1>2. U # {}
  <2>1. PICK x \in T : TRUE
    OBVIOUS
  <2>2. high - x \in Nat /\ high - (high - x) = x
    BY <2>1
  <2>3. high - x \in U
    BY <2>1, <2>2
  <2> QED
    BY <2>3
<1>3. PICK u \in U : \A v \in U : u <= v
  BY <1>1, <1>2, LeastNatural
<1>4. ASSUME NEW y \in T PROVE y <= high - u
  <2>1. high - y \in Nat /\ high - (high - y) = y
    OBVIOUS
  <2>2. high - y \in U
    BY <2>1
  <2> QED
    BY <1>3, <2>1, <2>2
<1>5. high - u \in T
  BY <1>3
<1> QED
  BY <1>4, <1>5
(* The numbers up to n are n, and any of them are finitely many.            *)
LEMMA UpTo ==
  ASSUME NEW n \in Nat
  PROVE  /\ IsFiniteSet(1..n) /\ Cardinality(1..n) = n
         /\ \A S \in SUBSET (1..n) : IsFiniteSet(S)
<1>1. IsFiniteSet(1..n) /\ Cardinality(1..n) = n
  BY FS_Interval
<1>2. ASSUME NEW S, S \subseteq 1..n PROVE IsFiniteSet(S)
  BY <1>1, <1>2, FS_Subset
<1> QED
  BY <1>1, <1>2

-----------------------------------------------------------------------------
(* Recursive functions.                                                     *)

(* g starts with a and goes on to n by the steps of F. *)
Unrolled(F, a, n, g) ==
  /\ DOMAIN g = 0..n /\ g[0] = a
  /\ \A k \in Nat : k < n => g[k + 1] = F[<<k + 1, g[k]>>]

(* There is such a g.                                                       *)
LEMMA UnrolledExists ==
  ASSUME NEW X, NEW a \in X, NEW F \in [Nat \X X -> X]
  PROVE  \A n \in Nat : \E g \in [0..n -> X] : Unrolled(F, a, n, g)
<1> DEFINE S == {n \in Nat : \E g \in [0..n -> X] : Unrolled(F, a, n, g)}
<1>1. 0 \in S
  <2> DEFINE g == [k \in 0..0 |-> a]
  <2>1. g \in [0..0 -> X] /\ Unrolled(F, a, 0, g)
    BY DEF Unrolled
  <2> QED
    BY <2>1
<1>2. ASSUME NEW n \in Nat, n \in S PROVE n + 1 \in S
  <2>1. PICK g \in [0..n -> X] : Unrolled(F, a, n, g)
    BY <1>2
  <2>2. F[<<n + 1, g[n]>>] \in X
    OBVIOUS
  <2> DEFINE h == [k \in 0..(n + 1) |-> IF k = n + 1 THEN F[<<n + 1, g[n]>>] ELSE g[k]]
  <2>3. h \in [0..(n + 1) -> X]
    BY <2>2
  <2>4. ASSUME NEW k \in Nat, k < n + 1 PROVE h[k + 1] = F[<<k + 1, h[k]>>]
    <3>1. h[k] = g[k]
      BY <2>4
    <3>2. CASE k = n
      <4>1. h[n + 1] = F[<<n + 1, g[n]>>]
        OBVIOUS
      <4> QED
        BY <3>1, <3>2, <4>1
    <3>3. CASE k < n
      <4>1. h[k + 1] = g[k + 1]
        BY <3>3
      <4> QED
        BY <2>1, <3>1, <3>3, <4>1 DEF Unrolled
    <3> QED
      BY <2>4, <3>2, <3>3
  <2>5. h[0] = a
    BY <2>1 DEF Unrolled
  <2>6. DOMAIN h = 0..(n + 1)
    OBVIOUS
  <2> HIDE DEF h
  <2>7. Unrolled(F, a, n + 1, h)
    BY <2>4, <2>5, <2>6 DEF Unrolled
  <2> QED
    BY <2>3, <2>7
<1> HIDE DEF S
<1>3. \A n \in Nat : n \in S
  BY <1>1, <1>2, Induction
<1> QED
  BY <1>3 DEF S

(* What goes on by the same steps agrees as far as both go.                 *)
LEMMA UnrolledAgree ==
  ASSUME NEW F, NEW a, NEW m \in Nat, NEW g, Unrolled(F, a, m, g),
         NEW n \in Nat, NEW h, Unrolled(F, a, n, h), m <= n
  PROVE  \A k \in 0..m : g[k] = h[k]
<1> DEFINE T == {k \in Nat : k <= m => g[k] = h[k]}
<1>1. 0 \in T
  BY DEF Unrolled
<1>2. ASSUME NEW k \in Nat, k \in T PROVE k + 1 \in T
  <2> SUFFICES ASSUME k + 1 <= m PROVE g[k + 1] = h[k + 1]
    OBVIOUS
  <2>1. g[k] = h[k]
    BY <1>2
  <2>2. k < m /\ k < n
    OBVIOUS
  <2>3. g[k + 1] = F[<<k + 1, g[k]>>]
    BY <2>2 DEF Unrolled
  <2>4. h[k + 1] = F[<<k + 1, h[k]>>]
    BY <2>2 DEF Unrolled
  <2> QED
    BY <2>1, <2>3, <2>4
<1> HIDE DEF T
<1>3. \A k \in Nat : k \in T
  BY <1>1, <1>2, Induction
<1> QED
  BY <1>3 DEF T

(* g is what starts with a and goes on for ever by the steps of F. *)
Iterates(F, a, g) == g[0] = a /\ \A k \in Nat : g[k + 1] = F[<<k + 1, g[k]>>]

(* There is such a g, and it keeps to what F keeps to. *)
LEMMA Iterated ==
  ASSUME NEW X, NEW a \in X, NEW F \in [Nat \X X -> X]
  PROVE  \E g \in [Nat -> X] : Iterates(F, a, g)
<1> DEFINE part == [n \in Nat |-> CHOOSE g : g \in [0..n -> X] /\ Unrolled(F, a, n, g)]
           G == [n \in Nat |-> part[n][n]]
<1>1. ASSUME NEW n \in Nat PROVE part[n] \in [0..n -> X] /\ Unrolled(F, a, n, part[n])
  BY UnrolledExists
<1> HIDE DEF part
<1>2. G \in [Nat -> X]
  BY <1>1
<1>3. G[0] = a
  BY <1>1 DEF Unrolled
<1>4. ASSUME NEW k \in Nat PROVE G[k + 1] = F[<<k + 1, G[k]>>]
  <2>1. Unrolled(F, a, k, part[k]) /\ Unrolled(F, a, k + 1, part[k + 1])
    BY <1>1
  <2>2. part[k + 1][k + 1] = F[<<k + 1, part[k + 1][k]>>]
    BY <2>1 DEF Unrolled
  <2>3. part[k][k] = part[k + 1][k]
    <3>1. ASSUME NEW g, Unrolled(F, a, k, g), NEW h, Unrolled(F, a, k + 1, h)
          PROVE  g[k] = h[k]
      <4>1. k + 1 \in Nat /\ k <= k + 1 /\ k \in 0..k
        OBVIOUS
      <4>2. \A j \in 0..k : g[j] = h[j]
        BY <3>1, <4>1, UnrolledAgree
      <4> QED
        BY <4>1, <4>2
    <3> QED
      BY <2>1, <3>1
  <2> QED
    BY <2>2, <2>3
<1> HIDE DEF G
<1>5. Iterates(F, a, G)
  BY <1>3, <1>4 DEF Iterates
<1> QED
  BY <1>2, <1>5

(* g is the function that TLA+ takes from the recursive definition on 0..n. *)
Recursive(F, a, n, g) == g = [k \in 0..n |-> IF k = 0 THEN a ELSE F[<<k, g[k - 1]>>]]

(* There is such a g.                                                       *)
LEMMA RecursiveExists ==
  ASSUME NEW X, NEW a \in X, NEW F \in [Nat \X X -> X], NEW n \in Nat
  PROVE  \E g \in [0..n -> X] : Recursive(F, a, n, g)
<1>1. PICK f \in [Nat -> X] : Iterates(F, a, f)
  BY Iterated
<1> DEFINE g == [k \in 0..n |-> f[k]]
<1>2. g \in [0..n -> X]
  OBVIOUS
<1>3. ASSUME NEW k \in 0..n PROVE g[k] = IF k = 0 THEN a ELSE F[<<k, g[k - 1]>>]
  <2>1. CASE k = 0
    BY <1>1, <2>1 DEF Iterates
  <2>2. CASE k # 0
    <3>1. k - 1 \in Nat /\ k - 1 \in 0..n /\ (k - 1) + 1 = k
      BY <2>2
    <3>2. f[(k - 1) + 1] = F[<<(k - 1) + 1, f[k - 1]>>]
      BY <1>1, <3>1 DEF Iterates
    <3>3. g[k] = f[k] /\ g[k - 1] = f[k - 1]
      BY <3>1
    <3> HIDE DEF g
    <3> QED
      BY <2>2, <3>1, <3>2, <3>3
  <2> QED
    BY <2>1, <2>2
<1>4. Recursive(F, a, n, g)
  <2>1. g = [k \in 0..n |-> g[k]]
    OBVIOUS
  <2> HIDE DEF g
  <2> QED
    BY <1>3, <2>1 DEF Recursive
<1> HIDE DEF g
<1> QED
  BY <1>2, <1>4
(* g is the function that TLA+ takes from a definition on 1..n in which     *)
(* the value at k depends on the values at less.                            *)
ByEarlier(V, n, g) == g = [k \in 1..n |-> V[<<k, g>>]]

(* There is such a function.                                                *)
LEMMA ByEarlierExists ==
  ASSUME NEW n \in Nat, NEW X, NEW x \in X, NEW V \in [(1..n) \X [1..n -> X] -> X],
         \A k \in 1..n : \A g, h \in [1..n -> X] :
           (\A l \in 1..(k - 1) : g[l] = h[l]) => V[<<k, g>>] = V[<<k, h>>]
  PROVE  \E g \in [1..n -> X] : ByEarlier(V, n, g)
<1> DEFINE Y == [1..n -> X]
           F == [p \in Nat \X Y |-> IF p[1] \in 1..n THEN [p[2] EXCEPT ![p[1]] = V[p]] ELSE p[2]]
           a == [k \in 1..n |-> x]
<1>1. a \in Y
  OBVIOUS
<1>2. F \in [Nat \X Y -> Y]
  <2>1. ASSUME NEW k \in Nat, NEW y \in Y PROVE F[<<k, y>>] \in Y
    <3>1. CASE k \in 1..n
      <4>1. V[<<k, y>>] \in X
        BY <3>1
      <4> QED
        BY <3>1, <4>1
    <3>2. CASE k \notin 1..n
      BY <3>2
    <3> QED
      BY <3>1, <3>2
  <2>2. \A p \in Nat \X Y : p = <<p[1], p[2]>> /\ p[1] \in Nat /\ p[2] \in Y
    OBVIOUS
  <2>3. F = [p \in Nat \X Y |-> F[p]]
    OBVIOUS
  <2> HIDE DEF F, Y
  <2>4. \A p \in Nat \X Y : F[p] \in Y
    BY <2>1, <2>2
  <2> QED
    BY <2>3, <2>4
<1>3. PICK f \in [Nat -> Y] : Iterates(F, a, f)
  <2> HIDE DEF F, Y, a
  <2> QED
    BY <1>1, <1>2, Iterated
<1>4. ASSUME NEW k \in 1..n PROVE f[k] = [f[k - 1] EXCEPT ![k] = V[<<k, f[k - 1]>>]]
  <2>1. k - 1 \in Nat /\ (k - 1) + 1 = k /\ k \in Nat /\ f[k - 1] \in Y
    OBVIOUS
  <2>2. f[(k - 1) + 1] = F[<<(k - 1) + 1, f[k - 1]>>]
    BY <1>3, <2>1 DEF Iterates
  <2>3. f[k] = F[<<k, f[k - 1]>>]
    BY <2>1, <2>2
  <2> HIDE DEF Y
  <2> QED
    BY <2>1, <2>3
<1>5. ASSUME NEW m \in Nat, m \notin 1..n, m # 0 PROVE f[m] = f[m - 1]
  <2>1. m - 1 \in Nat /\ (m - 1) + 1 = m /\ f[m - 1] \in Y
    BY <1>5
  <2>2. f[(m - 1) + 1] = F[<<(m - 1) + 1, f[m - 1]>>]
    BY <1>3, <2>1 DEF Iterates
  <2>3. f[m] = F[<<m, f[m - 1]>>]
    BY <2>1, <2>2
  <2> HIDE DEF Y
  <2> QED
    BY <1>5, <2>1, <2>3
<1>6. \A m \in Nat : \A k \in 1..n : k <= m => f[m][k] = f[k][k]
  <2> DEFINE S == {m \in Nat : \A k \in 1..n : k <= m => f[m][k] = f[k][k]}
  <2>1. 0 \in S
    OBVIOUS
  <2>2. ASSUME NEW m \in Nat, m \in S PROVE m + 1 \in S
    <3> SUFFICES ASSUME NEW k \in 1..n, k <= m + 1 PROVE f[m + 1][k] = f[k][k]
      OBVIOUS
    <3>1. CASE k = m + 1
      BY <3>1
    <3>2. CASE k # m + 1
      <4>1. k <= m /\ f[m][k] = f[k][k]
        BY <2>2, <3>2
      <4>2. f[m + 1][k] = f[m][k]
        <5>0. (m + 1) - 1 = m /\ m + 1 \in Nat /\ m + 1 # 0
          OBVIOUS
        <5>1. CASE m + 1 \in 1..n
          <6>1. f[m + 1] = [f[m] EXCEPT ![m + 1] = V[<<m + 1, f[m]>>]]
            BY <1>4, <5>0, <5>1
          <6>2. f[m] \in Y
            OBVIOUS
          <6> QED
            BY <3>2, <6>1, <6>2
        <5>2. CASE m + 1 \notin 1..n
          <6>1. f[m + 1] = f[m]
            BY <1>5, <5>0, <5>2
          <6> QED
            BY <6>1
        <5> QED
          BY <5>1, <5>2
      <4> QED
        BY <4>1, <4>2
    <3> QED
      BY <3>1, <3>2
  <2> HIDE DEF S
  <2>3. \A m \in Nat : m \in S
    BY <2>1, <2>2, Induction
  <2> QED
    BY <2>3 DEF S
<1>7. ASSUME NEW k \in 1..n PROVE f[n][k] = V[<<k, f[n]>>]
  <2>1. k - 1 \in Nat /\ k \in Nat /\ k <= n
    OBVIOUS
  <2>2. f[n][k] = f[k][k]
    BY <1>6, <2>1
  <2>3. f[k][k] = V[<<k, f[k - 1]>>]
    <3>1. f[k] = [f[k - 1] EXCEPT ![k] = V[<<k, f[k - 1]>>]]
      BY <1>4
    <3>2. f[k - 1] \in Y
      BY <2>1
    <3> QED
      BY <3>1, <3>2
  <2>4. ASSUME NEW l \in 1..(k - 1) PROVE f[k - 1][l] = f[n][l]
    <3>1. l \in 1..n /\ l <= k - 1 /\ l <= n
      OBVIOUS
    <3> QED
      BY <1>6, <2>1, <3>1
  <2>5. f[k - 1] \in [1..n -> X] /\ f[n] \in [1..n -> X]
    BY <2>1
  <2>6. V[<<k, f[k - 1]>>] = V[<<k, f[n]>>]
    BY <2>4, <2>5
  <2> QED
    BY <2>2, <2>3, <2>6
<1>8. f[n] \in [1..n -> X]
  OBVIOUS
<1>9. f[n] = [k \in 1..n |-> V[<<k, f[n]>>]]
  <2>1. f[n] = [k \in 1..n |-> f[n][k]]
    BY <1>8
  <2> QED
    BY <1>7, <2>1
<1> QED
  BY <1>8, <1>9 DEF ByEarlier
-----------------------------------------------------------------------------
(* Finite sets in a sequence.                                               *)

NoneTwice(f) == \A a, b \in DOMAIN f : f[a] = f[b] => a = b

(* f lists the elements of S, each once. *)
ListsOf(f, S) ==
  /\ f \in [1..Cardinality(S) -> S] /\ NoneTwice(f)
  /\ \A x \in S : \E i \in 1..Cardinality(S) : f[i] = x

(* A finite set can be listed.                                              *)
LEMMA ListExists ==
  ASSUME NEW S, IsFiniteSet(S)
  PROVE  \E f : ListsOf(f, S)
<1>1. PICK f : f \in Bijection(1..Cardinality(S), S)
  BY FS_CardinalityType DEF ExistsBijection
<1>2. f \in [1..Cardinality(S) -> S] /\ NoneTwice(f)
  BY <1>1 DEF Bijection, Injection, IsInjective, NoneTwice
<1>3. f \in Surjection(1..Cardinality(S), S)
  BY <1>1 DEF Bijection
<1> QED
  BY <1>2, <1>3 DEF ListsOf, Surjection

(* As many different elements as S has are all of S.                        *)
LEMMA OneToOneLists ==
  ASSUME NEW S, IsFiniteSet(S), NEW f \in [1..Cardinality(S) -> S], NoneTwice(f)
  PROVE  ListsOf(f, S)
<1>1. Cardinality(S) \in Nat /\ IsFiniteSet(1..Cardinality(S))
      /\ Cardinality(1..Cardinality(S)) = Cardinality(S)
  BY FS_CardinalityType, FS_Interval
<1>2. f \in Injection(1..Cardinality(S), S)
  BY DEF Injection, IsInjective, NoneTwice
<1>3. f \in Surjection(1..Cardinality(S), S)
  BY <1>1, <1>2, FS_Injection
<1> QED
  BY <1>3 DEF ListsOf, Surjection

(* The values of a function on a finite set are no more than its elements.  *)
LEMMA ImageFinite ==
  ASSUME NEW S, IsFiniteSet(S), NEW f, DOMAIN f = S
  PROVE  /\ IsFiniteSet({f[x] : x \in S})
         /\ Cardinality({f[x] : x \in S}) <= Cardinality(S)
         /\ (Cardinality({f[x] : x \in S}) = Cardinality(S) <=> NoneTwice(f))
<1> DEFINE T == {f[x] : x \in S}
           g == [x \in S |-> f[x]]
<1>1. g \in Surjection(S, T)
  BY DEF Surjection
<1>2. /\ IsFiniteSet(T) /\ Cardinality(T) <= Cardinality(S)
      /\ Cardinality(T) = Cardinality(S) <=> g \in Injection(S, T)
  BY <1>1, FS_Surjection
<1>3. g \in Injection(S, T) <=> NoneTwice(f)
  BY DEF Injection, IsInjective, NoneTwice
<1> QED
  BY <1>2, <1>3

-----------------------------------------------------------------------------
(* Finite sets of integers.                                                 *)

(* How many elements of S are less than i. *)
RankOf(S, i) == Cardinality({k \in S : k < i})

(* It grows with i.                                                         *)
LEMMA RankGrows ==
  ASSUME NEW S, IsFiniteSet(S), \A x \in S : x \in Int, NEW i \in S, NEW j \in S, i < j
  PROVE  RankOf(S, i) < RankOf(S, j)
<1> DEFINE A == {k \in S : k < i}
           B == {k \in S : k < j}
<1>1. A \subseteq B /\ i \in B /\ i \notin A
  OBVIOUS
<1>2. IsFiniteSet(B) /\ Cardinality(B) \in Nat /\ IsFiniteSet(A) /\ Cardinality(A) \in Nat
  <2>1. A \subseteq S /\ B \subseteq S
    OBVIOUS
  <2> HIDE DEF A, B
  <2> QED
    BY <2>1, FS_Subset, FS_CardinalityType
<1>3. Cardinality(A) <= Cardinality(B) /\ (Cardinality(A) = Cardinality(B) => A = B)
  <2> HIDE DEF A, B
  <2> QED
    BY <1>1, <1>2, FS_Subset
<1>4. Cardinality(A) < Cardinality(B)
  <2> HIDE DEF A, B
  <2> QED
    BY <1>1, <1>2, <1>3
<1> QED
  BY <1>4 DEF RankOf

(* It is of one element alone.                                              *)
LEMMA RankOneToOne ==
  ASSUME NEW S, IsFiniteSet(S), \A x \in S : x \in Int, NEW i \in S, NEW j \in S,
         RankOf(S, i) = RankOf(S, j)
  PROVE  i = j
<1>1. RankOf(S, i) \in Nat
  <2>1. {k \in S : k < i} \subseteq S
    OBVIOUS
  <2> QED
    BY <2>1, FS_Subset, FS_CardinalityType DEF RankOf
<1>2. ~(i < j) /\ ~(j < i)
  BY <1>1, RankGrows
<1> QED
  BY <1>2

(* It is less than the number of all.                                       *)
LEMMA RankType ==
  ASSUME NEW S, IsFiniteSet(S), \A x \in S : x \in Int, NEW i \in S
  PROVE  RankOf(S, i) \in 0..(Cardinality(S) - 1)
<1> DEFINE A == {k \in S : k < i}
<1>1. A \subseteq S /\ i \notin A
  OBVIOUS
<1> HIDE DEF A
<1>2. /\ Cardinality(A) \in Nat /\ Cardinality(S) \in Nat /\ Cardinality(A) <= Cardinality(S)
      /\ Cardinality(A) = Cardinality(S) => A = S
  BY <1>1, FS_Subset, FS_CardinalityType
<1>3. Cardinality(A) \in 0..(Cardinality(S) - 1)
  BY <1>1, <1>2
<1> QED
  BY <1>3 DEF RankOf, A

(* There is an element of each rank. *)
LEMMA RankOnto ==
  ASSUME NEW S, IsFiniteSet(S), \A x \in S : x \in Int, NEW r \in 0..(Cardinality(S) - 1)
  PROVE  \E i \in S : RankOf(S, i) = r
<1> DEFINE T == 0..(Cardinality(S) - 1)
           f == [i \in S |-> RankOf(S, i)]
<1>1. IsFiniteSet(T) /\ Cardinality(T) = Cardinality(S)
  <2>1. Cardinality(S) \in Nat
    BY FS_CardinalityType
  <2> QED
    BY <2>1, FS_Interval
<1>2. f \in [S -> T]
  BY RankType
<1>3. f \in Injection(S, T)
  <2>1. \A a, b \in S : f[a] = f[b] => a = b
    BY RankOneToOne
  <2> HIDE DEF f, T
  <2> QED
    BY <1>2, <2>1 DEF Injection, IsInjective
<1>4. f \in Surjection(S, T)
  <2> HIDE DEF f, T
  <2> QED
    BY <1>1, <1>3, FS_Injection
<1> QED
  BY <1>4 DEF Surjection

(* The first m of S. *)
FirstOf(S, m) == {x \in S : RankOf(S, x) < m}

(* They are m, or all that there are.                                       *)
LEMMA FirstCount ==
  ASSUME NEW S, IsFiniteSet(S), \A x \in S : x \in Int, NEW m \in Nat
  PROVE  Cardinality(FirstOf(S, m)) = IF Cardinality(S) <= m THEN Cardinality(S) ELSE m
<1> DEFINE c == IF Cardinality(S) <= m THEN Cardinality(S) ELSE m
           A == FirstOf(S, m)
           B == 0..(c - 1)
           f == [x \in A |-> RankOf(S, x)]
<1>1. Cardinality(S) \in Nat /\ c \in Nat
  BY FS_CardinalityType
<1>2. IsFiniteSet(B) /\ Cardinality(B) = c
  <2> HIDE DEF c
  <2>1. IsFiniteSet(0..(c - 1)) /\ Cardinality(0..(c - 1)) = c
    <3>1. 0 \in Int /\ c - 1 \in Int /\ (c = 0 <=> 0 > c - 1) /\ (c - 1) - 0 + 1 = c
      BY <1>1
    <3> QED
      BY <3>1, FS_Interval
  <2> QED
    BY <2>1
<1>3. A \subseteq S /\ \A x \in A : RankOf(S, x) < m
  BY DEF FirstOf
<1> HIDE DEF A
<1>4. f \in [A -> B]
  <2>1. ASSUME NEW x \in A PROVE RankOf(S, x) \in B
    <3>1. RankOf(S, x) \in 0..(Cardinality(S) - 1) /\ RankOf(S, x) < m
      BY <1>3, RankType
    <3> QED
      BY <1>1, <3>1
  <2> HIDE DEF B
  <2> QED
    BY <2>1
<1>5. f \in Bijection(A, B)
  <2>1. \A x, y \in A : f[x] = f[y] => x = y
    BY <1>3, RankOneToOne
  <2>2. ASSUME NEW r \in B PROVE \E x \in A : f[x] = r
    <3>1. r \in 0..(Cardinality(S) - 1) /\ r < m
      BY <1>1
    <3>2. PICK x \in S : RankOf(S, x) = r
      BY <3>1, RankOnto
    <3>3. x \in A
      BY <3>1, <3>2 DEF A, FirstOf
    <3> QED
      BY <3>2, <3>3
  <2> HIDE DEF f, B
  <2> QED
    BY <1>4, <2>1, <2>2 DEF Bijection, Injection, Surjection, IsInjective
<1>6. Cardinality(A) = Cardinality(B)
  <2> HIDE DEF f, B
  <2>1. ExistsBijection(A, B)
    BY <1>5 DEF ExistsBijection
  <2>2. IsFiniteSet(A)
    BY <1>3, FS_Subset
  <2> QED
    BY <1>2, <2>1, <2>2, FS_Bijection
<1> HIDE DEF B, c
<1>7. Cardinality(A) = c
  BY <1>2, <1>6
<1> QED
  BY <1>7 DEF A, c

(* In a part fewer are less. *)
LEMMA RankOfPart ==
  ASSUME NEW W, IsFiniteSet(W), NEW S \in SUBSET W, NEW x
  PROVE  RankOf(S, x) \in Nat /\ RankOf(W, x) \in Nat /\ RankOf(S, x) <= RankOf(W, x)
<1> DEFINE A == {k \in S : k < x}
           B == {k \in W : k < x}
<1>1. A \subseteq B /\ B \subseteq W
  OBVIOUS
<1>2. IsFiniteSet(B) /\ IsFiniteSet(A)
  <2> HIDE DEF A, B
  <2> QED
    BY <1>1, FS_Subset
<1>3. Cardinality(A) \in Nat /\ Cardinality(B) \in Nat /\ Cardinality(A) <= Cardinality(B)
  <2> HIDE DEF A, B
  <2> QED
    BY <1>1, <1>2, FS_Subset, FS_CardinalityType
<1> QED
  BY <1>3 DEF RankOf

(* A part of W with the first m of W has the same first m.                  *)
LEMMA FirstOfPart ==
  ASSUME NEW W, IsFiniteSet(W), \A x \in W : x \in Int, NEW m \in Nat,
         NEW S \in SUBSET W, FirstOf(W, m) \subseteq S
  PROVE  FirstOf(S, m) = FirstOf(W, m)
<1>1. IsFiniteSet(S) /\ \A x \in S : x \in Int
  BY FS_Subset
<1>2. ASSUME NEW x \in S
      PROVE  RankOf(S, x) \in Nat /\ RankOf(W, x) \in Nat /\ RankOf(S, x) <= RankOf(W, x)
  BY RankOfPart
<1>3. ASSUME NEW x \in S, RankOf(S, x) < m PROVE RankOf(W, x) < m
  <2> SUFFICES ASSUME m <= RankOf(W, x) PROVE FALSE
    BY <1>2
  <2>1. ASSUME NEW y \in FirstOf(W, m) PROVE y \in S /\ y < x
    <3>1. y \in W /\ y \in S /\ RankOf(W, y) < m /\ x \in W /\ y \in S
      BY <2>1 DEF FirstOf
    <3>2. RankOf(W, y) < RankOf(W, x) /\ RankOf(W, y) \in Nat
      BY <1>2, <3>1
    <3>3. ~(x < y)
      BY <1>2, <3>1, <3>2, RankGrows
    <3>4. x # y
      BY <1>2, <3>2
    <3> QED
      BY <1>1, <3>1, <3>3, <3>4
  <2>2. FirstOf(W, m) \subseteq {k \in S : k < x}
    BY <2>1
  <2>3. Cardinality(FirstOf(W, m)) <= RankOf(S, x)
    <3>1. IsFiniteSet({k \in S : k < x})
      BY <1>1, FS_Subset
    <3> QED
      BY <2>2, <3>1, FS_Subset DEF RankOf
  <2>4. RankOf(W, x) \in 0..(Cardinality(W) - 1) /\ Cardinality(W) \in Nat
    BY RankType, FS_CardinalityType
  <2>5. Cardinality(FirstOf(W, m)) = m
    BY <2>4, FirstCount
  <2> QED
    BY <1>2, <1>3, <2>3, <2>5
<1>4. ASSUME NEW x \in FirstOf(W, m) PROVE x \in S /\ RankOf(S, x) < m
  BY <1>2 DEF FirstOf
<1> QED
  BY <1>3, <1>4 DEF FirstOf

(* A finite set of integers has a least and a greatest one.                 *)
LEMMA LeastOfFinite ==
  ASSUME NEW S, IsFiniteSet(S), \A x \in S : x \in Int, S # {}
  PROVE  \E x \in S : \A y \in S : x <= y
<1>1. Cardinality(S) \in Nat /\ Cardinality(S) # 0
  BY FS_CardinalityType, FS_EmptySet
<1>2. 0 \in 0..(Cardinality(S) - 1)
  BY <1>1
<1>3. PICK x \in S : RankOf(S, x) = 0
  BY <1>2, RankOnto
<1>4. ASSUME NEW y \in S, y < x PROVE FALSE
  <2>1. RankOf(S, y) < 0
    BY <1>3, <1>4, RankGrows
  <2>2. RankOf(S, y) \in 0..(Cardinality(S) - 1)
    BY RankType
  <2> QED
    BY <1>1, <2>1, <2>2
<1> QED
  BY <1>4

(* And a greatest one.                                                      *)
LEMMA GreatestOfFinite ==
  ASSUME NEW S, IsFiniteSet(S), \A x \in S : x \in Int, S # {}
  PROVE  \E x \in S : \A y \in S : y <= x
<1>1. Cardinality(S) \in Nat /\ Cardinality(S) # 0
  BY FS_CardinalityType, FS_EmptySet
<1>2. Cardinality(S) - 1 \in 0..(Cardinality(S) - 1)
  BY <1>1
<1>3. PICK x \in S : RankOf(S, x) = Cardinality(S) - 1
  BY <1>2, RankOnto
<1>4. ASSUME NEW y \in S, x < y PROVE FALSE
  <2>1. Cardinality(S) - 1 < RankOf(S, y)
    BY <1>3, <1>4, RankGrows
  <2>2. RankOf(S, y) \in 0..(Cardinality(S) - 1)
    BY RankType
  <2> QED
    BY <1>1, <2>1, <2>2
<1> QED
  BY <1>4

(* A function on a finite set takes a least and a greatest value.           *)
LEMMA ExtremeValues ==
  ASSUME NEW S, IsFiniteSet(S), S # {}, NEW f, DOMAIN f = S, \A x \in S : f[x] \in Int
  PROVE  /\ \E x \in S : \A y \in S : f[x] <= f[y]
         /\ \E x \in S : \A y \in S : f[y] <= f[x]
<1> DEFINE T == {f[x] : x \in S}
<1>1. IsFiniteSet(T) /\ T # {} /\ \A t \in T : t \in Int
  BY ImageFinite
<1> HIDE DEF T
<1>2. PICK low \in T : \A t \in T : low <= t
  BY <1>1, LeastOfFinite
<1>3. PICK high \in T : \A t \in T : t <= high
  BY <1>1, GreatestOfFinite
<1> QED
  BY <1>2, <1>3 DEF T

-----------------------------------------------------------------------------
(* Growing sets.                                                            *)

(* A set that grows until it grows no more, in a finite one, has stopped    *)
(* after as many steps as it lacks elements.                                *)
LEMMA Saturated ==
  ASSUME NEW N, IsFiniteSet(N), NEW g \in [Nat -> SUBSET N],
         \A k \in Nat : g[k] \subseteq g[k + 1],
         \A k \in Nat : g[k + 1] = g[k] => g[(k + 1) + 1] = g[k + 1],
         NEW n \in Nat, Cardinality(N) <= n + Cardinality(g[0])
  PROVE  g[n + 1] = g[n]
<1> DEFINE size(k) == Cardinality(g[k])
           S == {k \in Nat : g[k + 1] = g[k] \/ k + size(0) <= size(k)}
<1>1. ASSUME NEW k \in Nat PROVE IsFiniteSet(g[k]) /\ size(k) \in Nat /\ size(k) <= Cardinality(N)
  <2>1. g[k] \subseteq N
    OBVIOUS
  <2> QED
    BY <2>1, FS_Subset, FS_CardinalityType
<1>2. 0 \in S
  BY <1>1
<1>3. ASSUME NEW k \in Nat, k \in S PROVE k + 1 \in S
  <2>1. CASE g[k + 1] = g[k]
    <3>1. g[(k + 1) + 1] = g[k + 1]
      BY <2>1
    <3> QED
      BY <3>1
  <2>2. CASE g[k + 1] # g[k] /\ k + size(0) <= size(k)
    <3>1. g[k] \subseteq g[k + 1] /\ IsFiniteSet(g[k + 1])
      BY <1>1
    <3>2. size(k) <= size(k + 1) /\ (size(k) = size(k + 1) => g[k] = g[k + 1])
      BY <3>1, FS_Subset
    <3>3. size(0) \in Nat /\ size(k) \in Nat /\ size(k + 1) \in Nat
      BY <1>1
    <3> HIDE DEF size
    <3>4. (k + 1) + size(0) <= size(k + 1)
      BY <2>2, <3>2, <3>3
    <3> QED
      BY <3>4
  <2> QED
    BY <1>3, <2>1, <2>2
<1> HIDE DEF S
<1>4. n \in S
  BY <1>2, <1>3, Induction
<1>5. CASE n + size(0) <= size(n)
  <2>1. Cardinality(N) = size(n)
    <3>1. size(n) \in Nat /\ size(n) <= Cardinality(N) /\ size(0) \in Nat /\ Cardinality(N) \in Nat
      BY <1>1, FS_CardinalityType
    <3> QED
      BY <1>5, <3>1
  <2>2. g[n] = N
    <3>1. g[n] \subseteq N
      OBVIOUS
    <3> QED
      BY <2>1, <3>1, FS_Subset
  <2>3. g[n + 1] \subseteq N /\ g[n] \subseteq g[n + 1]
    OBVIOUS
  <2> QED
    BY <2>2, <2>3
<1> QED
  BY <1>4, <1>5 DEF S

(* What grows from a part of S, by steps that do not leave S, is part of S. *)
LEMMA Stays ==
  ASSUME NEW N, NEW g \in [Nat -> SUBSET N], NEW S, g[0] \subseteq S,
         \A k \in Nat : g[k] \subseteq S => g[k + 1] \subseteq S
  PROVE  \A k \in Nat : g[k] \subseteq S
<1> DEFINE T == {k \in Nat : g[k] \subseteq S}
<1>1. 0 \in T /\ \A k \in Nat : k \in T => k + 1 \in T
  OBVIOUS
<1> HIDE DEF T
<1>2. \A k \in Nat : k \in T
  BY <1>1, Induction
<1> QED
  BY <1>2 DEF T

(* g grows from a, n times by the steps of T. *)
Grows(T, a, n, g) == g = [k \in 0..n |-> IF k = 0 THEN a ELSE T[g[k - 1]]]

(* S is the least set with a that T adds nothing to. *)
LeastClosed(N, T, a, S) ==
  /\ S \in SUBSET N /\ a \subseteq S /\ T[S] = S
  /\ \A U \in SUBSET N : a \subseteq U /\ (\A X \in SUBSET U : T[X] \subseteq U) => S \subseteq U

(* There is such a g.                                                        *)
LEMMA GrowsExists ==
  ASSUME NEW N, NEW a \in SUBSET N, NEW T \in [SUBSET N -> SUBSET N], NEW n \in Nat
  PROVE  \E g : Grows(T, a, n, g)
<1> DEFINE X == SUBSET N
           F == [p \in Nat \X X |-> T[p[2]]]
<1>1. F \in [Nat \X X -> X]
  OBVIOUS
<1>2. PICK g \in [0..n -> X] : Recursive(F, a, n, g)
  <2> HIDE DEF F, X
  <2>1. a \in X
    BY DEF X
  <2> QED
    BY <1>1, <2>1, RecursiveExists
<1>3. ASSUME NEW k \in 0..n, k # 0 PROVE F[<<k, g[k - 1]>>] = T[g[k - 1]]
  <2>1. k - 1 \in 0..n /\ g[k - 1] \in X /\ k \in Nat
    BY <1>3
  <2> HIDE DEF X
  <2> QED
    BY <2>1
<1> HIDE DEF F, X
<1>4. Grows(T, a, n, g)
  BY <1>2, <1>3 DEF Grows, Recursive
<1> QED
  BY <1>4

(* It ends with the least closed set when its steps are as many as a lacks elements.*)
LEMMA GrowsToLeast ==
  ASSUME NEW N, IsFiniteSet(N), NEW a \in SUBSET N, NEW T \in [SUBSET N -> SUBSET N],
         \A X \in SUBSET N : X \subseteq T[X],
         NEW n \in Nat, Cardinality(N) <= n + Cardinality(a), NEW g, Grows(T, a, n, g)
  PROVE  LeastClosed(N, T, a, g[n])
<1> DEFINE X == SUBSET N
           F == [p \in Nat \X X |-> T[p[2]]]
<1>1. F \in [Nat \X X -> X] /\ a \in X
  OBVIOUS
<1>2. PICK f \in [Nat -> X] : Iterates(F, a, f)
  <2> HIDE DEF F, X
  <2> QED
    BY <1>1, Iterated
<1>3. f[0] = a /\ \A k \in Nat : f[k + 1] = T[f[k]]
  <2>1. ASSUME NEW k \in Nat PROVE f[k + 1] = T[f[k]]
    <3>1. f[k + 1] = F[<<k + 1, f[k]>>]
      BY <1>2 DEF Iterates
    <3>2. f[k] \in X /\ k + 1 \in Nat
      OBVIOUS
    <3> HIDE DEF X
    <3> QED
      BY <3>1, <3>2
  <2> QED
    BY <1>2, <2>1 DEF Iterates
<1> HIDE DEF F
<1>4. \A k \in 0..n : g[k] = f[k]
  <2> DEFINE S == {k \in Nat : k <= n => g[k] = f[k]}
  <2>1. 0 \in S
    BY <1>3 DEF Grows
  <2>2. ASSUME NEW k \in Nat, k \in S PROVE k + 1 \in S
    <3> SUFFICES ASSUME k + 1 <= n PROVE g[k + 1] = f[k + 1]
      OBVIOUS
    <3>1. g[k] = f[k] /\ k + 1 \in 0..n /\ k + 1 # 0 /\ (k + 1) - 1 = k
      BY <2>2
    <3>2. g[k + 1] = T[g[k]]
      BY <3>1 DEF Grows
    <3> QED
      BY <1>3, <3>1, <3>2
  <2> HIDE DEF S
  <2>3. \A k \in Nat : k \in S
    BY <2>1, <2>2, Induction
  <2> QED
    BY <2>3 DEF S
<1>5. f \in [Nat -> SUBSET N] /\ g[n] = f[n] /\ f[n] \in SUBSET N
  BY <1>4
<1>6. \A k \in Nat : f[k] \subseteq f[k + 1]
  BY <1>3, <1>5
<1>7. \A k \in Nat : f[k + 1] = f[k] => f[(k + 1) + 1] = f[k + 1]
  <2>1. ASSUME NEW k \in Nat, f[k + 1] = f[k] PROVE f[(k + 1) + 1] = f[k + 1]
    <3>1. k + 1 \in Nat
      OBVIOUS
    <3>2. f[(k + 1) + 1] = T[f[k + 1]] /\ f[k + 1] = T[f[k]]
      BY <1>3, <3>1
    <3> QED
      BY <2>1, <3>2
  <2> QED
    BY <2>1
<1>8. f[n + 1] = f[n]
  <2>1. Cardinality(N) <= n + Cardinality(f[0])
    BY <1>3
  <2> HIDE DEF X
  <2> QED
    BY <1>5, <1>6, <1>7, <2>1, Saturated
<1>9. T[g[n]] = g[n]
  BY <1>3, <1>5, <1>8
<1>10. a \subseteq g[n]
  <2>1. \A k \in Nat : a \subseteq f[k]
    <3> DEFINE S == {k \in Nat : a \subseteq f[k]}
    <3>1. 0 \in S /\ \A k \in Nat : k \in S => k + 1 \in S
      BY <1>3, <1>6
    <3> HIDE DEF S
    <3>2. \A k \in Nat : k \in S
      BY <3>1, Induction
    <3> QED
      BY <3>2 DEF S
  <2> QED
    BY <1>5, <2>1
<1>11. ASSUME NEW U \in SUBSET N, a \subseteq U, \A Y \in SUBSET U : T[Y] \subseteq U
       PROVE  g[n] \subseteq U
  <2>1. f[0] \subseteq U /\ \A k \in Nat : f[k] \subseteq U => f[k + 1] \subseteq U
    BY <1>3, <1>11
  <2> HIDE DEF X
  <2>2. \A k \in Nat : f[k] \subseteq U
    BY <1>5, <2>1, Stays
  <2> QED
    BY <1>5, <2>2
<1> QED
  BY <1>5, <1>9, <1>10, <1>11 DEF LeastClosed

-----------------------------------------------------------------------------
(* Sequences.                                                               *)

(* Sequences with the same elements are the same.                           *)
LEMMA SameSequence ==
  ASSUME NEW E, NEW s \in Seq(E), NEW t \in Seq(E), Len(s) = Len(t), \A k \in 1..Len(s) : s[k] = t[k]
  PROVE  s = t
OBVIOUS

(* What is put after each other has the elements of both.                   *)
LEMMA Joined ==
  ASSUME NEW E, NEW s \in Seq(E), NEW t \in Seq(E)
  PROVE  /\ s \o t \in Seq(E) /\ Len(s \o t) = Len(s) + Len(t) /\ Len(s) \in Nat /\ Len(t) \in Nat
         /\ \A k \in 1..Len(s) : (s \o t)[k] = s[k]
         /\ \A k \in 1..Len(t) : (s \o t)[Len(s) + k] = t[k]
OBVIOUS

(* A sequence is its beginning and the rest.                                *)
LEMMA CutInTwo ==
  ASSUME NEW E, NEW s \in Seq(E), NEW k \in 0..Len(s)
  PROVE  /\ SubSeq(s, 1, k) \in Seq(E) /\ SubSeq(s, k + 1, Len(s)) \in Seq(E)
         /\ Len(SubSeq(s, 1, k)) = k /\ Len(SubSeq(s, k + 1, Len(s))) = Len(s) - k
         /\ s = SubSeq(s, 1, k) \o SubSeq(s, k + 1, Len(s))
<1> DEFINE a == SubSeq(s, 1, k)
           b == SubSeq(s, k + 1, Len(s))
           c == a \o b
<1>1. a \in Seq(E)
  OBVIOUS
<1>2. b \in Seq(E)
  OBVIOUS
<1>3. Len(a) = k /\ Len(b) = Len(s) - k
  OBVIOUS
<1>4. /\ \A j \in 1..k : a[j] = s[j]
      /\ \A j \in 1..(Len(s) - k) : b[j] = s[k + j]
  OBVIOUS
<1> HIDE DEF a, b
<1>5. c \in Seq(E) /\ Len(c) = Len(s)
  BY <1>1, <1>2, <1>3
<1>6. ASSUME NEW j \in 1..Len(s) PROVE c[j] = s[j]
  <2>1. CASE j <= k
    BY <1>1, <1>2, <1>3, <1>4, <2>1
  <2>2. CASE j > k
    <3>1. j - k \in 1..(Len(s) - k) /\ k + (j - k) = j
      BY <2>2
    <3>2. c[j] = b[j - k]
      BY <1>1, <1>2, <1>3, <2>2
    <3>3. b[j - k] = s[k + (j - k)]
      BY <1>4, <3>1
    <3> QED
      BY <3>1, <3>2, <3>3
  <2>3. j <= k \/ j > k
    OBVIOUS
  <2> HIDE DEF c
  <2> QED
    BY <2>1, <2>2, <2>3
<1> HIDE DEF c
<1>7. s = c
  BY <1>5, <1>6, SameSequence
<1> QED
  BY <1>1, <1>2, <1>3, <1>7 DEF a, b, c

(* And its beginning, an element and the rest.                              *)
LEMMA CutInThree ==
  ASSUME NEW E, NEW s \in Seq(E), NEW h \in 1..Len(s)
  PROVE  /\ SubSeq(s, 1, h - 1) \in Seq(E) /\ SubSeq(s, h + 1, Len(s)) \in Seq(E)
         /\ s = (SubSeq(s, 1, h - 1) \o <<s[h]>>) \o SubSeq(s, h + 1, Len(s))
         /\ Len(SubSeq(s, 1, h - 1)) = h - 1 /\ Len(SubSeq(s, h + 1, Len(s))) = Len(s) - h
<1> DEFINE a == SubSeq(s, 1, h - 1)
           b == SubSeq(s, h + 1, Len(s))
           x == <<s[h]>>
           d == SubSeq(s, 1, h)
<1>1. h \in 0..Len(s) /\ h \in Nat /\ s[h] \in E
  OBVIOUS
<1>2. d \in Seq(E) /\ b \in Seq(E) /\ Len(d) = h /\ Len(b) = Len(s) - h /\ s = d \o b
  BY <1>1, CutInTwo
<1>3. \A j \in 1..h : d[j] = s[j]
  OBVIOUS
<1>4. /\ a \in Seq(E) /\ x \in Seq(E) /\ Len(a) = h - 1 /\ Len(x) = 1 /\ x[1] = s[h]
      /\ \A j \in 1..(h - 1) : a[j] = s[j]
  <2>1. a \in Seq(E)
    OBVIOUS
  <2>2. Len(a) = h - 1 /\ \A j \in 1..(h - 1) : a[j] = s[j]
    OBVIOUS
  <2> QED
    BY <1>1, <2>1, <2>2
<1> HIDE DEF a, b, d, x
<1> DEFINE c == a \o x
<1>5. c \in Seq(E) /\ Len(c) = h
  <2>1. a \in Seq(E) /\ x \in Seq(E) /\ Len(a) = h - 1 /\ Len(x) = 1
    BY <1>4
  <2>2. c \in Seq(E) /\ Len(c) = Len(a) + Len(x)
    BY <2>1, Joined
  <2> QED
    BY <1>1, <2>1, <2>2
<1>6. ASSUME NEW j \in 1..Len(c) PROVE c[j] = d[j]
  <2>1. CASE j < h
    <3>1. j \in 1..(h - 1) /\ j \in 1..h
      BY <1>1, <2>1, <1>5
    <3>2. c[j] = a[j]
      BY <1>4, <3>1
    <3> QED
      BY <1>3, <1>4, <3>1, <3>2
  <2>2. CASE j = h
    <3>1. c[j] = x[1]
      BY <1>1, <1>4, <2>2
    <3> QED
      BY <1>1, <1>3, <1>4, <2>2, <3>1
  <2>3. j < h \/ j = h
    BY <1>1, <1>5
  <2> HIDE DEF c
  <2> QED
    BY <2>1, <2>2, <2>3
<1> HIDE DEF c
<1>7. c = d
  BY <1>2, <1>5, <1>6, SameSequence
<1> QED
  BY <1>2, <1>4, <1>7 DEF a, b, c, x

(* What is in a sequence.                                                   *)
Of(s) == {s[k] : k \in DOMAIN s}

(* Appending adds one element, at the end.                                  *)
LEMMA OfAppend ==
  ASSUME NEW E, NEW s \in Seq(E), NEW x \in E
  PROVE  /\ Append(s, x) \in Seq(E) /\ Len(Append(s, x)) = Len(s) + 1 /\ Len(s) \in Nat
         /\ Append(s, x)[Len(s) + 1] = x /\ \A k \in 1..Len(s) : Append(s, x)[k] = s[k]
         /\ Of(Append(s, x)) = Of(s) \cup {x} /\ Of(s) \subseteq E
         /\ NoneTwice(s) /\ x \notin Of(s) => NoneTwice(Append(s, x))
<1> DEFINE t == Append(s, x)
<1>1. /\ t \in Seq(E) /\ Len(t) = Len(s) + 1 /\ Len(s) \in Nat /\ DOMAIN t = 1..(Len(s) + 1)
      /\ t[Len(s) + 1] = x /\ \A k \in 1..Len(s) : t[k] = s[k]
      /\ DOMAIN s = 1..Len(s)
  OBVIOUS
<1> HIDE DEF t
<1>2. 1..(Len(s) + 1) = 1..Len(s) \cup {Len(s) + 1} /\ Len(s) + 1 \notin 1..Len(s)
  BY <1>1
<1>3. Of(t) = Of(s) \cup {x}
  <2>1. ASSUME NEW y \in Of(t) PROVE y \in Of(s) \cup {x}
    BY <1>1, <1>2 DEF Of
  <2>2. ASSUME NEW y \in Of(s) PROVE y \in Of(t)
    <3>1. PICK k \in 1..Len(s) : y = s[k]
      BY <1>1 DEF Of
    <3>2. k \in DOMAIN t /\ y = t[k]
      BY <1>1, <1>2, <3>1
    <3> QED
      BY <3>2 DEF Of
  <2>3. x \in Of(t)
    <3>1. Len(s) + 1 \in DOMAIN t /\ t[Len(s) + 1] = x
      BY <1>1, <1>2
    <3> QED
      BY <3>1 DEF Of
  <2> QED
    BY <2>1, <2>2, <2>3
<1>4. Of(s) \subseteq E
  BY DEF Of
<1>5. ASSUME NoneTwice(s), x \notin Of(s) PROVE NoneTwice(t)
  <2>1. ASSUME NEW a \in DOMAIN t, NEW b \in DOMAIN t, t[a] = t[b] PROVE a = b
    <3>1. \A k \in 1..Len(s) : t[k] # x
      BY <1>1, <1>5 DEF Of
    <3> QED
      BY <1>1, <1>2, <1>5, <2>1, <3>1 DEF NoneTwice
  <2> QED
    BY <2>1 DEF NoneTwice
<1> QED
  BY <1>1, <1>3, <1>4, <1>5 DEF t

(* Without its last element it has the others.                              *)
LEMMA OfPopped ==
  ASSUME NEW E, NEW s \in Seq(E), s # <<>>
  PROVE  LET rest == SubSeq(s, 1, Len(s) - 1)
             last == s[Len(s)]
         IN  /\ rest \in Seq(E) /\ Len(rest) = Len(s) - 1 /\ Len(s) \in Nat \ {0} /\ last \in E
             /\ \A k \in 1..(Len(s) - 1) : rest[k] = s[k]
             /\ Of(s) = Of(rest) \cup {last} /\ Of(s) \subseteq E
             /\ NoneTwice(s) => NoneTwice(rest) /\ last \notin Of(rest)
<1> DEFINE rest == SubSeq(s, 1, Len(s) - 1)
           last == s[Len(s)]
           n == Len(s) - 1
<1>1. n \in Nat /\ Len(s) = n + 1 /\ DOMAIN s = 1..(n + 1)
  OBVIOUS
<1>2. rest \in Seq(E)
  OBVIOUS
<1>3. Len(rest) = n /\ DOMAIN rest = 1..n /\ \A k \in 1..n : rest[k] = s[k]
  <2>1. \A k \in 1..n : rest[k] = s[k]
    OBVIOUS
  <2>2. n \in 0..Len(s)
    OBVIOUS
  <2> HIDE DEF n
  <2>3. Len(SubSeq(s, 1, n)) = n
    BY <2>2, CutInTwo
  <2>4. rest = SubSeq(s, 1, n)
    BY DEF n
  <2> HIDE DEF rest
  <2>5. DOMAIN rest = 1..Len(rest)
    BY <1>2
  <2> QED
    BY <2>1, <2>3, <2>4, <2>5
<1>4. last = s[n + 1] /\ last \in E
  OBVIOUS
<1> HIDE DEF rest, last, n
<1>5. 1..(n + 1) = 1..n \cup {n + 1} /\ n + 1 \notin 1..n
  BY <1>1
<1>6. Of(s) = Of(rest) \cup {last}
  <2>1. ASSUME NEW y \in Of(s) PROVE y \in Of(rest) \cup {last}
    <3>1. PICK k \in 1..(n + 1) : y = s[k]
      BY <1>1 DEF Of
    <3>2. CASE k = n + 1
      BY <1>4, <3>1, <3>2
    <3>3. CASE k # n + 1
      <4>1. k \in DOMAIN rest /\ y = rest[k]
        BY <1>3, <1>5, <3>1, <3>3
      <4> QED
        BY <4>1 DEF Of
    <3> QED
      BY <3>2, <3>3
  <2>2. ASSUME NEW y \in Of(rest) PROVE y \in Of(s)
    BY <1>1, <1>3, <1>5 DEF Of
  <2>3. last \in Of(s)
    BY <1>1, <1>4, <1>5 DEF Of
  <2> QED
    BY <2>1, <2>2, <2>3
<1>7. Of(s) \subseteq E
  BY DEF Of
<1>8. ASSUME NoneTwice(s) PROVE NoneTwice(rest) /\ last \notin Of(rest)
  <2>1. NoneTwice(rest)
    BY <1>1, <1>3, <1>5, <1>8 DEF NoneTwice
  <2>2. ASSUME last \in Of(rest) PROVE FALSE
    <3>1. PICK k \in 1..n : last = rest[k]
      BY <1>3, <2>2 DEF Of
    <3>2. k \in DOMAIN s /\ n + 1 \in DOMAIN s /\ s[k] = s[n + 1] /\ k # n + 1
      BY <1>1, <1>3, <1>4, <1>5, <3>1
    <3> QED
      BY <1>8, <3>2 DEF NoneTwice
  <2> QED
    BY <2>1, <2>2
<1> QED
  BY <1>1, <1>2, <1>3, <1>4, <1>6, <1>7, <1>8 DEF rest, last, n

(* As many as a set has, of it and different, are all of it; fewer are not. *)
LEMMA OfAll ==
  ASSUME NEW S, IsFiniteSet(S), NEW s \in Seq(S), NoneTwice(s)
  PROVE  /\ Len(s) = Cardinality(S) => Of(s) = S
         /\ Of(s) = S => Len(s) = Cardinality(S)
         /\ Len(s) \in Nat /\ Len(s) <= Cardinality(S) /\ IsFiniteSet(Of(s)) /\ Cardinality(Of(s)) = Len(s)
<1>1. /\ Len(s) \in Nat /\ s \in [1..Len(s) -> S] /\ DOMAIN s = 1..Len(s) /\ Of(s) \subseteq S
  BY DEF Of
<1>2. IsFiniteSet(1..Len(s)) /\ Cardinality(1..Len(s)) = Len(s)
  BY <1>1, UpTo
<1>3. IsFiniteSet(Of(s)) /\ Cardinality(Of(s)) = Len(s)
  <2>1. IsFiniteSet({s[k] : k \in 1..Len(s)}) /\ Cardinality({s[k] : k \in 1..Len(s)}) = Len(s)
    BY <1>1, <1>2, ImageFinite
  <2> QED
    BY <1>1, <2>1 DEF Of
<1>4. /\ Cardinality(Of(s)) <= Cardinality(S)
      /\ Cardinality(Of(s)) = Cardinality(S) => Of(s) = S
  BY <1>1, FS_Subset
<1> QED
  BY <1>1, <1>3, <1>4

(* What is put after each other has what both have.                         *)
LEMMA OfJoined ==
  ASSUME NEW E, NEW s \in Seq(E), NEW t \in Seq(E)
  PROVE  Of(s \o t) = Of(s) \cup Of(t)
<1> DEFINE c == s \o t
           m == Len(s)
           n == Len(t)
<1>1. /\ c \in Seq(E) /\ Len(c) = m + n /\ m \in Nat /\ n \in Nat
      /\ \A k \in 1..m : c[k] = s[k]
      /\ \A k \in 1..n : c[m + k] = t[k]
  BY Joined
<1>2. DOMAIN c = 1..Len(c) /\ DOMAIN s = 1..m /\ DOMAIN t = 1..n
  BY <1>1
<1> HIDE DEF c, m, n
<1>3. ASSUME NEW y \in Of(c) PROVE y \in Of(s) \cup Of(t)
  <2>1. PICK k \in 1..(m + n) : y = c[k]
    BY <1>1, <1>2 DEF Of
  <2>2. CASE k <= m
    <3>1. k \in 1..m
      BY <1>1, <2>1, <2>2
    <3> QED
      BY <1>1, <1>2, <2>1, <3>1 DEF Of
  <2>3. CASE k > m
    <3>1. k - m \in 1..n /\ m + (k - m) = k
      BY <1>1, <2>1, <2>3
    <3>2. y = t[k - m]
      BY <1>1, <2>1, <3>1
    <3> QED
      BY <1>2, <3>1, <3>2 DEF Of
  <2> QED
    BY <1>1, <2>1, <2>2, <2>3
<1>4. ASSUME NEW y \in Of(s) PROVE y \in Of(c)
  <2>1. PICK k \in 1..m : y = s[k]
    BY <1>2 DEF Of
  <2>2. k \in 1..(m + n) /\ y = c[k]
    BY <1>1, <2>1
  <2> QED
    BY <1>1, <1>2, <2>2 DEF Of
<1>5. ASSUME NEW y \in Of(t) PROVE y \in Of(c)
  <2>1. PICK k \in 1..n : y = t[k]
    BY <1>2 DEF Of
  <2>2. m + k \in 1..(m + n) /\ y = c[m + k]
    BY <1>1, <2>1
  <2> QED
    BY <1>1, <1>2, <2>2 DEF Of
<1>6. Of(c) = Of(s) \cup Of(t)
  BY <1>3, <1>4, <1>5
<1> QED
  BY <1>6 DEF c

-----------------------------------------------------------------------------
(* Sums of the values of w on 1..n.                                         *)
Sums(w, n, g) == g = [k \in 0..n |-> IF k = 0 THEN 0 ELSE g[k - 1] + w[k]]
SumOf(w, n) == (CHOOSE g : Sums(w, n, g))[n]

(* There is such a g.                                                       *)
LEMMA SumsExist ==
  ASSUME NEW n \in Nat, NEW w, \A k \in 1..n : w[k] \in Int
  PROVE  \E g \in [0..n -> Int] : Sums(w, n, g)
<1> DEFINE F == [p \in Nat \X Int |-> IF p[1] \in 1..n THEN p[2] + w[p[1]] ELSE p[2]]
<1>1. F \in [Nat \X Int -> Int]
  OBVIOUS
<1>2. PICK g \in [0..n -> Int] : Recursive(F, 0, n, g)
  <2> HIDE DEF F
  <2>1. 0 \in Int
    OBVIOUS
  <2> QED
    BY <1>1, <2>1, RecursiveExists
<1>3. ASSUME NEW k \in 0..n, k # 0 PROVE F[<<k, g[k - 1]>>] = g[k - 1] + w[k]
  <2>1. k - 1 \in 0..n /\ g[k - 1] \in Int /\ k \in Nat /\ k \in 1..n
    BY <1>3
  <2> QED
    BY <2>1
<1> HIDE DEF F
<1>4. Sums(w, n, g)
  BY <1>2, <1>3 DEF Sums, Recursive
<1> QED
  BY <1>4

(* Sums of the same agree as far as both go.                                *)
LEMMA SumsAgree ==
  ASSUME NEW n \in Nat, NEW m \in Nat, NEW w, NEW v, NEW g, NEW h, Sums(w, n, g), Sums(v, m, h),
         NEW l \in Nat, l <= n, l <= m, \A k \in 1..l : w[k] = v[k]
  PROVE  \A k \in 0..l : g[k] = h[k]
<1> DEFINE S == {k \in Nat : k <= l => g[k] = h[k]}
<1>1. 0 \in S
  BY DEF Sums
<1>2. ASSUME NEW k \in Nat, k \in S PROVE k + 1 \in S
  <2> SUFFICES ASSUME k + 1 <= l PROVE g[k + 1] = h[k + 1]
    OBVIOUS
  <2>1. g[k] = h[k] /\ k + 1 \in 0..n /\ k + 1 \in 0..m /\ k + 1 \in 1..l /\ k + 1 # 0 /\ (k + 1) - 1 = k
    BY <1>2
  <2>2. g[k + 1] = g[k] + w[k + 1] /\ h[k + 1] = h[k] + v[k + 1]
    BY <2>1 DEF Sums
  <2> QED
    BY <2>1, <2>2
<1> HIDE DEF S
<1>3. \A k \in Nat : k \in S
  BY <1>1, <1>2, Induction
<1> QED
  BY <1>3 DEF S

(* A sum by its last value; it is of the values alone.                      *)
LEMMA SumSteps ==
  ASSUME NEW w
  PROVE  /\ SumOf(w, 0) = 0
         /\ \A n \in Nat : (\A k \in 1..(n + 1) : w[k] \in Int)
              => /\ SumOf(w, n) \in Int
                 /\ SumOf(w, n + 1) = SumOf(w, n) + w[n + 1]
<1>1. ASSUME NEW n \in Nat, \A k \in 1..n : w[k] \in Int
      PROVE  \E g \in [0..n -> Int] : Sums(w, n, g) /\ SumOf(w, n) = g[n]
  <2> DEFINE h == CHOOSE g : Sums(w, n, g)
  <2>1. PICK g \in [0..n -> Int] : Sums(w, n, g)
    BY <1>1, SumsExist
  <2>2. Sums(w, n, h)
    BY <2>1
  <2>3. SumOf(w, n) = h[n]
    BY DEF SumOf
  <2> HIDE DEF h
  <2>4. \A k \in 0..n : g[k] = h[k]
    BY <2>1, <2>2, SumsAgree
  <2> QED
    BY <2>1, <2>3, <2>4
<1>2. SumOf(w, 0) = 0
  <2>1. \A k \in 1..0 : w[k] \in Int
    OBVIOUS
  <2>2. PICK g \in [0..0 -> Int] : Sums(w, 0, g) /\ SumOf(w, 0) = g[0]
    BY <1>1, <2>1
  <2> QED
    BY <2>2 DEF Sums
<1>3. ASSUME NEW n \in Nat, \A k \in 1..(n + 1) : w[k] \in Int
      PROVE  SumOf(w, n) \in Int /\ SumOf(w, n + 1) = SumOf(w, n) + w[n + 1]
  <2>1. PICK g \in [0..n -> Int] : Sums(w, n, g) /\ SumOf(w, n) = g[n]
    BY <1>1, <1>3
  <2>2. PICK h \in [0..(n + 1) -> Int] : Sums(w, n + 1, h) /\ SumOf(w, n + 1) = h[n + 1]
    <3>1. n + 1 \in Nat
      OBVIOUS
    <3> QED
      BY <1>1, <1>3, <3>1
  <2>3. h[n + 1] = h[n] + w[n + 1]
    <3>1. n + 1 \in 0..(n + 1) /\ n + 1 # 0 /\ (n + 1) - 1 = n
      OBVIOUS
    <3> QED
      BY <2>2, <3>1 DEF Sums
  <2>4. \A k \in 0..n : g[k] = h[k]
    <3>1. n + 1 \in Nat /\ n <= n /\ n <= n + 1 /\ \A k \in 1..n : w[k] = w[k]
      OBVIOUS
    <3> QED
      BY <2>1, <2>2, <3>1, SumsAgree, SMTT(30)
  <2> QED
    BY <2>1, <2>2, <2>3, <2>4
<1> QED
  BY <1>2, <1>3

(* A sum that is given so is it.                                            *)
LEMMA SumIsSum ==
  ASSUME NEW n \in Nat, NEW w, \A k \in 1..n : w[k] \in Int, NEW g, Sums(w, n, g)
  PROVE  g[n] = SumOf(w, n)
<1> DEFINE h == CHOOSE f : Sums(w, n, f)
<1>1. Sums(w, n, h)
  OBVIOUS
<1>2. SumOf(w, n) = h[n]
  BY DEF SumOf
<1> HIDE DEF h
<1>3. \A k \in 0..n : g[k] = h[k]
  BY <1>1, SumsAgree
<1> QED
  BY <1>2, <1>3

(* The sum of what is put after each other is that of the parts.            *)
LEMMA SumSplits ==
  ASSUME NEW m \in Nat, NEW n \in Nat, NEW w, NEW v, NEW u,
         \A k \in 1..m : w[k] \in Int /\ u[k] = w[k],
         \A k \in 1..n : v[k] \in Int /\ u[m + k] = v[k]
  PROVE  /\ SumOf(w, m) \in Int /\ SumOf(v, n) \in Int
         /\ SumOf(u, m + n) = SumOf(w, m) + SumOf(v, n)
<1>1. SumOf(w, m) \in Int /\ SumOf(u, m) = SumOf(w, m)
  <2> DEFINE S == {l \in Nat : l <= m => SumOf(w, l) \in Int /\ SumOf(u, l) = SumOf(w, l)}
  <2>1. 0 \in S
    BY SumSteps
  <2>2. ASSUME NEW l \in Nat, l \in S PROVE l + 1 \in S
    <3> SUFFICES ASSUME l + 1 <= m PROVE SumOf(w, l + 1) \in Int /\ SumOf(u, l + 1) = SumOf(w, l + 1)
      OBVIOUS
    <3>1. \A k \in 1..(l + 1) : w[k] \in Int /\ u[k] \in Int /\ u[k] = w[k]
      OBVIOUS
    <3>2. SumOf(w, l + 1) = SumOf(w, l) + w[l + 1] /\ SumOf(u, l + 1) = SumOf(u, l) + u[l + 1]
      BY <3>1, SumSteps
    <3>3. l + 1 \in 1..(l + 1) /\ l <= m
      OBVIOUS
    <3> QED
      BY <2>2, <3>1, <3>2, <3>3
  <2> HIDE DEF S
  <2>3. \A l \in Nat : l \in S
    BY <2>1, <2>2, Induction
  <2> QED
    BY <2>3 DEF S
<1>2. SumOf(u, m + n) = SumOf(w, m) + SumOf(v, n) /\ SumOf(v, n) \in Int
  <2> DEFINE S == {l \in Nat : l <= n => SumOf(u, m + l) = SumOf(w, m) + SumOf(v, l) /\ SumOf(v, l) \in Int}
  <2>1. 0 \in S
    BY <1>1, SumSteps
  <2>2. ASSUME NEW l \in Nat, l \in S PROVE l + 1 \in S
    <3> SUFFICES ASSUME l + 1 <= n
                 PROVE  SumOf(u, m + (l + 1)) = SumOf(w, m) + SumOf(v, l + 1) /\ SumOf(v, l + 1) \in Int
      OBVIOUS
    <3>1. \A k \in 1..(l + 1) : v[k] \in Int
      OBVIOUS
    <3>2. SumOf(v, l + 1) = SumOf(v, l) + v[l + 1]
      BY <3>1, SumSteps
    <3>3. \A k \in 1..((m + l) + 1) : u[k] \in Int
      <4> TAKE k \in 1..((m + l) + 1)
      <4>1. CASE k <= m
        <5>1. k \in 1..m
          BY <4>1
        <5> QED
          BY <5>1
      <4>2. CASE k > m
        <5>1. k - m \in 1..n /\ m + (k - m) = k
          BY <4>2
        <5> QED
          BY <5>1
      <4> QED
        BY <4>1, <4>2
    <3>4. m + l \in Nat
      OBVIOUS
    <3>5. SumOf(u, (m + l) + 1) = SumOf(u, m + l) + u[(m + l) + 1]
      BY <3>3, <3>4, SumSteps
    <3>6. l + 1 \in 1..n /\ m + (l + 1) = (m + l) + 1 /\ l <= n
      OBVIOUS
    <3>7. u[m + (l + 1)] = v[l + 1] /\ v[l + 1] \in Int
      BY <3>6
    <3> QED
      BY <1>1, <2>2, <3>2, <3>5, <3>6, <3>7
  <2> HIDE DEF S
  <2>3. \A l \in Nat : l \in S
    BY <2>1, <2>2, Induction
  <2> QED
    BY <2>3 DEF S
<1> QED
  BY <1>1, <1>2

-----------------------------------------------------------------------------
(* Graphs.  E is a set of pairs of nodes of N.                              *)

(* What is led to from x is in every set with x that no edge leaves.        *)
Closed(E, S) == \A p \in E : p[1] \in S => p[2] \in S
Led(N, E, x) == {y \in N : \A S \in SUBSET N : x \in S /\ Closed(E, S) => y \in S}
SameReach(N, E, x, y) == y \in Led(N, E, x) /\ x \in Led(N, E, y)

(* It is the least such set, and leads nowhere else.                        *)
LEMMA LedIsLeast ==
  ASSUME NEW N, NEW E \in SUBSET (N \X N), NEW x \in N
  PROVE  /\ x \in Led(N, E, x) /\ Led(N, E, x) \subseteq N /\ Closed(E, Led(N, E, x))
         /\ \A S : x \in S /\ Closed(E, S) => Led(N, E, x) \subseteq S
         /\ \A y \in Led(N, E, x) : Led(N, E, y) \subseteq Led(N, E, x)
<1>1. x \in Led(N, E, x) /\ Led(N, E, x) \subseteq N
  BY DEF Led
<1>2. ASSUME NEW y \in N PROVE Closed(E, Led(N, E, y))
  <2> SUFFICES ASSUME NEW p \in E, p[1] \in Led(N, E, y) PROVE p[2] \in Led(N, E, y)
    BY DEF Closed
  <2>1. p[2] \in N
    OBVIOUS
  <2>2. \A S \in SUBSET N : y \in S /\ Closed(E, S) => p[2] \in S
    BY DEF Led, Closed
  <2> QED
    BY <2>1, <2>2 DEF Led
<1>3. ASSUME NEW y \in N, NEW S, y \in S, Closed(E, S) PROVE Led(N, E, y) \subseteq S
  <2>1. S \cap N \in SUBSET N /\ y \in S \cap N
    BY <1>3
  <2>2. Closed(E, S \cap N)
    <3> SUFFICES ASSUME NEW p \in E, p[1] \in S \cap N PROVE p[2] \in S \cap N
      BY DEF Closed
    <3>1. p[2] \in N
      OBVIOUS
    <3> QED
      BY <1>3, <3>1 DEF Closed
  <2> QED
    BY <2>1, <2>2 DEF Led
<1>4. ASSUME NEW y \in Led(N, E, x) PROVE Led(N, E, y) \subseteq Led(N, E, x)
  <2>1. y \in N
    BY <1>1
  <2> QED
    BY <1>2, <1>3, <2>1
<1> QED
  BY <1>1, <1>2, <1>3, <1>4

(* What leads into a set that no edge enters is of the set.                 *)
LEMMA LedBack ==
  ASSUME NEW N, NEW E \in SUBSET (N \X N), NEW S, \A p \in E : p[2] \in S => p[1] \in S,
         NEW x \in N, NEW y \in Led(N, E, x), y \in S
  PROVE  x \in S
<1> SUFFICES ASSUME x \notin S PROVE FALSE
  OBVIOUS
<1>1. Closed(E, N \ S)
  <2> SUFFICES ASSUME NEW p \in E, p[1] \in N \ S PROVE p[2] \in N \ S
    BY DEF Closed
  <2>1. p[2] \in N
    OBVIOUS
  <2> QED
    BY <2>1
<1>2. Led(N, E, x) \subseteq N \ S
  BY <1>1, LedIsLeast
<1> QED
  BY <1>2

(* An edge leads on, and what leads out of a set does so by an edge.        *)
LEMMA LedOn ==
  ASSUME NEW N, NEW E \in SUBSET (N \X N), NEW x \in N, NEW y \in Led(N, E, x), NEW z, <<y, z>> \in E
  PROVE  z \in Led(N, E, x)
<1>1. Closed(E, Led(N, E, x))
  BY LedIsLeast
<1>2. <<y, z>>[1] = y /\ <<y, z>>[2] = z
  OBVIOUS
<1> QED
  BY <1>1, <1>2 DEF Closed

(* An edge out of a set is on the way out of it.                            *)
LEMMA LedOut ==
  ASSUME NEW N, NEW E \in SUBSET (N \X N), NEW x \in N, NEW S, x \in S, NEW y \in Led(N, E, x), y \notin S
  PROVE  \E u \in S, z \in N \ S : <<u, z>> \in E /\ u \in Led(N, E, x) /\ z \in Led(N, E, x)
<1> DEFINE L == Led(N, E, x)
<1>1. x \in L /\ L \subseteq N /\ Closed(E, L) /\ \A T : x \in T /\ Closed(E, T) => L \subseteq T
  BY LedIsLeast
<1> HIDE DEF L
<1>2. ~Closed(E, S \cap L)
  <2>1. x \in S \cap L /\ ~(L \subseteq S \cap L)
    BY <1>1 DEF L
  <2> QED
    BY <1>1, <2>1
<1>3. PICK p \in E : p[1] \in S \cap L /\ p[2] \notin S \cap L
  BY <1>2 DEF Closed
<1>4. p = <<p[1], p[2]>> /\ p[2] \in N /\ p[2] \in L
  BY <1>1, <1>3 DEF Closed
<1> QED
  BY <1>3, <1>4 DEF L

(* SameReach is symmetric and transitive, and of the same lead.                 *)
LEMMA SameReachFacts ==
  ASSUME NEW N, NEW E \in SUBSET (N \X N), NEW x \in N, NEW y \in N, SameReach(N, E, x, y)
  PROVE  /\ SameReach(N, E, y, x) /\ Led(N, E, x) = Led(N, E, y)
         /\ \A z \in N : SameReach(N, E, x, z) <=> SameReach(N, E, y, z)
<1>1. y \in Led(N, E, x) /\ x \in Led(N, E, y)
  BY DEF SameReach
<1>2. Led(N, E, x) = Led(N, E, y)
  <2>1. Led(N, E, y) \subseteq Led(N, E, x)
    BY <1>1, LedIsLeast
  <2>2. Led(N, E, x) \subseteq Led(N, E, y)
    BY <1>1, LedIsLeast
  <2> QED
    BY <2>1, <2>2
<1>3. ASSUME NEW z \in N PROVE x \in Led(N, E, z) <=> y \in Led(N, E, z)
  <2>1. x \in Led(N, E, z) => y \in Led(N, E, z)
    BY <1>1, LedIsLeast
  <2>2. y \in Led(N, E, z) => x \in Led(N, E, z)
    BY <1>1, LedIsLeast
  <2> QED
    BY <2>1, <2>2
<1> QED
  BY <1>1, <1>2, <1>3 DEF SameReach

(* More edges lead to more.                                                 *)
LEMMA LedByMore ==
  ASSUME NEW N, NEW E \in SUBSET (N \X N), NEW F \in SUBSET (N \X N), E \subseteq F, NEW x \in N
  PROVE  Led(N, E, x) \subseteq Led(N, F, x)
<1>1. x \in Led(N, F, x) /\ Closed(F, Led(N, F, x))
  BY LedIsLeast
<1>2. Closed(E, Led(N, F, x))
  BY <1>1 DEF Closed
<1> QED
  BY <1>1, <1>2, LedIsLeast

-----------------------------------------------------------------------------
(* Runs: the longest intervals of a set of integers.                        *)
RunsOf(C) ==
  {r \in C \X C : /\ r[1] <= r[2] /\ r[1]..r[2] \subseteq C
                  /\ r[1] - 1 \notin C /\ r[2] + 1 \notin C}

(* Each element is in a run, and different runs have none in common.        *)
LEMMA RunsCover ==
  ASSUME NEW C, IsFiniteSet(C), \A x \in C : x \in Int
  PROVE  /\ \A x : x \in C <=> \E r \in RunsOf(C) : x \in r[1]..r[2]
         /\ \A r \in RunsOf(C) : r[1] \in Int /\ r[2] \in Int /\ r[1] <= r[2] /\ r = <<r[1], r[2]>>
<1>1. \A r \in RunsOf(C) : r[1] \in C /\ r[2] \in C /\ r[1] <= r[2] /\ r[1]..r[2] \subseteq C /\ r = <<r[1], r[2]>>
  BY DEF RunsOf
<1>2. ASSUME NEW x \in C PROVE \E r \in RunsOf(C) : x \in r[1]..r[2]
  <2> DEFINE A == {a \in C : a <= x /\ a..x \subseteq C}
             B == {b \in C : x <= b /\ x..b \subseteq C}
  <2>1. x \in A /\ x \in B /\ A \subseteq C /\ B \subseteq C
    <3>1. x..x = {x} /\ x <= x
      OBVIOUS
    <3> QED
      BY <3>1
  <2>2. IsFiniteSet(A) /\ IsFiniteSet(B) /\ (\A y \in A : y \in Int) /\ \A y \in B : y \in Int
    <3> HIDE DEF A, B
    <3> QED
      BY <2>1, FS_Subset
  <2>3. \A a \in A : a <= x /\ a..x \subseteq C
    OBVIOUS
  <2>4. \A b \in B : x <= b /\ x..b \subseteq C
    OBVIOUS
  <2>5. ASSUME NEW a \in A, a - 1 \in C PROVE a - 1 \in A
    <3>1. a \in Int /\ (a - 1)..x = {a - 1} \cup a..x
      BY <2>2, <2>3
    <3> QED
      BY <2>3, <2>5, <3>1
  <2>6. ASSUME NEW b \in B, b + 1 \in C PROVE b + 1 \in B
    <3>1. b \in Int /\ x..(b + 1) = x..b \cup {b + 1}
      BY <2>2, <2>4
    <3> QED
      BY <2>4, <2>6, <3>1
  <2> HIDE DEF A, B
  <2>7. PICK a \in A : \A y \in A : a <= y
    BY <2>1, <2>2, LeastOfFinite
  <2>8. PICK b \in B : \A y \in B : y <= b
    BY <2>1, <2>2, GreatestOfFinite
  <2>9. a - 1 \notin C /\ b + 1 \notin C
    BY <2>2, <2>5, <2>6, <2>7, <2>8
  <2>10. a..b = a..x \cup x..b
    BY <2>2, <2>3, <2>4
  <2> DEFINE r == <<a, b>>
  <2>11. r \in C \X C /\ r[1] = a /\ r[2] = b
    BY <2>1
  <2> HIDE DEF r
  <2>12. r \in RunsOf(C)
    BY <2>2, <2>3, <2>4, <2>9, <2>10, <2>11 DEF RunsOf
  <2>13. x \in a..b
    BY <2>2, <2>3, <2>4
  <2> QED
    BY <2>11, <2>12, <2>13
<1> QED
  BY <1>1, <1>2

(* Two runs have no number in common.                                       *)
LEMMA RunsApart ==
  ASSUME NEW C, \A x \in C : x \in Int, NEW r \in RunsOf(C), NEW s \in RunsOf(C), r # s
  PROVE  (r[1]..r[2]) \cap (s[1]..s[2]) = {}
<1> SUFFICES ASSUME NEW y, y \in r[1]..r[2], y \in s[1]..s[2] PROVE FALSE
  OBVIOUS
<1>1. \A t \in RunsOf(C) : /\ t[1] \in Int /\ t[2] \in Int /\ t[1]..t[2] \subseteq C
                           /\ t[1] - 1 \notin C /\ t[2] + 1 \notin C /\ t = <<t[1], t[2]>>
  BY DEF RunsOf
<1>2. ASSUME NEW t \in RunsOf(C), NEW u \in RunsOf(C), y \in t[1]..t[2], y \in u[1]..u[2]
      PROVE  ~(t[1] < u[1]) /\ ~(u[2] < t[2])
  <2>1. t[1] < u[1] => u[1] - 1 \in t[1]..t[2]
    BY <1>1, <1>2
  <2>2. u[2] < t[2] => u[2] + 1 \in t[1]..t[2]
    BY <1>1, <1>2
  <2> QED
    BY <1>1, <2>1, <2>2
<1>3. r[1] = s[1] /\ r[2] = s[2]
  BY <1>1, <1>2
<1> QED
  BY <1>1, <1>3
-----------------------------------------------------------------------------
(* The formula texts (FormulaText).                                          *)

(* The adapter's bounded list of names says that it is complete only when   *)
(* it has every item (bounded_defined_names).                               *)
LEMMA CompleteHasAll ==
  ASSUME NEW I, NEW items \in Seq(I)
  PROVE  /\ Text!Bounded(items) \in [names : Seq(I), complete : BOOLEAN]
         /\ Text!Bounded(items).complete => Text!Bounded(items).names = items
<1> DEFINE X == [names : Seq(I), complete : BOOLEAN]
           none == [names |-> <<>>, complete |-> TRUE]
           L == Len(items)
           Holds(g) == g = [k \in 0..L |-> IF k = 0 THEN none ELSE Text!Taken(g[k - 1], items[k])]
           got == CHOOSE g : Holds(g)
<1>0. L \in Nat /\ \A k \in 1..L : items[k] \in I
  OBVIOUS
<1>1. ASSUME NEW x \in X, NEW i \in I PROVE Text!Taken(x, i) \in X
  <2>1. Append(x.names, i) \in Seq(I)
    OBVIOUS
  <2> QED
    BY <2>1 DEF Text!Taken
<1>2. \E g : Holds(g)
  <2> DEFINE F == [p \in Nat \X X |-> IF p[1] \in 1..L THEN Text!Taken(p[2], items[p[1]]) ELSE p[2]]
  <2>1. F \in [Nat \X X -> X]
    BY <1>0, <1>1
  <2>2. none \in X
    OBVIOUS
  <2>3. PICK g \in [0..L -> X] : Recursive(F, none, L, g)
    <3> HIDE DEF F, X, none
    <3> QED
      BY <1>0, <2>1, <2>2, RecursiveExists
  <2>4. ASSUME NEW k \in 0..L
        PROVE  (IF k = 0 THEN none ELSE F[<<k, g[k - 1]>>])
                 = IF k = 0 THEN none ELSE Text!Taken(g[k - 1], items[k])
    <3> HIDE DEF X, none
    <3> SUFFICES ASSUME k # 0 PROVE F[<<k, g[k - 1]>>] = Text!Taken(g[k - 1], items[k])
      OBVIOUS
    <3>1. k \in 1..L /\ k \in Nat /\ k - 1 \in 0..L
      BY <1>0
    <3>2. g[k - 1] \in X
      BY <3>1
    <3> QED
      BY <3>1, <3>2
  <2>5. Holds(g)
    <3> HIDE DEF F, X, none
    <3> QED
      BY <2>3, <2>4 DEF Recursive
  <2> HIDE DEF Holds
  <2> QED
    BY <2>5
<1>3. Holds(got)
  <2> HIDE DEF Holds
  <2> QED
    BY <1>2
<1>4. Text!Bounded(items) = got[L]
  BY DEF Text!Bounded
<1> HIDE DEF got
<1> DEFINE S == {k \in Nat : k <= L => /\ got[k] \in X
                                       /\ got[k].complete => got[k].names = SubSeq(items, 1, k)}
<1>5. 0 \in S
  <2>1. got[0] = none
    BY <1>0, <1>3
  <2>2. SubSeq(items, 1, 0) = <<>>
    OBVIOUS
  <2>3. got[0] \in X
    BY <2>1
  <2>4. got[0].complete => got[0].names = SubSeq(items, 1, 0)
    BY <2>1, <2>2
  <2> HIDE DEF X
  <2> QED
    BY <2>3, <2>4
<1>6. ASSUME NEW k \in Nat, k \in S PROVE k + 1 \in S
  <2> SUFFICES ASSUME k + 1 <= L
               PROVE  /\ got[k + 1] \in X
                      /\ got[k + 1].complete => got[k + 1].names = SubSeq(items, 1, k + 1)
    OBVIOUS
  <2>1. k + 1 \in 1..L /\ k <= L /\ k + 1 # 0 /\ (k + 1) - 1 = k /\ k + 1 \in 0..L
    BY <1>0
  <2>2. got[k + 1] = Text!Taken(got[k], items[k + 1])
    BY <1>3, <2>1
  <2>3. got[k] \in X /\ (got[k].complete => got[k].names = SubSeq(items, 1, k))
    BY <1>6, <2>1
  <2>4. got[k + 1] \in X
    <3> HIDE DEF X
    <3> QED
      BY <1>0, <1>1, <2>1, <2>2, <2>3
  <2>5. ASSUME got[k + 1].complete PROVE got[k + 1].names = SubSeq(items, 1, k + 1)
    <3>1. got[k].complete /\ got[k + 1].names = Append(got[k].names, items[k + 1])
      BY <2>2, <2>3, <2>5 DEF Text!Taken
    <3>2. SubSeq(items, 1, k + 1) = Append(SubSeq(items, 1, k), items[k + 1])
      BY <1>0, <2>1
    <3> QED
      BY <2>3, <3>1, <3>2
  <2> QED
    BY <2>4, <2>5
<1> HIDE DEF S
<1>7. L \in S
  BY <1>0, <1>5, <1>6, Induction
<1>8. SubSeq(items, 1, L) = items
  OBVIOUS
<1>9. got[L] \in X /\ (got[L].complete => got[L].names = SubSeq(items, 1, L))
  BY <1>0, <1>7 DEF S
<1> QED
  BY <1>4, <1>8, <1>9

(* The names that classify_external_reachability finds to lead to an        *)
(* external link: with them all that name one.                              *)
LEMMA ReachIsClosed ==
  ASSUME NEW I, NEW items \in Seq(I), NEW i \in 1..Len(items),
         items[i].target = External \/ items[i].target \in Text!ExternalNames(items)
  PROVE  items[i].name \in Text!ExternalNames(items)
<1> DEFINE L == Len(items)
           N == {items[j].name : j \in 1..L}
           first == {items[j].name : j \in {k \in DOMAIN items : items[k].target = External}}
           more(S) == S \cup {items[j].name : j \in {k \in DOMAIN items : items[k].target \in S}}
           Holds(g) == g = [k \in Nat |-> IF k = 0 THEN first ELSE more(g[k - 1])]
           close == CHOOSE g : Holds(g)
           F == [p \in Nat \X SUBSET N |-> more(p[2])]
<1>1. L \in Nat /\ DOMAIN items = 1..L
  OBVIOUS
<1>2. IsFiniteSet(N) /\ Cardinality(N) <= L
  <2> DEFINE f == [j \in 1..L |-> items[j].name]
  <2>1. f \in Surjection(1..L, N)
    BY DEF Surjection
  <2> HIDE DEF f, N, L
  <2>2. ExistsSurjection(1..L, N) /\ IsFiniteSet(1..L)
    BY <1>1, <2>1, FS_Interval DEF ExistsSurjection
  <2> QED
    BY <1>1, <2>1, <2>2, FS_SurjCardinalityBound, FS_Surjection
<1>3. first \in SUBSET N /\ \A S \in SUBSET N : more(S) \in SUBSET N
  BY <1>1
<1>4. F \in [Nat \X SUBSET N -> SUBSET N]
  <2> HIDE DEF more, N
  <2> QED
    BY <1>3
<1>5. PICK f \in [Nat -> SUBSET N] : Iterates(F, first, f)
  <2> HIDE DEF F, N, first
  <2> QED
    BY <1>3, <1>4, Iterated
<1>6. f[0] = first /\ \A k \in Nat : f[k + 1] = more(f[k])
  <2> HIDE DEF more, N, first
  <2>1. \A k \in Nat : F[<<k + 1, f[k]>>] = more(f[k])
    OBVIOUS
  <2> HIDE DEF F
  <2> QED
    BY <1>5, <2>1 DEF Iterates
<1>7. Holds(close)
  <2>1. ASSUME NEW k \in Nat PROVE f[k] = IF k = 0 THEN first ELSE more(f[k - 1])
    <3> HIDE DEF more, first
    <3>1. CASE k = 0
      BY <1>6, <3>1
    <3>2. CASE k # 0
      <4>1. k - 1 \in Nat /\ (k - 1) + 1 = k
        BY <3>2
      <4>2. f[(k - 1) + 1] = more(f[k - 1])
        BY <1>6, <4>1
      <4> QED
        BY <3>2, <4>1, <4>2
    <3> QED
      BY <3>1, <3>2
  <2>2. Holds(f)
    <3> HIDE DEF more, first
    <3>1. f = [k \in Nat |-> f[k]]
      OBVIOUS
    <3> QED
      BY <2>1, <3>1
  <2> HIDE DEF Holds
  <2> QED
    BY <2>2
<1>8. Text!ExternalNames(items) = close[L]
  BY DEF Text!ExternalNames
<1> HIDE DEF close
<1>9. close[L] = f[L]
  <2> DEFINE S == {k \in Nat : close[k] = f[k]}
  <2>1. 0 \in S
    BY <1>6, <1>7
  <2>2. ASSUME NEW k \in Nat, k \in S PROVE k + 1 \in S
    <3> HIDE DEF more, first
    <3>1. k + 1 \in Nat /\ k + 1 # 0 /\ (k + 1) - 1 = k
      OBVIOUS
    <3>2. close[k + 1] = more(close[k])
      BY <1>7, <3>1
    <3>3. f[k + 1] = more(f[k])
      BY <1>6
    <3>4. close[k] = f[k]
      BY <2>2
    <3>5. close[k + 1] = f[k + 1]
      BY <3>2, <3>3, <3>4
    <3> QED
      BY <3>5
  <2> HIDE DEF S
  <2>3. L \in S
    BY <1>1, <2>1, <2>2, Induction
  <2> QED
    BY <2>3 DEF S
<1>10. f[L + 1] = f[L]
  <2>1. \A k \in Nat : f[k] \subseteq f[k + 1]
    BY <1>6
  <2>2. \A k \in Nat : f[k + 1] = f[k] => f[(k + 1) + 1] = f[k + 1]
    <3> HIDE DEF more
    <3> QED
      BY <1>6
  <2>3. Cardinality(N) <= L + Cardinality(f[0])
    <3>1. f[0] \in SUBSET N
      OBVIOUS
    <3>2. Cardinality(f[0]) \in Nat /\ Cardinality(N) \in Nat
      <4> HIDE DEF N
      <4> QED
        BY <1>2, <3>1, FS_Subset, FS_CardinalityType
    <3> HIDE DEF N, L
    <3> QED
      BY <1>1, <1>2, <3>2
  <2> HIDE DEF N, L
  <2> QED
    BY <1>1, <1>2, <2>1, <2>2, <2>3, Saturated
<1>11. items[i].target = External \/ items[i].target \in f[L]
  BY <1>8, <1>9
<1>12. \A k \in Nat : first \subseteq f[k]
  <2> DEFINE S == {k \in Nat : first \subseteq f[k]}
  <2>1. \A k \in Nat : f[k] \subseteq f[k + 1]
    <3>1. \A T : T \subseteq more(T)
      OBVIOUS
    <3> HIDE DEF more, first
    <3> QED
      BY <1>6, <3>1
  <2> HIDE DEF first
  <2>2. 0 \in S
    BY <1>6
  <2>3. ASSUME NEW k \in Nat, k \in S PROVE k + 1 \in S
    <3>1. first \subseteq f[k] /\ f[k] \subseteq f[k + 1]
      BY <2>1, <2>3
    <3>2. first \subseteq f[k + 1] /\ k + 1 \in Nat
      BY <3>1
    <3> QED
      BY <3>2
  <2> HIDE DEF S
  <2>4. \A k \in Nat : k \in S
    BY <2>2, <2>3, Induction
  <2> QED
    BY <2>4 DEF S
<1>13. items[i].name \in f[L + 1]
  <2>1. CASE items[i].target = External
    <3>1. items[i].name \in first
      BY <1>1, <2>1
    <3> QED
      BY <1>1, <1>12, <3>1
  <2>2. CASE items[i].target \in f[L]
    BY <1>1, <1>6, <2>2
  <2> QED
    BY <1>11, <2>1, <2>2
<1> QED
  BY <1>8, <1>9, <1>10, <1>13

(* What a workbook and an adapter are, as far as this needs it.             *)
TextTypes ==
  /\ target \in [DefinedNames -> Text!Texts]
  /\ lostNames \in SUBSET DefinedNames
  /\ local = None \/ local \in [name : DefinedNames, target : Text!Texts]

ItemTypes == [name : DefinedNames, sheet : {None, "sheet"}, target : Text!Texts]

(* Every definition of a name is an item, but for the names that are lost.  *)
LEMMA ItemsAreDefinitions ==
  ASSUME TextTypes
  PROVE  /\ Text!Items \in Seq(ItemTypes)
         /\ \A n \in DefinedNames \ lostNames :
              \E i \in 1..Len(Text!Items) : Text!Items[i].name = n /\ Text!Items[i].target = target[n]
         /\ local # None =>
              \E i \in 1..Len(Text!Items) :
                Text!Items[i].name = local.name /\ Text!Items[i].target = local.target
<1> DEFINE S == {Text!Item(n, None, target[n]) : n \in DefinedNames \ lostNames}
           own == IF local = None THEN <<>> ELSE <<Text!Item(local.name, "sheet", local.target)>>
           I == ItemTypes
           C == Cardinality(S)
           f == CHOOSE g \in [1..C -> S] : Text!IsInjective(g)
<1>1. IsFiniteSet(S)
  <2> DEFINE D == DefinedNames \ lostNames
             g == [n \in D |-> Text!Item(n, None, target[n])]
  <2>1. g \in Surjection(D, S)
    BY DEF Surjection
  <2>2. IsFiniteSet(D)
    BY TextConstants, FS_Subset
  <2> HIDE DEF g, D, S
  <2> QED
    BY <2>1, <2>2, FS_Surjection
<1>2. C \in Nat /\ IsFiniteSet(1..C) /\ Cardinality(1..C) = C
  <2> HIDE DEF S
  <2> QED
    BY <1>1, FS_CardinalityType, FS_Interval
<1>3. ListsOf(f, S) /\ f \in [1..C -> S] /\ \A x \in S : \E i \in 1..C : f[i] = x
  <2>1. PICK g : ListsOf(g, S)
    <3> HIDE DEF S
    <3> QED
      BY <1>1, ListExists
  <2>2. g \in [1..C -> S] /\ Text!IsInjective(g)
    BY <2>1 DEF ListsOf, NoneTwice, Text!IsInjective
  <2>3. f \in [1..C -> S] /\ Text!IsInjective(f)
    <3> HIDE DEF S, C
    <3> QED
      BY <2>2
  <2> HIDE DEF f
  <2>4. NoneTwice(f)
    BY <2>3 DEF NoneTwice, Text!IsInjective
  <2> HIDE DEF S
  <2> QED
    BY <1>1, <2>3, <2>4, OneToOneLists DEF ListsOf
<1>4. Text!SetToSeq(S) = f
  BY DEF Text!SetToSeq, Text!Cardinality, Cardinality
<1>5. Text!Items = f \o own
  BY <1>4 DEF Text!Items
<1> HIDE DEF f
<1>6. f \in Seq(S) /\ Len(f) = C
  <2> HIDE DEF S
  <2> QED
    BY <1>2, <1>3
<1>7. f \in Seq(I) /\ own \in Seq(I)
  <2>1. S \subseteq I /\ own \in Seq(I)
    <3>1. ASSUME NEW n \in DefinedNames \ lostNames PROVE Text!Item(n, None, target[n]) \in I
      BY DEF ItemTypes, Text!Item, TextTypes
    <3>2. CASE local = None
      BY <3>1, <3>2
    <3>3. CASE local # None
      <4>1. Text!Item(local.name, "sheet", local.target) \in I
        BY <3>3 DEF ItemTypes, Text!Item, TextTypes
      <4> QED
        BY <3>1, <3>3, <4>1
    <3> QED
      BY <3>2, <3>3
  <2>2. f \in [1..C -> I]
    <3> HIDE DEF S, I, C
    <3> QED
      BY <1>3, <2>1
  <2> HIDE DEF S, I, C, own
  <2> QED
    BY <1>2, <2>1, <2>2
<1>8. /\ Text!Items \in Seq(I) /\ Len(Text!Items) = C + Len(own)
      /\ \A i \in 1..C : Text!Items[i] = f[i]
      /\ local # None => Text!Items[C + 1] = Text!Item(local.name, "sheet", local.target) /\ Len(own) = 1
  <2> HIDE DEF S, I, C
  <2> QED
    BY <1>2, <1>5, <1>6, <1>7
<1>9. ASSUME NEW n \in DefinedNames \ lostNames
      PROVE  \E i \in 1..Len(Text!Items) : Text!Items[i].name = n /\ Text!Items[i].target = target[n]
  <2>1. Text!Item(n, None, target[n]) \in S
    OBVIOUS
  <2>2. PICK i \in 1..C : f[i] = Text!Item(n, None, target[n])
    <3> HIDE DEF S, C
    <3> QED
      BY <1>3, <2>1
  <2>3. i \in 1..Len(Text!Items) /\ Text!Items[i] = Text!Item(n, None, target[n])
    <3>1. Len(own) \in Nat
      OBVIOUS
    <3> HIDE DEF S, C, own
    <3> QED
      BY <1>2, <1>8, <2>2, <3>1
  <2> QED
    BY <2>3 DEF Text!Item
<1>10. ASSUME local # None
       PROVE  \E i \in 1..Len(Text!Items) :
                Text!Items[i].name = local.name /\ Text!Items[i].target = local.target
  <2>1. C + 1 \in 1..Len(Text!Items) /\ Text!Items[C + 1] = Text!Item(local.name, "sheet", local.target)
    <3> HIDE DEF S, C, own
    <3> QED
      BY <1>2, <1>8, <1>10
  <2> HIDE DEF C
  <2> QED
    BY <2>1 DEF Text!Item
<1> HIDE DEF S, C, own
<1> QED
  BY <1>8, <1>9, <1>10

(* A list of names that is complete has each definition; the native         *)
(* decoder's is never complete when a name is defined for a sheet too.      *)
LEMMA CollectedHasAll ==
  ASSUME TextTypes, engine = "native" => lostNames = {}, Text!Collected.complete
  PROVE  /\ Text!Collected.names \in Seq(ItemTypes)
         /\ \A n \in DefinedNames :
              \E i \in 1..Len(Text!Collected.names) :
                Text!Collected.names[i].name = n /\ Text!Collected.names[i].target = target[n]
         /\ local # None =>
              \E i \in 1..Len(Text!Collected.names) :
                /\ Text!Collected.names[i].name = local.name
                /\ Text!Collected.names[i].target = local.target
<1>1. CASE engine # "native"
  <2>1. Text!Bounded(Text!Items) \in [names : Seq(ItemTypes), complete : BOOLEAN]
    BY ItemsAreDefinitions, CompleteHasAll
  <2>2. /\ Text!Collected.names = Text!Bounded(Text!Items).names
        /\ Text!Bounded(Text!Items).complete /\ lostNames = {}
    BY <1>1, <2>1 DEF Text!Collected, Text!CollectedByOffice
  <2>3. Text!Collected.names = Text!Items
    BY <2>2, ItemsAreDefinitions, CompleteHasAll
  <2> QED
    BY <2>2, <2>3, ItemsAreDefinitions
<1>2. CASE engine = "native"
  <2> DEFINE scopeless == [i \in DOMAIN Text!Items |-> [Text!Items[i] EXCEPT !.sheet = None]]
  <2>1. Text!Collected = Text!Bounded(scopeless) /\ lostNames = {}
    BY <1>2 DEF Text!Collected, Text!CollectedByKernel
  <2>2. /\ Len(Text!Items) \in Nat /\ DOMAIN Text!Items = 1..Len(Text!Items)
        /\ \A i \in 1..Len(Text!Items) : Text!Items[i] \in ItemTypes
    BY ItemsAreDefinitions
  <2>3. scopeless \in Seq(ItemTypes) /\ Len(scopeless) = Len(Text!Items)
    <3>1. Len(Text!Items) \in Nat
      BY <2>2
    <3>2. scopeless \in [1..Len(Text!Items) -> ItemTypes]
      BY <2>2 DEF ItemTypes
    <3> HIDE DEF scopeless
    <3> QED
      BY <3>1, <3>2
  <2>4. Text!Collected.names = scopeless
    <3> HIDE DEF scopeless
    <3> QED
      BY <2>1, <2>3, CompleteHasAll
  <2>5. /\ \A n \in DefinedNames :
             \E i \in 1..Len(Text!Items) : Text!Items[i].name = n /\ Text!Items[i].target = target[n]
        /\ local # None =>
             \E i \in 1..Len(Text!Items) :
               Text!Items[i].name = local.name /\ Text!Items[i].target = local.target
    BY <2>1, ItemsAreDefinitions
  <2>6. \A i \in 1..Len(Text!Items) :
          scopeless[i].name = Text!Items[i].name /\ scopeless[i].target = Text!Items[i].target
    <3> SUFFICES ASSUME NEW i \in 1..Len(Text!Items)
                 PROVE  /\ scopeless[i].name = Text!Items[i].name
                        /\ scopeless[i].target = Text!Items[i].target
      OBVIOUS
    <3>1. scopeless[i] = [Text!Items[i] EXCEPT !.sheet = None] /\ Text!Items[i] \in ItemTypes
      BY <2>2
    <3> HIDE DEF scopeless
    <3> QED
      BY <3>1 DEF ItemTypes
  <2> HIDE DEF scopeless
  <2> QED
    BY <2>3, <2>4, <2>5, <2>6
<1> QED
  BY <1>1, <1>2

(* When the reach is proven and nothing was left out in silence, a link that *)
(* a formula depends on is found to be live.                                *)
LEMMA InUseIsLive ==
  ASSUME TextTypes, engine = "native" => lostNames = {}, Text!InUse,
         Text!Reach(Text!Extraction).proven
  PROVE  Text!Reach(Text!Extraction).live
<1> DEFINE names == Text!Collected.names
           E == Text!ExternalNames(names)
           S == DefinedNames \cap E
<1>1. /\ Text!Extraction.names = names /\ Text!Extraction.complete = Text!Collected.complete
      /\ Cells \subseteq Text!Extraction.cells /\ Text!Extraction.complete
      /\ Text!Reach(Text!Extraction).live =
           \E c \in Text!Extraction.cells : formula[c] = External \/ formula[c] \in E
  BY DEF Text!Reach, Text!Unproven, Text!Coverage, Text!Extraction
<1>2. /\ names \in Seq(ItemTypes)
      /\ \A n \in DefinedNames :
           \E i \in 1..Len(names) : names[i].name = n /\ names[i].target = target[n]
      /\ local # None =>
           \E i \in 1..Len(names) : names[i].name = local.name /\ names[i].target = local.target
  BY <1>1, CollectedHasAll
<1>3. \A i \in 1..Len(names) :
        names[i].target = External \/ names[i].target \in E => names[i].name \in E
  <2> HIDE DEF names
  <2> QED
    BY <1>2, ReachIsClosed
<1> HIDE DEF names, E
<1>4. Text!Closed(S)
  <2> SUFFICES ASSUME NEW n \in DefinedNames, Text!LeadsOn(n, S) PROVE n \in S
    BY DEF Text!Closed
  <2>1. CASE Text!Leads(target[n], S)
    <3>1. PICK i \in 1..Len(names) : names[i].name = n /\ names[i].target = target[n]
      BY <1>2
    <3> QED
      BY <1>3, <2>1, <3>1 DEF Text!Leads
  <2>2. CASE local # None /\ local.name = n /\ Text!Leads(local.target, S)
    <3>1. PICK i \in 1..Len(names) : names[i].name = local.name /\ names[i].target = local.target
      BY <1>2, <2>2
    <3> QED
      BY <1>3, <2>2, <3>1 DEF Text!Leads
  <2> QED
    BY <2>1, <2>2 DEF Text!LeadsOn
<1>5. Text!Leading \subseteq S
  <2> HIDE DEF S
  <2>1. S \in SUBSET DefinedNames
    BY DEF S
  <2> QED
    BY <1>4, <2>1 DEF Text!Leading
<1>6. PICK c \in Cells : Text!Leads(formula[c], Text!Leading)
  BY DEF Text!InUse
<1>7. formula[c] = External \/ formula[c] \in E
  BY <1>5, <1>6 DEF Text!Leads
<1> QED
  BY <1>1, <1>7

TextInv == TextTypes /\ Text!LinkReported

(* Nothing is known of the formulas before they have been loaded.           *)
LEMMA TextBegins == Text!TextInit => TextInv
  BY DEF Text!TextInit, TextInv, TextTypes, Text!LinkReported

(* A reader that loads the texts suppresses no link that is in use.         *)
LEMMA TextSteps ==
  ASSUME TextInv, Text!TextNext \/ UNCHANGED textVars
  PROVE  TextInv'
<1>1. CASE UNCHANGED textVars
  BY <1>1 DEF textVars, TextInv, TextTypes, Text!LinkReported, Text!InUse, Text!Leading, Text!Closed,
     Text!LeadsOn, Text!Leads, Text!Suppressed, Text!Proven
<1>2. CASE Text!Load
  <2>1. UNCHANGED <<formula, target, local, engine, refused, lost, lostNames>>
    BY <1>2 DEF Text!Load, Text!bookVars
  <2>2. TextTypes'
    BY <2>1 DEF TextInv, TextTypes
  <2>3. Text!InUse' = Text!InUse
    BY <2>1 DEF Text!InUse, Text!Leading, Text!Closed, Text!LeadsOn, Text!Leads
  <2>4. ASSUME Text!Proven', Text!InUse, engine = "native" => lostNames = {}
        PROVE  snapshot'.reach.live
    <3>1. snapshot'.reach # None /\ snapshot'.reach.proven
      BY <2>4 DEF Text!Proven
    <3>2. CASE Text!Gives
      <4>1. snapshot'.reach = Text!Reach(Text!Extraction)
        BY <1>2, <3>2 DEF Text!Load
      <4> QED
        BY <2>4, <3>1, <4>1, InUseIsLive DEF TextInv
    <3>3. CASE ~Text!Gives
      BY <1>2, <3>1, <3>3 DEF Text!Load
    <3> QED
      BY <3>2, <3>3
  <2>5. Text!LinkReported'
    BY <2>1, <2>3, <2>4 DEF Text!LinkReported, Text!Suppressed
  <2> QED
    BY <2>2, <2>5 DEF TextInv
<1> QED
  BY <1>1, <1>2 DEF Text!TextNext
-----------------------------------------------------------------------------
(* Slides and elements (PptMatching).                                       *)

MatchTypes ==
  /\ kind \in DOMAIN Matching!Stages
  /\ kind = "slide" => deck \in Decks /\ baseline = deck.baseline /\ current = deck.current
  /\ IsList(baseline) /\ IsList(current)
  /\ stage \in Nat \ {0}

(* No element is in two pairs. *)
OnePartner(P) == \A p, q \in P : p[1] = q[1] <=> p[2] = q[2]

(* Each element is in a pair, left, or ambiguous; none that is left is in a pair. *)
MatchOnce ==
  /\ left \subseteq DOMAIN baseline /\ right \subseteq DOMAIN current
  /\ pairs \subseteq (DOMAIN baseline) \X (DOMAIN current)
  /\ OnePartner(pairs)
  /\ \A p \in pairs : p[1] \notin left /\ p[2] \notin right
  /\ {p[1] : p \in pairs} \cup left \cup ambiguous[1] = DOMAIN baseline
  /\ {p[2] : p \in pairs} \cup right \cup ambiguous[2] = DOMAIN current

(* Slides that fit are both left, or one is pinned or has a partner no worse. *)
MatchBest ==
  kind = "slide" =>
    \A p \in (DOMAIN baseline) \X (DOMAIN current) :
      Matching!Score(p) >= Threshold =>
        \/ p \in left \X right
        \/ \E q \in Matching!Partner(p) :
             q \in Matching!Pinned \/ Matching!Score(q) >= Matching!Score(p)

(* After its stage, no two charts left have a title, or a signature.        *)
MatchCharts ==
  kind = "chart" =>
    /\ stage > 4 => ~\E b \in left, c \in right : Matching!Same(b, c, "title")
    /\ stage > 5 => ~\E b \in left, c \in right : Matching!Same(b, c, "signature")

MatchMedia ==
  kind = "media" =>
    /\ stage <= 4 => ambiguous = <<{}, {}>>
    /\ stage > 4 => ~\E b \in left, c \in right : Matching!MayMatch(b, c)
    /\ \A p \in pairs :
         ~Matching!HasTwin(baseline, p[1]) /\ ~Matching!HasTwin(current, p[2])

(* What is told reordered leaves a longest increasing part of the pairs.    *)
Longest(P, Q) ==
  /\ Matching!Increasing(Q)
  /\ \A R \in SUBSET P : Matching!Increasing(R) => Cardinality(R) <= Cardinality(Q)
MatchReordered ==
  reordered # None => Matching!Matched /\ Longest(pairs, pairs \ reordered)

MatchInv ==
  /\ MatchTypes /\ MatchOnce /\ MatchBest /\ MatchCharts /\ MatchMedia /\ MatchReordered

(* The sides of what is matched are lists.                                  *)
LEMMA MatchSides ==
  ASSUME Matching!MatchingInit
  PROVE  MatchTypes
<1>1. CASE /\ \E s \in Slides, k \in (DOMAIN Matching!Stages) \ {"slide"} :
                kind = k /\ baseline = s[1] /\ current = s[2]
           /\ deck = None
  BY <1>1, MatchingConstants DEF Matching!MatchingInit, MatchTypes
<1>2. CASE /\ kind = "slide" /\ deck \in Decks
           /\ baseline = deck.baseline /\ current = deck.current
  <2>1. "slide" \in DOMAIN Matching!Stages
    BY DEF Matching!Stages
  <2> QED
    BY <1>2, <2>1, MatchingConstants DEF Matching!MatchingInit, MatchTypes
<1> QED
  BY <1>1, <1>2 DEF Matching!MatchingInit

(* Before a step nothing is matched, and all that fits is left.             *)
LEMMA MatchingBegins ==
  ASSUME Matching!MatchingInit
  PROVE  MatchInv
<1>1. MatchTypes
  BY MatchSides
<1>2. /\ left = DOMAIN baseline /\ right = DOMAIN current /\ stage = 1 /\ pairs = {}
      /\ ambiguous = <<{}, {}>> /\ reordered = None
  BY DEF Matching!MatchingInit
<1>3. MatchOnce
  BY <1>2 DEF MatchOnce, OnePartner
<1>4. MatchBest /\ MatchCharts /\ MatchMedia /\ MatchReordered
  BY <1>2 DEF MatchBest, MatchCharts, MatchMedia, MatchReordered
<1> QED
  BY <1>1, <1>3, <1>4 DEF MatchInv

(* A step takes new pairs of what is left, no element twice. *)
Takes(new) ==
  /\ new \subseteq left \X right /\ OnePartner(new)
  /\ pairs' = pairs \cup new
  /\ left' = left \ {p[1] : p \in new} /\ right' = right \ {p[2] : p \in new}
  /\ UNCHANGED <<kind, deck, baseline, current, ambiguous, reordered>>

(* After it each element is still in one place.                             *)
LEMMA TakesOnce ==
  ASSUME MatchOnce, NEW new, Takes(new)
  PROVE  MatchOnce'
<1>1. /\ new \subseteq left \X right
      /\ \A p \in new : p = <<p[1], p[2]>> /\ p[1] \in left /\ p[2] \in right
  BY DEF Takes
<1>2. left' \subseteq DOMAIN baseline' /\ right' \subseteq DOMAIN current'
  BY DEF Takes, MatchOnce
<1>3. pairs' \subseteq (DOMAIN baseline') \X (DOMAIN current')
  BY <1>1 DEF Takes, MatchOnce
<1>4. OnePartner(pairs')
  <2> SUFFICES ASSUME NEW p \in pairs', NEW q \in pairs' PROVE p[1] = q[1] <=> p[2] = q[2]
    BY DEF OnePartner
  <2>1. (p \in pairs \/ p \in new) /\ (q \in pairs \/ q \in new)
    BY DEF Takes
  <2>2. \A r \in pairs : r[1] \notin left /\ r[2] \notin right
    BY DEF MatchOnce
  <2> QED
    BY <1>1, <2>1, <2>2 DEF Takes, MatchOnce, OnePartner
<1>5. \A p \in pairs' : p[1] \notin left' /\ p[2] \notin right'
  BY <1>1 DEF Takes, MatchOnce
<1>6. {p[1] : p \in pairs'} \cup left' \cup ambiguous'[1] = DOMAIN baseline'
  <2>1. {p[1] : p \in pairs'} = {p[1] : p \in pairs} \cup {p[1] : p \in new}
    BY DEF Takes
  <2>2. {p[1] : p \in new} \subseteq left /\ left' = left \ {p[1] : p \in new}
    BY <1>1 DEF Takes
  <2>3. ambiguous' = ambiguous /\ baseline' = baseline
    BY DEF Takes
  <2> QED
    BY <2>1, <2>2, <2>3 DEF MatchOnce
<1>7. {p[2] : p \in pairs'} \cup right' \cup ambiguous'[2] = DOMAIN current'
  <2>1. {p[2] : p \in pairs'} = {p[2] : p \in pairs} \cup {p[2] : p \in new}
    BY DEF Takes
  <2>2. {p[2] : p \in new} \subseteq right /\ right' = right \ {p[2] : p \in new}
    BY <1>1 DEF Takes
  <2>3. ambiguous' = ambiguous /\ current' = current
    BY DEF Takes
  <2> QED
    BY <2>1, <2>2, <2>3 DEF MatchOnce
<1> QED
  BY <1>2, <1>3, <1>4, <1>5, <1>6, <1>7 DEF MatchOnce

(* What is left of a side is finite.                                        *)
LEMMA LeftFinite ==
  ASSUME MatchTypes, MatchOnce
  PROVE  /\ \A S \in SUBSET left : IsFiniteSet(S) /\ \A x \in S : x \in Int
         /\ \A S \in SUBSET right : IsFiniteSet(S) /\ \A x \in S : x \in Int
         /\ IsFiniteSet(DOMAIN baseline) /\ IsFiniteSet(DOMAIN current)
         /\ DOMAIN baseline \subseteq Nat /\ DOMAIN current \subseteq Nat
<1>1. ASSUME NEW s, IsList(s) PROVE IsFiniteSet(DOMAIN s) /\ \A x \in DOMAIN s : x \in Nat
  <2>1. IsFiniteSet(1..Len(s))
    BY <1>1, FS_Interval DEF IsList
  <2> QED
    BY <1>1, <2>1 DEF IsList
<1>2. /\ IsFiniteSet(DOMAIN baseline) /\ \A x \in DOMAIN baseline : x \in Nat
      /\ IsFiniteSet(DOMAIN current) /\ \A x \in DOMAIN current : x \in Nat
  BY <1>1 DEF MatchTypes
<1>3. ASSUME NEW S, NEW T, S \subseteq T, IsFiniteSet(T) PROVE IsFiniteSet(S)
  BY <1>3, FS_Subset
<1> QED
  BY <1>2, <1>3 DEF MatchOnce

(* What a stage finds, by either rule, has no element twice.                *)
LEMMA UniqueOnce ==
  ASSUME NEW key
  PROVE  OnePartner(Matching!UniqueMatches(key))
  BY DEF OnePartner, Matching!UniqueMatches, Matching!Alone, Matching!Same

(* Matched in order, each element is in one pair at most (_ordered_matches).*)
LEMMA OrderedOnce ==
  ASSUME NEW key, MatchTypes, MatchOnce
  PROVE  OnePartner(Matching!OrderedMatches(key))
<1> DEFINE A(v) == {i \in left : Matching!BaseKey(i, key) = v}
           B(v) == {j \in right : Matching!CurrKey(j, key) = v}
<1>1. ASSUME NEW v
      PROVE  /\ IsFiniteSet(A(v)) /\ \A x \in A(v) : x \in Int
             /\ IsFiniteSet(B(v)) /\ \A x \in B(v) : x \in Int
  BY LeftFinite
<1> SUFFICES ASSUME NEW p \in Matching!OrderedMatches(key), NEW q \in Matching!OrderedMatches(key)
             PROVE  p[1] = q[1] <=> p[2] = q[2]
  BY DEF OnePartner
<1>2. ASSUME NEW r \in Matching!OrderedMatches(key)
      PROVE  /\ r[1] \in left /\ r[2] \in right
             /\ Matching!BaseKey(r[1], key) = Matching!CurrKey(r[2], key)
             /\ RankOf(A(Matching!BaseKey(r[1], key)), r[1])
                  = RankOf(B(Matching!CurrKey(r[2], key)), r[2])
  BY DEF Matching!OrderedMatches, Matching!Same, Matching!Rank, RankOf, Matching!Cardinality, Cardinality
<1>3. ASSUME p[1] = q[1] PROVE p[2] = q[2]
  <2> DEFINE v == Matching!BaseKey(p[1], key)
  <2>1. /\ p[2] \in B(v) /\ q[2] \in B(v) /\ RankOf(B(v), p[2]) = RankOf(B(v), q[2])
    BY <1>2, <1>3
  <2> HIDE DEF B, v
  <2> QED
    BY <1>1, <2>1, RankOneToOne
<1>4. ASSUME p[2] = q[2] PROVE p[1] = q[1]
  <2> DEFINE v == Matching!CurrKey(p[2], key)
  <2>1. /\ p[1] \in A(v) /\ q[1] \in A(v) /\ RankOf(A(v), p[1]) = RankOf(A(v), q[1])
    BY <1>2, <1>4
  <2> HIDE DEF A, v
  <2> QED
    BY <1>1, <2>1, RankOneToOne
<1> QED
  BY <1>3, <1>4

(* After a stage that takes the first with a key, none is left on both sides. *)
LEMMA OrderedTakesAll ==
  ASSUME NEW key, MatchTypes, MatchOnce, NEW b \in left, NEW c \in right,
         Matching!Same(b, c, key)
  PROVE  \E p \in Matching!OrderedMatches(key) : p[1] = b \/ p[2] = c
<1> DEFINE A == {i \in left : Matching!BaseKey(i, key) = Matching!BaseKey(b, key)}
           B == {j \in right : Matching!CurrKey(j, key) = Matching!CurrKey(c, key)}
<1>1. /\ IsFiniteSet(A) /\ \A x \in A : x \in Int
      /\ IsFiniteSet(B) /\ \A x \in B : x \in Int
  BY LeftFinite
<1>2. b \in A /\ c \in B
  OBVIOUS
<1>3. ASSUME NEW i \in A, NEW j \in B, RankOf(A, i) = RankOf(B, j)
      PROVE  <<i, j>> \in Matching!OrderedMatches(key)
  <2>1. /\ A = {k \in left : Matching!BaseKey(k, key) = Matching!BaseKey(i, key)}
        /\ B = {k \in right : Matching!CurrKey(k, key) = Matching!CurrKey(j, key)}
    OBVIOUS
  <2>2. Matching!Rank(A, i) = Matching!Rank(B, j)
    BY <1>3 DEF Matching!Rank, RankOf, Matching!Cardinality, Cardinality
  <2>3. <<i, j>> \in left \X right /\ Matching!Same(i, j, key)
    BY DEF Matching!Same
  <2> QED
    BY <2>1, <2>2, <2>3 DEF Matching!OrderedMatches
<1> HIDE DEF A, B
<1>4. /\ RankOf(A, b) \in 0..(Cardinality(A) - 1) /\ RankOf(B, c) \in 0..(Cardinality(B) - 1)
      /\ Cardinality(A) \in Nat /\ Cardinality(B) \in Nat
  BY <1>1, <1>2, RankType, FS_CardinalityType
<1>5. CASE RankOf(A, b) <= RankOf(B, c)
  <2>1. RankOf(A, b) \in 0..(Cardinality(B) - 1)
    BY <1>4, <1>5
  <2>2. PICK j \in B : RankOf(B, j) = RankOf(A, b)
    BY <1>1, <2>1, RankOnto
  <2> QED
    BY <1>2, <1>3, <2>2
<1>6. CASE RankOf(B, c) <= RankOf(A, b)
  <2>1. RankOf(B, c) \in 0..(Cardinality(A) - 1)
    BY <1>4, <1>6
  <2>2. PICK i \in A : RankOf(A, i) = RankOf(B, c)
    BY <1>1, <2>1, RankOnto
  <2> QED
    BY <1>2, <1>3, <2>2
<1> QED
  BY <1>4, <1>5, <1>6

(* A stage takes what it finds, by its rule.                                *)
LEMMA ConsumeTakes ==
  ASSUME MatchTypes, MatchOnce, Matching!Consume
  PROVE  \E new :
           /\ Takes(new) /\ kind # "slide" /\ stage' = stage + 1
           /\ LET s == Matching!Stages[kind][stage]
              IN  new = IF s.first THEN Matching!OrderedMatches(s.key) ELSE Matching!UniqueMatches(s.key)
<1> DEFINE s == Matching!Stages[kind][stage]
           new == IF s.first THEN Matching!OrderedMatches(s.key) ELSE Matching!UniqueMatches(s.key)
<1>1. kind # "slide"
  BY DEF Matching!Consume, Matching!Stages, MatchTypes
<1>2. new \subseteq left \X right
  BY DEF Matching!OrderedMatches, Matching!UniqueMatches
<1>3. OnePartner(new)
  <2>1. OnePartner(Matching!OrderedMatches(s.key)) /\ OnePartner(Matching!UniqueMatches(s.key))
    BY OrderedOnce, UniqueOnce
  <2> QED
    BY <2>1
<1>4. /\ pairs' = pairs \cup new
      /\ left' = left \ {p[1] : p \in new} /\ right' = right \ {p[2] : p \in new}
      /\ UNCHANGED <<kind, deck, baseline, current, ambiguous, reordered>> /\ stage' = stage + 1
  BY DEF Matching!Consume, Matching!inputVars
<1> HIDE DEF new
<1>5. Takes(new)
  BY <1>2, <1>3, <1>4 DEF Takes
<1> QED
  BY <1>1, <1>4, <1>5 DEF new

(* What is told of charts and media stays so when there is less left of     *)
(* them.                                                                    *)
LEMMA ConsumeKeepsCharts ==
  ASSUME MatchTypes, MatchOnce, MatchCharts, Matching!Consume
  PROVE  MatchCharts'
<1> SUFFICES ASSUME kind = "chart" PROVE MatchCharts'
  BY ConsumeTakes DEF MatchCharts, Takes
<1> DEFINE s == Matching!Stages[kind][stage]
<1>1. PICK new :
           /\ Takes(new) /\ stage' = stage + 1
           /\ new = IF s.first THEN Matching!OrderedMatches(s.key) ELSE Matching!UniqueMatches(s.key)
  BY ConsumeTakes
<1>2. /\ stage = 4 => s = Matching!First("title")
      /\ stage = 5 => s = Matching!First("signature")
  BY DEF Matching!Stages
<1>3. /\ stage = 4 => new = Matching!OrderedMatches("title")
      /\ stage = 5 => new = Matching!OrderedMatches("signature")
  BY <1>1, <1>2 DEF Matching!First
<1>4. \A b, c, key : Matching!Same(b, c, key)' = Matching!Same(b, c, key)
  BY <1>1 DEF Takes, Matching!Same, Matching!BaseKey, Matching!CurrKey, Matching!KeyOf
<1>5. ASSUME NEW key, NEW b \in left', NEW c \in right', Matching!Same(b, c, key),
             new = Matching!OrderedMatches(key)
      PROVE  FALSE
  <2>1. b \in left /\ c \in right /\ b \notin {p[1] : p \in new} /\ c \notin {p[2] : p \in new}
    BY <1>1 DEF Takes
  <2>2. PICK p \in Matching!OrderedMatches(key) : p[1] = b \/ p[2] = c
    BY <1>5, <2>1, OrderedTakesAll
  <2> QED
    BY <1>5, <2>1, <2>2
<1>6. left' \subseteq left /\ right' \subseteq right /\ stage \in Nat \ {0}
  BY <1>1 DEF Takes, MatchTypes
<1>7. ASSUME stage' > 4, NEW b \in left', NEW c \in right', Matching!Same(b, c, "title") PROVE FALSE
  <2>1. CASE stage = 4
    BY <1>3, <1>5, <1>7, <2>1
  <2>2. CASE stage > 4
    BY <1>6, <1>7, <2>2 DEF MatchCharts
  <2> QED
    BY <1>1, <1>6, <1>7, <2>1, <2>2
<1>8. ASSUME stage' > 5, NEW b \in left', NEW c \in right', Matching!Same(b, c, "signature") PROVE FALSE
  <2>1. CASE stage = 5
    BY <1>3, <1>5, <1>8, <2>1
  <2>2. CASE stage > 5
    BY <1>6, <1>8, <2>2 DEF MatchCharts
  <2> QED
    BY <1>1, <1>6, <1>8, <2>1, <2>2
<1> QED
  BY <1>4, <1>7, <1>8 DEF MatchCharts

(* Media like another of their slide are never matched.                      *)
LEMMA ConsumeKeepsMedia ==
  ASSUME MatchTypes, MatchOnce, MatchMedia, Matching!Consume
  PROVE  MatchMedia'
<1> SUFFICES ASSUME kind = "media" PROVE MatchMedia'
  BY ConsumeTakes DEF MatchMedia, Takes
<1> DEFINE s == Matching!Stages[kind][stage]
           K == {"named", "geometry", "title"}
<1>1. PICK new :
           /\ Takes(new) /\ stage' = stage + 1
           /\ new = IF s.first THEN Matching!OrderedMatches(s.key) ELSE Matching!UniqueMatches(s.key)
  BY ConsumeTakes
<1>2. stage \in 1..3 /\ stage' \in 2..4
  BY <1>1 DEF Matching!Consume, Matching!Stages, MatchTypes
<1>3. ~s.first /\ s.key \in K
  BY <1>2 DEF Matching!Stages, Matching!Unique
<1>4. ambiguous = <<{}, {}>> /\ ambiguous' = <<{}, {}>>
  BY <1>1, <1>2 DEF MatchMedia, Takes
<1>5. new = Matching!UniqueMatches(s.key)
  BY <1>1, <1>3
<1>6. ASSUME NEW key \in K, NEW i, NEW k
      PROVE  /\ baseline[k].title = baseline[i].title /\ baseline[k].geometry = baseline[i].geometry
                  => Matching!BaseKey(k, key) = Matching!BaseKey(i, key)
             /\ current[k].title = current[i].title /\ current[k].geometry = current[i].geometry
                  => Matching!CurrKey(k, key) = Matching!CurrKey(i, key)
  BY DEF Matching!BaseKey, Matching!CurrKey, Matching!KeyOf
<1> HIDE DEF s, K
<1>7. ASSUME NEW p \in new, Matching!HasTwin(baseline, p[1]) PROVE FALSE
  <2>1. PICK k \in (DOMAIN baseline) \ {p[1]} :
          baseline[k].title = baseline[p[1]].title /\ baseline[k].geometry = baseline[p[1]].geometry
    BY <1>7 DEF Matching!HasTwin
  <2>2. /\ p[1] \in left /\ p[1] \in DOMAIN baseline
        /\ ~\E i \in left \ {p[1]} : Matching!BaseKey(i, s.key) = Matching!BaseKey(p[1], s.key)
    BY <1>5, <1>7 DEF Matching!UniqueMatches, Matching!Alone, MatchOnce
  <2>3. k \notin left
    BY <1>3, <1>6, <2>1, <2>2
  <2>4. PICK q \in pairs : q[1] = k
    BY <1>4, <2>1, <2>3 DEF MatchOnce
  <2>5. Matching!HasTwin(baseline, q[1])
    BY <2>1, <2>2, <2>4 DEF Matching!HasTwin
  <2> QED
    BY <2>4, <2>5 DEF MatchMedia
<1>8. ASSUME NEW p \in new, Matching!HasTwin(current, p[2]) PROVE FALSE
  <2>1. PICK k \in (DOMAIN current) \ {p[2]} :
          current[k].title = current[p[2]].title /\ current[k].geometry = current[p[2]].geometry
    BY <1>8 DEF Matching!HasTwin
  <2>2. /\ p[2] \in right /\ p[2] \in DOMAIN current
        /\ ~\E i \in right \ {p[2]} : Matching!CurrKey(i, s.key) = Matching!CurrKey(p[2], s.key)
    BY <1>5, <1>8 DEF Matching!UniqueMatches, Matching!Alone, MatchOnce
  <2>3. k \notin right
    BY <1>3, <1>6, <2>1, <2>2
  <2>4. PICK q \in pairs : q[2] = k
    BY <1>4, <2>1, <2>3 DEF MatchOnce
  <2>5. Matching!HasTwin(current, q[2])
    BY <2>1, <2>2, <2>4 DEF Matching!HasTwin
  <2> QED
    BY <2>4, <2>5 DEF MatchMedia
<1>9. baseline' = baseline /\ current' = current /\ pairs' = pairs \cup new
  BY <1>1 DEF Takes
<1>10. \A p \in pairs' : ~Matching!HasTwin(baseline', p[1]) /\ ~Matching!HasTwin(current', p[2])
  BY <1>7, <1>8, <1>9 DEF MatchMedia
<1> QED
  BY <1>2, <1>4, <1>10 DEF MatchMedia

(* After what may be one another's is set aside, nothing left may be.       *)
LEMMA SetAsideKeeps ==
  ASSUME MatchInv, Matching!SetAside
  PROVE  MatchInv'
<1> DEFINE was == {b \in left : \E c \in right : Matching!MayMatch(b, c)}
           now == {c \in right : \E b \in left : Matching!MayMatch(b, c)}
<1>1. /\ kind = "media" /\ stage = 4 /\ stage' = 5
      /\ ambiguous' = <<was, now>> /\ left' = left \ was /\ right' = right \ now
      /\ UNCHANGED <<kind, deck, baseline, current, pairs, reordered>>
  BY DEF Matching!SetAside, Matching!Stages, Matching!inputVars
<1>2. ambiguous = <<{}, {}>>
  BY <1>1 DEF MatchInv, MatchMedia
<1>3. MatchTypes'
  BY <1>1 DEF MatchInv, MatchTypes, IsList
<1>4. \A b, c : Matching!MayMatch(b, c)' = Matching!MayMatch(b, c)
  BY <1>1 DEF Matching!MayMatch, Matching!Same, Matching!BaseKey, Matching!CurrKey, Matching!KeyOf
<1>5. ~\E b \in left', c \in right' : Matching!MayMatch(b, c)
  BY <1>1
<1>6. ambiguous'[1] = was /\ ambiguous'[2] = now /\ ambiguous[1] = {} /\ ambiguous[2] = {}
  BY <1>1, <1>2
<1>7. was \subseteq left /\ now \subseteq right
  OBVIOUS
<1> HIDE DEF was, now
<1>8. MatchOnce'
  BY <1>1, <1>6, <1>7 DEF MatchInv, MatchOnce, OnePartner
<1>9. MatchMedia'
  BY <1>1, <1>4, <1>5 DEF MatchInv, MatchMedia, Matching!HasTwin
<1>10. MatchBest' /\ MatchCharts'
  BY <1>1 DEF MatchBest, MatchCharts
<1>11. MatchReordered'
  <2>1. ~Matching!Matched
    BY <1>1 DEF Matching!Matched, Matching!Stages
  <2> QED
    BY <1>1, <2>1 DEF MatchInv, MatchReordered
<1> QED
  BY <1>3, <1>8, <1>9, <1>10, <1>11 DEF MatchInv

(* Scores are those of the decks.                                           *)
LEMMA ScoresAre ==
  ASSUME MatchTypes, kind = "slide"
  PROVE  \A p \in (DOMAIN baseline) \X (DOMAIN current) : Matching!Score(p) \in Int
  BY MatchingConstants DEF MatchTypes, Matching!Score

(* A pair that is pinned, or no worse than those with which it shares a     *)
(* slide, can be taken.                                                     *)
LEMMA TakesBest ==
  ASSUME MatchTypes, MatchOnce, MatchBest, NEW q \in left \X right, Takes({q}),
         \/ \E n \in DOMAIN deck.pins : <<baseline[q[1]].title, current[q[2]].title>> = deck.pins[n]
         \/ \A p \in Matching!Fitting : p[1] = q[1] \/ p[2] = q[2] => Matching!Score(q) >= Matching!Score(p)
  PROVE  MatchBest'
<1> DEFINE Pins(r) == \E n \in DOMAIN deck.pins : <<baseline[r[1]].title, current[r[2]].title>> = deck.pins[n]
<1> SUFFICES ASSUME kind = "slide",
                    NEW p \in (DOMAIN baseline) \X (DOMAIN current),
                    Matching!Score(p) >= Threshold,
                    p \notin left' \X right'
             PROVE  \E r \in pairs' : /\ r[1] = p[1] \/ r[2] = p[2]
                                      /\ r \in Matching!Pinned' \/ Matching!Score(r) >= Matching!Score(p)
  BY DEF MatchBest, Takes, Matching!Score, Matching!Partner
<1>1. /\ pairs' = pairs \cup {q} /\ baseline' = baseline /\ current' = current /\ deck' = deck
      /\ left' = left \ {q[1]} /\ right' = right \ {q[2]}
  BY DEF Takes
<1>2. \A r \in Matching!Pinned : r \in Matching!Pinned'
  BY <1>1 DEF Matching!Pinned
<1>3. Pins(q) => q \in Matching!Pinned'
  BY <1>1 DEF Matching!Pinned
<1>4. CASE p \in left \X right
  <2>1. p[1] = q[1] \/ p[2] = q[2]
    BY <1>1, <1>4
  <2>2. p \in Matching!Fitting
    BY <1>4 DEF Matching!Fitting
  <2>3. q \in Matching!Pinned' \/ Matching!Score(q) >= Matching!Score(p)
    BY <1>3, <2>1, <2>2
  <2> QED
    BY <1>1, <2>1, <2>2, <2>3
<1>5. CASE p \notin left \X right
  <2>1. PICK r \in Matching!Partner(p) :
               r \in Matching!Pinned \/ Matching!Score(r) >= Matching!Score(p)
    BY <1>5 DEF MatchBest
  <2>2. r \in pairs /\ (r[1] = p[1] \/ r[2] = p[2])
    BY <2>1 DEF Matching!Partner
  <2> QED
    BY <1>1, <1>2, <2>1, <2>2
<1> QED
  BY <1>4, <1>5

(* The best of a set of pairs is one of it.                                 *)
LEMMA BestExists ==
  ASSUME MatchTypes, MatchOnce, kind = "slide",
         NEW P \in SUBSET (left \X right), P # {}
  PROVE  /\ Matching!NextBest(P) \in P
         /\ \A p \in P : Matching!Score(Matching!NextBest(P)) >= Matching!Score(p)
<1>1. \A p \in P : /\ p[1] \in Int /\ p[2] \in Int /\ Matching!Score(p) \in Int
                   /\ p = <<p[1], p[2]>> /\ p[1] \in left /\ p[2] \in right
  <2>1. \A p \in P : p \in (DOMAIN baseline) \X (DOMAIN current)
    BY DEF MatchOnce
  <2> QED
    BY <2>1, ScoresAre, LeftFinite
<1>2. IsFiniteSet(P)
  <2>1. IsFiniteSet(left) /\ IsFiniteSet(right)
    BY LeftFinite
  <2>2. IsFiniteSet(left \X right)
    BY <2>1, FS_Product
  <2> QED
    BY <2>2, FS_Subset
<1>3. PICK high \in P : \A p \in P : Matching!Score(p) <= Matching!Score(high)
  <2> DEFINE f == [p \in P |-> Matching!Score(p)]
  <2>1. PICK x \in P : \A y \in P : f[y] <= f[x]
    <3>1. DOMAIN f = P /\ \A x \in P : f[x] \in Int
      BY <1>1
    <3> HIDE DEF f
    <3> QED
      BY <1>2, <3>1, ExtremeValues
  <2> QED
    BY <2>1
<1> DEFINE H == {p \in P : Matching!Score(p) = Matching!Score(high)}
<1>4. PICK one \in H : \A p \in H : one[1] <= p[1]
  <2> DEFINE f == [p \in H |-> p[1]]
  <2>1. PICK x \in H : \A y \in H : f[x] <= f[y]
    <3>1. DOMAIN f = H /\ (\A x \in H : f[x] \in Int) /\ H # {} /\ IsFiniteSet(H)
      BY <1>1, <1>2, FS_Subset
    <3> HIDE DEF f, H
    <3> QED
      BY <3>1, ExtremeValues
  <2> QED
    BY <2>1
<1> DEFINE O == {p \in H : p[1] = one[1]}
<1>5. PICK best \in O : \A p \in O : best[2] <= p[2]
  <2> DEFINE f == [p \in O |-> p[2]]
  <2>1. PICK x \in O : \A y \in O : f[x] <= f[y]
    <3>0. O \subseteq P
      OBVIOUS
    <3>1. DOMAIN f = O /\ (\A x \in O : f[x] \in Int) /\ O # {} /\ IsFiniteSet(O)
      BY <1>1, <1>2, <3>0, FS_Subset
    <3> HIDE DEF f, O
    <3> QED
      BY <3>1, ExtremeValues
  <2> QED
    BY <2>1
<1>6. ASSUME NEW q \in P \ {best} PROVE Matching!Better(best, q)
  <2>1. /\ best \in P /\ Matching!Score(best) = Matching!Score(high) /\ best[1] = one[1]
        /\ Matching!Score(q) <= Matching!Score(best)
    BY <1>3
  <2>2. CASE Matching!Score(q) # Matching!Score(best)
    BY <1>1, <2>1, <2>2 DEF Matching!Better
  <2>3. CASE q \in H /\ q[1] # best[1]
    BY <1>1, <1>4, <2>1, <2>3 DEF Matching!Better
  <2>4. CASE q \in O
    <3>1. q[2] # best[2] /\ best[2] <= q[2]
      BY <1>1, <1>5, <2>1, <2>4
    <3> QED
      BY <1>1, <2>1, <2>4, <3>1 DEF Matching!Better
  <2> QED
    BY <2>1, <2>2, <2>3, <2>4
<1>7. best \in P
  OBVIOUS
<1>8. Matching!NextBest(P) \in P /\ \A q \in P \ {Matching!NextBest(P)} : Matching!Better(Matching!NextBest(P), q)
  BY <1>6, <1>7 DEF Matching!NextBest
<1> QED
  BY <1>1, <1>8 DEF Matching!Better

(* A step of the slides by their scores.                                    *)
LEMMA PairSlidesKeeps ==
  ASSUME MatchInv, Matching!PairSlides
  PROVE  MatchInv'
<1> DEFINE q == Matching!NextBest(Matching!Fitting)
<1>1. /\ kind = "slide" /\ Matching!Fitting # {} /\ stage' = stage
      /\ pairs' = pairs \cup {q} /\ left' = left \ {q[1]} /\ right' = right \ {q[2]}
      /\ UNCHANGED <<kind, deck, baseline, current, ambiguous, reordered>>
  BY DEF Matching!PairSlides, Matching!inputVars
<1>2. MatchTypes /\ MatchOnce /\ MatchBest
  BY DEF MatchInv
<1>3. Matching!Fitting \in SUBSET (left \X right)
  BY DEF Matching!Fitting
<1>4. q \in Matching!Fitting /\ \A p \in Matching!Fitting : Matching!Score(q) >= Matching!Score(p)
  BY <1>1, <1>2, <1>3, BestExists
<1>5. q \in left \X right
  BY <1>3, <1>4
<1> HIDE DEF q
<1>6. Takes({q})
  BY <1>1, <1>5 DEF Takes, OnePartner
<1>7. MatchOnce' /\ MatchBest'
  BY <1>2, <1>4, <1>5, <1>6, TakesOnce, TakesBest
<1>8. MatchTypes'
  BY <1>1, <1>2 DEF MatchTypes, IsList
<1>9. MatchCharts' /\ MatchMedia'
  BY <1>1 DEF MatchCharts, MatchMedia
<1>10. MatchReordered'
  <2>1. ~Matching!Matched
    BY <1>1 DEF Matching!Matched
  <2> QED
    BY <1>1, <2>1 DEF MatchInv, MatchReordered
<1> QED
  BY <1>7, <1>8, <1>9, <1>10 DEF MatchInv

(* A step of the slides by a pin.                                           *)
LEMMA PinKeeps ==
  ASSUME MatchInv, Matching!Pin
  PROVE  MatchInv'
<1> DEFINE was == Matching!Titled(baseline, left, deck.pins[stage][1])
           now == Matching!Titled(current, right, deck.pins[stage][2])
           q == <<Matching!Min(was), Matching!Min(now)>>
<1>1. /\ kind = "slide" /\ stage <= Len(deck.pins) /\ stage' = stage + 1
      /\ UNCHANGED <<kind, deck, baseline, current, ambiguous, reordered>>
      /\ IF was = {} \/ now = {} THEN UNCHANGED <<left, right, pairs>>
         ELSE /\ pairs' = pairs \cup {<<Matching!Min(was), Matching!Min(now)>>}
              /\ left' = left \ {Matching!Min(was)} /\ right' = right \ {Matching!Min(now)}
  BY DEF Matching!Pin, Matching!inputVars
<1>2. MatchTypes /\ MatchOnce /\ MatchBest
  BY DEF MatchInv
<1>3. MatchTypes'
  BY <1>1, <1>2 DEF MatchTypes, IsList
<1>4. MatchCharts' /\ MatchMedia'
  BY <1>1 DEF MatchCharts, MatchMedia
<1>5. MatchReordered'
  <2>1. ~Matching!Matched
    BY <1>1, <1>2 DEF Matching!Matched, MatchTypes
  <2> QED
    BY <1>1, <2>1 DEF MatchInv, MatchReordered
<1>6. CASE was = {} \/ now = {}
  <2>0. UNCHANGED <<left, right, pairs>>
    BY <1>1, <1>6
  <2> HIDE DEF was, now, q
  <2>1. MatchOnce'
    BY <1>1, <1>2, <2>0 DEF MatchOnce, OnePartner
  <2>2. /\ \A p : Matching!Score(p)' = Matching!Score(p)
        /\ \A p : Matching!Partner(p)' = Matching!Partner(p)
        /\ Matching!Pinned' = Matching!Pinned
    BY <1>1, <2>0 DEF Matching!Score, Matching!Partner, Matching!Pinned
  <2>3. MatchBest'
    BY <1>1, <1>2, <2>0, <2>2 DEF MatchBest
  <2> QED
    BY <1>3, <1>4, <1>5, <2>1, <2>3 DEF MatchInv
<1>7. CASE was # {} /\ now # {}
  <2>1. Matching!Min(was) \in was /\ Matching!Min(now) \in now
    <3>1. was \in SUBSET left /\ now \in SUBSET right
      BY DEF Matching!Titled
    <3>2. \A S : IsFiniteSet(S) /\ S # {} /\ (\A x \in S : x \in Int) => Matching!Min(S) \in S
      BY LeastOfFinite DEF Matching!Min
    <3> QED
      BY <1>2, <1>7, <3>1, <3>2, LeftFinite
  <2>2. q \in left \X right /\ pairs' = pairs \cup {q}
        /\ left' = left \ {q[1]} /\ right' = right \ {q[2]}
    BY <1>1, <1>7, <2>1 DEF Matching!Titled
  <2>3. stage \in DOMAIN deck.pins /\ deck.pins[stage] = <<deck.pins[stage][1], deck.pins[stage][2]>>
    BY <1>1, <1>2, MatchingConstants DEF MatchTypes, IsList
  <2>4. <<baseline[q[1]].title, current[q[2]].title>> = deck.pins[stage]
    BY <2>1, <2>3 DEF Matching!Titled
  <2> HIDE DEF q
  <2>5. Takes({q})
    BY <1>1, <2>2 DEF Takes, OnePartner
  <2>6. MatchOnce'
    BY <1>2, <2>5, TakesOnce
  <2>7. MatchBest'
    BY <1>1, <1>2, <2>2, <2>3, <2>4, <2>5, TakesBest
  <2> QED
    BY <1>3, <1>4, <1>5, <2>6, <2>7 DEF MatchInv
<1> QED
  BY <1>6, <1>7

(* S is a longest part of 1..n on which the values rise.                    *)
Rises(values, Q) == \A k, l \in Q : k < l => values[k] < values[l]
LongestRising(n, values, S) ==
  /\ S \subseteq 1..n /\ Rises(values, S)
  /\ \A Q \in SUBSET (1..n) : Rises(values, Q) => Cardinality(Q) <= Cardinality(S)

(* What _reordered_pairs keeps is a longest increasing sequence.            *)
LEMMA StableIsLongest ==
  ASSUME NEW n \in Nat, NEW values \in [1..n -> Int]
  PROVE  LongestRising(n, values, Matching!Stable(values))
<1>0. /\ IsFiniteSet(1..n) /\ Cardinality(1..n) = n
      /\ \A S \in SUBSET (1..n) : IsFiniteSet(S) /\ \A x \in S : x \in Int
  BY UpTo
<1>1. CASE n = 0
  <2>1. Matching!Stable(values) = {}
    <3>1. values = <<>>
      BY <1>1
    <3> QED
      BY <3>1 DEF Matching!Stable
  <2>2. \A Q \in SUBSET (1..n) : Q = {}
    BY <1>1
  <2> QED
    BY <2>1, <2>2, 0 <= 0, FS_EmptySet DEF LongestRising, Rises
<1>2. CASE n # 0
  <2> DEFINE before(k) == {l \in 1..(k - 1) : values[l] < values[k]}
             IsLength(g) == g = [k \in DOMAIN values |->
                                   IF before(k) = {} THEN 1 ELSE 1 + Matching!Max({g[l] : l \in before(k)})]
             length == CHOOSE g : IsLength(g)
             parent(k) == Matching!Min({l \in before(k) : length[l] = length[k] - 1})
             IsKept(g) == g = [k \in DOMAIN values |->
                                 IF length[k] = 1 THEN {k} ELSE {k} \cup g[parent(k)]]
             kept == CHOOSE g : IsKept(g)
             e == Matching!EndsLongest(length)
  <2>1. Matching!Stable(values) = kept[e]
    <3>1. values # <<>>
      BY <1>2
    <3> QED
      BY <3>1 DEF Matching!Stable
  <2>2. ASSUME NEW k \in 1..n PROVE before(k) \subseteq 1..n /\ \A l \in before(k) : l < k /\ l \in 1..n
    OBVIOUS
  <2>3. ASSUME NEW k \in 1..n, NEW g \in [1..n -> Nat], before(k) # {}
        PROVE  /\ Matching!Max({g[l] : l \in before(k)}) \in Nat
               /\ \A l \in before(k) : g[l] <= Matching!Max({g[i] : i \in before(k)})
               /\ \E l \in before(k) : g[l] = Matching!Max({g[i] : i \in before(k)})
    <3> DEFINE B == before(k)
               f == [l \in B |-> g[l]]
               T == {g[l] : l \in B}
    <3>1. IsFiniteSet(B) /\ B # {} /\ DOMAIN f = B /\ \A l \in B : f[l] \in Int /\ f[l] = g[l] /\ g[l] \in Nat
      BY <1>0, <2>2, <2>3
    <3> HIDE DEF B, f
    <3>2. PICK x \in B : \A y \in B : f[y] <= f[x]
      BY <3>1, ExtremeValues
    <3>3. g[x] \in T /\ \A t \in T : g[x] >= t
      BY <3>1, <3>2
    <3>4. Matching!Max(T) \in T /\ \A t \in T : Matching!Max(T) >= t
      BY <3>3 DEF Matching!Max
    <3> QED
      BY <3>1, <3>4 DEF B
  <2>4. \E g \in [1..n -> Nat] : IsLength(g)
    <3> DEFINE V == [p \in (1..n) \X [1..n -> Nat] |->
                       IF before(p[1]) = {} THEN 1 ELSE 1 + Matching!Max({p[2][l] : l \in before(p[1])})]
    <3>1. V \in [(1..n) \X [1..n -> Nat] -> Nat]
      <4>1. ASSUME NEW k \in 1..n, NEW g \in [1..n -> Nat] PROVE V[<<k, g>>] \in Nat
        <5> DEFINE m == Matching!Max({g[l] : l \in before(k)})
        <5>1. before(k) # {} => m \in Nat
          BY <2>3
        <5> HIDE DEF before
        <5>2. V[<<k, g>>] = IF before(k) = {} THEN 1 ELSE 1 + m
          OBVIOUS
        <5> HIDE DEF V, m
        <5> QED
          BY <5>1, <5>2
      <4>2. V = [p \in (1..n) \X [1..n -> Nat] |-> V[p]]
        OBVIOUS
      <4> HIDE DEF V, before
      <4>3. \A p \in (1..n) \X [1..n -> Nat] : V[p] \in Nat
        <5> SUFFICES ASSUME NEW p \in (1..n) \X [1..n -> Nat] PROVE V[p] \in Nat
          OBVIOUS
        <5>1. p = <<p[1], p[2]>> /\ p[1] \in 1..n /\ p[2] \in [1..n -> Nat]
          OBVIOUS
        <5> QED
          BY <4>1, <5>1
      <4> QED
        BY <4>2, <4>3
    <3>2. ASSUME NEW k \in 1..n, NEW g \in [1..n -> Nat], NEW h \in [1..n -> Nat],
                 \A l \in 1..(k - 1) : g[l] = h[l]
          PROVE  V[<<k, g>>] = V[<<k, h>>]
      <4>1. {g[l] : l \in before(k)} = {h[l] : l \in before(k)}
        BY <3>2
      <4> HIDE DEF before
      <4> QED
        BY <4>1
    <3>3. PICK g \in [1..n -> Nat] : ByEarlier(V, n, g)
      <4> HIDE DEF V
      <4>1. \A k \in 1..n : \A g, h \in [1..n -> Nat] :
              (\A l \in 1..(k - 1) : g[l] = h[l]) => V[<<k, g>>] = V[<<k, h>>]
        BY <3>2
      <4> QED
        BY <3>1, <4>1, ByEarlierExists, 0 \in Nat
    <3>4. \A k \in 1..n : V[<<k, g>>] = IF before(k) = {} THEN 1 ELSE 1 + Matching!Max({g[l] : l \in before(k)})
      <4> HIDE DEF before
      <4> QED
        OBVIOUS
    <3>5. DOMAIN values = 1..n
      OBVIOUS
    <3>6. IsLength(g)
      <4> HIDE DEF V, before
      <4> QED
        BY <3>3, <3>4, <3>5 DEF ByEarlier
    <3> HIDE DEF IsLength
    <3> QED
      BY <3>6
  <2>5. IsLength(length)
    <3> HIDE DEF IsLength
    <3> QED
      BY <2>4
  <2> HIDE DEF length
  <2>6. length = [k \in 1..n |-> IF before(k) = {} THEN 1 ELSE 1 + Matching!Max({length[l] : l \in before(k)})]
    <3> HIDE DEF before
    <3> QED
      BY <2>5
  <2>7. length \in [1..n -> Nat]
    <3>1. \E g \in [1..n -> Nat] : TRUE
      BY <2>4
    <3> DEFINE S == {k \in Nat : k \in 1..n => length[k] \in Nat}
    <3>2. ASSUME NEW k \in Nat, \A m \in Nat : m < k => m \in S PROVE k \in S
      <4> SUFFICES ASSUME k \in 1..n PROVE length[k] \in Nat
        OBVIOUS
      <4> DEFINE g == [l \in 1..n |-> IF l < k THEN length[l] ELSE 0]
      <4>1. g \in [1..n -> Nat]
        BY <3>2
      <4>2. {g[l] : l \in before(k)} = {length[l] : l \in before(k)}
        BY <2>2
      <4> DEFINE m == Matching!Max({length[l] : l \in before(k)})
      <4> HIDE DEF g, before
      <4>3. before(k) # {} => m \in Nat
        BY <2>3, <4>1, <4>2
      <4>4. length[k] = IF before(k) = {} THEN 1 ELSE 1 + m
        BY <2>6
      <4> HIDE DEF m
      <4> QED
        BY <4>3, <4>4
    <3> HIDE DEF S
    <3>3. \A k \in Nat : k \in S
      BY <3>2, CompleteInduction
    <3>4. \A k \in 1..n : length[k] \in Nat
      BY <3>3 DEF S
    <3>5. length = [k \in 1..n |-> length[k]]
      <4> HIDE DEF before
      <4> QED
        BY <2>6
    <3> QED
      BY <3>4, <3>5
  <2>8. ASSUME NEW k \in 1..n
        PROVE  /\ length[k] >= 1
               /\ \A l \in before(k) : length[l] < length[k]
               /\ length[k] # 1 => \E l \in before(k) : length[l] = length[k] - 1
    <3>1. CASE before(k) = {}
      <4> HIDE DEF before
      <4>1. length[k] = 1
        BY <2>6, <3>1
      <4> QED
        BY <3>1, <4>1
    <3>2. CASE before(k) # {}
      <4> DEFINE m == Matching!Max({length[i] : i \in before(k)})
      <4>1. m \in Nat /\ (\A l \in before(k) : length[l] <= m) /\ \E l \in before(k) : length[l] = m
        BY <2>3, <2>7, <3>2
      <4>2. length[k] = 1 + m
        <5> HIDE DEF before
        <5> QED
          BY <2>6, <3>2
      <4>3. \A l \in before(k) : length[l] \in Nat
        BY <2>2, <2>7
      <4> HIDE DEF m, before
      <4> QED
        BY <4>1, <4>2, <4>3
    <3> QED
      BY <3>1, <3>2
  <2>9. ASSUME NEW k \in 1..n, length[k] # 1
        PROVE  parent(k) \in before(k) /\ length[parent(k)] = length[k] - 1
    <3> DEFINE P == {l \in before(k) : length[l] = length[k] - 1}
    <3>1. P # {} /\ IsFiniteSet(P) /\ \A x \in P : x \in Int
      <4>1. P \subseteq 1..n
        OBVIOUS
      <4>2. P # {}
        BY <2>8, <2>9
      <4> HIDE DEF P
      <4> QED
        BY <1>0, <4>1, <4>2
    <3> HIDE DEF P
    <3>2. Matching!Min(P) \in P
      BY <3>1, LeastOfFinite DEF Matching!Min
    <3> QED
      BY <3>2 DEF P
  <2> HIDE DEF parent
  <2>10. \E g \in [1..n -> SUBSET (1..n)] : IsKept(g)
    <3> DEFINE Y == SUBSET (1..n)
               W == [p \in (1..n) \X [1..n -> Y] |->
                       IF length[p[1]] = 1 THEN {p[1]} ELSE {p[1]} \cup p[2][parent(p[1])]]
    <3>1. W \in [(1..n) \X [1..n -> Y] -> Y]
      <4>1. ASSUME NEW k \in 1..n, NEW g \in [1..n -> Y] PROVE W[<<k, g>>] \in Y
        <5>1. CASE length[k] = 1
          BY <5>1
        <5>2. CASE length[k] # 1
          <6>1. parent(k) \in 1..n
            BY <2>2, <2>9, <5>2
          <6> QED
            BY <5>2, <6>1
        <5> QED
          BY <5>1, <5>2
      <4>2. W = [p \in (1..n) \X [1..n -> Y] |-> W[p]]
        OBVIOUS
      <4> HIDE DEF W, Y
      <4>3. \A p \in (1..n) \X [1..n -> Y] : W[p] \in Y
        BY <4>1
      <4> QED
        BY <4>2, <4>3
    <3>2. ASSUME NEW k \in 1..n, NEW g \in [1..n -> Y], NEW h \in [1..n -> Y],
                 \A l \in 1..(k - 1) : g[l] = h[l]
          PROVE  W[<<k, g>>] = W[<<k, h>>]
      <4>1. length[k] # 1 => parent(k) \in 1..(k - 1)
        BY <2>9
      <4> HIDE DEF Y
      <4> QED
        BY <3>2, <4>1
    <3>3. PICK g \in [1..n -> Y] : ByEarlier(W, n, g)
      <4> HIDE DEF W
      <4>1. \A k \in 1..n : \A g, h \in [1..n -> Y] :
              (\A l \in 1..(k - 1) : g[l] = h[l]) => W[<<k, g>>] = W[<<k, h>>]
        BY <3>2
      <4>2. {} \in Y
        OBVIOUS
      <4> HIDE DEF Y
      <4> QED
        BY <3>1, <4>1, <4>2, ByEarlierExists
    <3>4. \A k \in 1..n : W[<<k, g>>] = IF length[k] = 1 THEN {k} ELSE {k} \cup g[parent(k)]
      <4> HIDE DEF Y
      <4> QED
        OBVIOUS
    <3>5. DOMAIN values = 1..n
      OBVIOUS
    <3>6. IsKept(g)
      <4> HIDE DEF W, Y
      <4> QED
        BY <3>3, <3>4, <3>5 DEF ByEarlier
    <3> HIDE DEF IsKept
    <3> QED
      BY <3>6
  <2>11. IsKept(kept)
    <3> HIDE DEF IsKept
    <3> QED
      BY <2>10
  <2> HIDE DEF kept
  <2>12. ASSUME NEW k \in 1..n
         PROVE  kept[k] = IF length[k] = 1 THEN {k} ELSE {k} \cup kept[parent(k)]
    BY <2>11
  <2> DEFINE Chain(k) == /\ kept[k] \subseteq 1..k /\ k \in kept[k]
                         /\ \A l \in kept[k] : l = k \/ values[l] < values[k]
                         /\ Rises(values, kept[k])
                         /\ Cardinality(kept[k]) = length[k]
  <2>13. \A k \in 1..n : Chain(k)
    <3> DEFINE S == {k \in Nat : k \in 1..n => Chain(k)}
    <3>1. ASSUME NEW k \in Nat, \A m \in Nat : m < k => m \in S PROVE k \in S
      <4> SUFFICES ASSUME k \in 1..n PROVE Chain(k)
        OBVIOUS
      <4>1. CASE length[k] = 1
        <5>1. kept[k] = {k}
          BY <2>12, <4>1
        <5>2. Cardinality({k}) = 1
          BY FS_Singleton
        <5> QED
          BY <4>1, <5>1, <5>2 DEF Rises
      <4>2. CASE length[k] # 1
        <5> DEFINE m == parent(k)
        <5>1. kept[k] = {k} \cup kept[m]
          BY <2>12, <4>2
        <5>2. m \in before(k) /\ length[m] = length[k] - 1
          BY <2>9, <4>2
        <5>3. m \in 1..n /\ m < k /\ values[m] < values[k] /\ m \in Nat
          BY <5>2
        <5> HIDE DEF m, before
        <5>4. Chain(m)
          BY <3>1, <5>3
        <5>5. kept[m] \subseteq 1..m /\ k \notin kept[m] /\ kept[m] \subseteq 1..n
          BY <5>3, <5>4
        <5>6. ASSUME NEW l \in kept[m] PROVE values[l] < values[k] /\ l < k
          <6>1. l \in 1..n /\ values[l] \in Int /\ values[m] \in Int /\ values[k] \in Int /\ l <= m
            BY <5>3, <5>5
          <6> QED
            BY <5>3, <5>4, <6>1
        <5>7. Rises(values, kept[k])
          BY <5>1, <5>4, <5>6 DEF Rises
        <5>8. Cardinality(kept[k]) = length[k]
          <6>1. IsFiniteSet(kept[m])
            BY <1>0, <5>5
          <6>2. Cardinality(kept[m] \cup {k}) = Cardinality(kept[m]) + 1
            BY <5>5, <6>1, FS_AddElement
          <6>3. kept[k] = kept[m] \cup {k}
            BY <5>1
          <6>4. length[k] \in Nat /\ length[m] \in Nat
            BY <2>7, <5>3
          <6>5. Cardinality(kept[m]) = length[m]
            BY <5>4
          <6>6. Cardinality(kept[k]) = Cardinality(kept[m]) + 1
            BY <6>2, <6>3
          <6> QED
            BY <5>2, <6>4, <6>5, <6>6
        <5>9. kept[k] \subseteq 1..k
          BY <5>1, <5>3, <5>5
        <5> QED
          BY <5>1, <5>6, <5>7, <5>8, <5>9
      <4> QED
        BY <4>1, <4>2
    <3> HIDE DEF S
    <3>2. \A k \in Nat : k \in S
      BY <3>1, CompleteInduction
    <3> QED
      BY <3>2 DEF S
  <2>14. e \in 1..n /\ \A l \in 1..n : length[l] <= length[e]
    <3> DEFINE M == {k \in DOMAIN length : \A l \in DOMAIN length : length[l] <= length[k]}
    <3>1. DOMAIN length = 1..n
      BY <2>7
    <3>2. M # {}
      <4>0. 1 \in 1..n
        BY <1>2
      <4>1. \A x \in 1..n : length[x] \in Int
        BY <2>7
      <4>2. \E x \in 1..n : \A y \in 1..n : length[y] <= length[x]
        BY <1>0, <3>1, <4>0, <4>1, ExtremeValues
      <4> QED
        BY <3>1, <4>2
    <3>3. M \subseteq 1..n
      BY <3>1
    <3>4. e = Matching!Min(M)
      BY DEF Matching!EndsLongest
    <3> HIDE DEF M, e
    <3>5. IsFiniteSet(M) /\ \A x \in M : x \in Int
      BY <1>0, <3>3
    <3>6. Matching!Min(M) \in M
      BY <3>2, <3>5, LeastOfFinite DEF Matching!Min
    <3> QED
      BY <3>1, <3>4, <3>6 DEF M
  <2> HIDE DEF e
  <2>15. ASSUME NEW Q \in SUBSET (1..n), Rises(values, Q) PROVE Cardinality(Q) <= length[e]
    <3> DEFINE T == 1..length[e]
               f == [k \in Q |-> length[k]]
    <3>1. length[e] \in Nat
      BY <2>7, <2>14
    <3>2. IsFiniteSet(T) /\ Cardinality(T) = length[e]
      BY <3>1, UpTo
    <3>3. f \in [Q -> T]
      BY <2>7, <2>8, <2>14, <3>1
    <3>4. ASSUME NEW k \in Q, NEW l \in Q, k < l PROVE f[k] # f[l]
      <4>1. k \in before(l) /\ l \in 1..n /\ k \in 1..n
        BY <2>15, <3>4 DEF Rises
      <4> HIDE DEF before
      <4>2. length[k] < length[l] /\ length[k] \in Nat /\ length[l] \in Nat
        BY <2>7, <2>8, <4>1
      <4> QED
        BY <4>2
    <3>5. f \in Injection(Q, T)
      <4>1. \A k, l \in Q : k \in Int /\ l \in Int
        OBVIOUS
      <4> HIDE DEF f, T
      <4>2. \A k, l \in Q : f[k] = f[l] => k = l
        BY <3>4, <4>1
      <4> QED
        BY <3>3, <4>2 DEF Injection, IsInjective
    <3> HIDE DEF f, T
    <3> QED
      BY <3>2, <3>5, FS_Injection
  <2>16. kept[e] \subseteq 1..n
    BY <2>13, <2>14
  <2> QED
    BY <2>1, <2>13, <2>14, <2>15, <2>16 DEF LongestRising
<1> QED
  BY <1>1, <1>2

(* The pairs in the order of the baseline are all pairs.                    *)
LEMMA InOrderLists ==
  ASSUME MatchTypes, MatchOnce
  PROVE  /\ IsFiniteSet(pairs) /\ Cardinality(pairs) \in Nat
         /\ ListsOf(Matching!InOrder, pairs)
         /\ \A k, l \in 1..Cardinality(pairs) : k < l => Matching!InOrder[k][1] < Matching!InOrder[l][1]
         /\ \A p \in pairs : p = <<p[1], p[2]>> /\ p[1] \in Nat /\ p[2] \in Nat
<1> DEFINE N == Cardinality(pairs)
           I == Matching!InOrder
           F == {q[1] : q \in pairs}
<1>0. \A p \in pairs : p = <<p[1], p[2]>> /\ p[1] \in Nat /\ p[2] \in Nat
  BY LeftFinite DEF MatchOnce
<1>1. IsFiniteSet(pairs) /\ N \in Nat
  <2>1. IsFiniteSet((DOMAIN baseline) \X (DOMAIN current))
    BY LeftFinite, FS_Product
  <2> QED
    BY <2>1, FS_Subset, FS_CardinalityType DEF MatchOnce
<1>2. IsFiniteSet(F) /\ Cardinality(F) = N /\ \A x \in F : x \in Int
  <2> DEFINE f == [q \in pairs |-> q[1]]
  <2>1. NoneTwice(f)
    BY <1>0 DEF NoneTwice, MatchOnce, OnePartner
  <2>2. DOMAIN f = pairs /\ F = {f[q] : q \in pairs}
    OBVIOUS
  <2> HIDE DEF f, F
  <2>3. IsFiniteSet(F) /\ Cardinality(F) = N
    BY <1>1, <2>1, <2>2, ImageFinite
  <2> QED
    BY <1>0, <2>3 DEF F
<1>3. I = [n \in 1..N |-> CHOOSE p \in pairs : RankOf(F, p[1]) = n - 1]
  BY DEF Matching!InOrder, Matching!Rank, RankOf, Matching!Cardinality, Cardinality
<1> HIDE DEF I, F
<1>4. ASSUME NEW n \in 1..N PROVE I[n] \in pairs /\ RankOf(F, I[n][1]) = n - 1
  <2>1. n - 1 \in 0..(Cardinality(F) - 1)
    BY <1>1, <1>2
  <2>2. PICK x \in F : RankOf(F, x) = n - 1
    BY <1>2, <2>1, RankOnto
  <2>3. \E p \in pairs : RankOf(F, p[1]) = n - 1
    BY <2>2 DEF F
  <2> QED
    BY <1>3, <2>3
<1>5. I \in [1..N -> pairs]
  <2>1. I = [n \in 1..N |-> I[n]]
    BY <1>3
  <2> QED
    BY <1>4, <2>1
<1>6. ASSUME NEW k \in 1..N, NEW l \in 1..N, k < l PROVE I[k][1] < I[l][1]
  <2>1. I[k][1] \in F /\ I[l][1] \in F /\ I[k][1] \in Int /\ I[l][1] \in Int
    BY <1>2, <1>4 DEF F
  <2>2. RankOf(F, I[k][1]) < RankOf(F, I[l][1])
    BY <1>1, <1>4, <1>6
  <2>3. ASSUME I[l][1] < I[k][1] PROVE FALSE
    <3>1. RankOf(F, I[l][1]) < RankOf(F, I[k][1])
      BY <1>2, <2>1, <2>3, RankGrows
    <3> QED
      BY <1>1, <1>4, <1>6, <3>1
  <2>4. I[k][1] # I[l][1]
    BY <1>4, <1>6
  <2> QED
    BY <2>1, <2>3, <2>4
<1>7. NoneTwice(I)
  <2>1. ASSUME NEW k \in 1..N, NEW l \in 1..N, I[k] = I[l] PROVE k = l
    BY <1>4, <2>1
  <2> QED
    BY <1>5, <2>1 DEF NoneTwice
<1>8. ListsOf(I, pairs)
  BY <1>1, <1>5, <1>7, OneToOneLists
<1> QED
  BY <1>0, <1>1, <1>6, <1>8 DEF I

(* What is told reordered leaves a longest increasing part of the pairs.    *)
LEMMA FindReorderedKeeps ==
  ASSUME MatchInv, Matching!FindReordered
  PROVE  MatchInv'
<1> DEFINE N == Cardinality(pairs)
           I == Matching!InOrder
           values == [k \in DOMAIN I |-> I[k][2]]
           S == Matching!Stable(values)
           R == {I[k] : k \in (DOMAIN I) \ S}
<1>1. /\ reordered' = R /\ Matching!Matched
      /\ UNCHANGED <<kind, deck, baseline, current, stage, left, right, pairs, ambiguous>>
  BY DEF Matching!FindReordered, Matching!inputVars
<1>2. MatchTypes /\ MatchOnce
  BY DEF MatchInv
<1>3. /\ IsFiniteSet(pairs) /\ N \in Nat /\ ListsOf(I, pairs)
      /\ \A k, l \in 1..N : k < l => I[k][1] < I[l][1]
      /\ \A p \in pairs : p = <<p[1], p[2]>> /\ p[1] \in Nat /\ p[2] \in Nat
  BY <1>2, InOrderLists
<1> HIDE DEF I, N
<1>4. /\ I \in [1..N -> pairs] /\ (\A k, l \in 1..N : I[k] = I[l] => k = l)
      /\ \A p \in pairs : \E k \in 1..N : I[k] = p
  BY <1>3 DEF ListsOf, NoneTwice, N
<1>5. values \in [1..N -> Int] /\ DOMAIN I = 1..N /\ \A k \in 1..N : values[k] = I[k][2]
  BY <1>3, <1>4
<1> HIDE DEF values
<1>6. LongestRising(N, values, S)
  BY <1>3, <1>5, StableIsLongest
<1> HIDE DEF S
<1>7. S \subseteq 1..N /\ Rises(values, S)
      /\ \A Q \in SUBSET (1..N) : Rises(values, Q) => Cardinality(Q) <= Cardinality(S)
  BY <1>6 DEF LongestRising
<1>8. pairs \ R = {I[k] : k \in S}
  BY <1>4, <1>5, <1>7
<1>9. Cardinality(pairs \ R) = Cardinality(S)
  <2> DEFINE f == [k \in S |-> I[k]]
  <2>1. NoneTwice(f) /\ DOMAIN f = S /\ {f[k] : k \in S} = {I[k] : k \in S}
    BY <1>4, <1>7 DEF NoneTwice
  <2>2. IsFiniteSet(S)
    BY <1>3, <1>7, UpTo
  <2> HIDE DEF f, R
  <2> QED
    BY <1>8, <2>1, <2>2, ImageFinite
<1>10. ASSUME NEW Q \in SUBSET (1..N)
       PROVE  Rises(values, Q) <=> Matching!Increasing({I[k] : k \in Q})
  <2>1. ASSUME NEW k \in Q, NEW l \in Q PROVE k < l <=> I[k][1] < I[l][1]
    <3>1. k \in 1..N /\ l \in 1..N /\ I[k][1] \in Nat /\ I[l][1] \in Nat
      BY <1>3, <1>4
    <3>2. k < l => I[k][1] < I[l][1]
      BY <1>3, <3>1
    <3>3. l < k => I[l][1] < I[k][1]
      BY <1>3, <3>1
    <3> QED
      BY <3>1, <3>2, <3>3
  <2>2. \A k \in Q : values[k] = I[k][2]
    BY <1>5
  <2> QED
    BY <2>1, <2>2 DEF Rises, Matching!Increasing
<1>11. Matching!Increasing(pairs \ R)
  BY <1>7, <1>8, <1>10
<1>12. ASSUME NEW P \in SUBSET pairs, Matching!Increasing(P)
       PROVE  Cardinality(P) <= Cardinality(S)
  <2> DEFINE Q == {k \in 1..N : I[k] \in P}
             f == [k \in Q |-> I[k]]
  <2>1. P = {I[k] : k \in Q}
    BY <1>4
  <2>2. NoneTwice(f) /\ DOMAIN f = Q
    BY <1>4 DEF NoneTwice
  <2>3. IsFiniteSet(Q) /\ Q \in SUBSET (1..N)
    BY <1>3, UpTo
  <2>4. Cardinality(P) = Cardinality(Q)
    <3>1. P = {f[k] : k \in Q}
      <4> HIDE DEF Q
      <4> QED
        BY <2>1
    <3> HIDE DEF f, Q
    <3>2. Cardinality({f[k] : k \in Q}) = Cardinality(Q)
      BY <2>2, <2>3, ImageFinite
    <3> QED
      BY <3>1, <3>2
  <2> HIDE DEF f, Q
  <2> QED
    BY <1>7, <1>10, <1>12, <2>1, <2>3, <2>4
<1>13. Longest(pairs, pairs \ R)
  BY <1>9, <1>11, <1>12 DEF Longest
<1>14. MatchReordered'
  <2>1. Matching!Matched'
    BY <1>1 DEF Matching!Matched, Matching!Fitting, Matching!Score
  <2> HIDE DEF R
  <2> QED
    BY <1>1, <1>13, <2>1 DEF MatchReordered
<1>15. MatchTypes' /\ MatchOnce'
  BY <1>1, <1>2 DEF MatchTypes, MatchOnce, OnePartner, IsList
<1>16. MatchBest' /\ MatchCharts' /\ MatchMedia'
  <2>1. MatchBest'
    <3>1. /\ \A p : Matching!Score(p)' = Matching!Score(p)
          /\ \A p : Matching!Partner(p)' = Matching!Partner(p)
          /\ Matching!Pinned' = Matching!Pinned
      BY <1>1 DEF Matching!Score, Matching!Partner, Matching!Pinned
    <3> QED
      BY <1>1, <3>1 DEF MatchInv, MatchBest
  <2>2. \A b, c, key : Matching!Same(b, c, key)' = Matching!Same(b, c, key)
    BY <1>1 DEF Matching!Same, Matching!BaseKey, Matching!CurrKey, Matching!KeyOf
  <2>3. MatchCharts'
    BY <1>1, <2>2 DEF MatchInv, MatchCharts
  <2>4. \A b, c : Matching!MayMatch(b, c)' = Matching!MayMatch(b, c)
    BY <1>1, <2>2 DEF Matching!MayMatch, Matching!BaseKey, Matching!CurrKey, Matching!KeyOf
  <2>5. MatchMedia'
    BY <1>1, <2>4 DEF MatchInv, MatchMedia, Matching!HasTwin
  <2> QED
    BY <2>1, <2>3, <2>5
<1> QED
  BY <1>14, <1>15, <1>16 DEF MatchInv

(* A stage keeps what is told of the elements.                              *)
LEMMA ConsumeKeeps ==
  ASSUME MatchInv, Matching!Consume
  PROVE  MatchInv'
<1>1. PICK new : Takes(new) /\ kind # "slide" /\ stage' = stage + 1
  BY ConsumeTakes DEF MatchInv
<1>2. MatchTypes'
  BY <1>1 DEF Takes, MatchInv, MatchTypes, IsList
<1>3. MatchOnce'
  BY <1>1, TakesOnce DEF MatchInv
<1>4. MatchBest'
  BY <1>1 DEF Takes, MatchBest
<1>5. MatchCharts' /\ MatchMedia'
  BY ConsumeKeepsCharts, ConsumeKeepsMedia DEF MatchInv
<1>6. MatchReordered'
  <2>1. ~Matching!Matched
    <3>1. stage <= Len(Matching!Stages[kind]) /\ stage \in Nat /\ kind \in DOMAIN Matching!Stages
      BY DEF Matching!Consume, MatchInv, MatchTypes
    <3>2. Len(Matching!Stages[kind]) \in Nat
      BY <3>1 DEF Matching!Stages
    <3> QED
      BY <1>1, <3>1, <3>2 DEF Matching!Matched
  <2> QED
    BY <1>1, <2>1 DEF Takes, MatchInv, MatchReordered
<1> QED
  BY <1>2, <1>3, <1>4, <1>5, <1>6 DEF MatchInv

(* So does a step, or none.                                                 *)
LEMMA MatchingSteps ==
  ASSUME MatchInv, Matching!MatchingNext \/ UNCHANGED matchVars
  PROVE  MatchInv'
<1>1. CASE Matching!MatchingNext
  BY <1>1, ConsumeKeeps, SetAsideKeeps, PinKeeps, PairSlidesKeeps, FindReorderedKeeps
     DEF Matching!MatchingNext
<1>2. CASE UNCHANGED matchVars
  <2>1. MatchTypes' /\ MatchOnce'
    BY <1>2 DEF matchVars, MatchInv, MatchTypes, MatchOnce, OnePartner, IsList
  <2>2. MatchBest'
    <3>1. /\ \A p : Matching!Score(p)' = Matching!Score(p)
          /\ \A p : Matching!Partner(p)' = Matching!Partner(p)
          /\ Matching!Pinned' = Matching!Pinned
      BY <1>2 DEF matchVars, Matching!Score, Matching!Partner, Matching!Pinned
    <3> QED
      BY <1>2, <3>1 DEF matchVars, MatchInv, MatchBest
  <2>3. \A b, c, key : Matching!Same(b, c, key)' = Matching!Same(b, c, key)
    BY <1>2 DEF matchVars, Matching!Same, Matching!BaseKey, Matching!CurrKey, Matching!KeyOf
  <2>4. MatchCharts'
    BY <1>2, <2>3 DEF matchVars, MatchInv, MatchCharts
  <2>5. \A b, c : Matching!MayMatch(b, c)' = Matching!MayMatch(b, c)
    BY <1>2, <2>3 DEF matchVars, Matching!MayMatch, Matching!BaseKey, Matching!CurrKey, Matching!KeyOf
  <2>6. MatchMedia'
    BY <1>2, <2>5 DEF matchVars, MatchInv, MatchMedia, Matching!HasTwin
  <2>7. MatchReordered'
    <3>1. Matching!Matched' = Matching!Matched
      BY <1>2 DEF matchVars, Matching!Matched, Matching!Fitting, Matching!Score
    <3> QED
      BY <1>2, <3>1 DEF matchVars, MatchInv, MatchReordered, Longest
  <2> QED
    BY <2>1, <2>2, <2>4, <2>6, <2>7 DEF MatchInv
<1> QED
  BY <1>1, <1>2

(* When all is matched, all is as it should be.                             *)
LEMMA MatchedIsRight ==
  ASSUME MatchInv
  PROVE  Matching!MatchedRight
<1> SUFFICES ASSUME reordered # None PROVE Matching!MatchedRight
  BY DEF Matching!MatchedRight
<1>1. Matching!Matched /\ Longest(pairs, pairs \ reordered)
  BY DEF MatchInv, MatchReordered
<1>2. kind = "slide" =>
        \A p \in (DOMAIN baseline) \X (DOMAIN current) :
          Matching!Score(p) >= Threshold =>
            \E q \in Matching!Partner(p) : q \in Matching!Pinned \/ Matching!Score(q) >= Matching!Score(p)
  <2> SUFFICES ASSUME kind = "slide", NEW p \in (DOMAIN baseline) \X (DOMAIN current),
                      Matching!Score(p) >= Threshold
               PROVE  p \notin left \X right
    BY DEF MatchInv, MatchBest
  <2> QED
    BY <1>1 DEF Matching!Matched, Matching!Fitting
<1>3. kind = "chart" => ~\E b \in left, c \in right : Matching!Same(b, c, "title") \/ Matching!Same(b, c, "signature")
  <2>1. kind = "chart" => stage > 5 /\ stage > 4
    BY <1>1 DEF Matching!Matched, Matching!Stages, MatchInv, MatchTypes
  <2> QED
    BY <2>1 DEF MatchInv, MatchCharts
<1>4. kind = "media" => /\ ~\E b \in left, c \in right : Matching!MayMatch(b, c)
                        /\ \A p \in pairs : ~Matching!HasTwin(baseline, p[1]) /\ ~Matching!HasTwin(current, p[2])
  <2>1. kind = "media" => stage > 4
    BY <1>1 DEF Matching!Matched, Matching!Stages, MatchInv, MatchTypes
  <2> QED
    BY <2>1 DEF MatchInv, MatchMedia
<1>5. /\ \A p, q \in pairs : (p[1] = q[1] <=> p[2] = q[2])
      /\ {p[1] : p \in pairs} \cup left \cup ambiguous[1] = DOMAIN baseline
      /\ {p[2] : p \in pairs} \cup right \cup ambiguous[2] = DOMAIN current
  BY DEF MatchInv, MatchOnce, OnePartner
<1>6. /\ Matching!Increasing(pairs \ reordered)
      /\ \A P \in SUBSET pairs : Matching!Increasing(P) => Matching!Cardinality(P) <= Matching!Cardinality(pairs \ reordered)
  BY <1>1 DEF Longest, Matching!Cardinality, Cardinality
<1> QED
  BY <1>2, <1>3, <1>4, <1>5, <1>6 DEF Matching!MatchedRight

-----------------------------------------------------------------------------
(* Impacts (Impacts).                                                       *)

(* The formulas that use a cell, and what a cell leads to, itself first.    *)
ThenOf(n) == {c \in DOMAIN formulas : Reached!Uses(c, {n})}
From(n) == {n} \cup Reached!Downstream(n)
FromAll(S) == UNION {From(x) : x \in S}

StoreTypes ==
  formulas \in Formulas /\ findings \in Findings /\ graph = Reached!Graph(formulas)

(* What a cell leads to is the least that has it and what any of it goes on to. *)
LEMMA DownstreamIsLeast ==
  ASSUME StoreTypes, NEW n \in 1..Width
  PROVE  /\ Reached!Downstream(n) \subseteq (DOMAIN formulas) \ {n}
         /\ \A m \in From(n) : ThenOf(m) \subseteq From(n)
         /\ \A S : n \in S /\ (\A m \in S : ThenOf(m) \subseteq S) => From(n) \subseteq S
<1> DEFINE N == DOMAIN formulas
           T == [X \in SUBSET N |-> X \cup {c \in N : Reached!Uses(c, {n} \cup X)}]
           IsGrown(g) == g = [k \in 0..Width |->
                                IF k = 0 THEN {}
                                ELSE LET last == g[k - 1] IN last \cup {c \in DOMAIN formulas : Reached!Uses(c, {n} \cup last)}]
           grow == CHOOSE g : IsGrown(g)
<1>1. /\ Width \in Nat /\ N \subseteq 1..Width /\ IsFiniteSet(N) /\ Cardinality(N) <= Width
  <2>1. Width \in Nat /\ N \subseteq 1..Width
    BY ImpactConstants DEF StoreTypes
  <2>2. IsFiniteSet(1..Width) /\ Cardinality(1..Width) = Width
    BY <2>1, UpTo
  <2> QED
    BY <2>1, <2>2, FS_Subset
<1>2. T \in [SUBSET N -> SUBSET N] /\ \A X \in SUBSET N : X \subseteq T[X]
  OBVIOUS
<1>3. Reached!Downstream(n) = grow[Width] \ {n}
  BY DEF Reached!Downstream
<1>4. ASSUME NEW g, Grows(T, {}, Width, g) PROVE IsGrown(g) /\ \A k \in 0..Width : g[k] \in SUBSET N
  <2> HIDE DEF T, N
  <2>1. \A k \in 0..Width : g[k] \in SUBSET N
    <3> DEFINE S == {k \in Nat : k <= Width => g[k] \in SUBSET N}
    <3>1. 0 \in S
      BY <1>1, <1>4 DEF Grows
    <3>2. ASSUME NEW k \in Nat, k \in S PROVE k + 1 \in S
      <4> SUFFICES ASSUME k + 1 <= Width PROVE g[k + 1] \in SUBSET N
        OBVIOUS
      <4>1. g[k] \in SUBSET N /\ k + 1 \in 0..Width /\ k + 1 # 0 /\ (k + 1) - 1 = k
        BY <1>1, <3>2
      <4>2. g[k + 1] = T[g[k]]
        BY <1>4, <4>1 DEF Grows
      <4> QED
        BY <1>2, <4>1, <4>2
    <3> HIDE DEF S
    <3>3. \A k \in Nat : k \in S
      BY <3>1, <3>2, Induction
    <3> QED
      BY <3>3 DEF S
  <2>2. ASSUME NEW k \in 0..Width, k # 0
        PROVE  T[g[k - 1]] = g[k - 1] \cup {c \in N : Reached!Uses(c, {n} \cup g[k - 1])}
    <3>1. k - 1 \in 0..Width
      BY <1>1, <2>2
    <3>2. g[k - 1] \in SUBSET N
      BY <2>1, <3>1
    <3> QED
      BY <3>2 DEF T
  <2>3. IsGrown(g)
    BY <1>4, <2>2 DEF Grows, N
  <2> HIDE DEF IsGrown
  <2> QED
    BY <2>1, <2>3
<1>5. IsGrown(grow)
  <2>1. PICK g : Grows(T, {}, Width, g)
    <3> HIDE DEF T, N
    <3> QED
      BY <1>1, <1>2, GrowsExists
  <2>2. IsGrown(g)
    BY <1>4, <2>1
  <2> HIDE DEF IsGrown
  <2> QED
    BY <2>2
<1> HIDE DEF grow
<1>6. Grows(T, {}, Width, grow)
  <2>1. \A k \in 0..Width : grow[k] \in SUBSET N
    <3> DEFINE S == {k \in Nat : k <= Width => grow[k] \in SUBSET N}
    <3>1. 0 \in S
      BY <1>1, <1>5
    <3>2. ASSUME NEW k \in Nat, k \in S PROVE k + 1 \in S
      <4> SUFFICES ASSUME k + 1 <= Width PROVE grow[k + 1] \in SUBSET N
        OBVIOUS
      <4>1. grow[k] \in SUBSET N /\ k + 1 \in 0..Width /\ k + 1 # 0 /\ (k + 1) - 1 = k
        BY <1>1, <3>2
      <4>2. grow[k + 1] = grow[k] \cup {c \in DOMAIN formulas : Reached!Uses(c, {n} \cup grow[k])}
        BY <1>5, <4>1
      <4> QED
        BY <4>1, <4>2
    <3> HIDE DEF S
    <3>3. \A k \in Nat : k \in S
      BY <3>1, <3>2, Induction
    <3> QED
      BY <3>3 DEF S
  <2>2. ASSUME NEW k \in 0..Width, k # 0
        PROVE  T[grow[k - 1]] = grow[k - 1] \cup {c \in N : Reached!Uses(c, {n} \cup grow[k - 1])}
    <3>1. k - 1 \in 0..Width
      BY <1>1, <2>2
    <3>2. grow[k - 1] \in SUBSET N
      BY <2>1, <3>1
    <3> QED
      BY <3>2
  <2> HIDE DEF T
  <2>3. grow = [k \in 0..Width |-> IF k = 0 THEN {} ELSE T[grow[k - 1]]]
    BY <1>5, <2>2
  <2> QED
    BY <2>3 DEF Grows
<1>7. LeastClosed(N, T, {}, grow[Width])
  <2>1. Cardinality(N) <= Width + Cardinality({})
    BY <1>1, FS_EmptySet, FS_CardinalityType
  <2> HIDE DEF T, N
  <2> QED
    BY <1>1, <1>2, <1>6, <2>1, GrowsToLeast
<1> DEFINE D == grow[Width]
<1> HIDE DEF D
<1>8. /\ D \in SUBSET N /\ T[D] = D
      /\ \A U \in SUBSET N : (\A X \in SUBSET U : T[X] \subseteq U) => D \subseteq U
  BY <1>7 DEF LeastClosed, D
<1>9. From(n) = {n} \cup D /\ Reached!Downstream(n) = D \ {n}
  BY <1>3 DEF From, D
<1>10. ASSUME NEW m \in From(n) PROVE ThenOf(m) \subseteq From(n)
  <2>1. T[D] = D \cup {c \in N : Reached!Uses(c, {n} \cup D)}
    BY <1>8
  <2>2. \A c \in ThenOf(m) : c \in N /\ Reached!Uses(c, {n} \cup D)
    BY <1>9 DEF ThenOf, Reached!Uses
  <2> HIDE DEF T
  <2> QED
    BY <1>8, <1>9, <2>1, <2>2
<1>11. ASSUME NEW S, n \in S, \A m \in S : ThenOf(m) \subseteq S PROVE From(n) \subseteq S
  <2> DEFINE U == S \cap N
  <2>1. ASSUME NEW X \in SUBSET U PROVE T[X] \subseteq U
    <3>1. X \in SUBSET N
      OBVIOUS
    <3>2. T[X] = X \cup {c \in N : Reached!Uses(c, {n} \cup X)}
      BY <3>1
    <3>3. ASSUME NEW c \in N, Reached!Uses(c, {n} \cup X) PROVE c \in S
      <4>1. PICK m \in {n} \cup X : Reached!Uses(c, {m})
        BY <3>3 DEF Reached!Uses
      <4>2. m \in S /\ c \in ThenOf(m)
        BY <1>11, <4>1 DEF ThenOf
      <4> QED
        BY <1>11, <4>2
    <3> HIDE DEF T
    <3> QED
      BY <3>2, <3>3
  <2>2. U \in SUBSET N
    OBVIOUS
  <2> HIDE DEF T
  <2>3. D \subseteq U
    BY <1>8, <2>1, <2>2
  <2> QED
    BY <1>9, <1>11, <2>3
<1>12. Reached!Downstream(n) \subseteq N \ {n}
  BY <1>8, <1>9
<1> QED
  BY <1>10, <1>11, <1>12

(* The rectangles and cells of the graph name what the formulas do: at a    *)
(* cell there are the formulas that use it, but a formula is not told that  *)
(* its own cell uses it.                                                    *)
LEMMA RectsAreThoseAround ==
  ASSUME StoreTypes, NEW n \in 1..Width, NEW R, NEW r \in R,
         r[1] \in Nat, r[2] \in Nat, r[1] <= r[2]
  PROVE  r \in Reached!RectsAt(R, n) <=> Reached!Within(n, r)
<1>1. n \in Nat /\ Bucket \in Nat \ {0}
  BY ImpactConstants
<1>2. /\ n \div Bucket \in Int
      /\ (n \div Bucket) * Bucket <= n /\ n <= (n \div Bucket) * Bucket + Bucket - 1
  BY <1>1
<1>3. ASSUME Reached!Within(n, r)
      PROVE  Reached!BucketOf(n) \in Reached!BucketOf(r[1])..Reached!BucketOf(r[2])
  <2>1. r[1] <= n /\ n <= r[2]
    BY <1>3 DEF Reached!Within
  <2>2. r[1] \div Bucket <= n \div Bucket /\ n \div Bucket <= r[2] \div Bucket
    BY <1>1, <2>1
  <2>3. r[1] \div Bucket \in Int /\ r[2] \div Bucket \in Int
    BY <1>1
  <2> QED
    BY <1>2, <2>2, <2>3 DEF Reached!BucketOf
<1>4. ASSUME Reached!Covers(r, Reached!BucketOf(n)) PROVE Reached!Within(n, r)
  <2> DEFINE b == n \div Bucket
  <2>1. r[1] <= b * Bucket /\ r[2] >= b * Bucket + Bucket - 1
    BY <1>4 DEF Reached!Covers, Reached!BucketOf
  <2>2. b * Bucket \in Int
    BY <1>1, <1>2
  <2> DEFINE x == b * Bucket
  <2>3. x \in Int /\ x <= n /\ n <= x + Bucket - 1 /\ r[1] <= x /\ r[2] >= x + Bucket - 1
    BY <1>2, <2>1, <2>2
  <2> HIDE DEF x, b
  <2>4. r[1] <= n /\ n <= r[2]
    BY <1>1, <2>3
  <2> QED
    BY <2>4 DEF Reached!Within
<1> QED
  BY <1>3, <1>4 DEF Reached!RectsAt

(* The direct users of a cell and those whose ranges have it are all that use it.*)
LEMMA GraphTells ==
  ASSUME StoreTypes, NEW n \in 1..Width
  PROVE  /\ graph.direct[n] \subseteq ThenOf(n)
         /\ Reached!Naming(graph.rects[n]) \subseteq ThenOf(n)
         /\ ThenOf(n) \ {n} \subseteq graph.direct[n] \cup Reached!Naming(graph.rects[n])
<1> DEFINE N == DOMAIN formulas
           named == UNION {formulas[c] : c \in N}
           rects == {r \in named : Reached!Size(r) \in 2..MaxRange}
           symbolic == {r \in named : Reached!Size(r) > MaxRange}
<1>1. /\ graph.naming = [r \in named |-> {c \in N : r \in formulas[c]}]
      /\ graph.rects[n] = Reached!RectsAt(rects, n) \cup {r \in symbolic : Reached!Within(n, r)}
  BY DEF StoreTypes, Reached!Graph
<1>10. \A c : c \in graph.direct[n] <=> c # n /\ <<n, n>> \in named /\ c \in graph.naming[<<n, n>>]
  <2> DEFINE Own == {graph.naming[r] : r \in named \cap {<<n, n>>}}
  <2>1. graph.direct[n] = (UNION Own) \ {n}
    BY DEF StoreTypes, Reached!Graph
  <2>2. \A x : x \in Own <=> <<n, n>> \in named /\ x = graph.naming[<<n, n>>]
    <3> HIDE DEF named
    <3> QED
      OBVIOUS
  <2> HIDE DEF Own, named
  <2> QED
    BY <2>1, <2>2
<1>2. \A r \in named : /\ r = <<r[1], r[2]>> /\ r[1] \in Nat /\ r[2] \in Nat /\ r[1] <= r[2]
  BY ImpactConstants DEF StoreTypes
<1>3. MaxRange \in Int
  BY ImpactConstants
<1>4. ASSUME NEW r \in graph.rects[n] PROVE r \in named /\ Reached!Within(n, r)
  <2>1. CASE r \in symbolic /\ Reached!Within(n, r)
    BY <2>1
  <2>2. CASE r \in Reached!RectsAt(rects, n)
    <3>1. r \in rects
      BY <2>2 DEF Reached!RectsAt
    <3>2. r \in named
      BY <3>1
    <3> HIDE DEF rects, named
    <3> QED
      BY <1>2, <2>2, <3>1, <3>2, RectsAreThoseAround
  <2> QED
    BY <1>1, <1>4, <2>1, <2>2
<1>5. ASSUME NEW r \in named, Reached!Within(n, r) PROVE r \in graph.rects[n] \/ r = <<n, n>>
  <2>1. r[1] \in Nat /\ r[2] \in Nat /\ r[1] <= r[2] /\ r = <<r[1], r[2]>> /\ r[1] <= n /\ n <= r[2] /\ n \in Nat
    BY <1>2, <1>5 DEF Reached!Within
  <2>2. CASE Reached!Size(r) = 1
    <3>1. r[1] = n /\ r[2] = n
      BY <2>1, <2>2 DEF Reached!Size
    <3> QED
      BY <2>1, <3>1
  <2>3. CASE Reached!Size(r) > MaxRange
    BY <1>1, <1>5, <2>3
  <2>4. CASE Reached!Size(r) # 1 /\ ~(Reached!Size(r) > MaxRange)
    <3>1. Reached!Size(r) \in 2..MaxRange
      BY <1>3, <2>1, <2>4 DEF Reached!Size
    <3>2. r \in rects
      BY <3>1
    <3> HIDE DEF rects, named
    <3>3. r \in Reached!RectsAt(rects, n)
      BY <1>5, <2>1, <3>2, RectsAreThoseAround
    <3> QED
      BY <1>1, <3>3
  <2> QED
    BY <2>2, <2>3, <2>4
<1>6. ASSUME NEW c, NEW r \in named, c \in graph.naming[r], Reached!Within(n, r) PROVE c \in ThenOf(n)
  <2>1. c \in N /\ r \in formulas[c]
    BY <1>1, <1>6
  <2> QED
    BY <1>6, <2>1 DEF ThenOf, Reached!Uses
<1>7. graph.direct[n] \subseteq ThenOf(n)
  <2>1. <<n, n>> \in named => Reached!Within(n, <<n, n>>)
    BY DEF Reached!Within
  <2> HIDE DEF named
  <2> QED
    BY <1>6, <1>10, <2>1
<1>8. Reached!Naming(graph.rects[n]) \subseteq ThenOf(n)
  <2> HIDE DEF named
  <2> QED
    BY <1>4, <1>6 DEF Reached!Naming
<1>9. ASSUME NEW c \in ThenOf(n), c # n PROVE c \in graph.direct[n] \cup Reached!Naming(graph.rects[n])
  <2>1. PICK r \in formulas[c] : c \in N /\ Reached!Within(n, r)
    BY DEF ThenOf, Reached!Uses
  <2>2. r \in named /\ c \in graph.naming[r]
    BY <1>1, <2>1
  <2>3. CASE r \in graph.rects[n]
    BY <2>2, <2>3 DEF Reached!Naming
  <2>4. CASE r = <<n, n>>
    <3>1. <<n, n>> \in named \cap {<<n, n>>} /\ c \in graph.naming[<<n, n>>]
      BY <2>2, <2>4
    <3> HIDE DEF named
    <3> QED
      BY <1>9, <1>10, <3>1
  <2> HIDE DEF named
  <2> QED
    BY <1>5, <2>1, <2>2, <2>3, <2>4
<1> QED
  BY <1>7, <1>8, <1>9

(* What cells lead to, together.                                            *)
LEMMA FromAllIsLeast ==
  ASSUME StoreTypes, NEW S \in SUBSET (1..Width)
  PROVE  /\ S \subseteq FromAll(S) /\ FromAll(S) \subseteq S \cup DOMAIN formulas
         /\ FromAll(S) \subseteq 1..Width
         /\ \A m \in FromAll(S) : ThenOf(m) \subseteq FromAll(S)
         /\ \A U : S \subseteq U /\ (\A m \in U : ThenOf(m) \subseteq U) => FromAll(S) \subseteq U
<1>1. ASSUME NEW x \in S
      PROVE  /\ x \in From(x) /\ From(x) \subseteq S \cup DOMAIN formulas
             /\ \A m \in From(x) : ThenOf(m) \subseteq From(x)
  BY DownstreamIsLeast DEF From
<1>2. ASSUME NEW U, S \subseteq U, \A m \in U : ThenOf(m) \subseteq U PROVE FromAll(S) \subseteq U
  <2>1. ASSUME NEW x \in S PROVE From(x) \subseteq U
    <3>1. x \in 1..Width /\ x \in U
      BY <1>2
    <3> QED
      BY <1>2, <3>1, DownstreamIsLeast
  <2> QED
    BY <2>1 DEF FromAll
<1>3. FromAll(S) \subseteq S \cup DOMAIN formulas
  BY <1>1 DEF FromAll
<1>4. DOMAIN formulas \subseteq 1..Width
  BY ImpactConstants DEF StoreTypes
<1>5. ASSUME NEW m \in FromAll(S) PROVE ThenOf(m) \subseteq FromAll(S)
  <2>1. PICK x \in S : m \in From(x)
    BY DEF FromAll
  <2>2. ThenOf(m) \subseteq From(x)
    BY <1>1, <2>1
  <2> QED
    BY <2>2 DEF FromAll
<1>6. S \subseteq FromAll(S)
  BY <1>1 DEF FromAll
<1>7. FromAll(S) \subseteq 1..Width
  BY <1>3, <1>4
<1> QED
  BY <1>2, <1>3, <1>5, <1>6, <1>7

(* A walk from seeds has found nothing they do not lead to, and what its    *)
(* pending cells do not lead to is closed.                                  *)
Walking(w, seeds) ==
  /\ w = [found |-> w.found, pending |-> w.pending, absorbed |-> w.absorbed]
  /\ seeds \subseteq w.found /\ w.found \subseteq FromAll(seeds)
  /\ w.pending \subseteq w.found
  /\ \A m \in w.found \ w.pending : ThenOf(m) \subseteq w.found
  /\ Reached!Naming(w.absorbed) \subseteq w.found

ClosuresRight ==
  \A c \in DOMAIN closures : c \in 1..Width /\ closures[c] = Reached!Downstream(c)

(* It goes on so whatever has been kept of earlier walks.                   *)
LEMMA ExpandedWalks ==
  ASSUME StoreTypes, ClosuresRight, NEW seeds \in SUBSET (1..Width), NEW w, Walking(w, seeds),
         NEW n \in w.pending
  PROVE  Walking(Reached!Expanded(w, n), seeds)
<1> DEFINE F == FromAll(seeds)
<1>1. /\ n \in w.found /\ n \in F /\ w.found \subseteq F /\ F \subseteq 1..Width
      /\ \A m \in F : ThenOf(m) \subseteq F
  BY FromAllIsLeast DEF Walking
<1>2. n \in 1..Width
  BY <1>1
<1> HIDE DEF F
<1>3. CASE n \in DOMAIN closures
  <2> DEFINE found == w.found \cup closures[n]
  <2>1. Reached!Expanded(w, n) = [found |-> found, pending |-> w.pending \ {n}, absorbed |-> w.absorbed]
    BY <1>3 DEF Reached!Expanded, Walking
  <2>2. {n} \cup closures[n] = From(n)
    BY <1>3 DEF ClosuresRight, From
  <2>3. From(n) \subseteq F /\ \A m \in From(n) : ThenOf(m) \subseteq From(n)
    BY <1>1, <1>2, DownstreamIsLeast
  <2>4. found = w.found \cup From(n)
    BY <1>1, <2>2
  <2> HIDE DEF found
  <2>5. found \subseteq F /\ seeds \subseteq found /\ w.pending \ {n} \subseteq found
        /\ Reached!Naming(w.absorbed) \subseteq found
    BY <1>1, <2>3, <2>4 DEF Walking
  <2>6. ASSUME NEW m \in found \ (w.pending \ {n}) PROVE ThenOf(m) \subseteq found
    <3>1. CASE m \in From(n)
      BY <2>3, <2>4, <3>1
    <3>2. CASE m \notin From(n)
      <4>1. m \in w.found \ w.pending
        BY <2>2, <2>4, <2>6, <3>2
      <4> QED
        BY <2>4, <4>1 DEF Walking
    <3> QED
      BY <3>1, <3>2
  <2> QED
    BY <2>1, <2>5, <2>6 DEF Walking, F
<1>4. CASE n \notin DOMAIN closures
  <2> DEFINE R == graph.rects[n] \ w.absorbed
             more == (graph.direct[n] \cup Reached!Naming(R)) \ w.found
             found == w.found \cup more
             pending == (w.pending \ {n}) \cup more
             absorbed == w.absorbed \cup graph.rects[n]
  <2>1. Reached!Expanded(w, n) = [found |-> found, pending |-> pending, absorbed |-> absorbed]
    BY <1>4 DEF Reached!Expanded, Reached!Absorbed
  <2>2. Reached!Naming(R) \subseteq Reached!Naming(graph.rects[n])
        /\ Reached!Naming(graph.rects[n]) \subseteq Reached!Naming(R) \cup Reached!Naming(w.absorbed)
        /\ Reached!Naming(absorbed) = Reached!Naming(w.absorbed) \cup Reached!Naming(graph.rects[n])
    BY DEF Reached!Naming
  <2>3. /\ graph.direct[n] \subseteq ThenOf(n) /\ Reached!Naming(graph.rects[n]) \subseteq ThenOf(n)
        /\ ThenOf(n) \ {n} \subseteq graph.direct[n] \cup Reached!Naming(graph.rects[n])
    BY <1>2, GraphTells
  <2>4. Reached!Naming(w.absorbed) \subseteq w.found
    BY DEF Walking
  <2> HIDE DEF R, absorbed
  <2>5. more \subseteq F /\ graph.direct[n] \cup Reached!Naming(graph.rects[n]) \subseteq found
    BY <1>1, <2>2, <2>3, <2>4
  <2>6. ThenOf(n) \subseteq found
    BY <1>1, <2>3, <2>5
  <2>7. ASSUME NEW m \in found \ pending PROVE ThenOf(m) \subseteq found
    <3>1. CASE m = n
      BY <2>6, <3>1
    <3>2. CASE m # n
      <4>1. m \in w.found \ w.pending
        BY <2>7, <3>2
      <4>2. ThenOf(m) \subseteq w.found
        BY <4>1 DEF Walking
      <4> QED
        BY <4>2
    <3> QED
      BY <3>1, <3>2
  <2>8. found \subseteq F /\ seeds \subseteq found /\ pending \subseteq found
    BY <1>1, <2>5 DEF Walking
  <2>9. Reached!Naming(absorbed) \subseteq found
    BY <2>2, <2>4, <2>5
  <2> HIDE DEF found, pending
  <2> QED
    BY <2>1, <2>7, <2>8, <2>9 DEF Walking, F
<1> QED
  BY <1>3, <1>4

(* A walk with nothing pending has found all.                               *)
LEMMA WalkEnds ==
  ASSUME StoreTypes, NEW seeds \in SUBSET (1..Width), NEW w, Walking(w, seeds), w.pending = {}
  PROVE  w.found = FromAll(seeds)
<1>1. /\ seeds \subseteq w.found /\ w.found \subseteq FromAll(seeds)
      /\ \A m \in w.found : ThenOf(m) \subseteq w.found
  BY DEF Walking
<1>2. FromAll(seeds) \subseteq w.found
  <2> DEFINE U == w.found
  <2>1. \A V : seeds \subseteq V /\ (\A m \in V : ThenOf(m) \subseteq V) => FromAll(seeds) \subseteq V
    BY FromAllIsLeast
  <2>2. seeds \subseteq U /\ \A m \in U : ThenOf(m) \subseteq U
    BY <1>1
  <2> HIDE DEF U
  <2>3. FromAll(seeds) \subseteq U
    BY <2>1, <2>2, Zenon
  <2> QED
    BY <2>3 DEF U
<1> QED
  BY <1>1, <1>2

(* A cell leads to what its formulas and those of its rectangles lead to.   *)
Seeds(sig) == sig[1] \cup Reached!Naming(sig[2])
(* What a cell leads to is what the formulas that name it lead to, and they.*)
LEMMA DownstreamBySeeds ==
  ASSUME StoreTypes, NEW n \in 1..Width
  PROVE  /\ Seeds(Reached!Signature(n)) \subseteq DOMAIN formulas
         /\ Seeds(Reached!Signature(n)) \in SUBSET (1..Width)
         /\ Reached!Downstream(n) = FromAll(Seeds(Reached!Signature(n))) \ {n}
<1> DEFINE S == Seeds(Reached!Signature(n))
           F == FromAll(S)
<1>1. S = graph.direct[n] \cup Reached!Naming(graph.rects[n])
  BY DEF Seeds, Reached!Signature
<1>2. S \subseteq ThenOf(n) /\ ThenOf(n) \ {n} \subseteq S
  BY <1>1, GraphTells
<1>3. ThenOf(n) \subseteq DOMAIN formulas /\ DOMAIN formulas \subseteq 1..Width
  BY ImpactConstants DEF ThenOf, StoreTypes
<1> HIDE DEF S
<1>4. S \in SUBSET (1..Width) /\ S \subseteq DOMAIN formulas
  BY <1>2, <1>3
<1>5. S \subseteq F /\ (\A m \in F : ThenOf(m) \subseteq F)
      /\ \A U : S \subseteq U /\ (\A m \in U : ThenOf(m) \subseteq U) => F \subseteq U
  BY <1>4, FromAllIsLeast
<1> HIDE DEF F
<1>6. From(n) \subseteq {n} \cup F
  <2> DEFINE G == {n} \cup F
  <2>1. n \in G /\ \A m \in G : ThenOf(m) \subseteq G
    BY <1>2, <1>5
  <2> HIDE DEF G
  <2>2. From(n) \subseteq G
    BY <2>1, DownstreamIsLeast
  <2> QED
    BY <2>2 DEF G
<1>7. F \subseteq From(n)
  <2>1. n \in From(n) /\ \A m \in From(n) : ThenOf(m) \subseteq From(n)
    BY DownstreamIsLeast DEF From
  <2> QED
    BY <1>2, <1>5, <2>1
<1>8. Reached!Downstream(n) = From(n) \ {n}
  BY DownstreamIsLeast DEF From
<1> QED
  BY <1>4, <1>6, <1>7, <1>8 DEF S, F

(* What is kept of a signature is what its cells lead to.                   *)
EntryRight(e) ==
  /\ \E m \in 1..Width : m \notin DOMAIN formulas /\ e.signature = Reached!Signature(m)
  /\ e.parts.all \cup e.parts.delta = FromAll(Seeds(e.signature))
  /\ e.parts.all \cap e.parts.delta = {}
SharedRight == \E S : shared \in Seq(S) /\ \A e \in S : EntryRight(e)

RegimesRight == \A R \in DOMAIN regimes : regimes[R] = FromAll(Reached!Naming(R))

JobAt(j, n) ==
  /\ j = [stage |-> j.stage, walk |-> j.walk]
  /\ \/ j.stage = "regime" /\ Walking(j.walk, Reached!Naming(graph.rects[n]))
     \/ /\ j.stage = "delta" /\ graph.rects[n] \in DOMAIN regimes
        /\ Walking(j.walk, Seeds(Reached!Signature(n)))
JobRight == job # None => Len(noted) < Len(findings) /\ JobAt(job, Reached!Cell)

NoteRight(note, n) ==
  note.all \cup note.delta = Reached!Downstream(n) /\ note.all \cap note.delta = {}
NotedRight ==
  /\ \E S : noted \in Seq(S)
  /\ Len(noted) <= Len(findings)
  /\ \A k \in 1..Len(noted) : NoteRight(noted[k], findings[k].cell)

(* What is shown of a finding is the beginning of its whole list.           *)
ShownRight(i, finding) ==
  LET whole == Reached!Downstream(finding.cell) \cup finding.extras
  IN  /\ i.first = Reached!Smallest(whole, MaxImpacts)
      /\ i.more = Reached!Cardinality(whole) - Reached!Cardinality(i.first)
AllShown ==
  /\ \E S : impacts \in Seq(S)
  /\ Len(impacts) <= Len(findings)
  /\ \A k \in 1..Len(impacts) : ShownRight(impacts[k], findings[k])
  /\ impacts # <<>> => Len(noted) = Len(findings)

ImpactInv ==
  /\ StoreTypes /\ ClosuresRight /\ SharedRight /\ RegimesRight /\ JobRight /\ NotedRight /\ AllShown

(* Nothing is kept or noted at first.                                       *)
LEMMA ImpactsBegin ==
  ASSUME Reached!ImpactsInit
  PROVE  ImpactInv
<1>1. StoreTypes /\ closures = Reached!Empty /\ shared = <<>> /\ regimes = Reached!Empty
      /\ job = None /\ noted = <<>> /\ impacts = <<>>
  BY DEF Reached!ImpactsInit, StoreTypes
<1>2. Len(findings) \in Nat
  BY <1>1, ImpactConstants DEF StoreTypes, IsList
<1>3. ClosuresRight /\ RegimesRight
  BY <1>1 DEF ClosuresRight, RegimesRight, Reached!Empty
<1>4. <<>> \in Seq({})
  OBVIOUS
<1>5. SharedRight
  <2>1. shared \in Seq({}) /\ \A e \in {} : EntryRight(e)
    BY <1>1, <1>4
  <2> QED
    BY <2>1 DEF SharedRight
<1>6. NotedRight /\ AllShown /\ JobRight
  BY <1>1, <1>2, <1>4 DEF NotedRight, AllShown, JobRight
<1> QED
  BY <1>1, <1>3, <1>5, <1>6 DEF ImpactInv

(* The cell that is asked about is one of the workbook.                     *)
LEMMA CellIsOne ==
  ASSUME StoreTypes, NotedRight, Len(noted) < Len(findings)
  PROVE  /\ Len(noted) \in Nat /\ Len(findings) \in Nat
         /\ Len(noted) + 1 \in DOMAIN findings /\ DOMAIN findings = 1..Len(findings)
         /\ Reached!Cell = findings[Len(noted) + 1].cell /\ Reached!Cell \in 1..Width
<1>1. Len(findings) \in Nat /\ DOMAIN findings = 1..Len(findings)
      /\ \A k \in DOMAIN findings : findings[k].cell \in 1..Width
  BY ImpactConstants DEF StoreTypes, IsList
<1>2. Len(noted) \in Nat
  BY DEF NotedRight
<1> QED
  BY <1>1, <1>2 DEF Reached!Cell

(* What is noted last is right if it is right of the cell.                  *)
LEMMA NotesGrow ==
  ASSUME StoreTypes, NotedRight, AllShown, Len(noted) < Len(findings), NEW note,
         NoteRight(note, Reached!Cell), noted' = Append(noted, note),
         UNCHANGED <<formulas, graph, findings, impacts>>
  PROVE  NotedRight' /\ AllShown'
<1>1. /\ Len(noted) \in Nat /\ Len(findings) \in Nat
      /\ Reached!Cell = findings[Len(noted) + 1].cell
  BY CellIsOne
<1>2. PICK S : noted \in Seq(S)
  BY DEF NotedRight
<1>3. /\ noted' \in Seq(S \cup {note}) /\ Len(noted') = Len(noted) + 1
      /\ noted'[Len(noted) + 1] = note /\ \A k \in 1..Len(noted) : noted'[k] = noted[k]
  BY <1>2
<1>4. \A n, x : NoteRight(x, n)' = NoteRight(x, n)
  BY DEF NoteRight, Reached!Downstream, Reached!Uses
<1>5. ASSUME NEW k \in 1..Len(noted') PROVE NoteRight(noted'[k], findings[k].cell)
  <2>1. CASE k = Len(noted) + 1
    BY <1>1, <1>3, <2>1
  <2>2. CASE k # Len(noted) + 1
    <3>1. k \in 1..Len(noted)
      BY <1>1, <1>3, <2>2
    <3> QED
      BY <1>3, <3>1 DEF NotedRight
  <2> QED
    BY <2>1, <2>2
<1>6. NotedRight'
  BY <1>1, <1>3, <1>4, <1>5 DEF NotedRight
<1>7. \A k : ShownRight(impacts[k], findings[k])' = ShownRight(impacts[k], findings[k])
  BY DEF ShownRight, Reached!Downstream, Reached!Uses
<1>8. impacts = <<>>
  BY <1>1 DEF AllShown
<1>9. AllShown'
  BY <1>1, <1>8 DEF AllShown
<1> QED
  BY <1>6, <1>9

(* What leaves a store alone leaves what is told of it.                     *)
LEMMA StoreStays ==
  ASSUME UNCHANGED <<formulas, graph, findings>>
  PROVE  /\ StoreTypes' = StoreTypes
         /\ \A n : Reached!Downstream(n)' = Reached!Downstream(n)
         /\ \A S : FromAll(S)' = FromAll(S)
         /\ \A R : Reached!Naming(R)' = Reached!Naming(R)
         /\ \A n : Reached!Signature(n)' = Reached!Signature(n)
         /\ \A sig : Seeds(sig)' = Seeds(sig)
         /\ \A e : EntryRight(e)' = EntryRight(e)
         /\ \A x, n : NoteRight(x, n)' = NoteRight(x, n)
         /\ \A i, f : ShownRight(i, f)' = ShownRight(i, f)
         /\ \A w, S : Walking(w, S)' = Walking(w, S)
<1>1. StoreTypes' = StoreTypes
  BY DEF StoreTypes
<1>2. \A n : Reached!Downstream(n)' = Reached!Downstream(n)
  BY DEF Reached!Downstream, Reached!Uses
<1>3. \A n : From(n)' = From(n)
  BY <1>2 DEF From
<1>4. \A S : FromAll(S)' = FromAll(S)
  BY <1>3 DEF FromAll
<1>5. /\ \A R : Reached!Naming(R)' = Reached!Naming(R)
      /\ \A n : Reached!Signature(n)' = Reached!Signature(n)
      /\ \A m : ThenOf(m)' = ThenOf(m)
  BY DEF Reached!Naming, Reached!Signature, ThenOf, Reached!Uses
<1>6. \A sig : Seeds(sig)' = Seeds(sig)
  BY <1>5 DEF Seeds
<1>7. \A e : EntryRight(e)' = EntryRight(e)
  BY <1>4, <1>5, <1>6 DEF EntryRight
<1>8. /\ \A x, n : NoteRight(x, n)' = NoteRight(x, n)
      /\ \A i, f : ShownRight(i, f)' = ShownRight(i, f)
  BY <1>2 DEF NoteRight, ShownRight
<1>9. \A w, S : Walking(w, S)' = Walking(w, S)
  BY <1>4, <1>5 DEF Walking
<1> QED
  BY <1>1, <1>2, <1>4, <1>5, <1>6, <1>7, <1>8, <1>9

(* What is kept of the parts of a cell without a formula is right.          *)
LEMMA KeptRight ==
  ASSUME SharedRight, NEW n \in 1..Width, n \notin DOMAIN formulas, NEW parts,
         parts.all \cup parts.delta = FromAll(Seeds(Reached!Signature(n))),
         parts.all \cap parts.delta = {}
  PROVE  \E S : Reached!Kept(n, parts) \in Seq(S) /\ \A e \in S : EntryRight(e)
<1> DEFINE e == [signature |-> Reached!Signature(n), parts |-> parts]
           rest == IF Reached!HitAt(n) = {} THEN shared
                   ELSE SubSeq(shared, 1, Reached!Hit(n) - 1) \o SubSeq(shared, Reached!Hit(n) + 1, Len(shared))
           all == Append(rest, e)
<1>1. PICK S : shared \in Seq(S) /\ \A x \in S : EntryRight(x)
  BY DEF SharedRight
<1>2. EntryRight(e)
  <2>1. e.signature = Reached!Signature(n) /\ e.parts = parts
    OBVIOUS
  <2> HIDE DEF e
  <2> QED
    BY <2>1 DEF EntryRight
<1> HIDE DEF e
<1>3. rest \in Seq(S)
  <2>1. CASE Reached!HitAt(n) = {}
    BY <1>1, <2>1
  <2>2. CASE Reached!HitAt(n) # {}
    <3>1. Reached!Hit(n) \in Reached!HitAt(n)
      BY <2>2 DEF Reached!Hit
    <3>2. Reached!Hit(n) \in 1..Len(shared)
      BY <1>1, <3>1 DEF Reached!HitAt
    <3> DEFINE h == Reached!Hit(n)
    <3>3. rest = SubSeq(shared, 1, h - 1) \o SubSeq(shared, h + 1, Len(shared))
      BY <2>2
    <3> HIDE DEF h, rest
    <3>4. h \in 1..Len(shared)
      BY <3>2 DEF h
    <3>5. SubSeq(shared, 1, h - 1) \in Seq(S)
      BY <1>1, <3>4
    <3>6. SubSeq(shared, h + 1, Len(shared)) \in Seq(S)
      BY <1>1, <3>4
    <3> QED
      BY <3>3, <3>5, <3>6
  <2> QED
    BY <2>1, <2>2
<1> HIDE DEF rest
<1>4. all \in Seq(S \cup {e}) /\ Len(all) > 0
  BY <1>3
<1>5. Tail(all) \in Seq(S \cup {e})
  BY <1>4
<1>6. Reached!Kept(n, parts) = IF Len(all) > MaxShared THEN Tail(all) ELSE all
  BY DEF Reached!Kept, rest, e
<1> HIDE DEF all
<1>7. Reached!Kept(n, parts) \in Seq(S \cup {e})
  BY <1>4, <1>5, <1>6
<1>8. \A x \in S \cup {e} : EntryRight(x)
  BY <1>1, <1>2
<1> QED
  BY <1>7, <1>8

(* What cells lead to grows with them.                                      *)
LEMMA FromMore ==
  ASSUME NEW S, NEW T, S \subseteq T
  PROVE  FromAll(S) \subseteq FromAll(T)
BY DEF FromAll

(* The steps of a walk, of annotate and of finalize keep all that is right. *)
LEMMA KnownKeeps ==
  ASSUME ImpactInv, Reached!Known
  PROVE  ImpactInv'
<1> DEFINE n == Reached!Cell
<1> USE DEF ImpactInv
<1>1. /\ job = None /\ Len(noted) < Len(findings) /\ Reached!IsKnown(n)
      /\ UNCHANGED <<formulas, graph, findings>> /\ UNCHANGED <<closures, regimes, job, impacts>>
  BY DEF Reached!Known, Reached!Annotating, Reached!storeVars
<1>2. n \in 1..Width
  BY <1>1, CellIsOne
<1>3. ClosuresRight' /\ RegimesRight' /\ JobRight' /\ StoreTypes'
  BY <1>1, StoreStays DEF ClosuresRight, RegimesRight, JobRight
<1>4. CASE Reached!Shares(n)
  <2> DEFINE parts == shared[Reached!Hit(n)].parts
  <2>1. shared' = Reached!Kept(n, parts) /\ noted' = Append(noted, parts)
    BY <1>4 DEF Reached!Known
  <2>2. Reached!HitAt(n) # {} /\ n \notin DOMAIN formulas
    BY <1>1, <1>4 DEF Reached!IsKnown, Reached!Shares
  <2>3. Reached!Hit(n) \in Reached!HitAt(n)
    BY <2>2 DEF Reached!Hit
  <2>4. PICK S : shared \in Seq(S) /\ \A x \in S : EntryRight(x)
    BY DEF SharedRight
  <2>5. /\ EntryRight(shared[Reached!Hit(n)])
        /\ shared[Reached!Hit(n)].signature = Reached!Signature(n)
    BY <2>3, <2>4 DEF Reached!HitAt
  <2>6. parts.all \cup parts.delta = FromAll(Seeds(Reached!Signature(n))) /\ parts.all \cap parts.delta = {}
    BY <2>5 DEF EntryRight
  <2> HIDE DEF parts
  <2>7. NoteRight(parts, n)
    <3>1. /\ Seeds(Reached!Signature(n)) \subseteq DOMAIN formulas
          /\ Seeds(Reached!Signature(n)) \in SUBSET (1..Width)
          /\ Reached!Downstream(n) = FromAll(Seeds(Reached!Signature(n))) \ {n}
      BY <1>2, DownstreamBySeeds
    <3> DEFINE T == Seeds(Reached!Signature(n))
    <3> HIDE DEF T
    <3>2. FromAll(T) \subseteq T \cup DOMAIN formulas
      BY <3>1, FromAllIsLeast DEF T
    <3> QED
      BY <2>2, <2>6, <3>1, <3>2 DEF NoteRight, T
  <2>8. NotedRight' /\ AllShown'
    BY <1>1, <2>1, <2>7, NotesGrow
  <2>9. \E U : Reached!Kept(n, parts) \in Seq(U) /\ \A e \in U : EntryRight(e)
    BY <1>2, <2>2, <2>6, KeptRight
  <2>10. SharedRight'
    BY <1>1, <2>1, <2>9, StoreStays DEF SharedRight
  <2> QED
    BY <1>3, <2>8, <2>10
<1>5. CASE ~Reached!Shares(n)
  <2> DEFINE note == [regime |-> None, all |-> closures[n], delta |-> {}]
  <2>1. noted' = Append(noted, note) /\ shared' = shared
    BY <1>5 DEF Reached!Known
  <2>2. closures[n] = Reached!Downstream(n)
    BY <1>1, <1>5 DEF Reached!IsKnown, ClosuresRight
  <2>3. NoteRight(note, n)
    BY <2>2 DEF NoteRight
  <2> HIDE DEF note
  <2>4. NotedRight' /\ AllShown'
    BY <1>1, <2>1, <2>3, NotesGrow
  <2>5. SharedRight'
    BY <1>1, <2>1, StoreStays DEF SharedRight
  <2> QED
    BY <1>3, <2>4, <2>5
<1> QED
  BY <1>4, <1>5

(* The walk under way is right if it is right of the cell.                  *)
LEMMA JobAgrees ==
  ASSUME UNCHANGED <<formulas, graph, findings>>, UNCHANGED <<regimes, noted>>,
         Len(noted) < Len(findings), JobAt(job', Reached!Cell)
  PROVE  JobRight'
<1>1. Reached!Cell' = Reached!Cell
  BY DEF Reached!Cell
<1>2. /\ \A w, S : Walking(w, S)' = Walking(w, S)
      /\ \A R : Reached!Naming(R)' = Reached!Naming(R)
      /\ \A m : Reached!Signature(m)' = Reached!Signature(m)
      /\ \A sig : Seeds(sig)' = Seeds(sig)
  BY StoreStays
<1> QED
  BY <1>1, <1>2 DEF JobRight, JobAt

(* To begin with cells of one signature keeps ImpactInv.                    *)
LEMMA BeginRegimeKeeps ==
  ASSUME ImpactInv, Reached!BeginRegime
  PROVE  ImpactInv'
<1> USE DEF ImpactInv
<1> DEFINE n == Reached!Cell
           seeds == Reached!Naming(graph.rects[n])
<1>1. /\ job = None /\ Len(noted) < Len(findings)
      /\ job' = [stage |-> "regime", walk |-> Reached!Walk(seeds, seeds)]
      /\ UNCHANGED <<formulas, graph, findings>> /\ UNCHANGED <<closures, shared, regimes, noted, impacts>>
  BY DEF Reached!BeginRegime, Reached!Annotating, Reached!storeVars
<1>2. n \in 1..Width /\ n' = n
  BY <1>1, CellIsOne DEF Reached!Cell
<1>3. StoreTypes' /\ ClosuresRight' /\ SharedRight' /\ RegimesRight' /\ NotedRight' /\ AllShown'
  BY <1>1, StoreStays DEF ClosuresRight, SharedRight, RegimesRight, NotedRight, AllShown
<1>4. seeds \in SUBSET (1..Width)
  <2>1. seeds \subseteq ThenOf(n)
    BY <1>2, GraphTells
  <2>2. ThenOf(n) \subseteq DOMAIN formulas /\ DOMAIN formulas \subseteq 1..Width
    BY ImpactConstants DEF ThenOf, StoreTypes
  <2> QED
    BY <2>1, <2>2
<1>5. seeds' = seeds
  BY <1>1, <1>2, StoreStays
<1> HIDE DEF seeds, n
<1>6. Walking(Reached!Walk(seeds, seeds), seeds)
  <2>1. Reached!Walk(seeds, seeds) = [found |-> seeds, pending |-> seeds, absorbed |-> {}]
    BY DEF Reached!Walk
  <2>2. seeds \subseteq FromAll(seeds)
    BY <1>4, FromAllIsLeast
  <2>3. Reached!Naming({}) = {}
    BY DEF Reached!Naming
  <2> QED
    BY <2>1, <2>2, <2>3 DEF Walking
<1>7. JobAt(job', n)
  <2>1. job'.walk = Reached!Walk(seeds, seeds) /\ job'.stage = "regime"
        /\ job' = [stage |-> job'.stage, walk |-> job'.walk]
    BY <1>1
  <2> QED
    BY <1>6, <2>1 DEF JobAt, seeds
<1>8. JobRight'
  BY <1>1, <1>7, JobAgrees DEF n
<1> QED
  BY <1>3, <1>8

(* To expand the next cell of a walk keeps it.                              *)
LEMMA ExpandKeeps ==
  ASSUME ImpactInv, Reached!Expand
  PROVE  ImpactInv'
<1> USE DEF ImpactInv
<1> DEFINE n == Reached!Cell
<1>1. /\ job # None
      /\ UNCHANGED <<formulas, graph, findings>> /\ UNCHANGED <<closures, shared, regimes, noted, impacts>>
  BY DEF Reached!Expand, Reached!storeVars
<1>2. PICK m \in job.walk.pending : job' = [job EXCEPT !.walk = Reached!Expanded(@, m)]
  BY DEF Reached!Expand
<1>3. Len(noted) < Len(findings) /\ JobAt(job, n)
  BY <1>1 DEF JobRight
<1>4. job' = [stage |-> job.stage, walk |-> Reached!Expanded(job.walk, m)]
  BY <1>2, <1>3 DEF JobAt
<1>5. n \in 1..Width /\ n' = n
  BY <1>1, <1>3, CellIsOne DEF Reached!Cell
<1>6. StoreTypes' /\ ClosuresRight' /\ SharedRight' /\ RegimesRight' /\ NotedRight' /\ AllShown'
  BY <1>1, StoreStays DEF ClosuresRight, SharedRight, RegimesRight, NotedRight, AllShown
<1>7. /\ Reached!Naming(graph.rects[n]) \in SUBSET (1..Width)
      /\ Seeds(Reached!Signature(n)) \in SUBSET (1..Width)
  BY <1>5, DownstreamBySeeds DEF Seeds, Reached!Signature
<1>8. JobAt(job', n)
  <2>1. job'.stage = job.stage /\ job'.walk = Reached!Expanded(job.walk, m)
        /\ job' = [stage |-> job'.stage, walk |-> job'.walk]
    BY <1>4
  <2>2. \A S \in SUBSET (1..Width) : Walking(job.walk, S) => Walking(job'.walk, S)
    BY <1>2, <2>1, ExpandedWalks
  <2> QED
    BY <1>3, <1>7, <2>1, <2>2 DEF JobAt
<1>9. JobRight'
  BY <1>1, <1>3, <1>8, JobAgrees DEF n
<1> QED
  BY <1>6, <1>9

(* To keep what a signature leads to keeps it.                              *)
LEMMA KeepRegimeKeeps ==
  ASSUME ImpactInv, Reached!KeepRegime
  PROVE  ImpactInv'
<1> USE DEF ImpactInv
<1> DEFINE n == Reached!Cell
           R == graph.rects[n]
<1>1. /\ job # None /\ job.stage = "regime" /\ job.walk.pending = {}
      /\ job' = None /\ regimes' = Reached!Put(regimes, R, job.walk.found)
      /\ UNCHANGED <<formulas, graph, findings>> /\ UNCHANGED <<closures, shared, noted, impacts>>
  BY DEF Reached!KeepRegime, Reached!storeVars
<1>2. Len(noted) < Len(findings) /\ JobAt(job, n)
  BY <1>1 DEF JobRight
<1>3. n \in 1..Width
  BY <1>2, CellIsOne
<1>4. StoreTypes' /\ ClosuresRight' /\ SharedRight' /\ NotedRight' /\ AllShown' /\ JobRight'
  BY <1>1, StoreStays DEF ClosuresRight, SharedRight, NotedRight, AllShown, JobRight
<1>5. Walking(job.walk, Reached!Naming(R))
  BY <1>1, <1>2 DEF JobAt
<1>6. Reached!Naming(R) \in SUBSET (1..Width)
  BY <1>3, DownstreamBySeeds DEF Seeds, Reached!Signature
<1>7. job.walk.found = FromAll(Reached!Naming(R))
  BY <1>1, <1>5, <1>6, WalkEnds
<1> HIDE DEF R
<1>8. \A Q \in DOMAIN regimes' : regimes'[Q] = FromAll(Reached!Naming(Q))
  BY <1>1, <1>7 DEF RegimesRight, Reached!Put
<1>9. RegimesRight'
  BY <1>1, <1>8, StoreStays DEF RegimesRight
<1> QED
  BY <1>4, <1>9

(* To begin with a cell of its own keeps it.                                *)
LEMMA BeginDeltaKeeps ==
  ASSUME ImpactInv, Reached!BeginDelta
  PROVE  ImpactInv'
<1> USE DEF ImpactInv
<1> DEFINE n == Reached!Cell
           R == graph.rects[n]
           seeds == Seeds(Reached!Signature(n))
           own == graph.direct[n] \ regimes[R]
<1>1. /\ job = None /\ Len(noted) < Len(findings) /\ R \in DOMAIN regimes
      /\ job' = [stage |-> "delta", walk |-> Reached!Walk(regimes[R] \cup own, own)]
      /\ UNCHANGED <<formulas, graph, findings>> /\ UNCHANGED <<closures, shared, regimes, noted, impacts>>
  BY DEF Reached!BeginDelta, Reached!Annotating, Reached!storeVars
<1>2. n \in 1..Width
  BY <1>1, CellIsOne
<1>3. StoreTypes' /\ ClosuresRight' /\ SharedRight' /\ RegimesRight' /\ NotedRight' /\ AllShown'
  BY <1>1, StoreStays DEF ClosuresRight, SharedRight, RegimesRight, NotedRight, AllShown
<1>4. /\ seeds = graph.direct[n] \cup Reached!Naming(R)
      /\ seeds \in SUBSET (1..Width)
  BY <1>2, DownstreamBySeeds DEF Seeds, Reached!Signature
<1>5. regimes[R] = FromAll(Reached!Naming(R))
  BY <1>1 DEF RegimesRight
<1> DEFINE named == Reached!Naming(R)
           direct == graph.direct[n]
           regime == regimes[R]
<1>6. job' = [stage |-> "delta", walk |-> [found |-> regime \cup own, pending |-> own, absorbed |-> {}]]
  BY <1>1 DEF Reached!Walk
<1>7. Reached!Naming({}) = {}
  BY DEF Reached!Naming
<1>8. own = direct \ regime /\ seeds = direct \cup named /\ regime = FromAll(named)
  BY <1>4, <1>5
<1>9. R \in DOMAIN regimes
  BY <1>1
<1> HIDE DEF seeds, own, named, direct, regime
<1>10. /\ named \subseteq regime /\ \A m \in regime : ThenOf(m) \subseteq regime
       /\ regime \subseteq FromAll(seeds) /\ seeds \subseteq FromAll(seeds)
  <2>1. named \in SUBSET (1..Width)
    BY <1>4, <1>8
  <2> QED
    BY <1>4, <1>8, <2>1, FromAllIsLeast, FromMore
<1>11. Walking([found |-> regime \cup own, pending |-> own, absorbed |-> {}], seeds)
  BY <1>7, <1>8, <1>10 DEF Walking
<1>12. JobAt(job', n)
  <2>1. /\ job'.walk = [found |-> regime \cup own, pending |-> own, absorbed |-> {}]
        /\ job'.stage = "delta" /\ job' = [stage |-> job'.stage, walk |-> job'.walk]
    BY <1>6
  <2> QED
    BY <1>9, <1>11, <2>1 DEF JobAt, seeds
<1>13. JobRight'
  BY <1>1, <1>12, JobAgrees DEF n
<1> QED
  BY <1>3, <1>13

(* To keep what a cell leads to keeps it.                                   *)
LEMMA KeepClosureKeeps ==
  ASSUME ImpactInv, Reached!KeepClosure
  PROVE  ImpactInv'
<1> USE DEF ImpactInv
<1> DEFINE n == Reached!Cell
           regime == regimes[graph.rects[n]]
           parts == [regime |-> graph.rects[n], all |-> regime, delta |-> job.walk.found \ regime]
           others == job.walk.found \ {n}
           note == [regime |-> None, all |-> others, delta |-> {}]
           seeds == Seeds(Reached!Signature(n))
<1>1. /\ job # None /\ job.stage = "delta" /\ job.walk.pending = {} /\ job' = None
      /\ UNCHANGED <<formulas, graph, findings>> /\ UNCHANGED <<regimes, impacts>>
  BY DEF Reached!KeepClosure, Reached!storeVars
<1>2. IF Reached!Shares(n)
      THEN shared' = Reached!Kept(n, parts) /\ noted' = Append(noted, parts) /\ closures' = closures
      ELSE /\ closures' = Reached!Put(closures, n, others) /\ noted' = Append(noted, note)
           /\ shared' = shared
  BY DEF Reached!KeepClosure
<1>3. Len(noted) < Len(findings) /\ JobAt(job, n)
  BY <1>1 DEF JobRight
<1>4. n \in 1..Width
  BY <1>3, CellIsOne
<1>5. StoreTypes' /\ RegimesRight' /\ JobRight'
  BY <1>1, StoreStays DEF RegimesRight, JobRight
<1>6. Walking(job.walk, seeds) /\ graph.rects[n] \in DOMAIN regimes
  BY <1>1, <1>3 DEF JobAt
<1>7. /\ seeds \in SUBSET (1..Width) /\ seeds \subseteq DOMAIN formulas
      /\ Reached!Downstream(n) = FromAll(seeds) \ {n}
  BY <1>4, DownstreamBySeeds
<1>8. job.walk.found = FromAll(seeds)
  BY <1>1, <1>6, <1>7, WalkEnds
<1>9. regime \subseteq FromAll(seeds)
  <2>1. Reached!Naming(graph.rects[n]) \subseteq seeds
    BY DEF Seeds, Reached!Signature
  <2> HIDE DEF seeds
  <2> QED
    BY <1>6, <2>1, FromMore DEF RegimesRight
<1>10. CASE Reached!Shares(n)
  <2>1. shared' = Reached!Kept(n, parts) /\ noted' = Append(noted, parts) /\ closures' = closures
    BY <1>2, <1>10
  <2>2. parts.all = regime /\ parts.delta = FromAll(seeds) \ regime
    BY <1>8
  <2>3. n \notin DOMAIN formulas
    BY <1>10 DEF Reached!Shares
  <2> HIDE DEF parts, regime
  <2>4. parts.all \cup parts.delta = FromAll(seeds) /\ parts.all \cap parts.delta = {}
    BY <1>9, <2>2
  <2>5. NoteRight(parts, n)
    <3> HIDE DEF seeds
    <3>1. FromAll(seeds) \subseteq seeds \cup DOMAIN formulas
      BY <1>7, FromAllIsLeast
    <3> QED
      BY <1>7, <2>3, <2>4, <3>1 DEF NoteRight
  <2>6. NotedRight' /\ AllShown'
    BY <1>1, <1>3, <2>1, <2>5, NotesGrow
  <2>7. \E U : Reached!Kept(n, parts) \in Seq(U) /\ \A e \in U : EntryRight(e)
    BY <1>4, <2>3, <2>4, KeptRight
  <2>8. SharedRight'
    BY <1>1, <2>1, <2>7, StoreStays DEF SharedRight
  <2>9. ClosuresRight'
    BY <1>1, <2>1, StoreStays DEF ClosuresRight
  <2> QED
    BY <1>5, <2>6, <2>8, <2>9
<1>11. CASE ~Reached!Shares(n)
  <2>1. closures' = Reached!Put(closures, n, others) /\ noted' = Append(noted, note) /\ shared' = shared
    BY <1>2, <1>11
  <2>2. others = Reached!Downstream(n)
    BY <1>7, <1>8
  <2>3. note.all = others /\ note.delta = {}
    OBVIOUS
  <2> HIDE DEF note, others
  <2>4. NoteRight(note, n)
    BY <2>2, <2>3 DEF NoteRight
  <2>5. NotedRight' /\ AllShown'
    BY <1>1, <1>3, <2>1, <2>4, NotesGrow
  <2>6. SharedRight'
    BY <1>1, <2>1, StoreStays DEF SharedRight
  <2>7. \A c \in DOMAIN closures' : c \in 1..Width /\ closures'[c] = Reached!Downstream(c)
    BY <1>4, <2>1, <2>2 DEF ClosuresRight, Reached!Put
  <2>8. ClosuresRight'
    BY <1>1, <2>7, StoreStays DEF ClosuresRight
  <2> QED
    BY <1>5, <2>5, <2>6, <2>8
<1> QED
  BY <1>10, <1>11

(* The smallest are the first by rank.                                      *)
LEMMA SmallestAreFirst ==
  ASSUME NEW S, NEW m
  PROVE  Reached!Smallest(S, m) = FirstOf(S, m) /\ Reached!Cardinality(S) = Cardinality(S)
<1>1. \A X : Reached!Cardinality(X) = Cardinality(X)
  BY DEF Reached!Cardinality, Cardinality
<1> QED
  BY <1>1 DEF Reached!Smallest, FirstOf, RankOf

(* What is shown of names among which the first of all are, and of the      *)
(* right total, is the beginning of all.                                    *)
LEMMA ShownIsFirst ==
  ASSUME NEW W, IsFiniteSet(W), \A x \in W : x \in Int, MaxImpacts \in Nat,
         NEW names \in SUBSET W, FirstOf(W, MaxImpacts) \subseteq names
  PROVE  LET shown == Reached!Shown(names, Cardinality(W))
         IN  /\ shown.first = Reached!Smallest(W, MaxImpacts)
             /\ shown.more = Reached!Cardinality(W) - Reached!Cardinality(shown.first)
<1> DEFINE shown == Reached!Shown(names, Cardinality(W))
<1>1. /\ shown.first = Reached!Smallest(names, MaxImpacts)
      /\ shown.more = IF Cardinality(W) > MaxImpacts THEN Cardinality(W) - MaxImpacts ELSE 0
  BY DEF Reached!Shown
<1> HIDE DEF shown
<1>2. FirstOf(names, MaxImpacts) = FirstOf(W, MaxImpacts)
  BY FirstOfPart
<1>3. shown.first = FirstOf(W, MaxImpacts)
  BY <1>1, <1>2, SmallestAreFirst
<1>4. /\ Cardinality(W) \in Nat
      /\ Cardinality(FirstOf(W, MaxImpacts)) = IF Cardinality(W) <= MaxImpacts THEN Cardinality(W) ELSE MaxImpacts
  BY FirstCount, FS_CardinalityType
<1>5. shown.more = Cardinality(W) - Cardinality(shown.first)
  BY <1>1, <1>3, <1>4
<1>6. /\ Reached!Cardinality(W) = Cardinality(W)
      /\ Reached!Cardinality(shown.first) = Cardinality(shown.first)
      /\ Reached!Smallest(W, MaxImpacts) = FirstOf(W, MaxImpacts)
  BY SmallestAreFirst
<1> QED
  BY <1>3, <1>5, <1>6 DEF shown

(* Parts that do not meet, and what else there is outside of them, are      *)
(* counted one by one.                                                      *)
LEMMA CountedApart ==
  ASSUME NEW A, NEW B, NEW X, IsFiniteSet(A), IsFiniteSet(B), IsFiniteSet(X), A \cap B = {}
  PROVE  /\ IsFiniteSet((A \cup B) \cup X)
         /\ Cardinality((A \cup B) \cup X) = Cardinality(A) + Cardinality(B) + Cardinality(X \ (A \cup B))
<1> DEFINE D == A \cup B
           Y == X \ D
<1>1. Cardinality(A \cap B) = 0
  BY FS_EmptySet
<1>2. IsFiniteSet(D) /\ Cardinality(D) = Cardinality(A) + Cardinality(B) - Cardinality(A \cap B)
  BY FS_Union
<1>3. IsFiniteSet(Y)
  BY FS_Difference
<1>4. D \cap Y = {} /\ D \cup Y = D \cup X
  OBVIOUS
<1>5. /\ Cardinality(A) \in Nat /\ Cardinality(B) \in Nat /\ Cardinality(Y) \in Nat
  BY <1>3, FS_CardinalityType
<1> HIDE DEF D, Y
<1>6. IsFiniteSet(D \cup Y) /\ Cardinality(D \cup Y) = Cardinality(D) + Cardinality(Y) - Cardinality(D \cap Y)
  BY <1>2, <1>3, FS_Union
<1>7. Cardinality(D \cap Y) = 0
  BY <1>4, FS_EmptySet
<1>8. Cardinality(D) = Cardinality(A) + Cardinality(B)
  BY <1>1, <1>2, <1>5
<1>9. Cardinality(D \cup Y) = Cardinality(A) + Cardinality(B) + Cardinality(Y)
  BY <1>5, <1>6, <1>7, <1>8
<1>10. Cardinality(D \cup X) = Cardinality(A) + Cardinality(B) + Cardinality(Y) /\ IsFiniteSet(D \cup X)
  BY <1>4, <1>6, <1>9
<1> QED
  BY <1>10 DEF D, Y

(* To note the impacts of the next finding keeps it.                        *)
LEMMA FinalizeKeeps ==
  ASSUME ImpactInv, Reached!Finalize
  PROVE  ImpactInv'
<1> USE DEF ImpactInv
<1> DEFINE k == Len(impacts) + 1
           note == noted[k]
           f == findings[k]
           down == Reached!Downstream(f.cell)
           W == down \cup f.extras
           total == Reached!Cardinality(note.all) + Reached!Cardinality(note.delta)
                      + Reached!Cardinality(Reached!Outside(f.extras, note))
           names == IF note.regime = None \/ total <= MaxImpacts THEN note.all
                    ELSE Reached!Smallest(note.all, MaxImpacts + Reached!Cardinality(f.extras))
           shown == Reached!Shown(names \cup note.delta \cup f.extras, total)
<1>1. /\ Len(noted) = Len(findings) /\ Len(impacts) < Len(findings) /\ impacts' = Append(impacts, shown)
      /\ UNCHANGED <<formulas, graph, findings>> /\ UNCHANGED <<closures, shared, regimes, job, noted>>
  BY DEF Reached!Finalize, Reached!storeVars
<1>2. StoreTypes' /\ ClosuresRight' /\ SharedRight' /\ RegimesRight' /\ NotedRight' /\ JobRight'
  BY <1>1, StoreStays DEF ClosuresRight, SharedRight, RegimesRight, NotedRight, JobRight
<1>3. PICK U : impacts \in Seq(U)
  BY DEF AllShown
<1>4. Len(impacts) \in Nat /\ Len(findings) \in Nat /\ DOMAIN findings = 1..Len(findings)
  BY <1>3, ImpactConstants DEF StoreTypes, IsList
<1>5. k \in DOMAIN findings /\ k \in 1..Len(noted)
  BY <1>1, <1>4
<1>6. /\ f.cell \in 1..Width /\ IsFiniteSet(f.extras) /\ \A x \in f.extras : x \in Int
  BY <1>5, ImpactConstants DEF StoreTypes
<1>7. note.all \cup note.delta = down /\ note.all \cap note.delta = {}
  BY <1>5 DEF NotedRight, NoteRight
<1>8. Width \in Nat /\ MaxImpacts \in Nat /\ down \subseteq 1..Width
  <2>1. down \subseteq DOMAIN formulas
    BY <1>6, DownstreamIsLeast
  <2> QED
    BY <2>1, ImpactConstants DEF StoreTypes
<1>9. IsFiniteSet(down) /\ \A x \in down : x \in Int
  BY <1>8, UpTo
<1>10. IsFiniteSet(note.all) /\ IsFiniteSet(note.delta)
  BY <1>7, <1>9, FS_Subset
<1>11. total = Cardinality(note.all) + Cardinality(note.delta) + Cardinality(f.extras \ (note.all \cup note.delta))
  BY SmallestAreFirst DEF Reached!Outside
<1> HIDE DEF k, down, note, f, total
<1>12. IsFiniteSet(W) /\ total = Cardinality(W) /\ \A x \in W : x \in Int
  BY <1>6, <1>7, <1>9, <1>10, <1>11, CountedApart
<1> DEFINE all == names \cup note.delta \cup f.extras
<1>13. names \subseteq note.all /\ \A x \in FirstOf(W, MaxImpacts) : x \in note.all => x \in names
  <2>1. CASE note.regime = None \/ total <= MaxImpacts
    BY <2>1
  <2>2. CASE ~(note.regime = None \/ total <= MaxImpacts)
    <3> DEFINE m == MaxImpacts + Reached!Cardinality(f.extras)
    <3>1. m \in Nat /\ MaxImpacts <= m
      <4>1. Cardinality(f.extras) \in Nat
        BY <1>6, FS_CardinalityType
      <4> QED
        BY <1>8, <4>1, SmallestAreFirst
    <3>2. names = Reached!Smallest(note.all, m)
      BY <2>2
    <3>3. names = FirstOf(note.all, m)
      BY <3>2, SmallestAreFirst
    <3> HIDE DEF m, names
    <3>4. ASSUME NEW x \in FirstOf(W, MaxImpacts), x \in note.all PROVE x \in names
      <4>1. note.all \in SUBSET W
        BY <1>7
      <4>2. RankOf(W, x) < MaxImpacts
        BY DEF FirstOf
      <4> HIDE DEF W
      <4>3. RankOf(note.all, x) \in Nat /\ RankOf(W, x) \in Nat /\ RankOf(note.all, x) <= RankOf(W, x)
        BY <1>12, <4>1, RankOfPart
      <4>4. RankOf(note.all, x) < m
        BY <1>8, <3>1, <4>2, <4>3
      <4> QED
        BY <3>3, <3>4, <4>4 DEF FirstOf
    <3>5. names \subseteq note.all
      BY <3>3 DEF FirstOf
    <3> QED
      BY <3>4, <3>5
  <2> QED
    BY <2>1, <2>2
<1>14. all \in SUBSET W /\ FirstOf(W, MaxImpacts) \subseteq all
  <2> HIDE DEF names
  <2>1. all \in SUBSET W
    BY <1>7, <1>13
  <2>2. FirstOf(W, MaxImpacts) \subseteq W
    BY DEF FirstOf
  <2>3. FirstOf(W, MaxImpacts) \subseteq all
    BY <1>7, <1>13, <2>2
  <2> QED
    BY <2>1, <2>3
<1>15. shown = Reached!Shown(all, Cardinality(W))
  BY <1>12
<1> HIDE DEF all, shown, W
<1>16. ShownRight(shown, f)
  <2>1. /\ shown.first = Reached!Smallest(W, MaxImpacts)
        /\ shown.more = Reached!Cardinality(W) - Reached!Cardinality(shown.first)
    BY <1>8, <1>12, <1>14, <1>15, ShownIsFirst
  <2> QED
    BY <2>1 DEF ShownRight, W, down
<1>17. /\ impacts' \in Seq(U \cup {shown}) /\ Len(impacts') = k /\ impacts'[k] = shown
       /\ \A i \in 1..Len(impacts) : impacts'[i] = impacts[i]
  BY <1>1, <1>3 DEF k
<1>18. \A i \in 1..Len(impacts') : ShownRight(impacts'[i], findings[i])
  <2>1. ASSUME NEW i \in 1..Len(impacts') PROVE ShownRight(impacts'[i], findings[i])
    <3>1. CASE i = k
      BY <1>16, <1>17, <3>1 DEF f
    <3>2. CASE i # k
      <4>1. i \in 1..Len(impacts)
        BY <1>4, <1>17, <3>2 DEF k
      <4> QED
        BY <1>17, <4>1 DEF AllShown
    <3> QED
      BY <3>1, <3>2
  <2> QED
    BY <2>1
<1>19. Len(impacts') <= Len(findings)
  BY <1>1, <1>4, <1>17 DEF k
<1>20. AllShown'
  BY <1>1, <1>17, <1>18, <1>19, StoreStays DEF AllShown
<1> QED
  BY <1>2, <1>20

(* Whatever has been asked before, each step keeps what is told right.      *)
LEMMA ImpactsSteps ==
  ASSUME ImpactInv, Reached!ImpactsNext \/ UNCHANGED impactVars
  PROVE  ImpactInv'
<1>1. CASE Reached!ImpactsNext
  BY <1>1, KnownKeeps, BeginRegimeKeeps, ExpandKeeps, KeepRegimeKeeps, BeginDeltaKeeps,
     KeepClosureKeeps, FinalizeKeeps DEF Reached!ImpactsNext
<1>2. CASE UNCHANGED impactVars
  <2>1. UNCHANGED <<formulas, graph, findings>> /\ UNCHANGED <<closures, shared, regimes, job, noted, impacts>>
    BY <1>2 DEF impactVars, Reached!storeVars
  <2>2. StoreTypes' /\ ClosuresRight' /\ SharedRight' /\ RegimesRight'
    BY <2>1, StoreStays DEF ImpactInv, ClosuresRight, SharedRight, RegimesRight
  <2>3. NotedRight' /\ AllShown'
    BY <2>1, StoreStays DEF ImpactInv, NotedRight, AllShown
  <2>4. JobRight'
    BY <2>1, JobAgrees DEF ImpactInv, JobRight
  <2> QED
    BY <2>2, <2>3, <2>4 DEF ImpactInv
<1> QED
  BY <1>1, <1>2

(* All that is shown is exact.                                              *)
LEMMA ImpactsAreExact ==
  ASSUME ImpactInv
  PROVE  Reached!ImpactsExact
<1> SUFFICES ASSUME Len(impacts) = Len(findings), NEW k \in DOMAIN findings
             PROVE  LET down == Reached!Downstream(findings[k].cell)
                        whole == down \cup findings[k].extras
                    IN  /\ noted[k].all \cup noted[k].delta = down
                        /\ noted[k].all \cap noted[k].delta = {}
                        /\ impacts[k].first = Reached!Smallest(whole, MaxImpacts)
                        /\ impacts[k].more = Reached!Cardinality(whole) - Reached!Cardinality(impacts[k].first)
  BY DEF Reached!ImpactsExact
<1>1. Len(findings) \in Nat /\ k \in 1..Len(findings)
  BY ImpactConstants DEF ImpactInv, StoreTypes, IsList
<1>2. ShownRight(impacts[k], findings[k]) /\ impacts # <<>>
  BY <1>1 DEF ImpactInv, AllShown
<1>3. k \in 1..Len(noted)
  BY <1>1, <1>2 DEF ImpactInv, AllShown
<1>4. NoteRight(noted[k], findings[k].cell)
  BY <1>3 DEF ImpactInv, NotedRight
<1> QED
  BY <1>2, <1>4 DEF ShownRight, NoteRight
-----------------------------------------------------------------------------
(* Circular references (Cycles).                                            *)

(* The edges that the first t references name.                              *)
Named(t) ==
  {p \in Circular!Nodes \X Circular!Nodes :
     \E i \in 1..t : references[i].cell = p[1] /\ p[2] \in Circular!InRange(references[i].range)}

BookTypes == references \in References /\ taken \in 0..Len(references)

EdgesRight ==
  /\ edges \subseteq Named(taken) /\ IsFiniteSet(edges) /\ Cardinality(edges) <= MaxEdges
  /\ missed \in Nat /\ (missed = 0 => edges = Named(taken))

(* The cells that a cache holds are those in the ranges, and it counts them. *)
CacheRight ==
  /\ \E E : cached \in Seq(E) /\ \A e \in E : e.cells = Circular!InRange(e.range)
  /\ held = Circular!Total(cached) /\ Len(cached) <= MaxCached
  /\ cached # <<>> => held <= MaxMembers

(* A book has finitely many cells, and a range has some of them.            *)
LEMMA CellsFinite ==
  ASSUME BookTypes
  PROVE  /\ IsList(references)
         /\ IsFiniteSet(Circular!Nodes) /\ \A n \in Circular!Nodes : n \in Int
         /\ \A r : /\ Circular!InRange(r) \subseteq Circular!Nodes /\ IsFiniteSet(Circular!InRange(r))
                   /\ Cardinality(Circular!InRange(r)) \in Nat
<1>1. IsList(references) /\ \A i \in DOMAIN references : references[i].cell \in Int
  BY CycleConstants DEF BookTypes
<1>2. IsFiniteSet(1..Len(references))
  BY <1>1, UpTo DEF IsList
<1> DEFINE f == [i \in DOMAIN references |-> references[i].cell]
<1>3. IsFiniteSet({f[i] : i \in DOMAIN references})
  <2>1. DOMAIN f = DOMAIN references /\ IsFiniteSet(DOMAIN references)
    BY <1>1, <1>2 DEF IsList
  <2> HIDE DEF f
  <2> QED
    BY <2>1, ImageFinite
<1>4. Circular!Nodes = {f[i] : i \in DOMAIN references}
  BY DEF Circular!Nodes
<1>5. IsFiniteSet(Circular!Nodes) /\ \A n \in Circular!Nodes : n \in Int
  BY <1>1, <1>3, <1>4
<1>6. ASSUME NEW r PROVE /\ Circular!InRange(r) \subseteq Circular!Nodes /\ IsFiniteSet(Circular!InRange(r))
                         /\ Cardinality(Circular!InRange(r)) \in Nat
  <2>1. Circular!InRange(r) \subseteq Circular!Nodes
    BY DEF Circular!InRange
  <2> QED
    BY <1>5, <2>1, FS_Subset, FS_CardinalityType
<1> QED
  BY <1>1, <1>5, <1>6

(* What a cache holds is the sum of what its entries do.                    *)
Sizes(c) == [k \in 1..Len(c) |-> Circular!Cardinality(c[k].cells)]
Counted(c) == \E E : c \in Seq(E) /\ \A e \in E : Circular!Cardinality(e.cells) \in Nat

(* The total of a cache is the sum of its sizes.                            *)
LEMMA TotalIsSum ==
  ASSUME NEW c, Counted(c)
  PROVE  Circular!Total(c) = SumOf(Sizes(c), Len(c)) /\ \A k \in 1..Len(c) : Sizes(c)[k] \in Nat
<1>1. PICK E : c \in Seq(E) /\ \A e \in E : Circular!Cardinality(e.cells) \in Nat
  BY DEF Counted
<1>2. Len(c) \in Nat /\ \A k \in 1..Len(c) : Sizes(c)[k] \in Nat /\ Sizes(c)[k] = Circular!Cardinality(c[k].cells)
  BY <1>1 DEF Sizes
<1> DEFINE IsSum(g) == g = [k \in 0..Len(c) |-> IF k = 0 THEN 0 ELSE g[k - 1] + Circular!Cardinality(c[k].cells)]
           sum == CHOOSE g : IsSum(g)
<1>3. \A g : IsSum(g) <=> Sums(Sizes(c), Len(c), g)
  <2>1. \A k \in 0..Len(c) : k # 0 => Sizes(c)[k] = Circular!Cardinality(c[k].cells)
    BY <1>2
  <2> QED
    BY <2>1 DEF Sums
<1>4. \E g : Sums(Sizes(c), Len(c), g)
  BY <1>2, SumsExist
<1>5. Circular!Total(c) = sum[Len(c)]
  BY DEF Circular!Total
<1> HIDE DEF IsSum
<1>6. IsSum(sum)
  BY <1>3, <1>4
<1> HIDE DEF sum
<1>7. sum[Len(c)] = SumOf(Sizes(c), Len(c))
  BY <1>2, <1>3, <1>6, SumIsSum
<1> QED
  BY <1>2, <1>5, <1>7

(* Parts hold what the whole does.                                          *)
LEMMA TotalSplits ==
  ASSUME NEW a, NEW b, Counted(a), Counted(b)
  PROVE  /\ Counted(a \o b) /\ Circular!Total(a) \in Int /\ Circular!Total(b) \in Int
         /\ Circular!Total(a \o b) = Circular!Total(a) + Circular!Total(b)
<1>1. PICK A : a \in Seq(A) /\ \A e \in A : Circular!Cardinality(e.cells) \in Nat
  BY DEF Counted
<1>2. PICK B : b \in Seq(B) /\ \A e \in B : Circular!Cardinality(e.cells) \in Nat
  BY DEF Counted
<1> DEFINE c == a \o b
<1>3. /\ c \in Seq(A \cup B) /\ Len(c) = Len(a) + Len(b) /\ Len(a) \in Nat /\ Len(b) \in Nat
      /\ \A k \in 1..Len(a) : c[k] = a[k]
      /\ \A k \in 1..Len(b) : c[Len(a) + k] = b[k]
  <2>1. a \in Seq(A \cup B) /\ b \in Seq(A \cup B)
    BY <1>1, <1>2
  <2> QED
    BY <2>1
<1> HIDE DEF c
<1>4. \A e \in A \cup B : Circular!Cardinality(e.cells) \in Nat
  BY <1>1, <1>2
<1>5. Counted(c)
  BY <1>3, <1>4 DEF Counted
<1>6. /\ Circular!Total(a) = SumOf(Sizes(a), Len(a)) /\ Circular!Total(b) = SumOf(Sizes(b), Len(b))
      /\ Circular!Total(c) = SumOf(Sizes(c), Len(c))
      /\ \A k \in 1..Len(a) : Sizes(a)[k] \in Int
      /\ \A k \in 1..Len(b) : Sizes(b)[k] \in Int
  BY <1>5, TotalIsSum
<1>7. /\ \A k \in 1..Len(a) : Sizes(c)[k] = Sizes(a)[k]
      /\ \A k \in 1..Len(b) : Sizes(c)[Len(a) + k] = Sizes(b)[k]
  <2>1. ASSUME NEW k \in 1..Len(a) PROVE Sizes(c)[k] = Sizes(a)[k]
    <3>1. k \in 1..Len(c)
      BY <1>3
    <3> QED
      BY <1>3, <3>1 DEF Sizes
  <2>2. ASSUME NEW k \in 1..Len(b) PROVE Sizes(c)[Len(a) + k] = Sizes(b)[k]
    <3>1. Len(a) + k \in 1..Len(c)
      BY <1>3
    <3> QED
      BY <1>3, <3>1 DEF Sizes
  <2> QED
    BY <2>1, <2>2
<1>8. /\ SumOf(Sizes(c), Len(a) + Len(b)) = SumOf(Sizes(a), Len(a)) + SumOf(Sizes(b), Len(b))
      /\ SumOf(Sizes(a), Len(a)) \in Int /\ SumOf(Sizes(b), Len(b)) \in Int
  <2> DEFINE w == Sizes(a)
             v == Sizes(b)
             u == Sizes(c)
             m == Len(a)
             n == Len(b)
  <2>1. /\ m \in Nat /\ n \in Nat /\ \A k \in 1..m : w[k] \in Int /\ u[k] = w[k]
        /\ \A k \in 1..n : v[k] \in Int /\ u[m + k] = v[k]
    BY <1>3, <1>6, <1>7
  <2> HIDE DEF w, v, u, m, n
  <2>2. SumOf(w, m) \in Int /\ SumOf(u, m + n) = SumOf(w, m) + SumOf(v, n) /\ SumOf(v, n) \in Int
    BY <2>1, SumSplits
  <2> QED
    BY <2>2 DEF w, v, u, m, n
<1> QED
  BY <1>3, <1>5, <1>6, <1>8 DEF c

(* The total of one entry is its size, and of none is 0.                    *)
LEMMA TotalOfOne ==
  ASSUME NEW e, Circular!Cardinality(e.cells) \in Nat
  PROVE  Counted(<<e>>) /\ Circular!Total(<<e>>) = Circular!Cardinality(e.cells)
         /\ Counted(<<>>) /\ Circular!Total(<<>>) = 0
<1>1. <<e>> \in Seq({e}) /\ Len(<<e>>) = 1 /\ <<e>>[1] = e /\ <<>> \in Seq({e}) /\ Len(<<>>) = 0
  OBVIOUS
<1>2. Counted(<<e>>) /\ Counted(<<>>)
  <2> DEFINE E == {e}
             one == <<e>>
             none == <<>>
  <2>1. one \in Seq(E) /\ none \in Seq(E) /\ \A x \in E : Circular!Cardinality(x.cells) \in Nat
    BY <1>1
  <2> HIDE DEF E, one, none
  <2>2. Counted(one) /\ Counted(none)
    BY <2>1 DEF Counted
  <2> QED
    BY <2>2 DEF one, none
<1>3. Circular!Total(<<e>>) = SumOf(Sizes(<<e>>), 1) /\ Circular!Total(<<>>) = SumOf(Sizes(<<>>), 0)
  BY <1>1, <1>2, TotalIsSum
<1>4. Sizes(<<e>>)[1] = Circular!Cardinality(e.cells)
  BY <1>1 DEF Sizes
<1> DEFINE w == Sizes(<<e>>)
<1> HIDE DEF w
<1>5. SumOf(w, 1) = w[1] /\ SumOf(Sizes(<<>>), 0) = 0
  <2>1. \A k \in 1..(0 + 1) : w[k] \in Int
    BY <1>4 DEF w
  <2>2. SumOf(w, 0 + 1) = SumOf(w, 0) + w[0 + 1] /\ SumOf(w, 0) = 0 /\ SumOf(Sizes(<<>>), 0) = 0
    BY <2>1, SumSteps
  <2> QED
    BY <1>4, <2>2 DEF w
<1> QED
  BY <1>2, <1>3, <1>4, <1>5 DEF w

(* Both sides count alike.                                                  *)
LEMMA SameCount ==
  ASSUME NEW S
  PROVE  Circular!Cardinality(S) = Cardinality(S)
BY DEF Circular!Cardinality, Cardinality

(* What a range is answered with is the cells in it.                        *)
LEMMA CandidatesAreInRange ==
  ASSUME BookTypes, CacheRight, NEW r
  PROVE  Circular!Candidate(r) = Circular!InRange(r)
<1>1. PICK E : cached \in Seq(E) /\ \A e \in E : e.cells = Circular!InRange(e.range)
  BY DEF CacheRight
<1>2. CASE Circular!CachedAt(r) # {}
  <2>1. Circular!Hit(r) \in Circular!CachedAt(r)
    BY <1>2 DEF Circular!Hit
  <2>2. Circular!Hit(r) \in 1..Len(cached) /\ cached[Circular!Hit(r)].range = r
    BY <1>1, <2>1 DEF Circular!CachedAt
  <2>3. cached[Circular!Hit(r)] \in E
    BY <1>1, <2>2
  <2> QED
    BY <1>1, <1>2, <2>2, <2>3 DEF Circular!Candidate
<1>3. CASE Circular!CachedAt(r) = {}
  BY <1>3 DEF Circular!Candidate
<1> QED
  BY <1>2, <1>3

(* The cache keeps to its limits and to what it counts.                     *)
LEMMA RememberKeeps ==
  ASSUME BookTypes, CacheRight, NEW r, Circular!Remember(r, Circular!Candidate(r)), references' = references
  PROVE  CacheRight'
<1> DEFINE new == Circular!InRange(r)
<1>1. PICK E : cached \in Seq(E) /\ \A e \in E : e.cells = Circular!InRange(e.range)
  BY DEF CacheRight
<1>2. Circular!Candidate(r) = new
  BY CandidatesAreInRange
<1>3. \A x : Circular!InRange(x)' = Circular!InRange(x)
  BY DEF Circular!InRange, Circular!Nodes
<1>4. \A e \in E : Circular!Cardinality(e.cells) \in Nat
  BY <1>1, CellsFinite, SameCount
<1>5. \A s \in Seq(E) : Counted(s)
  BY <1>4 DEF Counted
<1>6. /\ held = Circular!Total(cached) /\ Len(cached) <= MaxCached /\ (cached # <<>> => held <= MaxMembers)
      /\ Len(cached) \in Nat /\ MaxCached \in Nat /\ MaxMembers \in Nat
  BY <1>1, CycleConstants DEF CacheRight
<1>7. CASE Circular!CachedAt(r) # {}
  <2> DEFINE h == Circular!Hit(r)
             a == SubSeq(cached, 1, h - 1)
             b == SubSeq(cached, h + 1, Len(cached))
             x == <<cached[h]>>
  <2>1. Circular!Hit(r) \in Circular!CachedAt(r)
    BY <1>7 DEF Circular!Hit
  <2>2. h \in 1..Len(cached)
    BY <1>1, <2>1 DEF Circular!CachedAt
  <2>3. cached' = a \o b \o x /\ held' = held
    BY <1>7 DEF Circular!Remember
  <2> HIDE DEF h
  <2>4. a \in Seq(E) /\ b \in Seq(E) /\ x \in Seq(E)
    BY <1>1, <2>2, CutInThree
  <2>5. cached = (a \o x) \o b
    BY <1>1, <2>2, CutInThree
  <2> HIDE DEF a, b, x
  <2>6. /\ Circular!Total(a \o x) = Circular!Total(a) + Circular!Total(x) /\ Circular!Total(a) \in Int
        /\ Circular!Total(x) \in Int /\ Circular!Total(b) \in Int /\ Counted(a \o x)
        /\ Circular!Total(a \o b) = Circular!Total(a) + Circular!Total(b) /\ Counted(a \o b)
    BY <1>5, <2>4, TotalSplits
  <2>7. /\ Circular!Total((a \o x) \o b) = Circular!Total(a \o x) + Circular!Total(b)
        /\ Circular!Total((a \o b) \o x) = Circular!Total(a \o b) + Circular!Total(x)
    BY <1>5, <2>4, <2>6, TotalSplits
  <2>8. Circular!Total(cached') = Circular!Total(cached)
    BY <2>3, <2>5, <2>6, <2>7
  <2>9. cached' \in Seq(E) /\ Len(cached') = Len(cached) /\ cached # <<>>
    <3>1. cached' \in Seq(E) /\ Len(cached') = Len(cached)
      BY <2>3, <2>4, <2>5
    <3>2. cached # <<>>
      BY <2>2
    <3> QED
      BY <3>1, <3>2
  <2>10. Circular!Total(cached)' = Circular!Total(cached')
    BY DEF Circular!Total
  <2> QED
    BY <1>1, <1>3, <1>6, <2>3, <2>8, <2>9, <2>10 DEF CacheRight
<1>8. CASE Circular!CachedAt(r) = {} /\ (MaxCached = 0 \/ Circular!Cardinality(new) > MaxMembers)
  <2>1. cached' = cached /\ held' = held
    BY <1>2, <1>8 DEF Circular!Remember
  <2>2. Circular!Total(cached)' = Circular!Total(cached)
    BY <2>1
  <2> QED
    BY <1>1, <1>3, <1>6, <2>1, <2>2 DEF CacheRight
<1>9. CASE Circular!CachedAt(r) = {} /\ ~(MaxCached = 0 \/ Circular!Cardinality(new) > MaxMembers)
  <2> DEFINE k == Circular!Evicted(new)
             a == SubSeq(cached, 1, k)
             b == SubSeq(cached, k + 1, Len(cached))
             e == [range |-> r, cells |-> new]
  <2>1. cached' = Append(b, e) /\ held' = held - Circular!Total(a) + Circular!Cardinality(new)
    BY <1>2, <1>9 DEF Circular!Remember
  <2>2. k \in 0..Len(cached) /\ Circular!Room(new, k)
    <3> DEFINE Ks == {j \in 0..Len(cached) : Circular!Room(new, j)}
    <3>1. Len(cached) \in Ks
      <4>1. SubSeq(cached, Len(cached) + 1, Len(cached)) = <<>>
        BY <1>1, <1>6
      <4> QED
        BY <1>6, <4>1 DEF Circular!Room
    <3>2. Ks \subseteq Nat /\ Ks # {}
      BY <1>6, <3>1
    <3>3. k = Circular!Min(Ks)
      BY DEF Circular!Evicted
    <3> HIDE DEF Ks, k
    <3>4. \E j \in Ks : \A i \in Ks : j <= i
      BY <3>2, LeastNatural
    <3>5. k \in Ks
      BY <3>3, <3>4 DEF Circular!Min
    <3> QED
      BY <3>5 DEF Ks
  <2> HIDE DEF k
  <2>3. a \in Seq(E) /\ b \in Seq(E)
    BY <1>1, <2>2, CutInTwo
  <2>4. cached = a \o b
    BY <1>1, <2>2, CutInTwo
  <2>5. b = <<>> \/ (Len(b) < MaxCached /\ Circular!Total(b) + Circular!Cardinality(new) <= MaxMembers)
    BY <2>2 DEF Circular!Room
  <2> HIDE DEF a, b
  <2>6. Circular!Total(cached) = Circular!Total(a) + Circular!Total(b)
        /\ Circular!Total(a) \in Int /\ Circular!Total(b) \in Int
    BY <1>5, <2>3, <2>4, TotalSplits
  <2>7. e.cells = new /\ e.range = r /\ Circular!Cardinality(new) \in Nat
    BY CellsFinite, SameCount
  <2> HIDE DEF e, new
  <2>8. Counted(<<e>>) /\ Circular!Total(<<e>>) = Circular!Cardinality(new) /\ Circular!Total(<<>>) = 0
    BY <2>7, TotalOfOne
  <2>9. Circular!Total(b \o <<e>>) = Circular!Total(b) + Circular!Total(<<e>>)
    BY <1>5, <2>3, <2>8, TotalSplits
  <2>10. cached' = b \o <<e>>
    BY <2>1, <2>3
  <2>11. held' = Circular!Total(cached')
    BY <1>6, <2>1, <2>6, <2>7, <2>8, <2>9, <2>10
  <2>12. cached' \in Seq(E \cup {e}) /\ Len(cached') = Len(b) + 1 /\ Len(b) \in Nat
    BY <2>1, <2>3
  <2>13. Len(cached') <= MaxCached /\ held' <= MaxMembers
    <3>1. CASE b = <<>>
      <4>1. Len(b) = 0 /\ Circular!Total(b) = 0
        BY <2>8, <3>1
      <4>2. Circular!Cardinality(new) <= MaxMembers /\ MaxCached # 0
        BY <1>6, <1>9, <2>7 DEF new
      <4> QED
        BY <1>6, <2>7, <2>8, <2>9, <2>10, <2>11, <2>12, <4>1, <4>2
    <3>2. CASE Len(b) < MaxCached /\ Circular!Total(b) + Circular!Cardinality(new) <= MaxMembers
      BY <1>6, <2>6, <2>7, <2>8, <2>9, <2>10, <2>11, <2>12, <3>2
    <3> QED
      BY <2>5, <3>1, <3>2
  <2>14. \A x \in E \cup {e} : x.cells = Circular!InRange(x.range)
    BY <1>1, <2>7 DEF new
  <2>15. Circular!Total(cached)' = Circular!Total(cached')
    BY DEF Circular!Total
  <2> QED
    BY <1>3, <2>11, <2>12, <2>13, <2>14, <2>15 DEF CacheRight
<1> QED
  BY <1>7, <1>8, <1>9

(* The edges are those of the references taken, but of the missed.          *)
LEMMA AddRangeKeeps ==
  ASSUME BookTypes, CacheRight, EdgesRight, Circular!AddRange
  PROVE  BookTypes' /\ CacheRight' /\ EdgesRight'
<1> DEFINE r == references[taken + 1]
           from == r.cell
           found == Circular!Candidate(r.range)
           new == {<<from, n>> : n \in found} \ edges
<1>1. /\ taken < Len(references) /\ Circular!Remember(r.range, found) /\ taken' = taken + 1
      /\ references' = references
  BY DEF Circular!AddRange
<1>2. IF Circular!Fitting(new) THEN edges' = edges \cup new /\ missed' = missed
      ELSE missed' = missed + 1 /\ edges' = edges
  BY DEF Circular!AddRange
<1>3. IsList(references) /\ taken \in 0..Len(references) /\ Len(references) \in Nat
  BY CellsFinite DEF BookTypes, IsList
<1>4. BookTypes' /\ CacheRight'
  <2>1. CacheRight'
    BY <1>1, RememberKeeps
  <2> QED
    BY <1>1, <1>3, <2>1 DEF BookTypes
<1>5. found = Circular!InRange(r.range) /\ IsFiniteSet(found) /\ found \subseteq Circular!Nodes
  BY CandidatesAreInRange, CellsFinite
<1>6. from \in Circular!Nodes
  <2>1. taken + 1 \in DOMAIN references
    BY <1>1, <1>3 DEF IsList
  <2> QED
    BY <2>1 DEF Circular!Nodes
<1> DEFINE all == {<<from, n>> : n \in found}
<1>7. Named(taken') = Named(taken) \cup all
  <2>1. \A p \in Circular!Nodes \X Circular!Nodes :
          from = p[1] /\ p[2] \in found <=> p \in all
    <3> HIDE DEF from, found
    <3>1. \A p \in Circular!Nodes \X Circular!Nodes : p = <<p[1], p[2]>>
      OBVIOUS
    <3> QED
      BY <3>1
  <2>2. all \subseteq Circular!Nodes \X Circular!Nodes
    BY <1>5, <1>6
  <2>3. 1..(taken + 1) = 1..taken \cup {taken + 1} /\ taken' = taken + 1
    BY <1>1, <1>3
  <2> HIDE DEF all, found, from
  <2>4. ASSUME NEW p \in Circular!Nodes \X Circular!Nodes
        PROVE  p \in Named(taken') <=> p \in Named(taken) \/ p \in all
    <3>1. (\E i \in 1..taken' : references[i].cell = p[1] /\ p[2] \in Circular!InRange(references[i].range))
          <=> \/ \E i \in 1..taken : references[i].cell = p[1] /\ p[2] \in Circular!InRange(references[i].range)
              \/ r.cell = p[1] /\ p[2] \in Circular!InRange(r.range)
      BY <2>3
    <3> QED
      BY <1>5, <2>1, <3>1 DEF Named, from
  <2> QED
    BY <2>2, <2>4 DEF Named
<1>8. IsFiniteSet(all) /\ IsFiniteSet(new)
  <2> DEFINE f == [n \in found |-> <<from, n>>]
  <2>1. DOMAIN f = found /\ all = {f[n] : n \in found}
    OBVIOUS
  <2> HIDE DEF f, found
  <2>2. IsFiniteSet({f[n] : n \in found})
    BY <1>5, <2>1, ImageFinite
  <2>3. IsFiniteSet(all)
    BY <2>1, <2>2
  <2> HIDE DEF all
  <2> QED
    BY <2>3, FS_Difference DEF all
<1>9. new = all \ edges
  OBVIOUS
<1> HIDE DEF new, all, found, from, r
<1>11. Named(taken)' = Named(taken')
  BY <1>1 DEF Named, Circular!Nodes, Circular!InRange
<1>12. IsFiniteSet(edges) /\ Cardinality(edges) <= MaxEdges /\ missed \in Nat /\ edges \subseteq Named(taken)
       /\ (missed = 0 => edges = Named(taken)) /\ Cardinality(edges) \in Nat /\ MaxEdges \in Nat
  BY FS_CardinalityType, CycleConstants DEF EdgesRight
<1>13. CASE Circular!Fitting(new)
  <2>1. edges' = edges \cup all /\ missed' = missed
    BY <1>2, <1>9, <1>13
  <2>2. IsFiniteSet(edges \cup new) /\ Cardinality(edges \cup new) = Cardinality(edges) + Cardinality(new)
    <3>1. edges \cap new = {} /\ Cardinality({}) = 0
      BY <1>9, FS_EmptySet
    <3>2. Cardinality(new) \in Nat
      BY <1>8, FS_CardinalityType
    <3> QED
      BY <1>8, <1>12, <3>1, <3>2, FS_Union
  <2>3. edges \cup new = edges \cup all
    BY <1>9
  <2>4. Cardinality(edges') <= MaxEdges /\ IsFiniteSet(edges')
    BY <1>13, <2>1, <2>2, <2>3, SameCount DEF Circular!Fitting
  <2> QED
    BY <1>4, <1>7, <1>11, <1>12, <2>1, <2>4 DEF EdgesRight
<1>14. CASE ~Circular!Fitting(new)
  <2>1. edges' = edges /\ missed' = missed + 1 /\ missed' # 0 /\ missed' \in Nat
    BY <1>2, <1>12, <1>14
  <2> QED
    BY <1>4, <1>7, <1>11, <1>12, <2>1 DEF EdgesRight
<1> QED
  BY <1>13, <1>14

-----------------------------------------------------------------------------
(* What a cell leads to by the edges, and cells that lead to each other.    *)
Goes(x) == Led(Circular!Nodes, edges, x)
Same(x, y) == SameReach(Circular!Nodes, edges, x, y)

EdgeTypes ==
  /\ edges \in SUBSET (Circular!Nodes \X Circular!Nodes)
  /\ IsFiniteSet(Circular!Nodes) /\ \A n \in Circular!Nodes : n \in Int

(* In the first pass a cell that was left leads only to such, or is on a    *)
(* circle with one on the stack; each of the stack leads to those above.    *)
FirstAt(v, s, o) ==
  /\ o \in Seq(Circular!Nodes) /\ NoneTwice(o) /\ s \in Seq(Circular!Nodes) /\ NoneTwice(s)
  /\ Of(o) \cap Of(s) = {} /\ v = Of(o) \cup Of(s)
  /\ \A i, j \in 1..Len(s) : i <= j => s[j] \in Goes(s[i])
  /\ \A p \in edges : p[1] \in Of(o) => p[2] \in v
  /\ \A x \in Of(o) : Goes(x) \subseteq Of(o) \/ \E w \in Of(s) : Same(w, x)

(* A cell that leads to one that was left is led to by it, or on a circle   *)
(* with one left later.                                                     *)
Till(o, j) == {o[k] : k \in 1..j}
OrderAt(o) ==
  \A j \in 1..Len(o), x \in Circular!Nodes :
    o[j] \in Goes(x) => x \in Goes(o[j]) \/ \E w \in Circular!Nodes \ Till(o, j) : Same(x, w)

FirstRight == FirstAt(visited, stack, order) /\ OrderAt(order)

(* What a cell leads to is itself and what its successors lead to.          *)
LEMMA GoesOn ==
  ASSUME EdgeTypes, NEW x \in Circular!Nodes
  PROVE  /\ x \in Goes(x) /\ Goes(x) \subseteq Circular!Nodes /\ Same(x, x)
         /\ \A y \in Goes(x) : Goes(y) \subseteq Goes(x)
         /\ \A y \in Goes(x) : \A z : <<y, z>> \in edges => z \in Goes(x)
<1>1. /\ x \in Goes(x) /\ Goes(x) \subseteq Circular!Nodes
      /\ \A y \in Goes(x) : Goes(y) \subseteq Goes(x)
  BY LedIsLeast DEF EdgeTypes, Goes
<1>2. ASSUME NEW y \in Goes(x), NEW z, <<y, z>> \in edges PROVE z \in Goes(x)
  BY <1>2, LedOn DEF EdgeTypes, Goes
<1> QED
  BY <1>1, <1>2 DEF Same, SameReach, Goes

(* A cell on the stack is on a circle with what it leads to and is led by.  *)
LEMMA StackLeads ==
  ASSUME EdgeTypes, FirstAt(visited, stack, order), stack # <<>>
  PROVE  /\ Circular!Top \in Circular!Nodes /\ Circular!Top \in Of(stack)
         /\ \A w \in Of(stack) : Circular!Top \in Goes(w)
<1>1. /\ stack \in Seq(Circular!Nodes) /\ DOMAIN stack = 1..Len(stack)
      /\ \A i, j \in 1..Len(stack) : i <= j => stack[j] \in Goes(stack[i])
  BY DEF FirstAt
<1>2. Len(stack) \in 1..Len(stack) /\ Circular!Top = stack[Len(stack)]
  BY <1>1 DEF Circular!Top
<1>3. Circular!Top \in Circular!Nodes /\ Circular!Top \in Of(stack)
  BY <1>1, <1>2 DEF Of
<1>4. ASSUME NEW w \in Of(stack) PROVE Circular!Top \in Goes(w)
  <2>1. PICK k \in 1..Len(stack) : w = stack[k]
    BY <1>1 DEF Of
  <2>2. k <= Len(stack)
    BY <1>1
  <2> QED
    BY <1>1, <1>2, <2>1, <2>2
<1> QED
  BY <1>3, <1>4

(* A cell is pushed when it is not yet visited and led to.                  *)
LEMMA PushKeeps ==
  ASSUME EdgeTypes, FirstAt(visited, stack, order), NEW n \in Circular!Nodes \ visited,
         stack = <<>> \/ <<Circular!Top, n>> \in edges
  PROVE  FirstAt(visited \cup {n}, Append(stack, n), order)
<1> DEFINE s == Append(stack, n)
<1>1. /\ order \in Seq(Circular!Nodes) /\ NoneTwice(order) /\ stack \in Seq(Circular!Nodes) /\ NoneTwice(stack)
      /\ Of(order) \cap Of(stack) = {} /\ visited = Of(order) \cup Of(stack)
      /\ \A i, j \in 1..Len(stack) : i <= j => stack[j] \in Goes(stack[i])
      /\ \A p \in edges : p[1] \in Of(order) => p[2] \in visited
      /\ \A x \in Of(order) : Goes(x) \subseteq Of(order) \/ \E w \in Of(stack) : Same(w, x)
  BY DEF FirstAt
<1>2. /\ s \in Seq(Circular!Nodes) /\ Len(s) = Len(stack) + 1 /\ Len(stack) \in Nat
      /\ s[Len(stack) + 1] = n /\ \A k \in 1..Len(stack) : s[k] = stack[k]
      /\ Of(s) = Of(stack) \cup {n} /\ NoneTwice(s)
  BY <1>1, OfAppend
<1> HIDE DEF s
<1>3. ASSUME NEW i \in 1..Len(s), NEW j \in 1..Len(s), i <= j PROVE s[j] \in Goes(s[i])
  <2>1. CASE j <= Len(stack)
    <3>1. i \in 1..Len(stack) /\ j \in 1..Len(stack)
      BY <1>2, <1>3, <2>1
    <3> QED
      BY <1>1, <1>2, <1>3, <3>1
  <2>2. CASE j = Len(stack) + 1 /\ i = j
    BY <1>2, <2>2, GoesOn
  <2>3. CASE j = Len(stack) + 1 /\ i # j
    <3>1. i \in 1..Len(stack)
      BY <1>2, <1>3, <2>3
    <3>2. stack # <<>>
      BY <3>1
    <3>3. stack[i] \in Of(stack) /\ stack[i] \in Circular!Nodes
      BY <1>1, <3>1 DEF Of
    <3>4. Circular!Top \in Goes(stack[i])
      BY <3>2, <3>3, StackLeads
    <3>5. n \in Goes(stack[i])
      BY <3>2, <3>3, <3>4, GoesOn
    <3> QED
      BY <1>2, <2>3, <3>1, <3>5
  <2> QED
    BY <1>2, <2>1, <2>2, <2>3
<1>4. \A x \in Of(order) : Goes(x) \subseteq Of(order) \/ \E w \in Of(s) : Same(w, x)
  BY <1>1, <1>2
<1>5. FirstAt(visited \cup {n}, s, order)
  BY <1>1, <1>2, <1>3, <1>4 DEF FirstAt
<1> QED
  BY <1>5 DEF s

(* To be in one circle goes both ways, and those in one circle lead to the same.*)
LEMMA SameFacts ==
  ASSUME EdgeTypes, NEW x \in Circular!Nodes, NEW y \in Circular!Nodes
  PROVE  /\ Same(x, y) <=> y \in Goes(x) /\ x \in Goes(y)
         /\ Same(x, y) <=> Same(y, x)
         /\ Same(x, y) => Goes(x) = Goes(y) /\ \A z \in Circular!Nodes : Same(x, z) <=> Same(y, z)
<1>1. Same(x, y) <=> y \in Goes(x) /\ x \in Goes(y)
  BY DEF Same, SameReach, Goes
<1>2. Same(x, y) <=> Same(y, x)
  BY DEF Same, SameReach
<1>3. ASSUME Same(x, y)
      PROVE  Goes(x) = Goes(y) /\ \A z \in Circular!Nodes : Same(x, z) <=> Same(y, z)
  BY <1>3, SameReachFacts DEF EdgeTypes, Same, Goes
<1> QED
  BY <1>1, <1>2, <1>3

(* A cell is left when all it leads to has been visited.                    *)
LEMMA LeaveKeeps ==
  ASSUME EdgeTypes, FirstAt(visited, stack, order), OrderAt(order), stack # <<>>,
         Circular!Forward(Circular!Top) \subseteq visited
  PROVE  /\ FirstAt(visited, Circular!Popped, Append(order, Circular!Top))
         /\ OrderAt(Append(order, Circular!Top))
<1> DEFINE top == Circular!Top
           s == Circular!Popped
           o == Append(order, top)
<1>1. /\ order \in Seq(Circular!Nodes) /\ NoneTwice(order) /\ stack \in Seq(Circular!Nodes) /\ NoneTwice(stack)
      /\ Of(order) \cap Of(stack) = {} /\ visited = Of(order) \cup Of(stack)
      /\ \A i, j \in 1..Len(stack) : i <= j => stack[j] \in Goes(stack[i])
      /\ \A p \in edges : p[1] \in Of(order) => p[2] \in visited
      /\ \A x \in Of(order) : Goes(x) \subseteq Of(order) \/ \E w \in Of(stack) : Same(w, x)
  BY DEF FirstAt
<1>2. /\ s \in Seq(Circular!Nodes) /\ Len(s) = Len(stack) - 1 /\ Len(stack) \in Nat \ {0}
      /\ \A k \in 1..(Len(stack) - 1) : s[k] = stack[k]
      /\ Of(stack) = Of(s) \cup {top} /\ NoneTwice(s) /\ top \notin Of(s)
      /\ Of(stack) \subseteq Circular!Nodes
  BY <1>1, OfPopped DEF Circular!Top, Circular!Popped
<1>3. /\ top \in Circular!Nodes /\ top \in Of(stack) /\ \A w \in Of(stack) : top \in Goes(w)
  BY StackLeads
<1> HIDE DEF s, top
<1>4. top \notin Of(order)
  BY <1>1, <1>3
<1>5. /\ o \in Seq(Circular!Nodes) /\ Len(o) = Len(order) + 1 /\ Len(order) \in Nat
      /\ o[Len(order) + 1] = top /\ \A k \in 1..Len(order) : o[k] = order[k]
      /\ Of(o) = Of(order) \cup {top} /\ NoneTwice(o) /\ Of(order) \subseteq Circular!Nodes
  BY <1>1, <1>3, <1>4, OfAppend
<1> HIDE DEF o
<1>6. Of(o) \cap Of(s) = {} /\ visited = Of(o) \cup Of(s)
  BY <1>1, <1>2, <1>5
<1>7. \A i, j \in 1..Len(s) : i <= j => s[j] \in Goes(s[i])
  <2>1. \A i \in 1..Len(s) : i \in 1..Len(stack) /\ i \in 1..(Len(stack) - 1)
    BY <1>2
  <2> QED
    BY <1>1, <1>2, <2>1
<1>8. \A p \in edges : p[1] \in Of(o) => p[2] \in visited
  <2>1. ASSUME NEW p \in edges, p[1] = top PROVE p[2] \in visited
    <3>1. p[2] \in Circular!Nodes /\ p = <<top, p[2]>>
      BY <2>1 DEF EdgeTypes
    <3>2. p[2] \in Circular!Forward(top)
      BY <3>1 DEF Circular!Forward
    <3> QED
      BY <3>2 DEF top
  <2> QED
    BY <1>1, <1>5, <2>1
<1>9. Goes(top) \subseteq Of(o) \/ \E w \in Of(s) : Same(w, top)
  <2> SUFFICES ASSUME NEW y \in Goes(top), y \notin Of(o)
               PROVE  \E w \in Of(s) : Same(w, top)
    OBVIOUS
  <2>1. top \in Of(o)
    BY <1>5
  <2>2. PICK u \in Of(o), z \in Circular!Nodes \ Of(o) : <<u, z>> \in edges /\ z \in Goes(top)
    BY <1>3, <2>1, LedOut DEF EdgeTypes, Goes
  <2>3. z \in visited
    <3>1. <<u, z>>[1] = u /\ <<u, z>>[2] = z
      OBVIOUS
    <3> QED
      BY <1>8, <2>2, <3>1
  <2>4. z \in Of(s) /\ z \in Of(stack)
    BY <1>2, <1>6, <2>2, <2>3
  <2>5. top \in Goes(z)
    BY <1>3, <2>4
  <2>6. Same(z, top)
    BY <1>3, <2>2, <2>5, SameFacts
  <2> QED
    BY <2>4, <2>6
<1>10. ASSUME NEW x \in Of(order)
       PROVE  Goes(x) \subseteq Of(o) \/ \E w \in Of(s) : Same(w, x)
  <2>1. CASE Goes(x) \subseteq Of(order)
    BY <1>5, <2>1
  <2>2. CASE \E w \in Of(stack) : Same(w, x)
    <3>1. PICK w \in Of(stack) : Same(w, x)
      BY <2>2
    <3>2. CASE w \in Of(s)
      BY <3>1, <3>2
    <3>3. CASE w = top
      <4>1. x \in Circular!Nodes
        BY <1>5
      <4>2. Same(top, x)
        BY <3>1, <3>3
      <4>3. Goes(top) = Goes(x) /\ \A y \in Circular!Nodes : Same(top, y) <=> Same(x, y)
        BY <1>3, <4>1, <4>2, SameFacts
      <4>4. ASSUME NEW y \in Of(s), Same(y, top) PROVE Same(y, x)
        <5>1. y \in Circular!Nodes
          BY <1>2
        <5> QED
          BY <1>3, <4>1, <4>3, <4>4, <5>1, SameFacts
      <4> QED
        BY <1>9, <4>3, <4>4
    <3> QED
      BY <1>2, <3>2, <3>3
  <2> QED
    BY <1>1, <2>1, <2>2
<1>11. FirstAt(visited, s, o)
  <2>1. \A x \in Of(o) : Goes(x) \subseteq Of(o) \/ \E w \in Of(s) : Same(w, x)
    BY <1>5, <1>9, <1>10
  <2> QED
    BY <1>2, <1>5, <1>6, <1>7, <1>8, <2>1 DEF FirstAt
<1>12. ASSUME NEW j \in 1..Len(o), NEW x \in Circular!Nodes, o[j] \in Goes(x)
       PROVE  x \in Goes(o[j]) \/ \E w \in Circular!Nodes \ Till(o, j) : Same(x, w)
  <2>1. CASE j <= Len(order)
    <3>1. j \in 1..Len(order) /\ o[j] = order[j]
      BY <1>5, <2>1
    <3>2. Till(o, j) = Till(order, j)
      <4>1. \A k \in 1..j : o[k] = order[k]
        BY <1>5, <3>1
      <4> QED
        BY <4>1 DEF Till
    <3> QED
      BY <1>12, <3>1, <3>2 DEF OrderAt
  <2>2. CASE j = Len(order) + 1
    <3>1. o[j] = top /\ Till(o, j) = Of(o) /\ top \in Goes(x)
      <4>1. DOMAIN o = 1..j
        BY <1>5, <2>2
      <4> QED
        BY <1>5, <1>12, <2>2, <4>1 DEF Till, Of
    <3>2. CASE x \notin Of(o)
      BY <3>1, <3>2, GoesOn
    <3>3. CASE x = top
      BY <3>1, <3>3, GoesOn
    <3>4. CASE x \in Of(order)
      <4>1. ~(Goes(x) \subseteq Of(order))
        BY <1>4, <3>1
      <4>2. PICK w \in Of(stack) : Same(w, x)
        BY <1>1, <3>4, <4>1
      <4>3. w \in Circular!Nodes /\ Same(x, w)
        BY <1>2, <4>2, SameFacts
      <4>4. CASE w = top
        BY <3>1, <4>3, <4>4, SameFacts
      <4>5. CASE w # top
        <5>1. w \notin Of(o)
          BY <1>2, <1>6, <4>5
        <5> QED
          BY <3>1, <4>3, <5>1
      <4> QED
        BY <4>4, <4>5
    <3> QED
      BY <1>5, <3>2, <3>3, <3>4
  <2> QED
    BY <1>5, <2>1, <2>2
<1>13. OrderAt(o)
  BY <1>12 DEF OrderAt
<1> QED
  BY <1>11, <1>13 DEF s, o, top

-----------------------------------------------------------------------------
(* In the second pass the cells done with lead only back to such; those of  *)
(* the circle under way and of the stack are on one circle, and no other    *)
(* cell that is not done with leads to them.                                *)
CircleOf(n) == {m \in Circular!Nodes : Same(n, m)}
Done(v, s, c) == v \ (c \cup Of(s))

Rooted(v, s, c, root) ==
  /\ root \in c \cup Of(s) /\ \A x \in c \cup Of(s) : Same(root, x)
  /\ \A x \in Circular!Nodes \ Done(v, s, c) : root \in Goes(x) => x \in Goes(root)

SecondAt(v, s, c, cs) ==
  /\ s \in Seq(Circular!Nodes) /\ v \subseteq Circular!Nodes /\ c \cup Of(s) \subseteq v
  /\ \A p \in edges : p[2] \in Done(v, s, c) => p[1] \in Done(v, s, c)
  /\ \A p \in edges : p[2] \in c => p[1] \in v
  /\ c \cup Of(s) # {} => \E root \in Circular!Nodes : Rooted(v, s, c, root)
  /\ \A x : x \in cs <=> \E n \in Done(v, s, c) : x = CircleOf(n) /\ Circular!Circular(x)

AllLeft == order \in Seq(Circular!Nodes) /\ NoneTwice(order) /\ Of(order) = Circular!Nodes

(* What leads to cells done with is done with.                              *)
LEMMA DoneBefore ==
  ASSUME EdgeTypes, NEW D \in SUBSET Circular!Nodes, \A p \in edges : p[2] \in D => p[1] \in D,
         NEW x \in Circular!Nodes, NEW y \in D, y \in Goes(x)
  PROVE  x \in D
BY LedBack DEF EdgeTypes, Goes

(* The second pass starts a circle with the cell the first left last.       *)
LEMMA StartCircleKeeps ==
  ASSUME EdgeTypes, AllLeft, OrderAt(order), SecondAt(visited, stack, circle, circles),
         stack = <<>>, circle = {}, Circular!Nodes \ visited # {}
  PROVE  LET n == order[Circular!Max({k \in DOMAIN order : order[k] \notin visited})]
         IN  SecondAt(visited \cup {n}, <<n>>, {}, circles)
<1> DEFINE Ks == {k \in DOMAIN order : order[k] \notin visited}
           top == Circular!Max(Ks)
           n == order[top]
<1>1. /\ visited \subseteq Circular!Nodes
      /\ \A p \in edges : p[2] \in visited => p[1] \in visited
      /\ \A x : x \in circles <=> \E m \in visited : x = CircleOf(m) /\ Circular!Circular(x)
  <2>1. Of(stack) = {} /\ Done(visited, stack, circle) = visited
    BY DEF Of, Done
  <2> QED
    BY <2>1 DEF SecondAt
<1>2. Len(order) \in Nat /\ DOMAIN order = 1..Len(order)
  BY DEF AllLeft
<1>3. top \in Ks /\ \A k \in Ks : k <= top
  <2>1. Ks # {}
    BY DEF AllLeft, Of
  <2> DEFINE high == Len(order)
  <2>2. high \in Int /\ (\A k \in Ks : k \in Int) /\ (\A k \in Ks : k <= high)
    BY <1>2
  <2> HIDE DEF Ks, high
  <2>3. \E x \in Ks : \A k \in Ks : k <= x
    BY <2>1, <2>2, GreatestInteger
  <2>4. Circular!Max(Ks) = CHOOSE x \in Ks : \A k \in Ks : x >= k
    BY DEF Circular!Max
  <2>5. \A x \in Ks : (\A k \in Ks : k <= x) <=> (\A k \in Ks : x >= k)
    BY <2>2
  <2> QED
    BY <2>3, <2>4, <2>5
<1>4. top \in 1..Len(order) /\ n \notin visited /\ n \in Circular!Nodes
  BY <1>2, <1>3 DEF AllLeft
<1>5. ASSUME NEW k \in 1..Len(order), k > top, order[k] \notin visited PROVE FALSE
  <2>1. k \in Ks /\ top \in Int
    BY <1>2, <1>4, <1>5
  <2> HIDE DEF top, Ks
  <2>2. k <= top
    BY <1>3, <2>1
  <2> QED
    BY <1>5, <2>1, <2>2
<1>6. ASSUME NEW w \in Circular!Nodes \ Till(order, top) PROVE w \in visited
  <2>1. PICK k \in 1..Len(order) : w = order[k]
    BY <1>2 DEF AllLeft, Of
  <2>2. ~(k \in 1..top)
    BY <2>1 DEF Till
  <2>3. k > top
    BY <1>2, <1>4, <2>2
  <2> QED
    BY <1>5, <2>1, <2>3
<1> HIDE DEF Ks, top
<1>7. ASSUME NEW x \in Circular!Nodes \ visited, n \in Goes(x) PROVE x \in Goes(n)
  <2>1. x \in Goes(n) \/ \E w \in Circular!Nodes \ Till(order, top) : Same(x, w)
    BY <1>4, <1>7 DEF OrderAt
  <2>2. ASSUME NEW w \in Circular!Nodes \ Till(order, top), Same(x, w) PROVE FALSE
    <3>1. w \in visited /\ w \in Goes(x)
      BY <1>6, <2>2, SameFacts
    <3>2. x \in visited
      BY <1>1, <3>1, DoneBefore
    <3> QED
      BY <1>7, <3>2
  <2> QED
    BY <2>1, <2>2
<1> HIDE DEF n
<1> DEFINE v == visited \cup {n}
           s == <<n>>
<1>8. s \in Seq(Circular!Nodes) /\ Of(s) = {n}
  <2>1. s \in Seq(Circular!Nodes) /\ DOMAIN s = {1} /\ s[1] = n
    BY <1>4
  <2> QED
    BY <2>1 DEF Of
<1> HIDE DEF s
<1>9. Done(v, s, {}) = visited
  BY <1>4, <1>8 DEF Done
<1>10. Rooted(v, s, {}, n)
  BY <1>4, <1>7, <1>8, <1>9, GoesOn DEF Rooted
<1>11. SecondAt(v, s, {}, circles)
  BY <1>1, <1>4, <1>8, <1>9, <1>10 DEF SecondAt
<1> QED
  BY <1>11 DEF n, top, Ks, s

-----------------------------------------------------------------------------
(* A finite set of integers, the greatest first, has just its elements.     *)
LEMMA DescendingLists ==
  ASSUME NEW S, IsFiniteSet(S), \A x \in S : x \in Int
  PROVE  Circular!Descending(S) \in Seq(S) /\ Of(Circular!Descending(S)) = S
<1> DEFINE n == Cardinality(S)
           P(k, x) == Circular!Cardinality({m \in S : m < x}) = Circular!Cardinality(S) - k
           d == [k \in 1..Circular!Cardinality(S) |-> CHOOSE x \in S : P(k, x)]
<1>1. n \in Nat
  BY FS_CardinalityType
<1>2. Circular!Descending(S) = d
  BY DEF Circular!Descending
<1>9. \A k, x : P(k, x) <=> RankOf(S, x) = n - k
  BY SameCount DEF RankOf
<1> HIDE DEF P
<1>3. ASSUME NEW k \in 1..n PROVE \E x \in S : P(k, x)
  <2>1. n - k \in 0..(n - 1)
    BY <1>1
  <2>2. \E x \in S : RankOf(S, x) = n - k
    BY <2>1, RankOnto
  <2> QED
    BY <1>9, <2>2
<1>5. DOMAIN d = 1..n /\ \A k \in 1..n : d[k] = CHOOSE x \in S : P(k, x)
  BY SameCount
<1>4. \A k \in 1..n : d[k] \in S /\ RankOf(S, d[k]) = n - k
  BY <1>3, <1>5, <1>9
<1> HIDE DEF d
<1>6. ASSUME NEW x \in S PROVE \E k \in 1..n : d[k] = x
  <2> DEFINE r == RankOf(S, x)
  <2>1. r \in 0..(n - 1)
    BY RankType
  <2>2. n - r \in 1..n /\ n - (n - r) = r
    BY <1>1, <2>1
  <2>3. d[n - r] \in S /\ RankOf(S, d[n - r]) = r
    BY <1>4, <2>2
  <2> HIDE DEF n
  <2>4. d[n - r] = x
    BY <2>3, RankOneToOne
  <2> QED
    BY <2>2, <2>4
<1> HIDE DEF n
<1>7. d \in Seq(S)
  <2>1. d = [k \in 1..n |-> d[k]]
    BY <1>2, <1>5 DEF d
  <2>2. [k \in 1..n |-> d[k]] \in Seq(S)
    BY <1>1, <1>4
  <2> QED
    BY <2>1, <2>2
<1>8. Of(d) = S
  BY <1>4, <1>5, <1>6 DEF Of
<1> QED
  BY <1>2, <1>7, <1>8

(* The circle widens by what leads to the cell on top and is not visited.   *)
LEMMA WidenKeeps ==
  ASSUME EdgeTypes, SecondAt(visited, stack, circle, circles), stack # <<>>
  PROVE  LET more == Circular!Backward(Circular!Top) \ visited
         IN  SecondAt(visited \cup more, Circular!Popped \o Circular!Descending(more),
                      circle \cup {Circular!Top}, circles)
<1> DEFINE top == Circular!Top
           more == Circular!Backward(top) \ visited
           s == Circular!Popped \o Circular!Descending(more)
           v == visited \cup more
           c == circle \cup {top}
           D == Done(visited, stack, circle)
<1>1. /\ stack \in Seq(Circular!Nodes) /\ visited \subseteq Circular!Nodes /\ circle \cup Of(stack) \subseteq visited
      /\ \A p \in edges : p[2] \in D => p[1] \in D
      /\ \A p \in edges : p[2] \in circle => p[1] \in visited
      /\ circle \cup Of(stack) # {} => \E root \in Circular!Nodes : Rooted(visited, stack, circle, root)
      /\ \A x : x \in circles <=> \E n \in D : x = CircleOf(n) /\ Circular!Circular(x)
  BY DEF SecondAt
<1>2. /\ Circular!Popped \in Seq(Circular!Nodes) /\ Of(stack) = Of(Circular!Popped) \cup {top}
      /\ top \in Circular!Nodes /\ top \in Of(stack)
  BY <1>1, OfPopped DEF Circular!Popped, Circular!Top
<1>3. more \subseteq Circular!Nodes /\ \A m \in more : <<m, top>> \in edges
  BY DEF Circular!Backward
<1>4. \A p \in edges : p[2] = top => p[1] \in v
  <2>1. ASSUME NEW p \in edges, p[2] = top PROVE p[1] \in visited \cup more
    <3>1. p[1] \in Circular!Nodes /\ p = <<p[1], top>>
      BY <2>1 DEF EdgeTypes
    <3> QED
      BY <3>1 DEF Circular!Backward
  <2> QED
    BY <2>1
<1> HIDE DEF top, more
<1>5. s \in Seq(Circular!Nodes) /\ Of(s) = Of(Circular!Popped) \cup more
  <2>1. IsFiniteSet(more) /\ \A x \in more : x \in Int
    BY <1>3, FS_Subset DEF EdgeTypes
  <2>2. Circular!Descending(more) \in Seq(more) /\ Of(Circular!Descending(more)) = more
    BY <2>1, DescendingLists
  <2> HIDE DEF s
  <2>3. Circular!Descending(more) \in Seq(Circular!Nodes)
    BY <1>3, <2>2
  <2> QED
    BY <1>2, <2>2, <2>3, Joined, OfJoined DEF s
<1> HIDE DEF s
<1>6. c \cup Of(s) = (circle \cup Of(stack)) \cup more
  BY <1>2, <1>5
<1>7. more \cap visited = {}
  BY DEF more
<1>8. Done(v, s, c) = D
  BY <1>1, <1>6, <1>7 DEF Done
<1>9. \A p \in edges : p[2] \in c => p[1] \in v
  BY <1>1, <1>4
<1>10. PICK root \in Circular!Nodes : Rooted(visited, stack, circle, root)
  BY <1>1, <1>2
<1>11. /\ root \in circle \cup Of(stack) /\ \A x \in circle \cup Of(stack) : Same(root, x)
       /\ \A x \in Circular!Nodes \ D : root \in Goes(x) => x \in Goes(root)
  BY <1>10 DEF Rooted
<1>12. ASSUME NEW m \in more PROVE Same(root, m)
  <2>1. Same(root, top) /\ top \in Circular!Nodes /\ m \in Circular!Nodes /\ m \notin D
    BY <1>2, <1>3, <1>7, <1>11, <1>12 DEF Done
  <2>2. top \in Goes(m) /\ root \in Goes(top)
    BY <1>3, <2>1, GoesOn, SameFacts
  <2>3. root \in Goes(m)
    BY <2>1, <2>2, GoesOn
  <2>4. m \in Goes(root)
    BY <1>11, <2>1, <2>3
  <2> QED
    BY <2>1, <2>3, <2>4, SameFacts
<1>13. Rooted(v, s, c, root)
  BY <1>6, <1>8, <1>11, <1>12 DEF Rooted
<1>14. SecondAt(v, s, c, circles)
  <2>1. c \cup Of(s) \subseteq v /\ v \subseteq Circular!Nodes
    BY <1>1, <1>3, <1>6
  <2> QED
    BY <1>1, <1>5, <1>8, <1>9, <1>13, <2>1 DEF SecondAt
<1> QED
  BY <1>14 DEF top, more, s

(* A circle is closed when all that leads to it is in it or done with.      *)
LEMMA CloseKeeps ==
  ASSUME EdgeTypes, SecondAt(visited, stack, circle, circles), stack = <<>>, circle # {}
  PROVE  SecondAt(visited, stack, {}, IF Circular!Circular(circle) THEN circles \cup {circle} ELSE circles)
<1> DEFINE D == Done(visited, stack, circle)
           cs == IF Circular!Circular(circle) THEN circles \cup {circle} ELSE circles
<1>0. Of(stack) = {}
  BY DEF Of
<1>1. /\ stack \in Seq(Circular!Nodes) /\ visited \subseteq Circular!Nodes /\ circle \subseteq visited
      /\ \A p \in edges : p[2] \in D => p[1] \in D
      /\ \A p \in edges : p[2] \in circle => p[1] \in visited
      /\ \E root \in Circular!Nodes : Rooted(visited, stack, circle, root)
      /\ \A x : x \in circles <=> \E n \in D : x = CircleOf(n) /\ Circular!Circular(x)
  BY <1>0 DEF SecondAt
<1>2. PICK root \in Circular!Nodes : Rooted(visited, stack, circle, root)
  BY <1>1
<1>3. /\ root \in circle /\ \A x \in circle : Same(root, x)
      /\ \A x \in Circular!Nodes \ D : root \in Goes(x) => x \in Goes(root)
  BY <1>0, <1>2 DEF Rooted
<1>4. visited = D \cup circle /\ D \cap circle = {}
  BY <1>0, <1>1 DEF Done
<1>5. Done(visited, stack, {}) = visited
  BY <1>0 DEF Done
<1> HIDE DEF D
<1>6. \A p \in edges : p[2] \in visited => p[1] \in visited
  BY <1>1, <1>4
(* What is alike to the root leads to it, and is visited, but not done:     *)
(* the root would be, too.                                                  *)
<1>7. ASSUME NEW x \in Circular!Nodes, Same(root, x) PROVE x \in circle
  <2>1. root \in Goes(x) /\ x \in Goes(root)
    BY <1>7, SameFacts
  <2>2. root \in visited
    BY <1>3, <1>4
  <2>3. x \in visited
    BY <1>1, <1>6, <2>1, <2>2, DoneBefore
  <2>4. x \in D => root \in D
    <3>1. D \in SUBSET Circular!Nodes
      BY <1>1, <1>4
    <3> QED
      BY <1>1, <2>1, <3>1, DoneBefore
  <2> QED
    BY <1>3, <1>4, <2>3, <2>4
<1>8. \A n \in circle : CircleOf(n) = circle
  <2> SUFFICES ASSUME NEW n \in circle PROVE CircleOf(n) = circle
    OBVIOUS
  <2>1. n \in Circular!Nodes /\ Same(root, n) /\ circle \subseteq Circular!Nodes
    BY <1>1, <1>3
  <2>2. \A m \in Circular!Nodes : Same(root, m) <=> Same(n, m)
    BY <2>1, SameFacts
  <2> QED
    BY <1>3, <1>7, <2>1, <2>2 DEF CircleOf
<1>9. ASSUME NEW x PROVE x \in cs <=> \E n \in visited : x = CircleOf(n) /\ Circular!Circular(x)
  BY <1>1, <1>3, <1>4, <1>8
<1> HIDE DEF cs
<1>10. SecondAt(visited, stack, {}, cs)
  BY <1>0, <1>1, <1>5, <1>6, <1>9 DEF SecondAt
<1> QED
  BY <1>10 DEF cs

-----------------------------------------------------------------------------
(* The phases: references are taken, then the two passes.                   *)
Beginning ==
  visited = {} /\ stack = <<>> /\ order = <<>> /\ circle = {} /\ circles = {}
Forwards ==
  /\ Circular!Built /\ Len(order) < Cardinality(Circular!Nodes) /\ FirstRight
  /\ circle = {} /\ circles = {}
Backwards ==
  /\ Circular!Built /\ Circular!Nodes # {} /\ Len(order) = Cardinality(Circular!Nodes)
  /\ AllLeft /\ OrderAt(order) /\ SecondAt(visited, stack, circle, circles)

CycleInv ==
  BookTypes /\ EdgesRight /\ CacheRight /\ (Beginning \/ Forwards \/ Backwards)

(* What is read off the edges stays when they do.                           *)
LEMMA GraphStays ==
  ASSUME references' = references, edges' = edges
  PROVE  /\ Circular!Nodes' = Circular!Nodes
         /\ \A x : Goes(x)' = Goes(x) /\ CircleOf(x)' = CircleOf(x)
                   /\ Circular!Circular(x)' = Circular!Circular(x)
         /\ \A x, y : Same(x, y)' <=> Same(x, y)
<1>1. Circular!Nodes' = Circular!Nodes
  BY DEF Circular!Nodes
<1>2. \A x : Goes(x)' = Goes(x)
  BY <1>1 DEF Goes, Led, Closed
<1>3. \A x, y : Same(x, y)' <=> Same(x, y)
  BY <1>1 DEF Same, SameReach, Led, Closed
<1>4. \A x : CircleOf(x)' = CircleOf(x)
  <2> TAKE x
  <2>1. \A y : Same(x, y)' <=> Same(x, y)
    BY <1>3
  <2> QED
    BY <1>1, <2>1 DEF CircleOf
<1>5. \A x : Circular!Circular(x)' = Circular!Circular(x)
  BY DEF Circular!Circular
<1> QED
  BY <1>1, <1>2, <1>3, <1>4, <1>5

(* What the first pass keeps is of its own variables.                       *)
LEMMA FirstAgrees ==
  ASSUME references' = references, edges' = edges,
         FirstAt(visited', stack', order'), OrderAt(order')
  PROVE  FirstRight'
<1>1. /\ Circular!Nodes' = Circular!Nodes /\ \A x : Goes(x)' = Goes(x)
      /\ \A x, y : Same(x, y)' <=> Same(x, y)
  BY GraphStays
<1>2. FirstAt(visited, stack, order)'
  BY <1>1 DEF FirstAt
<1>3. OrderAt(order)'
  BY <1>1 DEF OrderAt
<1> QED
  BY <1>2, <1>3 DEF FirstRight

(* What the second pass keeps is of its own variables.                      *)
LEMMA SecondAgrees ==
  ASSUME references' = references, edges' = edges, order' = order, taken' = taken,
         Backwards, SecondAt(visited', stack', circle', circles')
  PROVE  Backwards'
<1>1. /\ Circular!Nodes' = Circular!Nodes
      /\ \A x : Goes(x)' = Goes(x) /\ CircleOf(x)' = CircleOf(x)
                /\ Circular!Circular(x)' = Circular!Circular(x)
      /\ \A x, y : Same(x, y)' <=> Same(x, y)
  BY GraphStays
<1>2. \A r : Rooted(visited', stack', circle', r) => Rooted(visited, stack, circle, r)'
  BY <1>1 DEF Rooted
<1>3. SecondAt(visited, stack, circle, circles)'
  BY <1>1, <1>2 DEF SecondAt
<1>4. OrderAt(order)'
  BY <1>1 DEF OrderAt, Backwards
<1>5. AllLeft' /\ Circular!Built' /\ Len(order') = Cardinality(Circular!Nodes')
  BY <1>1 DEF AllLeft, Circular!Built, Backwards
<1> QED
  BY <1>1, <1>3, <1>4, <1>5 DEF Backwards

(* The edges kept are pairs of cells.                                       *)
LEMMA EdgesTyped ==
  ASSUME BookTypes, EdgesRight
  PROVE  EdgeTypes /\ Cardinality(Circular!Nodes) \in Nat
<1>1. edges \in SUBSET (Circular!Nodes \X Circular!Nodes)
  BY DEF EdgesRight, Named
<1>2. IsFiniteSet(Circular!Nodes) /\ \A n \in Circular!Nodes : n \in Int
  BY CellsFinite
<1> QED
  BY <1>1, <1>2, FS_CardinalityType DEF EdgeTypes

(* Before the walk there is nothing to say of it.                           *)
LEMMA WalkBegins ==
  ASSUME Beginning
  PROVE  FirstAt(visited, stack, order) /\ OrderAt(order)
<1> DEFINE s == <<>>
<1>1. stack = s /\ order = s /\ visited = {}
  BY DEF Beginning
<1>2. s \in Seq(Circular!Nodes) /\ Len(s) = 0 /\ DOMAIN s = {}
  OBVIOUS
<1> HIDE DEF s
<1>3. Of(s) = {} /\ NoneTwice(s)
  BY <1>2 DEF Of, NoneTwice
<1>4. \A i : i \notin 1..Len(s)
  BY <1>2
<1>5. FirstAt({}, s, s)
  BY <1>2, <1>3, <1>4 DEF FirstAt
<1>6. OrderAt(s)
  BY <1>2, <1>4 DEF OrderAt
<1> QED
  BY <1>1, <1>5, <1>6

(* CycleInv holds at first.                                                 *)
LEMMA CyclesBegin ==
  ASSUME Circular!CyclesInit
  PROVE  CycleInv
<1>1. references \in References /\ IsList(references)
  BY CycleConstants DEF Circular!CyclesInit
<1>2. BookTypes
  BY <1>1 DEF BookTypes, IsList, Circular!CyclesInit
<1>3. EdgesRight
  <2>1. Named(0) = {}
    BY DEF Named
  <2>2. IsFiniteSet({}) /\ Cardinality({}) = 0
    BY FS_EmptySet
  <2> QED
    BY <2>1, <2>2, CycleConstants DEF EdgesRight, Circular!CyclesInit
<1>4. CacheRight
  <2> DEFINE s == <<>>
             none == {}
  <2>1. cached = s /\ held = 0
    BY DEF Circular!CyclesInit
  <2>2. s \in Seq(none) /\ Len(s) = 0 /\ \A e \in none : e.cells = Circular!InRange(e.range)
    OBVIOUS
  <2>3. Circular!Total(<<>>) = 0
    <3>1. Circular!Cardinality({}) \in Nat
      BY SameCount, FS_EmptySet
    <3>2. Circular!Cardinality([cells |-> {}].cells) \in Nat
      BY <3>1
    <3> QED
      BY <3>2, TotalOfOne
  <2>4. Circular!Total(s) = 0
    BY <2>3
  <2> HIDE DEF s, none
  <2>5. \E E : s \in Seq(E) /\ \A e \in E : e.cells = Circular!InRange(e.range)
    BY <2>2
  <2> QED
    BY <2>1, <2>2, <2>4, <2>5, CycleConstants, <1>1 DEF CacheRight, Circular!CyclesInit
<1>5. Beginning
  BY DEF Beginning, Circular!CyclesInit
<1> QED
  BY <1>2, <1>3, <1>4, <1>5 DEF CycleInv

(* The first pass starts where it may: the phase is the first.              *)
LEMMA FirstPhase ==
  ASSUME CycleInv, Circular!FirstPass
  PROVE  /\ EdgeTypes /\ Cardinality(Circular!Nodes) \in Nat /\ FirstAt(visited, stack, order)
         /\ OrderAt(order) /\ circle = {} /\ circles = {} /\ Circular!Built
         /\ Len(order) < Cardinality(Circular!Nodes) /\ visited \subseteq Circular!Nodes
<1>1. EdgeTypes /\ Cardinality(Circular!Nodes) \in Nat
  BY EdgesTyped DEF CycleInv
<1>2. Circular!Built /\ Len(order) < Cardinality(Circular!Nodes)
  BY SameCount DEF Circular!FirstPass
<1>3. ~Backwards
  BY <1>1, <1>2 DEF Backwards
<1>4. FirstAt(visited, stack, order) /\ OrderAt(order) /\ circle = {} /\ circles = {}
  BY <1>3, WalkBegins DEF CycleInv, Forwards, FirstRight, Beginning
<1>5. visited \subseteq Circular!Nodes
  BY <1>4 DEF FirstAt, Of
<1> QED
  BY <1>1, <1>2, <1>4, <1>5

(* The least of some cells is one of them.                                  *)
LEMMA LeastCell ==
  ASSUME EdgeTypes, NEW S, S \subseteq Circular!Nodes, S # {}
  PROVE  Circular!Min(S) \in S
<1>1. IsFiniteSet(S) /\ \A x \in S : x \in Int
  BY FS_Subset DEF EdgeTypes
<1>2. \E x \in S : \A y \in S : x <= y
  BY <1>1, LeastOfFinite
<1> QED
  BY <1>2 DEF Circular!Min

(* A cell pushed on the stack keeps what the first pass has.                *)
LEMMA PushSteps ==
  ASSUME CycleInv, Circular!StartWalk \/ Circular!Descend
  PROVE  /\ FirstRight' /\ Forwards' /\ UNCHANGED <<references, taken, edges, missed, cached, held>>
<1>1. Circular!FirstPass /\ UNCHANGED <<references, taken, edges, missed, cached, held, order, circle, circles>>
  BY DEF Circular!StartWalk, Circular!Descend, Circular!graphVars
<1>2. /\ EdgeTypes /\ Cardinality(Circular!Nodes) \in Nat /\ FirstAt(visited, stack, order)
      /\ OrderAt(order) /\ circle = {} /\ circles = {} /\ Circular!Built
      /\ Len(order) < Cardinality(Circular!Nodes) /\ visited \subseteq Circular!Nodes
  BY <1>1, FirstPhase
<1>3. stack \in Seq(Circular!Nodes) /\ visited = Of(order) \cup Of(stack) /\ order \in Seq(Circular!Nodes)
      /\ NoneTwice(order)
  BY <1>2 DEF FirstAt
<1>4. \E n \in Circular!Nodes \ visited :
         /\ visited' = visited \cup {n} /\ stack' = Append(stack, n)
         /\ stack = <<>> \/ <<Circular!Top, n>> \in edges
  <2>1. CASE Circular!StartWalk
    <3> DEFINE S == Circular!Nodes \ visited
               n == Circular!Min(S)
    <3>1. stack = <<>> /\ visited' = visited \cup {n} /\ stack' = <<n>>
      BY <2>1 DEF Circular!StartWalk
    <3>2. S # {}
      <4>1. Of(stack) = {}
        BY <3>1 DEF Of
      <4>2. SUFFICES ASSUME Of(order) = Circular!Nodes PROVE FALSE
        BY <1>2, <1>3, <4>1
      <4>3. Len(order) = Cardinality(Circular!Nodes)
        BY <1>2, <1>3, <4>2, OfAll DEF EdgeTypes
      <4> QED
        BY <1>2, <4>3
    <3>3. n \in S
      BY <1>2, <3>2, LeastCell
    <3> HIDE DEF n
    <3>4. stack' = Append(stack, n)
      BY <3>1
    <3> QED
      BY <3>1, <3>3, <3>4
  <2>2. CASE Circular!Descend
    <3> DEFINE S == Circular!Forward(Circular!Top) \ visited
               n == Circular!Min(S)
    <3>1. S # {} /\ visited' = visited \cup {n} /\ stack' = Append(stack, n)
      BY <2>2 DEF Circular!Descend
    <3>2. S \subseteq Circular!Nodes /\ \A x \in S : <<Circular!Top, x>> \in edges
      BY DEF Circular!Forward
    <3>3. n \in S
      BY <1>2, <3>1, <3>2, LeastCell
    <3> QED
      BY <3>1, <3>2, <3>3
  <2> QED
    BY <2>1, <2>2
<1>5. FirstAt(visited', stack', order')
  BY <1>1, <1>2, <1>4, PushKeeps
<1>6. FirstRight'
  BY <1>1, <1>2, <1>5, FirstAgrees
<1>7. Circular!Nodes' = Circular!Nodes
  BY <1>1, GraphStays
<1>8. Forwards'
  BY <1>1, <1>2, <1>6, <1>7 DEF Forwards, Circular!Built
<1> QED
  BY <1>1, <1>6, <1>8

(* After the first pass every cell has been left, and the second begins.    *)
LEMMA LeaveSteps ==
  ASSUME CycleInv, Circular!LeaveCell
  PROVE  (Forwards \/ Backwards)' /\ UNCHANGED <<references, taken, edges, missed, cached, held>>
<1>1. Circular!FirstPass /\ UNCHANGED <<references, taken, edges, missed, cached, held, circle, circles>>
  BY DEF Circular!LeaveCell, Circular!graphVars
<1>2. /\ EdgeTypes /\ Cardinality(Circular!Nodes) \in Nat /\ FirstAt(visited, stack, order)
      /\ OrderAt(order) /\ circle = {} /\ circles = {} /\ Circular!Built
      /\ Len(order) < Cardinality(Circular!Nodes) /\ visited \subseteq Circular!Nodes
  BY <1>1, FirstPhase
<1>3. /\ stack # <<>> /\ Circular!Forward(Circular!Top) \subseteq visited
      /\ order' = Append(order, Circular!Top) /\ stack' = Circular!Popped
      /\ visited' = IF Len(order') = Circular!Cardinality(Circular!Nodes) THEN {} ELSE visited
  BY DEF Circular!LeaveCell
<1>4. FirstAt(visited, stack', order') /\ OrderAt(order')
  BY <1>2, <1>3, LeaveKeeps
<1>5. /\ order' \in Seq(Circular!Nodes) /\ NoneTwice(order') /\ stack' \in Seq(Circular!Nodes)
      /\ Of(order') \cap Of(stack') = {}
  BY <1>4 DEF FirstAt
<1>6. /\ Len(order') = Cardinality(Circular!Nodes) => Of(order') = Circular!Nodes
      /\ Len(order') \in Nat /\ Len(order') <= Cardinality(Circular!Nodes)
  BY <1>2, <1>5, OfAll DEF EdgeTypes
<1>7. Circular!Nodes' = Circular!Nodes /\ \A x, y : Same(x, y)' <=> Same(x, y)
  BY <1>1, GraphStays
<1>8. CASE Len(order') # Cardinality(Circular!Nodes)
  <2>1. FirstAt(visited', stack', order')
    BY <1>3, <1>4, <1>8, SameCount
  <2>2. FirstRight'
    BY <1>1, <1>4, <2>1, FirstAgrees
  <2>3. Forwards'
    BY <1>1, <1>2, <1>6, <1>7, <1>8, <2>2 DEF Forwards, Circular!Built
  <2> QED
    BY <1>1, <2>3
<1>9. CASE Len(order') = Cardinality(Circular!Nodes)
  <2>1. visited' = {} /\ Of(order') = Circular!Nodes
    BY <1>3, <1>6, <1>9, SameCount
  <2>2. Of(stack') = {}
    <3>1. Of(stack') \subseteq Circular!Nodes
      <4>1. \A k \in DOMAIN stack' : stack'[k] \in Circular!Nodes
        BY <1>5
      <4> QED
        BY <4>1 DEF Of
    <3> QED
      BY <1>5, <2>1, <3>1
  <2>4. AllLeft'
    BY <1>5, <1>7, <2>1 DEF AllLeft
  <2>5. OrderAt(order)'
    BY <1>1, <1>4, <1>7, GraphStays DEF OrderAt
  <2>6. SecondAt(visited, stack, circle, circles)'
    <3>1. Done(visited, stack, circle)' = {}
      BY <2>1 DEF Done
    <3> QED
      BY <1>1, <1>2, <1>5, <1>7, <2>1, <2>2, <3>1 DEF SecondAt
  <2>7. Circular!Nodes # {}
    <3>1. Circular!Top \in Circular!Nodes
      BY <1>2, <1>3, StackLeads
    <3> QED
      BY <3>1
  <2>8. Backwards'
    BY <1>1, <1>2, <1>7, <1>9, <2>4, <2>5, <2>6, <2>7 DEF Backwards, Circular!Built
  <2> QED
    BY <1>1, <2>8
<1> QED
  BY <1>8, <1>9

(* The second pass comes after the first.                                   *)
LEMMA SecondPhase ==
  ASSUME CycleInv, Circular!SecondPass
  PROVE  Backwards
<1>1. EdgeTypes /\ Cardinality(Circular!Nodes) \in Nat
  BY EdgesTyped DEF CycleInv
<1>2. Circular!Nodes # {} /\ Len(order) = Cardinality(Circular!Nodes)
  BY SameCount DEF Circular!SecondPass
<1>3. ~Forwards
  BY <1>1, <1>2 DEF Forwards
<1>4. Cardinality(Circular!Nodes) # 0
  BY <1>1, <1>2, FS_EmptySet DEF EdgeTypes
<1>5. ~Beginning
  BY <1>2, <1>4 DEF Beginning
<1> QED
  BY <1>3, <1>5 DEF CycleInv

(* A step of the second pass keeps what it has.                             *)
LEMMA CircleSteps ==
  ASSUME CycleInv, Circular!StartCircle \/ Circular!WidenCircle \/ Circular!CloseCircle
  PROVE  Backwards' /\ UNCHANGED <<references, taken, edges, missed, cached, held>>
<1>1. Circular!SecondPass /\ UNCHANGED <<references, taken, edges, missed, cached, held, order>>
  BY DEF Circular!StartCircle, Circular!WidenCircle, Circular!CloseCircle, Circular!graphVars
<1>2. Backwards
  BY <1>1, SecondPhase
<1>3. EdgeTypes /\ AllLeft /\ OrderAt(order) /\ SecondAt(visited, stack, circle, circles)
  BY <1>2, EdgesTyped DEF Backwards, CycleInv
<1>4. SecondAt(visited', stack', circle', circles')
  <2>1. CASE Circular!StartCircle
    <3>1. /\ stack = <<>> /\ circle = {} /\ Circular!Nodes \ visited # {}
          /\ circle' = circle /\ circles' = circles
      BY <2>1 DEF Circular!StartCircle
    <3> DEFINE n == order[Circular!Max({k \in DOMAIN order : order[k] \notin visited})]
    <3>2. visited' = visited \cup {n} /\ stack' = <<n>>
      BY <2>1 DEF Circular!StartCircle
    <3>3. SecondAt(visited \cup {n}, <<n>>, {}, circles)
      BY <1>3, <3>1, StartCircleKeeps
    <3> HIDE DEF n
    <3> QED
      BY <3>1, <3>2, <3>3
  <2>2. CASE Circular!WidenCircle
    <3> DEFINE more == Circular!Backward(Circular!Top) \ visited
    <3>1. /\ stack # <<>> /\ visited' = visited \cup more
          /\ stack' = Circular!Popped \o Circular!Descending(more)
          /\ circle' = circle \cup {Circular!Top} /\ circles' = circles
      BY <2>2 DEF Circular!WidenCircle
    <3>2. SecondAt(visited \cup more, Circular!Popped \o Circular!Descending(more),
                   circle \cup {Circular!Top}, circles)
      BY <1>3, <3>1, WidenKeeps
    <3> HIDE DEF more
    <3> QED
      BY <3>1, <3>2
  <2>3. CASE Circular!CloseCircle
    <3>1. /\ stack = <<>> /\ circle # {} /\ visited' = visited /\ stack' = stack /\ circle' = {}
          /\ circles' = IF Circular!Circular(circle) THEN circles \cup {circle} ELSE circles
      BY <2>3 DEF Circular!CloseCircle
    <3>2. SecondAt(visited, stack, {}, IF Circular!Circular(circle) THEN circles \cup {circle} ELSE circles)
      BY <1>3, <3>1, CloseKeeps
    <3> QED
      BY <3>1, <3>2
  <2> QED
    BY <2>1, <2>2, <2>3
<1>5. Backwards'
  BY <1>1, <1>2, <1>4, SecondAgrees
<1> QED
  BY <1>1, <1>5

(* The references, the edges and the cache stay right while cells are       *)
(* walked over.                                                             *)
LEMMA BookStays ==
  ASSUME BookTypes, EdgesRight, CacheRight, UNCHANGED <<references, taken, edges, missed, cached, held>>
  PROVE  BookTypes' /\ EdgesRight' /\ CacheRight'
<1>1. Circular!Nodes' = Circular!Nodes /\ \A r : Circular!InRange(r)' = Circular!InRange(r)
  BY DEF Circular!Nodes, Circular!InRange
<1>2. BookTypes'
  BY DEF BookTypes
<1>3. Named(taken)' = Named(taken)
  BY <1>1 DEF Named
<1>4. EdgesRight'
  BY <1>3 DEF EdgesRight
<1>5. CacheRight'
  <2>1. Circular!Total(cached)' = Circular!Total(cached)
    BY DEF Circular!Total
  <2> QED
    BY <1>1, <2>1 DEF CacheRight
<1> QED
  BY <1>2, <1>4, <1>5

(* A step of the detection keeps CycleInv.                                  *)
LEMMA CyclesSteps ==
  ASSUME CycleInv, Circular!CyclesNext \/ UNCHANGED Circular!cycleVars
  PROVE  CycleInv'
<1>1. CASE Circular!AddRange
  <2>1. BookTypes' /\ CacheRight' /\ EdgesRight'
    BY <1>1, AddRangeKeeps DEF CycleInv
  <2>2. ~Circular!Built /\ UNCHANGED <<visited, stack, order, circle, circles>>
    <3>1. taken < Len(references) /\ UNCHANGED <<visited, stack, order, circle, circles>>
      BY <1>1 DEF Circular!AddRange, Circular!walkVars
    <3>2. Len(references) \in Nat /\ taken \in Nat
      BY CellsFinite DEF CycleInv, BookTypes, IsList
    <3> QED
      BY <3>1, <3>2 DEF Circular!Built
  <2>3. Beginning
    BY <2>2 DEF CycleInv, Forwards, Backwards
  <2>4. Beginning'
    BY <2>2, <2>3 DEF Beginning
  <2> QED
    BY <2>1, <2>4 DEF CycleInv
<1>2. CASE Circular!StartWalk \/ Circular!Descend
  BY <1>2, PushSteps, BookStays DEF CycleInv
<1>3. CASE Circular!LeaveCell
  BY <1>3, LeaveSteps, BookStays DEF CycleInv
<1>4. CASE Circular!StartCircle \/ Circular!WidenCircle \/ Circular!CloseCircle
  BY <1>4, CircleSteps, BookStays DEF CycleInv
<1>5. CASE UNCHANGED Circular!cycleVars
  <2>1. UNCHANGED <<references, taken, edges, missed, cached, held>>
        /\ UNCHANGED <<visited, stack, order, circle, circles>>
    BY <1>5 DEF Circular!cycleVars, Circular!graphVars, Circular!walkVars
  <2>2. BookTypes' /\ EdgesRight' /\ CacheRight'
    BY <2>1, BookStays DEF CycleInv
  <2>3. Beginning => Beginning'
    BY <2>1 DEF Beginning
  <2>4. Backwards => Backwards'
    <3> SUFFICES ASSUME Backwards PROVE Backwards'
      OBVIOUS
    <3>1. SecondAt(visited', stack', circle', circles')
      BY <2>1 DEF Backwards
    <3> QED
      BY <2>1, <3>1, SecondAgrees
  <2>5. Forwards => Forwards'
    <3> SUFFICES ASSUME Forwards PROVE Forwards'
      OBVIOUS
    <3>1. FirstAt(visited', stack', order') /\ OrderAt(order')
      BY <2>1 DEF Forwards, FirstRight
    <3>2. FirstRight' /\ Circular!Nodes' = Circular!Nodes
      BY <2>1, <3>1, FirstAgrees, GraphStays
    <3> QED
      BY <2>1, <3>2 DEF Forwards, Circular!Built
  <2> QED
    BY <2>2, <2>3, <2>4, <2>5 DEF CycleInv
<1> QED
  BY <1>1, <1>2, <1>3, <1>4, <1>5 DEF Circular!CyclesNext

-----------------------------------------------------------------------------
(* All that the formulas name, and what they lead to.                       *)
AllNamed == Named(Len(references))
NamedBy(S) ==
  {m \in Circular!Nodes : \E i \in DOMAIN references :
     references[i].cell \in S /\ m \in Circular!InRange(references[i].range)}
Reaching(n) == {m \in Circular!Nodes : \E z \in Circular!Nodes : <<n, z>> \in AllNamed /\ m \in Led(Circular!Nodes, AllNamed, z)}
RoundOf(E, n) == {m \in Circular!Nodes : SameReach(Circular!Nodes, E, n, m)}

(* The cells that references name, from those of a set.                     *)
LEMMA NamedByEdges ==
  ASSUME BookTypes
  PROVE  /\ AllNamed \in SUBSET (Circular!Nodes \X Circular!Nodes)
         /\ \A S, m : m \in NamedBy(S) <=> \E y \in S : <<y, m>> \in AllNamed
<1>1. IsList(references)
  BY CellsFinite
<1>2. DOMAIN references = 1..Len(references)
  BY <1>1 DEF IsList
<1>3. AllNamed \in SUBSET (Circular!Nodes \X Circular!Nodes)
  BY DEF AllNamed, Named
<1>4. ASSUME NEW S, NEW m, m \in NamedBy(S) PROVE \E y \in S : <<y, m>> \in AllNamed
  <2>1. PICK i \in DOMAIN references : references[i].cell \in S /\ m \in Circular!InRange(references[i].range)
    BY <1>4 DEF NamedBy
  <2> DEFINE y == references[i].cell
             p == <<y, m>>
  <2>2. y \in Circular!Nodes /\ m \in Circular!Nodes
    BY <1>4, <2>1 DEF Circular!Nodes, NamedBy
  <2>3. p \in Circular!Nodes \X Circular!Nodes /\ p[1] = y /\ p[2] = m
    BY <2>2
  <2> HIDE DEF p
  <2>4. p \in AllNamed
    BY <1>2, <2>1, <2>3 DEF AllNamed, Named
  <2> QED
    BY <2>1, <2>4 DEF p
<1>5. ASSUME NEW S, NEW m, NEW y \in S, <<y, m>> \in AllNamed PROVE m \in NamedBy(S)
  <2> DEFINE p == <<y, m>>
  <2>1. p \in Circular!Nodes \X Circular!Nodes /\ p[1] = y /\ p[2] = m
    BY <1>3, <1>5
  <2>2. \E i \in 1..Len(references) : references[i].cell = p[1] /\ p[2] \in Circular!InRange(references[i].range)
    BY <1>5 DEF AllNamed, Named
  <2> QED
    BY <1>2, <2>1, <2>2 DEF NamedBy
<1> QED
  BY <1>3, <1>4, <1>5

(* What the formulas lead to is named, and then reached, from there.        *)
LEMMA LeadsIsReaching ==
  ASSUME BookTypes, NEW n \in Circular!Nodes
  PROVE  Circular!Leads(n) = Reaching(n)
<1> DEFINE N == Circular!Nodes
           W == Cardinality(N)
           T == [S \in SUBSET N |-> S \cup NamedBy({n} \cup S)]
           IsGrown(g) == g = [k \in 0..W |-> IF k = 0 THEN {} ELSE g[k - 1] \cup NamedBy({n} \cup g[k - 1])]
           grow == CHOOSE g : IsGrown(g)
<1>1. IsFiniteSet(N) /\ W \in Nat
  BY CellsFinite, FS_CardinalityType
<1>2. T \in [SUBSET N -> SUBSET N] /\ \A X \in SUBSET N : X \subseteq T[X]
  BY DEF NamedBy
<1>3. Circular!Leads(n) = grow[W]
  BY SameCount DEF Circular!Leads, NamedBy
<1>4. ASSUME NEW g, Grows(T, {}, W, g) PROVE IsGrown(g)
  <2>0. {} \in SUBSET N
    OBVIOUS
  <2> HIDE DEF T, N
  <2>1. \A k \in 0..W : g[k] \in SUBSET N
    <3> DEFINE S == {k \in Nat : k <= W => g[k] \in SUBSET N}
    <3>1. 0 \in S
      BY <1>1, <1>4 DEF Grows
    <3>2. ASSUME NEW k \in Nat, k \in S PROVE k + 1 \in S
      <4> SUFFICES ASSUME k + 1 <= W PROVE g[k + 1] \in SUBSET N
        OBVIOUS
      <4>1. g[k] \in SUBSET N /\ k + 1 \in 0..W /\ k + 1 # 0 /\ (k + 1) - 1 = k
        BY <1>1, <3>2
      <4>2. g[k + 1] = T[g[k]]
        BY <1>4, <4>1 DEF Grows
      <4> QED
        BY <1>2, <4>1, <4>2
    <3> HIDE DEF S
    <3>3. \A k \in Nat : k \in S
      BY <3>1, <3>2, Induction
    <3> QED
      BY <3>3 DEF S
  <2>2. ASSUME NEW k \in 0..W, k # 0
        PROVE  T[g[k - 1]] = g[k - 1] \cup NamedBy({n} \cup g[k - 1])
    <3>1. k - 1 \in 0..W
      BY <1>1, <2>2
    <3>2. g[k - 1] \in SUBSET N
      BY <2>1, <3>1
    <3> QED
      BY <3>2 DEF T
  <2>3. IsGrown(g)
    BY <1>4, <2>2 DEF Grows, N
  <2> QED
    BY <2>3
<1>5. \E g : Grows(T, {}, W, g)
  <2> HIDE DEF T, N
  <2> QED
    BY <1>1, <1>2, GrowsExists
<1>6. IsGrown(grow)
  <2> HIDE DEF IsGrown
  <2> QED
    BY <1>4, <1>5
<1> HIDE DEF grow
<1>7. Grows(T, {}, W, grow)
  <2>1. \A k \in 0..W : grow[k] \in SUBSET N
    <3> DEFINE S == {k \in Nat : k <= W => grow[k] \in SUBSET N}
    <3>1. 0 \in S
      BY <1>1, <1>6
    <3>2. ASSUME NEW k \in Nat, k \in S PROVE k + 1 \in S
      <4> SUFFICES ASSUME k + 1 <= W PROVE grow[k + 1] \in SUBSET N
        OBVIOUS
      <4>1. grow[k] \in SUBSET N /\ k + 1 \in 0..W /\ k + 1 # 0 /\ (k + 1) - 1 = k
        BY <1>1, <3>2
      <4>2. grow[k + 1] = grow[k] \cup NamedBy({n} \cup grow[k])
        BY <1>6, <4>1
      <4> QED
        BY <4>1, <4>2 DEF NamedBy
    <3> HIDE DEF S
    <3>3. \A k \in Nat : k \in S
      BY <3>1, <3>2, Induction
    <3> QED
      BY <3>3 DEF S
  <2>2. ASSUME NEW k \in 0..W, k # 0
        PROVE  T[grow[k - 1]] = grow[k - 1] \cup NamedBy({n} \cup grow[k - 1])
    <3>1. k - 1 \in 0..W
      BY <1>1, <2>2
    <3>2. grow[k - 1] \in SUBSET N
      BY <2>1, <3>1
    <3> QED
      BY <3>2
  <2> HIDE DEF T
  <2>3. grow = [k \in 0..W |-> IF k = 0 THEN {} ELSE T[grow[k - 1]]]
    BY <1>6, <2>2
  <2> QED
    BY <2>3 DEF Grows
<1>8. LeastClosed(N, T, {}, grow[W])
  <2>1. Cardinality(N) <= W + Cardinality({}) /\ {} \in SUBSET N
    BY <1>1, FS_EmptySet
  <2> HIDE DEF T, N
  <2> QED
    BY <1>1, <1>2, <1>7, <2>1, GrowsToLeast
<1> DEFINE L == grow[W]
<1> HIDE DEF L
<1>9. /\ L \in SUBSET N /\ T[L] = L
      /\ \A U \in SUBSET N : (\A X \in SUBSET U : T[X] \subseteq U) => L \subseteq U
  BY <1>8 DEF LeastClosed, L
<1>10. /\ AllNamed \in SUBSET (N \X N)
       /\ \A S, m : m \in NamedBy(S) <=> \E y \in S : <<y, m>> \in AllNamed
  BY NamedByEdges
<1>11. Reaching(n) \subseteq L
  <2>1. \A m : m \in NamedBy({n} \cup L) => m \in L
    BY <1>9
  <2> SUFFICES ASSUME NEW m \in Reaching(n) PROVE m \in L
    OBVIOUS
  <2>2. PICK z \in N : <<n, z>> \in AllNamed /\ m \in Led(N, AllNamed, z)
    BY DEF Reaching
  <2>3. z \in L
    BY <1>10, <2>1, <2>2
  <2>4. Closed(AllNamed, L)
    <3> SUFFICES ASSUME NEW p \in AllNamed, p[1] \in L PROVE p[2] \in L
      BY DEF Closed
    <3>1. p = <<p[1], p[2]>>
      BY <1>10
    <3> QED
      BY <1>10, <2>1, <3>1
  <2> QED
    BY <1>10, <2>2, <2>3, <2>4, LedIsLeast
<1>12. L \subseteq Reaching(n)
  <2> DEFINE U == Reaching(n)
  <2>1. U \in SUBSET N
    BY DEF Reaching
  <2>2. ASSUME NEW X \in SUBSET U PROVE T[X] \subseteq U
    <3>1. X \in SUBSET N
      BY <2>1
    <3>2. T[X] = X \cup NamedBy({n} \cup X)
      BY <3>1
    <3>3. ASSUME NEW m \in NamedBy({n} \cup X) PROVE m \in U
      <4>1. PICK y \in {n} \cup X : <<y, m>> \in AllNamed
        BY <1>10, <3>3
      <4>2. m \in N
        BY <3>3 DEF NamedBy
      <4>3. CASE y = n
        <5>1. m \in Led(N, AllNamed, m)
          BY <1>10, <4>2, LedIsLeast
        <5> QED
          BY <4>1, <4>2, <4>3, <5>1 DEF Reaching
      <4>4. CASE y \in X
        <5>1. PICK z \in N : <<n, z>> \in AllNamed /\ y \in Led(N, AllNamed, z)
          BY <4>4 DEF Reaching
        <5>2. m \in Led(N, AllNamed, z)
          BY <1>10, <4>1, <5>1, LedOn
        <5> QED
          BY <4>2, <5>1, <5>2 DEF Reaching
      <4> QED
        BY <4>1, <4>3, <4>4
    <3> HIDE DEF T, U
    <3> QED
      BY <3>2, <3>3
  <2> HIDE DEF T, U
  <2> QED
    BY <1>9, <2>1, <2>2 DEF U
<1> QED
  BY <1>3, <1>11, <1>12 DEF L

(* Reaching oneself is to be on a circle with another cell, or to name      *)
(* oneself; and the cells that lead to each other are then that circle.     *)
LEMMA RoundFacts ==
  ASSUME BookTypes, NEW n \in Circular!Nodes
  PROVE  /\ n \in Reaching(n) => \/ <<n, n>> \in AllNamed
                                 \/ \E m \in RoundOf(AllNamed, n) : m # n
         /\ (\E m \in RoundOf(AllNamed, n) : m # n \/ <<m, m>> \in AllNamed) => n \in Reaching(n)
         /\ n \in Reaching(n) => \A m : m \in Reaching(n) /\ n \in Reaching(m) <=> m \in RoundOf(AllNamed, n)
         /\ n \in RoundOf(AllNamed, n)
<1> DEFINE N == Circular!Nodes
           F == AllNamed
<1>1. F \in SUBSET (N \X N)
  BY NamedByEdges
<1> HIDE DEF N, F
<1>2. ASSUME NEW x \in N
      PROVE  /\ Reaching(x) \subseteq Led(N, F, x) /\ Led(N, F, x) \subseteq {x} \cup Reaching(x)
             /\ x \in Led(N, F, x) /\ Led(N, F, x) \subseteq N
             /\ \A y \in Led(N, F, x) : Led(N, F, y) \subseteq Led(N, F, x)
  <2>1. /\ x \in Led(N, F, x) /\ Led(N, F, x) \subseteq N
        /\ \A S : x \in S /\ Closed(F, S) => Led(N, F, x) \subseteq S
        /\ \A y \in Led(N, F, x) : Led(N, F, y) \subseteq Led(N, F, x)
    BY <1>1, LedIsLeast
  <2>2. ASSUME NEW m \in Reaching(x) PROVE m \in Led(N, F, x)
    <3>1. PICK z \in N : <<x, z>> \in F /\ m \in Led(N, F, z)
      BY <2>2 DEF Reaching, N, F
    <3>2. z \in Led(N, F, x)
      BY <1>1, <2>1, <3>1, LedOn
    <3> QED
      BY <2>1, <3>1, <3>2
  <2>3. Closed(F, {x} \cup Reaching(x))
    <3> SUFFICES ASSUME NEW p \in F, p[1] \in {x} \cup Reaching(x) PROVE p[2] \in Reaching(x)
      BY DEF Closed
    <3>1. p = <<p[1], p[2]>> /\ p[2] \in N
      BY <1>1
    <3>2. CASE p[1] = x
      <4>1. p[2] \in Led(N, F, p[2])
        BY <1>1, <3>1, LedIsLeast
      <4> QED
        BY <3>1, <3>2, <4>1 DEF Reaching, N, F
    <3>3. CASE p[1] \in Reaching(x)
      <4>1. PICK z \in N : <<x, z>> \in F /\ p[1] \in Led(N, F, z)
        BY <3>3 DEF Reaching, N, F
      <4>2. p[2] \in Led(N, F, z)
        BY <1>1, <3>1, <4>1, LedOn
      <4> QED
        BY <3>1, <4>1, <4>2 DEF Reaching, N, F
    <3> QED
      BY <3>2, <3>3
  <2> QED
    BY <2>1, <2>2, <2>3
<1>3. \A m : m \in RoundOf(F, n) <=> m \in N /\ m \in Led(N, F, n) /\ n \in Led(N, F, m)
  BY DEF RoundOf, SameReach, N
<1>4. n \in N
  BY DEF N
<1>5. n \in RoundOf(F, n)
  BY <1>2, <1>3, <1>4
<1>6. ASSUME n \in Reaching(n), <<n, n>> \notin F PROVE \E m \in RoundOf(F, n) : m # n
  <2>1. PICK z \in N : <<n, z>> \in F /\ n \in Led(N, F, z)
    BY <1>6 DEF Reaching, N, F
  <2>2. z # n
    BY <1>6, <2>1
  <2>3. n \in Led(N, F, n)
    BY <1>2, <1>4
  <2>4. z \in Led(N, F, n)
    BY <1>1, <1>4, <2>1, <2>3, LedOn
  <2> QED
    BY <1>3, <2>1, <2>2, <2>4
<1>7. ASSUME NEW m \in RoundOf(F, n), m # n PROVE n \in Reaching(n)
  <2>1. m \in N /\ m \in Led(N, F, n) /\ n \in Led(N, F, m)
    BY <1>3
  <2>2. m \in Reaching(n)
    BY <1>2, <1>4, <1>7, <2>1
  <2>3. PICK z \in N : <<n, z>> \in F /\ m \in Led(N, F, z)
    BY <2>2 DEF Reaching, N, F
  <2>4. n \in Led(N, F, z)
    BY <1>2, <2>1, <2>3
  <2> QED
    BY <1>4, <2>3, <2>4 DEF Reaching, N, F
<1>8. ASSUME <<n, n>> \in F PROVE n \in Reaching(n)
  <2>1. n \in Led(N, F, n)
    BY <1>2, <1>4
  <2> QED
    BY <1>4, <1>8, <2>1 DEF Reaching, N, F
<1>9. ASSUME n \in Reaching(n), NEW m
      PROVE  m \in Reaching(n) /\ n \in Reaching(m) <=> m \in RoundOf(F, n)
  <2>1. ASSUME m \in Reaching(n), n \in Reaching(m) PROVE m \in RoundOf(F, n)
    <3>1. m \in N
      BY <2>1 DEF Reaching, N
    <3> QED
      BY <1>2, <1>3, <1>4, <2>1, <3>1
  <2>2. ASSUME m \in RoundOf(F, n) PROVE m \in Reaching(n) /\ n \in Reaching(m)
    <3>1. m \in N /\ m \in Led(N, F, n) /\ n \in Led(N, F, m)
      BY <1>3, <2>2
    <3>2. m \in {n} \cup Reaching(n) /\ n \in {m} \cup Reaching(m)
      BY <1>2, <1>4, <3>1
    <3> QED
      BY <1>9, <3>2
  <2> QED
    BY <2>1, <2>2
<1> QED
  BY <1>5, <1>6, <1>7, <1>8, <1>9 DEF F, N

(* The circles of the formulas.                                             *)
LEMMA WholeIsRounds ==
  ASSUME BookTypes
  PROVE  /\ \A x : x \in Circular!Whole <=> \E n \in Circular!Nodes : n \in Reaching(n) /\ x = RoundOf(AllNamed, n)
<1>1. \A n \in Circular!Nodes : Circular!Leads(n) = Reaching(n)
  BY LeadsIsReaching
<1>2. \A n \in Circular!Nodes : Reaching(n) \subseteq Circular!Nodes
  BY DEF Reaching
<1>3. ASSUME NEW n \in Circular!Nodes, n \in Reaching(n)
      PROVE  {m \in Circular!Leads(n) : n \in Circular!Leads(m)} = RoundOf(AllNamed, n)
  <2>1. \A m : m \in Reaching(n) /\ n \in Reaching(m) <=> m \in RoundOf(AllNamed, n)
    BY <1>3, RoundFacts
  <2>2. \A m \in Circular!Leads(n) : m \in Circular!Nodes /\ Circular!Leads(m) = Reaching(m)
    BY <1>1, <1>2
  <2>3. Circular!Leads(n) = Reaching(n)
    BY <1>1
  <2> QED
    BY <2>1, <2>2, <2>3
<1>4. \A n \in Circular!Nodes : n \in Circular!Leads(n) <=> n \in Reaching(n)
  BY <1>1
<1>5. \A x : x \in Circular!Whole <=>
        \E n \in Circular!Nodes : /\ n \in Circular!Leads(n)
                                  /\ x = {m \in Circular!Leads(n) : n \in Circular!Leads(m)}
  BY DEF Circular!Whole
<1>6. ASSUME NEW x, x \in Circular!Whole
      PROVE  \E n \in Circular!Nodes : n \in Reaching(n) /\ x = RoundOf(AllNamed, n)
  <2>1. PICK n \in Circular!Nodes : /\ n \in Circular!Leads(n)
                                    /\ x = {m \in Circular!Leads(n) : n \in Circular!Leads(m)}
    BY <1>5, <1>6
  <2>2. n \in Reaching(n)
    BY <1>4, <2>1
  <2>3. x = RoundOf(AllNamed, n)
    BY <1>3, <2>1, <2>2
  <2> QED
    BY <2>2, <2>3
<1>7. ASSUME NEW x, NEW n \in Circular!Nodes, n \in Reaching(n), x = RoundOf(AllNamed, n)
      PROVE  x \in Circular!Whole
  <2>1. x = {m \in Circular!Leads(n) : n \in Circular!Leads(m)}
    BY <1>3, <1>7
  <2>2. n \in Circular!Leads(n)
    BY <1>4, <1>7
  <2> QED
    BY <1>5, <2>1, <2>2
<1> QED
  BY <1>6, <1>7

(* Some cells are more than one just when one is not another.               *)
LEMMA Several ==
  ASSUME BookTypes, NEW S, S \subseteq Circular!Nodes, NEW n \in S
  PROVE  Circular!Cardinality(S) > 1 <=> \E m \in S : m # n
<1>1. IsFiniteSet(S) /\ Cardinality(S) \in Nat
  BY CellsFinite, FS_Subset, FS_CardinalityType
<1>2. IsFiniteSet({n}) /\ Cardinality({n}) = 1
  BY FS_Singleton
<1>3. (\E m \in S : m # n) => Cardinality({n}) # Cardinality(S)
  BY <1>1, FS_Subset
<1>4. Cardinality({n}) <= Cardinality(S)
  BY <1>1, FS_Subset
<1>5. (\A m \in S : m = n) => S = {n}
  OBVIOUS
<1> QED
  BY <1>1, <1>2, <1>3, <1>4, <1>5, SameCount

(* So a circle is found whole, and only a circle, unless edges were missed. *)
THEOREM CirclesAreExact ==
  ASSUME CycleInv
  PROVE  Circular!CirclesExact
<1>1. BookTypes /\ EdgesRight /\ CacheRight /\ EdgeTypes /\ Cardinality(Circular!Nodes) \in Nat
  BY EdgesTyped DEF CycleInv
<1>2. Circular!Cardinality(edges) <= MaxEdges
  BY <1>1, SameCount DEF EdgesRight
<1>3. ASSUME Circular!Found
      PROVE  /\ edges \subseteq AllNamed /\ (missed = 0 => edges = AllNamed)
             /\ \A x : x \in circles <=> \E n \in Circular!Nodes : x = RoundOf(edges, n) /\ Circular!Circular(x)
  <2>1. Backwards
    BY <1>3, SecondPhase DEF CycleInv, Circular!Found
  <2>2. visited = Circular!Nodes /\ stack = <<>> /\ circle = {} /\ taken = Len(references)
    BY <1>3 DEF Circular!Found, Circular!SecondPass, Circular!Built
  <2>3. Done(visited, stack, circle) = Circular!Nodes
    <3>1. Of(stack) = {}
      BY <2>2 DEF Of
    <3> QED
      BY <2>2, <3>1 DEF Done
  <2>4. \A n : CircleOf(n) = RoundOf(edges, n)
    BY DEF CircleOf, RoundOf, Same
  <2>5. \A x : x \in circles <=> \E n \in Circular!Nodes : x = CircleOf(n) /\ Circular!Circular(x)
    BY <2>1, <2>3 DEF Backwards, SecondAt
  <2> QED
    BY <1>1, <2>2, <2>4, <2>5 DEF EdgesRight, AllNamed
<1>4. /\ AllNamed \in SUBSET (Circular!Nodes \X Circular!Nodes)
      /\ \A x : x \in Circular!Whole <=> \E n \in Circular!Nodes : n \in Reaching(n) /\ x = RoundOf(AllNamed, n)
  BY <1>1, NamedByEdges, WholeIsRounds
<1>5. ASSUME Circular!Found, NEW n \in Circular!Nodes, Circular!Circular(RoundOf(edges, n))
      PROVE  n \in Reaching(n) /\ RoundOf(edges, n) \subseteq RoundOf(AllNamed, n)
  <2>1. edges \subseteq AllNamed
    BY <1>3, <1>5
  <2>2. RoundOf(edges, n) \subseteq RoundOf(AllNamed, n)
    <3> SUFFICES ASSUME NEW m \in RoundOf(edges, n) PROVE m \in RoundOf(AllNamed, n)
      OBVIOUS
    <3>1. m \in Circular!Nodes /\ m \in Led(Circular!Nodes, edges, n) /\ n \in Led(Circular!Nodes, edges, m)
      BY DEF RoundOf, SameReach
    <3>2. m \in Led(Circular!Nodes, AllNamed, n) /\ n \in Led(Circular!Nodes, AllNamed, m)
      BY <1>1, <1>4, <2>1, <3>1, LedByMore DEF EdgeTypes
    <3> QED
      BY <3>1, <3>2 DEF RoundOf, SameReach
  <2>3. n \in RoundOf(edges, n) /\ RoundOf(edges, n) \subseteq Circular!Nodes
    <3>1. Same(n, n)
      BY <1>1, GoesOn
    <3> QED
      BY <3>1 DEF RoundOf, Same
  <2>4. \/ \E m \in RoundOf(edges, n) : m # n
        \/ \E m \in RoundOf(edges, n) : <<m, m>> \in edges
    BY <1>1, <1>5, <2>3, Several DEF Circular!Circular
  <2>5. \E m \in RoundOf(AllNamed, n) : m # n \/ <<m, m>> \in AllNamed
    BY <2>1, <2>2, <2>4
  <2> QED
    BY <1>1, <2>2, <2>5, RoundFacts
<1>6. ASSUME Circular!Found, missed = 0 PROVE circles = Circular!Whole
  <2>1. edges = AllNamed
    BY <1>3, <1>6
  <2>2. \A x \in circles : x \in Circular!Whole
    BY <1>3, <1>4, <1>5, <1>6, <2>1
  <2>3. ASSUME NEW x \in Circular!Whole PROVE x \in circles
    <3>1. PICK n \in Circular!Nodes : n \in Reaching(n) /\ x = RoundOf(AllNamed, n)
      BY <1>4
    <3>2. /\ <<n, n>> \in AllNamed \/ \E m \in RoundOf(AllNamed, n) : m # n
          /\ n \in RoundOf(AllNamed, n)
      BY <1>1, <3>1, RoundFacts
    <3>3. RoundOf(AllNamed, n) \subseteq Circular!Nodes
      BY DEF RoundOf
    <3>4. Circular!Circular(x)
      BY <1>1, <2>1, <3>1, <3>2, <3>3, Several DEF Circular!Circular
    <3> QED
      BY <1>3, <1>6, <2>1, <3>1, <3>4
  <2> QED
    BY <2>2, <2>3
<1>7. ASSUME Circular!Found, NEW c \in circles PROVE \E w \in Circular!Whole : c \subseteq w
  <2>1. PICK n \in Circular!Nodes : c = RoundOf(edges, n) /\ Circular!Circular(c)
    BY <1>3, <1>7
  <2>2. n \in Reaching(n) /\ c \subseteq RoundOf(AllNamed, n)
    BY <1>5, <1>7, <2>1
  <2> QED
    BY <1>4, <2>2
<1>8. held = Circular!Total(cached) /\ Len(cached) <= MaxCached /\ (cached # <<>> => held <= MaxMembers)
  BY <1>1 DEF CacheRight
<1> QED
  BY <1>2, <1>6, <1>7, <1>8 DEF Circular!CirclesExact
-----------------------------------------------------------------------------
(* Rows aligned (RowAlignment).                                             *)

(* Pairs of S and T, each element in one at most.                           *)
Apaired(P, S, T) == P \subseteq S \X T /\ \A p, q \in P : p[1] = q[1] <=> p[2] = q[2]

RowSet(S) == IsFiniteSet(S) /\ \A x \in S : x \in Int

(* Both sides count alike.                                                  *)
LEMMA RowCount ==
  ASSUME NEW S
  PROVE  Align!Cardinality(S) = Cardinality(S)
BY DEF Align!Cardinality, Cardinality

(* From the end, too, each element has a number of its own.                 *)
EndRank(S, i) == Cardinality({k \in S : k > i})

(* From the end, too, no two elements have one number.                      *)
LEMMA FromEndOneToOne ==
  ASSUME NEW S, RowSet(S), NEW i \in S, NEW j \in S, EndRank(S, i) = EndRank(S, j)
  PROVE  i = j
<1>1. ASSUME NEW x \in S, NEW y \in S, x < y
      PROVE  EndRank(S, x) # EndRank(S, y)
  <2> DEFINE A == {k \in S : k > x}
             B == {k \in S : k > y}
  <2>1. B \subseteq A /\ y \in A /\ y \notin B /\ A \subseteq S
    BY <1>1 DEF RowSet
  <2> HIDE DEF A, B
  <2>2. IsFiniteSet(A)
    BY <2>1, FS_Subset DEF RowSet
  <2>3. Cardinality(B) # Cardinality(A)
    BY <2>1, <2>2, FS_Subset
  <2> QED
    BY <2>3 DEF A, B, EndRank
<1>2. i \in Int /\ j \in Int
  BY DEF RowSet
<1> QED
  BY <1>1, <1>2

(* The nth is paired with the nth.                                          *)
LEMMA OrderedArePaired ==
  ASSUME NEW S, NEW T, RowSet(S), RowSet(T)
  PROVE  Apaired(Align!InOrder(S, T), S, T) /\ Apaired(Align!FromEnd(S, T), S, T)
<1>1. ASSUME NEW p \in Align!InOrder(S, T), NEW q \in Align!InOrder(S, T)
      PROVE  p[1] = q[1] <=> p[2] = q[2]
  <2>1. /\ p[1] \in S /\ p[2] \in T /\ q[1] \in S /\ q[2] \in T
        /\ RankOf(S, p[1]) = RankOf(T, p[2]) /\ RankOf(S, q[1]) = RankOf(T, q[2])
    BY RowCount DEF Align!InOrder, RankOf
  <2> QED
    BY <2>1, RankOneToOne DEF RowSet
<1>2. ASSUME NEW p \in Align!FromEnd(S, T), NEW q \in Align!FromEnd(S, T)
      PROVE  p[1] = q[1] <=> p[2] = q[2]
  <2>1. /\ p[1] \in S /\ p[2] \in T /\ q[1] \in S /\ q[2] \in T
        /\ EndRank(S, p[1]) = EndRank(T, p[2]) /\ EndRank(S, q[1]) = EndRank(T, q[2])
    BY RowCount DEF Align!FromEnd, EndRank
  <2> QED
    BY <2>1, FromEndOneToOne
<1>3. Align!InOrder(S, T) \subseteq S \X T /\ Align!FromEnd(S, T) \subseteq S \X T
  BY DEF Align!InOrder, Align!FromEnd
<1> QED
  BY <1>1, <1>2, <1>3 DEF Apaired

(* Pairs of other elements come to it.                                      *)
LEMMA PairedTogether ==
  ASSUME NEW P, NEW S, NEW T, Apaired(P, S, T), NEW Q, NEW U, NEW V, Apaired(Q, U, V),
         S \cap U = {}, T \cap V = {}
  PROVE  Apaired(P \cup Q, S \cup U, T \cup V)
<1>1. \A p \in P : p[1] \in S /\ p[2] \in T /\ p \in S \X T
  BY DEF Apaired
<1>2. \A p \in Q : p[1] \in U /\ p[2] \in V /\ p \in U \X V
  BY DEF Apaired
<1>3. \A p, q \in P \cup Q : p[1] = q[1] <=> p[2] = q[2]
  <2>1. \A p \in P, q \in Q : p[1] # q[1] /\ p[2] # q[2]
    BY <1>1, <1>2
  <2> QED
    BY <2>1 DEF Apaired
<1>4. P \cup Q \subseteq (S \cup U) \X (T \cup V)
  <2>1. S \X T \subseteq (S \cup U) \X (T \cup V) /\ U \X V \subseteq (S \cup U) \X (T \cup V)
    OBVIOUS
  <2> QED
    BY <2>1 DEF Apaired
<1> QED
  BY <1>3, <1>4 DEF Apaired

(* What a region's rows are.                                                *)
LEMMA RegionRows ==
  ASSUME NEW r \in Regions
  PROVE  /\ RowSet(Align!Rows(r)) /\ Align!LastRow(r) \in Int /\ r.min \in Int
         /\ Align!Rows(r) = r.min..Align!LastRow(r) /\ r.min <= Align!LastRow(r) + 1
<1>1. r.min \in Int /\ Len(r.keys) \in Nat
  BY AlignConstants DEF IsList
<1>2. Align!LastRow(r) \in Int /\ r.min <= Align!LastRow(r) + 1
  BY <1>1 DEF Align!LastRow
<1>3. IsFiniteSet(r.min..Align!LastRow(r))
  BY <1>1, <1>2, FS_Interval
<1> QED
  BY <1>1, <1>2, <1>3 DEF Align!Rows, RowSet

(* A part of the rows is of rows.                                           *)
LEMMA PartOfRows ==
  ASSUME NEW S, RowSet(S), NEW T, T \subseteq S
  PROVE  RowSet(T)
BY FS_Subset DEF RowSet

(* The alignment of a base and a current region is whole.                   *)
Accounts(a, b, c) ==
  /\ \A p, q \in a.pairs : p[1] = q[1] <=> p[2] = q[2]
  /\ Align!Left(a.pairs) \cup a.deleted \cup a.skippedBase = Align!Rows(b)
  /\ Align!Right(a.pairs) \cup a.inserted \cup a.growth \cup a.skippedCurr = Align!Rows(c)
  /\ Align!Left(a.pairs) \cap (a.deleted \cup a.skippedBase) = {}
  /\ a.deleted \cap a.skippedBase = {}
  /\ Align!Right(a.pairs) \cap (a.inserted \cup a.growth \cup a.skippedCurr) = {}
  /\ a.inserted \cap (a.growth \cup a.skippedCurr) = {}

(* The sides of pairs are of what is paired.                                *)
LEMMA Sides ==
  ASSUME NEW P, NEW S, NEW T, Apaired(P, S, T)
  PROVE  Align!Left(P) \subseteq S /\ Align!Right(P) \subseteq T
<1>1. \A p \in P : p[1] \in S /\ p[2] \in T
  BY DEF Apaired
<1> QED
  BY <1>1 DEF Align!Left, Align!Right

(* The sides of pairs of two kinds are those of both.                       *)
LEMMA SidesOfTwo ==
  ASSUME NEW P, NEW Q
  PROVE  /\ Align!Left(P \cup Q) = Align!Left(P) \cup Align!Left(Q)
         /\ Align!Right(P \cup Q) = Align!Right(P) \cup Align!Right(Q)
BY DEF Align!Left, Align!Right

(* Pairs, and the rest of both sides alone, account for every row (_by_pairs).*)
LEMMA ByPairsAccounts ==
  ASSUME NEW b, NEW c, NEW pairsOf, NEW periods, Apaired(pairsOf, Align!Rows(b), Align!Rows(c))
  PROVE  Accounts(Align!ByPairs(b, c, pairsOf, periods), b, c)
<1> DEFINE rest == Align!Rows(c) \ Align!Right(pairsOf)
           grown == IF periods THEN {i \in rest : Align!Grows(b, c, i)} ELSE {}
           a == Align!ByPairs(b, c, pairsOf, periods)
<1>1. grown \subseteq rest
  OBVIOUS
<1>2. /\ a.pairs = pairsOf /\ a.deleted = Align!Rows(b) \ Align!Left(pairsOf) /\ a.inserted = rest \ grown
      /\ a.growth = grown /\ a.skippedBase = {} /\ a.skippedCurr = {}
  BY DEF Align!ByPairs
<1> HIDE DEF a, grown
<1>3. Align!Left(pairsOf) \subseteq Align!Rows(b) /\ Align!Right(pairsOf) \subseteq Align!Rows(c)
  BY Sides
<1>4. Accounts(a, b, c)
  BY <1>1, <1>2, <1>3 DEF Accounts, Apaired
<1> QED
  BY <1>4 DEF a

(* Keys made unique by counting pair a row with one at most.                *)
LEMMA EntriesArePaired ==
  ASSUME NEW b \in Regions, NEW c \in Regions
  PROVE  Apaired(Align!SameEntry(b, c), Align!Rows(b), Align!Rows(c))
<1>1. ASSUME NEW r \in Regions, NEW i \in Align!Rows(r), NEW j \in Align!Rows(r),
             Align!Entry(r, i) = Align!Entry(r, j)
      PROVE  i = j
  <2> DEFINE k == Align!KeyAt(r, i)
             S == {x \in Align!Rows(r) : Align!KeyAt(r, x) = k}
  <2>1. Align!KeyAt(r, j) = k
    BY <1>1 DEF Align!Entry
  <2>2. RowSet(S) /\ i \in S /\ j \in S
    BY <2>1, RegionRows, PartOfRows
  <2>3. \A x : Align!KeyAt(r, x) = k =>
           {y \in Align!Rows(r) : y < x /\ Align!KeyAt(r, y) = Align!KeyAt(r, x)} = {y \in S : y < x}
    OBVIOUS
  <2>4. Align!Entry(r, i)[2] = RankOf(S, i)
    BY <2>3, RowCount DEF Align!Entry, RankOf
  <2>5. Align!Entry(r, j)[2] = RankOf(S, j)
    BY <2>1, <2>3, RowCount DEF Align!Entry, RankOf
  <2> HIDE DEF S, k
  <2> QED
    BY <1>1, <2>2, <2>4, <2>5, RankOneToOne DEF RowSet
<1>2. \A p \in Align!SameEntry(b, c) :
        p[1] \in Align!Rows(b) /\ p[2] \in Align!Rows(c) /\ Align!Entry(b, p[1]) = Align!Entry(c, p[2])
  BY DEF Align!SameEntry
<1>3. \A p, q \in Align!SameEntry(b, c) : p[1] = q[1] <=> p[2] = q[2]
  BY <1>1, <1>2
<1>4. Align!SameEntry(b, c) \subseteq Align!Rows(b) \X Align!Rows(c)
  BY DEF Align!SameEntry
<1> QED
  BY <1>3, <1>4 DEF Apaired

(* Aligned by keys or by position, every row is accounted for.              *)
LEMMA PlainAccounts ==
  ASSUME NEW b \in Regions, NEW c \in Regions
  PROVE  Accounts(Align!AlignByKeys(b, c), b, c) /\ Accounts(Align!AlignByPosition(b, c), b, c)
<1>1. Apaired(Align!InOrder(Align!Rows(b), Align!Rows(c)), Align!Rows(b), Align!Rows(c))
  BY RegionRows, OrderedArePaired
<1>2. Apaired(Align!SameEntry(b, c), Align!Rows(b), Align!Rows(c))
  BY EntriesArePaired
<1> QED
  BY <1>1, <1>2, ByPairsAccounts DEF Align!AlignByKeys, Align!AlignByPosition

-----------------------------------------------------------------------------
(* By an identity rule: a region is cut into three parts.                   *)

CutOf(r, h, f) == Align!Cut(r, h, f)

(* Header, body and footer share no row and are all of a region.            *)
LEMMA CutParts ==
  ASSUME NEW r \in Regions, NEW h \in Bounds \cup {None}, NEW f \in Bounds \cup {None}, Align!Fits(r, h, f)
  PROVE  LET cut == Align!Cut(r, h, f)
         IN  /\ Align!Rows(r) = cut.above \cup cut.body \cup cut.below
             /\ cut.above \cap cut.body = {} /\ cut.above \cap cut.below = {} /\ cut.body \cap cut.below = {}
             /\ RowSet(cut.above) /\ RowSet(cut.body) /\ RowSet(cut.below)
<1> DEFINE cut == Align!Cut(r, h, f)
           first == Align!BodyFirst(r, h)
           last == Align!BodyLast(r, f)
           low == r.min
           high == Align!LastRow(r)
<1>1. /\ low \in Int /\ high \in Int /\ low <= high + 1 /\ Align!Rows(r) = low..high
      /\ RowSet(Align!Rows(r))
  BY RegionRows
<1>2. (h # None => h \in Int) /\ (f # None => f \in Int)
  BY AlignConstants
<1>3. \A x, y \in Int : Align!Max({x, y}) = (IF x >= y THEN x ELSE y) /\ Align!Min({x, y}) = (IF x <= y THEN x ELSE y)
  BY DEF Align!Max, Align!Min
<1>4. /\ first = IF h = None THEN low ELSE IF low >= h + 1 THEN low ELSE h + 1
      /\ last = IF f = None THEN high ELSE IF high <= f - 1 THEN high ELSE f - 1
  <2>1. first = IF h = None THEN low ELSE Align!Max({low, h + 1})
    BY DEF Align!BodyFirst
  <2>2. last = IF f = None THEN high ELSE Align!Min({high, f - 1})
    BY DEF Align!BodyLast
  <2> HIDE DEF first, last, low, high
  <2>3. h # None => Align!Max({low, h + 1}) = IF low >= h + 1 THEN low ELSE h + 1
    BY <1>1, <1>2, <1>3
  <2>4. ASSUME f # None PROVE Align!Min({high, f - 1}) = IF high <= f - 1 THEN high ELSE f - 1
    <3> DEFINE y == f - 1
    <3>1. y \in Int
      BY <1>2, <2>4
    <3> HIDE DEF y
    <3>2. Align!Min({high, y}) = IF high <= y THEN high ELSE y
      BY <1>1, <1>3, <3>1
    <3> QED
      BY <3>2 DEF y
  <2> QED
    BY <2>1, <2>2, <2>3, <2>4
<1>5. /\ h # None => h + 1 <= high + 1
      /\ f # None => f >= low
      /\ h # None /\ f # None => first <= last + 1
  BY DEF Align!Fits
<1>6. cut.above = low..(first - 1) /\ cut.body = first..last /\ cut.below = (last + 1)..high
  BY DEF Align!Cut
<1> HIDE DEF cut, first, last, low, high
<1>7. first \in Int /\ last \in Int /\ low <= first /\ last <= high /\ first <= last + 1
  BY <1>1, <1>2, <1>4, <1>5
<1>8. /\ Align!Rows(r) = cut.above \cup cut.body \cup cut.below
      /\ cut.above \cap cut.body = {} /\ cut.above \cap cut.below = {} /\ cut.body \cap cut.below = {}
  BY <1>1, <1>6, <1>7
<1>9. RowSet(cut.above) /\ RowSet(cut.body) /\ RowSet(cut.below)
  BY <1>1, <1>8, PartOfRows
<1> QED
  BY <1>8, <1>9 DEF cut

(* Rows of keys that one side has twice, in the data of both.               *)
TwiceBase(b, c, bc, cc) == {i \in bc.body : Align!KeyAt(b, i) \in Align!Ambiguous(b, c, bc, cc)}
TwiceCurr(b, c, bc, cc) == {i \in cc.body : Align!KeyAt(c, i) \in Align!Ambiguous(b, c, bc, cc)}

(* Keys that occur once on each side pair rows of the bodies once.          *)
LEMMA UniqueArePaired ==
  ASSUME NEW b, NEW c, NEW bc, NEW cc
  PROVE  Apaired(Align!Unique(b, c, bc, cc), bc.body \ TwiceBase(b, c, bc, cc), cc.body \ TwiceCurr(b, c, bc, cc))
<1> DEFINE U == Align!Unique(b, c, bc, cc)
<1>1. ASSUME NEW p \in U
      PROVE  /\ p \in bc.body \X cc.body /\ p[1] \in bc.body /\ p[2] \in cc.body
             /\ Align!With(b, bc.body, Align!KeyAt(b, p[1])) = {p[1]}
             /\ Align!With(c, cc.body, Align!KeyAt(b, p[1])) = {p[2]}
  BY DEF Align!Unique
<1> HIDE DEF U
<1>2. ASSUME NEW p \in U PROVE Align!KeyAt(c, p[2]) = Align!KeyAt(b, p[1])
  BY <1>1 DEF Align!With
<1>3. ASSUME NEW p \in U PROVE Align!KeyAt(b, p[1]) \notin Align!Ambiguous(b, c, bc, cc)
  <2> DEFINE k == Align!KeyAt(b, p[1])
  <2>1. Align!With(b, bc.body, k) = {p[1]} /\ Align!With(c, cc.body, k) = {p[2]}
    BY <1>1
  <2>2. Cardinality({p[1]}) = 1 /\ Cardinality({p[2]}) = 1
    BY FS_Singleton
  <2>3. Align!Cardinality(Align!With(b, bc.body, k)) = 1 /\ Align!Cardinality(Align!With(c, cc.body, k)) = 1
    BY <2>1, <2>2, RowCount
  <2> HIDE DEF k
  <2>4. k \in Align!Ambiguous(b, c, bc, cc) =>
          Align!Cardinality(Align!With(b, bc.body, k)) + Align!Cardinality(Align!With(c, cc.body, k)) > 2
    BY DEF Align!Ambiguous
  <2>5. k \notin Align!Ambiguous(b, c, bc, cc)
    BY <2>3, <2>4
  <2> QED
    BY <2>5 DEF k
<1>4. \A p \in U : p[1] \in bc.body \ TwiceBase(b, c, bc, cc) /\ p[2] \in cc.body \ TwiceCurr(b, c, bc, cc)
  BY <1>1, <1>2, <1>3 DEF TwiceBase, TwiceCurr
<1>5. \A p, q \in U : p[1] = q[1] <=> p[2] = q[2]
  <2> SUFFICES ASSUME NEW p \in U, NEW q \in U PROVE p[1] = q[1] <=> p[2] = q[2]
    OBVIOUS
  <2>1. p[1] = q[1] => {p[2]} = {q[2]}
    BY <1>1
  <2>2. p[2] = q[2] => {p[1]} = {q[1]}
    BY <1>1, <1>2
  <2> QED
    BY <2>1, <2>2
<1>6. \A p \in U : p = <<p[1], p[2]>>
  BY <1>1
<1>7. U \subseteq (bc.body \ TwiceBase(b, c, bc, cc)) \X (cc.body \ TwiceCurr(b, c, bc, cc))
  BY <1>4, <1>6
<1> QED
  BY <1>5, <1>7 DEF Apaired, U

(* Rows of a key that occurs again are paired once, by their occurrence.    *)
LEMMA OccurrencesArePaired ==
  ASSUME NEW b, NEW c, NEW bc, NEW cc, RowSet(bc.body), RowSet(cc.body)
  PROVE  Apaired(Align!Settled("occurrence", b, c, bc, cc), TwiceBase(b, c, bc, cc), TwiceCurr(b, c, bc, cc))
<1> DEFINE A == Align!Ambiguous(b, c, bc, cc)
           Of1(k) == Align!With(b, bc.body, k)
           Of2(k) == Align!With(c, cc.body, k)
           P == Align!Settled("occurrence", b, c, bc, cc)
<1>1. P = UNION {Align!InOrder(Of1(k), Of2(k)) : k \in A}
  BY DEF Align!Settled
<1>2. ASSUME NEW k PROVE Apaired(Align!InOrder(Of1(k), Of2(k)), Of1(k), Of2(k))
  <2>1. RowSet(Of1(k)) /\ RowSet(Of2(k))
    BY PartOfRows DEF Align!With
  <2> QED
    BY <2>1, OrderedArePaired
<1>3. \A k : /\ \A i \in Of1(k) : i \in bc.body /\ Align!KeyAt(b, i) = k
             /\ \A i \in Of2(k) : i \in cc.body /\ Align!KeyAt(c, i) = k
  BY DEF Align!With
<1> HIDE DEF P, A, Of1, Of2
<1>4. ASSUME NEW p \in P
      PROVE  \E k \in A : /\ p \in Align!InOrder(Of1(k), Of2(k)) /\ p = <<p[1], p[2]>>
                          /\ p[1] \in Of1(k) /\ p[2] \in Of2(k)
                          /\ Align!KeyAt(b, p[1]) = k /\ Align!KeyAt(c, p[2]) = k
  <2>1. PICK k \in A : p \in Align!InOrder(Of1(k), Of2(k))
    BY <1>1
  <2>2. p \in Of1(k) \X Of2(k)
    BY <1>2, <2>1 DEF Apaired
  <2>3. p = <<p[1], p[2]>> /\ p[1] \in Of1(k) /\ p[2] \in Of2(k)
    BY <2>2
  <2> QED
    BY <1>3, <2>1, <2>3
<1>5. P \subseteq TwiceBase(b, c, bc, cc) \X TwiceCurr(b, c, bc, cc)
  <2> SUFFICES ASSUME NEW p \in P PROVE p \in TwiceBase(b, c, bc, cc) \X TwiceCurr(b, c, bc, cc)
    OBVIOUS
  <2>1. p = <<p[1], p[2]>> /\ p[1] \in TwiceBase(b, c, bc, cc) /\ p[2] \in TwiceCurr(b, c, bc, cc)
    BY <1>3, <1>4 DEF TwiceBase, TwiceCurr, A
  <2> QED
    BY <2>1
<1>6. ASSUME NEW p \in P, NEW q \in P PROVE p[1] = q[1] <=> p[2] = q[2]
  <2>1. PICK k \in A : p \in Align!InOrder(Of1(k), Of2(k)) /\ Align!KeyAt(b, p[1]) = k /\ Align!KeyAt(c, p[2]) = k
    BY <1>4
  <2>2. PICK l \in A : q \in Align!InOrder(Of1(l), Of2(l)) /\ Align!KeyAt(b, q[1]) = l /\ Align!KeyAt(c, q[2]) = l
    BY <1>4
  <2>3. k = l => (p[1] = q[1] <=> p[2] = q[2])
    BY <1>2, <2>1, <2>2 DEF Apaired
  <2> QED
    BY <2>1, <2>2, <2>3
<1> QED
  BY <1>5, <1>6 DEF Apaired, P

(* What a policy settles is of rows that no unique key pairs.               *)
LEMMA BodyIsPaired ==
  ASSUME NEW b, NEW c, NEW bc, NEW cc, RowSet(bc.body), RowSet(cc.body),
         NEW way \in {"skip", "occurrence", "position"}
  PROVE  LET P == Align!Unique(b, c, bc, cc) \cup Align!Settled(way, b, c, bc, cc)
         IN  IF way = "skip"
             THEN Apaired(P, bc.body \ TwiceBase(b, c, bc, cc), cc.body \ TwiceCurr(b, c, bc, cc))
             ELSE Apaired(P, bc.body, cc.body)
<1> DEFINE U == Align!Unique(b, c, bc, cc)
           S == Align!Settled(way, b, c, bc, cc)
           B == bc.body
           C == cc.body
           TB == TwiceBase(b, c, bc, cc)
           TC == TwiceCurr(b, c, bc, cc)
<1>1. Apaired(U, B \ TB, C \ TC)
  BY UniqueArePaired
<1>2. TB \subseteq B /\ TC \subseteq C
  BY DEF TwiceBase, TwiceCurr
<1>3. CASE way = "skip"
  <2>1. S = {}
    BY <1>3 DEF Align!Settled
  <2> QED
    BY <1>1, <1>3, <2>1
<1>4. CASE way = "occurrence"
  <2>1. Apaired(S, TB, TC)
    BY <1>4, OccurrencesArePaired
  <2> HIDE DEF U, S, TB, TC
  <2>2. Apaired(U \cup S, (B \ TB) \cup TB, (C \ TC) \cup TC)
    BY <1>1, <2>1, PairedTogether
  <2>3. (B \ TB) \cup TB = B /\ (C \ TC) \cup TC = C
    BY <1>2
  <2>4. Apaired(U \cup S, B, C)
    BY <2>2, <2>3
  <2> QED
    BY <1>4, <2>4 DEF U, S
<1>5. CASE way = "position"
  <2> DEFINE LU == Align!Left(U)
             RU == Align!Right(U)
             X == {i \in B : Align!KeyAt(b, i) # None} \ LU
             Y == {i \in C : Align!KeyAt(c, i) # None} \ RU
  <2>1. S = Align!InOrder(X, Y)
    BY <1>5 DEF Align!Settled
  <2>2. X \subseteq B /\ Y \subseteq C /\ X \cap LU = {} /\ Y \cap RU = {}
    OBVIOUS
  <2>3. LU \subseteq B /\ RU \subseteq C
    BY <1>1, Sides
  <2>4. \A p \in U : p[1] \in LU /\ p[2] \in RU /\ p = <<p[1], p[2]>>
    BY <1>1 DEF Apaired, Align!Left, Align!Right
  <2> HIDE DEF U, S, LU, RU, X, Y
  <2>5. Apaired(U, LU, RU)
    BY <1>1, <2>4 DEF Apaired
  <2>6. Apaired(S, X, Y)
    BY <2>1, <2>2, PartOfRows, OrderedArePaired
  <2>7. Apaired(U \cup S, LU \cup X, RU \cup Y)
    BY <2>2, <2>5, <2>6, PairedTogether
  <2>8. (LU \cup X) \X (RU \cup Y) \subseteq B \X C
    BY <2>2, <2>3
  <2>9. Apaired(U \cup S, B, C)
    BY <2>7, <2>8 DEF Apaired
  <2> QED
    BY <1>5, <2>9 DEF U, S
<1> QED
  BY <1>3, <1>4, <1>5

(* Aligned by identity, every row is accounted for.                         *)
LEMMA IdentityAccounts ==
  ASSUME NEW b \in Regions, NEW c \in Regions, NEW u \in Align!Identity, Align!Placed(b, c, u)
  PROVE  Accounts(Align!AlignByIdentity(b, c, u), b, c)
<1> DEFINE bc == Align!Cut(b, Align!BaseHeader(u), Align!BaseFooter(u))
           cc == Align!Cut(c, u.header, u.footer)
           A == Align!Above(bc, cc)
           L == Align!Below(bc, cc)
           M == Align!Unique(b, c, bc, cc) \cup Align!Settled(u.way, b, c, bc, cc)
           skipped == IF u.way = "skip" THEN Align!Ambiguous(b, c, bc, cc) ELSE {}
           sb == UNION {Align!With(b, bc.body, k) : k \in skipped}
           sc == UNION {Align!With(c, cc.body, k) : k \in skipped}
           a == Align!AlignByIdentity(b, c, u)
<1>1. /\ u.way \in {"skip", "occurrence", "position"} /\ u.header \in Bounds /\ u.footer \in Bounds
      /\ Align!BaseHeader(u) \in Bounds /\ Align!BaseFooter(u) \in Bounds
  BY DEF Align!Identity, Align!BaseHeader, Align!BaseFooter, Align!Default
<1>2. Align!Fits(b, Align!BaseHeader(u), Align!BaseFooter(u)) /\ Align!Fits(c, u.header, u.footer)
  BY DEF Align!Placed
<1>3. /\ Align!Rows(b) = bc.above \cup bc.body \cup bc.below
      /\ bc.above \cap bc.body = {} /\ bc.above \cap bc.below = {} /\ bc.body \cap bc.below = {}
      /\ RowSet(bc.above) /\ RowSet(bc.body) /\ RowSet(bc.below)
  BY <1>1, <1>2, CutParts
<1>4. /\ Align!Rows(c) = cc.above \cup cc.body \cup cc.below
      /\ cc.above \cap cc.body = {} /\ cc.above \cap cc.below = {} /\ cc.body \cap cc.below = {}
      /\ RowSet(cc.above) /\ RowSet(cc.body) /\ RowSet(cc.below)
  BY <1>1, <1>2, CutParts
<1>5. /\ a.pairs = A \cup L \cup M /\ a.growth = {} /\ a.skippedBase = sb /\ a.skippedCurr = sc
      /\ a.deleted = (bc.above \ Align!Left(A)) \cup (bc.below \ Align!Left(L))
                       \cup (bc.body \ (Align!Left(M) \cup sb))
      /\ a.inserted = (cc.above \ Align!Right(A)) \cup (cc.below \ Align!Right(L))
                        \cup (cc.body \ (Align!Right(M) \cup sc))
  BY DEF Align!AlignByIdentity
<1>6. Apaired(A, bc.above, cc.above) /\ Apaired(L, bc.below, cc.below)
  BY <1>3, <1>4, OrderedArePaired DEF Align!Above, Align!Below
<1>7. IF u.way = "skip"
      THEN Apaired(M, bc.body \ TwiceBase(b, c, bc, cc), cc.body \ TwiceCurr(b, c, bc, cc))
      ELSE Apaired(M, bc.body, cc.body)
  BY <1>1, <1>3, <1>4, BodyIsPaired
<1>8. /\ sb = IF u.way = "skip" THEN TwiceBase(b, c, bc, cc) ELSE {}
      /\ sc = IF u.way = "skip" THEN TwiceCurr(b, c, bc, cc) ELSE {}
  <2>1. \A i : i \in sb <=> \E k \in skipped : i \in bc.body /\ Align!KeyAt(b, i) = k
    BY DEF Align!With
  <2>2. \A i : i \in sc <=> \E k \in skipped : i \in cc.body /\ Align!KeyAt(c, i) = k
    BY DEF Align!With
  <2>3. \A i : i \in TwiceBase(b, c, bc, cc) <=> i \in bc.body /\ Align!KeyAt(b, i) \in Align!Ambiguous(b, c, bc, cc)
    BY DEF TwiceBase
  <2>4. \A i : i \in TwiceCurr(b, c, bc, cc) <=> i \in cc.body /\ Align!KeyAt(c, i) \in Align!Ambiguous(b, c, bc, cc)
    BY DEF TwiceCurr
  <2> HIDE DEF bc, cc, sb, sc
  <2>5. CASE u.way = "skip"
    BY <2>1, <2>2, <2>3, <2>4, <2>5
  <2>6. CASE u.way # "skip"
    BY <2>1, <2>2, <2>6
  <2> QED
    BY <2>5, <2>6
<1>9. TwiceBase(b, c, bc, cc) \subseteq bc.body /\ TwiceCurr(b, c, bc, cc) \subseteq cc.body
  BY DEF TwiceBase, TwiceCurr
<1> HIDE DEF A, L, M, sb, sc, a, bc, cc
<1>10. /\ sb \subseteq bc.body /\ sc \subseteq cc.body /\ Apaired(M, bc.body \ sb, cc.body \ sc)
  BY <1>7, <1>8, <1>9
<1>11. Apaired(A \cup L, bc.above \cup bc.below, cc.above \cup cc.below)
  BY <1>3, <1>4, <1>6, PairedTogether
<1>12. Apaired((A \cup L) \cup M, (bc.above \cup bc.below) \cup (bc.body \ sb), (cc.above \cup cc.below) \cup (cc.body \ sc))
  <2>1. /\ (bc.above \cup bc.below) \cap (bc.body \ sb) = {}
        /\ (cc.above \cup cc.below) \cap (cc.body \ sc) = {}
    BY <1>3, <1>4
  <2> QED
    BY <1>10, <1>11, <2>1, PairedTogether
<1>13. \A p, q \in a.pairs : p[1] = q[1] <=> p[2] = q[2]
  BY <1>5, <1>12 DEF Apaired
<1>14. /\ Align!Left(a.pairs) = Align!Left(A) \cup Align!Left(L) \cup Align!Left(M)
       /\ Align!Right(a.pairs) = Align!Right(A) \cup Align!Right(L) \cup Align!Right(M)
  <2>1. a.pairs = (A \cup L) \cup M
    BY <1>5
  <2>2. Align!Left(A \cup L) = Align!Left(A) \cup Align!Left(L) /\ Align!Right(A \cup L) = Align!Right(A) \cup Align!Right(L)
    BY SidesOfTwo
  <2> DEFINE AL == A \cup L
  <2> HIDE DEF AL
  <2>3. Align!Left(AL \cup M) = Align!Left(AL) \cup Align!Left(M) /\ Align!Right(AL \cup M) = Align!Right(AL) \cup Align!Right(M)
    BY SidesOfTwo
  <2> QED
    BY <2>1, <2>2, <2>3 DEF AL
<1>15. /\ Align!Left(A) \subseteq bc.above /\ Align!Left(L) \subseteq bc.below /\ Align!Left(M) \subseteq bc.body \ sb
       /\ Align!Right(A) \subseteq cc.above /\ Align!Right(L) \subseteq cc.below /\ Align!Right(M) \subseteq cc.body \ sc
  BY <1>6, <1>10, Sides
<1>16. /\ Align!Left(a.pairs) \cup a.deleted \cup a.skippedBase = Align!Rows(b)
       /\ Align!Left(a.pairs) \cap (a.deleted \cup a.skippedBase) = {} /\ a.deleted \cap a.skippedBase = {}
  BY <1>3, <1>5, <1>10, <1>14, <1>15
<1>17. /\ Align!Right(a.pairs) \cup a.inserted \cup a.growth \cup a.skippedCurr = Align!Rows(c)
       /\ Align!Right(a.pairs) \cap (a.inserted \cup a.growth \cup a.skippedCurr) = {}
       /\ a.inserted \cap (a.growth \cup a.skippedCurr) = {}
  BY <1>4, <1>5, <1>10, <1>14, <1>15
<1>18. Accounts(a, b, c)
  BY <1>13, <1>16, <1>17 DEF Accounts
<1> QED
  BY <1>18 DEF a

-----------------------------------------------------------------------------
AlignInv ==
  /\ base \in Regions /\ curr \in Regions
  /\ rule \in Align!Plain \/ (rule \in Align!Identity /\ Align!Placed(base, curr, rule))
  /\ rows # None => Accounts(rows, base, curr)

(* AlignInv holds at first.                                                 *)
LEMMA AlignBegins ==
  ASSUME Align!Init
  PROVE  AlignInv
BY DEF Align!Init, AlignInv

(* A step of the alignment keeps AlignInv.                                  *)
LEMMA AlignSteps ==
  ASSUME AlignInv, Align!Next \/ UNCHANGED Align!vars
  PROVE  AlignInv'
<1>1. CASE Align!Next
  <2>1. UNCHANGED <<base, curr, rule>>
    BY <1>1 DEF Align!Next, Align!Align
  <2>2. rows' = CASE rule.way = "keys" -> Align!AlignByKeys(base, curr)
                  [] rule.way = "positional" -> Align!AlignByPosition(base, curr)
                  [] OTHER -> Align!AlignByIdentity(base, curr, rule)
    BY <1>1 DEF Align!Next, Align!Align
  <2>3. base \in Regions /\ curr \in Regions
    BY DEF AlignInv
  <2>4. CASE rule \in Align!Plain
    <3>1. rule.way = "keys" \/ rule.way = "positional"
      BY <2>4 DEF Align!Plain
    <3>2. rows' = Align!AlignByKeys(base, curr) \/ rows' = Align!AlignByPosition(base, curr)
      BY <2>2, <3>1
    <3>3. Accounts(rows', base, curr)
      BY <2>3, <3>2, PlainAccounts
    <3> QED
      BY <2>1, <3>3 DEF AlignInv, Accounts, Align!Left, Align!Right, Align!Rows, Align!LastRow, Align!Plain
  <2>5. CASE rule \in Align!Identity /\ Align!Placed(base, curr, rule)
    <3>1. rule.way # "keys" /\ rule.way # "positional"
      BY <2>5 DEF Align!Identity
    <3>2. rows' = Align!AlignByIdentity(base, curr, rule)
      BY <2>2, <3>1
    <3>3. Accounts(rows', base, curr)
      BY <2>3, <2>5, <3>2, IdentityAccounts
    <3>4. Align!Placed(base', curr', rule') /\ rule' \in Align!Identity
      BY <2>1, <2>5
    <3>5. Accounts(rows', base', curr')
      BY <2>1, <3>3
    <3> QED
      BY <2>1, <2>3, <3>4, <3>5 DEF AlignInv
  <2> QED
    BY <2>4, <2>5 DEF AlignInv
<1>2. CASE UNCHANGED Align!vars
  BY <1>2 DEF Align!vars, AlignInv
<1> QED
  BY <1>1, <1>2

(* So no row is lost or doubled.                                            *)
LEMMA RowsAreAccounted ==
  ASSUME AlignInv
  PROVE  Align!RowsAccounted
BY DEF AlignInv, Accounts, Align!RowsAccounted, Align!Once
=============================================================================
