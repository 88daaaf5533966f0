------------------------------ MODULE Induction -----------------------------
(***************************************************************************)
(* Induction and recursion over the natural numbers, stated for sets and   *)
(* functions: what the proofs about recursive algorithms and folds over    *)
(* sequences rest on.                                                      *)
(***************************************************************************)
EXTENDS Integers, FiniteSetsExt, WellFoundedInduction, TLAPS

\* A set of natural numbers that is not empty has a least member.
LEMMA Least ==
  ASSUME NEW T \in SUBSET Nat, T # {}
  PROVE  \E x \in T : \A y \in T : x <= y
<1> DEFINE R == OpToRel(<, Nat)
<1>1. IsWellFoundedOn(R, Nat)
  BY NatLessThanWellFounded, Zenon
<1>2. \A x, y \in Nat : x < y => <<x, y>> \in R
  BY DEF OpToRel
<1> HIDE DEF R
<1>3. PICK x \in T : \A y \in T : <<y, x>> \notin R
  BY <1>1, WFMin
<1>4. ASSUME NEW y \in T
      PROVE  x <= y
  <2>1. x \in Nat /\ y \in Nat /\ ~(y < x)
    BY <1>2, <1>3
  <2> QED
    BY <2>1
<1> QED
  BY <1>4

\* Induction for a set: it has 0, and the successor of each of its members.
LEMMA NatSetInduction ==
  ASSUME NEW S, 0 \in S, \A n \in Nat : n \in S => n + 1 \in S
  PROVE  \A n \in Nat : n \in S
<1> SUFFICES ASSUME NEW n \in Nat, n \notin S
             PROVE  FALSE
  OBVIOUS
<1> DEFINE T == {k \in Nat : k \notin S}
<1>1. PICK x \in T : \A y \in T : x <= y
  <2>1. T \in SUBSET Nat /\ T # {}
    OBVIOUS
  <2> HIDE DEF T
  <2> QED
    BY <2>1, Least
<1>2. x \in Nat /\ x # 0 /\ x \notin S
  OBVIOUS
<1>3. x - 1 \in Nat /\ (x - 1) + 1 = x
  BY <1>2
<1>4. x - 1 \notin T
  <2>1. ~(x <= x - 1)
    BY <1>2
  <2> QED
    BY <1>1, <2>1
<1> QED
  BY <1>2, <1>3, <1>4

\* Recursion: a first value and a function for every step determine a sequence
\* of values.
LEMMA Recursion ==
  ASSUME NEW V, NEW base \in V, NEW N \in Nat, NEW h \in [1..N -> [V -> V]]
  PROVE  \E g \in [0..N -> V] : g[0] = base /\ \A i \in 1..N : g[i] = h[i][g[i - 1]]
<1> DEFINE Good(k, g) == g[0] = base /\ \A i \in 1..k : g[i] = h[i][g[i - 1]]
           S == {k \in Nat : k <= N => \E g \in [0..k -> V] : Good(k, g)}
<1>1. 0 \in S
  <2>1. [i \in 0..0 |-> base] \in [0..0 -> V] /\ Good(0, [i \in 0..0 |-> base])
    OBVIOUS
  <2> QED
    BY <2>1
<1>2. ASSUME NEW k \in Nat, k \in S
      PROVE  k + 1 \in S
  <2> SUFFICES ASSUME k + 1 <= N
               PROVE  \E g \in [0..(k + 1) -> V] : Good(k + 1, g)
    OBVIOUS
  <2>1. PICK g \in [0..k -> V] : Good(k, g)
    BY <1>2
  <2> DEFINE f == [i \in 0..(k + 1) |-> IF i = k + 1 THEN h[k + 1][g[k]] ELSE g[i]]
  <2>2. h[k + 1][g[k]] \in V
    <3>1. k + 1 \in 1..N /\ k \in 0..k
      OBVIOUS
    <3> QED
      BY <2>1, <3>1
  <2>3. f \in [0..(k + 1) -> V]
    BY <2>1, <2>2
  <2>4. f[0] = base
    BY <2>1
  <2>5. ASSUME NEW i \in 1..(k + 1)
        PROVE  f[i] = h[i][f[i - 1]]
    <3>1. f[i - 1] = g[i - 1]
      OBVIOUS
    <3>2. CASE i = k + 1
      BY <3>1, <3>2
    <3>3. CASE i # k + 1
      <4>1. i \in 1..k /\ f[i] = g[i]
        BY <3>3
      <4> QED
        BY <2>1, <3>1, <4>1
    <3> QED
      BY <3>2, <3>3
  <2> HIDE DEF f
  <2> QED
    BY <2>3, <2>4, <2>5
<1> HIDE DEF S
<1>3. \A k \in Nat : k \in S
  BY <1>1, <1>2, NatSetInduction
<1>4. N \in S
  BY <1>3
<1> QED
  BY <1>4 DEF S

\* A fold over the positions 1..N that takes the largest position last.
Iterates(F, N, base, h) ==
  /\ F[{}] = base
  /\ \A m \in 1..N : \A T \in SUBSET (1..(m - 1)) : F[T \cup {m}] = h[m][F[T]]

LEMMA Iteration ==
  \A V, base, N, h : base \in V /\ N \in Nat /\ h \in [1..N -> [V -> V]] =>
    \E F \in [SUBSET (1..N) -> V] : Iterates(F, N, base, h)
<1>0. SUFFICES ASSUME NEW V, NEW base, NEW N, NEW h,
                      base \in V, N \in Nat, h \in [1..N -> [V -> V]]
               PROVE  \E F \in [SUBSET (1..N) -> V] : Iterates(F, N, base, h)
  OBVIOUS
<1> DEFINE P == SUBSET (1..N)
           W == [P -> V]
           none == [T \in P |-> base]
           H == [i \in 1..N |-> [G \in W |-> [T \in P |->
                    IF i \in T THEN h[i][G[T \ {i}]] ELSE G[T]]]]
<1>1. none \in W /\ N \in Nat
  BY <1>0
<1>2. ASSUME NEW i \in 1..N, NEW G \in W
      PROVE  [T \in P |-> IF i \in T THEN h[i][G[T \ {i}]] ELSE G[T]] \in W
  <2>1. \A T \in P : T \ {i} \in P /\ G[T] \in V /\ G[T \ {i}] \in V
    BY <1>1
  <2>2. h[i] \in [V -> V]
    BY <1>0
  <2> HIDE DEF P
  <2> QED
    BY <2>1, <2>2
<1>3. H \in [1..N -> [W -> W]]
  <2> HIDE DEF P, W
  <2> QED
    BY <1>2
<1>4. PICK g \in [0..N -> W] : g[0] = none /\ \A i \in 1..N : g[i] = H[i][g[i - 1]]
  <2> HIDE DEF P, W, none, H
  <2> QED
    BY <1>1, <1>3, Recursion
<1>5. ASSUME NEW i \in 1..N, NEW T \in P
      PROVE  g[i][T] = IF i \in T THEN h[i][g[i - 1][T \ {i}]] ELSE g[i - 1][T]
  <2>1. i - 1 \in 0..N
    BY <1>1
  <2>2. g[i - 1] \in W
    BY <1>4, <2>1
  <2>3. H[i][g[i - 1]] = [S \in P |-> IF i \in S THEN h[i][g[i - 1][S \ {i}]] ELSE g[i - 1][S]]
    <3> HIDE DEF P, W
    <3> QED
      BY <2>2
  <2> HIDE DEF P, W, H
  <2> QED
    BY <1>4, <2>3
<1> HIDE DEF H
<1>6. \A k \in 0..N : \A T \in SUBSET (1..k) : g[N][T] = g[k][T]
  <2> DEFINE Same(j) == \A T \in SUBSET (1..(N - j)) : g[N][T] = g[N - j][T]
             S == {j \in Nat : j <= N => Same(j)}
  <2>1. 0 \in S
    BY <1>1
  <2>2. ASSUME NEW j \in Nat, j \in S
        PROVE  j + 1 \in S
    <3> SUFFICES ASSUME j + 1 <= N, NEW T \in SUBSET (1..(N - (j + 1)))
                 PROVE  g[N][T] = g[N - (j + 1)][T]
      BY <1>1
    <3>1. PICK i \in 1..N : i = N - j /\ i - 1 = N - (j + 1)
      BY <1>1
    <3>2. T \in SUBSET (1..i) /\ i \notin T /\ T \in P
      BY <1>1, <3>1
    <3>3. g[N][T] = g[i][T]
      BY <1>1, <2>2, <3>1, <3>2
    <3>4. g[i][T] = g[i - 1][T]
      BY <1>1, <1>5, <3>2
    <3> QED
      BY <3>1, <3>3, <3>4
  <2> HIDE DEF S
  <2>3. \A j \in Nat : j \in S
    BY <2>1, <2>2, NatSetInduction
  <2> USE DEF S
  <2> SUFFICES ASSUME NEW k \in 0..N, NEW T \in SUBSET (1..k)
               PROVE  g[N][T] = g[k][T]
    BY <1>1
  <2>4. N - k \in Nat /\ N - k <= N /\ N - (N - k) = k
    BY <1>1
  <2>5. N - k \in S
    BY <2>3, <2>4
  <2>6. Same(N - k)
    BY <2>4, <2>5
  <2> QED
    BY <2>4, <2>6
<1>7. g[N][{}] = base
  <2>1. 0 \in 0..N /\ {} \in SUBSET (1..0) /\ {} \in P
    BY <1>1
  <2> QED
    BY <1>4, <1>6, <2>1
<1>8. ASSUME NEW m \in 1..N, NEW T \in SUBSET (1..(m - 1))
      PROVE  g[N][T \cup {m}] = h[m][g[N][T]]
  <2>1. /\ m \in 0..N /\ T \cup {m} \in SUBSET (1..m) /\ T \cup {m} \in P
        /\ (T \cup {m}) \ {m} = T /\ m - 1 \in 0..N
    BY <1>1
  <2>2. g[N][T \cup {m}] = g[m][T \cup {m}] /\ g[N][T] = g[m - 1][T]
    BY <1>6, <2>1
  <2>3. g[m][T \cup {m}] = h[m][g[m - 1][T]]
    BY <1>5, <2>1
  <2> QED
    BY <2>2, <2>3
<1>9. g[N] \in W
  BY <1>1, <1>4
<1> QED
  BY <1>1, <1>7, <1>8, <1>9 DEF Iterates

LEMMA LargestPosition ==
  ASSUME NEW N \in Nat, NEW S \in SUBSET (1..N), S # {}
  PROVE  /\ Max(S) \in S /\ \A x \in S : x <= Max(S)
         /\ S \ {Max(S)} \in SUBSET (1..(Max(S) - 1))
         /\ (S \ {Max(S)}) \cup {Max(S)} = S
<1> DEFINE T == {N - x : x \in S}
<1>1. T \in SUBSET Nat /\ T # {}
  OBVIOUS
<1>2. PICK y \in T : \A z \in T : y <= z
  <2> HIDE DEF T
  <2> QED
    BY <1>1, Least
<1>3. PICK m \in S : y = N - m
  OBVIOUS
<1>4. \A x \in S : m >= x
  <2> SUFFICES ASSUME NEW x \in S
               PROVE  m >= x
    OBVIOUS
  <2>1. N - x \in T /\ N - m <= N - x
    BY <1>2, <1>3
  <2> QED
    BY <2>1
<1>5. Max(S) \in S /\ \A x \in S : Max(S) >= x
  BY <1>4 DEF Max
<1>6. PICK k \in S : k = Max(S)
  BY <1>5
<1>7. k \in 1..N /\ \A x \in S : x \in 1..N /\ x <= k
  BY <1>5, <1>6
<1>8. S \ {k} \in SUBSET (1..(k - 1)) /\ (S \ {k}) \cup {k} = S
  BY <1>7
<1> QED
  BY <1>6, <1>7, <1>8

LEMMA UpToMax ==
  ASSUME NEW i \in Nat \ {0}
  PROVE  Max(1..i) = i /\ (1..i) \ {i} = 1..(i - 1) /\ 1..i # {}
<1>1. i \in 1..i /\ 1..i \in SUBSET (1..i)
  OBVIOUS
<1>2. Max(1..i) \in 1..i /\ i <= Max(1..i)
  BY <1>1, LargestPosition
<1> QED
  BY <1>2
=============================================================================
