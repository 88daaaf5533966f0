----------------------------- MODULE SplitProofs ----------------------------
(***************************************************************************)
(* xnd_split cuts an array of any shape, for any number of parts, into     *)
(* parts that are not empty, cover every element once and follow each      *)
(* other in row-major order.                                               *)
(*                                                                         *)
(* First one dimension: the parts that start and stop delimit.  Then the   *)
(* rows: LastColumnCuts when a dimension has an item for every part, and   *)
(* ColumnCuts when every item is cut further, for which the rows of the    *)
(* items are laid out one after the other (Blocks, Flatten).  Then all     *)
(* dimensions, by induction from the last one outwards (LevelsCut).        *)
(***************************************************************************)
EXTENDS Split, Induction, SequenceTheorems, FiniteSetTheorems, FunctionTheorems

-----------------------------------------------------------------------------
(* One dimension.                                                          *)

\* A product with a natural number is a natural number, and monotonic.
LEMMA Products ==
  ASSUME NEW a \in Nat, NEW b \in Nat, NEW q \in Nat, a <= b
  PROVE  a * q \in Nat /\ b * q \in Nat /\ a * q <= b * q
<1>1. PICK d \in Nat : b = a + d
  <2>1. b - a \in Nat /\ b = a + (b - a)
    OBVIOUS
  <2> QED  BY <2>1
<1>2. a * q \in Nat /\ d * q \in Nat
  OBVIOUS
<1>3. b * q = a * q + d * q
  BY <1>1, SMT
<1> QED
  BY <1>2, <1>3

\* Parts follow each other without a gap, beginning at zero, and the i-th
\* has as many items as step says.
LEMMA PartsAdjacent ==
  ASSUME NEW q \in Nat, NEW r \in Nat, NEW i \in Nat
  PROVE  /\ start(0, r, q) = 0
         /\ start(i + 1, r, q) = stop(i, r, q)
         /\ stop(i, r, q) = start(i, r, q) + step(i, r, q)
<1>1. (i + 1) * (q + 1) = i * (q + 1) + (q + 1)
  BY SMT
<1>2. (i + 1) * q = i * q + q
  BY SMT
<1>3. i + 1 = r => (i + 1) * (q + 1) = r + (i + 1) * q
  BY SMT
<1>4. /\ i * (q + 1) \in Nat /\ i * q \in Nat /\ (i + 1) * q \in Nat
      /\ (i + 1) * (q + 1) \in Nat /\ 0 * q = 0 /\ 0 * (q + 1) = 0
  BY SMT
<1>5. start(0, r, q) = 0
  BY <1>4 DEF start
<1>6. start(i + 1, r, q) = stop(i, r, q)
  <2>1. CASE i + 1 < r
    BY <2>1 DEF start, stop
  <2>2. CASE i + 1 = r
    BY <1>3, <2>2 DEF start, stop
  <2>3. CASE i + 1 > r
    BY <2>3 DEF start, stop
  <2> QED
    BY <2>1, <2>2, <2>3
<1>7. stop(i, r, q) = start(i, r, q) + step(i, r, q)
  BY <1>1, <1>2, <1>4 DEF start, stop, step
<1> QED
  BY <1>5, <1>6, <1>7

\* An earlier part ends before a later one starts.
LEMMA PartsOrdered ==
  ASSUME NEW q \in Nat, NEW r \in Nat, NEW i \in Nat, NEW j \in Nat, i < j
  PROVE  stop(i, r, q) <= start(j, r, q)
<1>1. (i + 1) * (q + 1) <= j * (q + 1) /\ (i + 1) * q <= j * q
  BY Products
<1>2. /\ (i + 1) * (q + 1) = (i + 1) * q + (i + 1)
      /\ (i + 1) * q \in Nat /\ j * q \in Nat /\ j * (q + 1) \in Nat
      /\ (i + 1) * (q + 1) \in Nat
  BY SMT
<1>3. CASE j < r
  BY <1>1, <1>3 DEF start, stop
<1>4. CASE i < r /\ ~(j < r)
  BY <1>1, <1>2, <1>4 DEF start, stop
<1>5. CASE ~(i < r)
  BY <1>1, <1>2, <1>5 DEF start, stop
<1> QED
  BY <1>3, <1>4, <1>5

\* The last of n parts of q * n + r items ends with the last item.
LEMMA PartsEnd ==
  ASSUME NEW q \in Nat, NEW n \in Nat \ {0}, NEW r \in 0..(n - 1)
  PROVE  stop(n - 1, r, q) = n * q + r
BY SMT DEF stop

\* Division with remainder.
LEMMA Division ==
  ASSUME NEW x \in Nat, NEW d \in Nat \ {0}
  PROVE  /\ x \div d \in Nat /\ x % d \in 0..(d - 1)
         /\ x = d * (x \div d) + (x % d)
BY SMT

In(x, s) == s.start <= x /\ x < s.stop

\* The slices of the last dimension that is cut are not empty and cover
\* every item of it exactly once.
THEOREM LastColumnPartitions ==
  ASSUME NEW n \in Nat \ {0}, NEW m \in Nat, n <= m
  PROVE  /\ \A i \in 1..n : last_column(n, m)[i].start < last_column(n, m)[i].stop
         /\ \A x \in 0..(m - 1) : \E i \in 1..n :
               /\ In(x, last_column(n, m)[i])
               /\ \A j \in 1..n : In(x, last_column(n, m)[j]) => j = i
<1> DEFINE q == m \div n
           r == m % n
<1>1. q \in Nat /\ r \in 0..(n - 1) /\ r \in Nat /\ m = n * q + r
  <2>1. q \in Nat /\ r \in 0..(n - 1) /\ m = n * q + r
    BY Division, Zenon
  <2> HIDE DEF q, r
  <2> QED
    BY <2>1
<1> HIDE DEF q, r
<1>2. q # 0
  BY <1>1, SMT
<1>3. \A i \in 1..n : /\ last_column(n, m)[i].start = start(i - 1, r, q)
                      /\ last_column(n, m)[i].stop = stop(i - 1, r, q)
  BY DEF last_column, slice, q, r
<1>4. \A i \in 0..(n - 1) : start(i, r, q) \in Nat /\ stop(i, r, q) \in Nat
  <2> SUFFICES ASSUME NEW i \in 0..(n - 1)
               PROVE  start(i, r, q) \in Nat /\ stop(i, r, q) \in Nat
    OBVIOUS
  <2>1. /\ i * q \in Nat /\ (i + 1) * q \in Nat
        /\ i * (q + 1) \in Nat /\ (i + 1) * (q + 1) \in Nat
    BY <1>1, SMT
  <2> QED
    BY <1>1, <2>1 DEF start, stop
<1>5. \A i \in 0..(n - 1) : start(i, r, q) < stop(i, r, q)
  <2> SUFFICES ASSUME NEW i \in 0..(n - 1)
               PROVE  start(i, r, q) < stop(i, r, q)
    OBVIOUS
  <2>1. stop(i, r, q) = start(i, r, q) + step(i, r, q)
    BY <1>1, PartsAdjacent
  <2>2. step(i, r, q) \in Nat \ {0}
    BY <1>1, <1>2 DEF step
  <2> QED
    BY <1>4, <2>1, <2>2
<1>6. \A x \in 0..(m - 1) : \E i \in 0..(n - 1) : start(i, r, q) <= x /\ x < stop(i, r, q)
  <2> SUFFICES ASSUME NEW x \in 0..(m - 1)
               PROVE  \E i \in 0..(n - 1) : start(i, r, q) <= x /\ x < stop(i, r, q)
    OBVIOUS
  <2>1. CASE x < r * (q + 1)
    <3> DEFINE i == x \div (q + 1)
    <3> DEFINE e == x % (q + 1)
    <3>0. q + 1 \in Nat \ {0} /\ x \in Nat
      BY <1>1
    <3>1. i \in Nat /\ e \in 0..((q + 1) - 1) /\ x = (q + 1) * i + e
      BY <3>0, Division, Zenon
    <3> HIDE DEF i, e
    <3>2. i * (q + 1) <= x /\ x < (i + 1) * (q + 1)
      <4>1. (q + 1) * i = i * (q + 1) /\ (i + 1) * (q + 1) = i * (q + 1) + (q + 1)
        BY <1>1, <3>1, SMT
      <4>2. i * (q + 1) \in Nat
        BY <1>1, <3>1, SMT
      <4> QED
        BY <1>1, <3>1, <4>1, <4>2
    <3>3. i < r
      <4>1. ~(i < r) => r * (q + 1) <= i * (q + 1)
        BY <1>1, <3>1, Products
      <4>2. r * (q + 1) \in Nat /\ i * (q + 1) \in Nat
        BY <1>1, <3>1, SMT
      <4> QED
        BY <2>1, <3>1, <3>2, <4>1, <4>2
    <3>4. start(i, r, q) <= x /\ x < stop(i, r, q)
      BY <3>2, <3>3 DEF start, stop
    <3>5. i \in 0..(n - 1)
      BY <1>1, <3>1, <3>3
    <3> QED
      BY <3>4, <3>5
  <2>2. CASE ~(x < r * (q + 1))
    <3> DEFINE y == x - r * (q + 1)
               k == y \div q
    <3>1. y \in Nat /\ x = r * (q + 1) + y
      BY <1>1, <2>2, SMT
    <3> HIDE DEF y
    <3>2. k \in Nat /\ y % q \in 0..(q - 1) /\ y = q * k + (y % q)
      BY <1>1, <1>2, <3>1, Division
    <3> HIDE DEF k
    <3>3. start(r + k, r, q) = r + (r + k) * q /\ stop(r + k, r, q) = r + (r + k + 1) * q
      BY <1>1, <3>2 DEF start, stop
    <3>4. (r + k) * q = r * q + k * q /\ (r + k + 1) * q = r * q + k * q + q
      BY <1>1, <3>2, SMT
    <3>5. r * (q + 1) = r * q + r /\ k * q = q * k /\ r * q \in Nat /\ k * q \in Nat
      BY <1>1, <3>2, SMT
    <3>6. start(r + k, r, q) <= x /\ x < stop(r + k, r, q)
      BY <1>1, <3>1, <3>2, <3>3, <3>4, <3>5
    <3>7. r + k < n
      <4>1. ~(r + k < n) => n * q <= (r + k) * q
        BY <1>1, <3>2, Products
      <4>2. n * q \in Nat /\ (r + k) * q \in Nat
        BY <1>1, <3>2, SMT
      <4> QED
        BY <1>1, <3>2, <3>3, <3>6, <4>1, <4>2
    <3> QED
      BY <1>1, <3>2, <3>6, <3>7
  <2> QED
    BY <2>1, <2>2
<1>7. ASSUME NEW x \in 0..(m - 1), NEW i \in 0..(n - 1), NEW j \in 0..(n - 1),
             start(i, r, q) <= x, x < stop(i, r, q),
             start(j, r, q) <= x, x < stop(j, r, q)
      PROVE  i = j
  <2>1. i < j => stop(i, r, q) <= start(j, r, q)
    BY <1>1, PartsOrdered
  <2>2. j < i => stop(j, r, q) <= start(i, r, q)
    BY <1>1, PartsOrdered
  <2>3. /\ start(i, r, q) \in Nat /\ stop(i, r, q) \in Nat
        /\ start(j, r, q) \in Nat /\ stop(j, r, q) \in Nat
    BY <1>4
  <2> QED
    BY <1>7, <2>1, <2>2, <2>3
<1>8. \A i \in 1..n : last_column(n, m)[i].start < last_column(n, m)[i].stop
  BY <1>3, <1>5
<1>9. ASSUME NEW x \in 0..(m - 1)
      PROVE  \E i \in 1..n : /\ In(x, last_column(n, m)[i])
                             /\ \A j \in 1..n : In(x, last_column(n, m)[j]) => j = i
  <2>1. PICK i \in 0..(n - 1) : start(i, r, q) <= x /\ x < stop(i, r, q)
    BY <1>6
  <2>2. i + 1 \in 1..n /\ In(x, last_column(n, m)[i + 1])
    BY <1>3, <2>1 DEF In
  <2>3. ASSUME NEW j \in 1..n, In(x, last_column(n, m)[j])
        PROVE  j = i + 1
    <3>1. j - 1 \in 0..(n - 1) /\ start(j - 1, r, q) <= x /\ x < stop(j - 1, r, q)
      BY <1>3, <2>3 DEF In
    <3>2. i = j - 1
      BY <1>7, <2>1, <3>1
    <3> QED
      BY <3>2
  <2> QED
    BY <2>2, <2>3
<1> QED
  BY <1>8, <1>9

-----------------------------------------------------------------------------
(* Sequences laid out one after the other.                                 *)

\* Consecutive blocks of lengths l[1], ..., l[n], the i-th of which ends at off[i].
AreBlocks(n, l, off) ==
  /\ l \in [1..n -> Nat] /\ off \in [0..n -> Nat]
  /\ off[0] = 0
  /\ \A i \in 1..n : off[i] = off[i - 1] + l[i]

\* Blocks end one after the other, and every position lies in one of them.
LEMMA Blocks ==
  ASSUME NEW n \in Nat, NEW l, NEW off, AreBlocks(n, l, off)
  PROVE  \A k \in 0..n :
           /\ \A i \in 1..k : off[i] <= off[k]
           /\ \A p \in 1..off[k] : \E i \in 1..k : \E j \in 1..l[i] : p = off[i - 1] + j
<1> USE DEF AreBlocks
<1> DEFINE Holds(k) ==
      /\ \A i \in 1..k : off[i] <= off[k]
      /\ \A p \in 1..off[k] : \E i \in 1..k : \E j \in 1..l[i] : p = off[i - 1] + j
    S == {k \in Nat : k <= n => Holds(k)}
<1>1. 0 \in S
  OBVIOUS
<1>2. ASSUME NEW k \in Nat, k \in S
      PROVE  k + 1 \in S
  <2> SUFFICES ASSUME k + 1 <= n
               PROVE  Holds(k + 1)
    OBVIOUS
  <2>1. Holds(k)
    BY <1>2
  <2>2. off[k] \in Nat /\ off[k + 1] \in Nat /\ l[k + 1] \in Nat /\ off[k + 1] = off[k] + l[k + 1]
    OBVIOUS
  <2>3. ASSUME NEW i \in 1..(k + 1)
        PROVE  off[i] <= off[k + 1]
    <3>1. CASE i = k + 1
      BY <2>2, <3>1
    <3>2. CASE i # k + 1
      <4>1. i \in 1..k /\ off[i] \in Nat
        BY <3>2
      <4> QED
        BY <2>1, <2>2, <4>1
    <3> QED
      BY <3>1, <3>2
  <2>4. ASSUME NEW p \in 1..off[k + 1]
        PROVE  \E i \in 1..(k + 1) : \E j \in 1..l[i] : p = off[i - 1] + j
    <3>1. CASE p <= off[k]
      <4>1. p \in 1..off[k]
        BY <2>2, <3>1
      <4>2. PICK i \in 1..k : \E j \in 1..l[i] : p = off[i - 1] + j
        BY <2>1, <4>1
      <4>3. i \in 1..(k + 1)
        OBVIOUS
      <4> QED
        BY <4>2, <4>3
    <3>2. CASE ~(p <= off[k])
      <4>1. p - off[k] \in 1..l[k + 1] /\ p = off[k] + (p - off[k])
        BY <2>2, <3>2
      <4>2. k + 1 \in 1..(k + 1) /\ (k + 1) - 1 = k
        OBVIOUS
      <4> QED
        BY <4>1, <4>2
    <3> QED
      BY <3>1, <3>2
  <2> QED
    BY <2>3, <2>4
<1> HIDE DEF S
<1>3. \A k \in Nat : k \in S
  BY <1>1, <1>2, NatSetInduction
<1>4. ASSUME NEW k \in 0..n
      PROVE  Holds(k)
  <2>1. k \in S /\ k <= n
    BY <1>3
  <2> QED
    BY <2>1 DEF S
<1> QED
  BY <1>4

\* Every step from g[i - 1] to g[i] keeps what is there and writes s[i] in the
\* i-th block.
WritesBlocks(n, l, off, g, s) ==
  \A i \in 1..n :
    /\ \A p \in 1..off[i - 1] : g[i][p] = g[i - 1][p]
    /\ \A j \in 1..l[i] : g[i][off[i - 1] + j] = s[i][j]

\* Then all blocks are there at the end.
LEMMA BlocksKept ==
  ASSUME NEW n \in Nat, NEW l, NEW off, NEW g, NEW s,
         AreBlocks(n, l, off), WritesBlocks(n, l, off, g, s)
  PROVE  \A i \in 1..n : \A j \in 1..l[i] : g[n][off[i - 1] + j] = s[i][j]
<1> DEFINE Holds(k) == \A i \in 1..k : \A j \in 1..l[i] : g[k][off[i - 1] + j] = s[i][j]
           S == {k \in Nat : k <= n => Holds(k)}
<1>1. 0 \in S
  OBVIOUS
<1>2. ASSUME NEW k \in Nat, k \in S
      PROVE  k + 1 \in S
  <2> SUFFICES ASSUME k + 1 <= n, NEW i \in 1..(k + 1), NEW j \in 1..l[i]
               PROVE  g[k + 1][off[i - 1] + j] = s[i][j]
    OBVIOUS
  <2>1. PICK m \in 1..n : m = k + 1 /\ m - 1 = k
    OBVIOUS
  <2>2. /\ \A p \in 1..off[m - 1] : g[m][p] = g[m - 1][p]
        /\ \A q \in 1..l[m] : g[m][off[m - 1] + q] = s[m][q]
    BY Zenon DEF WritesBlocks
  <2>3. CASE i = m
    BY <2>1, <2>2, <2>3, Zenon
  <2>4. CASE i # m
    <3>1. i \in 1..k /\ i \in 1..n /\ k \in 0..n
      BY <2>1, <2>4
    <3>2. g[k][off[i - 1] + j] = s[i][j]
      BY <1>2, <3>1
    <3>3. off[i] <= off[k]
      BY <3>1, Blocks
    <3>4. /\ off[i - 1] \in Nat /\ l[i] \in Nat /\ off[k] \in Nat
          /\ off[i] = off[i - 1] + l[i]
      BY <3>1 DEF AreBlocks
    <3>5. off[i - 1] + j \in 1..off[k]
      BY <3>3, <3>4
    <3> QED
      BY <2>1, <2>2, <3>2, <3>5, Zenon
  <2> QED
    BY <2>3, <2>4
<1> HIDE DEF S
<1>3. n \in S
  BY <1>1, <1>2, NatSetInduction
<1> QED
  BY <1>3 DEF S

\* F is the concatenation of ss: sequence number i lies between off[i - 1] and
\* off[i].
Concatenation(F, ss) ==
  \E off \in [0..Len(ss) -> Nat] :
    /\ off[0] = 0
    /\ \A i \in 1..Len(ss) : off[i] = off[i - 1] + Len(ss[i])
    /\ Len(F) = off[Len(ss)]
    /\ \A i \in 1..Len(ss) : \A j \in 1..Len(ss[i]) : F[off[i - 1] + j] = ss[i][j]

\* FlattenSeq concatenates.
LEMMA Flatten ==
  \A A, ss : ss \in Seq(Seq(A)) /\ Len(ss) # 0 =>
    FlattenSeq(ss) \in Seq(A) /\ Concatenation(FlattenSeq(ss), ss)
<1>0. SUFFICES ASSUME NEW A, NEW ss, ss \in Seq(Seq(A)), Len(ss) # 0
               PROVE  FlattenSeq(ss) \in Seq(A) /\ Concatenation(FlattenSeq(ss), ss)
  OBVIOUS
<1> DEFINE V == Seq(A)
<1>1. PICK n \in Nat : n = Len(ss) /\ n # 0
  BY <1>0, LenProperties
<1>2. \A i \in 1..n : ss[i] \in V /\ << >> \o ss[i] = ss[i]
  BY <1>0, <1>1
<1> HIDE DEF V
<1>3. PICK g \in [0..n -> V] :
        g[0] = << >> /\ \A i \in 1..n : g[i] = g[i - 1] \o ss[i]
  <2> DEFINE empty == << >>
             h == [i \in 1..n |-> [s \in V |-> s \o ss[i]]]
  <2>1. h \in [1..n -> [V -> V]]
    BY <1>2 DEF V
  <2>2. empty \in V
    BY DEF V
  <2>3. \E g \in [0..n -> V] : g[0] = empty /\ \A i \in 1..n : g[i] = h[i][g[i - 1]]
    <3> HIDE DEF h, empty
    <3> QED
      BY <2>1, <2>2, Recursion
  <2>4. PICK g \in [0..n -> V] : g[0] = << >> /\ \A i \in 1..n : g[i] = h[i][g[i - 1]]
    BY <2>3
  <2>5. \A i \in 1..n : g[i] = g[i - 1] \o ss[i]
    <3>1. \A i \in 1..n : g[i - 1] \in V
      BY <2>4
    <3> QED
      BY <2>4, <3>1
  <2> QED
    BY <2>4, <2>5
<1>4. FlattenSeq(ss) = g[n]
  <2> DEFINE f == [i \in 1..n |-> g[i]]
             flatten[i \in 1..Len(ss)] == IF i = 1 THEN ss[i] ELSE flatten[i - 1] \o ss[i]
             Step(x) == [i \in 1..Len(ss) |-> IF i = 1 THEN ss[i] ELSE x[i - 1] \o ss[i]]
  <2>1. f = Step(f)
    <3>1. ASSUME NEW i \in 1..n
          PROVE  g[i] = IF i = 1 THEN ss[i] ELSE f[i - 1] \o ss[i]
      <4>1. CASE i = 1
        <5>1. i - 1 = 0
          BY <4>1
        <5>2. g[i] = g[i - 1] \o ss[i]
          BY <1>3, Zenon
        <5> QED
          BY <1>2, <1>3, <4>1, <5>1, <5>2, Zenon
      <4>2. CASE i # 1
        <5>1. i - 1 \in 1..n
          BY <4>2
        <5> QED
          BY <1>3, <4>2, <5>1
      <4> QED
        BY <4>1, <4>2
    <3> QED
      BY <1>1, <3>1
  <2>2. flatten = CHOOSE x : x = Step(x)
    OBVIOUS
  <2>3. FlattenSeq(ss) = flatten[n]
    BY <1>1 DEF FlattenSeq
  <2> HIDE DEF flatten, f
  <2>4. flatten = Step(flatten)
    <3> HIDE DEF Step
    <3> QED
      BY <2>1, <2>2, Zenon
  <2>5. \A i \in 1..n : flatten[i] = IF i = 1 THEN ss[i] ELSE flatten[i - 1] \o ss[i]
    BY <1>1, <2>4
  <2> HIDE DEF Step
  <2> DEFINE S == {k \in Nat : k + 1 <= n => flatten[k + 1] = g[k + 1]}
  <2>6. 0 \in S
    <3>1. 1 \in 1..n /\ 0 + 1 = 1 /\ 1 - 1 = 0
      BY <1>1
    <3>2. flatten[1] = ss[1] /\ g[1] = g[0] \o ss[1]
      BY <1>3, <2>5, <3>1
    <3>3. flatten[1] = g[1]
      BY <1>2, <1>3, <3>1, <3>2
    <3> QED
      BY <3>1, <3>3
  <2>7. ASSUME NEW k \in Nat, k \in S
        PROVE  k + 1 \in S
    <3> SUFFICES ASSUME (k + 1) + 1 <= n
                 PROVE  flatten[(k + 1) + 1] = g[(k + 1) + 1]
      OBVIOUS
    <3>1. PICK m \in 1..n : m = (k + 1) + 1 /\ m # 1 /\ m - 1 = k + 1
      OBVIOUS
    <3>2. flatten[m - 1] = g[m - 1]
      BY <2>7, <3>1
    <3>3. g[m] = g[m - 1] \o ss[m] /\ flatten[m] = flatten[m - 1] \o ss[m]
      BY <1>3, <2>5, <3>1, Zenon
    <3> QED
      BY <3>1, <3>2, <3>3, Zenon
  <2>8. \A k \in Nat : k \in S
    <3> HIDE DEF S
    <3> QED
      BY <2>6, <2>7, NatSetInduction
  <2>9. n - 1 \in S /\ (n - 1) + 1 = n
    BY <1>1, <2>8
  <2>10. flatten[n] = g[n]
    BY <2>9
  <2> QED
    BY <2>3, <2>10
<1> DEFINE off == [i \in 0..n |-> Len(g[i])]
           l == [i \in 1..n |-> Len(ss[i])]
<1>5. \A i \in 0..n : Len(g[i]) \in Nat
  BY <1>3, LenProperties DEF V
<1>6. \A i \in 1..n : Len(ss[i]) \in Nat
  BY <1>2, LenProperties DEF V
<1>7. off \in [0..n -> Nat] /\ l \in [1..n -> Nat]
  BY <1>5, <1>6
<1>8. off[0] = 0
  BY <1>3
<1>9. ASSUME NEW i \in 1..n
      PROVE  /\ off[i] = off[i - 1] + l[i]
             /\ \A p \in 1..off[i - 1] : g[i][p] = g[i - 1][p]
             /\ \A j \in 1..l[i] : g[i][off[i - 1] + j] = ss[i][j]
  <2>1. PICK s \in V, t \in V : s = g[i - 1] /\ t = ss[i] /\ g[i] = s \o t
    <3>1. i - 1 \in 0..n
      OBVIOUS
    <3> QED
      BY <1>2, <1>3, <3>1
  <2>2. /\ Len(s) \in Nat /\ Len(t) \in Nat /\ Len(s \o t) = Len(s) + Len(t)
        /\ \A p \in 1..Len(s) : (s \o t)[p] = s[p]
        /\ \A j \in 1..Len(t) : (s \o t)[Len(s) + j] = t[j]
    BY DEF V
  <2>3. off[i] = Len(g[i]) /\ off[i - 1] = Len(g[i - 1]) /\ l[i] = Len(ss[i])
    OBVIOUS
  <2> HIDE DEF off, l
  <2> QED
    BY <2>1, <2>2, <2>3, Zenon
<1>10. off[n] = Len(g[n])
  OBVIOUS
<1>11. \A i \in 1..n : l[i] = Len(ss[i])
  OBVIOUS
<1> HIDE DEF off, l
<1>12. \A i \in 1..n : \A j \in 1..l[i] : g[n][off[i - 1] + j] = ss[i][j]
  <2>0. AreBlocks(n, l, off)
    BY <1>7, <1>8, <1>9 DEF AreBlocks
  <2>1. WritesBlocks(n, l, off, g, ss)
    BY <1>9, Zenon DEF WritesBlocks
  <2> QED
    BY <2>0, <2>1, BlocksKept
<1>13. g[n] \in Seq(A)
  BY <1>3 DEF V
<1> QED
  <2>1. /\ \A i \in 1..n : off[i] = off[i - 1] + Len(ss[i])
        /\ \A i \in 1..n : \A j \in 1..Len(ss[i]) : g[n][off[i - 1] + j] = ss[i][j]
    BY <1>9, <1>11, <1>12, Zenon
  <2> QED
    BY <1>1, <1>4, <1>7, <1>8, <1>10, <1>13, <2>1, Zenon DEF Concatenation

-----------------------------------------------------------------------------
(* Index vectors.                                                          *)

IsShape(dims) == dims \in Seq(Nat \ {0})

LEMMA IsShapeProperties ==
  ASSUME NEW dims, IsShape(dims)
  PROVE  /\ Len(dims) \in Nat /\ DOMAIN dims = 1..Len(dims)
         /\ \A d \in 1..Len(dims) : dims[d] \in Nat \ {0}
BY LenProperties DEF IsShape

\* An index vector has an index for every dimension.
LEMMA IndicesProperties ==
  ASSUME NEW dims, IsShape(dims), NEW x
  PROVE  x \in Indices(dims) <=>
           /\ x \in [1..Len(dims) -> Nat]
           /\ \A d \in 1..Len(dims) : x[d] < dims[d]
<1> DEFINE N == Len(dims)
           U == UNION {0..(dims[d] - 1) : d \in 1..N}
<1>1. /\ N \in Nat /\ DOMAIN dims = 1..N
      /\ \A d \in 1..N : dims[d] \in Nat \ {0}
  BY IsShapeProperties
<1>2. x \in Indices(dims) <=> x \in [1..N -> U] /\ \A d \in 1..N : x[d] < dims[d]
  BY <1>1 DEF Indices
<1> HIDE DEF N
<1>3. U \subseteq Nat
  BY <1>1
<1>4. ASSUME NEW d \in 1..N, x[d] \in Nat, x[d] < dims[d]
      PROVE  x[d] \in U
  <2>1. x[d] \in 0..(dims[d] - 1)
    BY <1>1, <1>4
  <2> QED
    BY <2>1
<1> HIDE DEF U
<1> QED
  BY <1>2, <1>3, <1>4 DEF N

\* dims is what is left of D without its first dimension, of m items.
FirstAndRest(D, m, dims) ==
  /\ IsShape(D) /\ IsShape(dims) /\ m \in Nat \ {0}
  /\ Len(D) = Len(dims) + 1
  /\ D[1] = m
  /\ \A d \in 1..Len(dims) : D[d + 1] = dims[d]

Rest(x, dims) == [d \in 1..Len(dims) |-> x[d + 1]]

\* An index vector of D is an index of the first dimension and an index vector
\* of the rest.
LEMMA IndicesFirstAndRest ==
  ASSUME NEW D, NEW m, NEW dims, FirstAndRest(D, m, dims)
  PROVE  /\ \A x \in Indices(D) : x[1] \in 0..(m - 1) /\ Rest(x, dims) \in Indices(dims)
         /\ \A i \in 0..(m - 1) : \A y \in Indices(dims) : \E x \in Indices(D) :
               x[1] = i /\ Rest(x, dims) = y
         /\ \A x, y \in Indices(D) :
               x[1] = y[1] /\ Rest(x, dims) = Rest(y, dims) => x = y
<1>1. PICK n \in Nat : n = Len(dims) /\ Len(D) = n + 1
  BY IsShapeProperties DEF FirstAndRest
<1>2. /\ m \in Nat \ {0} /\ D[1] = m
      /\ \A d \in 1..n : D[d + 1] = dims[d] /\ dims[d] \in Nat
  BY <1>1, IsShapeProperties DEF FirstAndRest
<1>3. \A x : x \in Indices(D) <=>
        x \in [1..(n + 1) -> Nat] /\ \A d \in 1..(n + 1) : x[d] < D[d]
  BY <1>1, IndicesProperties DEF FirstAndRest
<1>4. \A x : x \in Indices(dims) <=>
        x \in [1..n -> Nat] /\ \A d \in 1..n : x[d] < dims[d]
  BY <1>1, IndicesProperties DEF FirstAndRest
<1>5. \A x : Rest(x, dims) = [d \in 1..n |-> x[d + 1]]
  BY <1>1 DEF Rest
<1>6. ASSUME NEW x \in Indices(D)
      PROVE  x[1] \in 0..(m - 1) /\ Rest(x, dims) \in Indices(dims)
  <2>1. x \in [1..(n + 1) -> Nat] /\ \A d \in 1..(n + 1) : x[d] < D[d]
    BY <1>3
  <2>2. x[1] \in 0..(m - 1)
    BY <1>2, <2>1
  <2>3. \A d \in 1..n : d + 1 \in 1..(n + 1)
    OBVIOUS
  <2>4. \A d \in 1..n : x[d + 1] \in Nat /\ x[d + 1] < dims[d]
    BY <1>2, <2>1, <2>3
  <2> QED
    BY <1>4, <1>5, <2>2, <2>4
<1>7. ASSUME NEW i \in 0..(m - 1), NEW y \in Indices(dims)
      PROVE  \E x \in Indices(D) : x[1] = i /\ Rest(x, dims) = y
  <2> DEFINE x == [d \in 1..(n + 1) |-> IF d = 1 THEN i ELSE y[d - 1]]
  <2>1. y \in [1..n -> Nat] /\ \A d \in 1..n : y[d] < dims[d]
    BY <1>4
  <2>2. ASSUME NEW d \in 1..(n + 1)
        PROVE  x[d] \in Nat /\ x[d] < D[d]
    <3>1. CASE d = 1
      BY <1>2, <3>1
    <3>2. CASE d # 1
      <4>1. d - 1 \in 1..n /\ x[d] = y[d - 1] /\ (d - 1) + 1 = d
        BY <3>2
      <4>2. D[d] = dims[d - 1]
        BY <1>2, <4>1
      <4> QED
        BY <2>1, <4>1, <4>2
    <3> QED
      BY <3>1, <3>2
  <2>3. x \in Indices(D)
    BY <1>3, <2>2
  <2>4. x[1] = i
    OBVIOUS
  <2>5. \A d \in 1..n : x[d + 1] = y[d]
    OBVIOUS
  <2> HIDE DEF x
  <2>6. Rest(x, dims) = y
    BY <1>5, <2>1, <2>5
  <2> QED
    BY <2>3, <2>4, <2>6
<1>8. ASSUME NEW x \in Indices(D), NEW y \in Indices(D),
             x[1] = y[1], Rest(x, dims) = Rest(y, dims)
      PROVE  x = y
  <2>1. x \in [1..(n + 1) -> Nat] /\ y \in [1..(n + 1) -> Nat]
    BY <1>3
  <2>2. \A d \in 1..n : x[d + 1] = y[d + 1]
    <3>1. \A d \in 1..n : Rest(x, dims)[d] = x[d + 1] /\ Rest(y, dims)[d] = y[d + 1]
      BY <1>5
    <3> QED
      BY <1>8, <3>1
  <2>3. ASSUME NEW d \in 1..(n + 1)
        PROVE  x[d] = y[d]
    <3>1. CASE d = 1
      BY <1>8, <3>1
    <3>2. CASE d # 1
      <4>1. d - 1 \in 1..n /\ (d - 1) + 1 = d
        BY <3>2
      <4> QED
        BY <2>2, <4>1
    <3> QED
      BY <3>1, <3>2
  <2> QED
    BY <2>1, <2>3
<1> QED
  BY <1>6, <1>7, <1>8

\* Row-major order compares the first index, then the rest.
LEMMA BeforeFirstAndRest ==
  ASSUME NEW D, NEW m, NEW dims, FirstAndRest(D, m, dims),
         NEW x \in Indices(D), NEW y \in Indices(D)
  PROVE  /\ x[1] < y[1] => Before(x, y)
         /\ x[1] = y[1] /\ Before(Rest(x, dims), Rest(y, dims)) => Before(x, y)
<1>1. PICK n \in Nat : n = Len(dims) /\ Len(D) = n + 1
  BY IsShapeProperties DEF FirstAndRest
<1>2. x \in [1..(n + 1) -> Nat] /\ y \in [1..(n + 1) -> Nat]
  BY <1>1, IndicesProperties DEF FirstAndRest
<1>3. /\ Rest(x, dims) = [d \in 1..n |-> x[d + 1]]
      /\ Rest(y, dims) = [d \in 1..n |-> y[d + 1]]
  BY <1>1 DEF Rest
<1>4. ASSUME x[1] < y[1]
      PROVE  Before(x, y)
  <2>1. 1 \in DOMAIN x /\ 1..(1 - 1) = {}
    BY <1>2
  <2> QED
    BY <1>4, <2>1 DEF Before
<1>5. ASSUME x[1] = y[1], Before(Rest(x, dims), Rest(y, dims))
      PROVE  Before(x, y)
  <2>1. PICK d \in 1..n : x[d + 1] < y[d + 1] /\ \A e \in 1..(d - 1) : x[e + 1] = y[e + 1]
    <3>1. PICK d \in 1..n :
            /\ Rest(x, dims)[d] < Rest(y, dims)[d]
            /\ \A e \in 1..(d - 1) : Rest(x, dims)[e] = Rest(y, dims)[e]
      BY <1>3, <1>5 DEF Before
    <3>2. \A e \in 1..(d - 1) : e \in 1..n
      OBVIOUS
    <3> QED
      BY <1>3, <3>1, <3>2
  <2>2. d + 1 \in DOMAIN x
    BY <1>2
  <2>3. ASSUME NEW e \in 1..((d + 1) - 1)
        PROVE  x[e] = y[e]
    <3>1. CASE e = 1
      BY <1>5, <3>1
    <3>2. CASE e # 1
      <4>1. e - 1 \in 1..(d - 1) /\ (e - 1) + 1 = e
        BY <3>2
      <4> QED
        BY <2>1, <4>1
    <3> QED
      BY <3>1, <3>2
  <2> QED
    BY <2>1, <2>2, <2>3 DEF Before
<1> QED
  BY <1>4, <1>5

\* Nothing is before itself.
LEMMA BeforeIrreflexive ==
  ASSUME NEW dims, IsShape(dims), NEW x \in Indices(dims)
  PROVE  ~Before(x, x)
<1>1. x \in [1..Len(dims) -> Nat]
  BY IndicesProperties
<1> QED
  BY <1>1 DEF Before

\* How many index vectors there are.
Count(dims) == Cardinality(Indices(dims))

LEMMA CountFirstAndRest ==
  ASSUME NEW D, NEW m, NEW dims, FirstAndRest(D, m, dims), IsFiniteSet(Indices(dims))
  PROVE  IsFiniteSet(Indices(D)) /\ Count(D) = m * Count(dims)
<1> DEFINE S == (0..(m - 1)) \X Indices(dims)
           f == [x \in Indices(D) |-> <<x[1], Rest(x, dims)>>]
<1>1. m \in Nat \ {0}
  BY DEF FirstAndRest
<1>2. IsFiniteSet(0..(m - 1)) /\ Cardinality(0..(m - 1)) = m
  BY <1>1, FS_Interval
<1>3. IsFiniteSet(S) /\ Cardinality(S) = m * Count(dims)
  BY <1>2, FS_Product DEF Count
<1>4. f \in [Indices(D) -> S]
  BY IndicesFirstAndRest
<1>5. \A x, y \in Indices(D) : f[x] = f[y] => x = y
  BY IndicesFirstAndRest
<1>6. \A t \in S : \E x \in Indices(D) : f[x] = t
  BY IndicesFirstAndRest
<1>7. ExistsBijection(Indices(D), S)
  BY <1>4, <1>5, <1>6, Fun_IsBij DEF ExistsBijection
<1>8. ExistsBijection(S, Indices(D))
  BY <1>7, Fun_ExistsBijSymmetric
<1> HIDE DEF S
<1> QED
  BY <1>3, <1>8, FS_Bijection DEF Count

-----------------------------------------------------------------------------
(* Rows.                                                                   *)

Slice == [start : Nat, stop : Nat]

\* The slices of a row are not empty and within the dimensions.
RowFits(row, dims) ==
  /\ row \in Seq(Slice) /\ Len(row) <= Len(dims)
  /\ \A d \in 1..Len(row) : row[d].start < row[d].stop /\ row[d].stop <= dims[d]

\* R cuts an array of shape dims into k parts that follow each other in
\* row-major order, or into its elements if there are fewer than k.
CutsInto(R, k, dims) ==
  /\ R \in Seq(Seq(Slice))
  /\ Len(R) = IF Count(dims) < k THEN Count(dims) ELSE k
  /\ \A i \in 1..Len(R) : RowFits(R[i], dims)
  /\ \A x \in Indices(dims) : \E i \in 1..Len(R) : x \in Selected(R[i], dims)
  /\ \A i, j \in 1..Len(R) : i < j =>
        \A x \in Selected(R[i], dims), y \in Selected(R[j], dims) : Before(x, y)

\* A row selects among the index vectors.
LEMMA SelectedProperties ==
  ASSUME NEW row, NEW dims, NEW x, row \in Seq(Slice)
  PROVE  x \in Selected(row, dims) <=>
           x \in Indices(dims) /\ \A d \in 1..Len(row) : row[d].start <= x[d] /\ x[d] < row[d].stop
<1>1. DOMAIN row = 1..Len(row)
  BY LenProperties
<1> QED
  BY <1>1 DEF Selected

\* A row of no slices takes everything.
LEMMA EmptyRow ==
  ASSUME NEW dims
  PROVE  << >> \in Seq(Slice) /\ Len(<< >>) = 0 /\ Selected(<< >>, dims) = Indices(dims)
<1>1. << >> \in Seq(Slice) /\ Len(<< >>) = 0 /\ DOMAIN << >> = {}
  OBVIOUS
<1> QED
  BY <1>1 DEF Selected

\* A slice in front of a row selects by the first index.
LEMMA PrependedRow ==
  ASSUME NEW s \in Slice, NEW row, row \in Seq(Slice), NEW D, NEW m, NEW dims,
         FirstAndRest(D, m, dims), Len(row) <= Len(dims)
  PROVE  /\ <<s>> \o row \in Seq(Slice) /\ Len(<<s>> \o row) = Len(row) + 1
         /\ s.start < s.stop /\ s.stop <= m /\ RowFits(row, dims) => RowFits(<<s>> \o row, D)
         /\ \A x : x \in Selected(<<s>> \o row, D) <=>
              /\ x \in Indices(D)
              /\ s.start <= x[1] /\ x[1] < s.stop
              /\ Rest(x, dims) \in Selected(row, dims)
<1>1. PICK l \in Nat : l = Len(row)
  BY LenProperties
<1>2. PICK t : t = <<s>> \o row
  OBVIOUS
<1>3. /\ t \in Seq(Slice) /\ Len(t) = l + 1 /\ t[1] = s
      /\ \A d \in 1..l : t[d + 1] = row[d]
  BY <1>1, <1>2
<1>4. PICK n \in Nat : n = Len(dims) /\ Len(D) = n + 1 /\ l <= n
  BY <1>1, IsShapeProperties DEF FirstAndRest
<1>5. D[1] = m /\ \A d \in 1..n : D[d + 1] = dims[d]
  BY <1>4 DEF FirstAndRest
<1>6. \A d \in 1..l : d \in 1..n /\ d + 1 \in 1..(l + 1)
  BY <1>4
<1>7. \A d \in 1..(l + 1) : d = 1 \/ (d - 1 \in 1..l /\ (d - 1) + 1 = d)
  OBVIOUS
<1>8. ASSUME s.start < s.stop, s.stop <= m, RowFits(row, dims)
      PROVE  RowFits(t, D)
  <2>1. \A d \in 1..l : row[d].start < row[d].stop /\ row[d].stop <= dims[d]
    BY <1>1, <1>8 DEF RowFits
  <2>2. \A d \in 1..l : t[d + 1].start < t[d + 1].stop /\ t[d + 1].stop <= D[d + 1]
    BY <1>3, <1>5, <1>6, <2>1
  <2>3. \A d \in 1..(l + 1) : t[d].start < t[d].stop /\ t[d].stop <= D[d]
    BY <1>3, <1>5, <1>7, <1>8, <2>2
  <2>4. Len(t) <= Len(D)
    BY <1>3, <1>4
  <2> QED
    BY <1>3, <2>3, <2>4 DEF RowFits
<1>9. ASSUME NEW x \in Indices(D)
      PROVE  x \in Selected(t, D) <=> /\ s.start <= x[1] /\ x[1] < s.stop
                                      /\ Rest(x, dims) \in Selected(row, dims)
  <2>1. Rest(x, dims) \in Indices(dims)
    BY IndicesFirstAndRest
  <2>2. \A d \in 1..l : Rest(x, dims)[d] = x[d + 1]
    BY <1>4, <1>6 DEF Rest
  <2>3. x \in Selected(t, D) <=> \A d \in 1..(l + 1) : t[d].start <= x[d] /\ x[d] < t[d].stop
    BY <1>3, SelectedProperties
  <2>4. Rest(x, dims) \in Selected(row, dims) <=>
          \A d \in 1..l : row[d].start <= x[d + 1] /\ x[d + 1] < row[d].stop
    BY <1>1, <2>1, <2>2, SelectedProperties
  <2>5. (\A d \in 1..(l + 1) : t[d].start <= x[d] /\ x[d] < t[d].stop) <=>
          /\ s.start <= x[1] /\ x[1] < s.stop
          /\ \A d \in 1..l : row[d].start <= x[d + 1] /\ x[d + 1] < row[d].stop
    <3>1. 1 \in 1..(l + 1)
      OBVIOUS
    <3> QED
      BY <1>3, <1>6, <1>7, <3>1
  <2> QED
    BY <2>3, <2>4, <2>5
<1>10. \A x : x \in Selected(t, D) => x \in Indices(D)
  BY DEF Selected
<1> QED
  BY <1>1, <1>2, <1>3, <1>8, <1>9, <1>10

-----------------------------------------------------------------------------
(* The two ways to cut a dimension.                                        *)

\* There is at least one index vector, and not infinitely many.
Counted(dims) == IsFiniteSet(Indices(dims)) /\ Count(dims) \in Nat \ {0}

LEMMA CountedFirstAndRest ==
  ASSUME NEW D, NEW m, NEW dims, FirstAndRest(D, m, dims), Counted(dims)
  PROVE  Counted(D) /\ Count(D) = m * Count(dims) /\ m <= Count(D) /\ m \in Nat \ {0}
<1>1. IsFiniteSet(Indices(D)) /\ Count(D) = m * Count(dims)
  BY CountFirstAndRest DEF Counted
<1>2. m \in Nat \ {0} /\ Count(dims) \in Nat \ {0}
  BY DEF FirstAndRest, Counted
<1>3. PICK c \in Nat \ {0} : c = Count(dims)
  BY <1>2
<1>4. m * c \in Nat \ {0} /\ m <= m * c
  <2>1. m * 1 = m /\ m * c \in Nat
    BY <1>2, SMT
  <2>2. 1 * m <= c * m /\ 1 * m = m /\ c * m = m * c
    BY <1>2, Products, SMT
  <2> QED
    BY <1>2, <2>1, <2>2
<1> QED
  BY <1>1, <1>2, <1>3, <1>4 DEF Counted

\* The slices of the last dimension that is cut, once more.
LEMMA LastColumnSlices ==
  ASSUME NEW n \in Nat \ {0}, NEW m \in Nat, n <= m
  PROVE  /\ \A i \in 1..n : /\ last_column(n, m)[i] \in Slice
                            /\ last_column(n, m)[i].stop <= m
         /\ \A i, j \in 1..n : i < j => last_column(n, m)[i].stop <= last_column(n, m)[j].start
<1> DEFINE q == m \div n
           r == m % n
<1>1. q \in Nat /\ r \in 0..(n - 1) /\ r \in Nat /\ m = n * q + r
  <2>1. q \in Nat /\ r \in 0..(n - 1) /\ m = n * q + r
    BY Division, Zenon
  <2> HIDE DEF q, r
  <2> QED
    BY <2>1
<1>0. PICK c : c = last_column(n, m)
  OBVIOUS
<1>2. \A i \in 1..n : c[i].start = start(i - 1, r, q) /\ c[i].stop = stop(i - 1, r, q)
                      /\ c[i] = [start |-> start(i - 1, r, q), stop |-> stop(i - 1, r, q)]
  BY <1>0 DEF last_column, slice
<1> HIDE DEF q, r
<1>3. ASSUME NEW i \in Nat
      PROVE  /\ start(i, r, q) \in Nat /\ stop(i, r, q) \in Nat
             /\ start(i, r, q) <= stop(i, r, q)
  <2>1. /\ i * q \in Nat /\ (i + 1) * q \in Nat
        /\ i * (q + 1) \in Nat /\ (i + 1) * (q + 1) \in Nat
    BY <1>1, SMT
  <2>2. start(i, r, q) \in Nat /\ stop(i, r, q) \in Nat
    BY <1>1, <2>1 DEF start, stop
  <2>3. step(i, r, q) \in Nat
    BY <1>1 DEF step
  <2>4. stop(i, r, q) = start(i, r, q) + step(i, r, q)
    BY <1>1, PartsAdjacent
  <2> QED
    BY <2>2, <2>3, <2>4
<1>4. \A i, j \in Nat : i < j => stop(i, r, q) <= start(j, r, q)
  BY <1>1, PartsOrdered
<1>5. stop(n - 1, r, q) = m
  BY <1>1, PartsEnd
<1>6. ASSUME NEW i \in 1..n
      PROVE  c[i] \in Slice /\ c[i].stop <= m
  <2>1. i - 1 \in Nat /\ n - 1 \in Nat
    OBVIOUS
  <2>2. stop(i - 1, r, q) <= m
    <3>1. CASE i = n
      BY <1>1, <1>5, <3>1
    <3>2. CASE i # n
      <4>1. stop(i - 1, r, q) <= start(n - 1, r, q)
        BY <1>4, <2>1, <3>2
      <4>2. start(n - 1, r, q) <= stop(n - 1, r, q)
        BY <1>3, <2>1
      <4> QED
        BY <1>3, <1>5, <2>1, <4>1, <4>2
    <3> QED
      BY <3>1, <3>2
  <2> QED
    <3>1. start(i - 1, r, q) \in Nat /\ stop(i - 1, r, q) \in Nat
      BY <1>3, <2>1
    <3>2. c[i] \in Slice
      <4>1. \A a, b \in Nat : [start |-> a, stop |-> b] \in Slice
        BY DEF Slice
      <4>2. c[i] = [start |-> start(i - 1, r, q), stop |-> stop(i - 1, r, q)]
        BY <1>2
      <4> QED
        BY <3>1, <4>1, <4>2, Zenon
    <3> QED
      BY <1>2, <2>2, <3>2
<1>7. ASSUME NEW i \in 1..n, NEW j \in 1..n, i < j
      PROVE  c[i].stop <= c[j].start
  <2>1. i - 1 \in Nat /\ j - 1 \in Nat /\ i - 1 < j - 1
    BY <1>7
  <2>2. stop(i - 1, r, q) <= start(j - 1, r, q)
    BY <1>4, <2>1
  <2> QED
    BY <1>2, <2>2
<1> QED
  BY <1>0, <1>6, <1>7

\* Fewer parts than items: the first dimension is cut, the others are whole.
LEMMA LastColumnCuts ==
  ASSUME NEW D, NEW m, NEW dims, FirstAndRest(D, m, dims), Counted(dims),
         NEW k \in Nat \ {0}, k <= m
  PROVE  CutsInto([i \in 1..k |-> <<last_column(k, m)[i]>>], k, D)
<1> DEFINE R == [i \in 1..k |-> <<last_column(k, m)[i]>>]
<1>1. /\ m \in Nat \ {0} /\ Counted(D) /\ m <= Count(D)
  BY CountedFirstAndRest
<1>2. PICK s : s = last_column(k, m)
  OBVIOUS
<1>3. /\ \A i \in 1..k : s[i] \in Slice /\ s[i].start < s[i].stop /\ s[i].stop <= m
      /\ \A i, j \in 1..k : i < j => s[i].stop <= s[j].start
      /\ \A x \in 0..(m - 1) : \E i \in 1..k : s[i].start <= x /\ x < s[i].stop
  BY <1>1, <1>2, LastColumnSlices, LastColumnPartitions DEF In
<1>4. \A i \in 1..k : R[i] = <<s[i]>>
  BY <1>2
<1>5. R \in Seq(Seq(Slice)) /\ Len(R) = k
  BY <1>2, <1>3
<1> HIDE DEF R
<1>6. PICK n \in Nat : n = Len(D) /\ 1 <= n /\ D[1] = m
  BY IsShapeProperties DEF FirstAndRest
<1>7. ASSUME NEW i \in 1..k
      PROVE  /\ RowFits(R[i], D)
             /\ \A x : x \in Selected(R[i], D) <=>
                   x \in Indices(D) /\ s[i].start <= x[1] /\ x[1] < s[i].stop
  <2>1. R[i] \in Seq(Slice) /\ Len(R[i]) = 1 /\ R[i][1] = s[i]
    <3>1. PICK e \in Slice : e = s[i]
      BY <1>3
    <3>2. <<e>> \in Seq(Slice) /\ Len(<<e>>) = 1 /\ <<e>>[1] = e
      OBVIOUS
    <3> QED
      BY <1>4, <3>1, <3>2
  <2>2. \A d \in 1..1 : d = 1
    OBVIOUS
  <2>3. RowFits(R[i], D)
    BY <1>3, <1>6, <2>1, <2>2 DEF RowFits
  <2>4. \A x : x \in Selected(R[i], D) <=>
          x \in Indices(D) /\ \A d \in 1..1 : R[i][d].start <= x[d] /\ x[d] < R[i][d].stop
    BY <2>1, SelectedProperties
  <2> QED
    BY <2>1, <2>2, <2>3, <2>4
<1>8. ASSUME NEW x \in Indices(D)
      PROVE  \E i \in 1..k : x \in Selected(R[i], D)
  BY <1>3, <1>7, IndicesFirstAndRest
<1>9. ASSUME NEW i \in 1..k, NEW j \in 1..k, i < j,
             NEW x \in Selected(R[i], D), NEW y \in Selected(R[j], D)
      PROVE  Before(x, y)
  <2>1. x \in Indices(D) /\ y \in Indices(D) /\ x[1] < s[i].stop /\ s[j].start <= y[1]
    BY <1>7
  <2>2. x[1] \in 0..(m - 1) /\ y[1] \in 0..(m - 1)
    BY <2>1, IndicesFirstAndRest
  <2>3. s[i].stop \in Nat /\ s[j].start \in Nat /\ s[i].stop <= s[j].start
    BY <1>3, <1>9 DEF Slice
  <2>4. x[1] < y[1]
    BY <2>1, <2>2, <2>3
  <2> QED
    BY <2>1, <2>4, BeforeFirstAndRest
<1>10. Len(R) = IF Count(D) < k THEN Count(D) ELSE k
  BY <1>1, <1>5 DEF Counted
<1>11. CutsInto(R, k, D)
  BY <1>5, <1>7, <1>8, <1>9, <1>10 DEF CutsInto
<1> QED
  BY <1>11 DEF R

\* Blocks of equal lengths end at the same places.
LEMMA BlocksEnd ==
  ASSUME NEW n \in Nat, NEW l, NEW off, AreBlocks(n, l, off),
         NEW e, e[0] = 0, \A i \in 1..n : e[i] = e[i - 1] + l[i]
  PROVE  off[n] = e[n]
<1> DEFINE S == {k \in Nat : k <= n => off[k] = e[k]}
<1>1. 0 \in S
  BY DEF AreBlocks
<1>2. ASSUME NEW k \in Nat, k \in S
      PROVE  k + 1 \in S
  <2> SUFFICES ASSUME k + 1 <= n
               PROVE  off[k + 1] = e[k + 1]
    OBVIOUS
  <2>1. k + 1 \in 1..n /\ (k + 1) - 1 = k
    OBVIOUS
  <2>2. off[k + 1] = off[k] + l[k + 1]
    BY <2>1 DEF AreBlocks
  <2>3. e[k + 1] = e[k] + l[k + 1]
    BY <2>1
  <2> QED
    BY <1>2, <2>2, <2>3
<1> HIDE DEF S
<1>3. n \in S
  BY <1>1, <1>2, NatSetInduction
<1> QED
  BY <1>3 DEF S

\* A later position is in a later block, or further on in the same one.
LEMMA BlocksOrder ==
  ASSUME NEW n \in Nat, NEW l, NEW off, AreBlocks(n, l, off),
         NEW i \in 1..n, NEW j \in 1..l[i], NEW u \in 1..n, NEW v \in 1..l[u],
         off[i - 1] + j < off[u - 1] + v
  PROVE  i < u \/ (i = u /\ j < v)
<1>1. /\ off[i - 1] \in Nat /\ l[i] \in Nat /\ off[u - 1] \in Nat /\ l[u] \in Nat
      /\ off[u] \in Nat /\ off[u] = off[u - 1] + l[u]
  BY DEF AreBlocks
<1>2. ASSUME u < i
      PROVE  FALSE
  <2>1. i - 1 \in 0..n /\ u \in 1..(i - 1)
    BY <1>2
  <2>2. off[u] <= off[i - 1]
    BY <2>1, Blocks
  <2> QED
    BY <1>1, <2>2
<1>3. i = u => j < v
  BY <1>1
<1> QED
  BY <1>2, <1>3

\* The items of a dimension of m < k items share k rows.
LEMMA RowsOfColumn ==
  ASSUME NEW m \in Nat \ {0}, NEW q \in Nat, NEW r \in 0..(m - 1), NEW c \in Nat,
         NEW l, NEW off, AreBlocks(m, l, off),
         \A i \in 1..m : l[i] = IF c < step(i - 1, r, q) THEN c ELSE step(i - 1, r, q)
  PROVE  off[m] = IF m * c < m * q + r THEN m * c ELSE m * q + r
<1>1. m * c \in Nat /\ m * q \in Nat /\ r \in Nat
  BY SMT
<1>2. CASE c <= q
  <2> DEFINE e == [i \in 0..m |-> i * c]
  <2>1. \A i \in 1..m : l[i] = c
    BY <1>2 DEF step
  <2>2. \A i \in 1..m : i * c = (i - 1) * c + c
    BY SMT
  <2>3. e[0] = 0 /\ e[m] = m * c
    BY SMT
  <2>4. \A i \in 1..m : e[i] = e[i - 1] + l[i]
    BY <2>1, <2>2
  <2> HIDE DEF e
  <2>5. off[m] = m * c
    BY <2>3, <2>4, BlocksEnd
  <2>6. m * c <= m * q
    <3>1. c * m <= q * m
      BY <1>2, Products
    <3>2. c * m = m * c /\ q * m = m * q
      BY SMT
    <3> QED
      BY <3>1, <3>2
  <2> QED
    BY <1>1, <2>5, <2>6
<1>3. CASE ~(c <= q)
  <2> DEFINE e == [i \in 0..m |-> start(i, r, q)]
  <2>1. \A i \in 1..m : l[i] = step(i - 1, r, q)
    BY <1>3 DEF step
  <2>2. start(0, r, q) = 0
    BY <1>1, PartsAdjacent
  <2>3. ASSUME NEW i \in 1..m
        PROVE  start(i, r, q) = start(i - 1, r, q) + step(i - 1, r, q)
    <3>1. i - 1 \in Nat /\ (i - 1) + 1 = i
      OBVIOUS
    <3> QED
      BY <1>1, <3>1, PartsAdjacent
  <2>4. start(m, r, q) = m * q + r
    BY <1>1 DEF start
  <2>5. e[0] = 0 /\ e[m] = m * q + r
    BY <2>2, <2>4
  <2>6. \A i \in 1..m : e[i] = e[i - 1] + l[i]
    BY <2>1, <2>3
  <2> HIDE DEF e
  <2>7. off[m] = m * q + r
    BY <2>5, <2>6, BlocksEnd
  <2>8. m * q + r <= m * c
    <3>1. (q + 1) * m <= c * m
      BY <1>3, Products
    <3>2. (q + 1) * m = m * q + m /\ c * m = m * c
      BY SMT
    <3> QED
      BY <1>1, <3>1, <3>2
  <2> QED
    BY <1>1, <2>7, <2>8
<1> QED
  BY <1>2, <1>3

\* How k parts are divided among m < k items.
LEMMA PartsPerItem ==
  ASSUME NEW k \in Nat, NEW m \in Nat \ {0}, m < k
  PROVE  \E q \in Nat, r \in 0..(m - 1) :
           /\ q = k \div m /\ r = k % m /\ k = m * q + r
           /\ \A i \in 1..m : step(i - 1, r, q) \in 1..k
<1>1. PICK q, r : q = k \div m /\ r = k % m
  OBVIOUS
<1>2. q \in Nat /\ r \in 0..(m - 1) /\ k = m * q + r
  BY <1>1, Division
<1>3. q # 0
  <2>1. q = 0 => m * q = 0
    BY SMT
  <2> QED
    BY <1>2, <2>1
<1>4. q <= m * q /\ m * q \in Nat
  <2>1. 1 * q <= m * q /\ m * q \in Nat
    BY <1>2, Products
  <2> QED
    BY <1>2, <2>1
<1>5. \A i \in 1..m : step(i - 1, r, q) \in 1..k
  BY <1>2, <1>3, <1>4 DEF step
<1> QED
  BY <1>1, <1>2, <1>5

\* A function on 1..n is a sequence of length n.
LEMMA FunctionsAreSequences ==
  ASSUME NEW A, NEW n \in Nat, NEW f \in [1..n -> A]
  PROVE  f \in Seq(A) /\ Len(f) = n
OBVIOUS

\* More parts than items: every item gets its own subtree of rows.
LEMMA ColumnCuts ==
  ASSUME NEW D, NEW m, NEW dims, FirstAndRest(D, m, dims), Counted(dims),
         NEW k \in Nat, m < k,
         NEW rest, \A j \in 1..k : CutsInto(rest[j], j, dims)
  PROVE  CutsInto(column(k, m, rest), k, D)
<1>1. m \in Nat \ {0} /\ Counted(D) /\ Count(D) = m * Count(dims)
  BY CountedFirstAndRest
<1>2. PICK q \in Nat, r \in 0..(m - 1) :
        /\ q = k \div m /\ r = k % m /\ k = m * q + r
        /\ \A i \in 1..m : step(i - 1, r, q) \in 1..k
  BY <1>1, PartsPerItem
<1>3. PICK sub : sub = [i \in 1..m |-> rest[step(i - 1, r, q)]]
  OBVIOUS
<1>4. PICK item : item = [i \in 1..m |-> single_step_slice(i - 1)]
  OBVIOUS
<1>5. ASSUME NEW i \in 1..m
      PROVE  /\ CutsInto(sub[i], step(i - 1, r, q), dims)
             /\ sub[i] \in Seq(Seq(Slice))
             /\ item[i] \in Slice /\ item[i].start = i - 1 /\ item[i].stop = i
  <2>1. sub[i] = rest[step(i - 1, r, q)] /\ step(i - 1, r, q) \in 1..k
    BY <1>2, <1>3
  <2>2. CutsInto(sub[i], step(i - 1, r, q), dims)
    BY <2>1
  <2>3. item[i] = [start |-> i - 1, stop |-> i]
    <3>1. item[i] = single_step_slice(i - 1) /\ (i - 1) + 1 = i
      BY <1>4
    <3> QED
      BY <3>1 DEF single_step_slice
  <2>4. i - 1 \in Nat /\ i \in Nat
    OBVIOUS
  <2>5. item[i] \in Slice /\ item[i].start = i - 1 /\ item[i].stop = i
    BY <2>3, <2>4 DEF Slice
  <2>6. sub[i] \in Seq(Seq(Slice))
    BY <2>2 DEF CutsInto
  <2> QED
    BY <2>2, <2>5, <2>6
<1>6. PICK ss : ss = [i \in 1..m |-> prepend(item[i], sub[i])]
  OBVIOUS
<1>7. column(k, m, rest) = FlattenSeq(ss)
  <2>1. ss = [i \in 1..m |-> prepend(single_step_slice(i - 1), rest[step(i - 1, k % m, k \div m)])]
    BY <1>2, <1>3, <1>4, <1>6
  <2> QED
    BY <2>1 DEF column
<1>8. PICK l : l = [i \in 1..m |-> Len(sub[i])]
  OBVIOUS
<1>9. ASSUME NEW i \in 1..m
      PROVE  /\ l[i] \in Nat /\ l[i] = Len(sub[i])
             /\ l[i] = IF Count(dims) < step(i - 1, r, q) THEN Count(dims) ELSE step(i - 1, r, q)
             /\ Len(ss[i]) = l[i] /\ ss[i] \in Seq(Seq(Slice))
             /\ \A j \in 1..l[i] : ss[i][j] = <<item[i]>> \o sub[i][j]
             /\ \A j \in 1..l[i] : sub[i][j] \in Seq(Slice) /\ RowFits(sub[i][j], dims)
  <2>1. l[i] = Len(sub[i]) /\ l[i] \in Nat /\ DOMAIN sub[i] = 1..l[i]
        /\ \A j \in 1..l[i] : sub[i][j] \in Seq(Slice)
    <3>1. l[i] = Len(sub[i])
      BY <1>8
    <3> QED
      BY <1>5, <3>1, LenProperties
  <2>2. l[i] = IF Count(dims) < step(i - 1, r, q) THEN Count(dims) ELSE step(i - 1, r, q)
    BY <1>5, <2>1 DEF CutsInto
  <2>3. \A j \in 1..l[i] : RowFits(sub[i][j], dims)
    BY <1>5, <2>1 DEF CutsInto
  <2>4. PICK t : t = [j \in 1..l[i] |-> <<item[i]>> \o sub[i][j]]
    OBVIOUS
  <2>5. ss[i] = t
    BY <1>6, <2>1, <2>4 DEF prepend
  <2>6. \A j \in 1..l[i] : t[j] \in Seq(Slice)
    <3>1. \A j \in 1..l[i] : <<item[i]>> \o sub[i][j] \in Seq(Slice)
      <4>1. \A row \in Seq(Slice) : <<item[i]>> \o row \in Seq(Slice)
        BY <1>5
      <4> QED
        BY <2>1, <4>1
    <3> QED
      BY <2>4, <3>1
  <2>7. t \in Seq(Seq(Slice)) /\ Len(t) = l[i]
    <3>1. t \in [1..l[i] -> Seq(Slice)]
      BY <2>4, <2>6
    <3> QED
      BY <2>1, <3>1, FunctionsAreSequences
  <2> QED
    BY <2>1, <2>2, <2>3, <2>4, <2>5, <2>7
<1>10. ss \in Seq(Seq(Seq(Slice))) /\ Len(ss) = m /\ m # 0
  <2>1. \A i \in 1..m : ss[i] \in Seq(Seq(Slice))
    BY <1>9
  <2> QED
    BY <1>1, <1>6, <2>1
<1>11. PICK F : F = FlattenSeq(ss)
  OBVIOUS
<1>12. F \in Seq(Seq(Slice)) /\ Concatenation(F, ss)
  BY <1>10, <1>11, Flatten
<1>13. PICK off :
         /\ AreBlocks(m, l, off) /\ Len(F) = off[m]
         /\ \A i \in 1..m : \A j \in 1..l[i] : F[off[i - 1] + j] = ss[i][j]
  <2>1. PICK off \in [0..m -> Nat] :
          /\ off[0] = 0
          /\ \A i \in 1..m : off[i] = off[i - 1] + Len(ss[i])
          /\ Len(F) = off[m]
          /\ \A i \in 1..m : \A j \in 1..Len(ss[i]) : F[off[i - 1] + j] = ss[i][j]
    BY <1>10, <1>12 DEF Concatenation
  <2>2. \A i \in 1..m : Len(ss[i]) = l[i]
    BY <1>9
  <2>3. l \in [1..m -> Nat]
    BY <1>8, <1>9
  <2>4. \A i \in 1..m : off[i] = off[i - 1] + l[i]
    BY <2>1, <2>2
  <2>5. AreBlocks(m, l, off)
    BY <2>1, <2>3, <2>4 DEF AreBlocks
  <2>6. ASSUME NEW i \in 1..m, NEW j \in 1..l[i]
        PROVE  F[off[i - 1] + j] = ss[i][j]
    <3>1. j \in 1..Len(ss[i])
      BY <2>2
    <3> QED
      BY <2>1, <3>1
  <2>7. Len(F) = off[m]
    BY <2>1
  <2>8. \A i \in 1..m : \A j \in 1..l[i] : F[off[i - 1] + j] = ss[i][j]
    BY <2>6
  <2> QED
    BY <2>5, <2>7, <2>8
<1>14. PICK n \in Nat : n = Len(F)
  BY <1>12, LenProperties
<1>15. n = IF Count(D) < k THEN Count(D) ELSE k
  <2>1. PICK c \in Nat : c = Count(dims)
    BY DEF Counted
  <2>2. \A i \in 1..m : l[i] = IF c < step(i - 1, r, q) THEN c ELSE step(i - 1, r, q)
    BY <1>9, <2>1
  <2>3. off[m] = IF m * c < m * q + r THEN m * c ELSE m * q + r
    <3>1. AreBlocks(m, l, off) /\ m \in Nat \ {0}
      BY <1>1, <1>13
    <3> QED
      BY <2>2, <3>1, RowsOfColumn
  <2> QED
    BY <1>1, <1>2, <1>13, <1>14, <2>1, <2>3
<1>16. \A p \in 1..n : \E i \in 1..m : \E j \in 1..l[i] :
         p = off[i - 1] + j /\ F[p] = <<item[i]>> \o sub[i][j]
  <2>1. \A p \in 1..off[m] : \E i \in 1..m : \E j \in 1..l[i] : p = off[i - 1] + j
    <3>1. AreBlocks(m, l, off) /\ m \in 0..m
      BY <1>1, <1>13
    <3> QED
      BY <1>1, <3>1, Blocks
  <2>2. \A i \in 1..m : \A j \in 1..l[i] : F[off[i - 1] + j] = <<item[i]>> \o sub[i][j]
    BY <1>9, <1>13
  <2> SUFFICES ASSUME NEW p \in 1..n
               PROVE  \E i \in 1..m : \E j \in 1..l[i] :
                        p = off[i - 1] + j /\ F[p] = <<item[i]>> \o sub[i][j]
    OBVIOUS
  <2>3. PICK i \in 1..m : \E j \in 1..l[i] : p = off[i - 1] + j
    BY <1>13, <1>14, <2>1
  <2>4. PICK j \in 1..l[i] : p = off[i - 1] + j
    BY <2>3
  <2> QED
    BY <2>2, <2>4
<1>17. \A i \in 1..m : \A j \in 1..l[i] :
         off[i - 1] + j \in 1..n /\ F[off[i - 1] + j] = <<item[i]>> \o sub[i][j]
  <2> SUFFICES ASSUME NEW i \in 1..m, NEW j \in 1..l[i]
               PROVE  off[i - 1] + j \in 1..n /\ F[off[i - 1] + j] = <<item[i]>> \o sub[i][j]
    OBVIOUS
  <2>1. m \in 0..m /\ off[i] <= off[m]
    BY <1>1, <1>13, Blocks
  <2>2. off[i - 1] \in Nat /\ l[i] \in Nat /\ off[i] = off[i - 1] + l[i] /\ off[m] \in Nat
    BY <1>1, <1>13 DEF AreBlocks
  <2>3. off[i - 1] + j \in 1..n
    BY <1>13, <1>14, <2>1, <2>2
  <2> QED
    BY <1>9, <1>13, <2>3
<1>18. ASSUME NEW i \in 1..m, NEW j \in 1..l[i]
       PROVE  /\ RowFits(<<item[i]>> \o sub[i][j], D)
              /\ \A x : x \in Selected(<<item[i]>> \o sub[i][j], D) <=>
                   x \in Indices(D) /\ x[1] = i - 1 /\ Rest(x, dims) \in Selected(sub[i][j], dims)
  <2>1. /\ sub[i][j] \in Seq(Slice) /\ RowFits(sub[i][j], dims) /\ Len(sub[i][j]) <= Len(dims)
    BY <1>9 DEF RowFits
  <2>2. item[i] \in Slice /\ item[i].start = i - 1 /\ item[i].stop = i
    BY <1>5
  <2>3. /\ item[i].start < item[i].stop /\ item[i].stop <= m
    BY <2>2
  <2>4. RowFits(<<item[i]>> \o sub[i][j], D)
    BY <2>1, <2>2, <2>3, PrependedRow
  <2>5. \A x : x \in Selected(<<item[i]>> \o sub[i][j], D) <=>
          /\ x \in Indices(D)
          /\ item[i].start <= x[1] /\ x[1] < item[i].stop
          /\ Rest(x, dims) \in Selected(sub[i][j], dims)
    BY <2>1, <2>2, PrependedRow
  <2>6. \A x \in Indices(D) : x[1] \in 0..(m - 1)
    BY IndicesFirstAndRest
  <2>7. \A x \in Indices(D) : (i - 1 <= x[1] /\ x[1] < i) <=> x[1] = i - 1
    BY <2>6
  <2> QED
    BY <2>2, <2>4, <2>5, <2>7
<1>19. \A p \in 1..n : RowFits(F[p], D)
  BY <1>16, <1>18
<1>20. ASSUME NEW x \in Indices(D)
       PROVE  \E p \in 1..n : x \in Selected(F[p], D)
  <2>1. x[1] \in 0..(m - 1) /\ Rest(x, dims) \in Indices(dims)
    BY IndicesFirstAndRest
  <2>2. PICK i \in 1..m : x[1] = i - 1
    <3>1. x[1] + 1 \in 1..m /\ x[1] = (x[1] + 1) - 1
      BY <1>1, <2>1
    <3> QED
      BY <3>1
  <2>3. PICK j \in 1..l[i] : Rest(x, dims) \in Selected(sub[i][j], dims)
    BY <1>5, <1>9, <2>1 DEF CutsInto
  <2>4. x \in Selected(<<item[i]>> \o sub[i][j], D)
    BY <1>18, <2>2, <2>3
  <2> QED
    BY <1>17, <2>4
<1>21. ASSUME NEW p \in 1..n, NEW u \in 1..n, p < u,
              NEW x \in Selected(F[p], D), NEW y \in Selected(F[u], D)
       PROVE  Before(x, y)
  <2>1. PICK i \in 1..m : \E j \in 1..l[i] : p = off[i - 1] + j /\ F[p] = <<item[i]>> \o sub[i][j]
    BY <1>16
  <2>2. PICK j \in 1..l[i] : p = off[i - 1] + j /\ F[p] = <<item[i]>> \o sub[i][j]
    BY <2>1
  <2>2a. PICK v \in 1..m : \E w \in 1..l[v] : u = off[v - 1] + w /\ F[u] = <<item[v]>> \o sub[v][w]
    BY <1>16
  <2>2b. PICK w \in 1..l[v] : u = off[v - 1] + w /\ F[u] = <<item[v]>> \o sub[v][w]
    BY <2>2a
  <2>3. i < v \/ (i = v /\ j < w)
    BY <1>1, <1>13, <1>21, <2>2, <2>2b, BlocksOrder
  <2>4. x \in Indices(D) /\ x[1] = i - 1 /\ Rest(x, dims) \in Selected(sub[i][j], dims)
    BY <1>18, <2>2
  <2>5. y \in Indices(D) /\ y[1] = v - 1 /\ Rest(y, dims) \in Selected(sub[v][w], dims)
    BY <1>18, <2>2b
  <2>6. CASE i < v
    <3>1. x[1] < y[1]
      BY <2>4, <2>5, <2>6
    <3> QED
      BY <2>4, <2>5, <3>1, BeforeFirstAndRest
  <2>7. CASE i = v /\ j < w
    <3>1. Before(Rest(x, dims), Rest(y, dims))
      <4>1. CutsInto(sub[i], step(i - 1, r, q), dims) /\ Len(sub[i]) = l[i]
        BY <1>5, <1>9
      <4>2. \A a, b \in 1..l[i] : a < b =>
              \A s \in Selected(sub[i][a], dims), t \in Selected(sub[i][b], dims) : Before(s, t)
        BY <4>1 DEF CutsInto
      <4>3. w \in 1..l[i] /\ Rest(y, dims) \in Selected(sub[i][w], dims)
        BY <2>5, <2>7
      <4> QED
        BY <2>4, <2>7, <4>2, <4>3
    <3>2. x[1] = y[1]
      BY <2>4, <2>5, <2>7
    <3> QED
      BY <2>4, <2>5, <3>1, <3>2, BeforeFirstAndRest
  <2> QED
    BY <2>3, <2>6, <2>7
<1>22. CutsInto(F, k, D)
  BY <1>12, <1>14, <1>15, <1>19, <1>20, <1>21 DEF CutsInto
<1> QED
  BY <1>7, <1>11, <1>22

-----------------------------------------------------------------------------
(* All dimensions.                                                         *)

\* The last len dimensions of a shape.
LastDims(shape, len) == [d \in 1..len |-> shape[Len(shape) - len + d]]

LEMMA LastDimsProperties ==
  ASSUME NEW shape, IsShape(shape)
  PROVE  /\ \A len \in 0..Len(shape) : IsShape(LastDims(shape, len)) /\ Len(LastDims(shape, len)) = len
         /\ LastDims(shape, Len(shape)) = shape
         /\ \A len \in 1..Len(shape) :
              FirstAndRest(LastDims(shape, len), shape[Len(shape) - len + 1], LastDims(shape, len - 1))
<1>1. PICK N \in Nat : N = Len(shape) /\ \A d \in 1..N : shape[d] \in Nat \ {0}
  BY IsShapeProperties
<1>2. \A len : LastDims(shape, len) = [d \in 1..len |-> shape[N - len + d]]
  BY <1>1 DEF LastDims
<1>3. ASSUME NEW len \in 0..N
      PROVE  IsShape(LastDims(shape, len)) /\ Len(LastDims(shape, len)) = len
  <2>1. \A d \in 1..len : N - len + d \in 1..N
    OBVIOUS
  <2>2. LastDims(shape, len) \in [1..len -> Nat \ {0}]
    <3>1. \A d \in 1..len : shape[N - len + d] \in Nat \ {0}
      BY <1>1, <2>1
    <3> QED
      BY <1>2, <3>1
  <2> QED
    BY <2>2, FunctionsAreSequences DEF IsShape
<1>4. LastDims(shape, N) = shape
  <2>1. \A d \in 1..N : N - N + d = d
    OBVIOUS
  <2>2. LastDims(shape, N) = [d \in 1..N |-> shape[d]]
    BY <1>2, <2>1
  <2>3. shape = [d \in 1..N |-> shape[d]]
    <3>1. shape \in [1..N -> Nat \ {0}]
      BY <1>1, LenProperties DEF IsShape
    <3> QED
      BY <3>1
  <2> QED
    BY <2>2, <2>3
<1>5. ASSUME NEW len \in 1..N
      PROVE  FirstAndRest(LastDims(shape, len), shape[N - len + 1], LastDims(shape, len - 1))
  <2>1. PICK D, dims : D = LastDims(shape, len) /\ dims = LastDims(shape, len - 1)
    OBVIOUS
  <2>2. len \in 0..N /\ len - 1 \in 0..N /\ N - len + 1 \in 1..N
    OBVIOUS
  <2>3. IsShape(D) /\ Len(D) = len /\ IsShape(dims) /\ Len(dims) = len - 1
    BY <1>3, <2>1, <2>2
  <2>4. shape[N - len + 1] \in Nat \ {0}
    BY <1>1, <2>2
  <2>5. D[1] = shape[N - len + 1]
    <3>1. 1 \in 1..len
      OBVIOUS
    <3> QED
      BY <1>2, <2>1, <3>1
  <2>6. ASSUME NEW d \in 1..(len - 1)
        PROVE  D[d + 1] = dims[d]
    <3>1. d + 1 \in 1..len /\ N - len + (d + 1) = N - (len - 1) + d
      OBVIOUS
    <3>2. D[d + 1] = shape[N - len + (d + 1)] /\ dims[d] = shape[N - (len - 1) + d]
      BY <1>2, <2>1, <3>1
    <3> QED
      BY <3>1, <3>2
  <2> QED
    BY <2>1, <2>3, <2>4, <2>5, <2>6 DEF FirstAndRest
<1> QED
  BY <1>1, <1>3, <1>4, <1>5

\* An array of no dimensions has one element, and one row takes it.
LEMMA NoDimension ==
  ASSUME NEW dims, IsShape(dims), Len(dims) = 0
  PROVE  Counted(dims) /\ \A k \in Nat \ {0} : CutsInto(<< << >> >>, k, dims)
<1>1. \A x : x \in Indices(dims) <=> x = << >>
  <2>1. \A x : x \in Indices(dims) <=> x \in [1..0 -> Nat]
    BY IndicesProperties
  <2>2. \A x : x \in [1..0 -> Nat] <=> x \in Seq(Nat) /\ Len(x) = 0
    BY FunctionsAreSequences, LenProperties
  <2>3. \A x : x \in Seq(Nat) /\ Len(x) = 0 <=> x = << >>
    BY EmptySeq
  <2> QED
    BY <2>1, <2>2, <2>3
<1>2. Indices(dims) = {<< >>}
  BY <1>1
<1>3. IsFiniteSet(Indices(dims)) /\ Count(dims) = 1
  BY <1>2, FS_Singleton DEF Count
<1>4. ASSUME NEW k \in Nat \ {0}
      PROVE  CutsInto(<< << >> >>, k, dims)
  <2>1. PICK R, e : R = << e >> /\ e = << >>
    OBVIOUS
  <2>2. e \in Seq(Slice) /\ Len(e) = 0 /\ Selected(e, dims) = Indices(dims)
    BY <2>1, EmptyRow
  <2>3. R \in Seq(Seq(Slice)) /\ Len(R) = 1 /\ R[1] = e
    BY <2>1, <2>2
  <2>4. RowFits(e, dims)
    BY <2>2 DEF RowFits
  <2>5. \A i \in 1..1 : i = 1
    OBVIOUS
  <2>6. Len(R) = IF Count(dims) < k THEN Count(dims) ELSE k
    BY <1>3, <2>3
  <2>7. \A i \in 1..Len(R) : i = 1 /\ R[i] = e
    BY <2>3, <2>5
  <2>8. \A i \in 1..Len(R) : RowFits(R[i], dims)
    BY <2>4, <2>7
  <2>9. \A x \in Indices(dims) : \E i \in 1..Len(R) : x \in Selected(R[i], dims)
    <3>1. 1 \in 1..Len(R)
      BY <2>3
    <3> QED
      BY <2>2, <2>3, <3>1
  <2>10. \A i, j \in 1..Len(R) : ~(i < j)
    BY <2>7
  <2>11. CutsInto(R, k, dims)
    BY <2>3, <2>6, <2>8, <2>9, <2>10 DEF CutsInto
  <2> QED
    BY <2>1, <2>11
<1> QED
  BY <1>3, <1>4 DEF Counted

\* All rows for the last dimensions give all rows for one dimension more.
CutsAll(rows, n, dims) == \A k \in 1..n : CutsInto(rows[k], k, dims)

LEMMA LevelCuts ==
  ASSUME NEW n \in Nat \ {0}, NEW D, NEW m, NEW dims, FirstAndRest(D, m, dims), Counted(dims),
         NEW rest, CutsAll(rest, n, dims)
  PROVE  level(n, m, rest) \in [1..n -> Seq(Seq(Slice))] /\ CutsAll(level(n, m, rest), n, D)
<1>1. ASSUME NEW k \in 1..n
      PROVE  CutsInto(level(n, m, rest)[k], k, D)
  <2>1. k \in Nat \ {0} /\ m \in Nat \ {0}
    BY DEF FirstAndRest
  <2>2. CASE k <= m
    <3>1. level(n, m, rest)[k] = [i \in 1..k |-> <<last_column(k, m)[i]>>]
      BY <2>2 DEF level
    <3> QED
      BY <2>1, <2>2, <3>1, LastColumnCuts
  <2>3. CASE ~(k <= m)
    <3>1. level(n, m, rest)[k] = column(k, m, rest)
      BY <2>3 DEF level
    <3>2. \A j \in 1..k : CutsInto(rest[j], j, dims)
      BY DEF CutsAll
    <3>3. m < k
      BY <2>1, <2>3
    <3> QED
      BY <2>1, <3>1, <3>2, <3>3, ColumnCuts
  <2> QED
    BY <2>2, <2>3
<1>2. level(n, m, rest) = [k \in 1..n |-> level(n, m, rest)[k]]
  BY DEF level
<1>3. \A k \in 1..n : level(n, m, rest)[k] \in Seq(Seq(Slice))
  BY <1>1 DEF CutsInto
<1> QED
  BY <1>1, <1>2, <1>3 DEF CutsAll

\* f[len] holds the rows for the last len dimensions, as long as what level
\* makes of f[len - 1] are such rows.
HoldsLevels(f, n, shape) ==
  /\ f[0] = [k \in 1..n |-> << << >> >>]
  /\ \A len \in 1..Len(shape) :
       LET rows == level(n, shape[Len(shape) - len + 1], f[len - 1])
       IN  rows \in [1..n -> Seq(Seq(Slice))] /\ CutsAll(rows, n, LastDims(shape, len)) => f[len] = rows

\* By induction over the dimensions, from the last one outwards.
LEMMA LevelsCut ==
  ASSUME NEW n \in Nat \ {0}, NEW shape, IsShape(shape), NEW f, HoldsLevels(f, n, shape)
  PROVE  \A len \in 0..Len(shape) : CutsAll(f[len], n, LastDims(shape, len)) /\ Counted(LastDims(shape, len))
<1>1. PICK N \in Nat : N = Len(shape)
  BY IsShapeProperties
<1> DEFINE Good(len) == CutsAll(f[len], n, LastDims(shape, len)) /\ Counted(LastDims(shape, len))
           S == {len \in Nat : len <= N => Good(len)}
<1>2. 0 \in S
  <2>1. IsShape(LastDims(shape, 0)) /\ Len(LastDims(shape, 0)) = 0
    BY <1>1, LastDimsProperties
  <2>2. Counted(LastDims(shape, 0)) /\ \A k \in Nat \ {0} : CutsInto(<< << >> >>, k, LastDims(shape, 0))
    BY <2>1, NoDimension
  <2>3. \A k \in 1..n : f[0][k] = << << >> >> /\ k \in Nat \ {0}
    BY DEF HoldsLevels
  <2>4. CutsAll(f[0], n, LastDims(shape, 0))
    BY <2>2, <2>3 DEF CutsAll
  <2> QED
    BY <2>2, <2>4
<1>3. ASSUME NEW len \in Nat, len \in S
      PROVE  len + 1 \in S
  <2> SUFFICES ASSUME len + 1 <= N
               PROVE  Good(len + 1)
    OBVIOUS
  <2>1. PICK u \in 1..N : u = len + 1 /\ u - 1 = len
    BY <1>1
  <2>2. Good(u - 1)
    BY <1>3, <2>1
  <2>3. FirstAndRest(LastDims(shape, u), shape[N - u + 1], LastDims(shape, u - 1))
    BY <1>1, LastDimsProperties
  <2>4. Counted(LastDims(shape, u))
    BY <2>2, <2>3, CountedFirstAndRest
  <2>5. PICK lev : lev = level(n, shape[N - u + 1], f[u - 1])
    OBVIOUS
  <2>6. lev \in [1..n -> Seq(Seq(Slice))] /\ CutsAll(lev, n, LastDims(shape, u))
    BY <2>2, <2>3, <2>5, LevelCuts
  <2>7. f[u] = lev
    BY <1>1, <2>5, <2>6 DEF HoldsLevels
  <2> QED
    BY <2>1, <2>4, <2>6, <2>7
<1> HIDE DEF S
<1>4. \A len \in Nat : len \in S
  BY <1>2, <1>3, NatSetInduction
<1>5. \A len \in 0..N : Good(len)
  <2> SUFFICES ASSUME NEW len \in 0..N
               PROVE  Good(len)
    OBVIOUS
  <2>1. len \in S /\ len <= N
    BY <1>4
  <2> QED
    BY <2>1 DEF S
<1> QED
  BY <1>1, <1>5

\* The rows of schedule are CutsInto, for any shape and any number of parts.
LEMMA ScheduleCuts ==
  ASSUME NEW shape, IsShape(shape), NEW n \in Nat \ {0}
  PROVE  CutsInto(schedule(n, shape), n, shape) /\ Counted(shape)
<1> DEFINE V == [1..n -> Seq(Seq(Slice))]
           base == [k \in 1..n |-> << << >> >>]
           next(len, v) == level(n, shape[Len(shape) - len + 1], v)
           h == [len \in 1..Len(shape) |->
                   [v \in V |-> IF next(len, v) \in V THEN next(len, v) ELSE base]]
           Rows(f) == [len \in 0..Len(shape) |-> IF len = 0 THEN base ELSE next(len, f[len - 1])]
<1>1. PICK N \in Nat : N = Len(shape)
  BY IsShapeProperties
<1>2. base \in V
  <2>1. << >> \in Seq(Slice)
    OBVIOUS
  <2>2. << << >> >> \in Seq(Seq(Slice))
    BY <2>1
  <2> QED
    BY <2>2
<1>3. h \in [1..N -> [V -> V]]
  BY <1>1, <1>2
<1>4. \A len \in 1..N : \A v \in V :
        h[len][v] = IF next(len, v) \in V THEN next(len, v) ELSE base
  BY <1>1
<1>5. PICK g \in [0..N -> V] : g[0] = base /\ \A i \in 1..N : g[i] = h[i][g[i - 1]]
  <2> HIDE DEF V, base, h
  <2> QED
    BY <1>2, <1>3, Recursion
<1>6. \A len \in 1..N : next(len, g[len - 1]) \in V => g[len] = next(len, g[len - 1])
  <2> HIDE DEF V, base, h, next
  <2> QED
    BY <1>4, <1>5
<1>7. \A len \in 0..N : CutsAll(g[len], n, LastDims(shape, len)) /\ Counted(LastDims(shape, len))
  <2>1. HoldsLevels(g, n, shape)
    BY <1>1, <1>5, <1>6 DEF HoldsLevels
  <2> QED
    BY <1>1, <2>1, LevelsCut
<1>8. \A len \in 1..N : next(len, g[len - 1]) \in V
  <2> SUFFICES ASSUME NEW len \in 1..N
               PROVE  next(len, g[len - 1]) \in V
    OBVIOUS
  <2>1. FirstAndRest(LastDims(shape, len), shape[N - len + 1], LastDims(shape, len - 1))
    BY <1>1, LastDimsProperties
  <2>2. CutsAll(g[len - 1], n, LastDims(shape, len - 1)) /\ Counted(LastDims(shape, len - 1))
    BY <1>7
  <2> QED
    BY <1>1, <2>1, <2>2, LevelCuts
<1>9. g = Rows(g)
  <2>1. \A len \in 0..N : g[len] = IF len = 0 THEN base ELSE next(len, g[len - 1])
    <3> HIDE DEF V, base, h, next
    <3>1. \A len \in 0..N : len # 0 => len \in 1..N
      OBVIOUS
    <3> QED
      BY <1>5, <1>6, <1>8, <3>1
  <2> HIDE DEF V, base, h, next
  <2> QED
    BY <1>1, <2>1
<1> DEFINE rows[len \in 0..Len(shape)] ==
             IF len = 0 THEN [k \in 1..n |-> << <<>> >>]
             ELSE level(n, shape[Len(shape) - len + 1], rows[len - 1])
<1>10. rows = CHOOSE f : f = Rows(f)
  OBVIOUS
<1>11. schedule(n, shape) = rows[N][n]
  BY <1>1 DEF schedule
<1> HIDE DEF rows
<1>12. rows = Rows(rows)
  <2> HIDE DEF Rows
  <2> QED
    BY <1>9, <1>10, Zenon
<1>13. rows[0] = base /\ \A len \in 1..N : rows[len] = next(len, rows[len - 1])
  <2>1. \A len \in 0..N : rows[len] = IF len = 0 THEN base ELSE next(len, rows[len - 1])
    <3> HIDE DEF base, next
    <3> QED
      BY <1>1, <1>12
  <2>2. 0 \in 0..N /\ \A len \in 1..N : len \in 0..N /\ len # 0
    OBVIOUS
  <2> HIDE DEF base, next
  <2> QED
    BY <2>1, <2>2
<1>14. \A len \in 0..N : CutsAll(rows[len], n, LastDims(shape, len)) /\ Counted(LastDims(shape, len))
  <2>1. HoldsLevels(rows, n, shape)
    <3> HIDE DEF rows
    <3> QED
      BY <1>1, <1>13 DEF HoldsLevels
  <2> HIDE DEF V, h
  <2> QED
    BY <1>1, <2>1, LevelsCut
<1>15. CutsAll(rows[N], n, shape) /\ Counted(shape)
  BY <1>1, <1>14, LastDimsProperties
<1> QED
  BY <1>11, <1>15 DEF CutsAll

\* A row that fits the dimensions selects something.
LEMMA RowsSelect ==
  ASSUME NEW dims, IsShape(dims), NEW row, RowFits(row, dims)
  PROVE  Selected(row, dims) # {}
<1>1. PICK N \in Nat, l \in Nat : N = Len(dims) /\ l = Len(row)
  BY IsShapeProperties, LenProperties DEF RowFits
<1>2. /\ \A d \in 1..N : dims[d] \in Nat \ {0}
      /\ row \in Seq(Slice) /\ l <= N
  BY <1>1, IsShapeProperties DEF RowFits
<1>3. \A d \in 1..l : /\ row[d].start \in Nat /\ row[d].stop \in Nat
                      /\ row[d].start < row[d].stop /\ row[d].stop <= dims[d]
  <2>1. \A d \in 1..l : row[d] \in Slice
    BY <1>1, <1>2, ElementOfSeq
  <2>2. \A d \in 1..l : row[d].start < row[d].stop /\ row[d].stop <= dims[d]
    BY <1>1 DEF RowFits
  <2> QED
    BY <2>1, <2>2 DEF Slice
<1>4. PICK x : x = [d \in 1..N |-> IF d <= l THEN row[d].start ELSE 0]
  OBVIOUS
<1>5. \A d \in 1..N : x[d] = IF d <= l THEN row[d].start ELSE 0
  BY <1>4
<1>6. \A d \in 1..N : d <= l => d \in 1..l
  BY <1>1
<1>7. \A d \in 1..N : x[d] \in Nat /\ x[d] < dims[d]
  <2> SUFFICES ASSUME NEW d \in 1..N
               PROVE  x[d] \in Nat /\ x[d] < dims[d]
    OBVIOUS
  <2>1. x[d] = (IF d <= l THEN row[d].start ELSE 0) /\ dims[d] \in Nat \ {0}
    BY <1>2, <1>5
  <2>2. CASE d <= l
    <3>1. PICK a \in Nat, b \in Nat : a = row[d].start /\ b = row[d].stop /\ a < b /\ b <= dims[d]
      BY <1>3, <1>6, <2>2
    <3>2. x[d] = a
      BY <2>1, <2>2, <3>1
    <3> QED
      BY <2>1, <3>1, <3>2
  <2>3. CASE ~(d <= l)
    BY <2>1, <2>3
  <2> QED
    BY <2>2, <2>3
<1>8. x \in [1..N -> Nat]
  BY <1>4, <1>7
<1>9. x \in Indices(dims)
  BY <1>1, <1>7, <1>8, IndicesProperties
<1>10. \A d \in 1..l : row[d].start <= x[d] /\ x[d] < row[d].stop
  <2>1. \A d \in 1..l : d \in 1..N /\ d <= l
    BY <1>2
  <2>2. \A d \in 1..l : x[d] = row[d].start
    BY <1>5, <2>1
  <2> QED
    BY <1>3, <2>2
<1>11. x \in Selected(row, dims)
  BY <1>1, <1>2, <1>9, <1>10, SelectedProperties
<1> QED
  BY <1>11

\* Rows that CutsInto speaks of are a partition in the sense of Split.
LEMMA CutsPartition ==
  ASSUME NEW dims, IsShape(dims), NEW k \in Nat \ {0}, NEW R, CutsInto(R, k, dims)
  PROVE  Partitions(R, k, dims)
<1>1. PICK n : n = Len(R)
  OBVIOUS
<1>2. n \in Nat /\ DOMAIN R = 1..n
  BY <1>1, LenProperties DEF CutsInto
<1>3. /\ n = IF Cardinality(Indices(dims)) < k THEN Cardinality(Indices(dims)) ELSE k
      /\ \A i \in 1..n : RowFits(R[i], dims)
      /\ \A x \in Indices(dims) : \E i \in 1..n : x \in Selected(R[i], dims)
      /\ \A i, j \in 1..n : i < j =>
           \A x \in Selected(R[i], dims), y \in Selected(R[j], dims) : Before(x, y)
  BY <1>1 DEF CutsInto, Count
<1>4. \A i \in 1..n : Len(R[i]) <= Len(dims) /\ Selected(R[i], dims) # {}
  BY <1>3, RowsSelect DEF RowFits
<1>5. ASSUME NEW x \in Indices(dims)
      PROVE  Cardinality({i \in 1..n : x \in Selected(R[i], dims)}) = 1
  <2>1. PICK i \in 1..n : x \in Selected(R[i], dims)
    BY <1>3
  <2>2. ~Before(x, x)
    BY BeforeIrreflexive
  <2>3. \A j \in 1..n : x \in Selected(R[j], dims) => ~(i < j) /\ ~(j < i)
    BY <1>3, <2>1, <2>2
  <2>4. \A j \in 1..n : x \in Selected(R[j], dims) => j = i
    BY <1>2, <2>3
  <2>5. {j \in 1..n : x \in Selected(R[j], dims)} = {i}
    BY <2>1, <2>4
  <2> QED
    BY <2>5, FS_Singleton
<1> QED
  BY <1>1, <1>2, <1>3, <1>4, <1>5 DEF Partitions

\* The rows of xnd_split are CutsInto the outer dimensions.
LEMMA SplitCuts ==
  ASSUME NEW nparts \in Int, NEW dims, dims \in Seq(Nat), NEW max_outer \in Nat,
         xnd_split(nparts, dims, max_outer).ok
  PROVE  /\ nparts \in Nat \ {0}
         /\ IsShape(get_shape(dims, max_outer).shape)
         /\ CutsInto(xnd_split(nparts, dims, max_outer).rows, nparts,
                     get_shape(dims, max_outer).shape)
         /\ \E k \in 0..Len(dims) : /\ get_shape(dims, max_outer).shape = SubSeq(dims, 1, k)
                                   /\ k <= max_outer
<1> DEFINE outer == get_shape(dims, max_outer)
           k == IF max_outer < Len(dims) THEN max_outer ELSE Len(dims)
<1>1. nparts \in Nat \ {0} /\ outer.ok
  BY DEF xnd_split
<1>2. \A i \in DOMAIN dims : ~(dims[i] <= 0)
  BY <1>1 DEF get_shape
<1>3. outer.shape = SubSeq(dims, 1, k)
  BY <1>2 DEF get_shape
<1>4. xnd_split(nparts, dims, max_outer).rows = schedule(nparts, outer.shape)
  BY <1>1 DEF xnd_split
<1>5. k \in 0..Len(dims) /\ k <= max_outer
  BY LenProperties
<1>6. IsShape(outer.shape)
  <2>1. Len(dims) \in Nat /\ DOMAIN dims = 1..Len(dims)
    BY LenProperties
  <2>2. \A i \in 1..Len(dims) : dims[i] \in Nat \ {0}
    BY <1>2, <2>1, ElementOfSeq
  <2>3. dims \in Seq(Nat \ {0})
    BY <2>1, <2>2, IsASeq
  <2> HIDE DEF k
  <2>4. SubSeq(dims, 1, k) \in Seq(Nat \ {0})
    BY <1>5, <2>3
  <2> QED
    BY <1>3, <2>4 DEF IsShape
<1> HIDE DEF outer
<1>7. CutsInto(schedule(nparts, outer.shape), nparts, outer.shape)
  BY <1>1, <1>6, ScheduleCuts
<1> QED
  BY <1>1, <1>3, <1>4, <1>5, <1>6, <1>7 DEF outer

\* xnd_split, for any dimensions and any number of threads: the rows cut the
\* outer dimensions into parts that are not empty, have every element once and
\* follow each other in memory order.
THEOREM SplitPartitions ==
  ASSUME NEW nparts \in Int, NEW dims, dims \in Seq(Nat), NEW max_outer \in Nat,
         xnd_split(nparts, dims, max_outer).ok
  PROVE  Partitions(xnd_split(nparts, dims, max_outer).rows, nparts,
                    get_shape(dims, max_outer).shape)
BY SplitCuts, CutsPartition
=============================================================================
