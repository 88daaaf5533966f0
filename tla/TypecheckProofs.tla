-------------------------- MODULE TypecheckProofs ---------------------------
(***************************************************************************)
(* What ndt_typecheck promises, for every set of calls: it accepts exactly *)
(* the arguments that one value of each symbol fits (AcceptsWhatFits);     *)
(* broadcasting lets every input read its own items (BroadcastReads); and  *)
(* inferred outputs are what the signature says, without gaps              *)
(* (OutputsHaveTheirPlaces).                                               *)
(***************************************************************************)
EXTENDS Typecheck, SequenceTheorems, FiniteSetTheorems, Induction

-----------------------------------------------------------------------------
(***************************************************************************)
(* Sequences of anything.                                                  *)
(***************************************************************************)
IsSeq(s) == s \in Seq({ s[k] : k \in DOMAIN s })

\* A sequence over any set is a sequence over its elements.
LEMMA SeqIsSeq ==
  ASSUME NEW S, NEW s \in Seq(S)
  PROVE  IsSeq(s)
<1>1. Len(s) \in Nat /\ DOMAIN s = 1 .. Len(s) /\ s \in [1 .. Len(s) -> S]
  OBVIOUS
<1>2. s \in [1 .. Len(s) -> { s[k] : k \in DOMAIN s }]
  BY <1>1
<1> QED
  BY <1>1, <1>2, SeqDef DEF IsSeq

LEMMA IsSeqProperties ==
  ASSUME NEW s, IsSeq(s)
  PROVE  /\ Len(s) \in Nat /\ DOMAIN s = 1 .. Len(s)
         /\ s = [k \in 1 .. Len(s) |-> s[k]]
         /\ s = <<>> <=> Len(s) = 0
BY DEF IsSeq

\* A function on an initial segment of the positive numbers is a sequence.
LEMMA FunctionIsSeq ==
  ASSUME NEW s, NEW n \in Nat, s = [k \in 1 .. n |-> s[k]]
  PROVE  IsSeq(s) /\ Len(s) = n /\ DOMAIN s = 1 .. n
<1> DEFINE S == { s[k] : k \in DOMAIN s }
<1>1. s \in [1 .. n -> S]
  OBVIOUS
<1>2. s \in Seq(S)
  BY <1>1, SeqDef
<1>3. DOMAIN s = 1 .. n
  OBVIOUS
<1> HIDE DEF S
<1>4. Len(s) = n
  BY <1>2, <1>3, LenProperties
<1> QED
  BY <1>2, <1>3, <1>4 DEF IsSeq, S

LEMMA SameSeq ==
  ASSUME NEW s, NEW t, IsSeq(s), IsSeq(t), Len(s) = Len(t),
         \A k \in 1 .. Len(s) : s[k] = t[k]
  PROVE  s = t
<1>1. s = [k \in 1 .. Len(s) |-> s[k]] /\ t = [k \in 1 .. Len(t) |-> t[k]]
  BY IsSeqProperties
<1> QED
  BY <1>1, Zenon

LEMMA SubSeqIsSeq ==
  ASSUME NEW s, IsSeq(s), NEW m \in Int, NEW n \in Int, 1 <= m, n <= Len(s), m <= n + 1
  PROVE  /\ IsSeq(SubSeq(s, m, n)) /\ Len(SubSeq(s, m, n)) = n - m + 1
         /\ \A k \in 1 .. n - m + 1 : SubSeq(s, m, n)[k] = s[m + k - 1]
<1> DEFINE S == { s[k] : k \in DOMAIN s }
<1>1. s \in Seq(S)
  BY DEF IsSeq
<1> HIDE DEF S
<1>2. \A i \in m .. n : s[i] \in S
  BY <1>1
<1>3. SubSeq(s, m, n) \in Seq(S) /\ Len(SubSeq(s, m, n)) = n - m + 1
  BY <1>1
<1>4. \A k \in 1 .. n - m + 1 : SubSeq(s, m, n)[k] = s[m + k - 1]
  BY <1>1
<1> QED
  BY <1>3, <1>4, SeqIsSeq

LEMMA ConcatIsSeq ==
  ASSUME NEW s, NEW t, IsSeq(s), IsSeq(t)
  PROVE  /\ IsSeq(s \o t) /\ Len(s \o t) = Len(s) + Len(t)
         /\ \A k \in 1 .. Len(s) : (s \o t)[k] = s[k]
         /\ \A k \in 1 .. Len(t) : (s \o t)[Len(s) + k] = t[k]
<1> DEFINE S == { s[k] : k \in DOMAIN s }
           T == { t[k] : k \in DOMAIN t }
<1>1. PICK U : s \in Seq(U) /\ t \in Seq(U)
  <2>1. S \subseteq S \cup T /\ T \subseteq S \cup T
    OBVIOUS
  <2>2. s \in Seq(S) /\ t \in Seq(T)
    BY DEF IsSeq
  <2> HIDE DEF S, T
  <2>3. s \in Seq(S \cup T) /\ t \in Seq(S \cup T)
    BY <2>1, <2>2
  <2> QED
    BY <2>3
<1> HIDE DEF S, T
<1>2. /\ s \o t \in Seq(U) /\ Len(s \o t) = Len(s) + Len(t)
      /\ \A k \in 1 .. Len(s) + Len(t) : (s \o t)[k] = IF k <= Len(s) THEN s[k] ELSE t[k - Len(s)]
      /\ Len(s) \in Nat /\ Len(t) \in Nat
  <2> SUFFICES ASSUME NEW a \in Seq(U), NEW b \in Seq(U)
               PROVE  /\ a \o b \in Seq(U) /\ Len(a \o b) = Len(a) + Len(b)
                      /\ \A k \in 1 .. Len(a) + Len(b) : (a \o b)[k] = IF k <= Len(a) THEN a[k] ELSE b[k - Len(a)]
                      /\ Len(a) \in Nat /\ Len(b) \in Nat
    BY <1>1, Zenon
  <2> QED
    BY ConcatProperties
<1>3. IsSeq(s \o t)
  BY <1>2, SeqIsSeq
<1>4. \A k \in 1 .. Len(s) : (s \o t)[k] = s[k]
  BY <1>2
<1>5. \A k \in 1 .. Len(t) : (s \o t)[Len(s) + k] = t[k]
  BY <1>2
<1> QED
  BY <1>2, <1>3, <1>4, <1>5

-----------------------------------------------------------------------------
(***************************************************************************)
(* Adding and stretching dimensions.                                       *)
(***************************************************************************)
\* f[k] is what the last k lengths of ns add to dims.
AddedUp(ns, dims, f) ==
  /\ f[0] = dims
  /\ \A k \in 1 .. Len(ns) : f[k] = AddDim(ns[Len(ns) + 1 - k], f[k - 1])

\* AddDims is a loop that adds one dimension at a time.
LEMMA AddDimsSteps ==
  ASSUME NEW ns, NEW dims, Len(ns) \in Nat
  PROVE  \E f : AddedUp(ns, dims, f) /\ f[Len(ns)] = AddDims(ns, dims)
<1> DEFINE F(n, f) == [k \in 0 .. n |-> IF k = 0 THEN dims ELSE AddDim(ns[Len(ns) + 1 - k], f[k - 1])]
           S == {n \in Nat : \E f : f = F(n, f)}
<1>1. 0 \in S
  <2> DEFINE f == [k \in 0 .. 0 |-> dims]
  <2>1. f = F(0, f)
    OBVIOUS
  <2> QED
    BY <2>1
<1>2. ASSUME NEW n \in Nat, n \in S
      PROVE  n + 1 \in S
  <2>1. PICK f : f = F(n, f)
    BY <1>2
  <2> DEFINE g == [k \in 0 .. n + 1 |-> IF k = n + 1 THEN AddDim(ns[Len(ns) + 1 - (n + 1)], f[n]) ELSE f[k]]
  <2>2. ASSUME NEW k \in 0 .. n + 1
        PROVE  g[k] = F(n + 1, g)[k]
    <3>1. CASE k = n + 1
      <4>1. k # 0 /\ k - 1 = n /\ g[k - 1] = f[n]
        BY <3>1
      <4> QED
        BY <3>1, <4>1
    <3>2. CASE k # n + 1
      <4>1. k \in 0 .. n /\ g[k] = f[k] /\ (k # 0 => g[k - 1] = f[k - 1])
        BY <3>2
      <4>2. f[k] = IF k = 0 THEN dims ELSE AddDim(ns[Len(ns) + 1 - k], f[k - 1])
        BY <2>1, <4>1
      <4> QED
        BY <4>1, <4>2
    <3> QED
      BY <3>1, <3>2
  <2>3. g = F(n + 1, g)
    <3>1. g = [k \in 0 .. n + 1 |-> g[k]]
      OBVIOUS
    <3>2. F(n + 1, g) = [k \in 0 .. n + 1 |-> F(n + 1, g)[k]]
      OBVIOUS
    <3> HIDE DEF g, F
    <3> QED
      BY <2>2, <3>1, <3>2
  <2> HIDE DEF g, F
  <2> QED
    BY <2>3
<1> HIDE DEF S
<1>3. Len(ns) \in S
  BY <1>1, <1>2, NatSetInduction
<1> DEFINE h == CHOOSE f : f = F(Len(ns), f)
<1>4. h = F(Len(ns), h)
  <2> HIDE DEF F
  <2>1. \E f : f = F(Len(ns), f)
    BY <1>3 DEF S
  <2> QED
    BY <2>1, Zenon
<1>5. AddDims(ns, dims) = h[Len(ns)]
  BY DEF AddDims
<1> HIDE DEF h
<1>6. ASSUME NEW k \in 0 .. Len(ns)
      PROVE  h[k] = IF k = 0 THEN dims ELSE AddDim(ns[Len(ns) + 1 - k], h[k - 1])
  <2>1. F(Len(ns), h)[k] = IF k = 0 THEN dims ELSE AddDim(ns[Len(ns) + 1 - k], h[k - 1])
    OBVIOUS
  <2> HIDE DEF F
  <2> QED
    BY <1>4, <2>1
<1> HIDE DEF F
<1>7. 0 \in 0 .. Len(ns) /\ \A k \in 1 .. Len(ns) : k \in 0 .. Len(ns) /\ k # 0
  OBVIOUS
<1>8. h[0] = dims
  BY <1>6, <1>7
<1>9. \A k \in 1 .. Len(ns) : h[k] = AddDim(ns[Len(ns) + 1 - k], h[k - 1])
  BY <1>6, <1>7
<1>10. AddedUp(ns, dims, h)
  BY <1>8, <1>9 DEF AddedUp
<1> QED
  BY <1>5, <1>10, Zenon

LEMMA AddDimProperties ==
  ASSUME NEW n, NEW dims, IsSeq(dims)
  PROVE  /\ IsSeq(AddDim(n, dims)) /\ Len(AddDim(n, dims)) = Len(dims) + 1
         /\ AddDim(n, dims)[1].shape = n /\ AddDim(n, dims)[1].kind = "fixed"
         /\ \A k \in 1 .. Len(dims) : AddDim(n, dims)[k + 1] = dims[k]
<1> DEFINE d == Fixed(n, Extent(dims))
<1>1. IsSeq(<<d>>) /\ Len(<<d>>) = 1 /\ <<d>>[1] = d
  <2>1. <<d>> \in Seq({d})
    OBVIOUS
  <2> HIDE DEF d
  <2> QED
    BY <2>1, SeqIsSeq
<1>2. d.shape = n /\ d.kind = "fixed"
  BY DEF Fixed
<1>3. AddDim(n, dims) = <<d>> \o dims
  BY DEF AddDim
<1> HIDE DEF d
<1> DEFINE s == <<d>>
<1>4. Len(s) = 1 /\ s[1] = d /\ Len(dims) \in Nat
  BY <1>1, IsSeqProperties
<1>7. IsSeq(s)
  BY <1>1
<1> HIDE DEF s
<1>5. /\ IsSeq(s \o dims) /\ Len(s \o dims) = Len(s) + Len(dims)
      /\ \A k \in 1 .. Len(s) : (s \o dims)[k] = s[k]
      /\ \A k \in 1 .. Len(dims) : (s \o dims)[Len(s) + k] = dims[k]
  BY <1>7, ConcatIsSeq
<1>6. AddDim(n, dims) = s \o dims
  BY <1>3 DEF s
<1> QED
  BY <1>2, <1>4, <1>5, <1>6

\* AddDims puts dimensions of the shape ns before the others.
LEMMA AddDimsProperties ==
  ASSUME NEW ns, NEW dims, IsSeq(ns), IsSeq(dims)
  PROVE  /\ IsSeq(AddDims(ns, dims)) /\ Len(AddDims(ns, dims)) = Len(ns) + Len(dims)
         /\ \A k \in 1 .. Len(ns) : AddDims(ns, dims)[k].shape = ns[k] /\ AddDims(ns, dims)[k].kind = "fixed"
         /\ \A k \in 1 .. Len(dims) : AddDims(ns, dims)[Len(ns) + k] = dims[k]
<1>1. Len(ns) \in Nat /\ Len(dims) \in Nat
  BY IsSeqProperties
<1>2. PICK f : AddedUp(ns, dims, f) /\ f[Len(ns)] = AddDims(ns, dims)
  BY <1>1, AddDimsSteps, Zenon
<1>8. f[0] = dims /\ \A k \in 1 .. Len(ns) : f[k] = AddDim(ns[Len(ns) + 1 - k], f[k - 1])
  BY <1>2 DEF AddedUp
<1> DEFINE Added(k) == /\ IsSeq(f[k]) /\ Len(f[k]) = k + Len(dims)
                       /\ \A i \in 1 .. k : f[k][i].shape = ns[Len(ns) - k + i] /\ f[k][i].kind = "fixed"
                       /\ \A i \in 1 .. Len(dims) : f[k][k + i] = dims[i]
           S == {k \in Nat : k <= Len(ns) => Added(k)}
<1>3. 0 \in S
  BY <1>1, <1>8
<1>4. ASSUME NEW k \in Nat, k \in S
      PROVE  k + 1 \in S
  <2> SUFFICES ASSUME k + 1 <= Len(ns)
               PROVE  Added(k + 1)
    OBVIOUS
  <2>1. Added(k)
    BY <1>1, <1>4
  <2>2. f[k + 1] = AddDim(ns[Len(ns) - k], f[k])
    <3>1. k + 1 \in 1 .. Len(ns) /\ (k + 1) - 1 = k /\ Len(ns) + 1 - (k + 1) = Len(ns) - k
      BY <1>1
    <3> HIDE DEF Added, S
    <3>2. f[k + 1] = AddDim(ns[Len(ns) + 1 - (k + 1)], f[(k + 1) - 1])
      BY <1>8, <3>1
    <3> QED
      BY <3>1, <3>2
  <2>3. /\ IsSeq(f[k + 1]) /\ Len(f[k + 1]) = Len(f[k]) + 1
        /\ f[k + 1][1].shape = ns[Len(ns) - k] /\ f[k + 1][1].kind = "fixed"
        /\ \A i \in 1 .. Len(f[k]) : f[k + 1][i + 1] = f[k][i]
    <3> HIDE DEF S
    <3>1. IsSeq(f[k])
      BY <2>1
    <3> HIDE DEF Added
    <3> DEFINE d == AddDim(ns[Len(ns) - k], f[k])
    <3>2. /\ IsSeq(d) /\ Len(d) = Len(f[k]) + 1
          /\ d[1].shape = ns[Len(ns) - k] /\ d[1].kind = "fixed"
          /\ \A i \in 1 .. Len(f[k]) : d[i + 1] = f[k][i]
      BY <3>1, AddDimProperties
    <3> HIDE DEF d
    <3>3. f[k + 1] = d
      BY <2>2 DEF d
    <3> QED
      BY <3>2, <3>3
  <2> HIDE DEF S
  <2>4. Len(f[k + 1]) = k + 1 + Len(dims)
    BY <1>1, <2>1, <2>3
  <2>5. ASSUME NEW i \in 1 .. k + 1
        PROVE  f[k + 1][i].shape = ns[Len(ns) - (k + 1) + i] /\ f[k + 1][i].kind = "fixed"
    <3>1. CASE i = 1
      <4>1. Len(ns) - (k + 1) + i = Len(ns) - k
        BY <1>1, <3>1
      <4> QED
        BY <2>3, <3>1, <4>1
    <3>2. CASE i # 1
      <4>1. i - 1 \in 1 .. k /\ i - 1 \in 1 .. Len(f[k]) /\ (i - 1) + 1 = i
        BY <1>1, <2>1, <3>2
      <4>2. f[k + 1][i] = f[k][i - 1]
        BY <2>3, <4>1
      <4>3. f[k][i - 1].shape = ns[Len(ns) - k + (i - 1)] /\ f[k][i - 1].kind = "fixed"
        BY <2>1, <4>1
      <4>4. Len(ns) - k + (i - 1) = Len(ns) - (k + 1) + i
        BY <1>1
      <4> QED
        BY <4>2, <4>3, <4>4
    <3> QED
      BY <3>1, <3>2
  <2>6. ASSUME NEW i \in 1 .. Len(dims)
        PROVE  f[k + 1][k + 1 + i] = dims[i]
    <3>1. k + i \in 1 .. Len(f[k]) /\ (k + i) + 1 = k + 1 + i
      <4>1. Len(f[k]) = k + Len(dims)
        BY <2>1
      <4> HIDE DEF Added
      <4> QED
        BY <1>1, <4>1
    <3>2. f[k + 1][(k + i) + 1] = f[k][k + i]
      BY <2>3, <3>1
    <3> QED
      BY <2>1, <3>1, <3>2
  <2> QED
    BY <2>3, <2>4, <2>5, <2>6
<1> HIDE DEF S
<1>5. Len(ns) \in S
  BY <1>1, <1>3, <1>4, NatSetInduction
<1>6. Added(Len(ns))
  BY <1>1, <1>5 DEF S
<1>7. \A i \in 1 .. Len(ns) : Len(ns) - Len(ns) + i = i
  BY <1>1
<1> QED
  BY <1>1, <1>2, <1>6, <1>7

\* The dimensions of an argument, the outer ones stretched to the end of a shape.
Kept(dims, shape, n, new) ==
  [k \in 1 .. n |-> Stretch(dims[k], shape[new + k])] \o SubSeq(dims, n + 1, Len(dims))

LEMMA KeptProperties ==
  ASSUME NEW dims, IsSeq(dims), NEW shape, NEW n \in Nat, n <= Len(dims), NEW new \in Nat
  PROVE  LET kept == Kept(dims, shape, n, new)
         IN /\ IsSeq(kept) /\ Len(kept) = Len(dims)
            /\ \A k \in 1 .. n : kept[k] = Stretch(dims[k], shape[new + k])
            /\ \A k \in n + 1 .. Len(dims) : kept[k] = dims[k]
<1> DEFINE s == [k \in 1 .. n |-> Stretch(dims[k], shape[new + k])]
           r == SubSeq(dims, n + 1, Len(dims))
           kept == s \o r
<1>1. IsSeq(s) /\ Len(s) = n
  <2>1. s = [k \in 1 .. n |-> s[k]]
    OBVIOUS
  <2> HIDE DEF s
  <2> QED
    BY <2>1, FunctionIsSeq, Zenon
<1>2. \A k \in 1 .. n : s[k] = Stretch(dims[k], shape[new + k])
  OBVIOUS
<1>3. Len(dims) \in Nat
  BY IsSeqProperties
<1>4. /\ IsSeq(r) /\ Len(r) = Len(dims) - n
      /\ \A k \in 1 .. Len(dims) - n : r[k] = dims[n + k]
  <2>1. n + 1 \in Int /\ Len(dims) \in Int /\ 1 <= n + 1 /\ Len(dims) <= Len(dims) /\ n + 1 <= Len(dims) + 1
    BY <1>3
  <2>2. /\ IsSeq(r) /\ Len(r) = Len(dims) - (n + 1) + 1
        /\ \A k \in 1 .. Len(dims) - (n + 1) + 1 : r[k] = dims[(n + 1) + k - 1]
    BY <2>1, SubSeqIsSeq
  <2> HIDE DEF r
  <2>3. Len(dims) - (n + 1) + 1 = Len(dims) - n /\ \A k \in Int : (n + 1) + k - 1 = n + k
    BY <1>3
  <2> QED
    BY <2>2, <2>3
<1> HIDE DEF s, r
<1>5. IsSeq(s)
  BY <1>1
<1>6. IsSeq(r)
  BY <1>4
<1>7. /\ IsSeq(s \o r) /\ Len(s \o r) = Len(s) + Len(r)
      /\ \A k \in 1 .. Len(s) : (s \o r)[k] = s[k]
      /\ \A k \in 1 .. Len(r) : (s \o r)[Len(s) + k] = r[k]
  BY <1>5, <1>6, ConcatIsSeq
<1>8. ASSUME NEW k \in n + 1 .. Len(dims)
      PROVE  kept[k] = dims[k]
  <2>1. k - n \in 1 .. Len(r) /\ k - n \in 1 .. Len(dims) - n /\ n + (k - n) = k
    BY <1>3, <1>4
  <2>2. kept[n + (k - n)] = r[k - n] /\ r[k - n] = dims[n + (k - n)]
    BY <1>1, <1>4, <1>7, <2>1
  <2> QED
    BY <2>1, <2>2
<1>9. Len(kept) = Len(dims) /\ \A k \in 1 .. n : kept[k] = Stretch(dims[k], shape[new + k])
  BY <1>1, <1>2, <1>3, <1>4, <1>7
<1> QED
  BY <1>7, <1>8, <1>9 DEF s, r, Kept

\* What broadcast() does to the dimensions of an input, one by one.
LEMMA BroadcastInput ==
  ASSUME NEW dims, IsSeq(dims), NEW shape, IsSeq(shape), NEW inner \in Nat, inner <= Len(dims),
         Len(dims) - inner <= Len(shape)
  PROVE  LET n   == Len(dims) - inner
             new == Len(shape) - n
             b   == BroadcastTo(dims, shape, inner, FALSE)
         IN /\ IsSeq(b) /\ Len(b) = new + Len(dims)
            /\ \A k \in 1 .. new : b[k] = Fixed(shape[k], 0)
            /\ \A k \in 1 .. n : b[new + k] = Stretch(dims[k], shape[new + k])
            /\ \A k \in n + 1 .. Len(dims) : b[new + k] = dims[k]
<1> DEFINE n == Len(dims) - inner
           new == Len(shape) - n
           s == [k \in 1 .. new |-> Fixed(shape[k], 0)]
           kept == Kept(dims, shape, n, new)
<1>1. Len(dims) \in Nat /\ Len(shape) \in Nat
  BY IsSeqProperties
<1>2. n \in Nat /\ new \in Nat /\ n <= Len(dims)
  BY <1>1
<1>3. BroadcastTo(dims, shape, inner, FALSE) = s \o kept
  BY DEF BroadcastTo, Kept
<1>4. IsSeq(s) /\ Len(s) = new
  <2>1. s = [k \in 1 .. new |-> s[k]]
    OBVIOUS
  <2> HIDE DEF s, new
  <2> QED
    BY <1>2, <2>1, FunctionIsSeq, Zenon
<1>5. \A k \in 1 .. new : s[k] = Fixed(shape[k], 0)
  OBVIOUS
<1>6. /\ IsSeq(kept) /\ Len(kept) = Len(dims)
      /\ \A k \in 1 .. n : kept[k] = Stretch(dims[k], shape[new + k])
      /\ \A k \in n + 1 .. Len(dims) : kept[k] = dims[k]
  <2> HIDE DEF n, new
  <2> QED
    BY <1>2, KeptProperties
<1> HIDE DEF s, kept, n, new
<1>7. IsSeq(s)
  BY <1>4
<1>8. IsSeq(kept)
  BY <1>6
<1>9. /\ IsSeq(s \o kept) /\ Len(s \o kept) = Len(s) + Len(kept)
      /\ \A k \in 1 .. Len(s) : (s \o kept)[k] = s[k]
      /\ \A k \in 1 .. Len(kept) : (s \o kept)[Len(s) + k] = kept[k]
  BY <1>7, <1>8, ConcatIsSeq
<1> DEFINE b == s \o kept
<1>10. IsSeq(b) /\ Len(b) = new + Len(dims)
  BY <1>4, <1>6, <1>9
<1>11. \A k \in 1 .. new : b[k] = Fixed(shape[k], 0)
  BY <1>4, <1>5, <1>9
<1>12. \A k \in 1 .. n : b[new + k] = Stretch(dims[k], shape[new + k])
  <2>1. \A k \in 1 .. n : k \in 1 .. Len(kept)
    BY <1>1, <1>2, <1>6
  <2> QED
    BY <1>4, <1>6, <1>9, <2>1
<1>13. \A k \in n + 1 .. Len(dims) : b[new + k] = dims[k]
  <2>1. \A k \in n + 1 .. Len(dims) : k \in 1 .. Len(kept)
    BY <1>1, <1>2, <1>6
  <2> QED
    BY <1>4, <1>6, <1>9, <2>1
<1>14. BroadcastTo(dims, shape, inner, FALSE) = b
  BY <1>3
<1> HIDE DEF b
<1> QED
  BY <1>10, <1>11, <1>12, <1>13, <1>14 DEF n, new

\* An output gets the common shape as well, and keeps its inner dimensions.
Stretched(b, dims, shape, inner) ==
  /\ IsSeq(b) /\ Len(b) = Len(shape) + inner
  /\ \A k \in 1 .. Len(shape) : b[k].shape = shape[k]
  /\ \A k \in 1 .. inner : b[Len(shape) + k] = dims[Len(dims) - inner + k]

LEMMA BroadcastOutput ==
  ASSUME NEW dims, IsSeq(dims), NEW shape, IsSeq(shape), NEW inner \in Nat, inner <= Len(dims),
         Len(dims) - inner <= Len(shape)
  PROVE  Stretched(BroadcastTo(dims, shape, inner, TRUE), dims, shape, inner)
<1> DEFINE n == Len(dims) - inner
           new == Len(shape) - n
           ns == SubSeq(shape, 1, new)
           kept == Kept(dims, shape, n, new)
           b == AddDims(ns, kept)
<1>1. Len(dims) \in Nat /\ Len(shape) \in Nat
  BY IsSeqProperties
<1>2. n \in Nat /\ new \in Nat /\ n <= Len(dims) /\ new + n = Len(shape)
  BY <1>1
<1>3. BroadcastTo(dims, shape, inner, TRUE) = b
  BY DEF BroadcastTo, Kept
<1>4. IsSeq(ns) /\ Len(ns) = new /\ \A k \in 1 .. new : ns[k] = shape[k]
  <2>1. 1 \in Int /\ new \in Int /\ 1 <= 1 /\ new <= Len(shape) /\ 1 <= new + 1
    BY <1>1, <1>2
  <2>2. /\ IsSeq(ns) /\ Len(ns) = new - 1 + 1
        /\ \A k \in 1 .. new - 1 + 1 : ns[k] = shape[1 + k - 1]
    <3> HIDE DEF new
    <3> QED
      BY <2>1, SubSeqIsSeq
  <2>3. new - 1 + 1 = new /\ \A k \in 1 .. new : 1 + k - 1 = k
    BY <1>2
  <2> HIDE DEF ns, new
  <2> QED
    BY <2>2, <2>3
<1>5. /\ IsSeq(kept) /\ Len(kept) = Len(dims)
      /\ \A k \in 1 .. n : kept[k] = Stretch(dims[k], shape[new + k])
      /\ \A k \in n + 1 .. Len(dims) : kept[k] = dims[k]
  <2> HIDE DEF n, new
  <2> QED
    BY <1>2, KeptProperties
<1>6. IsSeq(ns)
  BY <1>4
<1>7. IsSeq(kept)
  BY <1>5
<1> HIDE DEF n, new, ns, kept
<1>8. /\ IsSeq(b) /\ Len(b) = Len(ns) + Len(kept)
      /\ \A k \in 1 .. Len(ns) : b[k].shape = ns[k]
      /\ \A k \in 1 .. Len(kept) : b[Len(ns) + k] = kept[k]
  BY <1>6, <1>7, AddDimsProperties
<1> HIDE DEF b
<1>9. IsSeq(b) /\ Len(b) = Len(shape) + inner
  BY <1>1, <1>4, <1>5, <1>8 DEF n, new
<1>10. ASSUME NEW k \in 1 .. Len(shape)
       PROVE  b[k].shape = shape[k]
  <2>1. CASE k <= new
    <3>1. k \in 1 .. new /\ k \in 1 .. Len(ns)
      BY <1>2, <1>4, <2>1
    <3> QED
      BY <1>4, <1>8, <3>1
  <2>2. CASE ~(k <= new)
    <3>1. k - new \in 1 .. n /\ k - new \in 1 .. Len(kept) /\ new + (k - new) = k
      BY <1>1, <1>2, <1>5, <2>2
    <3>2. b[new + (k - new)] = kept[k - new]
      BY <1>4, <1>8, <3>1
    <3>4. kept[k - new] = Stretch(dims[k - new], shape[new + (k - new)])
      BY <1>5, <3>1
    <3>3. Stretch(dims[k - new], shape[new + (k - new)]).shape = shape[new + (k - new)]
      BY DEF Stretch, Fixed
    <3> QED
      BY <3>1, <3>2, <3>3, <3>4
  <2> QED
    BY <2>1, <2>2
<1>11. ASSUME NEW k \in 1 .. inner
       PROVE  b[Len(shape) + k] = dims[n + k]
  <2>1. n + k \in 1 .. Len(kept) /\ n + k \in n + 1 .. Len(dims) /\ new + (n + k) = Len(shape) + k
    BY <1>1, <1>2, <1>5 DEF n, new
  <2>2. b[new + (n + k)] = kept[n + k] /\ kept[n + k] = dims[n + k]
    BY <1>4, <1>5, <1>8, <2>1
  <2> QED
    BY <2>1, <2>2
<1> QED
  BY <1>3, <1>9, <1>10, <1>11 DEF n, Stretched
-----------------------------------------------------------------------------
(***************************************************************************)
(* What an input reads after broadcasting.                                 *)
(***************************************************************************)
\* A dimension of length n is read as one of length m: nothing is read if m
\* is 0.
ReadsDim(n, m) == n = m \/ n = 1 \/ m = 0

\* f[k] is what the k innermost dimensions add to the address.
SummedUp(dims, ix, f) ==
  /\ f[0] = 0
  /\ \A k \in 1 .. Len(dims) :
       f[k] = f[k - 1] + ix[Len(dims) + 1 - k] * dims[Len(dims) + 1 - k].step

\* Address is a loop over the dimensions.
LEMMA AddressSteps ==
  ASSUME NEW dims, NEW ix, Len(dims) \in Nat
  PROVE  \E f : SummedUp(dims, ix, f) /\ f[Len(dims)] = Address(dims, ix)
<1> DEFINE A(k, a) == a + ix[Len(dims) + 1 - k] * dims[Len(dims) + 1 - k].step
           F(n, f) == [k \in 0 .. n |-> IF k = 0 THEN 0 ELSE A(k, f[k - 1])]
           S == {n \in Nat : \E f : f = F(n, f)}
<1> HIDE DEF A
<1>1. 0 \in S
  <2> DEFINE f == [k \in 0 .. 0 |-> 0]
  <2>1. f = F(0, f)
    OBVIOUS
  <2> QED
    BY <2>1
<1>2. ASSUME NEW n \in Nat, n \in S
      PROVE  n + 1 \in S
  <2>1. PICK f : f = F(n, f)
    BY <1>2
  <2> DEFINE g == [k \in 0 .. n + 1 |-> IF k = n + 1 THEN A(n + 1, f[n]) ELSE f[k]]
  <2>2. ASSUME NEW k \in 0 .. n + 1
        PROVE  g[k] = F(n + 1, g)[k]
    <3>1. CASE k = n + 1
      <4>1. k # 0 /\ k - 1 = n /\ g[k - 1] = f[n]
        BY <3>1
      <4> QED
        BY <3>1, <4>1
    <3>2. CASE k # n + 1
      <4>1. k \in 0 .. n /\ g[k] = f[k] /\ (k # 0 => g[k - 1] = f[k - 1])
        BY <3>2
      <4>2. f[k] = IF k = 0 THEN 0 ELSE A(k, f[k - 1])
        BY <2>1, <4>1
      <4> QED
        BY <4>1, <4>2
    <3> QED
      BY <3>1, <3>2
  <2>3. g = F(n + 1, g)
    <3>1. g = [k \in 0 .. n + 1 |-> g[k]]
      OBVIOUS
    <3>2. F(n + 1, g) = [k \in 0 .. n + 1 |-> F(n + 1, g)[k]]
      OBVIOUS
    <3> HIDE DEF g, F
    <3> QED
      BY <2>2, <3>1, <3>2
  <2> HIDE DEF g, F
  <2> QED
    BY <2>3
<1> HIDE DEF S
<1>3. Len(dims) \in S
  BY <1>1, <1>2, NatSetInduction
<1> DEFINE h == CHOOSE f : f = F(Len(dims), f)
<1>4. h = F(Len(dims), h)
  <2> HIDE DEF F
  <2>1. \E f : f = F(Len(dims), f)
    BY <1>3 DEF S
  <2> QED
    BY <2>1, Zenon
<1>5. Address(dims, ix) = h[Len(dims)]
  BY DEF Address, A
<1> HIDE DEF h
<1>6. ASSUME NEW k \in 0 .. Len(dims)
      PROVE  h[k] = IF k = 0 THEN 0 ELSE A(k, h[k - 1])
  <2>1. F(Len(dims), h)[k] = IF k = 0 THEN 0 ELSE A(k, h[k - 1])
    OBVIOUS
  <2> HIDE DEF F
  <2> QED
    BY <1>4, <2>1
<1> HIDE DEF F
<1>7. 0 \in 0 .. Len(dims) /\ \A k \in 1 .. Len(dims) : k \in 0 .. Len(dims) /\ k # 0
  OBVIOUS
<1>8. h[0] = 0
  BY <1>6, <1>7
<1>9. \A k \in 1 .. Len(dims) : h[k] = A(k, h[k - 1])
  BY <1>6, <1>7
<1>10. SummedUp(dims, ix, h)
  BY <1>8, <1>9 DEF SummedUp, A
<1> QED
  BY <1>5, <1>10, Zenon

\* b has new dimensions more than dims; these have step 0, and each other one
\* adds as much to the address of ix as one of dims to that of at.
SameTerms(dims, b, new, ix, at) ==
  /\ Len(b) = new + Len(dims)
  /\ \A k \in 1 .. Len(b) : ix[k] \in Int /\ b[k].step \in Int
  /\ \A k \in 1 .. new : b[k].step = 0
  /\ \A k \in 1 .. Len(dims) : ix[new + k] * b[new + k].step = at[k] * dims[k].step

LEMMA SameAddress ==
  ASSUME NEW dims, NEW b, NEW new, NEW ix, NEW at,
         Len(dims) \in Nat, new \in Nat, SameTerms(dims, b, new, ix, at)
  PROVE  Address(b, ix) = Address(dims, at)
<1>1. PICK f : SummedUp(b, ix, f) /\ f[Len(b)] = Address(b, ix)
  <2>1. Len(b) \in Nat
    BY DEF SameTerms
  <2> QED
    BY <2>1, AddressSteps, Zenon
<1>2. PICK g : SummedUp(dims, at, g) /\ g[Len(dims)] = Address(dims, at)
  BY AddressSteps, Zenon
<1> DEFINE N == Len(b)
           M == Len(dims)
<1>3. N \in Nat /\ M \in Nat /\ N = new + M
  BY DEF SameTerms
<1>4. f[0] = 0 /\ \A k \in 1 .. N : f[k] = f[k - 1] + ix[N + 1 - k] * b[N + 1 - k].step
  BY <1>1 DEF SummedUp
<1>5. g[0] = 0 /\ \A k \in 1 .. M : g[k] = g[k - 1] + at[M + 1 - k] * dims[M + 1 - k].step
  BY <1>2 DEF SummedUp
<1>6. /\ \A k \in 1 .. N : ix[k] \in Int /\ b[k].step \in Int
      /\ \A k \in 1 .. new : b[k].step = 0
      /\ \A k \in 1 .. M : ix[new + k] * b[new + k].step = at[k] * dims[k].step
  BY DEF SameTerms
<1>7. f[N] = Address(b, ix) /\ g[M] = Address(dims, at)
  BY <1>1, <1>2
<1> HIDE DEF N, M
<1> DEFINE S == {k \in Nat : k <= N => f[k] \in Int /\ f[k] = IF k <= M THEN g[k] ELSE g[M]}
<1>8. 0 \in S
  BY <1>3, <1>4, <1>5
<1>9. ASSUME NEW k \in Nat, k \in S
      PROVE  k + 1 \in S
  <2> SUFFICES ASSUME k + 1 <= N
               PROVE  f[k + 1] \in Int /\ f[k + 1] = IF k + 1 <= M THEN g[k + 1] ELSE g[M]
    OBVIOUS
  <2>1. f[k] \in Int /\ f[k] = IF k <= M THEN g[k] ELSE g[M]
    BY <1>3, <1>9
  <2>2. f[k + 1] = f[k] + ix[N - k] * b[N - k].step
    <3>1. k + 1 \in 1 .. N /\ (k + 1) - 1 = k /\ N + 1 - (k + 1) = N - k
      BY <1>3
    <3>2. f[k + 1] = f[(k + 1) - 1] + ix[N + 1 - (k + 1)] * b[N + 1 - (k + 1)].step
      BY <1>4, <3>1
    <3> QED
      BY <3>1, <3>2
  <2>3. PICK x \in Int, y \in Int : x = ix[N - k] /\ y = b[N - k].step
    <3>1. N - k \in 1 .. N
      BY <1>3
    <3> QED
      BY <1>6, <3>1
  <2>4. f[k + 1] = f[k] + x * y /\ f[k + 1] \in Int
    BY <2>1, <2>2, <2>3
  <2>5. CASE k + 1 <= M
    <3>1. M - k \in 1 .. M /\ new + (M - k) = N - k /\ k + 1 \in 1 .. M /\ M + 1 - (k + 1) = M - k /\ (k + 1) - 1 = k
      BY <1>3, <2>5
    <3>2. ix[new + (M - k)] * b[new + (M - k)].step = at[M - k] * dims[M - k].step
      BY <1>6, <3>1
    <3>3. x * y = at[M - k] * dims[M - k].step
      BY <2>3, <3>1, <3>2
    <3>4. g[k + 1] = g[(k + 1) - 1] + at[M + 1 - (k + 1)] * dims[M + 1 - (k + 1)].step
      BY <1>5, <3>1
    <3>5. g[k + 1] = g[k] + at[M - k] * dims[M - k].step
      BY <3>1, <3>4
    <3>6. f[k] = g[k]
      BY <1>3, <2>1, <2>5
    <3>7. f[k + 1] = g[k + 1]
      BY <2>4, <3>3, <3>5, <3>6
    <3> QED
      BY <2>4, <2>5, <3>7
  <2>6. CASE ~(k + 1 <= M)
    <3>1. N - k \in 1 .. new
      BY <1>3, <2>6
    <3>2. y = 0
      BY <1>6, <2>3, <3>1
    <3>3. f[k + 1] = f[k]
      BY <2>1, <2>4, <3>2
    <3>4. f[k] = g[M]
      <4>1. CASE k <= M
        <5>1. k = M
          BY <1>3, <2>6, <4>1
        <5> QED
          BY <2>1, <5>1
      <4> QED
        BY <2>1, <4>1
    <3> QED
      BY <2>4, <2>6, <3>3, <3>4
  <2> QED
    BY <2>5, <2>6
<1> HIDE DEF S
<1>10. N \in S
  BY <1>3, <1>8, <1>9, NatSetInduction
<1>11. f[N] = g[M]
  BY <1>3, <1>10 DEF S
<1> QED
  BY <1>7, <1>11

\* At the index ix of b an array of dimensions dims reads its own item.
ReadsItem(dims, b, ix) ==
  LET new == Len(b) - Len(dims)
      at  == [k \in DOMAIN dims |-> IF dims[k].shape = 1 THEN 0 ELSE ix[new + k]]
  IN /\ \A k \in DOMAIN dims : at[k] < dims[k].shape
     /\ Address(b, ix) = Address(dims, at)

\* An input that is broadcast reads its own items.
LEMMA ReadsItsItems ==
  ASSUME NEW dims, NEW shape, NEW inner, NEW b, NEW ix
  PROVE  /\ IsSeq(dims) /\ \A k \in 1 .. Len(dims) : dims[k].shape \in Nat /\ dims[k].step \in Int
         /\ IsSeq(shape) /\ inner \in Nat /\ inner <= Len(dims) /\ Len(dims) - inner <= Len(shape)
         /\ \A k \in 1 .. Len(dims) - inner :
              ReadsDim(dims[k].shape, shape[Len(shape) - (Len(dims) - inner) + k])
         /\ b = BroadcastTo(dims, shape, inner, FALSE)
         /\ ix \in Indices(Shape(b))
         => ReadsItem(dims, b, ix)
<1> DEFINE n == Len(dims) - inner
           new == Len(shape) - n
           at == [k \in DOMAIN dims |-> IF dims[k].shape = 1 THEN 0 ELSE ix[new + k]]
<1>0. SUFFICES ASSUME IsSeq(dims), \A k \in 1 .. Len(dims) : dims[k].shape \in Nat /\ dims[k].step \in Int,
                      IsSeq(shape), inner \in Nat, inner <= Len(dims), n <= Len(shape),
                      \A k \in 1 .. n : ReadsDim(dims[k].shape, shape[new + k]),
                      b = BroadcastTo(dims, shape, inner, FALSE),
                      ix \in Indices(Shape(b))
               PROVE  ReadsItem(dims, b, ix)
  OBVIOUS
<1>1. Len(dims) \in Nat /\ Len(shape) \in Nat /\ DOMAIN dims = 1 .. Len(dims)
  BY <1>0, IsSeqProperties
<1>2. n \in Nat /\ new \in Nat /\ n <= Len(dims) /\ new + n = Len(shape)
  BY <1>0, <1>1
<1>3. /\ IsSeq(b) /\ Len(b) = new + Len(dims)
      /\ \A k \in 1 .. new : b[k] = Fixed(shape[k], 0)
      /\ \A k \in 1 .. n : b[new + k] = Stretch(dims[k], shape[new + k])
      /\ \A k \in n + 1 .. Len(dims) : b[new + k] = dims[k]
  <2>1. IsSeq(dims) /\ IsSeq(shape) /\ inner \in Nat /\ inner <= Len(dims) /\ Len(dims) - inner <= Len(shape)
    BY <1>0
  <2> DEFINE c == BroadcastTo(dims, shape, inner, FALSE)
  <2>2. /\ IsSeq(c) /\ Len(c) = new + Len(dims)
        /\ \A k \in 1 .. new : c[k] = Fixed(shape[k], 0)
        /\ \A k \in 1 .. n : c[new + k] = Stretch(dims[k], shape[new + k])
        /\ \A k \in n + 1 .. Len(dims) : c[new + k] = dims[k]
    BY <2>1, BroadcastInput, ZenonT(40)
  <2>3. b = c
    BY <1>0
  <2> HIDE DEF c, n, new
  <2> QED
    BY <2>2, <2>3
<1>4. \A k \in 1 .. n : ReadsDim(dims[k].shape, shape[new + k])
  BY <1>0
<1>5. \A k \in 1 .. Len(dims) : dims[k].shape \in Nat /\ dims[k].step \in Int
  BY <1>0
<1>6. Len(b) - Len(dims) = new
  BY <1>1, <1>2, <1>3
<1>7. \A k \in 1 .. Len(dims) : at[k] = IF dims[k].shape = 1 THEN 0 ELSE ix[new + k]
  BY <1>1
<1> HIDE DEF n, new, at
<1>8. ASSUME NEW k \in 1 .. Len(b)
      PROVE  ix[k] \in Nat /\ ix[k] < b[k].shape
  <2>1. DOMAIN b = 1 .. Len(b)
    BY <1>3, IsSeqProperties
  <2>2. DOMAIN Shape(b) = 1 .. Len(b) /\ \A j \in 1 .. Len(b) : Shape(b)[j] = b[j].shape
    BY <2>1 DEF Shape
  <2>3. /\ ix \in [DOMAIN Shape(b) -> UNION { 0 .. Shape(b)[j] - 1 : j \in DOMAIN Shape(b) }]
        /\ \A j \in DOMAIN Shape(b) : ix[j] < Shape(b)[j]
    BY <1>0 DEF Indices
  <2>4. ix[k] \in UNION { 0 .. Shape(b)[j] - 1 : j \in DOMAIN Shape(b) }
    BY <2>2, <2>3
  <2>5. PICK j \in DOMAIN Shape(b) : ix[k] \in 0 .. Shape(b)[j] - 1
    BY <2>4
  <2>6. ix[k] \in Nat
    BY <2>5
  <2>7. ix[k] < b[k].shape
    BY <2>2, <2>3
  <2> QED
    BY <2>6, <2>7
<1>9. ASSUME NEW k \in 1 .. Len(dims)
      PROVE  /\ new + k \in 1 .. Len(b)
             /\ ix[new + k] \in Nat /\ b[new + k].step \in Int
             /\ at[k] < dims[k].shape
             /\ ix[new + k] * b[new + k].step = at[k] * dims[k].step
  <2>1. new + k \in 1 .. Len(b)
    BY <1>1, <1>2, <1>3
  <2>2. ix[new + k] \in Nat /\ ix[new + k] < b[new + k].shape
    BY <1>8, <2>1
  <2>3. PICK m \in Nat, s \in Int, x \in Nat : m = dims[k].shape /\ s = dims[k].step /\ x = ix[new + k]
    BY <1>5, <2>2
  <2>4. at[k] = IF m = 1 THEN 0 ELSE x
    BY <1>7, <2>3
  <2>5. CASE k \in n + 1 .. Len(dims)
    <3>1. b[new + k] = dims[k] /\ x < m
      BY <1>3, <2>2, <2>3, <2>5
    <3>2. b[new + k].step = s
      BY <2>3, <3>1
    <3>3. m = 1 => x = 0
      BY <3>1
    <3>4. x * s = at[k] * s /\ at[k] < m
      BY <2>4, <3>1, <3>3
    <3> QED
      BY <2>1, <2>3, <3>2, <3>4
  <2>6. CASE k \in 1 .. n
    <3>1. b[new + k] = Stretch(dims[k], shape[new + k]) /\ ReadsDim(m, shape[new + k])
      BY <1>3, <1>4, <2>3, <2>6
    <3>2. b[new + k].shape = shape[new + k] /\ b[new + k].step = IF m <= 1 THEN 0 ELSE s
      BY <2>3, <3>1 DEF Stretch, Fixed
    <3>3. x < shape[new + k] /\ (m = shape[new + k] \/ m = 1 \/ shape[new + k] = 0)
      BY <2>2, <2>3, <3>1, <3>2 DEF ReadsDim
    <3>4. m = shape[new + k] \/ m = 1
      BY <2>3, <3>3
    <3>5. CASE m = 1
      <4>1. b[new + k].step = 0 /\ at[k] = 0
        BY <2>4, <3>2, <3>5
      <4>2. x * 0 = 0 /\ 0 * s = 0
        OBVIOUS
      <4> QED
        BY <2>1, <2>3, <3>5, <4>1, <4>2
    <3>6. CASE m # 1
      <4>1. x < m
        BY <3>3, <3>4, <3>6
      <4>2. m > 1 /\ at[k] = x
        BY <2>4, <3>6, <4>1
      <4>3. b[new + k].step = s
        BY <3>2, <4>2
      <4> QED
        BY <2>1, <2>3, <4>1, <4>2, <4>3
    <3> QED
      BY <3>5, <3>6
  <2> QED
    BY <1>1, <1>2, <2>5, <2>6
<1>10. \A k \in 1 .. new : b[k].step = 0
  <2>1. \A k : Fixed(shape[k], 0).step = 0
    BY DEF Fixed
  <2> QED
    BY <1>3, <2>1
<1>11. ASSUME NEW k \in 1 .. Len(b)
       PROVE  ix[k] \in Int /\ b[k].step \in Int
  <2>1. ix[k] \in Int
    BY <1>8
  <2>2. CASE k \in 1 .. new
    BY <1>10, <2>1, <2>2
  <2>3. CASE ~(k \in 1 .. new)
    <3>1. k - new \in 1 .. Len(dims) /\ new + (k - new) = k
      BY <1>1, <1>2, <1>3, <2>3
    <3>2. b[new + (k - new)].step \in Int
      BY <1>9, <3>1
    <3> QED
      BY <2>1, <3>1, <3>2
  <2> QED
    BY <2>2, <2>3
<1>12. Address(b, ix) = Address(dims, at)
  <2>1. \A k \in 1 .. Len(dims) : ix[new + k] * b[new + k].step = at[k] * dims[k].step
    BY <1>9
  <2>2. Len(b) = new + Len(dims)
    BY <1>3
  <2> QED
    <3>1. SameTerms(dims, b, new, ix, at)
      BY <1>10, <1>11, <2>1, <2>2 DEF SameTerms
    <3>2. Len(dims) \in Nat /\ new \in Nat
      BY <1>1, <1>2
    <3> QED
      BY <3>1, <3>2, SameAddress
<1>13. \A k \in DOMAIN dims : at[k] < dims[k].shape
  BY <1>1, <1>9
<1> QED
  BY <1>6, <1>12, <1>13 DEF at, ReadsItem
-----------------------------------------------------------------------------
(***************************************************************************)
(* The parts of an argument, and the symbol table.                         *)
(***************************************************************************)
LEMMA FromProperties ==
  ASSUME NEW c, IsSeq(c.dims), NEW i \in Nat, 1 <= i, i <= Len(c.dims) + 1
  PROVE  /\ IsSeq(From(c, i).dims) /\ Len(From(c, i).dims) = Len(c.dims) - i + 1
         /\ \A k \in 1 .. Len(c.dims) - i + 1 : From(c, i).dims[k] = c.dims[i + k - 1]
         /\ From(c, i).dtype = c.dtype
<1>1. From(c, i).dims = SubSeq(c.dims, i, Len(c.dims)) /\ From(c, i).dtype = c.dtype
  BY DEF From, Type
<1>2. Len(c.dims) \in Nat
  BY IsSeqProperties
<1>3. i \in Int /\ Len(c.dims) \in Int /\ Len(c.dims) <= Len(c.dims)
  BY <1>2
<1> QED
  BY <1>1, <1>3, SubSeqIsSeq

LEMMA FromFirst ==
  ASSUME NEW c, IsSeq(c.dims), NEW i \in Nat, 1 <= i, i <= Len(c.dims)
  PROVE  From(c, i).dims[1] = c.dims[i]
<1>1. Len(c.dims) \in Nat
  BY IsSeqProperties
<1>2. 1 \in 1 .. Len(c.dims) - i + 1 /\ i + 1 - 1 = i /\ i <= Len(c.dims) + 1
  BY <1>1
<1>3. From(c, i).dims[1] = c.dims[i + 1 - 1]
  BY <1>2, FromProperties
<1> QED
  BY <1>2, <1>3

LEMMA FromFrom ==
  ASSUME NEW c, IsSeq(c.dims), NEW i \in Nat, 1 <= i, i <= Len(c.dims) + 1,
         NEW j \in Nat, 1 <= j, j <= Len(c.dims) - i + 2
  PROVE  From(From(c, i), j) = From(c, i + j - 1)
<1> DEFINE d == From(c, i)
           x == SubSeq(d.dims, j, Len(d.dims))
           y == SubSeq(c.dims, i + j - 1, Len(c.dims))
<1>1. Len(c.dims) \in Nat
  BY IsSeqProperties
<1>2. /\ IsSeq(d.dims) /\ Len(d.dims) = Len(c.dims) - i + 1
      /\ \A k \in 1 .. Len(c.dims) - i + 1 : d.dims[k] = c.dims[i + k - 1]
      /\ d.dtype = c.dtype
  BY FromProperties
<1>3. From(d, j) = Type(x, c.dtype)
  BY <1>2 DEF From
<1>4. From(c, i + j - 1) = Type(y, c.dtype)
  BY DEF From
<1> HIDE DEF d
<1>5. /\ IsSeq(x) /\ Len(x) = Len(d.dims) - j + 1
      /\ \A k \in 1 .. Len(d.dims) - j + 1 : x[k] = d.dims[j + k - 1]
  <2>1. IsSeq(d.dims) /\ j \in Int /\ Len(d.dims) \in Int /\ 1 <= j /\ Len(d.dims) <= Len(d.dims) /\ j <= Len(d.dims) + 1
    BY <1>1, <1>2
  <2> QED
    BY <2>1, SubSeqIsSeq
<1>6. /\ IsSeq(y) /\ Len(y) = Len(c.dims) - (i + j - 1) + 1
      /\ \A k \in 1 .. Len(c.dims) - (i + j - 1) + 1 : y[k] = c.dims[(i + j - 1) + k - 1]
  <2>1. /\ i + j - 1 \in Int /\ Len(c.dims) \in Int /\ 1 <= i + j - 1 /\ Len(c.dims) <= Len(c.dims)
        /\ i + j - 1 <= Len(c.dims) + 1
    BY <1>1
  <2> QED
    BY <2>1, SubSeqIsSeq
<1> HIDE DEF x, y
<1>7. Len(x) = Len(y) /\ Len(x) = Len(c.dims) - i + 1 - j + 1
  BY <1>1, <1>2, <1>5, <1>6
<1>8. ASSUME NEW k \in 1 .. Len(x)
      PROVE  x[k] = y[k]
  <2>1. /\ k \in 1 .. Len(d.dims) - j + 1 /\ k \in 1 .. Len(c.dims) - (i + j - 1) + 1
        /\ j + k - 1 \in 1 .. Len(c.dims) - i + 1 /\ i + (j + k - 1) - 1 = (i + j - 1) + k - 1
    BY <1>1, <1>2, <1>7
  <2>2. x[k] = d.dims[j + k - 1]
    BY <1>5, <2>1
  <2>3. d.dims[j + k - 1] = c.dims[i + (j + k - 1) - 1]
    BY <1>2, <2>1
  <2>4. y[k] = c.dims[(i + j - 1) + k - 1]
    BY <1>6, <2>1
  <2> QED
    BY <2>1, <2>2, <2>3, <2>4
<1>9. x = y
  <2>1. IsSeq(x) /\ IsSeq(y)
    BY <1>5, <1>6
  <2>2. Len(x) = Len(y)
    BY <1>7
  <2>3. \A k \in 1 .. Len(x) : x[k] = y[k]
    BY <1>8
  <2> QED
    BY <2>1, <2>2, <2>3, SameSeq, Zenon
<1> QED
  BY <1>3, <1>4, <1>9 DEF d

\* No table has an empty symbol.
IsTable(t) == "" \notin DOMAIN t

LEMMA TablesMatch ==
  ASSUME NEW t, IsTable(t)
  PROVE  t # NoMatch
BY DEF IsTable, NoMatch

\* u has the entries of t, and perhaps more.
Extends(t, u) == \A key \in DOMAIN t : key \in DOMAIN u /\ u[key] = t[key]

LEMMA ExtendsTransitive ==
  ASSUME NEW t, NEW u, NEW v, Extends(t, u), Extends(u, v)
  PROVE  Extends(t, v)
BY DEF Extends

\* The table u has the symbol key, with this tag and value.
Holds(u, key, tag, value) == key \in DOMAIN u /\ u[key].tag = tag /\ u[key].value = value

LEMMA ExtendsHolds ==
  ASSUME NEW t, NEW u, Extends(t, u), NEW key, NEW tag, NEW value, Holds(t, key, tag, value)
  PROVE  Holds(u, key, tag, value)
BY DEF Extends, Holds

\* Binding a symbol that is there already leaves the table as it is.
LEMMA ResolveSymbolSound ==
  ASSUME NEW t, NEW key, NEW entry, NEW v,
         IsTable(t), key # "", v = ResolveSymbol(t, key, entry), v # NoMatch
  PROVE  /\ IsTable(v) /\ Extends(t, v) /\ DOMAIN v = DOMAIN t \cup {key} /\ Holds(v, key, entry.tag, entry.value)
         /\ key \notin DOMAIN t => v[key] = entry
<1>0. v = ResolveSymbol(t, key, entry)
  OBVIOUS
<1>1. CASE key \notin DOMAIN t
  <2>1. v = Bind(t, key, entry)
    BY <1>0, <1>1 DEF ResolveSymbol
  <2>2. DOMAIN v = DOMAIN t \cup {key} /\ v[key] = entry /\ \A k \in DOMAIN t : v[k] = t[k]
    BY <1>1, <2>1 DEF Bind
  <2>3. IsTable(v) /\ Extends(t, v)
    BY <2>2 DEF IsTable, Extends
  <2>4. Holds(v, key, entry.tag, entry.value)
    BY <1>0, <2>2 DEF Holds
  <2> QED
    BY <2>2, <2>3, <2>4
<1>2. CASE key \in DOMAIN t
  <2>1. v = t /\ t[key].tag = entry.tag /\ t[key].value = entry.value
    BY <1>0, <1>2 DEF ResolveSymbol
  <2>2. Holds(v, key, entry.tag, entry.value) /\ Extends(t, v)
    BY <1>0, <1>2, <2>1 DEF Holds, Extends
  <2> QED
    BY <1>2, <2>1, <2>2
<1> QED
  BY <1>1, <1>2

LEMMA ResolveSymbolComplete ==
  ASSUME NEW t, NEW key, NEW entry,
         IsTable(t), key # "", key \in DOMAIN t => Holds(t, key, entry.tag, entry.value)
  PROVE  ResolveSymbol(t, key, entry) # NoMatch
<1>1. CASE key \notin DOMAIN t
  <2>1. ResolveSymbol(t, key, entry) = Bind(t, key, entry)
    BY <1>1 DEF ResolveSymbol
  <2>2. DOMAIN Bind(t, key, entry) = DOMAIN t \cup {key}
    BY DEF Bind
  <2>3. IsTable(Bind(t, key, entry))
    BY <2>2 DEF IsTable
  <2> QED
    BY <2>1, <2>3, TablesMatch
<1>2. CASE key \in DOMAIN t
  <2>1. ResolveSymbol(t, key, entry) = t
    BY <1>2 DEF ResolveSymbol, Holds
  <2> QED
    BY <2>1, TablesMatch
<1> QED
  BY <1>1, <1>2
-----------------------------------------------------------------------------
(***************************************************************************)
(* Matching.                                                               *)
(***************************************************************************)
\* f[k] is the table after the first k dimensions of p.
MatchedUp(t, p, c, f) ==
  /\ f[0] = t
  /\ \A k \in 1 .. Len(p.dims) : f[k] = MatchDim(f[k - 1], p, c, k)

\* match_datashape goes through the dimensions and comes to the dtype.
LEMMA MatchSteps ==
  ASSUME NEW t, NEW p, NEW c, Len(p.dims) \in Nat
  PROVE  \E f : /\ MatchedUp(t, p, c, f)
                /\ MatchDatashape(t, p, c) = MatchDtype(f[Len(p.dims)], p.dtype, From(c, Len(p.dims) + 1))
<1> DEFINE A(k, a) == MatchDim(a, p, c, k)
           F(n, f) == [k \in 0 .. n |-> IF k = 0 THEN t ELSE A(k, f[k - 1])]
           S == {n \in Nat : \E f : f = F(n, f)}
<1> HIDE DEF A
<1>1. 0 \in S
  <2> DEFINE f == [k \in 0 .. 0 |-> t]
  <2>1. f = F(0, f)
    OBVIOUS
  <2> QED
    BY <2>1
<1>2. ASSUME NEW n \in Nat, n \in S
      PROVE  n + 1 \in S
  <2>1. PICK f : f = F(n, f)
    BY <1>2
  <2> DEFINE g == [k \in 0 .. n + 1 |-> IF k = n + 1 THEN A(n + 1, f[n]) ELSE f[k]]
  <2>2. ASSUME NEW k \in 0 .. n + 1
        PROVE  g[k] = F(n + 1, g)[k]
    <3>1. CASE k = n + 1
      <4>1. k # 0 /\ k - 1 = n /\ g[k - 1] = f[n]
        BY <3>1
      <4> QED
        BY <3>1, <4>1
    <3>2. CASE k # n + 1
      <4>1. k \in 0 .. n /\ g[k] = f[k] /\ (k # 0 => g[k - 1] = f[k - 1])
        BY <3>2
      <4>2. f[k] = IF k = 0 THEN t ELSE A(k, f[k - 1])
        BY <2>1, <4>1
      <4> QED
        BY <4>1, <4>2
    <3> QED
      BY <3>1, <3>2
  <2>3. g = F(n + 1, g)
    <3>1. g = [k \in 0 .. n + 1 |-> g[k]]
      OBVIOUS
    <3>2. F(n + 1, g) = [k \in 0 .. n + 1 |-> F(n + 1, g)[k]]
      OBVIOUS
    <3> HIDE DEF g, F
    <3> QED
      BY <2>2, <3>1, <3>2
  <2> HIDE DEF g, F
  <2> QED
    BY <2>3
<1> HIDE DEF S
<1>3. Len(p.dims) \in S
  BY <1>1, <1>2, NatSetInduction
<1> DEFINE h == CHOOSE f : f = F(Len(p.dims), f)
<1>4. h = F(Len(p.dims), h)
  <2> HIDE DEF F
  <2>1. \E f : f = F(Len(p.dims), f)
    BY <1>3 DEF S
  <2> QED
    BY <2>1, Zenon
<1>5. MatchDatashape(t, p, c) = MatchDtype(h[Len(p.dims)], p.dtype, From(c, Len(p.dims) + 1))
  BY DEF MatchDatashape, A
<1> HIDE DEF h
<1>6. ASSUME NEW k \in 0 .. Len(p.dims)
      PROVE  h[k] = IF k = 0 THEN t ELSE A(k, h[k - 1])
  <2>1. F(Len(p.dims), h)[k] = IF k = 0 THEN t ELSE A(k, h[k - 1])
    OBVIOUS
  <2> HIDE DEF F
  <2> QED
    BY <1>4, <2>1
<1> HIDE DEF F
<1>7. 0 \in 0 .. Len(p.dims) /\ \A k \in 1 .. Len(p.dims) : k \in 0 .. Len(p.dims) /\ k # 0
  OBVIOUS
<1>8. h[0] = t
  BY <1>6, <1>7
<1>9. \A k \in 1 .. Len(p.dims) : h[k] = A(k, h[k - 1])
  BY <1>6, <1>7
<1>10. MatchedUp(t, p, c, h)
  BY <1>8, <1>9 DEF MatchedUp, A
<1> QED
  BY <1>5, <1>10, Zenon

\* The dimension at the front of d is what q stands for, as far as u knows.
FitsDim(u, q, d) ==
  CASE q.kind = "fixed" -> d.dims[1].kind = "fixed" /\ d.dims[1].shape = q.shape /\ Ordered(q.order, d)
    [] q.kind = "sym"   -> /\ d.dims[1].kind = "fixed" /\ Ordered(q.order, d)
                           /\ Holds(u, q.name, "Shape", d.dims[1].shape)
    [] OTHER            -> d.dims[1].kind = q.kind

\* What matching dimension i of c with q makes of the table t.
DimMatched(t, q, c, i, u) ==
  /\ IsTable(t) /\ i <= Len(c.dims)
  /\ IsTable(u) /\ Extends(t, u) /\ FitsDim(u, q, From(c, i))
  /\ \A key \in DOMAIN u : key \in DOMAIN t \/ (q.kind = "sym" /\ key = q.name /\ u[key].tag = "Shape")

LEMMA MatchDimSound ==
  ASSUME NEW t, NEW p, NEW c, NEW i, NEW u, NEW q
  PROVE  /\ i \in Nat /\ 1 <= i /\ IsSeq(c.dims)
         /\ t = NoMatch \/ IsTable(t)
         /\ u = MatchDim(t, p, c, i) /\ q = p.dims[i]
         /\ q.kind = "sym" => q.name # ""
         /\ u # NoMatch
         => DimMatched(t, q, c, i, u)
<1>0. SUFFICES ASSUME i \in Nat, 1 <= i, IsSeq(c.dims), t = NoMatch \/ IsTable(t),
                      u = MatchDim(t, p, c, i), q = p.dims[i], q.kind = "sym" => q.name # "", u # NoMatch
               PROVE  DimMatched(t, q, c, i, u)
  OBVIOUS
<1>1. t # NoMatch /\ ~(i > Len(c.dims))
  BY <1>0 DEF MatchDim
<1>2. IsTable(t) /\ i <= Len(c.dims)
  <2>1. Len(c.dims) \in Nat /\ i \in Nat
    BY <1>0, IsSeqProperties
  <2>2. i <= Len(c.dims)
    BY <1>1, <2>1
  <2>3. IsTable(t)
    BY <1>0, <1>1
  <2> QED
    BY <2>2, <2>3
<1>3. From(c, i).dims[1] = c.dims[i]
  BY <1>0, <1>2, FromFirst
<1>4. CASE q.kind = "fixed"
  <2>1. u = IF /\ c.dims[i].kind = "fixed" /\ c.dims[i].shape = q.shape /\ Ordered(q.order, From(c, i))
            THEN t ELSE NoMatch
    BY <1>0, <1>1, <1>4 DEF MatchDim
  <2>2. u = t /\ c.dims[i].kind = "fixed" /\ c.dims[i].shape = q.shape /\ Ordered(q.order, From(c, i))
    BY <1>0, <2>1
  <2>3. FitsDim(u, q, From(c, i))
    BY <1>3, <1>4, <2>2 DEF FitsDim
  <2>4. Extends(t, u)
    BY <2>2 DEF Extends
  <2> QED
    BY <1>2, <2>2, <2>3, <2>4 DEF DimMatched
<1>5. CASE q.kind = "sym"
  <2>1. u = IF c.dims[i].kind = "fixed" /\ Ordered(q.order, From(c, i))
            THEN ResolveSymbol(t, q.name, [tag |-> "Shape", value |-> c.dims[i].shape]) ELSE NoMatch
    BY <1>0, <1>1, <1>5 DEF MatchDim
  <2>2. /\ u = ResolveSymbol(t, q.name, [tag |-> "Shape", value |-> c.dims[i].shape])
        /\ c.dims[i].kind = "fixed" /\ Ordered(q.order, From(c, i))
    BY <1>0, <2>1
  <2>3. PICK name, n, entry : /\ name = q.name /\ n = c.dims[i].shape
                              /\ entry = [tag |-> "Shape", value |-> c.dims[i].shape]
    OBVIOUS
  <2>8. u = ResolveSymbol(t, name, entry)
    BY <2>2, <2>3, Zenon
  <2>7. entry.tag = "Shape" /\ entry.value = n
    BY <2>3
  <2>4. IsTable(u) /\ Extends(t, u) /\ DOMAIN u = DOMAIN t \cup {name} /\ Holds(u, name, "Shape", n)
    <3>1. IsTable(t) /\ name # "" /\ u = ResolveSymbol(t, name, entry) /\ u # NoMatch
      BY <1>0, <1>2, <1>5, <2>3, <2>8
    <3>2. IsTable(u) /\ Extends(t, u) /\ DOMAIN u = DOMAIN t \cup {name} /\ Holds(u, name, entry.tag, entry.value)
      BY <3>1, ResolveSymbolSound
    <3> QED
      BY <2>7, <3>2
  <2>5. FitsDim(u, q, From(c, i))
    BY <1>3, <1>5, <2>2, <2>3, <2>4 DEF FitsDim
  <2>6. \A key \in DOMAIN u : key \in DOMAIN t \/ (q.kind = "sym" /\ key = q.name /\ u[key].tag = "Shape")
    BY <1>5, <2>3, <2>4 DEF Holds
  <2> QED
    BY <1>2, <2>4, <2>5, <2>6 DEF DimMatched
<1>6. CASE q.kind # "fixed" /\ q.kind # "sym"
  <2>1. u = IF c.dims[i].kind = q.kind THEN t ELSE NoMatch
    BY <1>0, <1>1, <1>6 DEF MatchDim
  <2>2. u = t /\ c.dims[i].kind = q.kind
    BY <1>0, <2>1
  <2>3. FitsDim(u, q, From(c, i))
    BY <1>3, <1>6, <2>2 DEF FitsDim
  <2>4. Extends(t, u)
    BY <2>2 DEF Extends
  <2> QED
    BY <1>2, <2>2, <2>3, <2>4 DEF DimMatched
<1> QED
  BY <1>4, <1>5, <1>6

LEMMA MatchDimComplete ==
  ASSUME NEW t, NEW p, NEW c, NEW i, NEW b, NEW u, NEW q
  PROVE  /\ i \in Nat /\ 1 <= i /\ IsSeq(c.dims) /\ i <= Len(c.dims) /\ IsTable(t)
         /\ u = MatchDim(t, p, c, i) /\ q = p.dims[i]
         /\ q.kind = "sym" =>
               /\ q.name # ""
               /\ q.name \in DOMAIN t => Holds(t, q.name, "Shape", b[q.name])
         /\ DenotesDim(b, q, From(c, i))
         => u # NoMatch
<1>0. SUFFICES ASSUME i \in Nat, 1 <= i, IsSeq(c.dims), i <= Len(c.dims), IsTable(t),
                      u = MatchDim(t, p, c, i), q = p.dims[i],
                      q.kind = "sym" =>
                        /\ q.name # ""
                        /\ q.name \in DOMAIN t => Holds(t, q.name, "Shape", b[q.name]),
                      DenotesDim(b, q, From(c, i))
               PROVE  u # NoMatch
  OBVIOUS
<1>1. t # NoMatch /\ ~(i > Len(c.dims))
  <2>1. Len(c.dims) \in Nat /\ i \in Nat /\ i <= Len(c.dims)
    BY <1>0, IsSeqProperties
  <2>2. t # NoMatch
    BY <1>0, TablesMatch
  <2>3. ~(i > Len(c.dims))
    BY <2>1
  <2> QED
    BY <2>2, <2>3
<1>3. From(c, i).dims[1] = c.dims[i]
  BY <1>0, FromFirst
<1>4. CASE q.kind = "fixed"
  <2>1. c.dims[i].kind = "fixed" /\ c.dims[i].shape = q.shape /\ Ordered(q.order, From(c, i))
    BY <1>0, <1>3, <1>4 DEF DenotesDim
  <2>2. u = t
    BY <1>0, <1>1, <1>4, <2>1 DEF MatchDim
  <2> QED
    BY <1>1, <2>2
<1>5. CASE q.kind = "sym"
  <2>1. c.dims[i].kind = "fixed" /\ c.dims[i].shape = b[q.name] /\ Ordered(q.order, From(c, i))
    BY <1>0, <1>3, <1>5 DEF DenotesDim
  <2>2. PICK name, n, entry : /\ name = q.name /\ n = c.dims[i].shape
                              /\ entry = [tag |-> "Shape", value |-> n]
    OBVIOUS
  <2>6. entry.tag = "Shape" /\ entry.value = n
    BY <2>2
  <2>3. u = ResolveSymbol(t, name, entry)
    BY <1>0, <1>1, <1>5, <2>1, <2>2 DEF MatchDim
  <2>4. name # "" /\ (name \in DOMAIN t => Holds(t, name, "Shape", n))
    BY <1>0, <1>5, <2>1, <2>2
  <2>5. ResolveSymbol(t, name, entry) # NoMatch
    <3>1. name \in DOMAIN t => Holds(t, name, entry.tag, entry.value)
      BY <2>4, <2>6
    <3>2. IsTable(t) /\ name # ""
      BY <1>0, <2>4
    <3> QED
      BY <3>1, <3>2, ResolveSymbolComplete
  <2> QED
    BY <2>3, <2>5
<1>6. CASE q.kind # "fixed" /\ q.kind # "sym"
  <2>1. c.dims[i].kind = q.kind
    BY <1>0, <1>3, <1>6 DEF DenotesDim
  <2>2. u = t
    BY <1>0, <1>1, <1>6, <2>1 DEF MatchDim
  <2> QED
    BY <1>1, <2>2
<1> QED
  BY <1>4, <1>5, <1>6

\* What is left of an argument is what the dtype q stands for, as far as u knows.
FitsDtype(u, q, d) ==
  /\ IsOptional(d) = q.opt
  /\ q.kind = "scalar" => d.dims = <<>> /\ d.dtype.name = q.name
  /\ q.kind = "typevar" => Holds(u, q.name, "Type", d)

\* What matching d with the dtype q makes of the table t.
DtypeMatched(t, q, d, u) ==
  /\ IsTable(t) /\ IsTable(u) /\ Extends(t, u) /\ FitsDtype(u, q, d)
  /\ \A key \in DOMAIN u :
       key \in DOMAIN t \/ (q.kind = "typevar" /\ key = q.name /\ u[key] = [tag |-> "Type", value |-> d])

LEMMA MatchDtypeSound ==
  ASSUME NEW t, NEW q, NEW d, NEW u
  PROVE  /\ t = NoMatch \/ IsTable(t)
         /\ q.kind \in {"any", "scalar", "typevar"} /\ (q.kind = "typevar" => q.name # "")
         /\ u = MatchDtype(t, q, d) /\ u # NoMatch
         => DtypeMatched(t, q, d, u)
<1>0. SUFFICES ASSUME t = NoMatch \/ IsTable(t), q.kind \in {"any", "scalar", "typevar"},
                      q.kind = "typevar" => q.name # "", u = MatchDtype(t, q, d), u # NoMatch
               PROVE  DtypeMatched(t, q, d, u)
  OBVIOUS
<1>1. t # NoMatch /\ IsOptional(d) = q.opt
  BY <1>0 DEF MatchDtype
<1>2. IsTable(t)
  BY <1>0, <1>1
<1>3. CASE q.kind = "any" \/ q.kind = "scalar"
  <2>1. u = t /\ (q.kind = "scalar" => d.dims = <<>> /\ d.dtype.name = q.name)
    BY <1>0, <1>1, <1>3 DEF MatchDtype
  <2>2. FitsDtype(u, q, d)
    BY <1>1, <1>3, <2>1 DEF FitsDtype
  <2>3. Extends(t, u)
    BY <2>1 DEF Extends
  <2> QED
    BY <1>2, <2>1, <2>2, <2>3 DEF DtypeMatched
<1>4. CASE q.kind = "typevar"
  <2>1. PICK name, entry : name = q.name /\ entry = [tag |-> "Type", value |-> d]
    OBVIOUS
  <2>2. entry.tag = "Type" /\ entry.value = d
    BY <2>1
  <2>3. u = ResolveSymbol(t, q.name, [tag |-> "Type", value |-> d])
    BY <1>0, <1>1, <1>4 DEF MatchDtype
  <2>4. u = ResolveSymbol(t, name, entry)
    BY <2>1, <2>3, Zenon
  <2>5. /\ IsTable(u) /\ Extends(t, u) /\ DOMAIN u = DOMAIN t \cup {name} /\ Holds(u, name, entry.tag, entry.value)
        /\ name \notin DOMAIN t => u[name] = entry
    <3>1. IsTable(t) /\ name # "" /\ u # NoMatch
      BY <1>0, <1>2, <1>4, <2>1
    <3> QED
      BY <2>4, <3>1, ResolveSymbolSound
  <2>6. FitsDtype(u, q, d)
    <3>1. Holds(u, q.name, "Type", d)
      BY <2>1, <2>2, <2>5
    <3> QED
      BY <1>1, <1>4, <3>1 DEF FitsDtype
  <2>7. ASSUME NEW key \in DOMAIN u, key \notin DOMAIN t
        PROVE  key = q.name /\ u[key] = [tag |-> "Type", value |-> d]
    <3>1. key = name
      BY <2>5, <2>7
    <3>2. u[key] = entry
      BY <2>5, <2>7, <3>1
    <3> QED
      BY <2>1, <3>1, <3>2
  <2> QED
    BY <1>2, <1>4, <2>5, <2>6, <2>7 DEF DtypeMatched
<1> QED
  BY <1>0, <1>3, <1>4

LEMMA MatchDtypeComplete ==
  ASSUME NEW t, NEW q, NEW d, NEW b
  PROVE  /\ IsTable(t)
         /\ q.kind \in {"any", "scalar", "typevar"}
         /\ q.kind = "typevar" => q.name # "" /\ (q.name \in DOMAIN t => Holds(t, q.name, "Type", b[q.name]))
         /\ DenotesDtype(b, q, d)
         => MatchDtype(t, q, d) # NoMatch
<1>0. SUFFICES ASSUME IsTable(t), q.kind \in {"any", "scalar", "typevar"},
                      q.kind = "typevar" =>
                        q.name # "" /\ (q.name \in DOMAIN t => Holds(t, q.name, "Type", b[q.name])),
                      DenotesDtype(b, q, d)
               PROVE  MatchDtype(t, q, d) # NoMatch
  OBVIOUS
<1>1. t # NoMatch /\ IsOptional(d) = q.opt
  BY <1>0, TablesMatch DEF DenotesDtype
<1>2. CASE q.kind = "any" \/ q.kind = "scalar"
  <2>1. q.kind = "scalar" => d.dims = <<>> /\ d.dtype.name = q.name
    BY <1>0 DEF DenotesDtype
  <2>2. MatchDtype(t, q, d) = t
    BY <1>1, <1>2, <2>1 DEF MatchDtype
  <2> QED
    BY <1>1, <2>2
<1>3. CASE q.kind = "typevar"
  <2>1. PICK name, entry : name = q.name /\ entry = [tag |-> "Type", value |-> d]
    OBVIOUS
  <2>2. entry.tag = "Type" /\ entry.value = d
    BY <2>1
  <2>3. MatchDtype(t, q, d) = ResolveSymbol(t, q.name, [tag |-> "Type", value |-> d])
    BY <1>1, <1>3 DEF MatchDtype
  <2>4. MatchDtype(t, q, d) = ResolveSymbol(t, name, entry)
    BY <2>1, <2>3, Zenon
  <2>5. d = b[name] /\ name # "" /\ (name \in DOMAIN t => Holds(t, name, "Type", b[name]))
    BY <1>0, <1>3, <2>1 DEF DenotesDtype
  <2>6. name \in DOMAIN t => Holds(t, name, entry.tag, entry.value)
    BY <2>2, <2>5
  <2>7. ResolveSymbol(t, name, entry) # NoMatch
    <3>1. IsTable(t) /\ name # ""
      BY <1>0, <2>5
    <3> QED
      BY <2>6, <3>1, ResolveSymbolComplete
  <2> QED
    BY <2>4, <2>7
<1> QED
  BY <1>0, <1>2, <1>3

-----------------------------------------------------------------------------
\* A pattern whose symbols have names of their own.
IsPattern(p) ==
  /\ IsSeq(p.dims) /\ p.dtype.kind \in {"any", "scalar", "typevar"}
  /\ \A k \in 1 .. Len(p.dims) : p.dims[k].kind = "sym" => p.dims[k].name \notin {"", "..."}
  /\ p.dtype.kind = "typevar" => p.dtype.name \notin {"", "..."}

\* The argument c, without what an ellipsis takes, is what p stands for, as
\* far as u knows.
Fits(u, p, c) ==
  /\ Len(p.dims) <= Len(c.dims)
  /\ \A k \in 1 .. Len(p.dims) : FitsDim(u, p.dims[k], From(c, k))
  /\ FitsDtype(u, p.dtype, From(c, Len(p.dims) + 1))

LEMMA FitsDimExtends ==
  ASSUME NEW t, NEW u, NEW q, NEW d, Extends(t, u), FitsDim(t, q, d)
  PROVE  FitsDim(u, q, d)
BY DEF FitsDim, Extends, Holds

LEMMA FitsDtypeExtends ==
  ASSUME NEW t, NEW u, NEW q, NEW d, Extends(t, u), FitsDtype(t, q, d)
  PROVE  FitsDtype(u, q, d)
<1>1. Holds(t, q.name, "Type", d) => Holds(u, q.name, "Type", d)
  BY ExtendsHolds
<1> QED
  BY <1>1, Zenon DEF FitsDtype

\* u has the entries of t; only the common shape of the outer dimensions may
\* have changed.
Keeps(t, u) == \A key \in DOMAIN t : key # "..." => key \in DOMAIN u /\ u[key] = t[key]

LEMMA KeepsHolds ==
  ASSUME NEW t, NEW u, Keeps(t, u), NEW key, key # "...", NEW tag, NEW value, Holds(t, key, tag, value)
  PROVE  Holds(u, key, tag, value)
BY DEF Keeps, Holds

LEMMA FitsDimKeeps ==
  ASSUME NEW t, NEW u, NEW q, NEW d, Keeps(t, u), q.kind = "sym" => q.name # "...", FitsDim(t, q, d)
  PROVE  FitsDim(u, q, d)
<1>1. CASE q.kind = "sym"
  <2>1. Holds(u, q.name, "Shape", d.dims[1].shape)
    BY <1>1, KeepsHolds DEF FitsDim
  <2> QED
    BY <1>1, <2>1 DEF FitsDim
<1>2. CASE q.kind # "sym"
  BY <1>2 DEF FitsDim
<1> QED
  BY <1>1, <1>2

LEMMA FitsDtypeKeeps ==
  ASSUME NEW t, NEW u, NEW q, NEW d, Keeps(t, u), q.kind = "typevar" => q.name # "...", FitsDtype(t, q, d)
  PROVE  FitsDtype(u, q, d)
<1>1. q.kind = "typevar" => Holds(u, q.name, "Type", d)
  BY KeepsHolds DEF FitsDtype
<1> QED
  BY <1>1, Zenon DEF FitsDtype

LEMMA FitsKeeps ==
  ASSUME NEW t, NEW u, NEW p, NEW c, IsPattern(p), Keeps(t, u), Fits(t, p, c)
  PROVE  Fits(u, p, c)
<1>1. ASSUME NEW k \in 1 .. Len(p.dims)
      PROVE  FitsDim(u, p.dims[k], From(c, k))
  <2>1. FitsDim(t, p.dims[k], From(c, k)) /\ (p.dims[k].kind = "sym" => p.dims[k].name # "...")
    BY DEF Fits, IsPattern
  <2> QED
    BY <2>1, FitsDimKeeps
<1>2. FitsDtype(u, p.dtype, From(c, Len(p.dims) + 1))
  <2>1. /\ FitsDtype(t, p.dtype, From(c, Len(p.dims) + 1))
        /\ p.dtype.kind = "typevar" => p.dtype.name # "..."
    BY DEF Fits, IsPattern
  <2> QED
    BY <2>1, FitsDtypeKeeps
<1> QED
  BY <1>1, <1>2 DEF Fits

\* A symbol that matching c with p adds.
Adds(u, p, c, key) ==
  \/ key \in DimNames(p) /\ u[key].tag = "Shape"
  \/ key \in TypeNames(p) /\ u[key] = [tag |-> "Type", value |-> From(c, Len(p.dims) + 1)]

LEMMA SymbolsNamed ==
  ASSUME NEW p, IsSeq(p.dims)
  PROVE  /\ \A k \in 1 .. Len(p.dims) : p.dims[k].kind = "sym" => p.dims[k].name \in DimNames(p)
         /\ \A key \in DimNames(p) : \E k \in 1 .. Len(p.dims) : p.dims[k].kind = "sym" /\ p.dims[k].name = key
         /\ TypeNames(p) = IF p.dtype.kind = "typevar" THEN {p.dtype.name} ELSE {}
<1>1. DOMAIN p.dims = 1 .. Len(p.dims)
  BY IsSeqProperties
<1> QED
  BY <1>1 DEF DimNames, TypeNames

\* What matching an argument without its ellipsis tells.
LEMMA MatchDatashapeSound ==
  ASSUME NEW t, NEW p, NEW c, NEW u
  PROVE  /\ IsTable(t) /\ IsPattern(p) /\ IsSeq(c.dims)
         /\ u = MatchDatashape(t, p, c) /\ u # NoMatch
         => /\ IsTable(u) /\ Extends(t, u) /\ Fits(u, p, c)
            /\ \A key \in DOMAIN u : key \in DOMAIN t \/ Adds(u, p, c, key)
<1>0. SUFFICES ASSUME IsTable(t), IsPattern(p), IsSeq(c.dims), u = MatchDatashape(t, p, c), u # NoMatch
               PROVE  /\ IsTable(u) /\ Extends(t, u) /\ Fits(u, p, c)
                      /\ \A key \in DOMAIN u : key \in DOMAIN t \/ Adds(u, p, c, key)
  OBVIOUS
<1> DEFINE N == Len(p.dims)
           d == From(c, N + 1)
<1>1. IsSeq(p.dims) /\ N \in Nat
  BY <1>0, IsSeqProperties DEF IsPattern
<1>2. PICK f : MatchedUp(t, p, c, f) /\ MatchDatashape(t, p, c) = MatchDtype(f[N], p.dtype, d)
  BY <1>1, MatchSteps, Zenon
<1>3. f[0] = t /\ \A k \in 1 .. N : f[k] = MatchDim(f[k - 1], p, c, k)
  BY <1>2 DEF MatchedUp
<1> HIDE DEF N, d
<1> DEFINE Loop(k) == /\ IsTable(f[k]) /\ Extends(t, f[k]) /\ k <= Len(c.dims)
                      /\ \A key \in DOMAIN f[k] :
                           key \in DOMAIN t \/ (key \in DimNames(p) /\ f[k][key].tag = "Shape")
                      /\ \A j \in 1 .. k : FitsDim(f[k], p.dims[j], From(c, j))
           S == {k \in Nat : k <= N => f[k] = NoMatch \/ Loop(k)}
<1>4. 0 \in S
  <2>1. Extends(t, t)
    BY DEF Extends
  <2>2. 0 <= Len(c.dims)
    BY <1>0, IsSeqProperties
  <2> QED
    BY <1>0, <1>3, <2>1, <2>2
<1>5. ASSUME NEW k \in Nat, k \in S
      PROVE  k + 1 \in S
  <2>1. SUFFICES ASSUME k + 1 <= N, f[k + 1] # NoMatch
                 PROVE  Loop(k + 1)
    OBVIOUS
  <2>2. f[k] = NoMatch \/ Loop(k)
    BY <1>1, <1>5, <2>1
  <2> HIDE DEF S
  <2>3. f[k + 1] = MatchDim(f[k], p, c, k + 1)
    BY <1>1, <1>3, <2>1
  <2> DEFINE q == p.dims[k + 1]
  <2>4. /\ IsTable(f[k]) /\ k + 1 <= Len(c.dims) /\ IsTable(f[k + 1]) /\ Extends(f[k], f[k + 1])
        /\ \A key \in DOMAIN f[k + 1] :
             key \in DOMAIN f[k] \/ (q.kind = "sym" /\ key = q.name /\ f[k + 1][key].tag = "Shape")
        /\ FitsDim(f[k + 1], q, From(c, k + 1))
    <3>1. f[k] = NoMatch \/ IsTable(f[k])
      BY <2>2
    <3>2. q.kind = "sym" => q.name # ""
      <4>1. k + 1 \in 1 .. Len(p.dims)
        BY <1>1, <2>1 DEF N
      <4> QED
        BY <1>0, <4>1 DEF IsPattern
    <3>3. k + 1 \in Nat /\ 1 <= k + 1 /\ IsSeq(c.dims)
      BY <1>0
    <3>4. PICK i, v, w, r : i = k + 1 /\ v = f[k] /\ w = f[k + 1] /\ r = q
      OBVIOUS
    <3>5. r = p.dims[i]
      BY <3>4
    <3> HIDE DEF q, Loop
    <3>6. /\ i \in Nat /\ 1 <= i /\ IsSeq(c.dims)
          /\ v = NoMatch \/ IsTable(v)
          /\ w = MatchDim(v, p, c, i) /\ r = p.dims[i]
          /\ r.kind = "sym" => r.name # ""
          /\ w # NoMatch
      BY <2>1, <2>3, <3>1, <3>2, <3>3, <3>4, <3>5
    <3>7. DimMatched(v, r, c, i, w)
      BY <3>6, MatchDimSound
    <3> QED
      BY <3>4, <3>7 DEF DimMatched
  <2>5. Loop(k)
    BY <2>2, <2>4, TablesMatch
  <2>6. Extends(t, f[k + 1])
    BY <2>4, <2>5, ExtendsTransitive
  <2>7. ASSUME NEW key \in DOMAIN f[k + 1]
        PROVE  key \in DOMAIN t \/ (key \in DimNames(p) /\ f[k + 1][key].tag = "Shape")
    <3>1. CASE key \in DOMAIN f[k]
      <4>1. f[k + 1][key] = f[k][key]
        BY <2>4, <3>1 DEF Extends
      <4> QED
        BY <2>5, <3>1, <4>1
    <3>2. CASE key \notin DOMAIN f[k]
      <4>1. q.kind = "sym" /\ key = q.name /\ f[k + 1][key].tag = "Shape"
        BY <2>4, <3>2
      <4>2. k + 1 \in 1 .. Len(p.dims)
        BY <1>1, <2>1 DEF N
      <4>3. key \in DimNames(p)
        BY <1>1, <4>1, <4>2, SymbolsNamed
      <4> QED
        BY <4>1, <4>3
    <3> QED
      BY <3>1, <3>2
  <2>8. ASSUME NEW j \in 1 .. k + 1
        PROVE  FitsDim(f[k + 1], p.dims[j], From(c, j))
    <3>1. CASE j = k + 1
      BY <2>4, <3>1
    <3>2. CASE j # k + 1
      <4>1. j \in 1 .. k
        BY <3>2
      <4>2. FitsDim(f[k], p.dims[j], From(c, j))
        BY <2>5, <4>1
      <4> QED
        BY <2>4, <4>2, FitsDimExtends
    <3> QED
      BY <3>1, <3>2
  <2> QED
    BY <2>4, <2>6, <2>7, <2>8
<1> HIDE DEF S
<1>6. N \in S
  BY <1>1, <1>4, <1>5, NatSetInduction
<1>7. f[N] = NoMatch \/ Loop(N)
  BY <1>1, <1>6 DEF S
<1>8. /\ IsTable(f[N]) /\ IsTable(u) /\ Extends(f[N], u)
      /\ \A key \in DOMAIN u :
           \/ key \in DOMAIN f[N]
           \/ p.dtype.kind = "typevar" /\ key = p.dtype.name /\ u[key] = [tag |-> "Type", value |-> d]
      /\ FitsDtype(u, p.dtype, d)
  <2>1. f[N] = NoMatch \/ IsTable(f[N])
    BY <1>7
  <2>2. p.dtype.kind \in {"any", "scalar", "typevar"} /\ (p.dtype.kind = "typevar" => p.dtype.name # "")
    BY <1>0 DEF IsPattern
  <2>3. u = MatchDtype(f[N], p.dtype, d) /\ u # NoMatch
    BY <1>0, <1>2
  <2> HIDE DEF Loop
  <2>4. PICK v, q : v = f[N] /\ q = p.dtype
    OBVIOUS
  <2>5. /\ v = NoMatch \/ IsTable(v)
        /\ q.kind \in {"any", "scalar", "typevar"} /\ (q.kind = "typevar" => q.name # "")
        /\ u = MatchDtype(v, q, d) /\ u # NoMatch
    BY <2>1, <2>2, <2>3, <2>4
  <2>6. DtypeMatched(v, q, d, u)
    BY <2>5, MatchDtypeSound
  <2> QED
    BY <2>4, <2>6 DEF DtypeMatched
<1>9. Loop(N)
  BY <1>7, <1>8, TablesMatch
<1>10. Extends(t, u)
  BY <1>8, <1>9, ExtendsTransitive
<1>11. Fits(u, p, c)
  <2>1. \A k \in 1 .. N : FitsDim(u, p.dims[k], From(c, k))
    BY <1>8, <1>9, FitsDimExtends
  <2>2. N <= Len(c.dims)
    BY <1>9
  <2> QED
    BY <1>8, <2>1, <2>2 DEF Fits, N, d
<1>12. ASSUME NEW key \in DOMAIN u
       PROVE  key \in DOMAIN t \/ Adds(u, p, c, key)
  <2>1. CASE key \in DOMAIN f[N]
    <3>1. u[key] = f[N][key]
      BY <1>8, <2>1 DEF Extends
    <3>2. key \in DOMAIN t \/ (key \in DimNames(p) /\ u[key].tag = "Shape")
      BY <1>9, <2>1, <3>1
    <3> QED
      BY <3>2 DEF Adds
  <2>2. CASE key \notin DOMAIN f[N]
    <3>1. p.dtype.kind = "typevar" /\ key = p.dtype.name /\ u[key] = [tag |-> "Type", value |-> d]
      BY <1>8, <2>2
    <3>2. key \in TypeNames(p)
      BY <3>1 DEF TypeNames
    <3> QED
      BY <3>1, <3>2 DEF Adds, d, N
  <2> QED
    BY <2>1, <2>2
<1> QED
  BY <1>8, <1>10, <1>11, <1>12

\* The same with the values b of the symbols.
DenotesRest(b, p, c) ==
  /\ Len(p.dims) <= Len(c.dims)
  /\ \A k \in 1 .. Len(p.dims) : DenotesDim(b, p.dims[k], From(c, k))
  /\ DenotesDtype(b, p.dtype, From(c, Len(p.dims) + 1))

\* The symbols of p that are in the table t have the values of b.
Knows(t, p, b) ==
  \A key \in DOMAIN t :
    /\ key \in DimNames(p) => Holds(t, key, "Shape", b[key])
    /\ key \in TypeNames(p) => Holds(t, key, "Type", b[key])

LEMMA FitsDimAgrees ==
  ASSUME NEW u, NEW q, NEW d, NEW b, FitsDim(u, q, d), DenotesDim(b, q, d), q.kind = "sym"
  PROVE  Holds(u, q.name, "Shape", b[q.name])
<1>1. d.dims[1].shape = b[q.name]
  BY DEF DenotesDim
<1>2. Holds(u, q.name, "Shape", d.dims[1].shape)
  BY DEF FitsDim
<1> QED
  BY <1>1, <1>2

\* If some values of the symbols fit, matching succeeds.
LEMMA MatchDatashapeComplete ==
  ASSUME NEW t, NEW p, NEW c, NEW b
  PROVE  /\ IsTable(t) /\ IsPattern(p) /\ DimNames(p) \cap TypeNames(p) = {} /\ IsSeq(c.dims)
         /\ DenotesRest(b, p, c) /\ Knows(t, p, b)
         => MatchDatashape(t, p, c) # NoMatch
<1>0. SUFFICES ASSUME IsTable(t), IsPattern(p), DimNames(p) \cap TypeNames(p) = {}, IsSeq(c.dims),
                      DenotesRest(b, p, c), Knows(t, p, b)
               PROVE  MatchDatashape(t, p, c) # NoMatch
  OBVIOUS
<1> DEFINE N == Len(p.dims)
           d == From(c, N + 1)
<1>1. IsSeq(p.dims) /\ N \in Nat /\ Len(c.dims) \in Nat
  BY <1>0, IsSeqProperties DEF IsPattern
<1>2. PICK f : MatchedUp(t, p, c, f) /\ MatchDatashape(t, p, c) = MatchDtype(f[N], p.dtype, d)
  BY <1>1, MatchSteps, Zenon
<1>3. f[0] = t /\ \A k \in 1 .. N : f[k] = MatchDim(f[k - 1], p, c, k)
  BY <1>2 DEF MatchedUp
<1>4. /\ N <= Len(c.dims) /\ DenotesDtype(b, p.dtype, d)
      /\ \A k \in 1 .. N : DenotesDim(b, p.dims[k], From(c, k))
  BY <1>0 DEF DenotesRest
<1>5. /\ \A k \in 1 .. N : p.dims[k].kind = "sym" => p.dims[k].name \in DimNames(p) /\ p.dims[k].name # ""
      /\ TypeNames(p) = IF p.dtype.kind = "typevar" THEN {p.dtype.name} ELSE {}
  BY <1>0, <1>1, SymbolsNamed DEF IsPattern
<1> HIDE DEF N, d
<1> DEFINE S == {k \in Nat : k <= N => IsTable(f[k]) /\ Knows(f[k], p, b)}
<1>6. 0 \in S
  BY <1>0, <1>3
<1>7. ASSUME NEW k \in Nat, k \in S
      PROVE  k + 1 \in S
  <2>1. SUFFICES ASSUME k + 1 <= N
                 PROVE  IsTable(f[k + 1]) /\ Knows(f[k + 1], p, b)
    OBVIOUS
  <2>2. IsTable(f[k]) /\ Knows(f[k], p, b)
    BY <1>1, <1>7, <2>1
  <2> HIDE DEF S
  <2>3. PICK i, v, w, q : i = k + 1 /\ v = f[k] /\ w = f[k + 1] /\ q = p.dims[i]
    OBVIOUS
  <2>4. i \in 1 .. N /\ i \in Nat /\ 1 <= i /\ i <= Len(c.dims) /\ i - 1 = k
    BY <1>1, <1>4, <2>1, <2>3
  <2>5. IsTable(v) /\ Knows(v, p, b) /\ w = MatchDim(v, p, c, i)
    BY <1>3, <2>2, <2>3, <2>4
  <2>6. q.kind = "sym" => q.name \in DimNames(p) /\ q.name # ""
    BY <1>5, <2>3, <2>4
  <2>7. DenotesDim(b, q, From(c, i))
    BY <1>4, <2>3, <2>4
  <2>8. q.kind = "sym" => q.name # "" /\ (q.name \in DOMAIN v => Holds(v, q.name, "Shape", b[q.name]))
    BY <2>5, <2>6 DEF Knows
  <2>9. w # NoMatch
    BY <1>0, <2>3, <2>4, <2>5, <2>7, <2>8, MatchDimComplete
  <2>10. DimMatched(v, q, c, i, w)
    BY <1>0, <2>3, <2>4, <2>5, <2>8, <2>9, MatchDimSound
  <2>11. /\ IsTable(w) /\ Extends(v, w) /\ FitsDim(w, q, From(c, i))
         /\ \A key \in DOMAIN w : key \in DOMAIN v \/ (q.kind = "sym" /\ key = q.name)
    BY <2>10 DEF DimMatched
  <2>12. ASSUME NEW key \in DOMAIN w
         PROVE  /\ key \in DimNames(p) => Holds(w, key, "Shape", b[key])
                /\ key \in TypeNames(p) => Holds(w, key, "Type", b[key])
    <3>1. CASE key \in DOMAIN v
      <4>1. /\ key \in DimNames(p) => Holds(v, key, "Shape", b[key])
            /\ key \in TypeNames(p) => Holds(v, key, "Type", b[key])
        BY <2>5, <3>1 DEF Knows
      <4> QED
        BY <2>11, <4>1, ExtendsHolds
    <3>2. CASE key \notin DOMAIN v
      <4>1. q.kind = "sym" /\ key = q.name
        BY <2>11, <3>2
      <4>2. Holds(w, key, "Shape", b[key])
        BY <2>7, <2>11, <4>1, FitsDimAgrees
      <4>3. key \notin TypeNames(p)
        BY <1>0, <2>6, <4>1
      <4> QED
        BY <4>2, <4>3
    <3> QED
      BY <3>1, <3>2
  <2> QED
    BY <2>3, <2>11, <2>12 DEF Knows
<1> HIDE DEF S
<1>8. N \in S
  BY <1>1, <1>6, <1>7, NatSetInduction
<1>9. IsTable(f[N]) /\ Knows(f[N], p, b)
  BY <1>1, <1>8 DEF S
<1>10. PICK v, q : v = f[N] /\ q = p.dtype
  OBVIOUS
<1>11. q.kind = "typevar" => q.name # "" /\ (q.name \in DOMAIN v => Holds(v, q.name, "Type", b[q.name]))
  <2>1. q.kind = "typevar" => q.name # "" /\ q.name \in TypeNames(p)
    BY <1>0, <1>5, <1>10 DEF IsPattern
  <2> QED
    BY <1>9, <1>10, <2>1 DEF Knows
<1>12. q.kind \in {"any", "scalar", "typevar"}
  BY <1>0, <1>10 DEF IsPattern
<1>13. MatchDtype(v, q, d) # NoMatch
  <2>1. IsTable(v) /\ DenotesDtype(b, q, d)
    BY <1>4, <1>9, <1>10
  <2> QED
    BY <1>11, <1>12, <2>1, MatchDtypeComplete
<1> QED
  BY <1>2, <1>10, <1>13

-----------------------------------------------------------------------------
(***************************************************************************)
(* Ellipses.                                                               *)
(***************************************************************************)
\* The shape of what the ellipsis of p takes from c.
OuterOf(p, c) == Shape(SubSeq(c.dims, 1, Taken(p, c)))

LEMMA OuterOfProperties ==
  ASSUME NEW p, NEW c, IsSeq(p.dims), IsSeq(c.dims), Taken(p, c) >= 0
  PROVE  /\ Taken(p, c) \in Nat /\ Taken(p, c) + Len(p.dims) = Len(c.dims)
         /\ IsSeq(OuterOf(p, c)) /\ Len(OuterOf(p, c)) = Taken(p, c)
         /\ \A k \in 1 .. Taken(p, c) : OuterOf(p, c)[k] = c.dims[k].shape
<1> DEFINE n == Taken(p, c)
           s == SubSeq(c.dims, 1, n)
<1>1. Len(p.dims) \in Nat /\ Len(c.dims) \in Nat
  BY IsSeqProperties
<1>2. n \in Nat /\ n + Len(p.dims) = Len(c.dims)
  BY <1>1 DEF Taken
<1> HIDE DEF n
<1>3. IsSeq(s) /\ Len(s) = n /\ \A k \in 1 .. n : s[k] = c.dims[k]
  <2>1. 1 \in Int /\ n \in Int /\ 1 <= 1 /\ n <= Len(c.dims) /\ 1 <= n + 1
    BY <1>1, <1>2
  <2>2. IsSeq(s) /\ Len(s) = n - 1 + 1 /\ \A k \in 1 .. n - 1 + 1 : s[k] = c.dims[1 + k - 1]
    BY <2>1, SubSeqIsSeq
  <2>3. n - 1 + 1 = n /\ \A k \in 1 .. n : 1 + k - 1 = k
    BY <1>2
  <2> HIDE DEF s
  <2> QED
    BY <2>2, <2>3
<1>4. OuterOf(p, c) = Shape(s)
  BY DEF OuterOf, n
<1> HIDE DEF s
<1>5. DOMAIN s = 1 .. n
  BY <1>3, IsSeqProperties
<1>6. Shape(s) = [k \in 1 .. n |-> s[k].shape]
  BY <1>5 DEF Shape
<1>7. \A k \in 1 .. n : Shape(s)[k] = c.dims[k].shape
  BY <1>3, <1>6
<1>8. IsSeq(Shape(s)) /\ Len(Shape(s)) = n
  <2>1. PICK v : v = Shape(s)
    OBVIOUS
  <2>2. v = [k \in 1 .. n |-> v[k]]
    BY <1>6, <2>1
  <2>3. IsSeq(v) /\ Len(v) = n
    BY <1>2, <2>2, FunctionIsSeq, Zenon
  <2> QED
    BY <2>1, <2>3
<1> QED
  BY <1>2, <1>4, <1>7, <1>8 DEF n

\* The argument c is what p stands for, as far as u knows.
ArgFits(u, p, c) ==
  IF p.ell = "none" THEN Fits(u, p, c)
  ELSE /\ Ordered(p.order, c) /\ CanTake(p, c) /\ Fits(u, p, From(c, Taken(p, c) + 1))
       /\ p.ell = "array" => Holds(u, "array", "ArraySeq", Taken(p, c))
       /\ p.ell \notin {"...", "array"} => Holds(u, p.ell, "FixedSeq", OuterOf(p, c))

LEMMA BindingOfSymbol ==
  ASSUME NEW u, NEW key, NEW value, Holds(u, key, "Shape", value) \/ Holds(u, key, "Type", value)
  PROVE  BindingOf(u)[key] = value
<1>1. key \in DOMAIN u /\ u[key].tag \in {"Shape", "Type"} /\ u[key].value = value
  BY DEF Holds
<1> QED
  BY <1>1 DEF BindingOf

LEMMA BindingOfFixed ==
  ASSUME NEW u, NEW key, NEW value, Holds(u, key, "FixedSeq", value)
  PROVE  BindingOf(u)[key] = [i \in DOMAIN value |-> <<value[i]>>]
<1>1. key \in DOMAIN u /\ u[key].tag = "FixedSeq" /\ u[key].value = value
  BY DEF Holds
<1> QED
  BY <1>1 DEF BindingOf

LEMMA BindingOfArray ==
  ASSUME NEW u, NEW key, NEW value, Holds(u, key, "ArraySeq", value)
  PROVE  BindingOf(u)[key] = [i \in 1 .. value |-> <<>>]
<1>1. key \in DOMAIN u /\ u[key].tag = "ArraySeq" /\ u[key].value = value
  BY DEF Holds
<1> QED
  BY <1>1 DEF BindingOf

\* What an ellipsis stands for, in the two forms that a table has.
LEMMA OuterFixed ==
  ASSUME NEW p, NEW c, IsSeq(p.dims), IsSeq(c.dims), CanTake(p, c), p.ell \notin {"var", "array"}
  PROVE  Outer(c, Taken(p, c)) = [k \in 1 .. Taken(p, c) |-> <<c.dims[k].shape>>]
<1>1. \A k \in 1 .. Taken(p, c) : c.dims[k].kind = "fixed"
  BY DEF CanTake, EllipsisKind
<1> QED
  BY <1>1 DEF Outer

LEMMA OuterArray ==
  ASSUME NEW p, NEW c, IsSeq(p.dims), IsSeq(c.dims), CanTake(p, c), p.ell = "array"
  PROVE  Outer(c, Taken(p, c)) = [k \in 1 .. Taken(p, c) |-> <<>>]
<1>1. \A k \in 1 .. Taken(p, c) : c.dims[k].kind = "array"
  BY DEF CanTake, EllipsisKind
<1> QED
  BY <1>1 DEF Outer

\* Denotes, with what the ellipsis takes set apart.
DenotesParts(b, p, c) ==
  IF p.ell = "none" THEN DenotesRest(b, p, c)
  ELSE /\ Ordered(p.order, c) /\ CanTake(p, c) /\ DenotesRest(b, p, From(c, Taken(p, c) + 1))
       /\ p.ell # "..." => b[p.ell] = Outer(c, Taken(p, c))

LEMMA DenotesSplit ==
  ASSUME NEW b, NEW p, NEW c, IsSeq(p.dims), IsSeq(c.dims)
  PROVE  Denotes(b, p, c) <=> DenotesParts(b, p, c)
<1>1. Len(p.dims) \in Nat /\ Len(c.dims) \in Nat /\ DOMAIN p.dims = 1 .. Len(p.dims)
  BY IsSeqProperties
<1>2. CASE p.ell = "none"
  <2>1. Denotes(b, p, c) <=>
          /\ Len(c.dims) >= 0 + Len(p.dims)
          /\ \A i \in 1 .. Len(p.dims) : DenotesDim(b, p.dims[i], From(c, 0 + i))
          /\ DenotesDtype(b, p.dtype, From(c, 0 + Len(p.dims) + 1))
    BY <1>1, <1>2 DEF Denotes
  <2>2. \A i \in 1 .. Len(p.dims) : 0 + i = i
    OBVIOUS
  <2>3. 0 + Len(p.dims) + 1 = Len(p.dims) + 1 /\ (Len(c.dims) >= 0 + Len(p.dims) <=> Len(p.dims) <= Len(c.dims))
    BY <1>1
  <2>4. (\A i \in 1 .. Len(p.dims) : DenotesDim(b, p.dims[i], From(c, 0 + i)))
          <=> (\A i \in 1 .. Len(p.dims) : DenotesDim(b, p.dims[i], From(c, i)))
    BY <2>2
  <2>5. Denotes(b, p, c) <=> DenotesRest(b, p, c)
    BY <2>1, <2>3, <2>4 DEF DenotesRest
  <2> QED
    BY <1>2, <2>5 DEF DenotesParts
<1>3. CASE p.ell # "none"
  <2> DEFINE n == Taken(p, c)
             d == From(c, n + 1)
  <2>1. Denotes(b, p, c) <=>
          /\ Len(c.dims) >= n + Len(p.dims) /\ n >= 0
          /\ Ordered(p.order, c) /\ \A i \in 1 .. n : c.dims[i].kind = EllipsisKind(p.ell)
          /\ p.ell # "..." => b[p.ell] = Outer(c, n)
          /\ \A i \in 1 .. Len(p.dims) : DenotesDim(b, p.dims[i], From(c, n + i))
          /\ DenotesDtype(b, p.dtype, From(c, n + Len(p.dims) + 1))
    BY <1>1, <1>3 DEF Denotes
  <2>2. CanTake(p, c) <=> n >= 0 /\ \A i \in 1 .. n : c.dims[i].kind = EllipsisKind(p.ell)
    BY DEF CanTake
  <2>3. CASE n >= 0
    <3>1. n \in Nat /\ n + Len(p.dims) = Len(c.dims) /\ Len(c.dims) >= n + Len(p.dims)
      BY <1>1, <2>3 DEF Taken
    <3> HIDE DEF n
    <3>2. Len(d.dims) = Len(p.dims)
      <4>1. n + 1 \in Nat /\ 1 <= n + 1 /\ n + 1 <= Len(c.dims) + 1
        BY <1>1, <3>1
      <4>2. Len(d.dims) = Len(c.dims) - (n + 1) + 1
        BY <4>1, FromProperties
      <4> QED
        BY <1>1, <3>1, <4>2
    <3>3. ASSUME NEW i \in 1 .. Len(p.dims) + 1
          PROVE  From(d, i) = From(c, n + i)
      <4>1. /\ n + 1 \in Nat /\ 1 <= n + 1 /\ n + 1 <= Len(c.dims) + 1
            /\ i \in Nat /\ 1 <= i /\ i <= Len(c.dims) - (n + 1) + 2
        BY <1>1, <3>1
      <4>2. From(d, i) = From(c, (n + 1) + i - 1)
        BY <4>1, FromFrom
      <4>3. (n + 1) + i - 1 = n + i
        BY <3>1
      <4> QED
        BY <4>2, <4>3
    <3> HIDE DEF d
    <3>4. (\A i \in 1 .. Len(p.dims) : DenotesDim(b, p.dims[i], From(c, n + i)))
            <=> (\A i \in 1 .. Len(p.dims) : DenotesDim(b, p.dims[i], From(d, i)))
      <4>1. \A i \in 1 .. Len(p.dims) : i \in 1 .. Len(p.dims) + 1
        BY <1>1
      <4>2. \A i \in 1 .. Len(p.dims) : From(d, i) = From(c, n + i)
        BY <3>3, <4>1
      <4> QED
        BY <4>2
    <3>5. DenotesDtype(b, p.dtype, From(c, n + Len(p.dims) + 1)) <=> DenotesDtype(b, p.dtype, From(d, Len(p.dims) + 1))
      <4>1. Len(p.dims) + 1 \in 1 .. Len(p.dims) + 1 /\ n + Len(p.dims) + 1 = n + (Len(p.dims) + 1)
        BY <1>1, <3>1
      <4> QED
        BY <3>3, <4>1
    <3>6. DenotesRest(b, p, d) <=>
            /\ \A i \in 1 .. Len(p.dims) : DenotesDim(b, p.dims[i], From(d, i))
            /\ DenotesDtype(b, p.dtype, From(d, Len(p.dims) + 1))
      BY <1>1, <3>2 DEF DenotesRest
    <3>7. DenotesParts(b, p, c) <=>
            /\ Ordered(p.order, c) /\ CanTake(p, c) /\ DenotesRest(b, p, d)
            /\ p.ell # "..." => b[p.ell] = Outer(c, n)
      BY <1>3 DEF DenotesParts, n, d
    <3> QED
      BY <2>1, <2>2, <2>3, <3>1, <3>4, <3>5, <3>6, <3>7, Zenon
  <2>4. CASE ~(n >= 0)
    <3>1. ~CanTake(p, c)
      BY <2>2, <2>4
    <3> QED
      BY <1>3, <2>1, <2>4, <3>1 DEF DenotesParts
  <2> QED
    BY <2>3, <2>4
<1> QED
  BY <1>2, <1>3

\* What fits as far as a table knows is denoted with the values in the table.
LEMMA FitsDenotes ==
  ASSUME NEW u, NEW p, NEW c, IsPattern(p), Fits(u, p, c)
  PROVE  DenotesRest(BindingOf(u), p, c)
<1>1. ASSUME NEW k \in 1 .. Len(p.dims)
      PROVE  DenotesDim(BindingOf(u), p.dims[k], From(c, k))
  <2>1. PICK q, d : q = p.dims[k] /\ d = From(c, k) /\ FitsDim(u, q, d)
    BY DEF Fits
  <2>2. CASE q.kind = "sym"
    <3>1. Holds(u, q.name, "Shape", d.dims[1].shape)
      BY <2>1, <2>2 DEF FitsDim
    <3>2. BindingOf(u)[q.name] = d.dims[1].shape
      BY <3>1, BindingOfSymbol
    <3>3. DenotesDim(BindingOf(u), q, d)
      BY <2>1, <2>2, <3>2 DEF FitsDim, DenotesDim
    <3> QED
      BY <2>1, <3>3
  <2>3. CASE q.kind # "sym"
    <3>1. DenotesDim(BindingOf(u), q, d)
      BY <2>1, <2>3 DEF FitsDim, DenotesDim
    <3> QED
      BY <2>1, <3>1
  <2> QED
    BY <2>2, <2>3
<1>2. DenotesDtype(BindingOf(u), p.dtype, From(c, Len(p.dims) + 1))
  <2>1. PICK q, d : q = p.dtype /\ d = From(c, Len(p.dims) + 1) /\ FitsDtype(u, q, d)
    BY DEF Fits
  <2>2. q.kind = "typevar" => d = BindingOf(u)[q.name]
    <3>1. q.kind = "typevar" => Holds(u, q.name, "Type", d)
      BY <2>1 DEF FitsDtype
    <3>2. Holds(u, q.name, "Type", d) => BindingOf(u)[q.name] = d
      BY BindingOfSymbol
    <3> QED
      BY <3>1, <3>2
  <2>3. DenotesDtype(BindingOf(u), q, d)
    BY <2>1, <2>2, Zenon DEF FitsDtype, DenotesDtype
  <2> QED
    BY <2>1, <2>3
<1> QED
  BY <1>1, <1>2 DEF DenotesRest, Fits

LEMMA ArgFitsDenotes ==
  ASSUME NEW u, NEW p, NEW c, IsPattern(p), IsSeq(c.dims), p.ell # "var", ArgFits(u, p, c)
  PROVE  Denotes(BindingOf(u), p, c)
<1>1. IsSeq(p.dims)
  BY DEF IsPattern
<1>2. CASE p.ell = "none"
  <2>1. DenotesRest(BindingOf(u), p, c)
    BY <1>2, FitsDenotes DEF ArgFits
  <2>2. DenotesParts(BindingOf(u), p, c)
    BY <1>2, <2>1 DEF DenotesParts
  <2> QED
    BY <1>1, <2>2, DenotesSplit
<1>3. CASE p.ell # "none"
  <2> DEFINE n == Taken(p, c)
             d == From(c, n + 1)
  <2>1. Ordered(p.order, c) /\ CanTake(p, c) /\ Fits(u, p, d)
    BY <1>3 DEF ArgFits
  <2>2. DenotesRest(BindingOf(u), p, d)
    <3> HIDE DEF d
    <3> QED
      BY <2>1, FitsDenotes
  <2>3. ASSUME p.ell # "..."
        PROVE  BindingOf(u)[p.ell] = Outer(c, n)
    <3>1. CASE p.ell = "array"
      <4>1. Holds(u, "array", "ArraySeq", n)
        BY <1>3, <3>1 DEF ArgFits
      <4>2. BindingOf(u)["array"] = [k \in 1 .. n |-> <<>>]
        BY <4>1, BindingOfArray
      <4> QED
        BY <1>1, <2>1, <3>1, <4>2, OuterArray
    <3>2. CASE p.ell # "array"
      <4>1. Holds(u, p.ell, "FixedSeq", OuterOf(p, c))
        BY <1>3, <2>3, <3>2 DEF ArgFits
      <4>2. PICK v : v = OuterOf(p, c)
        OBVIOUS
      <4>3. BindingOf(u)[p.ell] = [k \in DOMAIN v |-> <<v[k]>>]
        BY <4>1, <4>2, BindingOfFixed
      <4>4. DOMAIN v = 1 .. n /\ \A k \in 1 .. n : v[k] = c.dims[k].shape
        <5>1. n >= 0
          BY <2>1 DEF CanTake
        <5>2. IsSeq(v) /\ Len(v) = n /\ \A k \in 1 .. n : v[k] = c.dims[k].shape
          BY <1>1, <4>2, <5>1, OuterOfProperties
        <5> QED
          BY <5>2, IsSeqProperties
      <4>5. BindingOf(u)[p.ell] = [k \in 1 .. n |-> <<c.dims[k].shape>>]
        BY <4>3, <4>4
      <4> QED
        BY <1>1, <2>1, <3>2, <4>5, OuterFixed
    <3> QED
      BY <3>1, <3>2
  <2>4. DenotesParts(BindingOf(u), p, c)
    BY <1>3, <2>1, <2>2, <2>3 DEF DenotesParts
  <2> QED
    BY <1>1, <2>4, DenotesSplit
<1> QED
  BY <1>2, <1>3

\* A pattern whose ellipsis is no other symbol; ragged arguments are left out.
IsTypePattern(p) ==
  /\ IsPattern(p) /\ DimNames(p) \cap TypeNames(p) = {}
  /\ p.ell \notin {"", "var"} /\ p.ell \notin DimNames(p) \cup TypeNames(p)

LEMMA NotTheCommonShape ==
  ASSUME NEW p, IsPattern(p)
  PROVE  "..." \notin DimNames(p) \cup TypeNames(p)
<1>1. IsSeq(p.dims)
  BY DEF IsPattern
<1>2. ASSUME NEW key \in DimNames(p)
      PROVE  key # "..."
  <2>1. PICK k \in 1 .. Len(p.dims) : p.dims[k].kind = "sym" /\ p.dims[k].name = key
    BY <1>1, SymbolsNamed
  <2> QED
    BY <2>1 DEF IsPattern
<1>3. "..." \notin TypeNames(p)
  BY DEF TypeNames, IsPattern
<1> QED
  BY <1>2, <1>3

\* What the ellipsis leaves of c.
Rest(p, c) == IF p.ell = "none" THEN c ELSE From(c, Taken(p, c) + 1)

\* What matching c with p makes of the table t.
ArgMatched(t, p, c, u) ==
  /\ IsTable(u) /\ Keeps(t, u) /\ ArgFits(u, p, c)
  /\ \A key \in DOMAIN u : key \in DOMAIN t \/ Adds(u, p, Rest(p, c), key) \/ (key = p.ell /\ p.ell # "none")
  /\ p.ell = "..." =>
       /\ "..." \in DOMAIN u
       /\ IF "..." \in DOMAIN t
          THEN /\ Resolve(t["..."].value, OuterOf(p, c)) # NoShape
               /\ u["..."].value = Resolve(t["..."].value, OuterOf(p, c))
          ELSE u["..."].value = OuterOf(p, c)

LEMMA ResolveBroadcastSound ==
  ASSUME NEW t, NEW shape, NEW u, IsTable(t), u = ResolveBroadcast(t, shape), u # NoMatch
  PROVE  /\ IsTable(u) /\ Keeps(t, u) /\ DOMAIN u = DOMAIN t \cup {"..."}
         /\ IF "..." \in DOMAIN t
            THEN /\ Resolve(t["..."].value, shape) # NoShape
                 /\ u["..."].value = Resolve(t["..."].value, shape)
            ELSE u["..."].value = shape
<1>1. PICK value, entry :
        /\ entry = [tag |-> "BroadcastSeq", value |-> value] /\ u = Bind(t, "...", entry)
        /\ IF "..." \in DOMAIN t
           THEN Resolve(t["..."].value, shape) # NoShape /\ value = Resolve(t["..."].value, shape)
           ELSE value = shape
  <2>1. CASE "..." \notin DOMAIN t
    BY <2>1 DEF ResolveBroadcast
  <2>2. CASE "..." \in DOMAIN t
    <3>1. PICK w : w = Resolve(t["..."].value, shape)
      OBVIOUS
    <3>2. w # NoShape /\ u = Bind(t, "...", [tag |-> "BroadcastSeq", value |-> w])
      BY <2>2, <3>1 DEF ResolveBroadcast
    <3> QED
      BY <2>2, <3>1, <3>2
  <2> QED
    BY <2>1, <2>2
<1>2. entry.value = value
  BY <1>1
<1>3. DOMAIN u = DOMAIN t \cup {"..."} /\ u["..."] = entry /\ \A key \in DOMAIN t : key # "..." => u[key] = t[key]
  BY <1>1 DEF Bind
<1>4. IsTable(u) /\ Keeps(t, u)
  BY <1>3 DEF IsTable, Keeps
<1> QED
  BY <1>1, <1>2, <1>3, <1>4

LEMMA MatchSound ==
  ASSUME NEW t, NEW p, NEW c, NEW u
  PROVE  /\ IsTable(t) /\ IsTypePattern(p) /\ IsSeq(c.dims)
         /\ u \in Match(t, p, c) /\ u # NoMatch
         => ArgMatched(t, p, c, u)
<1>0. SUFFICES ASSUME IsTable(t), IsTypePattern(p), IsSeq(c.dims), u \in Match(t, p, c), u # NoMatch
               PROVE  ArgMatched(t, p, c, u)
  OBVIOUS
<1>1. IsPattern(p) /\ IsSeq(p.dims)
  BY <1>0 DEF IsTypePattern, IsPattern
<1>2. CASE p.ell = "none"
  <2>1. u = MatchDatashape(t, p, c)
    BY <1>0, <1>2 DEF Match
  <2>2. /\ IsTable(u) /\ Extends(t, u) /\ Fits(u, p, c)
        /\ \A key \in DOMAIN u : key \in DOMAIN t \/ Adds(u, p, c, key)
    BY <1>0, <1>1, <2>1, MatchDatashapeSound
  <2>3. Keeps(t, u)
    BY <2>2 DEF Extends, Keeps
  <2>4. ArgFits(u, p, c) /\ Rest(p, c) = c
    BY <1>2, <2>2 DEF ArgFits, Rest
  <2> QED
    BY <1>2, <2>2, <2>3, <2>4 DEF ArgMatched
<1>3. CASE p.ell # "none"
  <2>1. PICK n, d, v : n = Taken(p, c) /\ d = From(c, n + 1) /\ v = MatchDatashape(t, p, d)
    OBVIOUS
  <2>2. Ordered(p.order, c) /\ CanTake(p, c) /\ u \in ResolveEllipsis(v, p, c)
    BY <1>0, <1>3, <2>1 DEF Match
  <2>3. v # NoMatch
    BY <1>0, <2>2 DEF ResolveEllipsis
  <2>4. n \in Nat /\ n + 1 <= Len(c.dims) + 1
    <3>1. Taken(p, c) >= 0
      BY <2>2 DEF CanTake
    <3>2. Len(p.dims) \in Nat /\ Len(c.dims) \in Nat
      BY <1>0, <1>1, IsSeqProperties
    <3>3. n \in Nat /\ n + Len(p.dims) = Len(c.dims)
      BY <1>0, <1>1, <2>1, <3>1, OuterOfProperties
    <3> QED
      BY <3>2, <3>3
  <2>5. IsSeq(d.dims)
    <3>1. n + 1 \in Nat /\ 1 <= n + 1 /\ n + 1 <= Len(c.dims) + 1
      BY <2>4
    <3> QED
      BY <1>0, <2>1, <3>1, FromProperties
  <2>6. /\ IsTable(v) /\ Extends(t, v) /\ Fits(v, p, d)
        /\ \A key \in DOMAIN v : key \in DOMAIN t \/ Adds(v, p, d, key)
    BY <1>0, <1>1, <2>1, <2>3, <2>5, MatchDatashapeSound
  <2>7. Rest(p, c) = d
    BY <1>3, <2>1 DEF Rest
  <2>8. "..." \notin DimNames(p) \cup TypeNames(p)
    BY <1>1, NotTheCommonShape
  <2>9. ASSUME IsTable(u), Keeps(v, u), DOMAIN u = DOMAIN v \cup {p.ell},
               p.ell = "array" => Holds(u, "array", "ArraySeq", n),
               p.ell \notin {"...", "array"} => Holds(u, p.ell, "FixedSeq", OuterOf(p, c)),
               p.ell = "..." =>
                 IF "..." \in DOMAIN v
                 THEN /\ Resolve(v["..."].value, OuterOf(p, c)) # NoShape
                      /\ u["..."].value = Resolve(v["..."].value, OuterOf(p, c))
                 ELSE u["..."].value = OuterOf(p, c)
        PROVE  ArgMatched(t, p, c, u)
    <3>1. Keeps(t, u)
      BY <2>6, <2>9 DEF Extends, Keeps
    <3>2. Fits(u, p, d)
      BY <1>1, <2>6, <2>9, FitsKeeps
    <3>3. ArgFits(u, p, c)
      BY <1>3, <2>1, <2>2, <2>9, <3>2 DEF ArgFits
    <3>4. ASSUME NEW key \in DOMAIN u
          PROVE  key \in DOMAIN t \/ Adds(u, p, d, key) \/ (key = p.ell /\ p.ell # "none")
      <4>1. CASE key \in DOMAIN v /\ key \notin DOMAIN t
        <5>1. Adds(v, p, d, key)
          BY <2>6, <4>1
        <5>2. key # "..."
          BY <2>8, <5>1 DEF Adds
        <5>3. u[key] = v[key]
          BY <2>9, <4>1, <5>2 DEF Keeps
        <5>4. Adds(u, p, d, key)
          BY <5>1, <5>3 DEF Adds
        <5> QED
          BY <5>4
      <4> QED
        BY <1>3, <2>9, <4>1
    <3>5. "..." \in DOMAIN v <=> "..." \in DOMAIN t
      <4>1. "..." \in DOMAIN t => "..." \in DOMAIN v
        BY <2>6 DEF Extends
      <4>2. ~Adds(v, p, d, "...")
        BY <2>8 DEF Adds
      <4> QED
        BY <2>6, <4>1, <4>2
    <3>6. "..." \in DOMAIN t => v["..."] = t["..."]
      BY <2>6 DEF Extends
    <3>7. p.ell = "..." =>
            /\ "..." \in DOMAIN u
            /\ IF "..." \in DOMAIN t
               THEN /\ Resolve(t["..."].value, OuterOf(p, c)) # NoShape
                    /\ u["..."].value = Resolve(t["..."].value, OuterOf(p, c))
               ELSE u["..."].value = OuterOf(p, c)
      BY <2>9, <3>5, <3>6
    <3> QED
      BY <2>7, <2>9, <3>1, <3>3, <3>4, <3>7 DEF ArgMatched
  <2>10. CASE p.ell = "..."
    <3>1. u = ResolveBroadcast(v, OuterOf(p, c))
      BY <2>2, <2>3, <2>10 DEF ResolveEllipsis, OuterOf
    <3>2. /\ IsTable(u) /\ Keeps(v, u) /\ DOMAIN u = DOMAIN v \cup {"..."}
          /\ IF "..." \in DOMAIN v
             THEN /\ Resolve(v["..."].value, OuterOf(p, c)) # NoShape
                  /\ u["..."].value = Resolve(v["..."].value, OuterOf(p, c))
             ELSE u["..."].value = OuterOf(p, c)
      BY <1>0, <2>6, <3>1, ResolveBroadcastSound
    <3> QED
      BY <2>9, <2>10, <3>2
  <2>11. CASE p.ell = "array"
    <3>1. PICK entry : entry = [tag |-> "ArraySeq", value |-> n]
      OBVIOUS
    <3>2. entry.tag = "ArraySeq" /\ entry.value = n
      BY <3>1
    <3>3. u = ResolveSymbol(v, "array", entry)
      BY <2>1, <2>2, <2>3, <2>11, <3>1 DEF ResolveEllipsis, ResolveArray
    <3>4. IsTable(u) /\ Extends(v, u) /\ DOMAIN u = DOMAIN v \cup {"array"} /\ Holds(u, "array", entry.tag, entry.value)
      BY <1>0, <2>6, <3>3, ResolveSymbolSound
    <3>5. Keeps(v, u)
      BY <3>4 DEF Extends, Keeps
    <3>6. Holds(u, "array", "ArraySeq", n)
      BY <3>2, <3>4
    <3> QED
      BY <2>9, <2>11, <3>4, <3>5, <3>6
  <2>12. CASE p.ell \notin {"...", "array"}
    <3>1. PICK key, entry : key = p.ell /\ entry = [tag |-> "FixedSeq", value |-> OuterOf(p, c)]
      OBVIOUS
    <3>2. entry.tag = "FixedSeq" /\ entry.value = OuterOf(p, c) /\ key # ""
      BY <1>0, <3>1 DEF IsTypePattern
    <3>3. u = ResolveSymbol(v, key, entry)
      BY <1>0, <2>2, <2>3, <2>12, <3>1 DEF ResolveEllipsis, ResolveFixed, OuterOf, IsTypePattern
    <3>4. IsTable(u) /\ Extends(v, u) /\ DOMAIN u = DOMAIN v \cup {key} /\ Holds(u, key, entry.tag, entry.value)
      BY <1>0, <2>6, <3>2, <3>3, ResolveSymbolSound
    <3>5. Keeps(v, u)
      BY <3>4 DEF Extends, Keeps
    <3>6. Holds(u, p.ell, "FixedSeq", OuterOf(p, c))
      BY <3>1, <3>2, <3>4
    <3>7. DOMAIN u = DOMAIN v \cup {p.ell} /\ p.ell # "..." /\ p.ell # "array"
      BY <2>12, <3>1, <3>4
    <3> QED
      BY <2>9, <3>4, <3>5, <3>6, <3>7
  <2> QED
    BY <2>10, <2>11, <2>12
<1> QED
  BY <1>2, <1>3

LEMMA KeepsTransitive ==
  ASSUME NEW t, NEW u, NEW v, Keeps(t, u), Keeps(u, v)
  PROVE  Keeps(t, v)
BY DEF Keeps

LEMMA ArgFitsKeeps ==
  ASSUME NEW t, NEW u, NEW p, NEW c, IsTypePattern(p), Keeps(t, u), ArgFits(t, p, c)
  PROVE  ArgFits(u, p, c)
<1>1. IsPattern(p)
  BY DEF IsTypePattern
<1>2. CASE p.ell = "none"
  <2>1. Fits(u, p, c)
    BY <1>1, <1>2, FitsKeeps DEF ArgFits
  <2> QED
    BY <1>2, <2>1 DEF ArgFits
<1>3. CASE p.ell # "none"
  <2>1. PICK d, n, w : d = From(c, Taken(p, c) + 1) /\ n = Taken(p, c) /\ w = OuterOf(p, c)
    OBVIOUS
  <2>2. Fits(u, p, d)
    BY <1>1, <1>3, <2>1, FitsKeeps DEF ArgFits
  <2>3. p.ell = "array" => Holds(u, "array", "ArraySeq", n)
    BY <1>3, <2>1, KeepsHolds DEF ArgFits
  <2>4. p.ell \notin {"...", "array"} => Holds(u, p.ell, "FixedSeq", w)
    BY <1>3, <2>1, KeepsHolds DEF ArgFits
  <2> QED
    BY <1>3, <2>1, <2>2, <2>3, <2>4 DEF ArgFits
<1> QED
  BY <1>2, <1>3

\* Values of the symbols that fit an argument are those in a table that fits.
LEMMA FitsAgrees ==
  ASSUME NEW u, NEW p, NEW c, NEW b, NEW key
  PROVE  /\ IsPattern(p) /\ Fits(u, p, c) /\ DenotesRest(b, p, c)
         => /\ key \in DimNames(p) => Holds(u, key, "Shape", b[key])
            /\ key \in TypeNames(p) => Holds(u, key, "Type", b[key])
<1>0. SUFFICES ASSUME IsPattern(p), Fits(u, p, c), DenotesRest(b, p, c)
               PROVE  /\ key \in DimNames(p) => Holds(u, key, "Shape", b[key])
                      /\ key \in TypeNames(p) => Holds(u, key, "Type", b[key])
  OBVIOUS
<1>1. IsSeq(p.dims)
  BY <1>0 DEF IsPattern
<1>2. ASSUME key \in DimNames(p)
      PROVE  Holds(u, key, "Shape", b[key])
  <2>1. PICK k \in 1 .. Len(p.dims) : p.dims[k].kind = "sym" /\ p.dims[k].name = key
    BY <1>1, <1>2, SymbolsNamed
  <2>2. PICK q, d : q = p.dims[k] /\ d = From(c, k)
    OBVIOUS
  <2>3. FitsDim(u, q, d) /\ DenotesDim(b, q, d) /\ q.kind = "sym" /\ q.name = key
    BY <1>0, <2>1, <2>2 DEF Fits, DenotesRest
  <2>4. Holds(u, q.name, "Shape", b[q.name])
    BY <2>3, FitsDimAgrees
  <2> QED
    BY <2>3, <2>4
<1>3. ASSUME key \in TypeNames(p)
      PROVE  Holds(u, key, "Type", b[key])
  <2>1. PICK q, d : q = p.dtype /\ d = From(c, Len(p.dims) + 1)
    OBVIOUS
  <2>2. FitsDtype(u, q, d) /\ DenotesDtype(b, q, d) /\ q.kind = "typevar" /\ q.name = key
    BY <1>0, <1>3, <2>1 DEF Fits, DenotesRest, TypeNames
  <2>3. Holds(u, q.name, "Type", d)
    BY <2>2 DEF FitsDtype
  <2>4. d = b[q.name]
    BY <2>2 DEF DenotesDtype
  <2> QED
    BY <2>2, <2>3, <2>4
<1> QED
  BY <1>2, <1>3

\* The table u has the values of b for the symbols of p.
Agrees(u, p, b) ==
  /\ \A key \in DimNames(p) : Holds(u, key, "Shape", b[key])
  /\ \A key \in TypeNames(p) : Holds(u, key, "Type", b[key])

LEMMA ArgFitsAgrees ==
  ASSUME NEW u, NEW p, NEW c, NEW b
  PROVE  IsPattern(p) /\ IsSeq(c.dims) /\ ArgFits(u, p, c) /\ Denotes(b, p, c) => Agrees(u, p, b)
<1>0. SUFFICES ASSUME IsPattern(p), IsSeq(c.dims), ArgFits(u, p, c), Denotes(b, p, c)
               PROVE  Agrees(u, p, b)
  OBVIOUS
<1>1. DenotesParts(b, p, c)
  BY <1>0, DenotesSplit DEF IsPattern
<1>2. PICK d : d = Rest(p, c)
  OBVIOUS
<1>3. Fits(u, p, d) /\ DenotesRest(b, p, d)
  BY <1>0, <1>1, <1>2 DEF ArgFits, DenotesParts, Rest
<1>4. \A key : /\ key \in DimNames(p) => Holds(u, key, "Shape", b[key])
               /\ key \in TypeNames(p) => Holds(u, key, "Type", b[key])
  BY <1>0, <1>3, FitsAgrees
<1> QED
  BY <1>4, Zenon DEF Agrees

\* What the table t says of the ellipsis of p is what it takes from c.
KnowsEllipsis(t, p, c) ==
  /\ p.ell = "array" /\ p.ell \in DOMAIN t => Holds(t, "array", "ArraySeq", Taken(p, c))
  /\ p.ell \notin {"none", "...", "array"} /\ p.ell \in DOMAIN t => Holds(t, p.ell, "FixedSeq", OuterOf(p, c))

\* One value of an ellipsis is the same in the table for all arguments.
LEMMA EllipsisAgrees ==
  ASSUME NEW t, NEW p, NEW c, NEW q, NEW d, NEW b
  PROVE  /\ IsPattern(p) /\ IsPattern(q) /\ IsSeq(c.dims) /\ IsSeq(d.dims)
         /\ p.ell # "var" /\ q.ell = p.ell
         /\ ArgFits(t, p, c) /\ Denotes(b, p, c) /\ Denotes(b, q, d)
         => KnowsEllipsis(t, q, d)
<1>0. SUFFICES ASSUME IsPattern(p), IsPattern(q), IsSeq(c.dims), IsSeq(d.dims),
                      p.ell # "var", q.ell = p.ell,
                      ArgFits(t, p, c), Denotes(b, p, c), Denotes(b, q, d)
               PROVE  KnowsEllipsis(t, q, d)
  OBVIOUS
<1>1. IsSeq(p.dims) /\ IsSeq(q.dims)
  BY <1>0 DEF IsPattern
<1>2. DenotesParts(b, p, c) /\ DenotesParts(b, q, d)
  BY <1>0, <1>1, DenotesSplit
<1>3. CASE p.ell \in {"none", "..."}
  BY <1>0, <1>3 DEF KnowsEllipsis
<1>4. CASE p.ell \notin {"none", "..."}
  <2>1. PICK m, n : m = Taken(p, c) /\ n = Taken(q, d)
    OBVIOUS
  <2>2. /\ CanTake(p, c) /\ CanTake(q, d)
        /\ Outer(c, Taken(p, c)) = Outer(d, Taken(q, d))
    BY <1>0, <1>2, <1>4 DEF DenotesParts
  <2>3. Taken(p, c) >= 0 /\ Taken(q, d) >= 0
    BY <2>2 DEF CanTake
  <2>4. /\ m \in Nat /\ n \in Nat
        /\ IsSeq(OuterOf(p, c)) /\ Len(OuterOf(p, c)) = m /\ \A k \in 1 .. m : OuterOf(p, c)[k] = c.dims[k].shape
        /\ IsSeq(OuterOf(q, d)) /\ Len(OuterOf(q, d)) = n /\ \A k \in 1 .. n : OuterOf(q, d)[k] = d.dims[k].shape
    BY <1>0, <1>1, <2>1, <2>3, OuterOfProperties
  <2>5. CASE p.ell = "array"
    <3>1. Outer(c, Taken(p, c)) = [k \in 1 .. Taken(p, c) |-> <<>>]
      BY <1>0, <1>1, <2>2, <2>5, OuterArray
    <3>2. Outer(d, Taken(q, d)) = [k \in 1 .. Taken(q, d) |-> <<>>]
      BY <1>0, <1>1, <2>2, <2>5, OuterArray
    <3>3. [k \in 1 .. m |-> <<>>] = [k \in 1 .. n |-> <<>>]
      BY <2>1, <2>2, <3>1, <3>2
    <3>4. PICK f, g : f = [k \in 1 .. m |-> <<>>] /\ g = [k \in 1 .. n |-> <<>>] /\ f = g
      BY <3>3
    <3>5. 1 .. m = 1 .. n
      <4>1. DOMAIN f = 1 .. m /\ DOMAIN g = 1 .. n
        BY <3>4
      <4> QED
        BY <3>4, <4>1
    <3>6. m = n
      BY <2>4, <3>5
    <3>7. Holds(t, "array", "ArraySeq", Taken(p, c))
      BY <1>0, <1>4, <2>5 DEF ArgFits
    <3>8. Holds(t, "array", "ArraySeq", Taken(q, d))
      BY <2>1, <3>6, <3>7
    <3> QED
      BY <1>0, <2>5, <3>8 DEF KnowsEllipsis
  <2>6. CASE p.ell # "array"
    <3>1. Outer(c, Taken(p, c)) = [k \in 1 .. Taken(p, c) |-> <<c.dims[k].shape>>]
      BY <1>0, <1>1, <2>2, <2>6, OuterFixed
    <3>2. Outer(d, Taken(q, d)) = [k \in 1 .. Taken(q, d) |-> <<d.dims[k].shape>>]
      BY <1>0, <1>1, <2>2, <2>6, OuterFixed
    <3>3. [k \in 1 .. m |-> <<c.dims[k].shape>>] = [k \in 1 .. n |-> <<d.dims[k].shape>>]
      BY <2>1, <2>2, <3>1, <3>2
    <3>4. PICK f, g : f = [k \in 1 .. m |-> <<c.dims[k].shape>>] /\ g = [k \in 1 .. n |-> <<d.dims[k].shape>>] /\ f = g
      BY <3>3
    <3>5. DOMAIN f = 1 .. m /\ DOMAIN g = 1 .. n
      BY <3>4
    <3>6. 1 .. m = 1 .. n
      BY <3>4, <3>5
    <3>7. m = n
      BY <2>4, <3>6
    <3>8. ASSUME NEW k \in 1 .. m
          PROVE  c.dims[k].shape = d.dims[k].shape
      <4>1. f[k] = <<c.dims[k].shape>>
        BY <3>4, <3>8
      <4>2. f[k] = <<d.dims[k].shape>>
        BY <3>4, <3>7, <3>8
      <4> QED
        BY <4>1, <4>2
    <3>9. OuterOf(p, c) = OuterOf(q, d)
      BY <2>4, <3>7, <3>8, SameSeq
    <3>10. Holds(t, p.ell, "FixedSeq", OuterOf(p, c))
      BY <1>0, <1>4, <2>6 DEF ArgFits
    <3>11. Holds(t, q.ell, "FixedSeq", OuterOf(q, d))
      BY <1>0, <3>9, <3>10
    <3> QED
      BY <1>0, <2>6, <3>11 DEF KnowsEllipsis
  <2> QED
    BY <2>5, <2>6
<1> QED
  BY <1>3, <1>4

\* If some values of the symbols fit, and the outer dimensions can be
\* broadcast, matching succeeds.
LEMMA MatchComplete ==
  ASSUME NEW t, NEW p, NEW c, NEW b
  PROVE  /\ IsTable(t) /\ IsTypePattern(p) /\ IsSeq(c.dims) /\ Denotes(b, p, c)
         /\ Knows(t, p, b) /\ KnowsEllipsis(t, p, c)
         /\ p.ell = "..." /\ "..." \in DOMAIN t => Resolve(t["..."].value, OuterOf(p, c)) # NoShape
         => NoMatch \notin Match(t, p, c)
<1>0. SUFFICES ASSUME IsTable(t), IsTypePattern(p), IsSeq(c.dims), Denotes(b, p, c),
                      Knows(t, p, b), KnowsEllipsis(t, p, c),
                      p.ell = "..." /\ "..." \in DOMAIN t => Resolve(t["..."].value, OuterOf(p, c)) # NoShape
               PROVE  NoMatch \notin Match(t, p, c)
  OBVIOUS
<1>1. IsPattern(p) /\ IsSeq(p.dims) /\ DimNames(p) \cap TypeNames(p) = {}
  BY <1>0 DEF IsTypePattern, IsPattern
<1>2. DenotesParts(b, p, c)
  BY <1>0, <1>1, DenotesSplit
<1>3. CASE p.ell = "none"
  <2>1. DenotesRest(b, p, c)
    BY <1>2, <1>3 DEF DenotesParts
  <2>2. MatchDatashape(t, p, c) # NoMatch
    BY <1>0, <1>1, <2>1, MatchDatashapeComplete
  <2> QED
    BY <1>3, <2>2 DEF Match
<1>4. CASE p.ell # "none"
  <2>1. PICK n, d, v : n = Taken(p, c) /\ d = From(c, n + 1) /\ v = MatchDatashape(t, p, d)
    OBVIOUS
  <2>2. Ordered(p.order, c) /\ CanTake(p, c) /\ DenotesRest(b, p, d)
    BY <1>2, <1>4, <2>1 DEF DenotesParts
  <2>3. IsSeq(d.dims)
    <3>1. Taken(p, c) >= 0
      BY <2>2 DEF CanTake
    <3>2. Len(p.dims) \in Nat /\ Len(c.dims) \in Nat
      BY <1>0, <1>1, IsSeqProperties
    <3>3. n \in Nat /\ n + Len(p.dims) = Len(c.dims)
      BY <1>0, <1>1, <2>1, <3>1, OuterOfProperties
    <3>4. n + 1 \in Nat /\ 1 <= n + 1 /\ n + 1 <= Len(c.dims) + 1
      BY <3>2, <3>3
    <3> QED
      BY <1>0, <2>1, <3>4, FromProperties
  <2>4. v # NoMatch
    BY <1>0, <1>1, <2>1, <2>2, <2>3, MatchDatashapeComplete
  <2>5. /\ IsTable(v) /\ Extends(t, v)
        /\ \A key \in DOMAIN v : key \in DOMAIN t \/ Adds(v, p, d, key)
    BY <1>0, <1>1, <2>1, <2>3, <2>4, MatchDatashapeSound
  <2>6. Match(t, p, c) = ResolveEllipsis(v, p, c)
    BY <1>4, <2>1, <2>2 DEF Match
  <2>7. p.ell \in DOMAIN v => p.ell \in DOMAIN t /\ v[p.ell] = t[p.ell]
    <3>1. ~Adds(v, p, d, p.ell)
      BY <1>0 DEF Adds, IsTypePattern
    <3> QED
      BY <2>5, <3>1 DEF Extends
  <2>8. CASE p.ell = "..."
    <3>1. "..." \in DOMAIN v => Resolve(v["..."].value, OuterOf(p, c)) # NoShape
      BY <1>0, <2>7, <2>8
    <3>2. ResolveBroadcast(v, OuterOf(p, c)) # NoMatch
      <4>1. PICK w : w = Resolve(v["..."].value, OuterOf(p, c))
        OBVIOUS
      <4>2. PICK e : ResolveBroadcast(v, OuterOf(p, c)) = Bind(v, "...", e)
        <5>1. CASE "..." \notin DOMAIN v
          BY <5>1 DEF ResolveBroadcast
        <5>2. CASE "..." \in DOMAIN v
          <6>1. ResolveBroadcast(v, OuterOf(p, c)) = Bind(v, "...", [tag |-> "BroadcastSeq", value |-> w])
            BY <3>1, <4>1, <5>2 DEF ResolveBroadcast
          <6> QED
            BY <6>1
        <5> QED
          BY <5>1, <5>2
      <4>3. DOMAIN Bind(v, "...", e) = DOMAIN v \cup {"..."}
        BY DEF Bind
      <4>4. IsTable(Bind(v, "...", e))
        BY <2>5, <4>3 DEF IsTable
      <4> QED
        BY <4>2, <4>4, TablesMatch
    <3>3. ResolveEllipsis(v, p, c) = {ResolveBroadcast(v, OuterOf(p, c))}
      BY <2>4, <2>8 DEF ResolveEllipsis, OuterOf
    <3> QED
      BY <2>6, <3>2, <3>3
  <2>9. CASE p.ell = "array"
    <3>1. PICK entry : entry = [tag |-> "ArraySeq", value |-> n]
      OBVIOUS
    <3>2. entry.tag = "ArraySeq" /\ entry.value = n
      BY <3>1
    <3>3. ResolveEllipsis(v, p, c) = {ResolveSymbol(v, "array", entry)}
      BY <2>1, <2>4, <2>9, <3>1 DEF ResolveEllipsis, ResolveArray
    <3>4. "array" \in DOMAIN v => Holds(v, "array", entry.tag, entry.value)
      BY <1>0, <2>1, <2>7, <2>9, <3>2 DEF KnowsEllipsis, Holds
    <3>5. ResolveSymbol(v, "array", entry) # NoMatch
      BY <2>5, <3>4, ResolveSymbolComplete
    <3> QED
      BY <2>6, <3>3, <3>5
  <2>10. CASE p.ell \notin {"...", "array"}
    <3>1. PICK key, entry : key = p.ell /\ entry = [tag |-> "FixedSeq", value |-> OuterOf(p, c)]
      OBVIOUS
    <3>2. entry.tag = "FixedSeq" /\ entry.value = OuterOf(p, c) /\ key # ""
      BY <1>0, <3>1 DEF IsTypePattern
    <3>3. ResolveEllipsis(v, p, c) = {ResolveSymbol(v, key, entry)}
      BY <1>0, <2>4, <2>10, <3>1 DEF ResolveEllipsis, ResolveFixed, OuterOf, IsTypePattern
    <3>4. key \in DOMAIN v => Holds(v, key, entry.tag, entry.value)
      BY <1>0, <1>4, <2>7, <2>10, <3>1, <3>2 DEF KnowsEllipsis, Holds
    <3>5. ResolveSymbol(v, key, entry) # NoMatch
      BY <2>5, <3>2, <3>4, ResolveSymbolComplete
    <3> QED
      BY <2>6, <3>3, <3>5
  <2> QED
    BY <2>8, <2>9, <2>10
<1> QED
  BY <1>3, <1>4
-----------------------------------------------------------------------------
(***************************************************************************)
(* The common shape.                                                       *)
(***************************************************************************)
LEMMA ReadsDimTransitive ==
  ASSUME NEW n, NEW m, NEW r, ReadsDim(n, m), ReadsDim(m, r)
  PROVE  ReadsDim(n, r)
BY DEF ReadsDim

LEMMA ResolveDimProperties ==
  ASSUME NEW n, NEW m, NEW r, r = ResolveDim(n, m), r # -1
  PROVE  ReadsDim(n, r) /\ ReadsDim(m, r) /\ (r = n \/ r = m)
BY DEF ResolveDim, ReadsDim

LEMMA ResolveDimFails ==
  ASSUME NEW n \in Nat, NEW m \in Nat, ResolveDim(n, m) = -1
  PROVE  m # n /\ n # 1 /\ m # 1
BY DEF ResolveDim

\* An array of shape w can be read with the shape u.
Reads(w, u) ==
  /\ Len(w) <= Len(u)
  /\ \A k \in 1 .. Len(w) : ReadsDim(w[k], u[Len(u) - Len(w) + k])

\* The length k of u is that of w at the same place, counted from the end.
Stems(u, k, w) == \E j \in 1 .. Len(w) : k = Len(u) - Len(w) + j /\ u[k] = w[j]

LEMMA ReadsTransitive ==
  ASSUME NEW v, NEW w, NEW u, IsSeq(v), IsSeq(w), IsSeq(u), Reads(v, w), Reads(w, u)
  PROVE  Reads(v, u)
<1>1. Len(v) \in Nat /\ Len(w) \in Nat /\ Len(u) \in Nat
  BY IsSeqProperties
<1>2. Len(v) <= Len(w) /\ Len(w) <= Len(u)
  BY DEF Reads
<1>3. ASSUME NEW k \in 1 .. Len(v)
      PROVE  ReadsDim(v[k], u[Len(u) - Len(v) + k])
  <2>1. PICK i : i = Len(w) - Len(v) + k
    OBVIOUS
  <2>2. i \in 1 .. Len(w) /\ Len(u) - Len(w) + i = Len(u) - Len(v) + k
    BY <1>1, <1>2, <2>1
  <2>3. ReadsDim(v[k], w[i])
    BY <2>1 DEF Reads
  <2>4. ReadsDim(w[i], u[Len(u) - Len(w) + i])
    BY <2>2 DEF Reads
  <2>5. PICK a, m, r : a = v[k] /\ m = w[i] /\ r = u[Len(u) - Len(v) + k]
    OBVIOUS
  <2>6. ReadsDim(a, m) /\ ReadsDim(m, r)
    BY <2>2, <2>3, <2>4, <2>5
  <2> QED
    BY <2>5, <2>6, ReadsDimTransitive
<1> QED
  BY <1>1, <1>2, <1>3 DEF Reads

\* The shape that Resolve finds, before it is known whether there is one.
Resolved(v, w, size, u) ==
  /\ size \in Nat /\ Len(v) <= size /\ Len(w) <= size /\ (size = Len(v) \/ size = Len(w))
  /\ IsSeq(u) /\ Len(u) = size
  /\ \A k \in 1 .. size :
       u[k] = IF k - (size - Len(v)) < 1 THEN w[k - (size - Len(w))]
              ELSE IF k - (size - Len(w)) < 1 THEN v[k - (size - Len(v))]
              ELSE ResolveDim(v[k - (size - Len(v))], w[k - (size - Len(w))])
  /\ Resolve(v, w) = IF \E k \in 1 .. size : u[k] = -1 THEN NoShape ELSE u

LEMMA ResolveSteps ==
  ASSUME NEW v, NEW w, IsSeq(v), IsSeq(w)
  PROVE  \E size, u : Resolved(v, w, size, u)
<1> DEFINE size == IF Len(v) >= Len(w) THEN Len(v) ELSE Len(w)
           entry(k) == IF k - (size - Len(v)) < 1 THEN w[k - (size - Len(w))]
                       ELSE IF k - (size - Len(w)) < 1 THEN v[k - (size - Len(v))]
                       ELSE ResolveDim(v[k - (size - Len(v))], w[k - (size - Len(w))])
           u == [k \in 1 .. size |-> entry(k)]
<1>1. Len(v) \in Nat /\ Len(w) \in Nat
  BY IsSeqProperties
<1>2. size \in Nat /\ Len(v) <= size /\ Len(w) <= size /\ (size = Len(v) \/ size = Len(w))
  BY <1>1
<1>3. Resolve(v, w) = IF \E k \in 1 .. size : u[k] = -1 THEN NoShape ELSE u
  BY DEF Resolve
<1>4. \A k \in 1 .. size : u[k] = entry(k)
  OBVIOUS
<1>5. IsSeq(u) /\ Len(u) = size
  <2>1. u = [k \in 1 .. size |-> u[k]]
    BY <1>4
  <2> HIDE DEF u
  <2> QED
    BY <1>2, <2>1, FunctionIsSeq
<1>6. Resolved(v, w, size, u)
  <2> HIDE DEF size, u
  <2> QED
    BY <1>2, <1>3, <1>4, <1>5 DEF Resolved
<1> QED
  BY <1>6

\* The common shape lets both be read, and takes each length from one of them.
LEMMA ResolveProperties ==
  ASSUME NEW v, NEW w, IsSeq(v), IsSeq(w), NEW r, r = Resolve(v, w), r # NoShape
  PROVE  /\ IsSeq(r) /\ Reads(v, r) /\ Reads(w, r)
         /\ \A k \in 1 .. Len(r) : Stems(r, k, v) \/ Stems(r, k, w)
<1>1. PICK size, u : Resolved(v, w, size, u)
  BY ResolveSteps
<1>2. r = u /\ \A k \in 1 .. size : u[k] # -1
  BY <1>1 DEF Resolved
<1>3. Len(v) \in Nat /\ Len(w) \in Nat /\ size \in Nat /\ Len(u) = size /\ Len(v) <= size /\ Len(w) <= size
      /\ (size = Len(v) \/ size = Len(w))
  BY <1>1, IsSeqProperties DEF Resolved
<1>4. ASSUME NEW k \in 1 .. size, NEW i, NEW j, i = k - (size - Len(v)), j = k - (size - Len(w))
      PROVE  /\ i \in 1 .. Len(v) => ReadsDim(v[i], u[k])
             /\ j \in 1 .. Len(w) => ReadsDim(w[j], u[k])
             /\ (i \in 1 .. Len(v) /\ u[k] = v[i]) \/ (j \in 1 .. Len(w) /\ u[k] = w[j])
  <2>1. u[k] = IF i < 1 THEN w[j] ELSE IF j < 1 THEN v[i] ELSE ResolveDim(v[i], w[j])
    BY <1>1, <1>4 DEF Resolved
  <2>2. i \in Int /\ j \in Int /\ i <= Len(v) /\ j <= Len(w) /\ (i >= 1 \/ j >= 1)
    BY <1>3, <1>4
  <2>3. CASE i < 1
    <3>1. u[k] = w[j] /\ j \in 1 .. Len(w) /\ i \notin 1 .. Len(v)
      BY <1>3, <2>1, <2>2, <2>3
    <3> QED
      BY <3>1 DEF ReadsDim
  <2>4. CASE ~(i < 1) /\ j < 1
    <3>1. u[k] = v[i] /\ i \in 1 .. Len(v) /\ j \notin 1 .. Len(w)
      BY <1>3, <2>1, <2>2, <2>4
    <3> QED
      BY <3>1 DEF ReadsDim
  <2>5. CASE ~(i < 1) /\ ~(j < 1)
    <3>1. u[k] = ResolveDim(v[i], w[j]) /\ i \in 1 .. Len(v) /\ j \in 1 .. Len(w)
      BY <1>3, <2>1, <2>2, <2>5
    <3>2. PICK n, m, x : n = v[i] /\ m = w[j] /\ x = u[k]
      OBVIOUS
    <3>3. x = ResolveDim(n, m) /\ x # -1
      BY <1>2, <3>1, <3>2
    <3>4. ReadsDim(n, x) /\ ReadsDim(m, x) /\ (x = n \/ x = m)
      BY <3>3, ResolveDimProperties
    <3> QED
      BY <3>1, <3>2, <3>4
  <2> QED
    BY <2>3, <2>4, <2>5
<1>5. ASSUME NEW i \in 1 .. Len(v)
      PROVE  ReadsDim(v[i], u[size - Len(v) + i])
  <2>1. PICK k, j : k = size - Len(v) + i /\ j = k - (size - Len(w))
    OBVIOUS
  <2>2. k \in 1 .. size /\ i = k - (size - Len(v))
    BY <1>3, <2>1
  <2> QED
    BY <1>4, <2>1, <2>2
<1>6. ASSUME NEW j \in 1 .. Len(w)
      PROVE  ReadsDim(w[j], u[size - Len(w) + j])
  <2>1. PICK k, i : k = size - Len(w) + j /\ i = k - (size - Len(v))
    OBVIOUS
  <2>2. k \in 1 .. size /\ j = k - (size - Len(w))
    BY <1>3, <2>1
  <2> QED
    BY <1>4, <2>1, <2>2
<1>7. ASSUME NEW k \in 1 .. size
      PROVE  Stems(u, k, v) \/ Stems(u, k, w)
  <2>1. PICK i, j : i = k - (size - Len(v)) /\ j = k - (size - Len(w))
    OBVIOUS
  <2>2. (i \in 1 .. Len(v) /\ u[k] = v[i]) \/ (j \in 1 .. Len(w) /\ u[k] = w[j])
    BY <1>4, <2>1
  <2>3. k = Len(u) - Len(v) + i /\ k = Len(u) - Len(w) + j
    BY <1>3, <2>1
  <2> QED
    BY <2>2, <2>3 DEF Stems
<1>8. IsSeq(u)
  BY <1>1 DEF Resolved
<1>9. Reads(v, u) /\ Reads(w, u)
  BY <1>3, <1>5, <1>6 DEF Reads
<1> QED
  BY <1>2, <1>3, <1>7, <1>8, <1>9

\* If there is no common shape, two lengths cannot be broadcast.
LEMMA ResolveFails ==
  ASSUME NEW v, NEW w, IsSeq(v), IsSeq(w), Resolve(v, w) = NoShape,
         \A k \in 1 .. Len(v) : v[k] \in Nat, \A k \in 1 .. Len(w) : w[k] \in Nat
  PROVE  \E i \in 1 .. Len(v), j \in 1 .. Len(w) :
            Len(v) - i = Len(w) - j /\ v[i] # w[j] /\ v[i] # 1 /\ w[j] # 1
<1>1. PICK size, u : Resolved(v, w, size, u)
  BY ResolveSteps
<1>2. Len(v) \in Nat /\ Len(w) \in Nat /\ size \in Nat /\ IsSeq(u) /\ Len(u) = size
      /\ Len(v) <= size /\ Len(w) <= size /\ (size = Len(v) \/ size = Len(w))
  BY <1>1, IsSeqProperties DEF Resolved
<1>3. PICK k \in 1 .. size : u[k] = -1
  <2>1. ASSUME \A k \in 1 .. size : u[k] # -1
        PROVE  FALSE
    <3>1. u = NoShape
      BY <1>1, <2>1 DEF Resolved
    <3>2. Len(NoShape) = 1 /\ NoShape[1] = -1
      BY DEF NoShape
    <3>3. size = 1 /\ u[1] = -1
      BY <1>2, <3>1, <3>2
    <3> QED
      BY <2>1, <3>3
  <2> QED
    BY <2>1
<1>4. PICK i, j : i = k - (size - Len(v)) /\ j = k - (size - Len(w))
  OBVIOUS
<1>5. u[k] = IF i < 1 THEN w[j] ELSE IF j < 1 THEN v[i] ELSE ResolveDim(v[i], w[j])
  BY <1>1, <1>4 DEF Resolved
<1>6. i \in Int /\ j \in Int /\ i <= Len(v) /\ j <= Len(w) /\ (i >= 1 \/ j >= 1) /\ Len(v) - i = Len(w) - j
  BY <1>2, <1>4
<1>7. ~(i < 1)
  <2>1. ASSUME i < 1
        PROVE  FALSE
    <3>1. u[k] = w[j] /\ j \in 1 .. Len(w)
      BY <1>2, <1>5, <1>6, <2>1
    <3>2. w[j] \in Nat
      BY <3>1
    <3> QED
      BY <1>3, <3>1, <3>2
  <2> QED
    BY <2>1
<1>8. ~(j < 1)
  <2>1. ASSUME j < 1
        PROVE  FALSE
    <3>1. u[k] = v[i] /\ i \in 1 .. Len(v)
      BY <1>2, <1>5, <1>6, <1>7, <2>1
    <3>2. v[i] \in Nat
      BY <3>1
    <3> QED
      BY <1>3, <3>1, <3>2
  <2> QED
    BY <2>1
<1>9. i \in 1 .. Len(v) /\ j \in 1 .. Len(w) /\ ResolveDim(v[i], w[j]) = -1
  BY <1>2, <1>3, <1>5, <1>6, <1>7, <1>8
<1>10. PICK n, m : n = v[i] /\ m = w[j]
  OBVIOUS
<1>11. n \in Nat /\ m \in Nat /\ ResolveDim(n, m) = -1
  BY <1>9, <1>10
<1>12. m # n /\ n # 1 /\ m # 1
  BY <1>11, ResolveDimFails
<1> QED
  BY <1>6, <1>9, <1>10, <1>12

\* u is the shape that the shapes ws share.
CommonShape(u, ws) ==
  /\ IsSeq(u)
  /\ \A w \in ws : Reads(w, u)
  /\ \A k \in 1 .. Len(u) : \E w \in ws : Stems(u, k, w)

LEMMA StemsTransitive ==
  ASSUME NEW u, NEW v, NEW w, NEW k, NEW j \in 1 .. Len(v),
         k = Len(u) - Len(v) + j, u[k] = v[j], Stems(v, j, w), IsSeq(u), IsSeq(v), IsSeq(w)
  PROVE  Stems(u, k, w)
<1>1. PICK i \in 1 .. Len(w) : j = Len(v) - Len(w) + i /\ v[j] = w[i]
  BY DEF Stems
<1>2. Len(u) \in Nat /\ Len(v) \in Nat /\ Len(w) \in Nat
  BY IsSeqProperties
<1>3. k = Len(u) - Len(w) + i
  BY <1>1, <1>2
<1> QED
  BY <1>1, <1>3 DEF Stems

LEMMA FirstShape ==
  ASSUME NEW w, IsSeq(w)
  PROVE  CommonShape(w, {w})
<1>1. Len(w) \in Nat
  BY IsSeqProperties
<1>2. ASSUME NEW k \in 1 .. Len(w)
      PROVE  ReadsDim(w[k], w[Len(w) - Len(w) + k]) /\ Stems(w, k, w)
  <2>1. Len(w) - Len(w) + k = k
    BY <1>1
  <2> QED
    BY <2>1 DEF ReadsDim, Stems
<1> QED
  BY <1>1, <1>2 DEF CommonShape, Reads

LEMMA NextShape ==
  ASSUME NEW ws, \A x \in ws : IsSeq(x), NEW v, CommonShape(v, ws), NEW w, IsSeq(w),
         Resolve(v, w) # NoShape
  PROVE  CommonShape(Resolve(v, w), ws \cup {w})
<1>1. PICK r : r = Resolve(v, w)
  OBVIOUS
<1>2. IsSeq(v) /\ r # NoShape
  BY <1>1 DEF CommonShape
<1>3. /\ IsSeq(r) /\ Reads(v, r) /\ Reads(w, r)
      /\ \A k \in 1 .. Len(r) : Stems(r, k, v) \/ Stems(r, k, w)
  BY <1>1, <1>2, ResolveProperties
<1>4. ASSUME NEW x \in ws
      PROVE  Reads(x, r)
  <2>1. IsSeq(x) /\ Reads(x, v)
    BY DEF CommonShape
  <2> QED
    BY <1>2, <1>3, <2>1, ReadsTransitive
<1>5. ASSUME NEW k \in 1 .. Len(r), Stems(r, k, v)
      PROVE  \E x \in ws : Stems(r, k, x)
  <2>1. PICK j \in 1 .. Len(v) : k = Len(r) - Len(v) + j /\ r[k] = v[j]
    BY <1>5 DEF Stems
  <2>2. PICK x \in ws : Stems(v, j, x)
    BY <2>1 DEF CommonShape
  <2>3. IsSeq(x)
    OBVIOUS
  <2>4. Stems(r, k, x)
    BY <1>2, <1>3, <2>1, <2>2, <2>3, StemsTransitive
  <2> QED
    BY <2>4
<1> QED
  BY <1>1, <1>3, <1>4, <1>5 DEF CommonShape

LEMMA NoCommonShape ==
  ASSUME NEW ws, \A x \in ws : IsSeq(x) /\ \A k \in 1 .. Len(x) : x[k] \in Nat,
         NEW v, CommonShape(v, ws),
         NEW w, IsSeq(w), \A k \in 1 .. Len(w) : w[k] \in Nat, Resolve(v, w) = NoShape
  PROVE  \E x \in ws : ~Compatible(x, w)
<1>1. IsSeq(v) /\ \A k \in 1 .. Len(v) : v[k] \in Nat
  BY DEF CommonShape, Stems
<1>2. PICK i \in 1 .. Len(v), j \in 1 .. Len(w) :
        Len(v) - i = Len(w) - j /\ v[i] # w[j] /\ v[i] # 1 /\ w[j] # 1
  BY <1>1, ResolveFails
<1>3. PICK x \in ws : Stems(v, i, x)
  BY DEF CommonShape
<1>4. PICK l \in 1 .. Len(x) : i = Len(v) - Len(x) + l /\ v[i] = x[l]
  BY <1>3 DEF Stems
<1>5. Len(v) \in Nat /\ Len(w) \in Nat /\ Len(x) \in Nat
  BY <1>1, IsSeqProperties
<1>6. PICK k : k = Len(w) - j
  OBVIOUS
<1>7. /\ k \in 0 .. (IF Len(x) <= Len(w) THEN Len(x) ELSE Len(w)) - 1
      /\ Len(x) - k = l /\ Len(w) - k = j
  BY <1>2, <1>4, <1>5, <1>6
<1>8. x[Len(x) - k] = x[l] /\ w[Len(w) - k] = w[j]
  BY <1>7
<1>9. ~(x[l] = w[j] \/ 1 \in {x[l], w[j]})
  BY <1>2, <1>4
<1>10. ~Compatible(x, w)
  BY <1>7, <1>8, <1>9 DEF Compatible
<1> QED
  BY <1>10
-----------------------------------------------------------------------------
(***************************************************************************)
(* The invariant.                                                          *)
(***************************************************************************)
\* A type as arguments and outputs have it.
IsType(c) ==
  IsSeq(c.dims) /\ \A k \in 1 .. Len(c.dims) : c.dims[k].kind = "fixed" => c.dims[k].shape \in Nat

\* The symbols of a pattern.
Names(p) == DimNames(p) \cup TypeNames(p) \cup (IF p.ell = "none" THEN {} ELSE {p.ell})

HasFields == {"sig", "ins", "outs", "check"} \subseteq DOMAIN call

CallInv ==
  /\ HasFields
  /\ sig \in Signature /\ SignatureOK(sig) /\ call.ins \in Seq(ConcreteType)
  /\ IsSeq(call.outs) /\ \A i \in 1 .. Len(call.outs) : IsType(call.outs[i])
  /\ pc \in {"start", "match", "infer", "broadcast", "order", "ok", "error"}
  /\ pc \notin {"start", "error"} => Arity

\* The symbol key stands for a length.
IsLength(u, key) == key \in DOMAIN u /\ u[key].tag = "Shape" /\ u[key].value \in Nat

\* The arguments that are matched fit the table, and nothing else is in it.
TableInv ==
  /\ pc = "start" => tbl = <<>> /\ next = 1
  /\ pc \notin {"start", "error"} =>
       /\ IsTable(tbl) /\ next \in 1 .. Len(Args) + 1
       /\ \A i \in 1 .. next - 1 : ArgFits(tbl, sig.types[i], Args[i])
       /\ pc = "match" => \A key \in DOMAIN tbl : \E i \in 1 .. next - 1 : key \in Names(sig.types[i])
       /\ pc # "match" => next = Len(Args) + 1
  /\ pc \notin {"start", "match", "error"} /\ sig.pdist /\ "P" \in AllDimNames(sig) => IsLength(tbl, "P")

\* The common shape is that of the arguments that are matched.
ShapeInv ==
  pc \notin {"start", "error"} /\ Ellipsis = "..." /\ next > 1 =>
    "..." \in DOMAIN tbl /\ CommonShape(tbl["..."].value, { OuterShape(i) : i \in 1 .. next - 1 })

\* The first lengths of dims are those of u.
StartsWith(dims, u) ==
  IsSeq(dims) /\ Len(u) <= Len(dims) /\ \A k \in 1 .. Len(u) : dims[k].shape = u[k]

TypesInv ==
  /\ pc \in {"broadcast", "order", "ok"} =>
       /\ IsSeq(types) /\ Len(types) = Len(sig.types)
       /\ ~Given => \A i \in sig.nin + 1 .. Len(types) : IsType(types[i])
  /\ pc = "broadcast" =>
       /\ \A i \in 1 .. Len(Args) : types[i] = Args[i]
       /\ ~Given /\ Ellipsis = "..." =>
            \A i \in sig.nin + 1 .. Len(types) : Len(types[i].dims) = Len(sig.types[i].dims)
  /\ pc \in {"order", "ok"} /\ Ellipsis = "..." =>
       /\ outer = Len(tbl["..."].value)
       /\ \A i \in 1 .. Len(types) : StartsWith(types[i].dims, tbl["..."].value)
       /\ \A i \in 1 .. sig.nin :
            /\ IsArray(Args[i])
            /\ types[i].dims = BroadcastTo(Args[i].dims, tbl["..."].value, Len(sig.types[i].dims), FALSE)

\* Arguments are refused only if no value whatever of the symbols fits them,
\* or if their outer dimensions cannot be broadcast.
Refusals ==
  pc = "error" /\ Arity /\ next <= Len(Args) =>
    \/ \A b : \E i \in DOMAIN Args : ~Denotes(b, sig.types[i], Args[i])
    \/ Ellipsis = "..." /\ \E i, j \in DOMAIN Args : ~Compatible(OuterShape(i), OuterShape(j))

\* Ragged arguments are left out: what is compared with them may be undefined.
Inv == Ellipsis # "var" => CallInv /\ TableInv /\ ShapeInv /\ TypesInv /\ Refusals

-----------------------------------------------------------------------------
(***************************************************************************)
(* Signatures and arguments.                                               *)
(***************************************************************************)
LEMMA SignatureProperties ==
  ASSUME NEW s \in Signature, SignatureOK(s)
  PROVE  /\ s.nin \in Nat /\ s.nout \in Nat /\ IsSeq(s.types) /\ Len(s.types) = s.nin + s.nout
         /\ \A i, j \in 1 .. Len(s.types) : s.types[i].ell = s.types[j].ell
<1>1. s.nin \in Nat /\ s.nout \in Nat
  BY DEF Signature
<1>2. IsSeq(s.types)
  <2>1. PICK S : s.types \in Seq(S)
    BY DEF Signature
  <2> QED
    BY <2>1, SeqIsSeq
<1>3. DOMAIN s.types = 1 .. Len(s.types)
  BY <1>2, IsSeqProperties
<1> QED
  BY <1>1, <1>2, <1>3 DEF SignatureOK

\* The patterns of a signature are as matching needs them.
LEMMA SignaturePatterns ==
  ASSUME NEW s \in Signature, SignatureOK(s), NEW i \in 1 .. Len(s.types), s.types[i].ell # "var"
  PROVE  IsTypePattern(s.types[i])
<1>1. IsSeq(s.types) /\ DOMAIN s.types = 1 .. Len(s.types)
  BY SignatureProperties, IsSeqProperties
<1>2. PICK p : p = s.types[i]
  OBVIOUS
<1>3. p.dims \in Seq(PatternDim) /\ p.dtype \in PatternDtype
  <2>1. PICK S : /\ S = [ell : STRING, order : Contiguity, dims : Seq(PatternDim), dtype : PatternDtype]
                 /\ s.types \in Seq(S)
    BY DEF Signature
  <2>2. s.types \in Seq(S) /\ i \in 1 .. Len(s.types)
    BY <2>1
  <2>3. s.types[i] \in S
    BY <2>2
  <2> QED
    BY <1>2, <2>1, <2>3
<1>4. IsSeq(p.dims)
  BY <1>3, SeqIsSeq
<1>5. p.dtype.kind \in {"any", "scalar", "typevar"}
  BY <1>3 DEF PatternDtype
<1>6. DimNames(p) \subseteq AllDimNames(s) /\ TypeNames(p) \subseteq AllTypeNames(s)
  BY <1>1, <1>2 DEF AllDimNames, AllTypeNames
<1>7. /\ AllDimNames(s) \cap AllTypeNames(s) = {}
      /\ ({"", "..."} \cup { s.types[k].ell : k \in DOMAIN s.types }) \cap (AllDimNames(s) \cup AllTypeNames(s)) = {}
      /\ \A k \in DOMAIN s.types : s.types[k].ell # ""
  BY DEF SignatureOK
<1>8. /\ DimNames(p) \cap TypeNames(p) = {} /\ p.ell # ""
      /\ p.ell \notin DimNames(p) \cup TypeNames(p)
      /\ "" \notin DimNames(p) \cup TypeNames(p) /\ "..." \notin DimNames(p) \cup TypeNames(p)
  BY <1>1, <1>2, <1>6, <1>7
<1>9. \A k \in 1 .. Len(p.dims) : p.dims[k].kind = "sym" => p.dims[k].name \notin {"", "..."}
  <2>1. \A k \in 1 .. Len(p.dims) : p.dims[k].kind = "sym" => p.dims[k].name \in DimNames(p)
    BY <1>4, SymbolsNamed
  <2> QED
    BY <1>8, <2>1
<1>10. p.dtype.kind = "typevar" => p.dtype.name \notin {"", "..."}
  BY <1>8 DEF TypeNames
<1> QED
  BY <1>2, <1>4, <1>5, <1>8, <1>9, <1>10 DEF IsTypePattern, IsPattern

LEMMA ConcreteIsType ==
  ASSUME NEW c \in ConcreteType
  PROVE  IsType(c) /\ \A k \in 1 .. Len(c.dims) : c.dims[k].kind = "fixed" => c.dims[k].step \in Int
<1>1. c.dims \in Seq(Dimension)
  BY DEF ConcreteType
<1>2. IsSeq(c.dims)
  BY <1>1, SeqIsSeq
<1>3. ASSUME NEW k \in 1 .. Len(c.dims), c.dims[k].kind = "fixed"
      PROVE  c.dims[k].shape \in Nat /\ c.dims[k].step \in Int
  <2>1. c.dims[k] \in Dimension
    BY <1>1
  <2> QED
    BY <1>3, <2>1 DEF Dimension
<1> QED
  BY <1>2, <1>3 DEF IsType

LEMMA ArgsProperties ==
  ASSUME CallInv
  PROVE  /\ IsSeq(Args) /\ IsSeq(call.ins) /\ Len(Args) = Len(call.ins) + Len(call.outs)
         /\ \A i \in 1 .. Len(Args) : IsType(Args[i])
         /\ \A i \in 1 .. Len(call.ins) : Args[i] = call.ins[i] /\ call.ins[i] \in ConcreteType
         /\ \A i \in 1 .. Len(call.outs) : Args[Len(call.ins) + i] = call.outs[i]
         /\ Given <=> Len(call.outs) # 0
<1>1. IsSeq(call.ins) /\ IsSeq(call.outs) /\ call.ins \in Seq(ConcreteType)
  BY SeqIsSeq DEF CallInv
<1>2. Len(call.ins) \in Nat /\ Len(call.outs) \in Nat
  BY <1>1, IsSeqProperties
<1>3. PICK v, w : v = call.ins /\ w = call.outs
  OBVIOUS
<1>4. /\ IsSeq(v \o w) /\ Len(v \o w) = Len(v) + Len(w)
      /\ \A k \in 1 .. Len(v) : (v \o w)[k] = v[k]
      /\ \A k \in 1 .. Len(w) : (v \o w)[Len(v) + k] = w[k]
  <2>1. IsSeq(v) /\ IsSeq(w)
    BY <1>1, <1>3
  <2> QED
    BY <2>1, ConcatIsSeq
<1>5. Args = v \o w
  BY <1>3 DEF Args
<1>6. \A k \in 1 .. Len(v) : v[k] \in ConcreteType
  BY <1>1, <1>3
<1>7. \A k \in 1 .. Len(v) : IsType(v[k])
  BY <1>6, ConcreteIsType
<1>8. \A k \in 1 .. Len(w) : IsType(w[k])
  BY <1>3 DEF CallInv
<1>9. ASSUME NEW i \in 1 .. Len(Args)
      PROVE  IsType(Args[i])
  <2>1. CASE i <= Len(v)
    BY <1>2, <1>3, <1>4, <1>5, <1>7, <2>1
  <2>2. CASE ~(i <= Len(v))
    <3>1. i - Len(v) \in 1 .. Len(w) /\ Len(v) + (i - Len(v)) = i
      <4>1. Len(v) \in Nat /\ Len(w) \in Nat /\ i \in 1 .. Len(v) + Len(w)
        BY <1>2, <1>3, <1>4, <1>5
      <4> QED
        BY <2>2, <4>1
    <3>2. Args[Len(v) + (i - Len(v))] = w[i - Len(v)]
      BY <1>4, <1>5, <3>1
    <3> QED
      BY <1>8, <3>1, <3>2
  <2> QED
    BY <2>1, <2>2
<1>10. Given <=> Len(call.outs) # 0
  BY <1>1, IsSeqProperties DEF Given
<1> QED
  BY <1>1, <1>3, <1>4, <1>5, <1>6, <1>9, <1>10

LEMMA ArityProperties ==
  ASSUME CallInv, Arity
  PROVE  /\ sig.nin \in Nat /\ sig.nout \in Nat /\ IsSeq(sig.types) /\ Len(sig.types) = sig.nin + sig.nout
         /\ Len(call.ins) = sig.nin /\ Len(Args) \in Nat /\ sig.nin <= Len(Args) /\ Len(Args) <= Len(sig.types)
         /\ (IF Given THEN Len(Args) = Len(sig.types) ELSE Len(Args) = sig.nin)
         /\ \A i \in 1 .. Len(sig.types) : sig.types[i].ell = Ellipsis
<1>1. sig \in Signature /\ SignatureOK(sig)
  BY DEF CallInv
<1>2. PICK s : s = sig
  OBVIOUS
<1>3. /\ s.nin \in Nat /\ s.nout \in Nat /\ IsSeq(s.types) /\ Len(s.types) = s.nin + s.nout
      /\ \A i, j \in 1 .. Len(s.types) : s.types[i].ell = s.types[j].ell
  BY <1>1, <1>2, SignatureProperties
<1>4. Len(Args) = Len(call.ins) + Len(call.outs) /\ (Given <=> Len(call.outs) # 0)
  BY ArgsProperties
<1>5. Len(call.ins) = s.nin /\ (Given => Len(call.outs) = s.nout)
  BY <1>2 DEF Arity
<1>6. ASSUME NEW i \in 1 .. Len(s.types)
      PROVE  s.types[i].ell = Ellipsis
  <2>1. Len(s.types) # 0 /\ 1 \in 1 .. Len(s.types)
    BY <1>3
  <2>2. s.types # <<>>
    BY <1>3, <2>1, IsSeqProperties
  <2>3. s.types[i].ell = s.types[1].ell
    BY <1>3, <2>1
  <2> QED
    BY <1>2, <2>2, <2>3 DEF Ellipsis
<1> QED
  BY <1>2, <1>3, <1>4, <1>5, <1>6

LEMMA ArgPatterns ==
  ASSUME CallInv, Arity, Ellipsis # "var", NEW i \in 1 .. Len(sig.types)
  PROVE  /\ IsTypePattern(sig.types[i]) /\ IsSeq(sig.types[i].dims) /\ sig.types[i].ell = Ellipsis
         /\ i \in 1 .. Len(Args) => IsType(Args[i]) /\ IsSeq(Args[i].dims)
<1>1. sig.types[i].ell = Ellipsis
  BY ArityProperties
<1>2. PICK s : s = sig
  OBVIOUS
<1>3. s \in Signature /\ SignatureOK(s) /\ i \in 1 .. Len(s.types) /\ s.types[i].ell # "var"
  BY <1>1, <1>2 DEF CallInv
<1>4. IsTypePattern(s.types[i])
  BY <1>3, SignaturePatterns
<1>5. i \in 1 .. Len(Args) => IsType(Args[i])
  BY ArgsProperties
<1> QED
  BY <1>1, <1>2, <1>4, <1>5 DEF IsTypePattern, IsPattern, IsType

LEMMA OuterOfArg ==
  ASSUME NEW p, NEW c, IsSeq(p.dims), IsType(c), CanTake(p, c), p.ell \notin {"var", "array"}
  PROVE  IsSeq(OuterOf(p, c)) /\ \A k \in 1 .. Len(OuterOf(p, c)) : OuterOf(p, c)[k] \in Nat
<1>1. IsSeq(c.dims) /\ Taken(p, c) >= 0 /\ \A k \in 1 .. Taken(p, c) : c.dims[k].kind = "fixed"
  BY DEF IsType, CanTake, EllipsisKind
<1>2. /\ Taken(p, c) \in Nat /\ Taken(p, c) + Len(p.dims) = Len(c.dims)
      /\ IsSeq(OuterOf(p, c)) /\ Len(OuterOf(p, c)) = Taken(p, c)
      /\ \A k \in 1 .. Taken(p, c) : OuterOf(p, c)[k] = c.dims[k].shape
  BY <1>1, OuterOfProperties
<1>3. Len(p.dims) \in Nat
  BY IsSeqProperties
<1>4. \A k \in 1 .. Taken(p, c) : k \in 1 .. Len(c.dims)
  BY <1>2, <1>3
<1> QED
  BY <1>1, <1>2, <1>4 DEF IsType

LEMMA SameCall ==
  ASSUME call' = call
  PROVE  /\ sig' = sig /\ Args' = Args /\ (Given' <=> Given) /\ (Arity' <=> Arity) /\ Ellipsis' = Ellipsis
         /\ \A i : OuterShape(i)' = OuterShape(i)
BY DEF sig, Args, Given, Arity, Ellipsis, OuterShape

LEMMA CallInvKept ==
  ASSUME CallInv, call' = call,
         pc' \in {"start", "match", "infer", "broadcast", "order", "ok", "error"},
         pc' \notin {"start", "error"} => Arity
  PROVE  CallInv'
<1>1. sig' = sig /\ (Arity' <=> Arity)
  BY SameCall
<1> QED
  BY <1>1 DEF CallInv, HasFields

\* A step that fails has to show that the call is rightly refused.
LEMMA FailStep ==
  ASSUME CallInv, Fail, Arity /\ next <= Len(Args) => Refusals'
  PROVE  Inv'
<1>1. pc' = "error" /\ call' = call /\ next' = next
  BY DEF Fail
<1>2. CallInv'
  BY <1>1, CallInvKept
<1>3. TableInv' /\ ShapeInv' /\ TypesInv'
  BY <1>1 DEF TableInv, ShapeInv, TypesInv
<1>4. Refusals'
  <2>1. Args' = Args /\ (Arity' <=> Arity)
    BY <1>1, SameCall
  <2>2. CASE ~(Arity /\ next <= Len(Args))
    BY <1>1, <2>1, <2>2 DEF Refusals
  <2>3. CASE Arity /\ next <= Len(Args)
    BY <2>3
  <2> QED
    BY <2>2, <2>3
<1> QED
  BY <1>2, <1>3, <1>4 DEF Inv

-----------------------------------------------------------------------------
(***************************************************************************)
(* Matching an argument.                                                   *)
(***************************************************************************)
\* What is known when the next argument is matched.
Matching ==
  /\ CallInv /\ TableInv /\ ShapeInv /\ Arity /\ Ellipsis # "var"
  /\ pc = "match" /\ next <= Len(Args)

\* Each argument that is matched has shown its symbols to the table.
LEMMA MatchedBefore ==
  ASSUME Matching
  PROVE  /\ IsTable(tbl) /\ next \in Nat /\ next \in 1 .. Len(sig.types) /\ next \in 1 .. Len(Args)
         /\ IsTypePattern(sig.types[next]) /\ IsType(Args[next]) /\ sig.types[next].ell = Ellipsis
         /\ \A i \in 1 .. next - 1 :
              /\ i \in 1 .. Len(Args) /\ ArgFits(tbl, sig.types[i], Args[i])
              /\ IsTypePattern(sig.types[i]) /\ sig.types[i].ell = Ellipsis /\ IsType(Args[i])
         /\ \A key \in DOMAIN tbl : \E i \in 1 .. next - 1 : key \in Names(sig.types[i])
<1>1. /\ IsTable(tbl) /\ next \in 1 .. Len(Args) + 1
      /\ \A i \in 1 .. next - 1 : ArgFits(tbl, sig.types[i], Args[i])
      /\ \A key \in DOMAIN tbl : \E i \in 1 .. next - 1 : key \in Names(sig.types[i])
  BY DEF Matching, TableInv
<1>2. Len(Args) \in Nat /\ Len(Args) <= Len(sig.types) /\ Len(sig.types) \in Nat
  BY ArityProperties, IsSeqProperties DEF Matching
<1>3. next \in Nat /\ next \in 1 .. Len(Args) /\ next <= Len(Args)
  BY <1>1, <1>2 DEF Matching
<1>4. next \in 1 .. Len(sig.types)
  BY <1>2, <1>3
<1>5. \A i \in 1 .. next : i \in 1 .. Len(sig.types) /\ i \in 1 .. Len(Args)
  BY <1>2, <1>3
<1>6. ASSUME NEW i \in 1 .. next
      PROVE  IsTypePattern(sig.types[i]) /\ sig.types[i].ell = Ellipsis /\ IsType(Args[i])
  BY <1>5, ArgPatterns DEF Matching
<1>7. next \in 1 .. next /\ \A i \in 1 .. next - 1 : i \in 1 .. next
  BY <1>3
<1> QED
  BY <1>1, <1>3, <1>4, <1>5, <1>6, <1>7

\* The shapes of the arguments that are matched.
LEMMA ShapesBefore ==
  ASSUME Matching, Ellipsis = "...", NEW i \in 1 .. next - 1
  PROVE  /\ i \in 1 .. Len(Args) /\ OuterShape(i) = OuterOf(sig.types[i], Args[i])
         /\ IsSeq(OuterShape(i)) /\ \A k \in 1 .. Len(OuterShape(i)) : OuterShape(i)[k] \in Nat
<1>1. PICK p, c : p = sig.types[i] /\ c = Args[i]
  OBVIOUS
<1>2. i \in 1 .. Len(Args) /\ ArgFits(tbl, p, c) /\ IsTypePattern(p) /\ p.ell = "..." /\ IsType(c)
  BY <1>1, MatchedBefore
<1>3. CanTake(p, c) /\ IsSeq(p.dims)
  BY <1>2 DEF ArgFits, IsTypePattern, IsPattern
<1>4. IsSeq(OuterOf(p, c)) /\ \A k \in 1 .. Len(OuterOf(p, c)) : OuterOf(p, c)[k] \in Nat
  BY <1>2, <1>3, OuterOfArg
<1>5. OuterShape(i) = OuterOf(p, c)
  BY <1>1 DEF OuterShape, OuterOf
<1> QED
  BY <1>1, <1>2, <1>4, <1>5

\* What the table knows of the symbols of the next pattern is what b says, if
\* the values b fit all arguments that are matched.
LEMMA KnowsBefore ==
  ASSUME Matching, NEW b, \A i \in 1 .. next - 1 : Denotes(b, sig.types[i], Args[i])
  PROVE  Knows(tbl, sig.types[next], b)
<1>1. PICK s, p : s = sig /\ p = sig.types[next]
  OBVIOUS
<1>2. /\ AllDimNames(s) \cap AllTypeNames(s) = {}
      /\ { s.types[k].ell : k \in DOMAIN s.types } \cap (AllDimNames(s) \cup AllTypeNames(s)) = {}
  BY <1>1 DEF Matching, CallInv, SignatureOK
<1>3. IsSeq(s.types)
  BY <1>1, ArityProperties DEF Matching
<1>4. DOMAIN s.types = 1 .. Len(s.types)
  BY <1>3, IsSeqProperties
<1>5. /\ next \in 1 .. Len(s.types) /\ next \in Nat /\ Len(Args) <= Len(s.types) /\ Len(Args) \in Nat
      /\ Len(s.types) \in Nat
  <2>1. next \in 1 .. Len(s.types) /\ next \in Nat
    BY <1>1, MatchedBefore
  <2>2. Len(Args) <= Len(s.types) /\ Len(Args) \in Nat
    BY <1>1, ArityProperties DEF Matching
  <2>3. Len(s.types) \in Nat
    BY <1>3, IsSeqProperties
  <2> QED
    BY <2>1, <2>2, <2>3
<1>6. \A i \in 1 .. Len(s.types) : DimNames(s.types[i]) \subseteq AllDimNames(s) /\ TypeNames(s.types[i]) \subseteq AllTypeNames(s)
  BY <1>4 DEF AllDimNames, AllTypeNames
<1>7. ASSUME NEW key \in DOMAIN tbl
      PROVE  /\ key \in DimNames(p) => Holds(tbl, key, "Shape", b[key])
             /\ key \in TypeNames(p) => Holds(tbl, key, "Type", b[key])
  <2>1. PICK i \in 1 .. next - 1 : key \in Names(sig.types[i])
    BY MatchedBefore
  <2>2. PICK q, c : q = sig.types[i] /\ c = Args[i]
    OBVIOUS
  <2>3. i \in 1 .. Len(s.types)
    BY <1>5
  <2>4. ArgFits(tbl, q, c) /\ IsTypePattern(q) /\ IsType(c) /\ Denotes(b, q, c)
    BY <2>2, MatchedBefore
  <2>5. Agrees(tbl, q, b)
    BY <2>4, ArgFitsAgrees DEF IsTypePattern, IsType
  <2>6. key \in Names(q)
    BY <2>1, <2>2
  <2>7. /\ DimNames(q) \subseteq AllDimNames(s) /\ TypeNames(q) \subseteq AllTypeNames(s)
        /\ DimNames(p) \subseteq AllDimNames(s) /\ TypeNames(p) \subseteq AllTypeNames(s)
        /\ q.ell \notin AllDimNames(s) \cup AllTypeNames(s)
    BY <1>1, <1>2, <1>4, <1>5, <1>6, <2>2, <2>3
  <2>8. CASE key \in DimNames(p)
    <3>1. key \in DimNames(q) /\ key \notin TypeNames(p)
      BY <1>2, <2>6, <2>7, <2>8 DEF Names
    <3>2. Holds(tbl, key, "Shape", b[key])
      BY <2>5, <3>1 DEF Agrees
    <3> QED
      BY <3>1, <3>2
  <2>9. CASE key \in TypeNames(p)
    <3>1. key \in TypeNames(q) /\ key \notin DimNames(p)
      BY <1>2, <2>6, <2>7, <2>9 DEF Names
    <3>2. Holds(tbl, key, "Type", b[key])
      BY <2>5, <3>1 DEF Agrees
    <3> QED
      BY <3>1, <3>2
  <2> QED
    BY <2>8, <2>9
<1> QED
  BY <1>1, <1>7, Zenon DEF Knows

LEMMA KnowsEllipsisBefore ==
  ASSUME Matching, NEW b, \A i \in 1 .. next : Denotes(b, sig.types[i], Args[i])
  PROVE  KnowsEllipsis(tbl, sig.types[next], Args[next])
<1>1. PICK q, d : q = sig.types[next] /\ d = Args[next]
  OBVIOUS
<1>2. IsTypePattern(q) /\ IsType(d) /\ q.ell = Ellipsis /\ next \in Nat /\ next \in 1 .. Len(Args)
  BY <1>1, MatchedBefore
<1>3. CASE q.ell \notin DOMAIN tbl
  <2>1. KnowsEllipsis(tbl, q, d)
    BY <1>3 DEF KnowsEllipsis
  <2> QED
    BY <1>1, <2>1
<1>4. CASE q.ell \in DOMAIN tbl
  <2>1. PICK i \in 1 .. next - 1 : q.ell \in Names(sig.types[i])
    BY <1>4, MatchedBefore
  <2>2. PICK p, c : p = sig.types[i] /\ c = Args[i]
    OBVIOUS
  <2>3. i \in 1 .. next /\ next \in 1 .. next
    BY <1>2
  <2>4. ArgFits(tbl, p, c) /\ IsTypePattern(p) /\ IsType(c) /\ p.ell = Ellipsis
    BY <2>2, MatchedBefore
  <2>5. Denotes(b, p, c) /\ Denotes(b, q, d)
    BY <1>1, <2>2, <2>3
  <2>6. IsPattern(p) /\ IsPattern(q) /\ IsSeq(c.dims) /\ IsSeq(d.dims) /\ p.ell # "var" /\ q.ell = p.ell
    BY <1>2, <2>4 DEF IsTypePattern, IsType
  <2>7. KnowsEllipsis(tbl, q, d)
    BY <2>4, <2>5, <2>6, EllipsisAgrees
  <2> QED
    BY <1>1, <2>7
<1> QED
  BY <1>3, <1>4

\* An argument is refused only if it cannot be accepted.
LEMMA RightlyRefused ==
  ASSUME Matching, NoMatch \in Match(tbl, sig.types[next], Args[next])
  PROVE  \/ \A b : \E i \in DOMAIN Args : ~Denotes(b, sig.types[i], Args[i])
         \/ Ellipsis = "..." /\ \E i, j \in DOMAIN Args : ~Compatible(OuterShape(i), OuterShape(j))
<1>1. PICK p, c : p = sig.types[next] /\ c = Args[next]
  OBVIOUS
<1>2. /\ IsTable(tbl) /\ IsTypePattern(p) /\ IsType(c) /\ p.ell = Ellipsis
      /\ next \in Nat /\ next \in 1 .. Len(Args)
  BY <1>1, MatchedBefore
<1>3. DOMAIN Args = 1 .. Len(Args) /\ Len(Args) \in Nat
  BY ArgsProperties, IsSeqProperties DEF Matching
<1>4. SUFFICES ASSUME NEW b, \A i \in DOMAIN Args : Denotes(b, sig.types[i], Args[i]),
                      ~(Ellipsis = "..." /\ \E i, j \in DOMAIN Args : ~Compatible(OuterShape(i), OuterShape(j)))
               PROVE  FALSE
  OBVIOUS
<1>5. \A i \in 1 .. next : i \in DOMAIN Args /\ Denotes(b, sig.types[i], Args[i])
  BY <1>2, <1>3, <1>4
<1>6. Knows(tbl, p, b)
  <2>1. \A i \in 1 .. next - 1 : i \in 1 .. next
    BY <1>2
  <2> QED
    BY <1>1, <1>5, <2>1, KnowsBefore
<1>7. KnowsEllipsis(tbl, p, c)
  BY <1>1, <1>5, KnowsEllipsisBefore
<1>8. Denotes(b, p, c)
  BY <1>1, <1>2, <1>5
<1>9. ASSUME p.ell = "...", "..." \in DOMAIN tbl
      PROVE  Resolve(tbl["..."].value, OuterOf(p, c)) # NoShape
  <2>1. PICK v, w : v = tbl["..."].value /\ w = OuterOf(p, c)
    OBVIOUS
  <2> DEFINE ws == { OuterShape(i) : i \in 1 .. next - 1 }
  <2>2. CommonShape(v, ws)
    <3>1. \E i \in 1 .. next - 1 : TRUE
      BY <1>9, MatchedBefore
    <3>2. next > 1
      BY <1>2, <3>1
    <3> QED
      BY <1>2, <1>9, <2>1, <3>2 DEF Matching, ShapeInv
  <2>3. ASSUME NEW x \in ws
        PROVE  IsSeq(x) /\ \A k \in 1 .. Len(x) : x[k] \in Nat
    <3>1. PICK i \in 1 .. next - 1 : x = OuterShape(i)
      OBVIOUS
    <3> QED
      BY <1>2, <1>9, <3>1, ShapesBefore
  <2>4. CanTake(p, c)
    <3>1. DenotesParts(b, p, c)
      BY <1>2, <1>8, DenotesSplit DEF IsTypePattern, IsPattern, IsType
    <3> QED
      BY <1>9, <3>1 DEF DenotesParts
  <2>5. IsSeq(w) /\ \A k \in 1 .. Len(w) : w[k] \in Nat
    BY <1>2, <1>9, <2>1, <2>4, OuterOfArg DEF IsTypePattern, IsPattern
  <2>6. w = OuterShape(next)
    BY <1>1, <2>1 DEF OuterShape, OuterOf
  <2>7. \A x \in ws : Compatible(x, w)
    <3>1. \A i \in 1 .. next - 1 : i \in DOMAIN Args /\ next \in DOMAIN Args
      BY <1>2, <1>3
    <3> QED
      BY <1>2, <1>4, <1>9, <2>6, <3>1
  <2> HIDE DEF ws
  <2>8. Resolve(v, w) # NoShape
    BY <2>2, <2>3, <2>5, <2>7, NoCommonShape
  <2> QED
    BY <2>1, <2>8
<1>10. NoMatch \notin Match(tbl, p, c)
  BY <1>2, <1>6, <1>7, <1>8, <1>9, MatchComplete DEF IsType
<1> QED
  BY <1>1, <1>10

LEMMA MatchArgStep ==
  ASSUME CallInv, TableInv, ShapeInv, Ellipsis # "var", MatchArg
  PROVE  Inv'
<1>1. Arity /\ Matching
  BY DEF MatchArg, CallInv, Matching
<1>2. PICK p, c : p = sig.types[next] /\ c = Args[next]
  OBVIOUS
<1>3. PICK u \in Match(tbl, p, c) :
        IF u = NoMatch THEN Fail
        ELSE tbl' = u /\ next' = next + 1 /\ UNCHANGED <<call, types, outer, pc, prev>>
  BY <1>2 DEF MatchArg
<1>4. CASE u = NoMatch
  <2>1. Fail /\ NoMatch \in Match(tbl, sig.types[next], Args[next])
    BY <1>2, <1>3, <1>4
  <2>2. \/ \A b : \E i \in DOMAIN Args : ~Denotes(b, sig.types[i], Args[i])
        \/ Ellipsis = "..." /\ \E i, j \in DOMAIN Args : ~Compatible(OuterShape(i), OuterShape(j))
    BY <1>1, <2>1, RightlyRefused
  <2>3. /\ sig' = sig /\ Args' = Args /\ Ellipsis' = Ellipsis
        /\ \A i : OuterShape(i)' = OuterShape(i)
    BY <2>1, SameCall DEF Fail
  <2>4. \/ \A b : \E i \in DOMAIN Args' : ~Denotes(b, sig'.types[i], Args'[i])
        \/ Ellipsis' = "..." /\ \E i, j \in DOMAIN Args' : ~Compatible(OuterShape(i)', OuterShape(j)')
    BY <2>2, <2>3
  <2>5. Refusals'
    BY <2>4 DEF Refusals
  <2> QED
    BY <2>1, <2>5, FailStep
<1>5. CASE u # NoMatch
  <2>1. tbl' = u /\ next' = next + 1 /\ call' = call /\ pc' = pc /\ pc = "match"
    BY <1>1, <1>3, <1>5 DEF Matching
  <2>2. /\ sig' = sig /\ Args' = Args /\ Ellipsis' = Ellipsis
        /\ \A i : OuterShape(i)' = OuterShape(i)
    BY <2>1, SameCall
  <2>3. /\ IsTable(tbl) /\ IsTypePattern(p) /\ IsType(c) /\ p.ell = Ellipsis
        /\ next \in Nat /\ next \in 1 .. Len(Args)
    BY <1>1, <1>2, MatchedBefore
  <2>4. Len(Args) \in Nat
    BY <1>1, ArityProperties
  <2>5. ArgMatched(tbl, p, c, u)
    BY <1>3, <1>5, <2>3, MatchSound DEF IsType
  <2>6. CallInv'
    BY <1>1, <2>1, CallInvKept
  <2>7. TableInv'
    <3>1. next' \in 1 .. Len(Args) + 1 /\ IsTable(u)
      BY <2>1, <2>3, <2>4, <2>5 DEF ArgMatched
    <3>2. ASSUME NEW i \in 1 .. next
          PROVE  ArgFits(u, sig.types[i], Args[i])
      <4>1. CASE i = next
        BY <1>2, <2>5, <4>1 DEF ArgMatched
      <4>2. CASE i # next
        <5>1. i \in 1 .. next - 1
          BY <2>3, <4>2
        <5>2. PICK q, d : q = sig.types[i] /\ d = Args[i]
          OBVIOUS
        <5>3. ArgFits(tbl, q, d) /\ IsTypePattern(q)
          BY <1>1, <5>1, <5>2, MatchedBefore
        <5>4. ArgFits(u, q, d)
          BY <2>5, <5>3, ArgFitsKeeps DEF ArgMatched
        <5> QED
          BY <5>2, <5>4
      <4> QED
        BY <4>1, <4>2
    <3>3. ASSUME NEW key \in DOMAIN u
          PROVE  \E i \in 1 .. next : key \in Names(sig.types[i])
      <4>1. key \in DOMAIN tbl \/ key \in Names(p)
        BY <2>5, <3>3 DEF ArgMatched, Adds, Names
      <4>2. CASE key \in DOMAIN tbl
        <5>1. PICK i \in 1 .. next - 1 : key \in Names(sig.types[i])
          BY <1>1, <4>2, MatchedBefore
        <5>2. i \in 1 .. next
          BY <2>3
        <5> QED
          BY <5>1, <5>2
      <4>3. CASE key \in Names(p)
        <5>1. next \in 1 .. next
          BY <2>3
        <5> QED
          BY <1>2, <4>3, <5>1
      <4> QED
        BY <4>1, <4>2, <4>3
    <3>4. next' - 1 = next
      BY <2>1, <2>3
    <3> QED
      BY <2>1, <2>2, <3>1, <3>2, <3>3, <3>4 DEF TableInv
  <2>8. ShapeInv'
    <3>1. SUFFICES ASSUME Ellipsis = "..."
                   PROVE  "..." \in DOMAIN u /\ CommonShape(u["..."].value, { OuterShape(i) : i \in 1 .. next })
      <4>1. next' - 1 = next
        BY <2>1, <2>3
      <4> QED
        BY <2>1, <2>2, <4>1 DEF ShapeInv
    <3>2. PICK w : w = OuterOf(p, c)
      OBVIOUS
    <3>3. CanTake(p, c) /\ p.ell = "..."
      BY <2>3, <2>5, <3>1 DEF ArgMatched, ArgFits
    <3>4. IsSeq(w)
      BY <2>3, <3>2, <3>3, OuterOfArg DEF IsTypePattern, IsPattern
    <3>5. w = OuterShape(next)
      BY <1>2, <3>2 DEF OuterShape, OuterOf
    <3> DEFINE ws == { OuterShape(i) : i \in 1 .. next - 1 }
    <3>6. { OuterShape(i) : i \in 1 .. next } = ws \cup {w}
      <4>1. \A i : i \in 1 .. next <=> i \in 1 .. next - 1 \/ i = next
        BY <2>3
      <4> QED
        BY <3>5, <4>1
    <3>7. \A x \in ws : IsSeq(x)
      <4>1. ASSUME NEW x \in ws
            PROVE  IsSeq(x)
        <5>1. PICK i \in 1 .. next - 1 : x = OuterShape(i)
          OBVIOUS
        <5> QED
          BY <1>1, <3>1, <5>1, ShapesBefore
      <4> QED
        BY <4>1
    <3>8. "..." \in DOMAIN u
      BY <2>5, <3>3 DEF ArgMatched
    <3>9. CASE "..." \in DOMAIN tbl
      <4>1. PICK v : v = tbl["..."].value
        OBVIOUS
      <4>2. Resolve(v, w) # NoShape /\ u["..."].value = Resolve(v, w)
        BY <2>5, <3>2, <3>3, <3>9, <4>1 DEF ArgMatched
      <4>3. CommonShape(v, ws)
        <5>1. \E i \in 1 .. next - 1 : TRUE
          BY <1>1, <3>9, MatchedBefore
        <5>2. next > 1
          BY <2>3, <5>1
        <5> QED
          BY <1>1, <3>1, <4>1, <5>2 DEF Matching, ShapeInv
      <4> HIDE DEF ws
      <4>4. CommonShape(Resolve(v, w), ws \cup {w})
        BY <3>4, <3>7, <4>2, <4>3, NextShape
      <4> QED
        BY <3>6, <3>8, <4>2, <4>4
    <3>10. CASE "..." \notin DOMAIN tbl
      <4>1. u["..."].value = w
        BY <2>5, <3>2, <3>3, <3>10 DEF ArgMatched
      <4>2. ~(next > 1)
        BY <1>1, <3>1, <3>10 DEF Matching, ShapeInv
      <4>3. next = 1 /\ 1 .. next - 1 = {}
        BY <2>3, <4>2
      <4>4. ws \cup {w} = {w}
        BY <4>3
      <4>5. CommonShape(w, {w})
        BY <3>4, FirstShape
      <4> HIDE DEF ws
      <4> QED
        BY <3>6, <3>8, <4>1, <4>4, <4>5
    <3> QED
      BY <3>9, <3>10
  <2>9. TypesInv'
    BY <2>1 DEF TypesInv
  <2>10. Refusals'
    BY <2>1 DEF Refusals
  <2> QED
    BY <2>6, <2>7, <2>8, <2>9, <2>10 DEF Inv
<1> QED
  BY <1>4, <1>5
-----------------------------------------------------------------------------
(***************************************************************************)
(* The other steps of the check.                                           *)
(***************************************************************************)
LEMMA CheckArityStep ==
  ASSUME CallInv, TableInv, CheckArity
  PROVE  Inv'
<1>1. CASE ~Arity
  <2>1. Fail
    BY <1>1 DEF CheckArity
  <2> QED
    BY <1>1, <2>1, FailStep
<1>2. CASE Arity
  <2>1. pc = "start" /\ pc' = "match" /\ call' = call /\ tbl' = tbl /\ next' = next
    BY <1>2 DEF CheckArity
  <2>2. tbl = <<>> /\ next = 1
    BY <2>1 DEF TableInv
  <2>3. Args' = Args
    BY <2>1, SameCall
  <2>4. Len(Args) \in Nat
    BY <1>2, ArityProperties
  <2>5. CallInv'
    BY <1>2, <2>1, CallInvKept
  <2>6. DOMAIN tbl' = {} /\ IsTable(tbl')
    BY <2>1, <2>2 DEF IsTable
  <2>7. next' \in 1 .. Len(Args) + 1 /\ 1 .. next' - 1 = {}
    BY <2>1, <2>2, <2>4
  <2>8. TableInv'
    BY <2>1, <2>3, <2>6, <2>7 DEF TableInv
  <2>9. ShapeInv' /\ TypesInv' /\ Refusals'
    BY <2>1, <2>2 DEF ShapeInv, TypesInv, Refusals
  <2> QED
    BY <2>5, <2>8, <2>9 DEF Inv
<1> QED
  BY <1>1, <1>2

\* The symbols of dimensions stand for lengths.
LEMMA FitsLengths ==
  ASSUME NEW u, NEW p, NEW c, NEW key
  PROVE  /\ IsPattern(p) /\ IsType(c) /\ Fits(u, p, c) /\ key \in DimNames(p)
         => IsLength(u, key)
<1>0. SUFFICES ASSUME IsPattern(p), IsType(c), Fits(u, p, c), key \in DimNames(p)
               PROVE  IsLength(u, key)
  OBVIOUS
<1>1. IsSeq(p.dims) /\ IsSeq(c.dims) /\ Len(p.dims) <= Len(c.dims)
  BY <1>0 DEF IsPattern, IsType, Fits
<1>2. Len(p.dims) \in Nat /\ Len(c.dims) \in Nat
  BY <1>1, IsSeqProperties
<1>3. PICK k \in 1 .. Len(p.dims) : p.dims[k].kind = "sym" /\ p.dims[k].name = key
  BY <1>0, <1>1, SymbolsNamed
<1>4. k \in Nat /\ 1 <= k /\ k <= Len(c.dims) /\ k \in 1 .. Len(c.dims)
  BY <1>1, <1>2
<1>5. From(c, k).dims[1] = c.dims[k]
  BY <1>1, <1>4, FromFirst
<1>6. PICK q, d : q = p.dims[k] /\ d = From(c, k)
  OBVIOUS
<1>7. FitsDim(u, q, d) /\ q.kind = "sym" /\ q.name = key
  BY <1>0, <1>3, <1>6 DEF Fits
<1>8. d.dims[1].kind = "fixed" /\ Holds(u, key, "Shape", d.dims[1].shape)
  BY <1>7 DEF FitsDim
<1>9. c.dims[k].shape \in Nat
  BY <1>0, <1>4, <1>5, <1>6, <1>8 DEF IsType
<1> QED
  BY <1>5, <1>6, <1>8, <1>9 DEF Holds, IsLength

LEMMA RestIsType ==
  ASSUME NEW p, NEW c, IsPattern(p), IsType(c), p.ell # "none" => CanTake(p, c)
  PROVE  /\ IsType(Rest(p, c))
         /\ p.ell # "none" => Len(Rest(p, c).dims) = Len(p.dims)
<1>1. IsSeq(p.dims) /\ IsSeq(c.dims)
  BY DEF IsPattern, IsType
<1>2. Len(p.dims) \in Nat /\ Len(c.dims) \in Nat
  BY <1>1, IsSeqProperties
<1>3. CASE p.ell = "none"
  BY <1>3 DEF Rest
<1>4. CASE p.ell # "none"
  <2>1. Taken(p, c) >= 0
    BY <1>4 DEF CanTake
  <2>2. PICK i : i = Taken(p, c) + 1
    OBVIOUS
  <2>3. i \in Nat /\ 1 <= i /\ i <= Len(c.dims) + 1 /\ Len(c.dims) - i + 1 = Len(p.dims)
    <3>1. PICK l, m, n : l = Len(p.dims) /\ m = Len(c.dims) /\ n = Taken(p, c)
      OBVIOUS
    <3>2. l \in Nat /\ m \in Nat /\ n = m - l /\ n >= 0 /\ i = n + 1
      BY <1>2, <2>1, <2>2, <3>1 DEF Taken
    <3>3. i \in Nat /\ 1 <= i /\ i <= m + 1 /\ m - i + 1 = l
      BY <3>2
    <3> QED
      BY <3>1, <3>3
  <2>4. /\ IsSeq(From(c, i).dims) /\ Len(From(c, i).dims) = Len(p.dims)
        /\ \A k \in 1 .. Len(p.dims) : From(c, i).dims[k] = c.dims[i + k - 1]
    BY <1>1, <2>3, FromProperties
  <2>5. \A k \in 1 .. Len(p.dims) : i + k - 1 \in 1 .. Len(c.dims)
    BY <1>2, <2>3
  <2>6. IsType(From(c, i))
    BY <2>4, <2>5 DEF IsType
  <2> QED
    BY <1>4, <2>2, <2>4, <2>6 DEF Rest
<1> QED
  BY <1>3, <1>4

LEMMA ArgLengths ==
  ASSUME NEW u, NEW p, NEW c, NEW key
  PROVE  /\ IsPattern(p) /\ IsType(c) /\ ArgFits(u, p, c) /\ key \in DimNames(p)
         => IsLength(u, key)
<1>0. SUFFICES ASSUME IsPattern(p), IsType(c), ArgFits(u, p, c), key \in DimNames(p)
               PROVE  IsLength(u, key)
  OBVIOUS
<1>1. p.ell # "none" => CanTake(p, c)
  BY <1>0 DEF ArgFits
<1>2. PICK d : d = Rest(p, c)
  OBVIOUS
<1>3. IsType(d) /\ Fits(u, p, d)
  BY <1>0, <1>1, <1>2, RestIsType DEF ArgFits, Rest
<1> QED
  BY <1>0, <1>3, FitsLengths

\* What is known when all arguments are matched.
Matched ==
  /\ CallInv /\ TableInv /\ ShapeInv /\ Arity /\ Ellipsis # "var"
  /\ pc \notin {"start", "error"} /\ next = Len(Args) + 1

LEMMA MatchedAll ==
  ASSUME Matched
  PROVE  /\ IsTable(tbl) /\ next \in Nat /\ Len(Args) \in Nat /\ next - 1 = Len(Args)
         /\ \A i \in 1 .. Len(Args) :
              /\ i \in 1 .. Len(sig.types) /\ ArgFits(tbl, sig.types[i], Args[i])
              /\ IsTypePattern(sig.types[i]) /\ sig.types[i].ell = Ellipsis /\ IsType(Args[i])
<1>1. Len(Args) \in Nat /\ Len(Args) <= Len(sig.types) /\ Len(sig.types) \in Nat
  BY ArityProperties, IsSeqProperties DEF Matched
<1>2. next \in Nat /\ next - 1 = Len(Args)
  BY <1>1 DEF Matched
<1>3. IsTable(tbl) /\ \A i \in 1 .. Len(Args) : ArgFits(tbl, sig.types[i], Args[i])
  BY <1>2 DEF Matched, TableInv
<1>4. \A i \in 1 .. Len(Args) : i \in 1 .. Len(sig.types)
  BY <1>1
<1>5. ASSUME NEW i \in 1 .. Len(Args)
      PROVE  IsTypePattern(sig.types[i]) /\ sig.types[i].ell = Ellipsis /\ IsType(Args[i])
  BY <1>4, ArgPatterns DEF Matched
<1> QED
  BY <1>1, <1>2, <1>3, <1>4, <1>5

LEMMA MatchedLengths ==
  ASSUME Matched, NEW i \in 1 .. Len(Args), NEW key \in DimNames(sig.types[i])
  PROVE  IsLength(tbl, key)
<1>1. PICK p, c : p = sig.types[i] /\ c = Args[i]
  OBVIOUS
<1>2. ArgFits(tbl, p, c) /\ IsTypePattern(p) /\ IsType(c) /\ key \in DimNames(p)
  BY <1>1, MatchedAll
<1> QED
  BY <1>2, ArgLengths DEF IsTypePattern

\* The symbols of an input.
LEMMA InputNames ==
  ASSUME Matched, NEW S, S = UNION { DimNames(sig.types[i]) : i \in 1 .. sig.nin }, NEW key \in S
  PROVE  IsLength(tbl, key)
<1>1. PICK i \in 1 .. sig.nin : key \in DimNames(sig.types[i])
  OBVIOUS
<1>2. i \in 1 .. Len(Args)
  BY ArityProperties DEF Matched
<1> QED
  BY <1>1, <1>2, MatchedLengths

LEMMA PdistShapesAreLengths ==
  ASSUME NEW n \in Nat, NEW m, NEW p \in PdistShapes(n, m)
  PROVE  p \in Nat
<1>1. n # 0 /\ p = (n * (n - 1)) \div 2
  BY DEF PdistShapes
<1>2. PICK k \in Nat : k = n - 1
  BY <1>1
<1>3. PICK l \in Nat : l = n * k
  OBVIOUS
<1>4. p = l \div 2
  BY <1>1, <1>2, <1>3
<1> QED
  BY <1>4

LEMMA ResolveConstraintStep ==
  ASSUME CallInv, TableInv, ShapeInv, Ellipsis # "var", ResolveConstraint
  PROVE  Inv'
<1>1. pc = "match" /\ Arity
  BY DEF ResolveConstraint, CallInv
<1>2. next \in 1 .. Len(Args) + 1 /\ next > Len(Args)
  BY <1>1 DEF ResolveConstraint, TableInv
<1>3. Len(Args) \in Nat
  BY <1>1, ArityProperties
<1>4. next = Len(Args) + 1
  BY <1>2, <1>3
<1>5. Matched
  BY <1>1, <1>4 DEF Matched
<1>6. CASE Fail
  <2>1. ~(next <= Len(Args))
    BY <1>3, <1>4
  <2> QED
    BY <1>6, <2>1, FailStep
<1>7. ASSUME Keeps(tbl, tbl'), "..." \in DOMAIN tbl => "..." \in DOMAIN tbl' /\ tbl'["..."] = tbl["..."], IsTable(tbl'),
             sig.pdist /\ "P" \in AllDimNames(sig) =>
               "P" \in DOMAIN tbl' /\ tbl'["P"].tag = "Shape" /\ tbl'["P"].value \in Nat,
             pc' = "infer", call' = call, next' = next
      PROVE  Inv'
  <2>1. /\ sig' = sig /\ Args' = Args /\ Ellipsis' = Ellipsis
        /\ \A i : OuterShape(i)' = OuterShape(i)
    BY <1>7, SameCall
  <2>2. CallInv'
    BY <1>1, <1>7, CallInvKept
  <2>3. ASSUME NEW i \in 1 .. next - 1
        PROVE  ArgFits(tbl', sig.types[i], Args[i])
    <3>1. i \in 1 .. Len(Args)
      BY <1>5, MatchedAll
    <3>2. PICK p, c, u : p = sig.types[i] /\ c = Args[i] /\ u = tbl'
      OBVIOUS
    <3>3. ArgFits(tbl, p, c) /\ IsTypePattern(p) /\ Keeps(tbl, u)
      BY <1>5, <1>7, <3>1, <3>2, MatchedAll
    <3>4. ArgFits(u, p, c)
      BY <3>3, ArgFitsKeeps
    <3> QED
      BY <3>2, <3>4
  <2>4. TableInv'
    BY <1>2, <1>4, <1>7, <2>1, <2>3 DEF TableInv, IsLength
  <2>5. ShapeInv'
    BY <1>1, <1>7, <2>1 DEF ShapeInv
  <2>6. TypesInv' /\ Refusals'
    BY <1>7 DEF TypesInv, Refusals
  <2> QED
    BY <2>2, <2>4, <2>5, <2>6 DEF Inv
<1>8. CASE ~sig.pdist
  <2>1. tbl' = tbl /\ pc' = "infer" /\ call' = call /\ next' = next
    BY <1>8 DEF ResolveConstraint
  <2>2. Keeps(tbl, tbl') /\ IsTable(tbl')
    BY <1>5, <2>1, MatchedAll DEF Keeps
  <2> QED
    BY <1>7, <1>8, <2>1, <2>2
<1>9. CASE sig.pdist /\ ~Fail
  <2>1. PICK p \in PdistShapes(tbl["N"].value, tbl["M"].value) :
          /\ tbl' = IF "P" \in DOMAIN tbl THEN tbl ELSE Bind(tbl, "P", [tag |-> "Shape", value |-> p])
          /\ pc' = "infer" /\ call' = call /\ next' = next
    BY <1>9 DEF ResolveConstraint
  <2>2. CASE "P" \notin DOMAIN tbl
    <3>1. PICK entry : entry = [tag |-> "Shape", value |-> p]
      OBVIOUS
    <3>2. tbl' = Bind(tbl, "P", entry) /\ entry.value = p /\ entry.tag = "Shape"
      BY <2>1, <2>2, <3>1
    <3>3. DOMAIN tbl' = DOMAIN tbl \cup {"P"} /\ tbl'["P"] = entry /\ \A key \in DOMAIN tbl : tbl'[key] = tbl[key]
      BY <2>2, <3>2 DEF Bind
    <3>4. Keeps(tbl, tbl') /\ IsTable(tbl') /\ ("..." \in DOMAIN tbl => tbl'["..."] = tbl["..."])
      BY <1>5, <3>3, MatchedAll DEF Keeps, IsTable
    <3>5. p \in Nat
      <4>1. PICK S : S = UNION { DimNames(sig.types[i]) : i \in 1 .. sig.nin }
        OBVIOUS
      <4>2. "N" \in S
        BY <1>9, <4>1 DEF CallInv, SignatureOK
      <4>3. tbl["N"].value \in Nat
        BY <1>5, <4>1, <4>2, InputNames DEF IsLength
      <4> QED
        BY <2>1, <4>3, PdistShapesAreLengths
    <3> QED
      BY <1>7, <2>1, <3>2, <3>3, <3>4, <3>5
  <2>3. CASE "P" \in DOMAIN tbl
    <3>1. tbl' = tbl
      BY <2>1, <2>3
    <3>2. Keeps(tbl, tbl') /\ IsTable(tbl')
      BY <1>5, <3>1, MatchedAll DEF Keeps
    <3>3. ASSUME "P" \in AllDimNames(sig)
          PROVE  IsLength(tbl, "P")
      <4>1. PICK i \in 1 .. next - 1 : "P" \in Names(sig.types[i])
        BY <1>1, <2>3 DEF TableInv
      <4>2. PICK s : s = sig
        OBVIOUS
      <4>3. /\ AllDimNames(s) \cap AllTypeNames(s) = {}
            /\ { s.types[k].ell : k \in DOMAIN s.types } \cap (AllDimNames(s) \cup AllTypeNames(s)) = {}
        BY <4>2 DEF CallInv, SignatureOK
      <4>4. i \in 1 .. Len(Args)
        BY <1>5, MatchedAll
      <4>5. i \in DOMAIN s.types
        <5>1. IsSeq(s.types) /\ i \in 1 .. Len(s.types)
          BY <1>1, <1>5, <4>2, <4>4, ArityProperties, MatchedAll
        <5> QED
          BY <5>1, IsSeqProperties
      <4>6. "P" \notin TypeNames(s.types[i]) /\ "P" # s.types[i].ell
        BY <3>3, <4>2, <4>3, <4>5 DEF AllTypeNames
      <4>7. "P" \in DimNames(sig.types[i])
        BY <4>1, <4>2, <4>6 DEF Names
      <4> QED
        BY <1>5, <4>4, <4>7, MatchedLengths
    <3> QED
      BY <1>7, <2>1, <2>3, <3>1, <3>2, <3>3 DEF IsLength
  <2> QED
    BY <2>2, <2>3
<1> QED
  BY <1>6, <1>8, <1>9
-----------------------------------------------------------------------------
(***************************************************************************)
(* Inferred outputs.                                                       *)
(***************************************************************************)
\* Dimensions as arguments and outputs have them.
AreDims(dims) == IsSeq(dims) /\ \A k \in 1 .. Len(dims) : dims[k].kind = "fixed" => dims[k].shape \in Nat

LEMMA AddedDims ==
  ASSUME NEW ns, IsSeq(ns), \A k \in 1 .. Len(ns) : ns[k] \in Nat, NEW dims, AreDims(dims)
  PROVE  AreDims(AddDims(ns, dims)) /\ Len(AddDims(ns, dims)) = Len(ns) + Len(dims)
<1>1. IsSeq(dims)
  BY DEF AreDims
<1>2. PICK b : b = AddDims(ns, dims)
  OBVIOUS
<1>3. /\ IsSeq(b) /\ Len(b) = Len(ns) + Len(dims)
      /\ \A k \in 1 .. Len(ns) : b[k].shape = ns[k]
      /\ \A k \in 1 .. Len(dims) : b[Len(ns) + k] = dims[k]
  BY <1>1, <1>2, AddDimsProperties
<1>4. Len(ns) \in Nat /\ Len(dims) \in Nat
  BY <1>1, IsSeqProperties
<1>5. ASSUME NEW k \in 1 .. Len(b), b[k].kind = "fixed"
      PROVE  b[k].shape \in Nat
  <2>1. CASE k <= Len(ns)
    BY <1>3, <1>4, <2>1
  <2>2. CASE ~(k <= Len(ns))
    <3>1. k - Len(ns) \in 1 .. Len(dims) /\ Len(ns) + (k - Len(ns)) = k
      BY <1>3, <1>4, <2>2
    <3>2. b[k] = dims[k - Len(ns)]
      BY <1>3, <3>1
    <3> QED
      BY <1>5, <3>1, <3>2 DEF AreDims
  <2> QED
    BY <2>1, <2>2
<1> QED
  BY <1>2, <1>3, <1>5 DEF AreDims

LEMMA AddedArrayDims ==
  ASSUME NEW n \in Nat, NEW dims, AreDims(dims)
  PROVE  AreDims(ArrayDims(n) \o dims) /\ Len(ArrayDims(n) \o dims) = n + Len(dims)
<1>1. IsSeq(dims)
  BY DEF AreDims
<1>2. PICK a, b : a = ArrayDims(n) /\ b = a \o dims
  OBVIOUS
<1>3. a = [k \in 1 .. n |-> a[k]] /\ \A k \in 1 .. n : a[k].kind = "array"
  BY <1>2 DEF ArrayDims
<1>4. IsSeq(a) /\ Len(a) = n
  BY <1>3, FunctionIsSeq
<1>5. /\ IsSeq(b) /\ Len(b) = n + Len(dims)
      /\ \A k \in 1 .. n : b[k] = a[k]
      /\ \A k \in 1 .. Len(dims) : b[n + k] = dims[k]
  <2>1. /\ IsSeq(a \o dims) /\ Len(a \o dims) = Len(a) + Len(dims)
        /\ \A k \in 1 .. Len(a) : (a \o dims)[k] = a[k]
        /\ \A k \in 1 .. Len(dims) : (a \o dims)[Len(a) + k] = dims[k]
    BY <1>1, <1>4, ConcatIsSeq
  <2>2. b = a \o dims /\ Len(a) = n
    BY <1>2, <1>4
  <2> QED
    BY <2>1, <2>2
<1>6. Len(dims) \in Nat
  BY <1>1, IsSeqProperties
<1>7. ASSUME NEW k \in 1 .. Len(b), b[k].kind = "fixed"
      PROVE  b[k].shape \in Nat
  <2>1. CASE k <= n
    <3>1. b[k].kind = "array"
      BY <1>3, <1>5, <1>6, <2>1
    <3> QED
      BY <1>7, <3>1
  <2>2. CASE ~(k <= n)
    <3>1. k - n \in 1 .. Len(dims) /\ n + (k - n) = k
      BY <1>5, <1>6, <2>2
    <3>2. b[k] = dims[k - n]
      BY <1>5, <3>1
    <3> QED
      BY <1>7, <3>1, <3>2 DEF AreDims
  <2> QED
    BY <2>1, <2>2
<1> QED
  BY <1>2, <1>5, <1>7 DEF AreDims

LEMMA FortranDims ==
  ASSUME NEW dims, IsSeq(dims)
  PROVE  /\ IsSeq(ToFortran(dims)) /\ Len(ToFortran(dims)) = Len(dims)
         /\ \A k \in 1 .. Len(dims) : ToFortran(dims)[k].shape = dims[k].shape /\ ToFortran(dims)[k].kind = "fixed"
<1>1. PICK b : b = ToFortran(dims)
  OBVIOUS
<1>2. Len(dims) \in Nat /\ DOMAIN dims = 1 .. Len(dims)
  BY IsSeqProperties
<1>3. /\ DOMAIN b = 1 .. Len(dims)
      /\ \A k \in 1 .. Len(dims) : b[k].shape = dims[k].shape /\ b[k].kind = "fixed"
  BY <1>1, <1>2 DEF ToFortran, Fixed
<1>4. b = [k \in 1 .. Len(dims) |-> b[k]]
  <2>1. PICK e : b = [k \in 1 .. Len(dims) |-> e[k]]
    <3>1. PICK e : e = [k \in DOMAIN dims |-> Fixed(dims[k].shape, Product(Shape(SubSeq(dims, 1, k - 1))))]
      OBVIOUS
    <3>2. b = e /\ b = [k \in 1 .. Len(dims) |-> e[k]]
      BY <1>1, <1>2, <3>1 DEF ToFortran
    <3> QED
      BY <3>2
  <2> QED
    BY <2>1
<1>5. IsSeq(b) /\ Len(b) = Len(dims)
  BY <1>2, <1>4, FunctionIsSeq
<1> QED
  BY <1>1, <1>3, <1>5

\* Dimensions of which those from first on have Fortran steps.
LEMMA MixedDims ==
  ASSUME NEW ns, IsSeq(ns), \A k \in 1 .. Len(ns) : ns[k] \in Nat, NEW first \in 1 .. Len(ns)
  PROVE  LET dims == AddDims(SubSeq(ns, 1, first - 1), ToFortran(AddDims(SubSeq(ns, first, Len(ns)), <<>>)))
         IN AreDims(dims) /\ Len(dims) = Len(ns)
<1>1. PICK n : n = Len(ns)
  OBVIOUS
<1>2. n \in Nat /\ first \in 1 .. n
  BY <1>1, IsSeqProperties
<1>3. PICK v, w, none : v = SubSeq(ns, 1, first - 1) /\ w = SubSeq(ns, first, n) /\ none = <<>>
  OBVIOUS
<1>4. /\ IsSeq(v) /\ Len(v) = first - 1 /\ \A k \in 1 .. Len(v) : v[k] \in Nat
      /\ IsSeq(w) /\ Len(w) = n - first + 1 /\ \A k \in 1 .. Len(w) : w[k] \in Nat
  <2>1. /\ IsSeq(v) /\ Len(v) = (first - 1) - 1 + 1
        /\ \A k \in 1 .. (first - 1) - 1 + 1 : v[k] = ns[1 + k - 1]
    <3>1. 1 \in Int /\ first - 1 \in Int /\ 1 <= 1 /\ first - 1 <= Len(ns) /\ 1 <= (first - 1) + 1
      BY <1>1, <1>2
    <3> QED
      BY <1>3, <3>1, SubSeqIsSeq
  <2>2. /\ IsSeq(w) /\ Len(w) = n - first + 1
        /\ \A k \in 1 .. n - first + 1 : w[k] = ns[first + k - 1]
    <3>1. first \in Int /\ n \in Int /\ 1 <= first /\ n <= Len(ns) /\ first <= n + 1
      BY <1>1, <1>2
    <3> QED
      BY <1>3, <3>1, SubSeqIsSeq
  <2>3. Len(v) = first - 1 /\ \A k \in 1 .. Len(v) : v[k] = ns[k] /\ k \in 1 .. n
    BY <1>2, <2>1
  <2>4. \A k \in 1 .. Len(w) : w[k] = ns[first + k - 1] /\ first + k - 1 \in 1 .. n
    BY <1>2, <2>2
  <2> QED
    BY <1>1, <2>1, <2>2, <2>3, <2>4
<1>5. IsSeq(none) /\ Len(none) = 0
  BY <1>3 DEF IsSeq
<1>6. PICK c, f, m : c = AddDims(w, none) /\ f = ToFortran(c) /\ m = AddDims(v, f)
  OBVIOUS
<1>7. AreDims(none)
  BY <1>5 DEF AreDims
<1>8. AreDims(c) /\ Len(c) = n - first + 1
  <2>1. AreDims(c) /\ Len(c) = Len(w) + Len(none)
    BY <1>4, <1>6, <1>7, AddedDims
  <2> QED
    BY <1>2, <1>4, <1>5, <2>1
<1>9. \A k \in 1 .. Len(c) : c[k].shape \in Nat
  <2>1. \A k \in 1 .. Len(w) : c[k].shape = w[k]
    BY <1>4, <1>5, <1>6, AddDimsProperties
  <2> QED
    BY <1>4, <1>8, <2>1
<1>10. AreDims(f) /\ Len(f) = n - first + 1
  <2>1. IsSeq(f) /\ Len(f) = Len(c) /\ \A k \in 1 .. Len(c) : f[k].shape = c[k].shape
    BY <1>6, <1>8, FortranDims DEF AreDims
  <2> QED
    BY <1>8, <1>9, <2>1 DEF AreDims
<1>11. AreDims(m) /\ Len(m) = Len(v) + Len(f)
  BY <1>4, <1>6, <1>10, AddedDims
<1>12. Len(m) = n
  BY <1>2, <1>4, <1>10, <1>11
<1> QED
  BY <1>1, <1>3, <1>6, <1>11, <1>12

\* What a type variable stands for.
LEMMA FitsBase ==
  ASSUME NEW u, NEW p, NEW c, NEW key
  PROVE  /\ IsPattern(p) /\ IsType(c) /\ ArgFits(u, p, c) /\ key \in TypeNames(p)
         => /\ key \in DOMAIN u /\ IsType(u[key].value)
            /\ p.ell # "none" => u[key].value.dims = <<>>
<1>0. SUFFICES ASSUME IsPattern(p), IsType(c), ArgFits(u, p, c), key \in TypeNames(p)
               PROVE  /\ key \in DOMAIN u /\ IsType(u[key].value)
                      /\ p.ell # "none" => u[key].value.dims = <<>>
  OBVIOUS
<1>1. PICK d, e : d = Rest(p, c) /\ e = From(d, Len(p.dims) + 1)
  OBVIOUS
<1>2. p.ell # "none" => CanTake(p, c)
  BY <1>0 DEF ArgFits
<1>3. IsType(d) /\ (p.ell # "none" => Len(d.dims) = Len(p.dims))
  BY <1>0, <1>1, <1>2, RestIsType
<1>4. Fits(u, p, d)
  BY <1>0, <1>1 DEF ArgFits, Rest
<1>5. p.dtype.kind = "typevar" /\ p.dtype.name = key
  BY <1>0 DEF TypeNames
<1>6. Holds(u, key, "Type", e)
  BY <1>1, <1>4, <1>5 DEF Fits, FitsDtype
<1>7. IsSeq(p.dims) /\ IsSeq(d.dims) /\ Len(p.dims) <= Len(d.dims)
  BY <1>0, <1>3, <1>4 DEF IsPattern, IsType, Fits
<1>8. PICK i : i = Len(p.dims) + 1
  OBVIOUS
<1>9. Len(p.dims) \in Nat /\ Len(d.dims) \in Nat
  BY <1>7, IsSeqProperties
<1>10. i \in Nat /\ 1 <= i /\ i <= Len(d.dims) + 1
  BY <1>7, <1>8, <1>9
<1>11. /\ IsSeq(e.dims) /\ Len(e.dims) = Len(d.dims) - i + 1
       /\ \A k \in 1 .. Len(d.dims) - i + 1 : e.dims[k] = d.dims[i + k - 1]
  <2>1. e = From(d, i)
    BY <1>1, <1>8
  <2> QED
    BY <1>7, <1>10, <2>1, FromProperties
<1>12. \A k \in 1 .. Len(d.dims) - i + 1 : i + k - 1 \in 1 .. Len(d.dims)
  BY <1>9, <1>10
<1>13. IsType(e)
  <2>1. \A k \in 1 .. Len(d.dims) : d.dims[k].kind = "fixed" => d.dims[k].shape \in Nat
    BY <1>3 DEF IsType
  <2> QED
    BY <1>11, <1>12, <2>1 DEF IsType
<1>14. p.ell # "none" => e.dims = <<>>
  <2>1. p.ell # "none" => Len(e.dims) = 0
    <3>1. Len(d.dims) - i + 1 = Len(d.dims) - Len(p.dims)
      BY <1>8, <1>9
    <3>2. p.ell # "none" => Len(d.dims) - Len(p.dims) = 0
      BY <1>3, <1>9
    <3> QED
      BY <1>11, <3>1, <3>2
  <2>2. IsSeq(e.dims)
    BY <1>13 DEF IsType
  <2> QED
    BY <2>1, <2>2, IsSeqProperties
<1> QED
  BY <1>6, <1>13, <1>14 DEF Holds

\* What is known when outputs are inferred, and from then on.
Inferring == Matched /\ pc # "match"

LEMMA OutputPatterns ==
  ASSUME Matched, NEW j \in 1 .. Len(sig.types)
  PROVE  /\ IsTypePattern(sig.types[j]) /\ IsPattern(sig.types[j]) /\ IsSeq(sig.types[j].dims)
         /\ sig.types[j].ell = Ellipsis
         /\ \A k \in 1 .. Len(sig.types[j].dims) :
              \/ sig.types[j].dims[k].kind = "fixed" /\ sig.types[j].dims[k].shape \in Nat
              \/ sig.types[j].dims[k].kind = "sym" /\ sig.types[j].dims[k].name \in AllDimNames(sig)
              \/ sig.types[j].dims[k].kind = "array"
         /\ TypeNames(sig.types[j]) \subseteq AllTypeNames(sig)
<1>1. PICK s, p : s = sig /\ p = sig.types[j]
  OBVIOUS
<1>2. IsTypePattern(p) /\ IsSeq(p.dims) /\ p.ell = Ellipsis
  BY <1>1, ArgPatterns DEF Matched
<1>3. s \in Signature /\ IsSeq(s.types)
  BY <1>1, ArityProperties DEF Matched, CallInv
<1>4. DOMAIN s.types = 1 .. Len(s.types)
  BY <1>3, IsSeqProperties
<1>5. p.dims \in Seq(PatternDim)
  <2>1. PICK S : /\ S = [ell : STRING, order : Contiguity, dims : Seq(PatternDim), dtype : PatternDtype]
                 /\ s.types \in Seq(S)
    BY <1>3 DEF Signature
  <2>2. s.types \in Seq(S) /\ j \in 1 .. Len(s.types)
    BY <1>1, <2>1
  <2>3. s.types[j] \in S
    BY <2>2
  <2> QED
    BY <1>1, <2>1, <2>3
<1>6. DimNames(p) \subseteq AllDimNames(s) /\ TypeNames(p) \subseteq AllTypeNames(s)
  BY <1>1, <1>4 DEF AllDimNames, AllTypeNames
<1>7. ASSUME NEW k \in 1 .. Len(p.dims)
      PROVE  \/ p.dims[k].kind = "fixed" /\ p.dims[k].shape \in Nat
             \/ p.dims[k].kind = "sym" /\ p.dims[k].name \in AllDimNames(s)
             \/ p.dims[k].kind = "array"
  <2>1. p.dims[k] \in PatternDim
    BY <1>5
  <2>2. p.dims[k].kind = "sym" => p.dims[k].name \in DimNames(p)
    BY <1>2, SymbolsNamed
  <2> QED
    BY <1>6, <2>1, <2>2 DEF PatternDim
<1> QED
  BY <1>1, <1>2, <1>6, <1>7 DEF IsTypePattern

LEMMA BaseDims ==
  ASSUME Matched, NEW j \in 1 .. Len(sig.types)
  PROVE  /\ AreDims(Base(sig.types[j]).dims)
         /\ Ellipsis # "none" \/ sig.types[j].dtype.kind # "typevar" => Base(sig.types[j]).dims = <<>>
<1>1. PICK p : p = sig.types[j]
  OBVIOUS
<1>2. CASE p.dtype.kind = "typevar"
  <2>1. PICK key : key = p.dtype.name
    OBVIOUS
  <2>2. key \in AllTypeNames(sig)
    BY <1>1, <1>2, <2>1, OutputPatterns DEF TypeNames
  <2>3. AllTypeNames(sig) \subseteq UNION { TypeNames(sig.types[i]) : i \in 1 .. sig.nin }
    BY DEF Matched, CallInv, SignatureOK
  <2>4. PICK i \in 1 .. sig.nin : key \in TypeNames(sig.types[i])
    BY <2>2, <2>3
  <2>5. i \in 1 .. Len(Args)
    BY ArityProperties DEF Matched
  <2>6. PICK q, c : q = sig.types[i] /\ c = Args[i]
    OBVIOUS
  <2>7. ArgFits(tbl, q, c) /\ IsTypePattern(q) /\ q.ell = Ellipsis /\ IsType(c)
    BY <2>5, <2>6, MatchedAll
  <2>8. IsPattern(q) /\ key \in TypeNames(q)
    BY <2>4, <2>6, <2>7 DEF IsTypePattern
  <2>9. PICK u : u = tbl
    OBVIOUS
  <2>10. IsType(u[key].value) /\ (q.ell # "none" => u[key].value.dims = <<>>)
    BY <2>7, <2>8, <2>9, FitsBase
  <2>11. Base(p) = u[key].value
    BY <1>2, <2>1, <2>9 DEF Base
  <2>12. AreDims(Base(p).dims) /\ (Ellipsis # "none" => Base(p).dims = <<>>)
    BY <2>7, <2>10, <2>11 DEF AreDims, IsType
  <2> QED
    BY <1>1, <1>2, <2>12
<1>3. CASE p.dtype.kind # "typevar"
  <2>1. Base(p).dims = <<>>
    BY <1>3 DEF Base, Type
  <2>2. IsSeq(Base(p).dims) /\ Len(Base(p).dims) = 0
    <3>1. PICK e : e = <<>>
      OBVIOUS
    <3>2. IsSeq(e) /\ Len(e) = 0
      BY <3>1 DEF IsSeq
    <3> QED
      BY <2>1, <3>1, <3>2
  <2> QED
    BY <1>1, <2>1, <2>2 DEF AreDims
<1> QED
  BY <1>2, <1>3

InputDimNames(s) == UNION { DimNames(s.types[i]) : i \in 1 .. s.nin }

ComputedNames(s) == IF s.pdist THEN {"P"} ELSE {}

LEMMA SymbolLengths ==
  ASSUME Inferring, NEW key \in AllDimNames(sig)
  PROVE  IsLength(tbl, key)
<1>1. PICK s : s = sig
  OBVIOUS
<1>2. SignatureOK(s) /\ key \in AllDimNames(s)
  BY <1>1 DEF Inferring, Matched, CallInv
<1>3. AllDimNames(s) \subseteq InputDimNames(s) \cup ComputedNames(s)
  BY <1>2, Zenon DEF SignatureOK, InputDimNames, ComputedNames
<1>4. CASE key \in InputDimNames(s)
  <2>1. PICK i \in 1 .. s.nin : key \in DimNames(s.types[i])
    BY <1>4 DEF InputDimNames
  <2>2. i \in 1 .. Len(Args) /\ key \in DimNames(sig.types[i])
    BY <1>1, <2>1, ArityProperties DEF Inferring, Matched
  <2> QED
    BY <2>2, MatchedLengths DEF Inferring
<1>5. CASE key \in ComputedNames(s)
  <2>1. key = "P" /\ s.pdist
    BY <1>5 DEF ComputedNames
  <2> QED
    BY <1>1, <2>1 DEF Inferring, Matched, TableInv
<1> QED
  BY <1>2, <1>3, <1>4, <1>5

LEMMA SubstitutedDims ==
  ASSUME NEW p, NEW shapes, NEW first,
         shapes = [k \in DOMAIN p.dims |->
                     IF p.dims[k].kind = "sym" THEN tbl[p.dims[k].name].value ELSE p.dims[k].shape],
         first = CHOOSE k \in FortranFrom(p) : TRUE
  PROVE  SubstituteInner(p).dims =
           IF \E k \in DOMAIN p.dims : p.dims[k].kind = "array" THEN ArrayDims(Len(p.dims)) \o Base(p).dims
           ELSE IF FortranFrom(p) = {} THEN AddDims(shapes, Base(p).dims)
           ELSE AddDims(SubSeq(shapes, 1, first - 1),
                        ToFortran(AddDims(SubSeq(shapes, first, Len(shapes)), <<>>)))
BY DEF SubstituteInner, Type

LEMMA InnerDims ==
  ASSUME Inferring, NEW j \in 1 .. Len(sig.types)
  PROVE  /\ AreDims(SubstituteInner(sig.types[j]).dims)
         /\ Ellipsis # "none" => Len(SubstituteInner(sig.types[j]).dims) = Len(sig.types[j].dims)
<1>1. PICK p, base, n : p = sig.types[j] /\ base = Base(p).dims /\ n = Len(p.dims)
  OBVIOUS
<1>2. /\ IsPattern(p) /\ IsSeq(p.dims)
      /\ \A k \in 1 .. n :
           \/ p.dims[k].kind = "fixed" /\ p.dims[k].shape \in Nat
           \/ p.dims[k].kind = "sym" /\ p.dims[k].name \in AllDimNames(sig)
           \/ p.dims[k].kind = "array"
  BY <1>1, OutputPatterns DEF Inferring
<1>3. AreDims(base) /\ (Ellipsis # "none" \/ p.dtype.kind # "typevar" => base = <<>>)
  BY <1>1, BaseDims DEF Inferring
<1>4. n \in Nat /\ DOMAIN p.dims = 1 .. n
  BY <1>1, <1>2, IsSeqProperties
<1>5. PICK shapes : shapes = [k \in 1 .. n |-> IF p.dims[k].kind = "sym" THEN tbl[p.dims[k].name].value ELSE p.dims[k].shape]
  OBVIOUS
<1>6. IsSeq(shapes) /\ Len(shapes) = n
  <2>1. shapes = [k \in 1 .. n |-> shapes[k]]
    BY <1>5
  <2> QED
    BY <1>4, <2>1, FunctionIsSeq, Zenon
<1>7. PICK first : first = CHOOSE i \in FortranFrom(p) : TRUE
  OBVIOUS
<1> DEFINE arrays == \E k \in 1 .. n : p.dims[k].kind = "array"
           outside == SubSeq(shapes, 1, first - 1)
           inside == SubSeq(shapes, first, n)
           mixed == AddDims(outside, ToFortran(AddDims(inside, <<>>)))
<1>8. SubstituteInner(p).dims =
        IF arrays THEN ArrayDims(n) \o base
        ELSE IF FortranFrom(p) = {} THEN AddDims(shapes, base) ELSE mixed
  <2>1. shapes = [k \in DOMAIN p.dims |->
                    IF p.dims[k].kind = "sym" THEN tbl[p.dims[k].name].value ELSE p.dims[k].shape]
    BY <1>4, <1>5
  <2>2. SubstituteInner(p).dims =
          IF \E k \in DOMAIN p.dims : p.dims[k].kind = "array" THEN ArrayDims(Len(p.dims)) \o Base(p).dims
          ELSE IF FortranFrom(p) = {} THEN AddDims(shapes, Base(p).dims)
          ELSE AddDims(SubSeq(shapes, 1, first - 1),
                       ToFortran(AddDims(SubSeq(shapes, first, Len(shapes)), <<>>)))
    BY <1>7, <2>1, SubstitutedDims
  <2> QED
    BY <1>1, <1>4, <1>6, <2>2
<1>9. \A k \in 1 .. n : p.dims[k].kind # "array" => shapes[k] \in Nat
  <2>1. ASSUME NEW k \in 1 .. n, p.dims[k].kind # "array"
        PROVE  shapes[k] \in Nat
    <3>1. shapes[k] = IF p.dims[k].kind = "sym" THEN tbl[p.dims[k].name].value ELSE p.dims[k].shape
      BY <1>5
    <3>2. CASE p.dims[k].kind = "sym"
      <4>1. PICK key : key = p.dims[k].name
        OBVIOUS
      <4>2. key \in AllDimNames(sig)
        BY <1>2, <3>2, <4>1
      <4>3. tbl[key].value \in Nat
        BY <4>2, SymbolLengths DEF IsLength
      <4> QED
        BY <3>1, <3>2, <4>1, <4>3
    <3>3. CASE p.dims[k].kind # "sym"
      BY <1>2, <2>1, <3>1, <3>3
    <3> QED
      BY <3>2, <3>3
  <2> QED
    BY <2>1
<1>10. base = <<>> => Len(base) = 0
  BY <1>3, IsSeqProperties DEF AreDims
<1>11. arrays \/ \A k \in 1 .. Len(shapes) : shapes[k] \in Nat
  BY <1>6, <1>9
<1>12. AreDims(SubstituteInner(p).dims) /\ Len(SubstituteInner(p).dims) = n + Len(base)
  <2>1. CASE arrays
    <3>1. AreDims(ArrayDims(n) \o base) /\ Len(ArrayDims(n) \o base) = n + Len(base)
      BY <1>3, <1>4, AddedArrayDims
    <3> QED
      BY <1>8, <2>1, <3>1
  <2>2. CASE ~arrays /\ FortranFrom(p) = {}
    <3>1. AreDims(AddDims(shapes, base)) /\ Len(AddDims(shapes, base)) = Len(shapes) + Len(base)
      BY <1>3, <1>6, <1>11, <2>2, AddedDims
    <3> QED
      BY <1>6, <1>8, <2>2, <3>1
  <2>3. CASE ~arrays /\ FortranFrom(p) # {}
    <3>1. first \in FortranFrom(p)
      BY <1>7, <2>3
    <3>2. first \in 1 .. n /\ p.dtype.kind = "scalar"
      BY <1>4, <3>1 DEF FortranFrom
    <3>3. base = <<>>
      BY <1>3, <3>2
    <3>4. AreDims(mixed) /\ Len(mixed) = n
      <4>1. \A k \in 1 .. Len(shapes) : shapes[k] \in Nat
        BY <1>11, <2>3
      <4> QED
        BY <1>4, <1>6, <3>2, <4>1, MixedDims
    <3> QED
      BY <1>4, <1>8, <1>10, <2>3, <3>3, <3>4
  <2> QED
    BY <2>1, <2>2, <2>3
<1>13. Ellipsis # "none" => Len(SubstituteInner(p).dims) = n
  <2>1. ASSUME Ellipsis # "none"
        PROVE  n + Len(base) = n
    BY <1>3, <1>4, <1>10, <2>1
  <2> QED
    BY <1>12, <2>1
<1> QED
  BY <1>1, <1>12, <1>13

\* An inferred output has dimensions like an argument; if the common shape is
\* still to be added, just those of its pattern.
LEMMA SubstituteDims ==
  ASSUME Inferring, NEW j \in 1 .. Len(sig.types)
  PROVE  /\ IsType(Substitute(sig.types[j]))
         /\ Ellipsis = "..." => Len(Substitute(sig.types[j]).dims) = Len(sig.types[j].dims)
<1>1. PICK p, u : p = sig.types[j] /\ u = SubstituteInner(p)
  OBVIOUS
<1>2. p.ell = Ellipsis /\ Ellipsis # "var"
  BY <1>1, OutputPatterns DEF Inferring, Matched
<1>3. AreDims(u.dims) /\ (Ellipsis # "none" => Len(u.dims) = Len(p.dims))
  BY <1>1, InnerDims
<1>4. CASE p.ell \in {"none", "..."}
  <2>1. Substitute(p) = u
    BY <1>1, <1>4 DEF Substitute
  <2> QED
    BY <1>1, <1>2, <1>3, <2>1 DEF IsType, AreDims
<1>5. CASE p.ell \notin {"none", "..."}
  <2>1. sig.nin # 0
    <3>1. PICK s : s = sig
      OBVIOUS
    <3>2. SignatureOK(s) /\ IsSeq(s.types)
      BY <3>1, ArityProperties DEF Inferring, Matched, CallInv
    <3>3. j \in DOMAIN s.types
      BY <3>1, <3>2, IsSeqProperties
    <3>4. s.types[j].ell # "none"
      BY <1>1, <1>5, <3>1
    <3> QED
      BY <3>1, <3>2, <3>3, <3>4 DEF SignatureOK
  <2>2. 1 \in 1 .. Len(Args)
    BY <2>1, ArityProperties DEF Inferring, Matched
  <2>3. PICK q, c, t : q = sig.types[1] /\ c = Args[1] /\ t = tbl
    OBVIOUS
  <2>4. ArgFits(t, q, c) /\ IsTypePattern(q) /\ q.ell = p.ell /\ IsType(c)
    BY <1>2, <2>2, <2>3, MatchedAll DEF Inferring
  <2>5. IsSeq(q.dims) /\ IsSeq(c.dims) /\ CanTake(q, c)
    BY <1>5, <2>4 DEF IsTypePattern, IsPattern, IsType, ArgFits
  <2>6. CASE p.ell = "array"
    <3>1. Taken(q, c) >= 0
      BY <2>5 DEF CanTake
    <3>2. Taken(q, c) \in Nat
      BY <2>5, <3>1, OuterOfProperties
    <3>3. t["array"].value \in Nat
      BY <1>5, <2>4, <2>6, <3>2 DEF ArgFits, Holds
    <3>4. PICK n \in Nat : n = tbl["array"].value
      BY <2>3, <3>3
    <3>5. AreDims(ArrayDims(n) \o u.dims)
      BY <1>3, AddedArrayDims
    <3>6. Substitute(p).dims = ArrayDims(n) \o u.dims
      BY <1>1, <2>6, <3>4 DEF Substitute, Type
    <3> QED
      BY <1>1, <1>2, <2>6, <3>5, <3>6 DEF IsType, AreDims
  <2>7. CASE p.ell # "array"
    <3>1. PICK w : w = OuterOf(q, c)
      OBVIOUS
    <3>2. IsSeq(w) /\ \A k \in 1 .. Len(w) : w[k] \in Nat
      BY <1>2, <2>4, <2>5, <2>7, <3>1, OuterOfArg
    <3>3. Holds(t, p.ell, "FixedSeq", w)
      BY <1>5, <2>4, <2>7, <3>1 DEF ArgFits
    <3>4. tbl[p.ell].value = w
      BY <2>3, <3>3 DEF Holds
    <3>5. AreDims(AddDims(w, u.dims))
      BY <1>3, <3>2, AddedDims
    <3>6. Substitute(p).dims = AddDims(w, u.dims)
      BY <1>1, <1>2, <1>5, <2>7, <3>4 DEF Substitute, Type
    <3> QED
      BY <1>1, <1>2, <1>5, <3>5, <3>6 DEF IsType, AreDims
  <2> QED
    BY <2>6, <2>7
<1> QED
  BY <1>4, <1>5

LEMMA InferStep ==
  ASSUME CallInv, TableInv, ShapeInv, Ellipsis # "var", Infer
  PROVE  Inv'
<1>1. pc = "infer" /\ Arity
  BY DEF Infer, CallInv
<1>2. Inferring
  BY <1>1 DEF Inferring, Matched, TableInv
<1>3. Len(Args) \in Nat /\ ~(next <= Len(Args))
  BY <1>2, MatchedAll DEF Inferring
<1>4. CASE Fail
  BY <1>3, <1>4, FailStep
<1>5. CASE ~Fail
  <2>1. /\ types' = call.ins \o (IF Given THEN call.outs
                                 ELSE [i \in 1 .. sig.nout |-> Substitute(sig.types[sig.nin + i])])
        /\ pc' = "broadcast" /\ call' = call /\ tbl' = tbl /\ next' = next
    BY <1>5 DEF Infer
  <2>2. /\ sig' = sig /\ Args' = Args /\ (Given' <=> Given) /\ Ellipsis' = Ellipsis
        /\ \A i : OuterShape(i)' = OuterShape(i)
    BY <2>1, SameCall
  <2>3. PICK outs : outs = [i \in 1 .. sig.nout |-> Substitute(sig.types[sig.nin + i])]
    OBVIOUS
  <2>4. /\ sig.nin \in Nat /\ sig.nout \in Nat /\ Len(sig.types) = sig.nin + sig.nout
        /\ Len(call.ins) = sig.nin /\ (IF Given THEN Len(Args) = Len(sig.types) ELSE Len(Args) = sig.nin)
    BY <1>1, ArityProperties
  <2>5. /\ IsSeq(Args) /\ IsSeq(call.ins)
        /\ \A i \in 1 .. Len(call.ins) : Args[i] = call.ins[i]
    BY ArgsProperties
  <2>6. /\ IsSeq(types') /\ Len(types') = Len(sig.types)
        /\ \A i \in 1 .. Len(Args) : types'[i] = Args[i]
        /\ ~Given => \A i \in sig.nin + 1 .. Len(types') :
             IsType(types'[i]) /\ (Ellipsis = "..." => Len(types'[i].dims) = Len(sig.types[i].dims))
    <3>1. CASE Given
      <4>1. types' = Args
        BY <2>1, <3>1 DEF Args
      <4> QED
        BY <2>4, <2>5, <3>1, <4>1
    <3>2. CASE ~Given
      <4>1. outs = [i \in 1 .. sig.nout |-> outs[i]]
        BY <2>3
      <4>2. IsSeq(outs) /\ Len(outs) = sig.nout
        BY <2>4, <4>1, FunctionIsSeq, Zenon
      <4>3. PICK ins, ts : ins = call.ins /\ ts = types'
        OBVIOUS
      <4>4. ts = ins \o outs /\ IsSeq(ins) /\ Len(ins) = sig.nin
        BY <2>1, <2>3, <2>4, <2>5, <3>2, <4>3
      <4>5. /\ IsSeq(ts) /\ Len(ts) = Len(ins) + Len(outs)
            /\ \A k \in 1 .. Len(ins) : ts[k] = ins[k]
            /\ \A k \in 1 .. Len(outs) : ts[Len(ins) + k] = outs[k]
        <5>1. /\ IsSeq(ins \o outs) /\ Len(ins \o outs) = Len(ins) + Len(outs)
              /\ \A k \in 1 .. Len(ins) : (ins \o outs)[k] = ins[k]
              /\ \A k \in 1 .. Len(outs) : (ins \o outs)[Len(ins) + k] = outs[k]
          <6>1. IsSeq(ins) /\ IsSeq(outs)
            BY <4>2, <4>4
          <6> QED
            BY <6>1, ConcatIsSeq
        <5> QED
          BY <4>4, <5>1
      <4>6. \A i \in 1 .. Len(Args) : ts[i] = Args[i]
        BY <2>4, <2>5, <3>2, <4>3, <4>5
      <4>7. ASSUME NEW i \in sig.nin + 1 .. Len(ts)
            PROVE  IsType(ts[i]) /\ (Ellipsis = "..." => Len(ts[i].dims) = Len(sig.types[i].dims))
        <5>1. i \in 1 .. Len(sig.types) /\ i - sig.nin \in 1 .. sig.nout /\ sig.nin + (i - sig.nin) = i
          BY <2>4, <4>2, <4>4, <4>5
        <5>2. ts[i] = outs[i - sig.nin]
          BY <4>2, <4>4, <4>5, <5>1
        <5>3. outs[i - sig.nin] = Substitute(sig.types[i])
          BY <2>3, <5>1
        <5> QED
          BY <1>2, <5>1, <5>2, <5>3, SubstituteDims
      <4>8. IsSeq(ts) /\ Len(ts) = Len(sig.types)
        BY <2>4, <4>2, <4>4, <4>5
      <4> QED
        BY <4>3, <4>6, <4>7, <4>8
    <3> QED
      BY <3>1, <3>2
  <2>7. CallInv'
    BY <1>1, <2>1, CallInvKept
  <2>8. TableInv'
    BY <1>1, <2>1, <2>2 DEF TableInv
  <2>9. ShapeInv'
    BY <1>1, <2>1, <2>2 DEF ShapeInv
  <2>10. TypesInv'
    BY <2>1, <2>2, <2>6 DEF TypesInv
  <2>11. Refusals'
    BY <2>1 DEF Refusals
  <2> QED
    BY <2>7, <2>8, <2>9, <2>10, <2>11 DEF Inv
<1> QED
  BY <1>4, <1>5
-----------------------------------------------------------------------------
(***************************************************************************)
(* Broadcasting.                                                           *)
(***************************************************************************)
LEMMA InputStarts ==
  ASSUME NEW dims, IsSeq(dims), NEW shape, IsSeq(shape), NEW inner \in Nat, inner <= Len(dims),
         Len(dims) - inner <= Len(shape)
  PROVE  StartsWith(BroadcastTo(dims, shape, inner, FALSE), shape)
<1>0. PICK b : b = BroadcastTo(dims, shape, inner, FALSE)
  OBVIOUS
<1>1. PICK n, new : n = Len(dims) - inner /\ new = Len(shape) - n
  OBVIOUS
<1>2. Len(dims) \in Nat /\ Len(shape) \in Nat
  BY IsSeqProperties
<1>3. n \in Nat /\ new \in Nat /\ new + n = Len(shape) /\ n <= Len(dims)
  BY <1>1, <1>2
<1>4. /\ IsSeq(b) /\ Len(b) = new + Len(dims)
      /\ \A k \in 1 .. new : b[k] = Fixed(shape[k], 0)
      /\ \A k \in 1 .. n : b[new + k] = Stretch(dims[k], shape[new + k])
  <2>1. LET m == Len(dims) - inner
            l == Len(shape) - m
            a == BroadcastTo(dims, shape, inner, FALSE)
        IN /\ IsSeq(a) /\ Len(a) = l + Len(dims)
           /\ \A k \in 1 .. l : a[k] = Fixed(shape[k], 0)
           /\ \A k \in 1 .. m : a[l + k] = Stretch(dims[k], shape[l + k])
           /\ \A k \in m + 1 .. Len(dims) : a[l + k] = dims[k]
    BY BroadcastInput, ZenonT(40)
  <2> QED
    BY <1>0, <1>1, <2>1, Zenon
<1>5. ASSUME NEW k \in 1 .. Len(shape)
      PROVE  b[k].shape = shape[k]
  <2>1. CASE k <= new
    <3>1. k \in 1 .. new
      BY <1>3, <2>1
    <3>2. b[k] = Fixed(shape[k], 0)
      BY <1>4, <3>1
    <3> QED
      BY <3>2 DEF Fixed
  <2>2. CASE ~(k <= new)
    <3>1. k - new \in 1 .. n /\ new + (k - new) = k
      BY <1>3, <2>2
    <3>2. b[k] = Stretch(dims[k - new], shape[k])
      BY <1>4, <3>1
    <3> QED
      BY <3>2 DEF Stretch, Fixed
  <2> QED
    BY <2>1, <2>2
<1>6. Len(shape) <= Len(b)
  BY <1>2, <1>3, <1>4
<1> QED
  BY <1>0, <1>4, <1>5, <1>6 DEF StartsWith

LEMMA OutputStarts ==
  ASSUME NEW dims, AreDims(dims), NEW shape, IsSeq(shape), \A k \in 1 .. Len(shape) : shape[k] \in Nat,
         NEW inner \in Nat, inner <= Len(dims), Len(dims) - inner <= Len(shape)
  PROVE  /\ StartsWith(BroadcastTo(dims, shape, inner, TRUE), shape)
         /\ AreDims(BroadcastTo(dims, shape, inner, TRUE))
<1>0. PICK b : b = BroadcastTo(dims, shape, inner, TRUE)
  OBVIOUS
<1>1. IsSeq(dims)
  BY DEF AreDims
<1>2. Len(dims) \in Nat /\ Len(shape) \in Nat
  BY <1>1, IsSeqProperties
<1>3. /\ IsSeq(b) /\ Len(b) = Len(shape) + inner
      /\ \A k \in 1 .. Len(shape) : b[k].shape = shape[k]
      /\ \A k \in 1 .. inner : b[Len(shape) + k] = dims[Len(dims) - inner + k]
  <2>1. Stretched(b, dims, shape, inner)
    BY <1>0, <1>1, BroadcastOutput
  <2> QED
    BY <2>1 DEF Stretched
<1>4. ASSUME NEW k \in 1 .. Len(b), b[k].kind = "fixed"
      PROVE  b[k].shape \in Nat
  <2>1. CASE k <= Len(shape)
    BY <1>2, <1>3, <2>1
  <2>2. CASE ~(k <= Len(shape))
    <3>1. PICK j \in 1 .. inner : j = k - Len(shape) /\ k = Len(shape) + j
      BY <1>2, <1>3, <2>2
    <3>2. Len(dims) - inner + j \in 1 .. Len(dims)
      BY <1>2
    <3>3. b[k] = dims[Len(dims) - inner + j]
      BY <1>3, <3>1
    <3> QED
      BY <1>4, <3>2, <3>3 DEF AreDims
  <2> QED
    BY <2>1, <2>2
<1>5. Len(shape) <= Len(b)
  BY <1>2, <1>3
<1> QED
  BY <1>0, <1>3, <1>4, <1>5 DEF StartsWith, AreDims

\* What is known when types are broadcast.
Broadcasting == Matched /\ TypesInv /\ Ellipsis = "..." /\ pc = "broadcast"

LEMMA SharedShape ==
  ASSUME Matched, Ellipsis = "..."
  PROVE  /\ sig.nin # 0 /\ IsSeq(tbl["..."].value) /\ \A k \in 1 .. Len(tbl["..."].value) : tbl["..."].value[k] \in Nat
         /\ \A i \in 1 .. Len(Args) :
              /\ IsSeq(Args[i].dims) /\ CanTake(sig.types[i], Args[i]) /\ Len(sig.types[i].dims) \in Nat
              /\ OuterShape(i) = OuterOf(sig.types[i], Args[i])
              /\ Reads(OuterShape(i), tbl["..."].value)
<1>1. PICK s, V, ws : s = sig /\ V = tbl["..."].value /\ ws = { OuterShape(i) : i \in 1 .. Len(Args) }
  OBVIOUS
<1>2. SignatureOK(s) /\ IsSeq(s.types) /\ s.nin \in Nat /\ Len(Args) \in Nat /\ s.nin <= Len(Args)
  BY <1>1, ArityProperties DEF Matched, CallInv
<1>3. sig.nin # 0
  <2>1. s.types # <<>> /\ s.types[1].ell = "..."
    BY <1>1 DEF Ellipsis
  <2>2. Len(s.types) # 0 /\ Len(s.types) \in Nat /\ DOMAIN s.types = 1 .. Len(s.types)
    BY <1>2, <2>1, IsSeqProperties
  <2>3. 1 \in DOMAIN s.types
    BY <2>2
  <2> QED
    BY <1>1, <1>2, <2>1, <2>3 DEF SignatureOK
<1>4. CommonShape(V, ws)
  <2>1. next > 1 /\ next - 1 = Len(Args)
    BY <1>1, <1>2, <1>3, MatchedAll
  <2> QED
    BY <1>1, <2>1 DEF Matched, ShapeInv
<1>5. ASSUME NEW i \in 1 .. Len(Args)
      PROVE  /\ IsSeq(Args[i].dims) /\ CanTake(sig.types[i], Args[i]) /\ Len(sig.types[i].dims) \in Nat
             /\ OuterShape(i) = OuterOf(sig.types[i], Args[i])
             /\ Reads(OuterShape(i), V)
             /\ \A k \in 1 .. Len(OuterShape(i)) : OuterShape(i)[k] \in Nat
  <2>1. PICK p, c, t : p = sig.types[i] /\ c = Args[i] /\ t = tbl
    OBVIOUS
  <2>2. ArgFits(t, p, c) /\ IsTypePattern(p) /\ p.ell = "..." /\ IsType(c)
    BY <2>1, MatchedAll
  <2>3. IsSeq(p.dims) /\ IsSeq(c.dims) /\ CanTake(p, c)
    BY <2>2 DEF IsTypePattern, IsPattern, IsType, ArgFits
  <2>4. \A k \in 1 .. Len(OuterOf(p, c)) : OuterOf(p, c)[k] \in Nat
    BY <2>2, <2>3, OuterOfArg
  <2>5. OuterShape(i) = OuterOf(p, c)
    BY <2>1 DEF OuterShape, OuterOf
  <2>6. Reads(OuterShape(i), V)
    BY <1>1, <1>4 DEF CommonShape
  <2>7. Len(p.dims) \in Nat
    BY <2>3, IsSeqProperties
  <2> QED
    BY <2>1, <2>3, <2>4, <2>5, <2>6, <2>7
<1>6. ASSUME NEW k \in 1 .. Len(V)
      PROVE  V[k] \in Nat
  <2>1. PICK w \in ws : Stems(V, k, w)
    BY <1>4 DEF CommonShape
  <2>2. \A j \in 1 .. Len(w) : w[j] \in Nat
    BY <1>1, <1>5, <2>1
  <2> QED
    BY <2>1, <2>2 DEF Stems
<1> QED
  BY <1>1, <1>3, <1>4, <1>5, <1>6 DEF CommonShape

\* An argument has room for its inner dimensions, and the others fit.
LEMMA OuterFits ==
  ASSUME NEW p, NEW c, NEW V, IsSeq(p.dims), IsSeq(c.dims), IsSeq(V), CanTake(p, c), Reads(OuterOf(p, c), V)
  PROVE  /\ Len(p.dims) \in Nat /\ Len(p.dims) <= Len(c.dims) /\ Len(c.dims) - Len(p.dims) <= Len(V)
         /\ \A k \in 1 .. Len(c.dims) - Len(p.dims) :
              ReadsDim(c.dims[k].shape, V[Len(V) - (Len(c.dims) - Len(p.dims)) + k])
<1>1. Len(p.dims) \in Nat /\ Len(c.dims) \in Nat /\ Len(V) \in Nat
  BY IsSeqProperties
<1>2. Taken(p, c) >= 0
  BY DEF CanTake
<1>3. /\ Taken(p, c) + Len(p.dims) = Len(c.dims) /\ Len(OuterOf(p, c)) = Taken(p, c)
      /\ \A k \in 1 .. Taken(p, c) : OuterOf(p, c)[k] = c.dims[k].shape
  BY <1>2, OuterOfProperties
<1>4. PICK n, l, m : n = Taken(p, c) /\ l = Len(p.dims) /\ m = Len(c.dims)
  OBVIOUS
<1>5. n = m - l
  BY <1>4 DEF Taken
<1>6. n <= Len(V) /\ \A k \in 1 .. n : ReadsDim(c.dims[k].shape, V[Len(V) - n + k])
  BY <1>3, <1>4 DEF Reads
<1>7. l \in Nat /\ l <= m
  BY <1>1, <1>2, <1>4, <1>5
<1> QED
  BY <1>4, <1>5, <1>6, <1>7

\* What broadcasting makes of a type.
LEMMA BroadcastedType ==
  ASSUME Broadcasting, \A j \in DOMAIN types : IsArray(types[j]), NEW i \in 1 .. Len(types)
  PROVE  /\ StartsWith(Broadcasted(i).dims, tbl["..."].value)
         /\ i <= sig.nin =>
              /\ i \in 1 .. Len(Args) /\ IsArray(Args[i])
              /\ Broadcasted(i).dims =
                   BroadcastTo(Args[i].dims, tbl["..."].value, Len(sig.types[i].dims), FALSE)
         /\ ~Given /\ i > sig.nin => IsType(Broadcasted(i))
<1>1. PICK V, p, c, n : V = tbl["..."].value /\ p = sig.types[i] /\ c = types[i] /\ n = Len(p.dims)
  OBVIOUS
<1>2. /\ sig.nin \in Nat /\ sig.nin <= Len(Args) /\ Len(Args) \in Nat /\ Len(Args) <= Len(sig.types)
      /\ Len(sig.types) \in Nat /\ (IF Given THEN Len(Args) = Len(sig.types) ELSE Len(Args) = sig.nin)
  BY ArityProperties, IsSeqProperties DEF Broadcasting, Matched
<1>3. /\ IsSeq(types) /\ Len(types) = Len(sig.types) /\ IsArray(c)
      /\ i \in 1 .. Len(Args) => c = Args[i]
      /\ ~Given /\ i > sig.nin => IsType(c) /\ Len(c.dims) = n
  <2>1. IsSeq(types) /\ Len(types) = Len(sig.types)
    BY DEF Broadcasting, TypesInv
  <2>2. i \in DOMAIN types
    BY <2>1, IsSeqProperties
  <2>3. ~Given /\ i > sig.nin => i \in sig.nin + 1 .. Len(types)
    BY <1>2
  <2> QED
    BY <1>1, <2>1, <2>2, <2>3 DEF Broadcasting, TypesInv
<1>4. IsSeq(p.dims) /\ n \in Nat /\ IsSeq(V) /\ \A k \in 1 .. Len(V) : V[k] \in Nat
  <2>1. i \in 1 .. Len(sig.types)
    BY <1>3
  <2>2. IsSeq(p.dims)
    BY <1>1, <2>1, OutputPatterns DEF Broadcasting
  <2> QED
    BY <1>1, <2>2, SharedShape, IsSeqProperties DEF Broadcasting
<1>5. Broadcasted(i).dims = BroadcastTo(c.dims, V, n, i > sig.nin)
  BY <1>1 DEF Broadcasted, Type
<1>6. IsSeq(c.dims) /\ n <= Len(c.dims) /\ Len(c.dims) - n <= Len(V)
  <2>1. CASE i \in 1 .. Len(Args)
    <3>1. IsSeq(c.dims) /\ CanTake(p, c) /\ Reads(OuterOf(p, c), V)
      BY <1>1, <1>3, <2>1, SharedShape DEF Broadcasting
    <3> QED
      BY <1>1, <1>4, <3>1, OuterFits
  <2>2. CASE i \notin 1 .. Len(Args)
    <3>1. ~Given /\ i > sig.nin
      BY <1>2, <1>3, <2>2
    <3>2. IsSeq(c.dims) /\ Len(c.dims) = n /\ Len(V) \in Nat
      BY <1>3, <1>4, <3>1, IsSeqProperties DEF IsType
    <3> QED
      BY <1>4, <3>2
  <2> QED
    BY <2>1, <2>2
<1>7. CASE i <= sig.nin
  <2>1. BroadcastTo(c.dims, V, n, i > sig.nin) = BroadcastTo(c.dims, V, n, FALSE)
    <3>1. ~(i > sig.nin)
      BY <1>2, <1>7
    <3> QED
      BY <3>1, Zenon DEF BroadcastTo
  <2>2. StartsWith(BroadcastTo(c.dims, V, n, FALSE), V)
    BY <1>4, <1>6, InputStarts
  <2>3. i \in 1 .. Len(Args) /\ c = Args[i] /\ ~(i > sig.nin)
    BY <1>2, <1>3, <1>7
  <2>4. Broadcasted(i).dims = BroadcastTo(c.dims, V, n, FALSE)
    BY <1>5, <2>1
  <2>5. StartsWith(Broadcasted(i).dims, V)
    BY <2>2, <2>4
  <2>6. Broadcasted(i).dims = BroadcastTo(Args[i].dims, V, n, FALSE) /\ IsArray(Args[i])
    BY <1>3, <2>3, <2>4
  <2> QED
    BY <1>1, <2>3, <2>5, <2>6
<1>8. CASE ~(i <= sig.nin)
  <2>1. BroadcastTo(c.dims, V, n, i > sig.nin) = BroadcastTo(c.dims, V, n, TRUE)
    <3>1. i > sig.nin
      BY <1>2, <1>8
    <3> QED
      BY <3>1, Zenon DEF BroadcastTo
  <2>2. AreDims(c.dims)
    <3>1. CASE i \in 1 .. Len(Args)
      <4>1. IsType(c)
        BY <1>1, <1>3, <3>1, MatchedAll DEF Broadcasting
      <4> QED
        BY <4>1 DEF IsType, AreDims
    <3>2. CASE i \notin 1 .. Len(Args)
      BY <1>2, <1>3, <3>2 DEF IsType, AreDims
    <3> QED
      BY <3>1, <3>2
  <2>3. /\ StartsWith(BroadcastTo(c.dims, V, n, TRUE), V)
        /\ AreDims(BroadcastTo(c.dims, V, n, TRUE))
    BY <1>4, <1>6, <2>2, OutputStarts
  <2>4. Broadcasted(i).dims = BroadcastTo(c.dims, V, n, TRUE)
    BY <1>5, <2>1
  <2>5. StartsWith(Broadcasted(i).dims, V) /\ AreDims(Broadcasted(i).dims)
    BY <2>3, <2>4
  <2> QED
    BY <1>1, <1>8, <2>5 DEF IsType, AreDims
<1> QED
  BY <1>7, <1>8

LEMMA BroadcastAllStep ==
  ASSUME CallInv, TableInv, ShapeInv, TypesInv, Ellipsis # "var", BroadcastAll
  PROVE  Inv'
<1>1. pc = "broadcast" /\ Arity
  BY DEF BroadcastAll, CallInv
<1>2. Matched
  BY <1>1 DEF Matched, TableInv
<1>3. Len(Args) \in Nat /\ ~(next <= Len(Args))
  BY <1>2, MatchedAll
<1>4. CASE Fail
  BY <1>3, <1>4, FailStep
<1>5. CASE ~Fail
  <2>1. /\ pc' = "order" /\ call' = call /\ tbl' = tbl /\ next' = next
        /\ Ellipsis # "..." => types' = types
        /\ Ellipsis = "..." =>
             /\ \A i \in DOMAIN types : IsArray(types[i])
             /\ types' = [i \in DOMAIN types |-> Broadcasted(i)]
             /\ outer' = OuterDims
    BY <1>5 DEF BroadcastAll
  <2>2. /\ sig' = sig /\ Args' = Args /\ (Given' <=> Given) /\ Ellipsis' = Ellipsis
        /\ \A i : OuterShape(i)' = OuterShape(i)
    BY <2>1, SameCall
  <2>3. CallInv'
    BY <1>1, <2>1, CallInvKept
  <2>4. TableInv'
    BY <1>1, <2>1, <2>2 DEF TableInv
  <2>5. ShapeInv'
    BY <1>1, <2>1, <2>2 DEF ShapeInv
  <2>6. Refusals'
    BY <2>1 DEF Refusals
  <2>7. TypesInv'
    <3>1. CASE Ellipsis # "..."
      BY <1>1, <2>1, <2>2, <3>1 DEF TypesInv
    <3>2. CASE Ellipsis = "..."
      <4>1. Broadcasting /\ \A j \in DOMAIN types : IsArray(types[j])
        BY <1>1, <1>2, <2>1, <3>2 DEF Broadcasting
      <4>2. IsSeq(types) /\ Len(types) = Len(sig.types)
        BY <1>1 DEF TypesInv
      <4>3. DOMAIN types = 1 .. Len(types) /\ Len(types) \in Nat
        BY <4>2, IsSeqProperties
      <4>4. PICK ts, n : ts = types' /\ n = Len(types)
        OBVIOUS
      <4>5. ts = [i \in 1 .. n |-> Broadcasted(i)]
        BY <2>1, <3>2, <4>3, <4>4
      <4>6. ts = [i \in 1 .. n |-> ts[i]]
        BY <4>5
      <4>7. IsSeq(ts) /\ Len(ts) = n
        BY <4>3, <4>4, <4>6, FunctionIsSeq, Zenon
      <4>8. outer' = Len(tbl["..."].value)
        BY <2>1, <3>2 DEF OuterDims
      <4>9. \A i \in 1 .. n :
              /\ StartsWith(ts[i].dims, tbl["..."].value)
              /\ i <= sig.nin =>
                   /\ i \in 1 .. Len(Args) /\ IsArray(Args[i])
                   /\ ts[i].dims = BroadcastTo(Args[i].dims, tbl["..."].value, Len(sig.types[i].dims), FALSE)
              /\ ~Given /\ i > sig.nin => IsType(ts[i])
        <5>1. ASSUME NEW i \in 1 .. n
              PROVE  ts[i] = Broadcasted(i) /\ i \in 1 .. Len(types)
          BY <4>4, <4>5
        <5> QED
          BY <4>1, <5>1, BroadcastedType
      <4>10. sig.nin \in Nat /\ sig.nin <= n
        BY <1>2, <4>2, <4>4, ArityProperties DEF Matched
      <4>11. /\ \A i \in 1 .. sig.nin :
                  /\ IsArray(Args[i])
                  /\ ts[i].dims = BroadcastTo(Args[i].dims, tbl["..."].value, Len(sig.types[i].dims), FALSE)
             /\ ~Given => \A i \in sig.nin + 1 .. n : IsType(ts[i])
        <5>1. /\ \A i \in 1 .. sig.nin : i \in 1 .. n /\ i <= sig.nin
              /\ \A i \in sig.nin + 1 .. n : i \in 1 .. n /\ i > sig.nin
          BY <4>3, <4>4, <4>10
        <5> QED
          BY <4>9, <5>1, Zenon
      <4> QED
        BY <2>1, <2>2, <4>2, <4>4, <4>7, <4>8, <4>9, <4>11 DEF TypesInv
    <3> QED
      BY <3>1, <3>2
  <2> QED
    BY <2>3, <2>4, <2>5, <2>6, <2>7 DEF Inv
<1> QED
  BY <1>4, <1>5
-----------------------------------------------------------------------------
(***************************************************************************)
(* Fortran order.                                                          *)
(***************************************************************************)
\* Another order of the items changes no length.
LEMMA ReorderedDims ==
  ASSUME NEW dims, AreDims(dims), \A k \in DOMAIN dims : dims[k].kind = "fixed"
  PROVE  /\ AreDims(ToFortran(dims))
         /\ \A u : StartsWith(dims, u) => StartsWith(ToFortran(dims), u)
<1>1. PICK b : b = ToFortran(dims)
  OBVIOUS
<1>2. IsSeq(dims) /\ Len(dims) \in Nat /\ DOMAIN dims = 1 .. Len(dims)
  BY IsSeqProperties DEF AreDims
<1>3. IsSeq(b) /\ Len(b) = Len(dims) /\ \A k \in 1 .. Len(dims) : b[k].shape = dims[k].shape
  BY <1>1, <1>2, FortranDims
<1>4. AreDims(b)
  BY <1>2, <1>3 DEF AreDims
<1>5. ASSUME NEW u, StartsWith(dims, u)
      PROVE  StartsWith(b, u)
  <2>1. Len(u) <= Len(dims) /\ \A k \in 1 .. Len(u) : dims[k].shape = u[k]
    BY <1>5 DEF StartsWith
  <2>2. \A k \in 1 .. Len(u) : b[k].shape = u[k]
    <3>1. TAKE k \in 1 .. Len(u)
    <3>2. k \in 1 .. Len(dims)
      BY <1>2, <2>1
    <3> QED
      BY <1>3, <2>1, <3>2
  <2> QED
    BY <1>3, <2>1, <2>2 DEF StartsWith
<1> QED
  BY <1>1, <1>4, <1>5

LEMMA OrderOutputsStep ==
  ASSUME CallInv, TableInv, ShapeInv, TypesInv, Ellipsis # "var", OrderOutputs
  PROVE  Inv'
<1>1. pc = "order" /\ Arity
  BY DEF OrderOutputs, CallInv
<1>2. Matched
  BY <1>1 DEF Matched, TableInv
<1>3. Len(Args) \in Nat /\ ~(next <= Len(Args))
  BY <1>2, MatchedAll
<1>4. CASE Fail
  BY <1>3, <1>4, FailStep
<1>5. CASE ~Fail
  <2> DEFINE Reordered(i) == ~Given /\ i > sig.nin /\ sig.types[i].ell # "none" /\ sig.types[i].order = "F"
             New(i) == IF Reordered(i) THEN Type(ToFortran(types[i].dims), types[i].dtype) ELSE types[i]
  <2>1. /\ pc' = "ok" /\ call' = call /\ tbl' = tbl /\ next' = next /\ outer' = outer
        /\ types' = [i \in DOMAIN types |-> New(i)]
    BY <1>5 DEF OrderOutputs
  <2>2. \A i \in sig.nin + 1 .. Len(types) : Reordered(i) => IsArray(types[i])
    BY <1>5 DEF OrderOutputs, Ordered
  <2>3. /\ sig' = sig /\ Args' = Args /\ (Given' <=> Given) /\ Ellipsis' = Ellipsis
        /\ \A i : OuterShape(i)' = OuterShape(i)
    BY <2>1, SameCall
  <2>4. CallInv'
    BY <1>1, <2>1, CallInvKept
  <2>5. TableInv'
    BY <1>1, <2>1, <2>3 DEF TableInv
  <2>6. ShapeInv'
    BY <1>1, <2>1, <2>3 DEF ShapeInv
  <2>7. Refusals'
    BY <2>1 DEF Refusals
  <2>8. /\ IsSeq(types) /\ Len(types) = Len(sig.types) /\ Len(types) \in Nat /\ DOMAIN types = 1 .. Len(types)
        /\ sig.nin \in Nat /\ sig.nin <= Len(types)
    <3>1. IsSeq(types) /\ Len(types) = Len(sig.types)
      BY <1>1 DEF TypesInv
    <3>2. sig.nin \in Nat /\ sig.nin <= Len(Args) /\ Len(Args) <= Len(sig.types) /\ Len(Args) \in Nat
      BY <1>2, ArityProperties DEF Matched
    <3> QED
      BY <3>1, <3>2, IsSeqProperties
  <2>9. PICK ts, n : ts = types' /\ n = Len(types)
    OBVIOUS
  <2>10. ASSUME NEW i \in 1 .. n
         PROVE  /\ ts[i] = New(i)
                /\ i <= sig.nin => ts[i] = types[i]
                /\ Reordered(i) => IsArray(types[i]) /\ IsType(types[i])
    <3>1. ts[i] = New(i)
      BY <2>1, <2>8, <2>9
    <3>2. i \in Nat /\ (i <= sig.nin => ~(i > sig.nin)) /\ (i > sig.nin => i \in sig.nin + 1 .. Len(types))
      BY <2>8, <2>9
    <3>3. ~Given /\ i > sig.nin => IsType(types[i])
      BY <1>1, <3>2 DEF TypesInv
    <3> QED
      BY <2>2, <3>1, <3>2, <3>3
  <2>11. ASSUME NEW i \in 1 .. n, Reordered(i)
         PROVE  /\ IsType(ts[i])
                /\ \A u : StartsWith(types[i].dims, u) => StartsWith(ts[i].dims, u)
    <3>1. PICK d : d = types[i].dims
      OBVIOUS
    <3>2. AreDims(d) /\ \A k \in DOMAIN d : d[k].kind = "fixed"
      BY <2>10, <2>11, <3>1 DEF IsType, AreDims, IsArray
    <3>3. AreDims(ToFortran(d)) /\ \A u : StartsWith(d, u) => StartsWith(ToFortran(d), u)
      BY <3>2, ReorderedDims
    <3>4. ts[i].dims = ToFortran(d)
      <4>1. New(i) = Type(ToFortran(types[i].dims), types[i].dtype)
        <5> HIDE DEF Reordered
        <5> QED
          BY <2>11
      <4>2. New(i).dims = ToFortran(types[i].dims)
        <5> HIDE DEF New
        <5> QED
          BY <4>1 DEF Type
      <4> QED
        BY <2>10, <3>1, <4>2
    <3> QED
      BY <3>1, <3>3, <3>4 DEF IsType, AreDims
  <2>12. ASSUME NEW i \in 1 .. n, ~Reordered(i)
         PROVE  ts[i] = types[i]
    BY <2>10, <2>12
  <2>13. IsSeq(ts) /\ Len(ts) = n
    <3>1. ts = [i \in 1 .. n |-> New(i)]
      BY <2>1, <2>8, <2>9
    <3>2. ts = [i \in 1 .. n |-> ts[i]]
      <4> HIDE DEF New, Reordered
      <4> QED
        BY <3>1
    <3> QED
      BY <2>8, <2>9, <3>2, FunctionIsSeq, ZenonT(40)
  <2> HIDE DEF New, Reordered
  <2>14. \A i \in sig.nin + 1 .. n : ~Given => IsType(ts[i])
    <3>1. TAKE i \in sig.nin + 1 .. n
    <3>2. i \in 1 .. n
      BY <2>8, <2>9
    <3>3. ~Given => IsType(types[i])
      BY <1>1, <2>9 DEF TypesInv
    <3> QED
      BY <2>11, <2>12, <3>2, <3>3
  <2>15. Ellipsis = "..." => \A i \in 1 .. n : StartsWith(ts[i].dims, tbl["..."].value)
    BY <1>1, <2>9, <2>11, <2>12 DEF TypesInv
  <2>16. \A i \in 1 .. sig.nin : ts[i] = types[i]
    <3>1. TAKE i \in 1 .. sig.nin
    <3>2. i \in 1 .. n /\ i <= sig.nin
      BY <2>8, <2>9
    <3> QED
      BY <2>10, <3>2
  <2>17. TypesInv'
    BY <1>1, <2>1, <2>3, <2>8, <2>9, <2>13, <2>14, <2>15, <2>16 DEF TypesInv
  <2> QED
    BY <2>4, <2>5, <2>6, <2>7, <2>17 DEF Inv
<1> QED
  BY <1>4, <1>5
-----------------------------------------------------------------------------
(***************************************************************************)
(* The second check.                                                       *)
(***************************************************************************)
LEMMA ShapeIsSeq ==
  ASSUME NEW dims, IsSeq(dims)
  PROVE  /\ IsSeq(Shape(dims)) /\ Len(Shape(dims)) = Len(dims)
         /\ \A k \in 1 .. Len(dims) : Shape(dims)[k] = dims[k].shape
<1>1. PICK s : s = Shape(dims)
  OBVIOUS
<1>2. Len(dims) \in Nat /\ DOMAIN dims = 1 .. Len(dims)
  BY IsSeqProperties
<1>3. s = [k \in 1 .. Len(dims) |-> dims[k].shape]
  BY <1>1, <1>2 DEF Shape
<1>4. s = [k \in 1 .. Len(dims) |-> s[k]] /\ \A k \in 1 .. Len(dims) : s[k] = dims[k].shape
  BY <1>3
<1>5. IsSeq(s) /\ Len(s) = Len(dims)
  BY <1>2, <1>4, FunctionIsSeq, Zenon
<1> QED
  BY <1>1, <1>4, <1>5

LEMMA CopyIsType ==
  ASSUME NEW c, IsType(c)
  PROVE  IsType(CopyContiguous(c))
<1>1. CASE ~IsArray(c)
  BY <1>1 DEF CopyContiguous
<1>2. CASE IsArray(c)
  <2>1. PICK s : s = Shape(c.dims)
    OBVIOUS
  <2>2. IsSeq(c.dims) /\ DOMAIN c.dims = 1 .. Len(c.dims)
    BY IsSeqProperties DEF IsType
  <2>3. IsSeq(s) /\ Len(s) = Len(c.dims) /\ \A k \in 1 .. Len(c.dims) : s[k] = c.dims[k].shape
    BY <2>1, <2>2, ShapeIsSeq
  <2>4. \A k \in 1 .. Len(s) : s[k] \in Nat
    BY <1>2, <2>2, <2>3 DEF IsArray, IsType
  <2>5. AreDims(<<>>)
    <3>1. <<>> \in Seq({})
      OBVIOUS
    <3>2. IsSeq(<<>>)
      BY <3>1, SeqIsSeq
    <3> QED
      BY <3>2 DEF AreDims
  <2>6. AreDims(AddDims(s, <<>>))
    BY <2>3, <2>4, <2>5, AddedDims
  <2>7. CopyContiguous(c).dims = AddDims(s, <<>>)
    BY <1>2, <2>1 DEF CopyContiguous, Type
  <2> QED
    BY <2>6, <2>7 DEF IsType, AreDims
<1> QED
  BY <1>1, <1>2

LEMMA CheckAgainStep ==
  ASSUME CallInv, TypesInv, Ellipsis # "var", CheckAgain
  PROVE  Inv'
<1>1. pc = "ok" /\ ~Given /\ sig.nout = 1 /\ Arity
  BY DEF CheckAgain, CallInv
<1>2. PICK out, c : out = CopyContiguous(types[sig.nin + 1]) /\ c = call'
  OBVIOUS
<1>3. IsType(out)
  <2>1. sig.nin \in Nat /\ Len(sig.types) = sig.nin + 1
    BY <1>1, ArityProperties
  <2>2. sig.nin + 1 \in sig.nin + 1 .. Len(types)
    BY <1>1, <2>1 DEF TypesInv
  <2>3. IsType(types[sig.nin + 1])
    BY <1>1, <2>2 DEF TypesInv
  <2> QED
    BY <1>2, <2>3, CopyIsType
<1>4. /\ c = [call EXCEPT !.outs = <<out>>, !.check = TRUE]
      /\ pc' = "start" /\ tbl' = <<>> /\ next' = 1
  BY <1>2 DEF CheckAgain
<1>5. /\ {"sig", "ins", "outs", "check"} \subseteq DOMAIN c
      /\ c.sig = call.sig /\ c.ins = call.ins /\ c.outs = <<out>>
  BY <1>4 DEF CallInv, HasFields
<1>6. sig' = sig /\ Ellipsis' = Ellipsis
  BY <1>2, <1>5 DEF sig, Ellipsis
<1>7. IsSeq(<<out>>) /\ \A i \in 1 .. Len(<<out>>) : IsType(<<out>>[i])
  <2>1. <<out>> \in Seq({out})
    OBVIOUS
  <2>2. IsSeq(<<out>>)
    BY <2>1, SeqIsSeq
  <2>3. \A i \in 1 .. Len(<<out>>) : <<out>>[i] = out
    OBVIOUS
  <2> QED
    BY <1>3, <2>2, <2>3
<1>8. CallInv'
  BY <1>2, <1>4, <1>5, <1>6, <1>7 DEF CallInv, HasFields
<1>9. TableInv' /\ ShapeInv' /\ TypesInv' /\ Refusals'
  BY <1>4 DEF TableInv, ShapeInv, TypesInv, Refusals
<1> QED
  BY <1>8, <1>9 DEF Inv

LEMMA InitInv ==
  ASSUME Init
  PROVE  HasFields /\ Inv
<1>1. /\ pc = "start" /\ tbl = <<>> /\ next = 1 /\ call \in Calls
  BY DEF Init
<1>2. PICK c : c = call
  OBVIOUS
<1>3. /\ c \in [sig : Signature, ins : Seq(ConcreteType), outs : Seq(ConcreteType), check : BOOLEAN]
      /\ SignatureOK(c.sig)
  BY <1>1, <1>2, CallsAssumption
<1>4. /\ {"sig", "ins", "outs", "check"} \subseteq DOMAIN c
      /\ c.sig \in Signature /\ c.ins \in Seq(ConcreteType) /\ c.outs \in Seq(ConcreteType)
  BY <1>3
<1>5. IsSeq(c.outs)
  BY <1>4, SeqIsSeq
<1>6. \A i \in 1 .. Len(c.outs) : IsType(c.outs[i])
  <2>1. \A i \in 1 .. Len(c.outs) : c.outs[i] \in ConcreteType
    BY <1>4
  <2> QED
    BY <2>1, ConcreteIsType
<1>7. CallInv
  BY <1>1, <1>2, <1>3, <1>4, <1>5, <1>6 DEF CallInv, HasFields, sig
<1>8. TableInv /\ ShapeInv /\ TypesInv /\ Refusals
  BY <1>1 DEF TableInv, ShapeInv, TypesInv, Refusals
<1> QED
  BY <1>7, <1>8 DEF Inv, CallInv

\* The signature of a call never changes.
LEMMA SameSignature ==
  ASSUME HasFields, [Next]_vars
  PROVE  HasFields' /\ Ellipsis' = Ellipsis
<1>1. CASE UNCHANGED call
  <2>1. call' = call
    BY <1>1
  <2> QED
    BY <2>1, SameCall DEF HasFields
<1>2. CASE ~(UNCHANGED call)
  <2>1. CheckAgain
    <3>1. CASE Next
      BY <1>2, <3>1 DEF Next, CheckArity, MatchArg, ResolveConstraint, Infer, BroadcastAll, OrderOutputs, Fail
    <3>2. CASE UNCHANGED vars
      BY <1>2, <3>2 DEF vars
    <3> QED
      BY <3>1, <3>2
  <2>2. PICK out, c : c = call' /\ c = [call EXCEPT !.outs = <<out>>, !.check = TRUE]
    BY <2>1 DEF CheckAgain
  <2>3. DOMAIN c = DOMAIN call /\ c.sig = call.sig
    BY <2>2 DEF HasFields
  <2> QED
    BY <2>2, <2>3 DEF HasFields, Ellipsis, sig
<1> QED
  BY <1>1, <1>2

LEMMA StutterInv ==
  ASSUME Inv, UNCHANGED vars
  PROVE  Inv'
<1>1. /\ call' = call /\ tbl' = tbl /\ next' = next /\ types' = types /\ outer' = outer /\ pc' = pc
  BY DEF vars
<1>2. /\ sig' = sig /\ Args' = Args /\ (Given' <=> Given) /\ (Arity' <=> Arity) /\ Ellipsis' = Ellipsis
      /\ \A i : OuterShape(i)' = OuterShape(i)
  BY <1>1, SameCall
<1>3. ASSUME Ellipsis # "var"
      PROVE  CallInv' /\ TableInv' /\ ShapeInv' /\ TypesInv' /\ Refusals'
  <2>1. CallInv /\ TableInv /\ ShapeInv /\ TypesInv /\ Refusals
    BY <1>3 DEF Inv
  <2>2. CallInv'
    BY <1>1, <1>2, <2>1 DEF CallInv, HasFields
  <2>3. TableInv'
    BY <1>1, <1>2, <2>1 DEF TableInv
  <2>4. ShapeInv'
    BY <1>1, <1>2, <2>1 DEF ShapeInv
  <2>5. TypesInv'
    BY <1>1, <1>2, <2>1 DEF TypesInv
  <2>6. Refusals'
    BY <1>1, <1>2, <2>1 DEF Refusals
  <2> QED
    BY <2>2, <2>3, <2>4, <2>5, <2>6
<1> QED
  BY <1>2, <1>3 DEF Inv

LEMMA NextInv ==
  ASSUME HasFields, Inv, [Next]_vars
  PROVE  HasFields' /\ Inv'
<1>1. HasFields' /\ Ellipsis' = Ellipsis
  BY SameSignature
<1>2. CASE Ellipsis = "var"
  BY <1>1, <1>2 DEF Inv
<1>3. ASSUME Ellipsis # "var"
      PROVE  Inv'
  <2>1. CallInv /\ TableInv /\ ShapeInv /\ TypesInv
    BY <1>3 DEF Inv
  <2>2. CASE CheckArity
    BY <1>3, <2>1, <2>2, CheckArityStep
  <2>3. CASE MatchArg
    BY <1>3, <2>1, <2>3, MatchArgStep
  <2>4. CASE ResolveConstraint
    BY <1>3, <2>1, <2>4, ResolveConstraintStep
  <2>5. CASE Infer
    BY <1>3, <2>1, <2>5, InferStep
  <2>6. CASE BroadcastAll
    BY <1>3, <2>1, <2>6, BroadcastAllStep
  <2>7. CASE OrderOutputs
    BY <1>3, <2>1, <2>7, OrderOutputsStep
  <2>8. CASE CheckAgain
    BY <1>3, <2>1, <2>8, CheckAgainStep
  <2>9. CASE UNCHANGED vars
    BY <2>9, StutterInv
  <2> QED
    BY <2>2, <2>3, <2>4, <2>5, <2>6, <2>7, <2>8, <2>9 DEF Next
<1> QED
  BY <1>1, <1>2, <1>3

\* The invariant holds of every call.
THEOREM InvHolds == Spec => [](HasFields /\ Inv)
<1>1. Init => HasFields /\ Inv
  BY InitInv
<1>2. HasFields /\ Inv /\ [Next]_vars => (HasFields /\ Inv)'
  BY NextInv
<1> QED
  BY <1>1, <1>2, PTL DEF Spec
-----------------------------------------------------------------------------
(***************************************************************************)
(* What the invariant gives.                                               *)
(***************************************************************************)
LEMMA InvRefuses ==
  ASSUME Inv, Ellipsis # "var"
  PROVE  Complete
<1>1. Refusals
  BY DEF Inv
<1> QED
  BY <1>1 DEF Refusals, Complete

LEMMA InvAccepts ==
  ASSUME Inv, Ellipsis # "var"
  PROVE  Sound
<1>1. SUFFICES ASSUME pc = "ok", NEW i \in DOMAIN Args
               PROVE  Denotes(Binding, sig.types[i], Args[i])
  BY DEF Sound
<1>2. Matched
  BY <1>1 DEF Inv, Matched, CallInv, TableInv
<1>3. i \in 1 .. Len(Args)
  <2>1. DOMAIN Args = 1 .. Len(Args)
    BY <1>2, ArgsProperties, IsSeqProperties DEF Matched
  <2> QED
    BY <2>1
<1>4. PICK p, c, u : p = sig.types[i] /\ c = Args[i] /\ u = tbl
  OBVIOUS
<1>5. ArgFits(u, p, c) /\ IsTypePattern(p) /\ p.ell = Ellipsis /\ IsType(c)
  BY <1>2, <1>3, <1>4, MatchedAll
<1>6. IsPattern(p) /\ IsSeq(c.dims) /\ p.ell # "var"
  BY <1>5 DEF IsTypePattern, IsType
<1>7. Denotes(BindingOf(u), p, c)
  BY <1>5, <1>6, ArgFitsDenotes
<1> QED
  BY <1>4, <1>7 DEF Binding

\* Types that start with the same lengths have the same outer dimensions.
LEMMA SameOuter ==
  ASSUME NEW d, NEW e, NEW u, StartsWith(d, u), StartsWith(e, u), IsSeq(u), NEW n, n = Len(u)
  PROVE  Shape(SubSeq(d, 1, n)) = Shape(SubSeq(e, 1, n))
<1>1. n \in Nat /\ IsSeq(d) /\ IsSeq(e) /\ n <= Len(d) /\ n <= Len(e)
  BY IsSeqProperties DEF StartsWith
<1>2. ASSUME NEW a, IsSeq(a), n <= Len(a), \A k \in 1 .. n : a[k].shape = u[k]
      PROVE  Shape(SubSeq(a, 1, n)) = u
  <2>1. PICK b : b = SubSeq(a, 1, n)
    OBVIOUS
  <2>2. 1 \in Int /\ n \in Int /\ 1 <= 1 /\ 1 <= n + 1
    BY <1>1
  <2>3. IsSeq(b) /\ Len(b) = n - 1 + 1 /\ \A k \in 1 .. n - 1 + 1 : b[k] = a[1 + k - 1]
    BY <1>2, <2>1, <2>2, SubSeqIsSeq
  <2>4. n - 1 + 1 = n /\ \A k \in 1 .. n : 1 + k - 1 = k
    BY <1>1
  <2>5. IsSeq(b) /\ Len(b) = n /\ \A k \in 1 .. n : b[k].shape = u[k]
    BY <1>2, <2>3, <2>4
  <2>6. IsSeq(Shape(b)) /\ Len(Shape(b)) = n /\ \A k \in 1 .. n : Shape(b)[k] = u[k]
    BY <2>5, ShapeIsSeq
  <2>7. Shape(b) = u
    BY <2>6, SameSeq
  <2> QED
    BY <2>1, <2>7
<1>3. Shape(SubSeq(d, 1, n)) = u
  BY <1>1, <1>2 DEF StartsWith
<1>4. Shape(SubSeq(e, 1, n)) = u
  BY <1>1, <1>2 DEF StartsWith
<1> QED
  BY <1>3, <1>4

\* An input reads its items.
LEMMA InputReads ==
  ASSUME CallInv, TableInv, ShapeInv, TypesInv, pc = "ok", Ellipsis = "...", NEW i \in 1 .. sig.nin,
         NEW ix \in Indices(Shape(types[i].dims))
  PROVE  ReadsItem(Args[i].dims, types[i].dims, ix)
<1>1. Matched
  BY DEF Matched, CallInv, TableInv
<1>2. PICK p, c, V, b, l : /\ p = sig.types[i] /\ c = Args[i] /\ V = tbl["..."].value
                           /\ b = types[i].dims /\ l = Len(sig.types[i].dims)
  OBVIOUS
<1>3. i \in 1 .. Len(Args) /\ i \in 1 .. Len(sig.types) /\ i \in 1 .. Len(call.ins)
  BY <1>1, ArityProperties DEF Matched
<1>4. IsArray(c) /\ b = BroadcastTo(c.dims, V, l, FALSE)
  BY <1>2 DEF TypesInv
<1>5. c \in ConcreteType
  BY <1>2, <1>3, ArgsProperties
<1>6. IsSeq(c.dims) /\ \A k \in 1 .. Len(c.dims) : c.dims[k].shape \in Nat /\ c.dims[k].step \in Int
  <2>1. /\ IsType(c)
        /\ \A k \in 1 .. Len(c.dims) : c.dims[k].kind = "fixed" => c.dims[k].step \in Int
    BY <1>5, ConcreteIsType
  <2>2. DOMAIN c.dims = 1 .. Len(c.dims)
    BY <2>1, IsSeqProperties DEF IsType
  <2> QED
    BY <1>4, <2>1, <2>2 DEF IsType, IsArray
<1>7. IsSeq(p.dims) /\ IsSeq(V) /\ CanTake(p, c) /\ Reads(OuterOf(p, c), V)
  <2>1. IsSeq(p.dims)
    BY <1>1, <1>2, <1>3, OutputPatterns
  <2> QED
    BY <1>1, <1>2, <1>3, <2>1, SharedShape
<1>8. /\ l \in Nat /\ l <= Len(c.dims) /\ Len(c.dims) - l <= Len(V)
      /\ \A k \in 1 .. Len(c.dims) - l :
           ReadsDim(c.dims[k].shape, V[Len(V) - (Len(c.dims) - l) + k])
  BY <1>2, <1>6, <1>7, OuterFits
<1>9. ix \in Indices(Shape(b))
  BY <1>2
<1>10. ReadsItem(c.dims, b, ix)
  <2>1. PICK d : d = c.dims
    OBVIOUS
  <2>2. /\ IsSeq(d) /\ \A k \in 1 .. Len(d) : d[k].shape \in Nat /\ d[k].step \in Int
        /\ IsSeq(V) /\ l \in Nat /\ l <= Len(d) /\ Len(d) - l <= Len(V)
        /\ \A k \in 1 .. Len(d) - l : ReadsDim(d[k].shape, V[Len(V) - (Len(d) - l) + k])
        /\ b = BroadcastTo(d, V, l, FALSE)
        /\ ix \in Indices(Shape(b))
    BY <1>4, <1>6, <1>7, <1>8, <1>9, <2>1
  <2>3. ReadsItem(d, b, ix)
    BY <2>2, ReadsItsItems
  <2> QED
    BY <2>1, <2>3
<1> QED
  BY <1>2, <1>10

LEMMA InvReads ==
  ASSUME Inv
  PROVE  BroadcastReads
<1>1. SUFFICES ASSUME pc = "ok", Ellipsis = "..."
               PROVE  BroadcastReads
  BY DEF BroadcastReads
<1>2. CallInv /\ TableInv /\ ShapeInv /\ TypesInv
  BY <1>1 DEF Inv
<1>3. Matched
  BY <1>1, <1>2 DEF Matched, CallInv, TableInv
<1>4. PICK V, n : V = tbl["..."].value /\ n = outer
  OBVIOUS
<1>5. /\ IsSeq(types) /\ n = Len(V) /\ IsSeq(V)
      /\ \A i \in 1 .. Len(types) : StartsWith(types[i].dims, V)
  BY <1>1, <1>2, <1>3, <1>4, SharedShape DEF TypesInv
<1>6. ASSUME NEW i \in DOMAIN types
      PROVE  Shape(SubSeq(types[i].dims, 1, outer)) = Shape(SubSeq(types[1].dims, 1, outer))
  <2>1. DOMAIN types = 1 .. Len(types) /\ Len(types) \in Nat
    BY <1>5, IsSeqProperties
  <2>2. i \in 1 .. Len(types) /\ 1 \in 1 .. Len(types)
    BY <2>1
  <2>3. PICK d, e : d = types[i].dims /\ e = types[1].dims
    OBVIOUS
  <2>4. StartsWith(d, V) /\ StartsWith(e, V)
    BY <1>5, <2>2, <2>3
  <2>5. Shape(SubSeq(d, 1, n)) = Shape(SubSeq(e, 1, n))
    BY <1>5, <2>4, SameOuter
  <2> QED
    BY <1>4, <2>3, <2>5
<1>7. \A i \in 1 .. sig.nin : \A ix \in Indices(Shape(types[i].dims)) :
        ReadsItem(Args[i].dims, types[i].dims, ix)
  BY <1>1, <1>2, InputReads, Zenon
<1> QED
  BY <1>6, <1>7, Zenon DEF BroadcastReads, ReadsItem

\* A check succeeds only if one value of every symbol makes each type of the
\* signature stand for the argument at its place, and arguments are refused
\* only if no value of the symbols does or their outer dimensions do not fit
\* each other (match.c).  Ragged dimensions are left out: what is compared
\* with them may never have been written.
THEOREM AcceptsWhatFitsHolds == Spec => [](Ellipsis # "var" => AcceptsWhatFits)
<1>1. Inv => (Ellipsis # "var" => AcceptsWhatFits)
  BY InvAccepts, InvRefuses DEF AcceptsWhatFits
<1> QED
  BY <1>1, InvHolds, PTL

\* After broadcasting all types have the same outer dimensions, and at every
\* index an input reads the item that it has there (broadcast in match.c).
THEOREM BroadcastReadsHolds == Spec => []BroadcastReads
<1>1. Inv => BroadcastReads
  BY InvReads
<1> QED
  BY <1>1, InvHolds, PTL
-----------------------------------------------------------------------------
(***************************************************************************)
(* Products and extents.                                                   *)
(***************************************************************************)
\* g[k] is the product of the first k lengths.
Multiplied(ns, g) == g[0] = 1 /\ \A k \in 1 .. Len(ns) : g[k] = g[k - 1] * ns[k]

\* What FoldLeft computes: its recursion holds for any function that it may
\* choose.
LEMMA ProductRuns ==
  ASSUME NEW ns, IsSeq(ns), \A k \in 1 .. Len(ns) : ns[k] \in Nat
  PROVE  \E g \in [0 .. Len(ns) -> Nat] : Multiplied(ns, g) /\ Product(ns) = g[Len(ns)]
<1>1. PICK n \in Nat : n = Len(ns) /\ DOMAIN ns = 1 .. n
  BY IsSeqProperties
<1> DEFINE P == SUBSET (1 .. n)
           iter[S \in SUBSET DOMAIN ns] ==
              IF S = {} THEN 1 ELSE LET x == Max(S) IN iter[S \ {x}] * ns[x]
           Rule(f) == [S \in P |-> IF S = {} THEN 1 ELSE f[S \ {Max(S)}] * ns[Max(S)]]
           h == [i \in 1 .. n |-> [a \in Nat |-> a * ns[i]]]
<1>2. Product(ns) = iter[1 .. n]
  BY <1>1 DEF Product, FoldLeft, MapThenFoldSet
<1>3. iter = CHOOSE f : f = Rule(f)
  BY <1>1
<1>4. PICK F \in [P -> Nat] : Iterates(F, n, 1, h)
  <2>1. \A i \in 1 .. n : \A a \in Nat : a * ns[i] \in Nat
    <3> SUFFICES ASSUME NEW i \in 1 .. n, NEW a \in Nat
                 PROVE  a * ns[i] \in Nat
      OBVIOUS
    <3>1. PICK c \in Nat : c = ns[i]
      BY <1>1
    <3> QED
      BY <3>1
  <2>2. h \in [1 .. n -> [Nat -> Nat]] /\ 1 \in Nat
    BY <2>1
  <2> HIDE DEF h
  <2> QED
    BY <2>2, Iteration
<1>5. ASSUME NEW S \in P, S # {}
      PROVE  F[S] = F[S \ {Max(S)}] * ns[Max(S)]
  <2>1. PICK m \in 1 .. n, T \in P : m = Max(S) /\ T = S \ {m} /\ S = T \cup {m}
                                  /\ T \in SUBSET (1 .. (m - 1))
    BY <1>5, LargestPosition
  <2>2. F[S] = h[m][F[T]]
    <3> HIDE DEF h
    <3>1. F[T \cup {m}] = h[m][F[T]]
      BY <1>4, <2>1, Zenon DEF Iterates
    <3> QED
      BY <2>1, <3>1
  <2>3. F[T] \in Nat
    OBVIOUS
  <2>4. h[m][F[T]] = F[T] * ns[m]
    BY <2>3
  <2> QED
    BY <2>1, <2>2, <2>4
<1>6. F = Rule(F)
  <2>1. F[{}] = 1
    BY <1>4 DEF Iterates
  <2> HIDE DEF P
  <2> QED
    BY <1>4, <1>5, <2>1
<1> HIDE DEF iter, P, h
<1>7. iter = Rule(iter)
  <2> HIDE DEF Rule
  <2> QED
    BY <1>3, <1>6, Zenon
<1>8. iter[{}] = 1
  BY <1>7 DEF P
<1>9. ASSUME NEW i \in 1 .. n
      PROVE  iter[1 .. i] = iter[1 .. (i - 1)] * ns[i]
  <2>1. Max(1 .. i) = i /\ (1 .. i) \ {i} = 1 .. (i - 1) /\ 1 .. i # {} /\ 1 .. i \in P
    BY UpToMax DEF P
  <2>2. iter[1 .. i] = iter[(1 .. i) \ {Max(1 .. i)}] * ns[Max(1 .. i)]
    BY <1>7, <2>1
  <2> QED
    BY <2>1, <2>2
<1> DEFINE G == [i \in 0 .. n |-> iter[1 .. i]]
<1>10. \A i \in 0 .. n : G[i] \in Nat
  <2> DEFINE S == {i \in Nat : i <= n => iter[1 .. i] \in Nat}
  <2>1. 0 \in S
    <3>1. 1 .. 0 = {}
      OBVIOUS
    <3> QED
      BY <1>8, <3>1
  <2>2. ASSUME NEW i \in Nat, i \in S
        PROVE  i + 1 \in S
    <3> SUFFICES ASSUME i + 1 <= n
                 PROVE  iter[1 .. (i + 1)] \in Nat
      OBVIOUS
    <3>1. i + 1 \in 1 .. n /\ (i + 1) - 1 = i /\ iter[1 .. i] \in Nat
      BY <2>2
    <3>2. iter[1 .. (i + 1)] = iter[1 .. i] * ns[i + 1]
      BY <1>9, <3>1
    <3>3. PICK a \in Nat, b \in Nat : a = iter[1 .. i] /\ b = ns[i + 1]
      BY <1>1, <3>1
    <3> QED
      BY <3>2, <3>3
  <2> HIDE DEF S
  <2>3. \A i \in Nat : i \in S
    BY <2>1, <2>2, NatSetInduction
  <2> QED
    BY <2>3 DEF S
<1>11. G \in [0 .. n -> Nat]
  BY <1>10
<1>12. G[0] = 1
  <2>1. 1 .. 0 = {}
    OBVIOUS
  <2> QED
    BY <1>8, <2>1
<1>13. \A i \in 1 .. n : G[i] = G[i - 1] * ns[i]
  BY <1>9
<1>14. Product(ns) = G[n]
  BY <1>2
<1> HIDE DEF G
<1> QED
  BY <1>1, <1>11, <1>12, <1>13, <1>14 DEF Multiplied

\* f[k] is the extent of the first k dimensions, none of them empty.
Extended(dims, f) ==
  f[0] = 1 /\ \A k \in 1 .. Len(dims) : f[k] = f[k - 1] + (dims[k].shape - 1) * AbsOf(dims[k].step)

LEMMA ExtentRuns ==
  ASSUME NEW dims, IsSeq(dims), \A k \in 1 .. Len(dims) : dims[k].shape \in Nat /\ dims[k].step \in Int,
         \A k \in 1 .. Len(dims) : dims[k].shape # 0
  PROVE  \E f \in [0 .. Len(dims) -> Int] : Extended(dims, f) /\ Extent(dims) = f[Len(dims)]
<1>1. PICK n \in Nat : n = Len(dims) /\ DOMAIN dims = 1 .. n
  BY IsSeqProperties
<1> DEFINE P == SUBSET (1 .. n)
           iter[S \in SUBSET DOMAIN dims] ==
              IF S = {} THEN 1
              ELSE LET x == Max(S) IN iter[S \ {x}] + (dims[x].shape - 1) * AbsOf(dims[x].step)
           Rule(f) == [S \in P |-> IF S = {} THEN 1
                                   ELSE f[S \ {Max(S)}] + (dims[Max(S)].shape - 1) * AbsOf(dims[Max(S)].step)]
           h == [i \in 1 .. n |-> [a \in Int |-> a + (dims[i].shape - 1) * AbsOf(dims[i].step)]]
<1>2. Extent(dims) = iter[1 .. n]
  BY <1>1 DEF Extent, FoldLeft, MapThenFoldSet
<1>3. iter = CHOOSE f : f = Rule(f)
  BY <1>1
<1>20. \A i \in 1 .. n : (dims[i].shape - 1) * AbsOf(dims[i].step) \in Int
  <2> SUFFICES ASSUME NEW i \in 1 .. n
               PROVE  (dims[i].shape - 1) * AbsOf(dims[i].step) \in Int
    OBVIOUS
  <2>1. PICK c \in Int, e \in Int : c = dims[i].shape - 1 /\ e = AbsOf(dims[i].step)
    BY <1>1 DEF AbsOf
  <2>2. c * e \in Int
    OBVIOUS
  <2> QED
    BY <2>1, <2>2
<1>4. PICK F \in [P -> Int] : Iterates(F, n, 1, h)
  <2>2. h \in [1 .. n -> [Int -> Int]] /\ 1 \in Int
    BY <1>20
  <2> HIDE DEF h
  <2> QED
    BY <2>2, Iteration
<1>5. ASSUME NEW S \in P, S # {}
      PROVE  F[S] = F[S \ {Max(S)}] + (dims[Max(S)].shape - 1) * AbsOf(dims[Max(S)].step)
  <2>1. PICK m \in 1 .. n, T \in P : m = Max(S) /\ T = S \ {m} /\ S = T \cup {m}
                                  /\ T \in SUBSET (1 .. (m - 1))
    BY <1>5, LargestPosition
  <2>2. F[S] = h[m][F[T]]
    <3> HIDE DEF h
    <3>1. F[T \cup {m}] = h[m][F[T]]
      BY <1>4, <2>1, Zenon DEF Iterates
    <3> QED
      BY <2>1, <3>1
  <2>3. F[T] \in Int
    OBVIOUS
  <2>4. h[m][F[T]] = F[T] + (dims[m].shape - 1) * AbsOf(dims[m].step)
    BY <2>3
  <2> QED
    BY <2>1, <2>2, <2>4
<1>6. F = Rule(F)
  <2>1. F[{}] = 1
    BY <1>4 DEF Iterates
  <2> HIDE DEF P
  <2> QED
    BY <1>4, <1>5, <2>1
<1> HIDE DEF iter, P, h
<1>7. iter = Rule(iter)
  <2> HIDE DEF Rule
  <2> QED
    BY <1>3, <1>6, Zenon
<1>8. iter[{}] = 1
  BY <1>7 DEF P
<1>9. ASSUME NEW i \in 1 .. n
      PROVE  iter[1 .. i] = iter[1 .. (i - 1)] + (dims[i].shape - 1) * AbsOf(dims[i].step)
  <2>1. Max(1 .. i) = i /\ (1 .. i) \ {i} = 1 .. (i - 1) /\ 1 .. i # {} /\ 1 .. i \in P
    BY UpToMax DEF P
  <2>2. iter[1 .. i] = iter[(1 .. i) \ {Max(1 .. i)}]
                       + (dims[Max(1 .. i)].shape - 1) * AbsOf(dims[Max(1 .. i)].step)
    BY <1>7, <2>1
  <2> QED
    BY <2>1, <2>2
<1> DEFINE G == [i \in 0 .. n |-> iter[1 .. i]]
<1>10. \A i \in 0 .. n : G[i] \in Int
  <2> DEFINE S == {i \in Nat : i <= n => iter[1 .. i] \in Int}
  <2>1. 0 \in S
    <3>1. 1 .. 0 = {}
      OBVIOUS
    <3> QED
      BY <1>8, <3>1
  <2>2. ASSUME NEW i \in Nat, i \in S
        PROVE  i + 1 \in S
    <3> SUFFICES ASSUME i + 1 <= n
                 PROVE  iter[1 .. (i + 1)] \in Int
      OBVIOUS
    <3>1. i + 1 \in 1 .. n /\ (i + 1) - 1 = i /\ iter[1 .. i] \in Int
      BY <2>2
    <3>2. iter[1 .. (i + 1)] = iter[1 .. i] + (dims[i + 1].shape - 1) * AbsOf(dims[i + 1].step)
      BY <1>9, <3>1
    <3>3. PICK a \in Int, b \in Int : a = iter[1 .. i] /\ b = (dims[i + 1].shape - 1) * AbsOf(dims[i + 1].step)
      BY <1>20, <3>1
    <3> QED
      BY <3>2, <3>3
  <2> HIDE DEF S
  <2>3. \A i \in Nat : i \in S
    BY <2>1, <2>2, NatSetInduction
  <2> QED
    BY <2>3 DEF S
<1>11. G \in [0 .. n -> Int]
  BY <1>10
<1>12. G[0] = 1
  <2>1. 1 .. 0 = {}
    OBVIOUS
  <2> QED
    BY <1>8, <2>1
<1>13. \A i \in 1 .. n : G[i] = G[i - 1] + (dims[i].shape - 1) * AbsOf(dims[i].step)
  BY <1>9
<1>14. Extent(dims) = G[n]
  BY <1>2
<1> HIDE DEF G
<1> QED
  BY <1>1, <1>11, <1>12, <1>13, <1>14 DEF Extended

\* b is s with x in front of it, and s with x behind it.
InFront(b, x, s) ==
  /\ IsSeq(b) /\ IsSeq(s) /\ Len(b) = Len(s) + 1
  /\ b[1] = x /\ \A k \in 1 .. Len(s) : b[k + 1] = s[k]

Behind(b, s, x) ==
  /\ IsSeq(b) /\ IsSeq(s) /\ Len(b) = Len(s) + 1
  /\ b[Len(s) + 1] = x /\ \A k \in 1 .. Len(s) : b[k] = s[k]

AreLengths(ns) == IsSeq(ns) /\ \A k \in 1 .. Len(ns) : ns[k] \in Nat

LEMMA ProductCons ==
  ASSUME NEW s, AreLengths(s), NEW n \in Nat, NEW b, InFront(b, n, s)
  PROVE  AreLengths(b) /\ Product(s) \in Nat /\ Product(b) = n * Product(s)
<1>1. PICK m \in Nat : m = Len(s) /\ Len(b) = m + 1
  BY IsSeqProperties DEF AreLengths, InFront
<1>2. b[1] = n /\ \A k \in 1 .. m : b[k + 1] = s[k] /\ s[k] \in Nat
  BY <1>1 DEF AreLengths, InFront
<1>3. AreLengths(b)
  <2>1. ASSUME NEW k \in 1 .. m + 1
        PROVE  b[k] \in Nat
    <3>1. k = 1 \/ (k - 1 \in 1 .. m /\ (k - 1) + 1 = k)
      BY <1>1
    <3> QED
      BY <1>2, <3>1
  <2> QED
    BY <1>1, <2>1 DEF AreLengths, InFront
<1>4. PICK g \in [0 .. m -> Nat] : g[0] = 1 /\ (\A k \in 1 .. m : g[k] = g[k - 1] * s[k]) /\ Product(s) = g[m]
  BY <1>1, ProductRuns DEF AreLengths, Multiplied
<1>5. PICK h \in [0 .. m + 1 -> Nat] :
        h[0] = 1 /\ (\A k \in 1 .. m + 1 : h[k] = h[k - 1] * b[k]) /\ Product(b) = h[m + 1]
  BY <1>1, <1>3, ProductRuns DEF AreLengths, Multiplied
<1> DEFINE S == {k \in Nat : k <= m => h[k + 1] = n * g[k]}
<1>6. 0 \in S
  <2>1. 1 \in 1 .. m + 1 /\ 1 - 1 = 0
    BY <1>1
  <2>2. h[1] = 1 * n
    BY <1>2, <1>5, <2>1
  <2> QED
    BY <1>4, <2>2
<1>7. ASSUME NEW k \in Nat, k \in S
      PROVE  k + 1 \in S
  <2> SUFFICES ASSUME k + 1 <= m
               PROVE  h[(k + 1) + 1] = n * g[k + 1]
    OBVIOUS
  <2>1. /\ k + 1 \in 1 .. m /\ (k + 1) - 1 = k /\ k \in 0 .. m
        /\ (k + 1) + 1 \in 1 .. m + 1 /\ ((k + 1) + 1) - 1 = k + 1
        /\ h[k + 1] = n * g[k]
    BY <1>1, <1>7
  <2>2. PICK a \in Nat, c \in Nat : a = g[k] /\ c = s[k + 1]
    BY <1>2, <2>1
  <2>3. h[(k + 1) + 1] = (n * a) * c
    BY <1>2, <1>5, <2>1, <2>2
  <2>4. g[k + 1] = a * c
    BY <1>4, <2>1, <2>2
  <2>5. (n * a) * c = n * (a * c)
    OBVIOUS
  <2> QED
    BY <2>3, <2>4, <2>5
<1> HIDE DEF S
<1>8. m \in S
  BY <1>6, <1>7, NatSetInduction
<1>9. h[m + 1] = n * g[m]
  BY <1>8 DEF S
<1> QED
  BY <1>3, <1>4, <1>5, <1>9

LEMMA ProductSnoc ==
  ASSUME NEW s, AreLengths(s), NEW n \in Nat, NEW b, Behind(b, s, n)
  PROVE  AreLengths(b) /\ Product(s) \in Nat /\ Product(b) = Product(s) * n
<1>1. PICK m \in Nat : m = Len(s) /\ Len(b) = m + 1
  BY IsSeqProperties DEF AreLengths, Behind
<1>2. b[m + 1] = n /\ \A k \in 1 .. m : b[k] = s[k] /\ s[k] \in Nat
  BY <1>1 DEF AreLengths, Behind
<1>3. AreLengths(b)
  <2>1. ASSUME NEW k \in 1 .. m + 1
        PROVE  b[k] \in Nat
    <3>1. k = m + 1 \/ k \in 1 .. m
      BY <1>1
    <3> QED
      BY <1>2, <3>1
  <2> QED
    BY <1>1, <2>1 DEF AreLengths, Behind
<1>4. PICK g \in [0 .. m -> Nat] : g[0] = 1 /\ (\A k \in 1 .. m : g[k] = g[k - 1] * s[k]) /\ Product(s) = g[m]
  BY <1>1, ProductRuns DEF AreLengths, Multiplied
<1>5. PICK h \in [0 .. m + 1 -> Nat] :
        h[0] = 1 /\ (\A k \in 1 .. m + 1 : h[k] = h[k - 1] * b[k]) /\ Product(b) = h[m + 1]
  BY <1>1, <1>3, ProductRuns DEF AreLengths, Multiplied
<1> DEFINE S == {k \in Nat : k <= m => h[k] = g[k]}
<1>6. 0 \in S
  BY <1>4, <1>5
<1>7. ASSUME NEW k \in Nat, k \in S
      PROVE  k + 1 \in S
  <2> SUFFICES ASSUME k + 1 <= m
               PROVE  h[k + 1] = g[k + 1]
    OBVIOUS
  <2>1. k + 1 \in 1 .. m /\ k + 1 \in 1 .. m + 1 /\ (k + 1) - 1 = k /\ h[k] = g[k]
    BY <1>1, <1>7
  <2> QED
    BY <1>2, <1>4, <1>5, <2>1
<1> HIDE DEF S
<1>8. m \in S
  BY <1>6, <1>7, NatSetInduction
<1>9. h[m] = g[m]
  BY <1>8 DEF S
<1>10. m + 1 \in 1 .. m + 1 /\ (m + 1) - 1 = m
  OBVIOUS
<1>11. h[m + 1] = h[m] * b[m + 1]
  BY <1>5, <1>10
<1> QED
  BY <1>2, <1>3, <1>4, <1>5, <1>9, <1>11

LEMMA ProductSigns ==
  ASSUME NEW ns, AreLengths(ns)
  PROVE  /\ Product(ns) \in Nat
         /\ ns = <<>> => Product(ns) = 1
         /\ (\A k \in 1 .. Len(ns) : ns[k] # 0) => Product(ns) # 0
         /\ (\E k \in 1 .. Len(ns) : ns[k] = 0) => Product(ns) = 0
<1>1. PICK m \in Nat : m = Len(ns)
  BY IsSeqProperties DEF AreLengths
<1>2. PICK g \in [0 .. m -> Nat] : g[0] = 1 /\ (\A k \in 1 .. m : g[k] = g[k - 1] * ns[k]) /\ Product(ns) = g[m]
  BY <1>1, ProductRuns DEF AreLengths, Multiplied
<1>3. \A k \in 1 .. m : ns[k] \in Nat
  BY <1>1 DEF AreLengths
<1>4. ns = <<>> => Product(ns) = 1
  BY <1>1, <1>2
<1>5. ASSUME \A k \in 1 .. m : ns[k] # 0
      PROVE  g[m] # 0
  <2> DEFINE S == {k \in Nat : k <= m => g[k] # 0}
  <2>1. 0 \in S
    BY <1>2
  <2>2. ASSUME NEW k \in Nat, k \in S
        PROVE  k + 1 \in S
    <3> SUFFICES ASSUME k + 1 <= m
                 PROVE  g[k + 1] # 0
      OBVIOUS
    <3>1. k + 1 \in 1 .. m /\ (k + 1) - 1 = k /\ k \in 0 .. m /\ g[k] # 0
      BY <2>2
    <3>2. PICK a \in Nat, c \in Nat : a = g[k] /\ c = ns[k + 1] /\ a # 0 /\ c # 0
      BY <1>3, <1>5, <3>1
    <3>3. a * c # 0
      BY <3>2
    <3> QED
      BY <1>2, <3>1, <3>2, <3>3
  <2> HIDE DEF S
  <2>3. m \in S
    BY <2>1, <2>2, NatSetInduction
  <2> QED
    BY <2>3 DEF S
<1>6. ASSUME NEW j \in 1 .. m, ns[j] = 0
      PROVE  g[m] = 0
  <2> DEFINE S == {k \in Nat : j + k <= m => g[j + k] = 0}
  <2>1. 0 \in S
    <3>1. g[j] = g[j - 1] * ns[j] /\ j - 1 \in 0 .. m
      BY <1>2
    <3>2. PICK a \in Nat : a = g[j - 1]
      BY <3>1
    <3>3. a * 0 = 0
      OBVIOUS
    <3> QED
      BY <1>6, <3>1, <3>2, <3>3
  <2>2. ASSUME NEW k \in Nat, k \in S
        PROVE  k + 1 \in S
    <3> SUFFICES ASSUME j + (k + 1) <= m
                 PROVE  g[j + (k + 1)] = 0
      OBVIOUS
    <3>1. PICK i \in 1 .. m : i = j + (k + 1) /\ i - 1 = j + k /\ g[i - 1] = 0
      BY <2>2
    <3>2. PICK c \in Nat : c = ns[i]
      BY <1>3
    <3>3. g[i] = 0 * c /\ 0 * c = 0
      BY <1>2, <3>1, <3>2
    <3> QED
      BY <3>1, <3>3
  <2> HIDE DEF S
  <2>3. \A k \in Nat : k \in S
    BY <2>1, <2>2, NatSetInduction
  <2>4. m - j \in S /\ j + (m - j) = m
    BY <2>3
  <2> QED
    BY <2>4 DEF S
<1> QED
  BY <1>1, <1>2, <1>4, <1>5, <1>6

\* Fixed dimensions.
AreFixed(dims) ==
  /\ IsSeq(dims)
  /\ \A k \in 1 .. Len(dims) : dims[k].kind = "fixed" /\ dims[k].shape \in Nat /\ dims[k].step \in Int

IsFixed(d) == d.kind = "fixed" /\ d.shape \in Nat /\ d.step \in Int

LEMMA FixedCons ==
  ASSUME NEW s, NEW d, NEW b, InFront(b, d, s)
  PROVE  AreFixed(b) <=> AreFixed(s) /\ IsFixed(d)
<1>1. PICK m \in Nat : m = Len(s) /\ Len(b) = m + 1
  BY IsSeqProperties DEF InFront
<1>2. /\ IsSeq(b) /\ IsSeq(s) /\ b[1] = d
      /\ \A k \in 1 .. m : b[k + 1] = s[k] /\ k + 1 \in 1 .. m + 1
      /\ \A k \in 1 .. m + 1 : k = 1 \/ (k - 1 \in 1 .. m /\ (k - 1) + 1 = k)
      /\ 1 \in 1 .. m + 1
  BY <1>1 DEF InFront
<1>3. ASSUME AreFixed(b)
      PROVE  AreFixed(s) /\ IsFixed(d)
  BY <1>1, <1>2, <1>3 DEF AreFixed, IsFixed
<1>4. ASSUME AreFixed(s), IsFixed(d)
      PROVE  AreFixed(b)
  <2>1. ASSUME NEW k \in 1 .. m + 1
        PROVE  b[k].kind = "fixed" /\ b[k].shape \in Nat /\ b[k].step \in Int
    <3>1. b[k] = d \/ (k - 1 \in 1 .. m /\ b[k] = s[k - 1])
      BY <1>2
    <3> QED
      BY <1>1, <1>4, <3>1 DEF AreFixed, IsFixed
  <2> QED
    BY <1>1, <1>2, <2>1 DEF AreFixed
<1> QED
  BY <1>3, <1>4

LEMMA FixedSnoc ==
  ASSUME NEW s, NEW d, NEW b, Behind(b, s, d), AreFixed(s), IsFixed(d)
  PROVE  AreFixed(b)
<1>1. PICK m \in Nat : m = Len(s) /\ Len(b) = m + 1
  BY IsSeqProperties DEF Behind
<1>2. ASSUME NEW k \in 1 .. m + 1
      PROVE  b[k].kind = "fixed" /\ b[k].shape \in Nat /\ b[k].step \in Int
  <2>1. (k = m + 1 /\ b[k] = d) \/ (k \in 1 .. m /\ b[k] = s[k])
    BY <1>1 DEF Behind
  <2> QED
    BY <1>1, <2>1 DEF AreFixed, IsFixed
<1> QED
  BY <1>1, <1>2 DEF AreFixed, Behind

\* The shape of dimensions with one more.
LEMMA FixedShape ==
  ASSUME NEW dims, AreFixed(dims)
  PROVE  AreLengths(Shape(dims))
BY ShapeIsSeq DEF AreFixed, AreLengths

LEMMA ShapeCons ==
  ASSUME NEW s, NEW d, NEW b, InFront(b, d, s)
  PROVE  InFront(Shape(b), d.shape, Shape(s))
<1>1. PICK m \in Nat : m = Len(s) /\ Len(b) = m + 1
  BY IsSeqProperties DEF InFront
<1>2. /\ IsSeq(Shape(b)) /\ Len(Shape(b)) = m + 1 /\ \A k \in 1 .. m + 1 : Shape(b)[k] = b[k].shape
      /\ IsSeq(Shape(s)) /\ Len(Shape(s)) = m /\ \A k \in 1 .. m : Shape(s)[k] = s[k].shape
  BY <1>1, ShapeIsSeq DEF InFront
<1>3. b[1] = d /\ \A k \in 1 .. m : b[k + 1] = s[k] /\ k + 1 \in 1 .. m + 1
  BY <1>1 DEF InFront
<1>4. 1 \in 1 .. m + 1
  OBVIOUS
<1> QED
  BY <1>1, <1>2, <1>3, <1>4 DEF InFront

LEMMA ShapeSnoc ==
  ASSUME NEW s, NEW d, NEW b, Behind(b, s, d)
  PROVE  Behind(Shape(b), Shape(s), d.shape)
<1>1. PICK m \in Nat : m = Len(s) /\ Len(b) = m + 1
  BY IsSeqProperties DEF Behind
<1>2. /\ IsSeq(Shape(b)) /\ Len(Shape(b)) = m + 1 /\ \A k \in 1 .. m + 1 : Shape(b)[k] = b[k].shape
      /\ IsSeq(Shape(s)) /\ Len(Shape(s)) = m /\ \A k \in 1 .. m : Shape(s)[k] = s[k].shape
  BY <1>1, ShapeIsSeq DEF Behind
<1>3. b[m + 1] = d /\ \A k \in 1 .. m : b[k] = s[k] /\ k \in 1 .. m + 1
  BY <1>1 DEF Behind
<1>4. m + 1 \in 1 .. m + 1
  OBVIOUS
<1> QED
  BY <1>1, <1>2, <1>3, <1>4 DEF Behind

Nonempty(dims) == \A k \in 1 .. Len(dims) : dims[k].shape # 0

LEMMA ExtentCons ==
  ASSUME NEW s, NEW d, NEW b, InFront(b, d, s), AreFixed(b), Nonempty(b)
  PROVE  Extent(s) \in Int /\ Extent(b) = Extent(s) + (d.shape - 1) * AbsOf(d.step)
<1>1. PICK m \in Nat : m = Len(s) /\ Len(b) = m + 1
  BY IsSeqProperties DEF InFront
<1>2. b[1] = d /\ \A k \in 1 .. m : b[k + 1] = s[k] /\ k + 1 \in 1 .. m + 1
  BY <1>1 DEF InFront
<1>3. AreFixed(s) /\ IsFixed(d) /\ Nonempty(s)
  <2>1. AreFixed(s) /\ IsFixed(d)
    BY FixedCons
  <2>2. \A k \in 1 .. m : s[k].shape # 0
    BY <1>1, <1>2 DEF Nonempty
  <2> QED
    BY <1>1, <2>1, <2>2 DEF Nonempty
<1>4. PICK f \in [0 .. m -> Int] :
        /\ f[0] = 1 /\ Extent(s) = f[m]
        /\ \A k \in 1 .. m : f[k] = f[k - 1] + (s[k].shape - 1) * AbsOf(s[k].step)
  BY <1>1, <1>3, ExtentRuns DEF AreFixed, Nonempty, Extended
<1>5. PICK h \in [0 .. m + 1 -> Int] :
        /\ h[0] = 1 /\ Extent(b) = h[m + 1]
        /\ \A k \in 1 .. m + 1 : h[k] = h[k - 1] + (b[k].shape - 1) * AbsOf(b[k].step)
  BY <1>1, ExtentRuns DEF AreFixed, Nonempty, Extended
<1>6. PICK c : c = (d.shape - 1) * AbsOf(d.step)
  OBVIOUS
<1>7. c \in Int
  <2>1. PICK x \in Int, y \in Int : x = d.shape - 1 /\ y = AbsOf(d.step)
    BY <1>3 DEF IsFixed, AbsOf
  <2> QED
    BY <1>6, <2>1
<1> DEFINE S == {k \in Nat : k <= m => h[k + 1] = f[k] + c}
<1>8. 0 \in S
  <2>1. 1 \in 1 .. m + 1 /\ 1 - 1 = 0
    BY <1>1
  <2>2. h[1] = 1 + c
    BY <1>2, <1>5, <1>6, <2>1
  <2> QED
    BY <1>4, <2>2
<1>9. ASSUME NEW k \in Nat, k \in S
      PROVE  k + 1 \in S
  <2> SUFFICES ASSUME k + 1 <= m
               PROVE  h[(k + 1) + 1] = f[k + 1] + c
    OBVIOUS
  <2>1. /\ k + 1 \in 1 .. m /\ (k + 1) - 1 = k /\ k \in 0 .. m /\ k + 1 \in 0 .. m
        /\ (k + 1) + 1 \in 1 .. m + 1 /\ ((k + 1) + 1) - 1 = k + 1
        /\ h[k + 1] = f[k] + c
    BY <1>1, <1>9
  <2>2. PICK e : e = (s[k + 1].shape - 1) * AbsOf(s[k + 1].step)
    OBVIOUS
  <2>3. f[k + 1] = f[k] + e /\ h[(k + 1) + 1] = h[k + 1] + e
    BY <1>2, <1>4, <1>5, <2>1, <2>2
  <2>4. e \in Int
    <3>1. PICK q : q = s[k + 1]
      OBVIOUS
    <3>2. IsFixed(q)
      BY <1>1, <1>3, <2>1, <3>1 DEF AreFixed, IsFixed
    <3>3. PICK x \in Int, y \in Int : x = q.shape - 1 /\ y = AbsOf(q.step)
      BY <3>2 DEF IsFixed, AbsOf
    <3> QED
      BY <2>2, <3>1, <3>3
  <2> QED
    BY <1>7, <2>1, <2>3, <2>4
<1> HIDE DEF S
<1>10. m \in S
  BY <1>8, <1>9, NatSetInduction
<1>11. h[m + 1] = f[m] + c
  BY <1>10 DEF S
<1> QED
  BY <1>4, <1>5, <1>6, <1>11

LEMMA ExtentSnoc ==
  ASSUME NEW s, NEW d, NEW b, Behind(b, s, d), AreFixed(s), IsFixed(d), Nonempty(b)
  PROVE  Extent(s) \in Int /\ Extent(b) = Extent(s) + (d.shape - 1) * AbsOf(d.step)
<1>1. PICK m \in Nat : m = Len(s) /\ Len(b) = m + 1
  BY IsSeqProperties DEF Behind
<1>2. b[m + 1] = d /\ \A k \in 1 .. m : b[k] = s[k] /\ k \in 1 .. m + 1
  BY <1>1 DEF Behind
<1>3. AreFixed(b) /\ Nonempty(s)
  <2>1. AreFixed(b)
    BY FixedSnoc
  <2>2. \A k \in 1 .. m : s[k].shape # 0
    BY <1>1, <1>2 DEF Nonempty
  <2> QED
    BY <1>1, <2>1, <2>2 DEF Nonempty
<1>4. PICK f \in [0 .. m -> Int] :
        /\ f[0] = 1 /\ Extent(s) = f[m]
        /\ \A k \in 1 .. m : f[k] = f[k - 1] + (s[k].shape - 1) * AbsOf(s[k].step)
  BY <1>1, <1>3, ExtentRuns DEF AreFixed, Nonempty, Extended
<1>5. PICK h \in [0 .. m + 1 -> Int] :
        /\ h[0] = 1 /\ Extent(b) = h[m + 1]
        /\ \A k \in 1 .. m + 1 : h[k] = h[k - 1] + (b[k].shape - 1) * AbsOf(b[k].step)
  BY <1>1, <1>3, ExtentRuns DEF AreFixed, Nonempty, Extended
<1> DEFINE S == {k \in Nat : k <= m => h[k] = f[k]}
<1>6. 0 \in S
  BY <1>4, <1>5
<1>7. ASSUME NEW k \in Nat, k \in S
      PROVE  k + 1 \in S
  <2> SUFFICES ASSUME k + 1 <= m
               PROVE  h[k + 1] = f[k + 1]
    OBVIOUS
  <2>1. k + 1 \in 1 .. m /\ k + 1 \in 1 .. m + 1 /\ (k + 1) - 1 = k /\ h[k] = f[k]
    BY <1>1, <1>7
  <2>2. PICK e : e = (s[k + 1].shape - 1) * AbsOf(s[k + 1].step)
    OBVIOUS
  <2>3. f[k + 1] = f[k] + e /\ h[k + 1] = h[k] + e
    BY <1>2, <1>4, <1>5, <2>1, <2>2
  <2> QED
    BY <2>1, <2>3
<1> HIDE DEF S
<1>8. m \in S
  BY <1>6, <1>7, NatSetInduction
<1>9. h[m] = f[m]
  BY <1>8 DEF S
<1>10. m + 1 \in 1 .. m + 1 /\ (m + 1) - 1 = m
  OBVIOUS
<1>11. h[m + 1] = h[m] + (d.shape - 1) * AbsOf(d.step)
  BY <1>2, <1>5, <1>10
<1> QED
  BY <1>4, <1>5, <1>9, <1>11

LEMMA EmptyExtent ==
  ASSUME NEW dims, IsSeq(dims)
  PROVE  /\ dims = <<>> => Extent(dims) = 1
         /\ ~Nonempty(dims) => Extent(dims) = 0
<1>1. DOMAIN dims = 1 .. Len(dims) /\ Len(dims) \in Nat
  BY IsSeqProperties
<1>2. ASSUME dims = <<>>
      PROVE  Extent(dims) = 1
  <2>1. Len(dims) = 0 /\ \A k \in 1 .. Len(dims) : FALSE
    BY <1>2
  <2>2. PICK f \in [0 .. Len(dims) -> Int] : Extended(dims, f) /\ Extent(dims) = f[Len(dims)]
    BY <2>1, ExtentRuns
  <2> QED
    BY <2>1, <2>2 DEF Extended
<1>3. ASSUME ~Nonempty(dims)
      PROVE  Extent(dims) = 0
  <2>1. \E k \in DOMAIN dims : dims[k].shape = 0
    BY <1>1, <1>3 DEF Nonempty
  <2> QED
    BY <2>1 DEF Extent
<1> QED
  BY <1>2, <1>3
-----------------------------------------------------------------------------
(***************************************************************************)
(* Dimensions whose items are numbered without a gap.                      *)
(***************************************************************************)
\* An index of dims.
IsIndex(dims, ix) ==
  /\ ix = [k \in 1 .. Len(dims) |-> ix[k]]
  /\ \A k \in 1 .. Len(dims) : ix[k] \in Nat /\ ix[k] < dims[k].shape

LEMMA IndicesAre ==
  ASSUME NEW dims, AreFixed(dims), NEW ix
  PROVE  ix \in Indices(Shape(dims)) <=> IsIndex(dims, ix)
<1>1. PICK n, v : n = Len(dims) /\ v = Shape(dims)
  OBVIOUS
<1>2. n \in Nat /\ DOMAIN v = 1 .. n /\ \A k \in 1 .. n : v[k] = dims[k].shape /\ v[k] \in Nat
  BY <1>1, ShapeIsSeq, IsSeqProperties DEF AreFixed
<1> DEFINE U == UNION { 0 .. v[k] - 1 : k \in DOMAIN v }
<1>3. ASSUME ix \in Indices(v)
      PROVE  IsIndex(dims, ix)
  <2>1. ix \in [1 .. n -> U] /\ \A k \in 1 .. n : ix[k] < v[k]
    BY <1>2, <1>3 DEF Indices
  <2>2. \A x \in U : x \in Nat
    BY <1>2
  <2> HIDE DEF U
  <2>3. ix = [k \in 1 .. n |-> ix[k]] /\ \A k \in 1 .. n : ix[k] \in U
    BY <2>1
  <2> QED
    BY <1>1, <1>2, <2>1, <2>2, <2>3 DEF IsIndex
<1>4. ASSUME IsIndex(dims, ix)
      PROVE  ix \in Indices(v)
  <2>1. ix = [k \in 1 .. n |-> ix[k]] /\ \A k \in 1 .. n : ix[k] \in Nat /\ ix[k] < v[k]
    BY <1>1, <1>2, <1>4 DEF IsIndex
  <2>2. \A k \in 1 .. n : ix[k] \in 0 .. v[k] - 1
    BY <1>2, <2>1
  <2>3. \A k \in 1 .. n : ix[k] \in U
    BY <1>2, <2>2
  <2> HIDE DEF U
  <2>4. ix \in [DOMAIN v -> U]
    BY <1>2, <2>1, <2>3
  <2> QED
    BY <1>2, <2>1, <2>4 DEF Indices, U
<1> QED
  BY <1>1, <1>3, <1>4

LEMMA AddressInt ==
  ASSUME NEW dims, AreFixed(dims), NEW ix, \A k \in 1 .. Len(dims) : ix[k] \in Int
  PROVE  Address(dims, ix) \in Int
<1>1. PICK n \in Nat : n = Len(dims)
  BY IsSeqProperties DEF AreFixed
<1>2. PICK f : SummedUp(dims, ix, f) /\ f[n] = Address(dims, ix)
  BY <1>1, AddressSteps
<1>3. f[0] = 0 /\ \A k \in 1 .. n : f[k] = f[k - 1] + ix[n + 1 - k] * dims[n + 1 - k].step
  BY <1>1, <1>2 DEF SummedUp
<1> DEFINE S == {k \in Nat : k <= n => f[k] \in Int}
<1>4. 0 \in S
  BY <1>3
<1>5. ASSUME NEW k \in Nat, k \in S
      PROVE  k + 1 \in S
  <2> SUFFICES ASSUME k + 1 <= n
               PROVE  f[k + 1] \in Int
    OBVIOUS
  <2>1. k + 1 \in 1 .. n /\ (k + 1) - 1 = k /\ f[k] \in Int
    BY <1>5
  <2>2. PICK j \in 1 .. n : j = n + 1 - (k + 1)
    BY <1>1, <2>1
  <2>3. PICK a \in Int, c \in Int : a = ix[j] /\ c = dims[j].step
    BY <1>1 DEF AreFixed
  <2>4. f[k + 1] = f[k] + a * c
    BY <1>3, <2>1, <2>2, <2>3
  <2>5. a * c \in Int
    OBVIOUS
  <2> QED
    BY <2>1, <2>4, <2>5
<1> HIDE DEF S
<1>6. n \in S
  BY <1>4, <1>5, NatSetInduction
<1> QED
  BY <1>2, <1>6 DEF S

LEMMA AddressCons ==
  ASSUME NEW s, NEW d, NEW b, InFront(b, d, s), NEW ix, NEW at, \A k \in 1 .. Len(s) : at[k] = ix[k + 1]
  PROVE  Address(b, ix) = Address(s, at) + ix[1] * d.step
<1>1. PICK m \in Nat : m = Len(s) /\ Len(b) = m + 1
  BY IsSeqProperties DEF InFront
<1>2. b[1] = d /\ \A k \in 1 .. m : b[k + 1] = s[k] /\ at[k] = ix[k + 1]
  BY <1>1 DEF InFront
<1>3. PICK f : SummedUp(s, at, f) /\ f[m] = Address(s, at)
  BY <1>1, AddressSteps
<1>4. PICK h : SummedUp(b, ix, h) /\ h[m + 1] = Address(b, ix)
  <2>1. Len(b) \in Nat
    BY <1>1
  <2>2. PICK h : SummedUp(b, ix, h) /\ h[Len(b)] = Address(b, ix)
    BY <2>1, AddressSteps
  <2> QED
    BY <1>1, <2>2
<1>5. f[0] = 0 /\ \A k \in 1 .. m : f[k] = f[k - 1] + at[m + 1 - k] * s[m + 1 - k].step
  BY <1>1, <1>3 DEF SummedUp
<1>6. h[0] = 0 /\ \A k \in 1 .. m + 1 : h[k] = h[k - 1] + ix[(m + 1) + 1 - k] * b[(m + 1) + 1 - k].step
  BY <1>1, <1>4 DEF SummedUp
<1> DEFINE S == {k \in Nat : k <= m => h[k] = f[k]}
<1>7. 0 \in S
  BY <1>5, <1>6
<1>8. ASSUME NEW k \in Nat, k \in S
      PROVE  k + 1 \in S
  <2> SUFFICES ASSUME k + 1 <= m
               PROVE  h[k + 1] = f[k + 1]
    OBVIOUS
  <2>1. k + 1 \in 1 .. m /\ k + 1 \in 1 .. m + 1 /\ (k + 1) - 1 = k /\ h[k] = f[k]
    BY <1>1, <1>8
  <2>2. PICK j \in 1 .. m : j = m + 1 - (k + 1) /\ (m + 1) + 1 - (k + 1) = j + 1
    BY <1>1, <2>1
  <2>3. ix[j + 1] = at[j] /\ b[j + 1] = s[j]
    BY <1>2
  <2>4. f[k + 1] = f[k] + at[j] * s[j].step
    BY <1>5, <2>1, <2>2
  <2>5. h[k + 1] = h[k] + ix[j + 1] * b[j + 1].step
    BY <1>6, <2>1, <2>2
  <2> QED
    BY <2>1, <2>3, <2>4, <2>5
<1> HIDE DEF S
<1>9. m \in S
  BY <1>7, <1>8, NatSetInduction
<1>10. h[m] = f[m]
  BY <1>9 DEF S
<1>11. m + 1 \in 1 .. m + 1 /\ (m + 1) - 1 = m /\ (m + 1) + 1 - (m + 1) = 1
  BY <1>1
<1>12. h[m + 1] = h[m] + ix[1] * d.step
  BY <1>2, <1>6, <1>11
<1> QED
  BY <1>3, <1>4, <1>10, <1>12

LEMMA AddressSnoc ==
  ASSUME NEW s, NEW d, NEW b, Behind(b, s, d), AreFixed(b), NEW ix, NEW at,
         \A k \in 1 .. Len(s) : at[k] = ix[k], \A k \in 1 .. Len(b) : ix[k] \in Int
  PROVE  Address(b, ix) = Address(s, at) + ix[Len(b)] * d.step
<1>1. PICK m \in Nat : m = Len(s) /\ Len(b) = m + 1
  BY IsSeqProperties DEF Behind
<1>2. b[m + 1] = d /\ \A k \in 1 .. m : b[k] = s[k] /\ at[k] = ix[k]
  BY <1>1 DEF Behind
<1>3. PICK f : SummedUp(s, at, f) /\ f[m] = Address(s, at)
  BY <1>1, AddressSteps
<1>4. PICK h : SummedUp(b, ix, h) /\ h[m + 1] = Address(b, ix)
  <2>1. Len(b) \in Nat
    BY <1>1
  <2>2. PICK h : SummedUp(b, ix, h) /\ h[Len(b)] = Address(b, ix)
    BY <2>1, AddressSteps
  <2> QED
    BY <1>1, <2>2
<1>5. f[0] = 0 /\ \A k \in 1 .. m : f[k] = f[k - 1] + at[m + 1 - k] * s[m + 1 - k].step
  BY <1>1, <1>3 DEF SummedUp
<1>6. h[0] = 0 /\ \A k \in 1 .. m + 1 : h[k] = h[k - 1] + ix[(m + 1) + 1 - k] * b[(m + 1) + 1 - k].step
  BY <1>1, <1>4 DEF SummedUp
<1>7. PICK c \in Int : c = ix[m + 1] * d.step
  <2>1. m + 1 \in 1 .. Len(b)
    BY <1>1
  <2>2. PICK x \in Int, y \in Int : x = ix[m + 1] /\ y = d.step
    BY <1>1, <1>2, <2>1 DEF AreFixed
  <2>3. x * y \in Int
    OBVIOUS
  <2> QED
    BY <2>2, <2>3
<1> DEFINE S == {k \in Nat : k <= m => f[k] \in Int /\ h[k + 1] = f[k] + c}
<1>8. 0 \in S
  <2>1. 1 \in 1 .. m + 1 /\ 1 - 1 = 0 /\ (m + 1) + 1 - 1 = m + 1 /\ 0 + 1 = 1
    BY <1>1
  <2>2. h[1] = 0 + c
    BY <1>2, <1>6, <1>7, <2>1
  <2> QED
    BY <1>5, <2>2
<1>9. ASSUME NEW k \in Nat, k \in S
      PROVE  k + 1 \in S
  <2> SUFFICES ASSUME k + 1 <= m
               PROVE  f[k + 1] \in Int /\ h[(k + 1) + 1] = f[k + 1] + c
    OBVIOUS
  <2>1. /\ k + 1 \in 1 .. m /\ (k + 1) - 1 = k /\ f[k] \in Int /\ h[k + 1] = f[k] + c
        /\ (k + 1) + 1 \in 1 .. m + 1 /\ ((k + 1) + 1) - 1 = k + 1
    BY <1>1, <1>9
  <2>2. PICK j \in 1 .. m : j = m + 1 - (k + 1) /\ (m + 1) + 1 - ((k + 1) + 1) = j
    BY <1>1, <2>1
  <2>3. at[j] = ix[j] /\ b[j] = s[j] /\ j \in 1 .. Len(b)
    BY <1>1, <1>2
  <2>4. f[k + 1] = f[k] + ix[j] * b[j].step
    BY <1>5, <2>1, <2>2, <2>3
  <2>5. h[(k + 1) + 1] = h[k + 1] + ix[j] * b[j].step
    BY <1>6, <2>1, <2>2
  <2>6. PICK x \in Int, y \in Int : x = ix[j] /\ y = b[j].step
    BY <2>3 DEF AreFixed
  <2>7. PICK e \in Int : e = x * y
    OBVIOUS
  <2>8. f[k + 1] = f[k] + e /\ h[(k + 1) + 1] = h[k + 1] + e
    BY <2>4, <2>5, <2>6, <2>7
  <2> QED
    BY <1>7, <2>1, <2>7, <2>8
<1> HIDE DEF S
<1>10. m \in S
  BY <1>8, <1>9, NatSetInduction
<1>11. h[m + 1] = f[m] + c
  BY <1>10 DEF S
<1> QED
  BY <1>1, <1>3, <1>4, <1>7, <1>11

\* The numbers from 0 to N - 1, taken in n blocks of P.
At(r, q, P) == r + q * P

Combines(P, n, N) ==
  /\ \A r \in 0 .. P - 1, q \in 0 .. n - 1 : At(r, q, P) \in 0 .. N - 1
  /\ \A r, s \in 0 .. P - 1, q, t \in 0 .. n - 1 : At(r, q, P) = At(s, t, P) => r = s /\ q = t
  /\ \A a \in 0 .. N - 1 : \E r \in 0 .. P - 1, q \in 0 .. n - 1 : a = At(r, q, P)

LEMMA Combined ==
  ASSUME NEW P \in Nat, NEW n \in Nat
  PROVE  Combines(P, n, n * P)
<1>1. \A q, t \in Nat : q <= t => q * P <= t * P
  <2>1. TAKE q, t \in Nat
  <2>2. HAVE q <= t
  <2>3. PICK e \in Nat : t = q + e
    BY <2>2
  <2>4. t * P = q * P + e * P /\ e * P \in Nat /\ q * P \in Nat
    BY <2>3
  <2> QED
    BY <2>4
<1>2. \A q \in Nat : (q + 1) * P = q * P + P /\ q * P \in Nat
  OBVIOUS
<1>3. ASSUME NEW r \in 0 .. P - 1, NEW q \in 0 .. n - 1
      PROVE  r + q * P \in 0 .. n * P - 1
  <2>1. (q + 1) * P <= n * P /\ (q + 1) * P = q * P + P /\ q * P \in Nat /\ n * P \in Nat
    <3>1. q \in Nat /\ q + 1 \in Nat /\ q + 1 <= n
      OBVIOUS
    <3>2. n * P = (n - (q + 1) + (q + 1)) * P
      OBVIOUS
    <3>3. n * P \in Nat
      OBVIOUS
    <3> QED
      BY <1>1, <1>2, <3>1, <3>3
  <2>2. PICK x \in Nat, y \in Nat : x = q * P /\ y = n * P
    BY <2>1
  <2> QED
    BY <2>1, <2>2
<1>4. ASSUME NEW r \in 0 .. P - 1, NEW s \in 0 .. P - 1, NEW q \in 0 .. n - 1, NEW t \in 0 .. n - 1,
             r + q * P = s + t * P
      PROVE  r = s /\ q = t
  <2>1. \A x, y \in 0 .. n - 1 : x < y => x * P + P <= y * P
    <3>1. TAKE x, y \in 0 .. n - 1
    <3>2. HAVE x < y
    <3>3. x \in Nat /\ y \in Nat /\ x + 1 \in Nat /\ x + 1 <= y
      BY <3>2
    <3>4. (x + 1) * P <= y * P /\ (x + 1) * P = x * P + P
      BY <1>1, <1>2, <3>3
    <3> QED
      BY <3>4
  <2>2. PICK x \in Nat, y \in Nat : x = q * P /\ y = t * P
    BY <1>2
  <2>3. (q < t => x + P <= y) /\ (t < q => y + P <= x)
    BY <2>1, <2>2
  <2>4. r + x = s + y
    BY <1>4, <2>2
  <2>5. ~(q < t) /\ ~(t < q)
    BY <2>2, <2>3, <2>4
  <2>6. q = t
    BY <2>5
  <2> QED
    BY <2>2, <2>4, <2>6
<1>5. ASSUME NEW a \in 0 .. n * P - 1
      PROVE  \E r \in 0 .. P - 1, q \in 0 .. n - 1 : a = r + q * P
  <2>1. PICK y \in Nat : y = n * P
    OBVIOUS
  <2>2. a \in Nat /\ a < y
    BY <2>1
  <2> DEFINE S == {k \in Nat : (k <= n /\ a < k * P) => \E r \in 0 .. P - 1, q \in 0 .. n - 1 : a = r + q * P}
  <2>3. 0 \in S
    <3>1. 0 * P = 0
      OBVIOUS
    <3> QED
      BY <2>2, <3>1
  <2>4. ASSUME NEW k \in Nat, k \in S
        PROVE  k + 1 \in S
    <3> SUFFICES ASSUME k + 1 <= n, a < (k + 1) * P
                 PROVE  \E r \in 0 .. P - 1, q \in 0 .. n - 1 : a = r + q * P
      OBVIOUS
    <3>1. CASE a < k * P
      BY <2>4, <3>1
    <3>2. CASE ~(a < k * P)
      <4>1. PICK x \in Nat : x = k * P /\ (k + 1) * P = x + P
        BY <1>2
      <4>2. PICK r \in Int : r = a - x
        BY <2>2
      <4>3. r \in 0 .. P - 1 /\ a = r + x
        BY <2>2, <3>2, <4>1, <4>2
      <4>4. k \in 0 .. n - 1
        OBVIOUS
      <4> QED
        BY <4>1, <4>3, <4>4
    <3> QED
      BY <3>1, <3>2
  <2> HIDE DEF S
  <2>5. n \in S
    BY <2>3, <2>4, NatSetInduction
  <2> QED
    BY <2>1, <2>2, <2>5 DEF S
<1> QED
  BY <1>3, <1>4, <1>5 DEF Combines, At

\* The items of dims are numbered without a gap.
Numbered(dims) ==
  LET N == Product(Shape(dims)) IN
  /\ \A ix : IsIndex(dims, ix) => Address(dims, ix) \in 0 .. N - 1
  /\ \A ix, jx : IsIndex(dims, ix) /\ IsIndex(dims, jx) /\ Address(dims, ix) = Address(dims, jx) => ix = jx
  /\ \A a \in 0 .. N - 1 : \E ix : IsIndex(dims, ix) /\ Address(dims, ix) = a

Packed(dims) == AreFixed(dims) /\ Extent(dims) = Product(Shape(dims)) /\ Numbered(dims)

LEMMA PackedNone ==
  Packed(<<>>)
<1>1. PICK e : e = <<>>
  OBVIOUS
<1>2. IsSeq(e) /\ Len(e) = 0
  BY <1>1 DEF IsSeq
<1>3. AreFixed(e)
  BY <1>2 DEF AreFixed
<1>4. IsSeq(Shape(e)) /\ Len(Shape(e)) = 0
  BY <1>2, ShapeIsSeq
<1>5. Shape(e) = <<>>
  BY <1>4, IsSeqProperties
<1>6. Product(Shape(e)) = 1
  BY <1>3, <1>5, FixedShape, ProductSigns
<1>7. Extent(e) = 1
  BY <1>1, <1>2, EmptyExtent
<1>8. ASSUME NEW ix, IsIndex(e, ix)
      PROVE  Address(e, ix) = 0
  <2>1. PICK f : SummedUp(e, ix, f) /\ f[Len(e)] = Address(e, ix)
    BY <1>2, AddressSteps
  <2> QED
    BY <1>2, <2>1 DEF SummedUp
<1>9. ASSUME NEW ix, NEW jx, IsIndex(e, ix), IsIndex(e, jx)
      PROVE  ix = jx
  <2>1. ix = [k \in 1 .. Len(e) |-> ix[k]] /\ jx = [k \in 1 .. Len(e) |-> jx[k]]
    BY <1>9 DEF IsIndex
  <2>2. \A k \in 1 .. Len(e) : FALSE
    BY <1>2
  <2> QED
    BY <2>1, <2>2
<1>10. \E ix : IsIndex(e, ix)
  <2>1. PICK ix : ix = [k \in 1 .. Len(e) |-> 0]
    OBVIOUS
  <2>2. ix = [k \in 1 .. Len(e) |-> ix[k]]
    BY <2>1
  <2>3. \A k \in 1 .. Len(e) : FALSE
    BY <1>2
  <2> QED
    BY <2>2, <2>3 DEF IsIndex
<1>11. Numbered(e)
  <2>1. \A ix : IsIndex(e, ix) => Address(e, ix) \in 0 .. 1 - 1
    BY <1>8
  <2>2. \A a \in 0 .. 1 - 1 : \E ix : IsIndex(e, ix) /\ Address(e, ix) = a
    BY <1>8, <1>10
  <2> QED
    BY <1>6, <1>9, <2>1, <2>2 DEF Numbered
<1> QED
  BY <1>1, <1>3, <1>6, <1>7, <1>11 DEF Packed

LEMMA GrownExtent ==
  ASSUME NEW P \in Nat, NEW n \in Nat, NEW e \in Int, n > 1 => e = P, n # 0
  PROVE  P + (n - 1) * AbsOf(e) = n * P
<1>1. CASE n = 1
  <2>1. PICK x \in Int : x = AbsOf(e)
    BY DEF AbsOf
  <2>2. (n - 1) * x = 0 /\ n * P = P
    BY <1>1
  <2> QED
    BY <2>1, <2>2
<1>2. CASE n # 1
  <2>1. AbsOf(e) = P
    BY <1>2 DEF AbsOf
  <2>2. P + (n - 1) * P = n * P
    OBVIOUS
  <2> QED
    BY <2>1, <2>2
<1> QED
  BY <1>1, <1>2


LEMMA PackedCons ==
  ASSUME NEW s, Packed(s), NEW d, IsFixed(d), d.shape > 1 => d.step = Product(Shape(s)),
         NEW b, InFront(b, d, s)
  PROVE  Packed(b)
<1>1. PICK m \in Nat : m = Len(s) /\ Len(b) = m + 1
  BY IsSeqProperties DEF InFront
<1>2. b[1] = d /\ 1 \in 1 .. m + 1 /\ \A k \in 1 .. m : b[k + 1] = s[k] /\ k + 1 \in 1 .. m + 1
  BY <1>1 DEF InFront
<1>3. AreFixed(s) /\ AreFixed(b) /\ Extent(s) = Product(Shape(s)) /\ Numbered(s)
  BY FixedCons DEF Packed
<1>4. PICK P \in Nat, n \in Nat, N \in Nat :
        P = Product(Shape(s)) /\ n = d.shape /\ N = Product(Shape(b)) /\ N = n * P
  <2>1. AreLengths(Shape(s)) /\ InFront(Shape(b), d.shape, Shape(s)) /\ d.shape \in Nat
    BY <1>3, FixedShape, ShapeCons DEF IsFixed
  <2>2. Product(Shape(s)) \in Nat /\ Product(Shape(b)) = d.shape * Product(Shape(s))
    BY <2>1, ProductCons
  <2>3. PICK P \in Nat, n \in Nat : P = Product(Shape(s)) /\ n = d.shape
    BY <2>1, <2>2
  <2>4. n * P \in Nat /\ n * P = P * n
    OBVIOUS
  <2> QED
    BY <2>2, <2>3, <2>4
<1>5. Extent(b) = N
  <2>1. CASE Nonempty(b)
    <3>1. Extent(b) = Extent(s) + (d.shape - 1) * AbsOf(d.step)
      BY <1>3, <2>1, ExtentCons
    <3>2. n # 0
      BY <1>1, <1>2, <1>4, <2>1 DEF Nonempty
    <3>3. P + (n - 1) * AbsOf(d.step) = n * P
      BY <1>4, <3>2, GrownExtent DEF IsFixed
    <3> QED
      BY <1>3, <1>4, <3>1, <3>3
  <2>2. CASE ~Nonempty(b)
    <3>1. PICK k \in 1 .. m + 1 : b[k].shape = 0
      BY <1>1, <2>2 DEF Nonempty
    <3>2. AreLengths(Shape(b)) /\ Len(Shape(b)) = m + 1 /\ Shape(b)[k] = 0
      BY <1>1, <1>3, <3>1, FixedShape, ShapeIsSeq DEF AreFixed
    <3>3. Product(Shape(b)) = 0
      BY <3>2, ProductSigns
    <3>4. Extent(b) = 0
      BY <1>3, <2>2, EmptyExtent DEF AreFixed
    <3> QED
      BY <1>4, <3>3, <3>4
  <2> QED
    BY <2>1, <2>2
<1> DEFINE below(ix) == [k \in 1 .. m |-> ix[k + 1]]
<1>6. ASSUME NEW ix, IsIndex(b, ix)
      PROVE  /\ IsIndex(s, below(ix)) /\ ix[1] \in 0 .. n - 1
             /\ Address(s, below(ix)) \in 0 .. P - 1
             /\ Address(b, ix) = At(Address(s, below(ix)), ix[1], P)
  <2>1. PICK at : at = below(ix)
    OBVIOUS
  <2>2. at = [k \in 1 .. m |-> at[k]] /\ \A k \in 1 .. m : at[k] = ix[k + 1]
    BY <2>1
  <2>3. \A k \in 1 .. m + 1 : ix[k] \in Nat /\ ix[k] < b[k].shape
    BY <1>1, <1>6 DEF IsIndex
  <2>4. IsIndex(s, at)
    BY <1>1, <1>2, <2>2, <2>3 DEF IsIndex
  <2>5. PICK q \in 0 .. n - 1 : q = ix[1]
    BY <1>2, <1>4, <2>3
  <2>6. PICK r \in 0 .. P - 1 : r = Address(s, at)
    BY <1>3, <1>4, <2>4 DEF Numbered
  <2>7. Address(b, ix) = r + q * d.step
    <3>1. \A k \in 1 .. Len(s) : at[k] = ix[k + 1]
      BY <1>1, <2>2
    <3>2. Address(b, ix) = Address(s, at) + ix[1] * d.step
      BY <3>1, AddressCons
    <3> QED
      BY <2>5, <2>6, <3>2, Zenon
  <2>8. q * d.step = q * P
    <3>1. CASE n > 1
      BY <1>4, <3>1
    <3>2. CASE ~(n > 1)
      <4>1. q = 0
        BY <2>5, <3>2
      <4>2. PICK e \in Int : e = d.step
        BY DEF IsFixed
      <4>3. 0 * e = 0 /\ 0 * P = 0
        OBVIOUS
      <4> QED
        BY <4>1, <4>2, <4>3
    <3> QED
      BY <3>1, <3>2
  <2> QED
    BY <2>1, <2>4, <2>5, <2>6, <2>7, <2>8 DEF At
<1>7. Combines(P, n, N)
  BY <1>4, Combined
<1>8. ASSUME NEW ix, NEW jx, IsIndex(b, ix), IsIndex(b, jx), Address(b, ix) = Address(b, jx)
      PROVE  ix = jx
  <2>1. PICK at, bt : at = below(ix) /\ bt = below(jx)
    OBVIOUS
  <2>2. Address(s, at) = Address(s, bt) /\ ix[1] = jx[1]
    <3>1. PICK r \in 0 .. P - 1, s1 \in 0 .. P - 1, q \in 0 .. n - 1, t \in 0 .. n - 1 :
            r = Address(s, at) /\ s1 = Address(s, bt) /\ q = ix[1] /\ t = jx[1]
      BY <1>6, <1>8, <2>1
    <3>2. At(r, q, P) = At(s1, t, P)
      BY <1>6, <1>8, <2>1, <3>1
    <3> QED
      <4>1. r = s1 /\ q = t
        BY <1>7, <3>2 DEF Combines
      <4> QED
        BY <3>1, <4>1
  <2>3. at = bt
    BY <1>3, <1>6, <1>8, <2>1, <2>2 DEF Numbered
  <2>4. \A k \in 1 .. m : at[k] = ix[k + 1] /\ bt[k] = jx[k + 1]
    BY <2>1
  <2>5. ASSUME NEW k \in 1 .. m + 1
        PROVE  ix[k] = jx[k]
    <3>1. k = 1 \/ (k - 1 \in 1 .. m /\ (k - 1) + 1 = k)
      BY <1>1
    <3> QED
      BY <2>2, <2>3, <2>4, <3>1
  <2>6. ix = [k \in 1 .. m + 1 |-> ix[k]] /\ jx = [k \in 1 .. m + 1 |-> jx[k]]
    BY <1>1, <1>8 DEF IsIndex
  <2> QED
    BY <2>5, <2>6
<1>9. ASSUME NEW a \in 0 .. N - 1
      PROVE  \E ix : IsIndex(b, ix) /\ Address(b, ix) = a
  <2>1. PICK r \in 0 .. P - 1, q \in 0 .. n - 1 : a = At(r, q, P)
    BY <1>7 DEF Combines
  <2>2. PICK at : IsIndex(s, at) /\ Address(s, at) = r
    BY <1>3, <1>4 DEF Numbered
  <2>3. PICK ix : ix = [k \in 1 .. m + 1 |-> IF k = 1 THEN q ELSE at[k - 1]]
    OBVIOUS
  <2>4. ix = [k \in 1 .. m + 1 |-> ix[k]] /\ ix[1] = q /\ \A k \in 1 .. m : ix[k + 1] = at[k]
    BY <2>3
  <2>5. at = [k \in 1 .. m |-> at[k]] /\ \A k \in 1 .. m : at[k] \in Nat /\ at[k] < s[k].shape
    BY <1>1, <2>2 DEF IsIndex
  <2>6. ASSUME NEW k \in 1 .. m + 1
        PROVE  ix[k] \in Nat /\ ix[k] < b[k].shape
    <3>1. k = 1 \/ (k - 1 \in 1 .. m /\ (k - 1) + 1 = k)
      BY <1>1
    <3>2. CASE k = 1
      BY <1>2, <1>4, <2>4, <3>2
    <3>3. CASE k - 1 \in 1 .. m /\ (k - 1) + 1 = k
      BY <1>2, <2>4, <2>5, <3>3
    <3> QED
      BY <3>1, <3>2, <3>3
  <2>7. IsIndex(b, ix)
    BY <1>1, <2>4, <2>6 DEF IsIndex
  <2>8. below(ix) = at
    BY <2>4, <2>5
  <2> QED
    BY <1>6, <2>1, <2>2, <2>4, <2>7, <2>8
<1>10. Numbered(b)
  <2>1. \A ix : IsIndex(b, ix) => Address(b, ix) \in 0 .. N - 1
    <3> SUFFICES ASSUME NEW ix, IsIndex(b, ix)
                 PROVE  Address(b, ix) \in 0 .. N - 1
      OBVIOUS
    <3>1. PICK r \in 0 .. P - 1, q \in 0 .. n - 1 : Address(b, ix) = At(r, q, P)
      BY <1>6
    <3> QED
      BY <1>7, <3>1 DEF Combines
  <2> QED
    BY <1>4, <1>8, <1>9, <2>1 DEF Numbered
<1> QED
  BY <1>3, <1>4, <1>5, <1>10 DEF Packed


LEMMA PackedSnoc ==
  ASSUME NEW s, Packed(s), NEW d, IsFixed(d), d.shape > 1 => d.step = Product(Shape(s)),
         NEW b, Behind(b, s, d)
  PROVE  Packed(b)
<1>1. PICK m \in Nat : m = Len(s) /\ Len(b) = m + 1
  BY IsSeqProperties DEF Behind
<1>2. b[m + 1] = d /\ m + 1 \in 1 .. m + 1 /\ \A k \in 1 .. m : b[k] = s[k] /\ k \in 1 .. m + 1
  BY <1>1 DEF Behind
<1>3. AreFixed(s) /\ AreFixed(b) /\ Extent(s) = Product(Shape(s)) /\ Numbered(s)
  BY FixedSnoc DEF Packed
<1>4. PICK P \in Nat, n \in Nat, N \in Nat :
        P = Product(Shape(s)) /\ n = d.shape /\ N = Product(Shape(b)) /\ N = n * P
  <2>1. AreLengths(Shape(s)) /\ Behind(Shape(b), Shape(s), d.shape) /\ d.shape \in Nat
    BY <1>3, FixedShape, ShapeSnoc DEF IsFixed
  <2>2. Product(Shape(s)) \in Nat /\ Product(Shape(b)) = Product(Shape(s)) * d.shape
    BY <2>1, ProductSnoc
  <2>3. PICK P \in Nat, n \in Nat : P = Product(Shape(s)) /\ n = d.shape
    BY <2>1, <2>2
  <2>4. n * P \in Nat /\ n * P = P * n
    OBVIOUS
  <2> QED
    BY <2>2, <2>3, <2>4
<1>5. Extent(b) = N
  <2>1. CASE Nonempty(b)
    <3>1. Extent(b) = Extent(s) + (d.shape - 1) * AbsOf(d.step)
      BY <1>3, <2>1, ExtentSnoc
    <3>2. n # 0
      BY <1>1, <1>2, <1>4, <2>1 DEF Nonempty
    <3>3. P + (n - 1) * AbsOf(d.step) = n * P
      BY <1>4, <3>2, GrownExtent DEF IsFixed
    <3> QED
      BY <1>3, <1>4, <3>1, <3>3
  <2>2. CASE ~Nonempty(b)
    <3>1. PICK k \in 1 .. m + 1 : b[k].shape = 0
      BY <1>1, <2>2 DEF Nonempty
    <3>2. AreLengths(Shape(b)) /\ Len(Shape(b)) = m + 1 /\ Shape(b)[k] = 0
      BY <1>1, <1>3, <3>1, FixedShape, ShapeIsSeq DEF AreFixed
    <3>3. Product(Shape(b)) = 0
      BY <3>2, ProductSigns
    <3>4. Extent(b) = 0
      BY <1>3, <2>2, EmptyExtent DEF AreFixed
    <3> QED
      BY <1>4, <3>3, <3>4
  <2> QED
    BY <2>1, <2>2
<1> DEFINE below(ix) == [k \in 1 .. m |-> ix[k]]
<1>6. ASSUME NEW ix, IsIndex(b, ix)
      PROVE  /\ IsIndex(s, below(ix)) /\ ix[m + 1] \in 0 .. n - 1
             /\ Address(s, below(ix)) \in 0 .. P - 1
             /\ Address(b, ix) = At(Address(s, below(ix)), ix[m + 1], P)
  <2>1. PICK at : at = below(ix)
    OBVIOUS
  <2>2. at = [k \in 1 .. m |-> at[k]] /\ \A k \in 1 .. m : at[k] = ix[k]
    BY <2>1
  <2>3. \A k \in 1 .. m + 1 : ix[k] \in Nat /\ ix[k] < b[k].shape
    BY <1>1, <1>6 DEF IsIndex
  <2>4. IsIndex(s, at)
    BY <1>1, <1>2, <2>2, <2>3 DEF IsIndex
  <2>5. PICK q \in 0 .. n - 1 : q = ix[m + 1]
    BY <1>2, <1>4, <2>3
  <2>6. PICK r \in 0 .. P - 1 : r = Address(s, at)
    BY <1>3, <1>4, <2>4 DEF Numbered
  <2>7. Address(b, ix) = r + q * d.step
    <3>1. \A k \in 1 .. Len(b) : ix[k] \in Int
      BY <1>1, <2>3
    <3>2. \A k \in 1 .. Len(s) : at[k] = ix[k]
      BY <1>1, <2>2
    <3>3. Address(b, ix) = Address(s, at) + ix[Len(b)] * d.step
      BY <1>3, <3>1, <3>2, AddressSnoc
    <3> QED
      BY <1>1, <2>5, <2>6, <3>3, Zenon
  <2>8. q * d.step = q * P
    <3>1. CASE n > 1
      BY <1>4, <3>1
    <3>2. CASE ~(n > 1)
      <4>1. q = 0
        BY <2>5, <3>2
      <4>2. PICK e \in Int : e = d.step
        BY DEF IsFixed
      <4>3. 0 * e = 0 /\ 0 * P = 0
        OBVIOUS
      <4> QED
        BY <4>1, <4>2, <4>3
    <3> QED
      BY <3>1, <3>2
  <2> QED
    BY <2>1, <2>4, <2>5, <2>6, <2>7, <2>8 DEF At
<1>7. Combines(P, n, N)
  BY <1>4, Combined
<1>8. ASSUME NEW ix, NEW jx, IsIndex(b, ix), IsIndex(b, jx), Address(b, ix) = Address(b, jx)
      PROVE  ix = jx
  <2>1. PICK at, bt : at = below(ix) /\ bt = below(jx)
    OBVIOUS
  <2>2. Address(s, at) = Address(s, bt) /\ ix[m + 1] = jx[m + 1]
    <3>1. PICK r \in 0 .. P - 1, s1 \in 0 .. P - 1, q \in 0 .. n - 1, t \in 0 .. n - 1 :
            r = Address(s, at) /\ s1 = Address(s, bt) /\ q = ix[m + 1] /\ t = jx[m + 1]
      BY <1>6, <1>8, <2>1
    <3>2. At(r, q, P) = At(s1, t, P)
      BY <1>6, <1>8, <2>1, <3>1
    <3> QED
      <4>1. r = s1 /\ q = t
        BY <1>7, <3>2 DEF Combines
      <4> QED
        BY <3>1, <4>1
  <2>3. at = bt
    BY <1>3, <1>6, <1>8, <2>1, <2>2 DEF Numbered
  <2>4. \A k \in 1 .. m : at[k] = ix[k] /\ bt[k] = jx[k]
    BY <2>1
  <2>5. ASSUME NEW k \in 1 .. m + 1
        PROVE  ix[k] = jx[k]
    <3>1. k = m + 1 \/ k \in 1 .. m
      BY <1>1
    <3> QED
      BY <2>2, <2>3, <2>4, <3>1
  <2>6. ix = [k \in 1 .. m + 1 |-> ix[k]] /\ jx = [k \in 1 .. m + 1 |-> jx[k]]
    BY <1>1, <1>8 DEF IsIndex
  <2> QED
    BY <2>5, <2>6
<1>9. ASSUME NEW a \in 0 .. N - 1
      PROVE  \E ix : IsIndex(b, ix) /\ Address(b, ix) = a
  <2>1. PICK r \in 0 .. P - 1, q \in 0 .. n - 1 : a = At(r, q, P)
    BY <1>7 DEF Combines
  <2>2. PICK at : IsIndex(s, at) /\ Address(s, at) = r
    BY <1>3, <1>4 DEF Numbered
  <2>3. PICK ix : ix = [k \in 1 .. m + 1 |-> IF k = m + 1 THEN q ELSE at[k]]
    OBVIOUS
  <2>4. ix = [k \in 1 .. m + 1 |-> ix[k]] /\ ix[m + 1] = q /\ \A k \in 1 .. m : ix[k] = at[k]
    BY <2>3
  <2>5. at = [k \in 1 .. m |-> at[k]] /\ \A k \in 1 .. m : at[k] \in Nat /\ at[k] < s[k].shape
    BY <1>1, <2>2 DEF IsIndex
  <2>6. ASSUME NEW k \in 1 .. m + 1
        PROVE  ix[k] \in Nat /\ ix[k] < b[k].shape
    <3>1. k = m + 1 \/ k \in 1 .. m
      BY <1>1
    <3>2. CASE k = m + 1
      BY <1>2, <1>4, <2>4, <3>2
    <3>3. CASE k \in 1 .. m
      BY <1>2, <2>4, <2>5, <3>3
    <3> QED
      BY <3>1, <3>2, <3>3
  <2>7. IsIndex(b, ix)
    BY <1>1, <2>4, <2>6 DEF IsIndex
  <2>8. below(ix) = at
    BY <2>4, <2>5
  <2> QED
    BY <1>6, <2>1, <2>2, <2>4, <2>7, <2>8
<1>10. Numbered(b)
  <2>1. \A ix : IsIndex(b, ix) => Address(b, ix) \in 0 .. N - 1
    <3> SUFFICES ASSUME NEW ix, IsIndex(b, ix)
                 PROVE  Address(b, ix) \in 0 .. N - 1
      OBVIOUS
    <3>1. PICK r \in 0 .. P - 1, q \in 0 .. n - 1 : Address(b, ix) = At(r, q, P)
      BY <1>6
    <3> QED
      BY <1>7, <3>1 DEF Combines
  <2> QED
    BY <1>4, <1>8, <1>9, <2>1 DEF Numbered
<1> QED
  BY <1>3, <1>4, <1>5, <1>10 DEF Packed
-----------------------------------------------------------------------------
(***************************************************************************)
(* Contiguous arrays have their items without a gap.                       *)
(***************************************************************************)
SuffixOf(dims, i) == SubSeq(dims, i, Len(dims))

LEMMA SuffixProperties ==
  ASSUME NEW dims, IsSeq(dims), NEW i \in 1 .. Len(dims) + 1
  PROVE  /\ IsSeq(SuffixOf(dims, i)) /\ Len(SuffixOf(dims, i)) = Len(dims) - i + 1
         /\ \A k \in 1 .. Len(dims) - i + 1 : SuffixOf(dims, i)[k] = dims[i + k - 1]
<1>1. Len(dims) \in Nat
  BY IsSeqProperties
<1>2. i \in Int /\ Len(dims) \in Int /\ 1 <= i /\ Len(dims) <= Len(dims) /\ i <= Len(dims) + 1
  BY <1>1
<1> QED
  BY <1>2, SubSeqIsSeq DEF SuffixOf

LEMMA SuffixCons ==
  ASSUME NEW dims, IsSeq(dims), NEW i \in 1 .. Len(dims)
  PROVE  InFront(SuffixOf(dims, i), dims[i], SuffixOf(dims, i + 1))
<1>1. PICK n \in Nat : n = Len(dims)
  BY IsSeqProperties
<1>2. PICK b, s : b = SuffixOf(dims, i) /\ s = SuffixOf(dims, i + 1)
  OBVIOUS
<1>3. /\ IsSeq(b) /\ Len(b) = n - i + 1 /\ \A k \in 1 .. n - i + 1 : b[k] = dims[i + k - 1]
      /\ IsSeq(s) /\ Len(s) = n - (i + 1) + 1 /\ \A k \in 1 .. n - (i + 1) + 1 : s[k] = dims[(i + 1) + k - 1]
  <2>1. i \in 1 .. Len(dims) + 1 /\ i + 1 \in 1 .. Len(dims) + 1
    BY <1>1
  <2> QED
    BY <1>1, <1>2, <2>1, SuffixProperties
<1>4. b[1] = dims[i]
  <2>1. 1 \in 1 .. n - i + 1 /\ i + 1 - 1 = i
    BY <1>1
  <2>2. b[1] = dims[i + 1 - 1]
    BY <1>3, <2>1
  <2> QED
    BY <2>1, <2>2
<1>5. Len(b) = Len(s) + 1
  BY <1>1, <1>3
<1>6. ASSUME NEW k \in 1 .. Len(s)
      PROVE  b[k + 1] = s[k]
  <2>1. k \in 1 .. n - (i + 1) + 1 /\ k + 1 \in 1 .. n - i + 1 /\ i + (k + 1) - 1 = (i + 1) + k - 1
    BY <1>1, <1>3
  <2>2. b[k + 1] = dims[i + (k + 1) - 1] /\ s[k] = dims[(i + 1) + k - 1]
    BY <1>3, <2>1
  <2> QED
    BY <2>1, <2>2
<1> QED
  BY <1>2, <1>3, <1>4, <1>5, <1>6 DEF InFront

LEMMA WholeSuffix ==
  ASSUME NEW dims, IsSeq(dims)
  PROVE  SuffixOf(dims, 1) = dims /\ SuffixOf(dims, Len(dims) + 1) = <<>>
<1>1. PICK n \in Nat : n = Len(dims)
  BY IsSeqProperties
<1>2. 1 \in 1 .. Len(dims) + 1 /\ Len(dims) + 1 \in 1 .. Len(dims) + 1
  BY <1>1
<1>3. /\ IsSeq(SuffixOf(dims, 1)) /\ Len(SuffixOf(dims, 1)) = Len(dims)
      /\ \A k \in 1 .. Len(dims) : SuffixOf(dims, 1)[k] = dims[k]
  <2>1. Len(dims) - 1 + 1 = Len(dims) /\ \A k \in 1 .. Len(dims) : 1 + k - 1 = k
    BY <1>1
  <2> QED
    BY <1>2, <2>1, SuffixProperties
<1>4. IsSeq(SuffixOf(dims, Len(dims) + 1)) /\ Len(SuffixOf(dims, Len(dims) + 1)) = 0
  <2>1. Len(dims) - (Len(dims) + 1) + 1 = 0
    BY <1>1
  <2> QED
    BY <1>2, <2>1, SuffixProperties
<1>5. SuffixOf(dims, 1) = dims
  BY <1>3, SameSeq
<1> QED
  BY <1>4, <1>5, IsSeqProperties

LEMMA SuffixSuffix ==
  ASSUME NEW dims, IsSeq(dims), NEW i \in 1 .. Len(dims) + 1, NEW j \in 1 .. Len(dims) - i + 2
  PROVE  SuffixOf(SuffixOf(dims, i), j) = SuffixOf(dims, i + j - 1)
<1>1. PICK n \in Nat : n = Len(dims)
  BY IsSeqProperties
<1>2. PICK s, x, y : s = SuffixOf(dims, i) /\ x = SuffixOf(s, j) /\ y = SuffixOf(dims, i + j - 1)
  OBVIOUS
<1>3. IsSeq(s) /\ Len(s) = n - i + 1 /\ \A k \in 1 .. n - i + 1 : s[k] = dims[i + k - 1]
  BY <1>1, <1>2, SuffixProperties
<1>4. IsSeq(x) /\ Len(x) = Len(s) - j + 1 /\ \A k \in 1 .. Len(s) - j + 1 : x[k] = s[j + k - 1]
  <2>1. j \in 1 .. Len(s) + 1 /\ IsSeq(s)
    BY <1>1, <1>3
  <2>2. /\ IsSeq(SuffixOf(s, j)) /\ Len(SuffixOf(s, j)) = Len(s) - j + 1
        /\ \A k \in 1 .. Len(s) - j + 1 : SuffixOf(s, j)[k] = s[j + k - 1]
    BY <2>1, SuffixProperties
  <2> QED
    BY <1>2, <2>2
<1>5. /\ IsSeq(y) /\ Len(y) = n - (i + j - 1) + 1
      /\ \A k \in 1 .. n - (i + j - 1) + 1 : y[k] = dims[(i + j - 1) + k - 1]
  <2>1. i + j - 1 \in 1 .. Len(dims) + 1
    BY <1>1
  <2> QED
    BY <1>1, <1>2, <2>1, SuffixProperties
<1>6. Len(x) = Len(y)
  BY <1>1, <1>3, <1>4, <1>5
<1>7. ASSUME NEW k \in 1 .. Len(x)
      PROVE  x[k] = y[k]
  <2>1. /\ k \in 1 .. Len(s) - j + 1 /\ k \in 1 .. n - (i + j - 1) + 1
        /\ j + k - 1 \in 1 .. n - i + 1 /\ i + (j + k - 1) - 1 = (i + j - 1) + k - 1
    BY <1>1, <1>3, <1>4, <1>5, <1>6
  <2>2. x[k] = s[j + k - 1] /\ s[j + k - 1] = dims[i + (j + k - 1) - 1] /\ y[k] = dims[(i + j - 1) + k - 1]
    BY <1>3, <1>4, <1>5, <2>1
  <2> QED
    BY <2>1, <2>2
<1>8. x = y
  BY <1>4, <1>5, <1>6, <1>7, SameSeq
<1> QED
  BY <1>2, <1>8

\* Fixed dimensions in C order.
InOrder(dims) == AreFixed(dims) /\ IsCContiguous(dims)

LEMMA InOrderIs ==
  ASSUME NEW dims, AreFixed(dims)
  PROVE  InOrder(dims) <=>
           \A i \in 1 .. Len(dims) : dims[i].shape > 1 => dims[i].step = Product(Shape(SuffixOf(dims, i + 1)))
<1>1. DOMAIN dims = 1 .. Len(dims)
  BY IsSeqProperties DEF AreFixed
<1> QED
  BY <1>1 DEF InOrder, IsCContiguous, SuffixOf

\* What is behind some dimensions has the same order.
LEMMA SuffixInOrder ==
  ASSUME NEW dims, InOrder(dims), NEW i \in 1 .. Len(dims) + 1
  PROVE  InOrder(SuffixOf(dims, i))
<1>1. PICK n \in Nat : n = Len(dims)
  BY IsSeqProperties DEF InOrder, AreFixed
<1>2. AreFixed(dims) /\ IsSeq(dims)
  BY DEF InOrder, AreFixed
<1>3. PICK s : s = SuffixOf(dims, i)
  OBVIOUS
<1>4. IsSeq(s) /\ Len(s) = n - i + 1 /\ \A k \in 1 .. n - i + 1 : s[k] = dims[i + k - 1]
  BY <1>1, <1>2, <1>3, SuffixProperties
<1>5. \A k \in 1 .. Len(s) : i + k - 1 \in 1 .. n /\ k + 1 \in 1 .. n - i + 2 /\ i + (k + 1) - 1 = (i + k - 1) + 1
  BY <1>1, <1>4
<1>6. AreFixed(s)
  BY <1>1, <1>2, <1>4, <1>5 DEF AreFixed
<1>7. ASSUME NEW k \in 1 .. Len(s), s[k].shape > 1
      PROVE  s[k].step = Product(Shape(SuffixOf(s, k + 1)))
  <2>1. PICK j \in 1 .. n : j = i + k - 1 /\ s[k] = dims[j] /\ i + (k + 1) - 1 = j + 1
    BY <1>4, <1>5
  <2>2. dims[j].step = Product(Shape(SuffixOf(dims, j + 1)))
    BY <1>1, <1>2, <1>7, <2>1, InOrderIs
  <2>3. SuffixOf(s, k + 1) = SuffixOf(dims, i + (k + 1) - 1)
    BY <1>1, <1>2, <1>3, <1>5, SuffixSuffix
  <2> QED
    BY <2>1, <2>2, <2>3
<1> QED
  BY <1>3, <1>6, <1>7, InOrderIs

LEMMA InOrderCons ==
  ASSUME NEW s, InOrder(s), NEW d, IsFixed(d), d.shape > 1 => d.step = Product(Shape(s)),
         NEW b, InFront(b, d, s)
  PROVE  InOrder(b)
<1>1. PICK m \in Nat : m = Len(s) /\ Len(b) = m + 1 /\ IsSeq(b) /\ IsSeq(s)
  BY IsSeqProperties DEF InFront
<1>2. b[1] = d /\ \A k \in 1 .. m : b[k + 1] = s[k]
  BY <1>1 DEF InFront
<1>3. AreFixed(s) /\ AreFixed(b)
  BY FixedCons DEF InOrder
<1>4. SuffixOf(b, 2) = s
  <2>1. PICK x : x = SuffixOf(b, 2)
    OBVIOUS
  <2>2. IsSeq(x) /\ Len(x) = (m + 1) - 2 + 1 /\ \A k \in 1 .. (m + 1) - 2 + 1 : x[k] = b[2 + k - 1]
    <3>1. 2 \in 1 .. Len(b) + 1 /\ IsSeq(b)
      BY <1>1
    <3>2. /\ IsSeq(SuffixOf(b, 2)) /\ Len(SuffixOf(b, 2)) = Len(b) - 2 + 1
          /\ \A k \in 1 .. Len(b) - 2 + 1 : SuffixOf(b, 2)[k] = b[2 + k - 1]
      BY <3>1, SuffixProperties
    <3> QED
      BY <1>1, <2>1, <3>2
  <2>3. Len(x) = m /\ \A k \in 1 .. m : x[k] = s[k]
    <3>1. (m + 1) - 2 + 1 = m /\ \A k \in 1 .. m : 2 + k - 1 = k + 1
      BY <1>1
    <3> QED
      BY <1>2, <2>2, <3>1
  <2> QED
    BY <1>1, <2>1, <2>2, <2>3, SameSeq
<1>5. ASSUME NEW k \in 1 .. Len(b), b[k].shape > 1
      PROVE  b[k].step = Product(Shape(SuffixOf(b, k + 1)))
  <2>1. CASE k = 1
    <3>1. k + 1 = 2
      BY <2>1
    <3> QED
      BY <1>2, <1>4, <1>5, <2>1, <3>1
  <2>2. CASE k # 1
    <3>1. PICK j \in 1 .. m : k = j + 1 /\ b[k] = s[j]
      <4>1. k - 1 \in 1 .. m /\ k = (k - 1) + 1
        BY <1>1, <2>2
      <4> QED
        BY <1>2, <4>1
    <3>2. s[j].step = Product(Shape(SuffixOf(s, j + 1)))
      BY <1>1, <1>3, <1>5, <3>1, InOrderIs
    <3>3. SuffixOf(SuffixOf(b, 2), j + 1) = SuffixOf(b, k + 1)
      <4>1. 2 \in 1 .. Len(b) + 1 /\ j + 1 \in 1 .. Len(b) - 2 + 2 /\ 2 + (j + 1) - 1 = k + 1
        BY <1>1, <3>1
      <4>2. SuffixOf(SuffixOf(b, 2), j + 1) = SuffixOf(b, 2 + (j + 1) - 1)
        BY <1>1, <4>1, SuffixSuffix
      <4> QED
        BY <4>1, <4>2
    <3> QED
      BY <1>4, <3>1, <3>2, <3>3
  <2> QED
    BY <2>1, <2>2
<1> QED
  BY <1>3, <1>5, InOrderIs

LEMMA InOrderNone ==
  InOrder(<<>>)
<1>1. Packed(<<>>)
  BY PackedNone
<1>2. AreFixed(<<>>)
  BY <1>1 DEF Packed
<1>3. \A i \in 1 .. Len(<<>>) : FALSE
  OBVIOUS
<1> QED
  BY <1>2, <1>3, InOrderIs

LEMMA InOrderPacked ==
  ASSUME NEW dims, InOrder(dims)
  PROVE  Packed(dims)
<1>1. PICK n \in Nat : n = Len(dims)
  BY IsSeqProperties DEF InOrder, AreFixed
<1>2. AreFixed(dims) /\ IsSeq(dims)
  BY DEF InOrder, AreFixed
<1> DEFINE S == {k \in Nat : k <= n => Packed(SuffixOf(dims, n + 1 - k))}
<1>3. 0 \in S
  <2>1. SuffixOf(dims, n + 1) = <<>> /\ n + 1 - 0 = n + 1
    BY <1>1, <1>2, WholeSuffix
  <2>2. Packed(SuffixOf(dims, n + 1 - 0))
    BY <2>1, PackedNone
  <2> QED
    BY <2>2
<1>4. ASSUME NEW k \in Nat, k \in S
      PROVE  k + 1 \in S
  <2> SUFFICES ASSUME k + 1 <= n
               PROVE  Packed(SuffixOf(dims, n + 1 - (k + 1)))
    OBVIOUS
  <2>1. PICK i \in 1 .. n : i = n + 1 - (k + 1) /\ i + 1 = n + 1 - k
    BY <1>1
  <2>2. PICK s, b, d : s = SuffixOf(dims, i + 1) /\ b = SuffixOf(dims, i) /\ d = dims[i]
    OBVIOUS
  <2>3. Packed(s)
    BY <1>4, <2>1, <2>2
  <2>4. InFront(b, d, s)
    BY <1>1, <1>2, <2>2, SuffixCons
  <2>5. IsFixed(d) /\ (d.shape > 1 => d.step = Product(Shape(s)))
    <3>1. IsFixed(d)
      BY <1>1, <1>2, <2>2 DEF AreFixed, IsFixed
    <3>2. d.shape > 1 => d.step = Product(Shape(s))
      BY <1>1, <1>2, <2>2, InOrderIs
    <3> QED
      BY <3>1, <3>2
  <2>6. Packed(b)
    BY <2>3, <2>4, <2>5, PackedCons
  <2> QED
    BY <2>1, <2>2, <2>6
<1> HIDE DEF S
<1>5. n \in S
  BY <1>3, <1>4, NatSetInduction
<1>6. Packed(SuffixOf(dims, n + 1 - n)) /\ n + 1 - n = 1
  BY <1>5 DEF S
<1> QED
  BY <1>2, <1>6, WholeSuffix

LEMMA AddDimCons ==
  ASSUME NEW n, NEW dims, IsSeq(dims)
  PROVE  InFront(AddDim(n, dims), Fixed(n, Extent(dims)), dims)
<1>1. PICK d : d = Fixed(n, Extent(dims))
  OBVIOUS
<1>2. PICK s : s = <<d>>
  OBVIOUS
<1>3. IsSeq(s) /\ Len(s) = 1 /\ s[1] = d
  <2>1. s \in Seq({d})
    BY <1>2
  <2> QED
    BY <1>2, <2>1, SeqIsSeq
<1>4. PICK b : b = s \o dims
  OBVIOUS
<1>5. b = AddDim(n, dims)
  BY <1>1, <1>2, <1>4 DEF AddDim
<1>6. /\ IsSeq(s \o dims) /\ Len(s \o dims) = Len(s) + Len(dims)
      /\ \A k \in 1 .. Len(s) : (s \o dims)[k] = s[k]
      /\ \A k \in 1 .. Len(dims) : (s \o dims)[Len(s) + k] = dims[k]
  <2>1. IsSeq(s)
    BY <1>3
  <2> QED
    BY <2>1, ConcatIsSeq
<1>7. Len(dims) \in Nat
  BY IsSeqProperties
<1>8. IsSeq(b) /\ Len(b) = Len(dims) + 1 /\ b[1] = d
  BY <1>3, <1>4, <1>6, <1>7
<1>9. ASSUME NEW k \in 1 .. Len(dims)
      PROVE  b[k + 1] = dims[k]
  <2>1. Len(s) + k = k + 1
    BY <1>3, <1>7
  <2>2. b[Len(s) + k] = dims[k]
    BY <1>4, <1>6
  <2> QED
    BY <2>1, <2>2
<1> QED
  BY <1>1, <1>5, <1>8, <1>9 DEF InFront

LEMMA AddedFixed ==
  ASSUME NEW n \in Nat, NEW s, Packed(s)
  PROVE  /\ IsFixed(Fixed(n, Extent(s))) /\ Fixed(n, Extent(s)).step = Product(Shape(s))
         /\ Packed(AddDim(n, s))
         /\ InOrder(s) => InOrder(AddDim(n, s))
<1>1. PICK d, b : d = Fixed(n, Extent(s)) /\ b = AddDim(n, s)
  OBVIOUS
<1>2. AreFixed(s) /\ IsSeq(s) /\ Extent(s) = Product(Shape(s))
  BY DEF Packed, AreFixed
<1>3. Extent(s) \in Int
  BY <1>2, FixedShape, ProductSigns
<1>4. d.kind = "fixed" /\ d.shape = n /\ d.step = Extent(s)
  BY <1>1 DEF Fixed
<1>5. IsFixed(d) /\ d.step = Product(Shape(s))
  BY <1>2, <1>3, <1>4 DEF IsFixed
<1>6. InFront(b, d, s)
  BY <1>1, <1>2, AddDimCons
<1>7. Packed(b)
  BY <1>5, <1>6, PackedCons
<1>8. InOrder(s) => InOrder(b)
  BY <1>5, <1>6, InOrderCons
<1> QED
  BY <1>1, <1>5, <1>7, <1>8

\* Dimensions put around an array without a gap leave none.
LEMMA AddedPacked ==
  ASSUME NEW ns, AreLengths(ns), NEW dims, Packed(dims)
  PROVE  /\ Packed(AddDims(ns, dims))
         /\ InOrder(dims) => InOrder(AddDims(ns, dims))
<1>1. PICK m \in Nat : m = Len(ns)
  BY IsSeqProperties DEF AreLengths
<1>2. PICK f : AddedUp(ns, dims, f) /\ f[m] = AddDims(ns, dims)
  <2>1. Len(ns) \in Nat
    BY <1>1
  <2>2. PICK f : AddedUp(ns, dims, f) /\ f[Len(ns)] = AddDims(ns, dims)
    BY <2>1, AddDimsSteps
  <2> QED
    BY <1>1, <2>2
<1>3. f[0] = dims /\ \A k \in 1 .. m : f[k] = AddDim(ns[m + 1 - k], f[k - 1])
  BY <1>1, <1>2 DEF AddedUp
<1> DEFINE Good(k) == Packed(f[k]) /\ (InOrder(dims) => InOrder(f[k]))
           S == {k \in Nat : k <= m => Good(k)}
<1>4. 0 \in S
  BY <1>3
<1>5. ASSUME NEW k \in Nat, k \in S
      PROVE  k + 1 \in S
  <2> SUFFICES ASSUME k + 1 <= m
               PROVE  Good(k + 1)
    OBVIOUS
  <2>1. Good(k) /\ k + 1 \in 1 .. m /\ (k + 1) - 1 = k /\ m + 1 - (k + 1) \in 1 .. m
    BY <1>5
  <2>2. PICK n \in Nat : n = ns[m + 1 - (k + 1)]
    BY <1>1, <2>1 DEF AreLengths
  <2>3. f[k + 1] = AddDim(n, f[k])
    BY <1>3, <2>1, <2>2
  <2>4. Packed(AddDim(n, f[k])) /\ (InOrder(f[k]) => InOrder(AddDim(n, f[k])))
    BY <2>1, AddedFixed
  <2> QED
    BY <2>1, <2>3, <2>4
<1> HIDE DEF S
<1>6. m \in S
  BY <1>4, <1>5, NatSetInduction
<1>7. Good(m)
  BY <1>6 DEF S
<1> QED
  BY <1>2, <1>7

\* In Fortran order there is no gap either.
PrefixOf(dims, k) == SubSeq(dims, 1, k)

LEMMA PrefixProperties ==
  ASSUME NEW dims, IsSeq(dims), NEW k \in 0 .. Len(dims)
  PROVE  /\ IsSeq(PrefixOf(dims, k)) /\ Len(PrefixOf(dims, k)) = k
         /\ \A i \in 1 .. k : PrefixOf(dims, k)[i] = dims[i]
<1>1. Len(dims) \in Nat
  BY IsSeqProperties
<1>2. 1 \in Int /\ k \in Int /\ 1 <= 1 /\ k <= Len(dims) /\ 1 <= k + 1
  BY <1>1
<1>3. /\ IsSeq(SubSeq(dims, 1, k)) /\ Len(SubSeq(dims, 1, k)) = k - 1 + 1
      /\ \A i \in 1 .. k - 1 + 1 : SubSeq(dims, 1, k)[i] = dims[1 + i - 1]
  BY <1>2, SubSeqIsSeq
<1>4. k - 1 + 1 = k /\ \A i \in 1 .. k : 1 + i - 1 = i
  BY <1>2
<1> QED
  BY <1>3, <1>4 DEF PrefixOf

LEMMA FortranPacked ==
  ASSUME NEW dims, IsSeq(dims), \A k \in 1 .. Len(dims) : dims[k].shape \in Nat
  PROVE  Packed(ToFortran(dims)) /\ IsFContiguous(ToFortran(dims))
<1>1. PICK n \in Nat : n = Len(dims) /\ DOMAIN dims = 1 .. n
  BY IsSeqProperties
<1>2. PICK t : t = ToFortran(dims)
  OBVIOUS
<1>3. IsSeq(t) /\ Len(t) = n /\ DOMAIN t = 1 .. n
  <2>1. IsSeq(t) /\ Len(t) = Len(dims)
    BY <1>2, FortranDims
  <2> QED
    BY <1>1, <2>1, IsSeqProperties
<1>4. \A k \in 1 .. n : /\ t[k].kind = "fixed" /\ t[k].shape = dims[k].shape
                        /\ t[k].step = Product(Shape(PrefixOf(dims, k - 1)))
  BY <1>1, <1>2 DEF ToFortran, Fixed, PrefixOf
<1>5. ASSUME NEW k \in 0 .. n
      PROVE  Shape(PrefixOf(t, k)) = Shape(PrefixOf(dims, k))
  <2>1. PICK x, y : x = PrefixOf(t, k) /\ y = PrefixOf(dims, k)
    OBVIOUS
  <2>2. /\ IsSeq(x) /\ Len(x) = k /\ \A i \in 1 .. k : x[i] = t[i]
        /\ IsSeq(y) /\ Len(y) = k /\ \A i \in 1 .. k : y[i] = dims[i]
    BY <1>1, <1>3, <2>1, PrefixProperties
  <2>3. /\ IsSeq(Shape(x)) /\ Len(Shape(x)) = Len(x) /\ \A i \in 1 .. Len(x) : Shape(x)[i] = x[i].shape
        /\ IsSeq(Shape(y)) /\ Len(Shape(y)) = Len(y) /\ \A i \in 1 .. Len(y) : Shape(y)[i] = y[i].shape
    BY <2>2, ShapeIsSeq
  <2>4. Len(Shape(x)) = Len(Shape(y)) /\ \A i \in 1 .. Len(Shape(x)) : Shape(x)[i] = Shape(y)[i]
    BY <1>4, <2>2, <2>3
  <2>5. Shape(x) = Shape(y)
    BY <2>3, <2>4, SameSeq
  <2> QED
    BY <2>1, <2>5
<1>6. ASSUME NEW k \in 1 .. n
      PROVE  /\ t[k].step = Product(Shape(PrefixOf(t, k - 1)))
             /\ t[k].step \in Nat
  <2>1. PICK j \in 0 .. n : j = k - 1
    BY <1>1
  <2>2. t[k].step = Product(Shape(PrefixOf(t, j)))
    BY <1>4, <1>5, <2>1
  <2>3. PICK y, v : y = PrefixOf(dims, j) /\ v = Shape(y)
    OBVIOUS
  <2>4. IsSeq(y) /\ Len(y) = j /\ \A i \in 1 .. j : y[i] = dims[i] /\ i \in 1 .. n
    BY <1>1, <2>1, <2>3, PrefixProperties
  <2>5. IsSeq(v) /\ Len(v) = Len(y) /\ \A i \in 1 .. Len(y) : v[i] = y[i].shape
    BY <2>3, <2>4, ShapeIsSeq
  <2>6. AreLengths(v)
    BY <1>1, <2>4, <2>5 DEF AreLengths
  <2>7. Product(v) \in Nat
    BY <2>6, ProductSigns
  <2> QED
    BY <1>4, <2>1, <2>2, <2>3, <2>7
<1>7. \A k \in 1 .. n : IsFixed(t[k])
  BY <1>1, <1>4, <1>6 DEF IsFixed
<1> DEFINE S == {k \in Nat : k <= n => Packed(PrefixOf(t, k))}
<1>8. 0 \in S
  <2>1. 0 \in 0 .. Len(t)
    BY <1>3
  <2>2. IsSeq(PrefixOf(t, 0)) /\ Len(PrefixOf(t, 0)) = 0
    BY <1>3, <2>1, PrefixProperties
  <2>3. PrefixOf(t, 0) = <<>>
    BY <2>2, IsSeqProperties
  <2> QED
    BY <2>3, PackedNone
<1>9. ASSUME NEW k \in Nat, k \in S
      PROVE  k + 1 \in S
  <2> SUFFICES ASSUME k + 1 <= n
               PROVE  Packed(PrefixOf(t, k + 1))
    OBVIOUS
  <2>1. k \in 0 .. Len(t) /\ k + 1 \in 0 .. Len(t) /\ k + 1 \in 1 .. n /\ (k + 1) - 1 = k
    BY <1>3
  <2>2. PICK s, b, d : s = PrefixOf(t, k) /\ b = PrefixOf(t, k + 1) /\ d = t[k + 1]
    OBVIOUS
  <2>3. /\ IsSeq(s) /\ Len(s) = k /\ \A i \in 1 .. k : s[i] = t[i]
        /\ IsSeq(b) /\ Len(b) = k + 1 /\ \A i \in 1 .. k + 1 : b[i] = t[i]
    BY <1>3, <2>1, <2>2, PrefixProperties
  <2>4. Behind(b, s, d)
    BY <2>2, <2>3 DEF Behind
  <2>5. Packed(s)
    BY <1>9, <2>1, <2>2, <1>3
  <2>6. IsFixed(d) /\ d.step = Product(Shape(s))
    BY <1>6, <1>7, <2>1, <2>2
  <2>7. Packed(b)
    BY <2>4, <2>5, <2>6, PackedSnoc
  <2> QED
    BY <2>2, <2>7
<1> HIDE DEF S
<1>10. n \in S
  BY <1>8, <1>9, NatSetInduction
<1>11. Packed(PrefixOf(t, n))
  BY <1>10 DEF S
<1>12. PrefixOf(t, n) = t
  <2>1. n \in 0 .. Len(t)
    BY <1>3
  <2>2. IsSeq(PrefixOf(t, n)) /\ Len(PrefixOf(t, n)) = n /\ \A i \in 1 .. n : PrefixOf(t, n)[i] = t[i]
    BY <1>3, <2>1, PrefixProperties
  <2> QED
    BY <1>3, <2>2, SameSeq
<1>13. IsFContiguous(t)
  BY <1>3, <1>6 DEF IsFContiguous, PrefixOf
<1> QED
  BY <1>2, <1>11, <1>12, <1>13

\* Its items have the addresses from 0 on, one for each index.
LEMMA PackedPlaces ==
  ASSUME NEW dims, Packed(dims)
  PROVE  LET ixs == Indices(Shape(dims)) IN
         { Address(dims, ix) : ix \in ixs } = 0 .. Cardinality(ixs) - 1
<1>1. PICK ixs : ixs = Indices(Shape(dims))
  OBVIOUS
<1>2. AreFixed(dims) /\ Numbered(dims)
  BY DEF Packed
<1>3. PICK N \in Nat : N = Product(Shape(dims))
  BY <1>2, FixedShape, ProductSigns
<1>4. \A ix : ix \in ixs <=> IsIndex(dims, ix)
  BY <1>1, <1>2, IndicesAre
<1>5. /\ \A ix \in ixs : Address(dims, ix) \in 0 .. N - 1
      /\ \A ix, jx \in ixs : Address(dims, ix) = Address(dims, jx) => ix = jx
      /\ \A a \in 0 .. N - 1 : \E ix \in ixs : Address(dims, ix) = a
  BY <1>2, <1>3, <1>4 DEF Numbered
<1>6. PICK g : g = [a \in 0 .. N - 1 |-> CHOOSE ix \in ixs : Address(dims, ix) = a]
  OBVIOUS
<1>7. g \in Bijection(0 .. N - 1, ixs)
  <2>1. \A a \in 0 .. N - 1 : g[a] \in ixs /\ Address(dims, g[a]) = a
    BY <1>5, <1>6
  <2>2. g \in [0 .. N - 1 -> ixs]
    BY <1>6, <2>1
  <2>3. \A a, b \in 0 .. N - 1 : g[a] = g[b] => a = b
    BY <2>1
  <2>4. \A ix \in ixs : \E a \in 0 .. N - 1 : g[a] = ix
    BY <1>5, <2>1
  <2> QED
    BY <2>2, <2>3, <2>4 DEF Bijection, Injection, IsInjective, Surjection
<1>8. Cardinality(ixs) = N
  <2>1. IsFiniteSet(0 .. N - 1) /\ Cardinality(0 .. N - 1) = N
    <3>1. 0 \in Int /\ N - 1 \in Int
      OBVIOUS
    <3>2. IsFiniteSet(0 .. N - 1) /\ Cardinality(0 .. N - 1) = IF 0 > N - 1 THEN 0 ELSE (N - 1) - 0 + 1
      BY <3>1, FS_Interval
    <3> QED
      BY <3>2
  <2>2. ExistsBijection(0 .. N - 1, ixs)
    BY <1>7 DEF ExistsBijection
  <2> QED
    BY <2>1, <2>2, FS_Bijection
<1>9. { Address(dims, ix) : ix \in ixs } = 0 .. N - 1
  BY <1>5
<1> QED
  BY <1>1, <1>8, <1>9
-----------------------------------------------------------------------------
(***************************************************************************)
(* Outputs and the types that they have in the signature.                  *)
(***************************************************************************)
\* Dimensions of arguments: the steps are known as well.
AreConcrete(dims) == AreDims(dims) /\ \A k \in 1 .. Len(dims) : dims[k].kind = "fixed" => dims[k].step \in Int

LEMMA ConcreteSuffix ==
  ASSUME NEW c, AreConcrete(c.dims), NEW i \in 1 .. Len(c.dims) + 1
  PROVE  AreConcrete(From(c, i).dims) /\ From(c, i) = Type(From(c, i).dims, From(c, i).dtype)
<1>1. IsSeq(c.dims)
  BY DEF AreConcrete, AreDims
<1>2. Len(c.dims) \in Nat
  BY <1>1, IsSeqProperties
<1>3. i \in Nat /\ 1 <= i /\ i <= Len(c.dims) + 1
  BY <1>2
<1>4. /\ IsSeq(From(c, i).dims) /\ Len(From(c, i).dims) = Len(c.dims) - i + 1
      /\ \A k \in 1 .. Len(c.dims) - i + 1 : From(c, i).dims[k] = c.dims[i + k - 1]
  BY <1>1, <1>3, FromProperties
<1>5. \A k \in 1 .. Len(c.dims) - i + 1 : i + k - 1 \in 1 .. Len(c.dims)
  BY <1>2, <1>3
<1>6. AreConcrete(From(c, i).dims)
  BY <1>4, <1>5 DEF AreConcrete, AreDims
<1>7. From(c, i) = Type(From(c, i).dims, From(c, i).dtype)
  BY DEF From, Type
<1> QED
  BY <1>6, <1>7

\* What a type variable that an argument has bound stands for.
LEMMA FitsWhole ==
  ASSUME NEW u, NEW p, NEW c, NEW key
  PROVE  /\ IsPattern(p) /\ AreConcrete(c.dims) /\ ArgFits(u, p, c) /\ key \in TypeNames(p)
         => \E e : /\ Holds(u, key, "Type", e) /\ e = Type(e.dims, e.dtype) /\ AreConcrete(e.dims)
                   /\ IsOptional(e) = p.dtype.opt
<1>0. SUFFICES ASSUME IsPattern(p), AreConcrete(c.dims), ArgFits(u, p, c), key \in TypeNames(p)
               PROVE  \E e : /\ Holds(u, key, "Type", e) /\ e = Type(e.dims, e.dtype) /\ AreConcrete(e.dims)
                             /\ IsOptional(e) = p.dtype.opt
  OBVIOUS
<1>1. IsSeq(p.dims) /\ IsSeq(c.dims)
  BY <1>0 DEF IsPattern, AreConcrete, AreDims
<1>2. Len(p.dims) \in Nat /\ Len(c.dims) \in Nat
  BY <1>1, IsSeqProperties
<1>3. PICK d : d = Rest(p, c)
  OBVIOUS
<1>4. AreConcrete(d.dims) /\ Fits(u, p, d)
  <2>1. CASE p.ell = "none"
    <3>1. d = c
      BY <1>3, <2>1 DEF Rest
    <3>2. Fits(u, p, c)
      BY <1>0, <2>1 DEF ArgFits
    <3> QED
      BY <1>0, <3>1, <3>2
  <2>2. CASE p.ell # "none"
    <3>1. CanTake(p, c) /\ Fits(u, p, d)
      BY <1>0, <1>3, <2>2 DEF Rest, ArgFits
    <3>2. PICK n, i : n = Taken(p, c) /\ i = n + 1
      OBVIOUS
    <3>3. n = Len(c.dims) - Len(p.dims) /\ n >= 0
      BY <3>1, <3>2 DEF CanTake, Taken
    <3>4. i \in 1 .. Len(c.dims) + 1
      <4>1. PICK l, m : l = Len(p.dims) /\ m = Len(c.dims)
        OBVIOUS
      <4>2. l \in Nat /\ m \in Nat /\ n = m - l /\ n >= 0 /\ i = n + 1
        BY <1>2, <3>2, <3>3, <4>1
      <4>3. i \in 1 .. m + 1
        BY <4>2
      <4> QED
        BY <4>1, <4>3
    <3>5. d = From(c, i)
      BY <1>3, <2>2, <3>2 DEF Rest
    <3> QED
      BY <1>0, <3>1, <3>4, <3>5, ConcreteSuffix
  <2> QED
    BY <2>1, <2>2
<1>5. PICK i, e : i = Len(p.dims) + 1 /\ e = From(d, i)
  OBVIOUS
<1>6. i \in 1 .. Len(d.dims) + 1
  <2>1. Len(p.dims) <= Len(d.dims) /\ Len(d.dims) \in Nat
    BY <1>4, IsSeqProperties DEF Fits, AreConcrete, AreDims
  <2> QED
    BY <1>2, <1>5, <2>1
<1>7. AreConcrete(e.dims) /\ e = Type(e.dims, e.dtype)
  BY <1>4, <1>5, <1>6, ConcreteSuffix
<1>8. PICK q : q = p.dtype
  OBVIOUS
<1>9. FitsDtype(u, q, e) /\ q.kind = "typevar" /\ q.name = key
  BY <1>0, <1>4, <1>5, <1>8 DEF TypeNames, Fits
<1>10. Holds(u, key, "Type", e) /\ IsOptional(e) = q.opt
  BY <1>9 DEF FitsDtype
<1> QED
  BY <1>7, <1>8, <1>10

\* Signatures: the dtypes of their types.
LEMMA SignatureDtypes ==
  ASSUME NEW s \in Signature, SignatureOK(s), NEW i \in 1 .. Len(s.types)
  PROVE  s.types[i].dtype \in PatternDtype
<1>1. PICK S : /\ S = [ell : STRING, order : Contiguity, dims : Seq(PatternDim), dtype : PatternDtype]
               /\ s.types \in Seq(S)
  BY DEF Signature
<1>2. s.types \in Seq(S) /\ i \in 1 .. Len(s.types)
  BY <1>1
<1>3. s.types[i] \in S
  BY <1>2
<1> QED
  BY <1>1, <1>3

\* What is below the dimensions of an output is what its dtype stands for.
LEMMA BaseFits ==
  ASSUME Inferring, NEW j \in 1 .. Len(sig.types), sig.types[j].dtype.kind # "any"
  PROVE  LET e == Base(sig.types[j])
         IN /\ AreConcrete(e.dims) /\ e = Type(e.dims, e.dtype) /\ FitsDtype(tbl, sig.types[j].dtype, e)
            /\ Ellipsis # "none" \/ sig.types[j].dtype.kind # "typevar" => e.dims = <<>>
<1>1. PICK p, s, e : p = sig.types[j] /\ s = sig /\ e = Base(p)
  OBVIOUS
<1>2. s \in Signature /\ SignatureOK(s)
  BY <1>1 DEF Inferring, Matched, CallInv
<1>3. p.dtype \in PatternDtype /\ \A i \in 1 .. Len(s.types) : s.types[i].dtype \in PatternDtype
  BY <1>1, <1>2, SignatureDtypes
<1>4. Ellipsis # "none" \/ p.dtype.kind # "typevar" => e.dims = <<>>
  BY <1>1, BaseDims DEF Inferring
<1>5. PICK q : q = p.dtype
  OBVIOUS
<1>6. CASE p.dtype.kind = "typevar"
  <2>1. PICK key : key = p.dtype.name
    OBVIOUS
  <2>2. key \in AllTypeNames(sig)
    BY <1>1, <1>6, <2>1, OutputPatterns DEF TypeNames, Inferring
  <2>3. AllTypeNames(sig) \subseteq UNION { TypeNames(sig.types[i]) : i \in 1 .. sig.nin }
    BY DEF Inferring, Matched, CallInv, SignatureOK
  <2>4. PICK i \in 1 .. sig.nin : key \in TypeNames(sig.types[i])
    BY <2>2, <2>3
  <2>5. i \in 1 .. Len(Args) /\ i \in 1 .. Len(call.ins) /\ i \in 1 .. Len(s.types)
    BY <1>1, ArityProperties DEF Inferring, Matched
  <2>6. PICK o, c, u : o = sig.types[i] /\ c = Args[i] /\ u = tbl
    OBVIOUS
  <2>7. ArgFits(u, o, c) /\ IsPattern(o) /\ key \in TypeNames(o)
    BY <2>4, <2>5, <2>6, MatchedAll DEF Inferring, IsTypePattern
  <2>8. AreConcrete(c.dims)
    <3>1. c \in ConcreteType
      BY <2>5, <2>6, ArgsProperties DEF Inferring, Matched
    <3> QED
      BY <3>1, ConcreteIsType DEF IsType, AreConcrete, AreDims
  <2>9. o.dtype.kind = "typevar" /\ o.dtype \in PatternDtype
    BY <1>1, <1>3, <2>5, <2>6, <2>7 DEF TypeNames
  <2>10. ~o.dtype.opt /\ o.dtype.opt \in BOOLEAN /\ ~q.opt /\ q.opt \in BOOLEAN
    BY <1>3, <1>5, <1>6, <2>9 DEF PatternDtype
  <2>11. PICK v : /\ Holds(u, key, "Type", v) /\ v = Type(v.dims, v.dtype) /\ AreConcrete(v.dims)
                  /\ IsOptional(v) = o.dtype.opt
    BY <2>7, <2>8, FitsWhole
  <2>12. e = v
    <3>1. e = tbl[key].value
      BY <1>1, <1>6, <2>1 DEF Base
    <3> QED
      BY <2>6, <2>11, <3>1 DEF Holds
  <2>13. IsOptional(v) = q.opt
    BY <2>10, <2>11
  <2>14. FitsDtype(u, q, v)
    BY <1>5, <1>6, <2>1, <2>11, <2>13 DEF FitsDtype
  <2> QED
    BY <1>1, <1>4, <1>5, <2>6, <2>11, <2>12, <2>14
<1>7. CASE p.dtype.kind # "typevar"
  <2>1. q.kind = "scalar" /\ q.opt \in BOOLEAN
    BY <1>1, <1>3, <1>5, <1>7 DEF PatternDtype
  <2>2. e = Type(<<>>, Scalar(q))
    BY <1>1, <1>5, <1>7 DEF Base
  <2>3. e.dims = <<>> /\ e.dtype = Scalar(q) /\ Scalar(q).name = q.name /\ Scalar(q).opt = q.opt
    BY <2>2 DEF Type, Scalar
  <2>4. AreConcrete(e.dims)
    <3>1. <<>> \in Seq({})
      OBVIOUS
    <3>2. IsSeq(<<>>) /\ Len(<<>>) = 0
      BY <3>1, SeqIsSeq
    <3> QED
      BY <2>3, <3>2 DEF AreConcrete, AreDims
  <2>5. IsOptional(e) = q.opt
    BY <2>1, <2>3 DEF IsOptional
  <2>6. FitsDtype(tbl, q, e)
    BY <2>1, <2>3, <2>5 DEF FitsDtype
  <2>7. e = Type(e.dims, e.dtype)
    BY <2>2, <2>3
  <2> QED
    BY <1>1, <1>4, <1>5, <2>4, <2>6, <2>7
<1> QED
  BY <1>6, <1>7

\* dims are those of inner with n others around them.
EndsWith(dims, n, inner) ==
  IsSeq(dims) /\ Len(dims) = n + Len(inner) /\ \A k \in 1 .. Len(inner) : dims[n + k] = inner[k]

LEMMA AddedEnds ==
  ASSUME NEW ns, NEW dims, IsSeq(ns), IsSeq(dims)
  PROVE  EndsWith(AddDims(ns, dims), Len(ns), dims)
BY AddDimsProperties DEF EndsWith

LEMMA ArraysEnd ==
  ASSUME NEW n \in Nat, NEW dims, IsSeq(dims)
  PROVE  /\ EndsWith(ArrayDims(n) \o dims, n, dims)
         /\ \A k \in 1 .. n : (ArrayDims(n) \o dims)[k].kind = "array"
<1>1. PICK a : a = ArrayDims(n)
  OBVIOUS
<1>2. a = [k \in 1 .. n |-> a[k]] /\ \A k \in 1 .. n : a[k].kind = "array"
  BY <1>1 DEF ArrayDims
<1>3. IsSeq(a) /\ Len(a) = n
  BY <1>2, FunctionIsSeq
<1>4. /\ IsSeq(a \o dims) /\ Len(a \o dims) = Len(a) + Len(dims)
      /\ \A k \in 1 .. Len(a) : (a \o dims)[k] = a[k]
      /\ \A k \in 1 .. Len(dims) : (a \o dims)[Len(a) + k] = dims[k]
  BY <1>3, ConcatIsSeq
<1> QED
  BY <1>1, <1>2, <1>3, <1>4 DEF EndsWith

LEMMA EndsSuffix ==
  ASSUME NEW inner, IsSeq(inner), NEW n \in Nat, NEW dims, EndsWith(dims, n, inner)
  PROVE  SuffixOf(dims, n + 1) = inner
<1>1. PICK m, l : m = Len(inner) /\ l = Len(dims)
  OBVIOUS
<1>2. m \in Nat /\ IsSeq(dims) /\ l = n + m /\ \A k \in 1 .. m : dims[n + k] = inner[k]
  BY <1>1, IsSeqProperties DEF EndsWith
<1>3. PICK i : i = n + 1
  OBVIOUS
<1>4. i \in 1 .. l + 1 /\ l - i + 1 = m
  BY <1>2, <1>3
<1>5. PICK s : s = SuffixOf(dims, i)
  OBVIOUS
<1>6. IsSeq(s) /\ Len(s) = m /\ \A k \in 1 .. m : s[k] = dims[i + k - 1]
  <2>1. /\ IsSeq(SuffixOf(dims, i)) /\ Len(SuffixOf(dims, i)) = Len(dims) - i + 1
        /\ \A k \in 1 .. Len(dims) - i + 1 : SuffixOf(dims, i)[k] = dims[i + k - 1]
    <3>1. IsSeq(dims)
      BY <1>2
    <3>2. i \in 1 .. Len(dims) + 1
      BY <1>1, <1>4
    <3> QED
      BY <3>1, <3>2, SuffixProperties
  <2> QED
    BY <1>1, <1>4, <1>5, <2>1
<1>7. \A k \in 1 .. m : i + k - 1 = n + k
  BY <1>2, <1>3
<1>8. \A k \in 1 .. Len(s) : s[k] = inner[k]
  BY <1>2, <1>6, <1>7
<1>9. s = inner
  BY <1>1, <1>6, <1>8, SameSeq
<1> QED
  BY <1>3, <1>5, <1>9

LEMMA EndsItself ==
  ASSUME NEW inner, IsSeq(inner)
  PROVE  EndsWith(inner, 0, inner)
<1>1. Len(inner) \in Nat /\ \A k \in 1 .. Len(inner) : 0 + k = k
  BY IsSeqProperties
<1> QED
  BY <1>1 DEF EndsWith

\* The length that a table gives to a dimension of a pattern.
LengthOf(u, q) == IF q.kind = "sym" THEN u[q.name].value ELSE q.shape

\* After n others come the dimensions of the pattern p and then those of base.
Laid(u, p, base, n, dims) ==
  /\ IsSeq(dims) /\ Len(dims) = n + Len(p.dims) + Len(base)
  /\ \A k \in 1 .. Len(p.dims) :
       IF p.dims[k].kind = "array" THEN dims[n + k].kind = "array"
       ELSE dims[n + k].kind = "fixed" /\ dims[n + k].shape = LengthOf(u, p.dims[k])
  /\ \A k \in 1 .. Len(base) : dims[n + Len(p.dims) + k] = base[k]

LEMMA EndsLaid ==
  ASSUME NEW u, NEW p, IsSeq(p.dims), NEW base, IsSeq(base), NEW inner, Laid(u, p, base, 0, inner),
         NEW n \in Nat, NEW dims, EndsWith(dims, n, inner)
  PROVE  Laid(u, p, base, n, dims)
<1>1. PICK m, l : m = Len(p.dims) /\ l = Len(base)
  OBVIOUS
<1>2. m \in Nat /\ l \in Nat
  BY <1>1, IsSeqProperties
<1>3. /\ IsSeq(inner) /\ Len(inner) = 0 + m + l
      /\ \A k \in 1 .. m :
           IF p.dims[k].kind = "array" THEN inner[0 + k].kind = "array"
           ELSE inner[0 + k].kind = "fixed" /\ inner[0 + k].shape = LengthOf(u, p.dims[k])
      /\ \A k \in 1 .. l : inner[0 + m + k] = base[k]
  BY <1>1 DEF Laid
<1>4. IsSeq(dims) /\ Len(dims) = n + Len(inner) /\ \A k \in 1 .. Len(inner) : dims[n + k] = inner[k]
  BY DEF EndsWith
<1>5. Len(inner) = m + l /\ Len(dims) = n + m + l
  BY <1>2, <1>3, <1>4
<1>6. \A k \in 1 .. m : k \in 1 .. Len(inner) /\ 0 + k = k
  BY <1>2, <1>5
<1>7. \A k \in 1 .. m : dims[n + k] = inner[k]
  BY <1>4, <1>6
<1>8. \A k \in 1 .. l : m + k \in 1 .. Len(inner) /\ 0 + m + k = m + k /\ n + m + k = n + (m + k)
  BY <1>2, <1>5
<1>9. \A k \in 1 .. l : dims[n + m + k] = base[k]
  BY <1>3, <1>4, <1>8
<1>10. \A k \in 1 .. m :
         IF p.dims[k].kind = "array" THEN dims[n + k].kind = "array"
         ELSE dims[n + k].kind = "fixed" /\ dims[n + k].shape = LengthOf(u, p.dims[k])
  BY <1>3, <1>6, <1>7
<1> QED
  BY <1>1, <1>4, <1>5, <1>9, <1>10 DEF Laid

\* Fortran order keeps the lengths.
LEMMA FortranLaid ==
  ASSUME NEW u, NEW p, IsSeq(p.dims), NEW base, base = <<>>, NEW n \in Nat, NEW dims, Laid(u, p, base, n, dims),
         \A k \in 1 .. Len(dims) : dims[k].kind = "fixed"
  PROVE  Laid(u, p, base, n, ToFortran(dims))
<1>1. PICK m, f : m = Len(p.dims) /\ f = ToFortran(dims)
  OBVIOUS
<1>2. m \in Nat /\ IsSeq(base) /\ Len(base) = 0
  <2>1. <<>> \in Seq({})
    OBVIOUS
  <2>2. IsSeq(<<>>) /\ Len(<<>>) = 0
    BY <2>1, SeqIsSeq
  <2> QED
    BY <1>1, <2>2, IsSeqProperties
<1>3. /\ IsSeq(dims) /\ Len(dims) = n + m
      /\ \A k \in 1 .. m :
           IF p.dims[k].kind = "array" THEN dims[n + k].kind = "array"
           ELSE dims[n + k].kind = "fixed" /\ dims[n + k].shape = LengthOf(u, p.dims[k])
  BY <1>1, <1>2 DEF Laid
<1>4. IsSeq(f) /\ Len(f) = Len(dims) /\ \A k \in 1 .. Len(dims) : f[k].shape = dims[k].shape /\ f[k].kind = "fixed"
  BY <1>1, <1>3, FortranDims
<1>5. \A k \in 1 .. m : n + k \in 1 .. Len(dims)
  BY <1>2, <1>3
<1>6. \A k \in 1 .. m :
        IF p.dims[k].kind = "array" THEN f[n + k].kind = "array"
        ELSE f[n + k].kind = "fixed" /\ f[n + k].shape = LengthOf(u, p.dims[k])
  BY <1>3, <1>4, <1>5
<1>7. Len(f) = n + m + Len(base)
  BY <1>2, <1>3, <1>4
<1> QED
  BY <1>1, <1>2, <1>4, <1>6, <1>7 DEF Laid

\* A type whose dimensions are laid out like that is what p stands for, if
\* the dimensions have the order that p asks for.
LEMMA LaidFits ==
  ASSUME NEW u, NEW p, IsPattern(p), NEW base, IsSeq(base.dims), base = Type(base.dims, base.dtype),
         FitsDtype(u, p.dtype, base), NEW n \in Nat, NEW c, Laid(u, p, base.dims, n, c.dims), c.dtype = base.dtype,
         \A k \in 1 .. Len(p.dims) :
           /\ p.dims[k].kind \in {"fixed", "sym", "array"}
           /\ p.dims[k].kind = "sym" => IsLength(u, p.dims[k].name)
           /\ Ordered(p.dims[k].order, From(c, n + k))
  PROVE  Fits(u, p, From(c, n + 1))
<1>1. PICK m, l, d, b : m = Len(p.dims) /\ l = Len(base.dims) /\ d = From(c, n + 1) /\ b = base.dims
  OBVIOUS
<1>2. m \in Nat /\ l \in Nat
  BY <1>1, IsSeqProperties DEF IsPattern
<1>3. /\ IsSeq(c.dims) /\ Len(c.dims) = n + m + l
      /\ \A k \in 1 .. m :
           IF p.dims[k].kind = "array" THEN c.dims[n + k].kind = "array"
           ELSE c.dims[n + k].kind = "fixed" /\ c.dims[n + k].shape = LengthOf(u, p.dims[k])
      /\ \A k \in 1 .. l : c.dims[n + m + k] = b[k]
  BY <1>1 DEF Laid
<1>4. Len(d.dims) = m + l
  <2>1. n + 1 \in Nat /\ 1 <= n + 1 /\ n + 1 <= Len(c.dims) + 1 /\ Len(c.dims) - (n + 1) + 1 = m + l
    <3>1. PICK N \in Nat : N = Len(c.dims)
      BY <1>3, IsSeqProperties
    <3>2. N = n + m + l
      BY <1>3, <3>1
    <3>3. n + 1 \in Nat /\ 1 <= n + 1 /\ n + 1 <= N + 1 /\ N - (n + 1) + 1 = m + l
      BY <1>2, <3>2
    <3> QED
      BY <3>1, <3>3
  <2>2. Len(From(c, n + 1).dims) = Len(c.dims) - (n + 1) + 1
    BY <1>3, <2>1, FromProperties
  <2> QED
    BY <1>1, <2>1, <2>2
<1>5. ASSUME NEW k \in 1 .. m + 1
      PROVE  From(d, k) = From(c, n + k)
  <2>1. /\ n + 1 \in Nat /\ 1 <= n + 1 /\ n + 1 <= Len(c.dims) + 1
        /\ k \in Nat /\ 1 <= k /\ k <= Len(c.dims) - (n + 1) + 2 /\ (n + 1) + k - 1 = n + k
    BY <1>2, <1>3
  <2>2. From(From(c, n + 1), k) = From(c, (n + 1) + k - 1)
    BY <1>3, <2>1, FromFrom
  <2> QED
    BY <1>1, <2>1, <2>2
<1>6. ASSUME NEW k \in 1 .. m
      PROVE  FitsDim(u, p.dims[k], From(d, k))
  <2>1. PICK q, e : q = p.dims[k] /\ e = From(d, k)
    OBVIOUS
  <2>2. n + k \in Nat /\ 1 <= n + k /\ n + k <= Len(c.dims) /\ k \in 1 .. m + 1
    BY <1>2, <1>3
  <2>3. e = From(c, n + k)
    BY <1>5, <2>1, <2>2
  <2>4. e.dims[1] = c.dims[n + k]
    BY <1>3, <2>2, <2>3, FromFirst
  <2>5. /\ q.kind \in {"fixed", "sym", "array"} /\ (q.kind = "sym" => IsLength(u, q.name))
        /\ Ordered(q.order, e)
    BY <1>1, <2>1, <2>3
  <2>6. IF q.kind = "array" THEN e.dims[1].kind = "array"
        ELSE e.dims[1].kind = "fixed" /\ e.dims[1].shape = LengthOf(u, q)
    BY <1>3, <2>1, <2>4
  <2>7. CASE q.kind = "sym"
    BY <2>1, <2>5, <2>6, <2>7 DEF FitsDim, LengthOf, IsLength, Holds
  <2>8. CASE q.kind = "fixed"
    BY <2>1, <2>5, <2>6, <2>8 DEF FitsDim, LengthOf
  <2>9. CASE q.kind = "array"
    BY <2>1, <2>6, <2>9 DEF FitsDim
  <2> QED
    BY <2>5, <2>7, <2>8, <2>9
<1>7. From(d, m + 1) = base
  <2>1. PICK i : i = n + m + 1
    OBVIOUS
  <2>2. i \in Nat /\ 1 <= i /\ i <= Len(c.dims) + 1 /\ Len(c.dims) - i + 1 = l /\ \A k \in 1 .. l : i + k - 1 = n + m + k
    BY <1>2, <1>3, <2>1
  <2>3. PICK e : e = From(c, i)
    OBVIOUS
  <2>4. IsSeq(e.dims) /\ Len(e.dims) = l /\ (\A k \in 1 .. l : e.dims[k] = c.dims[i + k - 1]) /\ e.dtype = c.dtype
    <3>1. /\ IsSeq(From(c, i).dims) /\ Len(From(c, i).dims) = Len(c.dims) - i + 1
          /\ \A k \in 1 .. Len(c.dims) - i + 1 : From(c, i).dims[k] = c.dims[i + k - 1]
          /\ From(c, i).dtype = c.dtype
      BY <1>3, <2>2, FromProperties
    <3> QED
      BY <2>2, <2>3, <3>1
  <2>5. \A k \in 1 .. Len(e.dims) : e.dims[k] = b[k]
    BY <1>3, <2>2, <2>4
  <2>6. PICK v : v = e.dims
    OBVIOUS
  <2>7. v = b
    <3>1. IsSeq(v) /\ IsSeq(b) /\ Len(v) = Len(b) /\ \A k \in 1 .. Len(v) : v[k] = b[k]
      BY <1>1, <2>4, <2>5, <2>6
    <3> QED
      BY <3>1, SameSeq
  <2>8. e = Type(v, base.dtype)
    BY <2>3, <2>4, <2>6 DEF From, Type
  <2>9. From(d, m + 1) = e
    <3>1. m + 1 \in 1 .. m + 1 /\ n + (m + 1) = i
      BY <1>2, <2>1
    <3> QED
      BY <1>5, <2>3, <3>1
  <2> QED
    BY <1>1, <2>7, <2>8, <2>9
<1>8. FitsDtype(u, p.dtype, From(d, m + 1))
  BY <1>7
<1>9. m <= Len(d.dims)
  BY <1>2, <1>4
<1> QED
  BY <1>1, <1>6, <1>8, <1>9 DEF Fits

\* lengths are those that the table u gives to the dimensions of p.
LengthsOf(u, p, lengths) ==
  /\ IsSeq(lengths) /\ Len(lengths) = Len(p.dims)
  /\ \A k \in 1 .. Len(p.dims) : lengths[k] = LengthOf(u, p.dims[k])

LEMMA PlainInner ==
  ASSUME NEW u, NEW p, IsSeq(p.dims), NEW lengths, LengthsOf(u, p, lengths), NEW base, IsSeq(base),
         \A k \in 1 .. Len(p.dims) : p.dims[k].kind # "array"
  PROVE  Laid(u, p, base, 0, AddDims(lengths, base))
<1>1. PICK m, l, b : m = Len(p.dims) /\ l = Len(base) /\ b = AddDims(lengths, base)
  OBVIOUS
<1>2. m \in Nat /\ l \in Nat
  BY <1>1, IsSeqProperties
<1>3. IsSeq(lengths) /\ Len(lengths) = m /\ \A k \in 1 .. m : lengths[k] = LengthOf(u, p.dims[k])
  BY <1>1 DEF LengthsOf
<1>4. /\ IsSeq(b) /\ Len(b) = m + l
      /\ \A k \in 1 .. m : b[k].shape = lengths[k] /\ b[k].kind = "fixed"
      /\ \A k \in 1 .. l : b[m + k] = base[k]
  <2>1. IsSeq(lengths)
    BY <1>3
  <2>2. /\ IsSeq(AddDims(lengths, base)) /\ Len(AddDims(lengths, base)) = Len(lengths) + Len(base)
        /\ \A k \in 1 .. Len(lengths) :
             AddDims(lengths, base)[k].shape = lengths[k] /\ AddDims(lengths, base)[k].kind = "fixed"
        /\ \A k \in 1 .. Len(base) : AddDims(lengths, base)[Len(lengths) + k] = base[k]
    BY <2>1, AddDimsProperties
  <2> QED
    BY <1>1, <1>3, <2>2
<1>5. (\A k \in 1 .. m : 0 + k = k) /\ 0 + m + l = m + l /\ \A k \in 1 .. l : 0 + m + k = m + k
  BY <1>2
<1>6. \A k \in 1 .. m : b[0 + k].kind = "fixed" /\ b[0 + k].shape = LengthOf(u, p.dims[k])
  BY <1>3, <1>4, <1>5
<1>7. \A k \in 1 .. l : b[0 + m + k] = base[k]
  BY <1>4, <1>5
<1>8. Len(b) = 0 + m + l
  BY <1>4, <1>5
<1> QED
  BY <1>1, <1>4, <1>6, <1>7, <1>8 DEF Laid

LEMMA ArrayInner ==
  ASSUME NEW u, NEW p, IsSeq(p.dims), NEW base, IsSeq(base),
         \A k \in 1 .. Len(p.dims) : p.dims[k].kind = "array"
  PROVE  Laid(u, p, base, 0, ArrayDims(Len(p.dims)) \o base)
<1>1. PICK m, l, b : m = Len(p.dims) /\ l = Len(base) /\ b = ArrayDims(Len(p.dims)) \o base
  OBVIOUS
<1>2. m \in Nat /\ l \in Nat
  BY <1>1, IsSeqProperties
<1>3. EndsWith(b, m, base) /\ \A k \in 1 .. m : b[k].kind = "array"
  <2>1. EndsWith(ArrayDims(m) \o base, m, base) /\ \A k \in 1 .. m : (ArrayDims(m) \o base)[k].kind = "array"
    BY <1>2, ArraysEnd
  <2> QED
    BY <1>1, <2>1
<1>4. IsSeq(b) /\ Len(b) = m + l /\ \A k \in 1 .. l : b[m + k] = base[k]
  BY <1>1, <1>3 DEF EndsWith
<1>5. (\A k \in 1 .. m : 0 + k = k) /\ 0 + m + l = m + l /\ \A k \in 1 .. l : 0 + m + k = m + k
  BY <1>2
<1>6. \A k \in 1 .. m : b[0 + k].kind = "array"
  BY <1>3, <1>5
<1>7. \A k \in 1 .. l : b[0 + m + k] = base[k]
  BY <1>4, <1>5
<1>8. Len(b) = 0 + m + l
  BY <1>4, <1>5
<1> QED
  BY <1>1, <1>4, <1>6, <1>7, <1>8 DEF Laid

\* Dimensions of which those from first on have Fortran steps.
FortranTail(lengths, first) == ToFortran(AddDims(SubSeq(lengths, first, Len(lengths)), <<>>))

LEMMA FortranInner ==
  ASSUME NEW u, NEW p, IsSeq(p.dims), NEW lengths, LengthsOf(u, p, lengths), NEW first \in 1 .. Len(lengths),
         \A k \in 1 .. Len(lengths) : lengths[k] \in Nat,
         \A k \in 1 .. Len(p.dims) : p.dims[k].kind # "array"
  PROVE  LET tail == FortranTail(lengths, first)
             dims == AddDims(SubSeq(lengths, 1, first - 1), tail)
         IN /\ Laid(u, p, <<>>, 0, dims) /\ Packed(dims)
            /\ SuffixOf(dims, first) = tail /\ Packed(tail) /\ IsFContiguous(tail)
<1>1. PICK n : n = Len(lengths)
  OBVIOUS
<1>2. n \in Nat /\ first \in 1 .. n /\ IsSeq(lengths) /\ n = Len(p.dims)
      /\ \A k \in 1 .. n : lengths[k] = LengthOf(u, p.dims[k])
  <2>1. IsSeq(lengths)
    BY DEF LengthsOf
  <2> QED
    BY <1>1, <2>1, IsSeqProperties DEF LengthsOf
<1>3. PICK v, w, none : v = SubSeq(lengths, 1, first - 1) /\ w = SubSeq(lengths, first, n) /\ none = <<>>
  OBVIOUS
<1>4. /\ IsSeq(v) /\ Len(v) = first - 1 /\ \A k \in 1 .. first - 1 : v[k] = lengths[k]
  <2>1. /\ IsSeq(v) /\ Len(v) = (first - 1) - 1 + 1
        /\ \A k \in 1 .. (first - 1) - 1 + 1 : v[k] = lengths[1 + k - 1]
    <3>1. 1 \in Int /\ first - 1 \in Int /\ 1 <= 1 /\ first - 1 <= Len(lengths) /\ 1 <= (first - 1) + 1
      BY <1>1, <1>2
    <3> QED
      BY <1>2, <1>3, <3>1, SubSeqIsSeq
  <2>2. (first - 1) - 1 + 1 = first - 1 /\ \A k \in 1 .. first - 1 : 1 + k - 1 = k
    BY <1>2
  <2> QED
    BY <2>1, <2>2
<1>5. /\ IsSeq(w) /\ Len(w) = n - first + 1
      /\ \A k \in 1 .. n - first + 1 : w[k] = lengths[first + k - 1]
  <2>1. first \in Int /\ n \in Int /\ 1 <= first /\ n <= Len(lengths) /\ first <= n + 1
    BY <1>1, <1>2
  <2> QED
    BY <1>2, <1>3, <2>1, SubSeqIsSeq
<1>6. AreLengths(v)
  <2>1. \A k \in 1 .. first - 1 : k \in 1 .. n
    BY <1>2
  <2> QED
    BY <1>1, <1>4, <2>1 DEF AreLengths
<1>7. AreLengths(w)
  <2>1. \A k \in 1 .. n - first + 1 : first + k - 1 \in 1 .. n
    BY <1>2
  <2> QED
    BY <1>1, <1>5, <2>1 DEF AreLengths
<1>8. IsSeq(none) /\ Len(none) = 0
  <2>1. <<>> \in Seq({})
    OBVIOUS
  <2> QED
    BY <1>3, <2>1, SeqIsSeq
<1>9. PICK c, f, d : c = AddDims(w, none) /\ f = ToFortran(c) /\ d = AddDims(v, f)
  OBVIOUS
<1>10. /\ IsSeq(c) /\ Len(c) = n - first + 1
       /\ \A k \in 1 .. n - first + 1 : c[k].shape = w[k]
  <2>1. /\ IsSeq(AddDims(w, none)) /\ Len(AddDims(w, none)) = Len(w) + Len(none)
        /\ \A k \in 1 .. Len(w) : AddDims(w, none)[k].shape = w[k]
    BY <1>5, <1>8, AddDimsProperties
  <2>2. Len(w) + Len(none) = n - first + 1
    BY <1>2, <1>5, <1>8
  <2> QED
    BY <1>5, <1>9, <2>1, <2>2
<1>11. /\ IsSeq(f) /\ Len(f) = n - first + 1
       /\ \A k \in 1 .. n - first + 1 : f[k].shape = w[k] /\ f[k].kind = "fixed"
  <2>1. /\ IsSeq(ToFortran(c)) /\ Len(ToFortran(c)) = Len(c)
        /\ \A k \in 1 .. Len(c) : ToFortran(c)[k].shape = c[k].shape /\ ToFortran(c)[k].kind = "fixed"
    BY <1>10, FortranDims
  <2> QED
    BY <1>9, <1>10, <2>1
<1>12. Packed(f) /\ IsFContiguous(f)
  <2>1. \A k \in 1 .. Len(c) : c[k].shape \in Nat
    BY <1>5, <1>7, <1>10 DEF AreLengths
  <2> QED
    BY <1>9, <1>10, <2>1, FortranPacked
<1>13. Packed(d)
  BY <1>6, <1>9, <1>12, AddedPacked
<1>14. /\ IsSeq(d) /\ Len(d) = n
       /\ \A k \in 1 .. first - 1 : d[k].shape = v[k] /\ d[k].kind = "fixed"
       /\ \A k \in 1 .. n - first + 1 : d[first - 1 + k] = f[k]
       /\ EndsWith(d, first - 1, f)
  <2>1. /\ IsSeq(AddDims(v, f)) /\ Len(AddDims(v, f)) = Len(v) + Len(f)
        /\ \A k \in 1 .. Len(v) : AddDims(v, f)[k].shape = v[k] /\ AddDims(v, f)[k].kind = "fixed"
        /\ \A k \in 1 .. Len(f) : AddDims(v, f)[Len(v) + k] = f[k]
        /\ EndsWith(AddDims(v, f), Len(v), f)
    <3>1. IsSeq(v) /\ IsSeq(f)
      BY <1>4, <1>11
    <3>2. EndsWith(AddDims(v, f), Len(v), f)
      BY <3>1, AddedEnds
    <3>3. /\ IsSeq(AddDims(v, f)) /\ Len(AddDims(v, f)) = Len(v) + Len(f)
          /\ \A k \in 1 .. Len(v) : AddDims(v, f)[k].shape = v[k] /\ AddDims(v, f)[k].kind = "fixed"
          /\ \A k \in 1 .. Len(f) : AddDims(v, f)[Len(v) + k] = f[k]
      BY <3>1, AddDimsProperties
    <3> QED
      BY <3>2, <3>3
  <2>2. (first - 1) + (n - first + 1) = n
    BY <1>2
  <2> QED
    BY <1>4, <1>9, <1>11, <2>1, <2>2
<1>15. ASSUME NEW k \in 1 .. n
       PROVE  d[0 + k].kind = "fixed" /\ d[0 + k].shape = LengthOf(u, p.dims[k])
  <2>1. 0 + k = k /\ k \in Nat
    BY <1>2
  <2>2. CASE k <= first - 1
    BY <1>2, <1>4, <1>14, <2>1, <2>2
  <2>3. CASE ~(k <= first - 1)
    <3>1. PICK i \in 1 .. n - first + 1 : i = k - (first - 1) /\ first - 1 + i = k /\ first + i - 1 = k
      BY <1>2, <2>1, <2>3
    <3>2. d[k] = f[i] /\ f[i].shape = w[i] /\ f[i].kind = "fixed" /\ w[i] = lengths[k]
      BY <1>5, <1>11, <1>14, <3>1
    <3> QED
      BY <1>2, <2>1, <3>2
  <2> QED
    BY <2>2, <2>3
<1>16. Laid(u, p, none, 0, d)
  <2>1. Len(d) = 0 + Len(p.dims) + Len(none)
    BY <1>2, <1>8, <1>14
  <2>2. \A k \in 1 .. Len(none) : d[0 + Len(p.dims) + k] = none[k]
    BY <1>8
  <2>3. \A k \in 1 .. Len(p.dims) : d[0 + k].kind = "fixed" /\ d[0 + k].shape = LengthOf(u, p.dims[k])
    BY <1>2, <1>15
  <2> QED
    BY <1>14, <2>1, <2>2, <2>3 DEF Laid
<1>17. SuffixOf(d, first) = f
  <2>1. first - 1 \in Nat /\ (first - 1) + 1 = first
    BY <1>2
  <2>2. SuffixOf(d, (first - 1) + 1) = f
    BY <1>11, <1>14, <2>1, EndsSuffix
  <2> QED
    BY <2>1, <2>2
<1>18. f = FortranTail(lengths, first) /\ d = AddDims(SubSeq(lengths, 1, first - 1), FortranTail(lengths, first))
  BY <1>1, <1>3, <1>9 DEF FortranTail
<1> QED
  BY <1>3, <1>12, <1>13, <1>16, <1>17, <1>18

\* The dimensions of a pattern are array dimensions, or none of them is.
PlainPattern(p) == \A k \in 1 .. Len(p.dims) : p.dims[k].kind # "array"

LEMMA PatternsAreUniform ==
  ASSUME Matched, NEW j \in 1 .. Len(sig.types)
  PROVE  \/ PlainPattern(sig.types[j])
         \/ \A k \in 1 .. Len(sig.types[j].dims) : sig.types[j].dims[k].kind = "array"
<1>1. PICK s, p : s = sig /\ p = sig.types[j]
  OBVIOUS
<1>2. SignatureOK(s) /\ IsSeq(s.types) /\ IsSeq(p.dims)
  BY <1>1, ArityProperties, OutputPatterns DEF Matched, CallInv
<1>3. j \in DOMAIN s.types /\ DOMAIN p.dims = 1 .. Len(p.dims)
  BY <1>1, <1>2, IsSeqProperties
<1>4. \/ \A k \in DOMAIN p.dims : p.dims[k].kind # "array"
      \/ \A k \in DOMAIN p.dims : p.dims[k].kind = "array"
  <2>1. \A i \in DOMAIN s.types :
          \/ \A k \in DOMAIN s.types[i].dims : s.types[i].dims[k].kind # "array"
          \/ \A k \in DOMAIN s.types[i].dims : s.types[i].dims[k].kind = "array"
    BY <1>2, Zenon DEF SignatureOK
  <2>2. p = s.types[j]
    BY <1>1
  <2> QED
    BY <1>3, <2>1, <2>2, Zenon
<1> QED
  BY <1>1, <1>3, <1>4 DEF PlainPattern

\* The steps of what is below an output are those of a contiguous array,
\* unless the output brings others.
LEMMA BaseInOrder ==
  ASSUME NEW p, AreConcrete(Base(p).dims), IsArray(Base(p)), ~BringsSteps(p)
  PROVE  InOrder(Base(p).dims)
<1>1. PICK b : b = Base(p).dims
  OBVIOUS
<1>2. IsSeq(b) /\ DOMAIN b = 1 .. Len(b)
  BY <1>1, IsSeqProperties DEF AreConcrete, AreDims
<1>3. IsCContiguous(b) /\ \A k \in 1 .. Len(b) : b[k].kind = "fixed"
  BY <1>1, <1>2 DEF BringsSteps, IsArray
<1>4. AreFixed(b)
  BY <1>1, <1>2, <1>3 DEF AreFixed, AreConcrete, AreDims
<1> QED
  BY <1>1, <1>3, <1>4 DEF InOrder

\* The lengths of the dimensions of an output.
LEMMA OutputLengths ==
  ASSUME Inferring, NEW j \in 1 .. Len(sig.types)
  PROVE  \A k \in 1 .. Len(sig.types[j].dims) :
           LET q == sig.types[j].dims[k]
           IN /\ q.kind \in {"fixed", "sym", "array"}
              /\ q.kind = "sym" => IsLength(tbl, q.name)
              /\ q.kind # "array" => LengthOf(tbl, q) \in Nat
<1>1. ASSUME NEW k \in 1 .. Len(sig.types[j].dims)
      PROVE  LET q == sig.types[j].dims[k]
             IN /\ q.kind \in {"fixed", "sym", "array"}
                /\ q.kind = "sym" => IsLength(tbl, q.name)
                /\ q.kind # "array" => LengthOf(tbl, q) \in Nat
  <2>1. PICK q : q = sig.types[j].dims[k]
    OBVIOUS
  <2>2. \/ q.kind = "fixed" /\ q.shape \in Nat
        \/ q.kind = "sym" /\ q.name \in AllDimNames(sig)
        \/ q.kind = "array"
    BY <2>1, OutputPatterns DEF Inferring
  <2>3. CASE q.kind = "sym"
    <3>1. PICK key : key = q.name
      OBVIOUS
    <3>2. key \in AllDimNames(sig)
      BY <2>2, <2>3, <3>1
    <3>3. IsLength(tbl, key)
      BY <3>2, SymbolLengths
    <3>4. LengthOf(tbl, q) \in Nat
      BY <2>3, <3>1, <3>3 DEF LengthOf, IsLength
    <3> QED
      BY <2>1, <2>3, <3>1, <3>3, <3>4
  <2>4. CASE q.kind # "sym"
    BY <2>1, <2>2, <2>4 DEF LengthOf
  <2> QED
    BY <2>3, <2>4
<1> QED
  BY <1>1

\* What SubstituteInner puts together.
LEMMA InnerLaid ==
  ASSUME Inferring, NEW j \in 1 .. Len(sig.types), sig.types[j].dtype.kind # "any"
  PROVE  LET p == sig.types[j]
             inner == SubstituteInner(p).dims
         IN /\ Laid(tbl, p, Base(p).dims, 0, inner)
            /\ (\A k \in 1 .. Len(inner) : inner[k].kind = "fixed") /\ ~BringsSteps(p) => Packed(inner)
            /\ PlainPattern(p) /\ FortranFrom(p) = {} /\ IsArray(Base(p)) /\ ~BringsSteps(p) => InOrder(inner)
            /\ \A i : FortranFrom(p) = {i} => Packed(SuffixOf(inner, i)) /\ IsFContiguous(SuffixOf(inner, i))
<1>1. PICK p, b, n, inner : p = sig.types[j] /\ b = Base(p).dims /\ n = Len(p.dims) /\ inner = SubstituteInner(p).dims
  OBVIOUS
<1>2. IsSeq(p.dims) /\ n \in Nat /\ DOMAIN p.dims = 1 .. n
  BY <1>1, OutputPatterns, IsSeqProperties DEF Inferring
<1>3. AreConcrete(b) /\ IsSeq(b) /\ (p.dtype.kind # "typevar" => b = <<>>)
  BY <1>1, BaseFits DEF AreConcrete, AreDims
<1>4. \A k \in 1 .. n : p.dims[k].kind # "array" => LengthOf(tbl, p.dims[k]) \in Nat
  BY <1>1, OutputLengths
<1>5. PICK ls : ls = [k \in 1 .. n |-> IF p.dims[k].kind = "sym" THEN tbl[p.dims[k].name].value ELSE p.dims[k].shape]
  OBVIOUS
<1>6. LengthsOf(tbl, p, ls) /\ Len(ls) = n
  <2>1. ls = [k \in 1 .. n |-> ls[k]]
    BY <1>5
  <2>2. IsSeq(ls) /\ Len(ls) = n
    BY <1>2, <2>1, FunctionIsSeq, Zenon
  <2>3. \A k \in 1 .. n : ls[k] = LengthOf(tbl, p.dims[k])
    BY <1>5 DEF LengthOf
  <2> QED
    BY <1>1, <2>2, <2>3 DEF LengthsOf
<1>7. PICK first : first = CHOOSE i \in FortranFrom(p) : TRUE
  OBVIOUS
<1>8. inner = IF \E k \in 1 .. n : p.dims[k].kind = "array" THEN ArrayDims(n) \o b
              ELSE IF FortranFrom(p) = {} THEN AddDims(ls, b)
              ELSE AddDims(SubSeq(ls, 1, first - 1), FortranTail(ls, first))
  <2>1. ls = [k \in DOMAIN p.dims |->
                IF p.dims[k].kind = "sym" THEN tbl[p.dims[k].name].value ELSE p.dims[k].shape]
    BY <1>2, <1>5
  <2>2. SubstituteInner(p).dims =
          IF \E k \in DOMAIN p.dims : p.dims[k].kind = "array" THEN ArrayDims(Len(p.dims)) \o Base(p).dims
          ELSE IF FortranFrom(p) = {} THEN AddDims(ls, Base(p).dims)
          ELSE AddDims(SubSeq(ls, 1, first - 1),
                       ToFortran(AddDims(SubSeq(ls, first, Len(ls)), <<>>)))
    BY <1>7, <2>1, SubstitutedDims
  <2> QED
    BY <1>1, <1>2, <2>2 DEF FortranTail
<1>9. PlainPattern(p) \/ \A k \in 1 .. n : p.dims[k].kind = "array"
  BY <1>1, PatternsAreUniform DEF Inferring
<1>10. ASSUME NEW i \in FortranFrom(p)
       PROVE  i \in 1 .. n /\ PlainPattern(p) /\ b = <<>>
  <2>1. i \in 1 .. n /\ p.dtype.kind = "scalar" /\ i \in Remaining(p, i)
    BY <1>1, <1>2 DEF FortranFrom, Remaining
  <2>2. p.dims[i].kind = "fixed"
    BY <2>1 DEF FortranFrom
  <2> QED
    BY <1>3, <1>9, <2>1, <2>2
<1>11. PlainPattern(p) => \A k \in 1 .. Len(ls) : ls[k] \in Nat
  <2>1. \A k \in 1 .. n : ls[k] = LengthOf(tbl, p.dims[k])
    BY <1>1, <1>6 DEF LengthsOf
  <2> QED
    BY <1>1, <1>4, <1>6, <2>1 DEF PlainPattern
<1>12. CASE ~PlainPattern(p)
  <2>1. inner = ArrayDims(n) \o b /\ \A k \in 1 .. n : p.dims[k].kind = "array"
    BY <1>1, <1>8, <1>9, <1>12 DEF PlainPattern
  <2>2. Laid(tbl, p, b, 0, inner)
    BY <1>1, <1>2, <1>3, <2>1, ArrayInner
  <2>3. FortranFrom(p) = {}
    BY <1>10, <1>12
  <2>4. \E k \in 1 .. Len(inner) : inner[k].kind # "fixed"
    <3>1. n # 0
      BY <1>1, <1>2, <1>12 DEF PlainPattern
    <3>2. 1 \in 1 .. n /\ 0 + 1 = 1
      BY <1>2, <3>1
    <3>3. inner[1].kind = "array"
      <4>1. \A k \in 1 .. n : p.dims[k].kind = "array" => inner[0 + k].kind = "array"
        BY <1>1, <2>2 DEF Laid
      <4>2. inner[0 + 1].kind = "array"
        BY <2>1, <3>2, <4>1
      <4> QED
        BY <3>2, <4>2
    <3>4. Len(inner) = 0 + n + Len(b) /\ Len(b) \in Nat
      BY <1>1, <1>3, <2>2, IsSeqProperties DEF Laid
    <3>5. 1 \in 1 .. Len(inner)
      BY <1>2, <3>2, <3>4
    <3> QED
      BY <3>3, <3>5
  <2> QED
    BY <1>1, <1>12, <2>2, <2>3, <2>4, SMTT(30)
<1>13. CASE PlainPattern(p) /\ FortranFrom(p) = {}
  <2>1. inner = AddDims(ls, b)
    BY <1>1, <1>8, <1>13 DEF PlainPattern
  <2>2. Laid(tbl, p, b, 0, inner)
    BY <1>1, <1>2, <1>3, <1>6, <1>13, <2>1, PlainInner DEF PlainPattern
  <2>3. AreLengths(ls)
    BY <1>6, <1>11, <1>13 DEF AreLengths, LengthsOf
  <2>4. ASSUME IsArray(Base(p)), ~BringsSteps(p)
        PROVE  InOrder(inner) /\ Packed(inner)
    <3>1. InOrder(b)
      BY <1>1, <1>3, <2>4, BaseInOrder
    <3> QED
      BY <2>1, <2>3, <3>1, AddedPacked, InOrderPacked
  <2>5. ASSUME \A k \in 1 .. Len(inner) : inner[k].kind = "fixed"
        PROVE  IsArray(Base(p))
    <3>1. Len(b) \in Nat /\ Len(inner) = 0 + n + Len(b) /\ \A k \in 1 .. Len(b) : inner[0 + n + k] = b[k]
      BY <1>1, <1>3, <2>2, IsSeqProperties DEF Laid
    <3>2. \A k \in 1 .. Len(b) : 0 + n + k \in 1 .. Len(inner)
      BY <1>2, <3>1
    <3>3. DOMAIN b = 1 .. Len(b)
      BY <1>3, IsSeqProperties
    <3>4. \A k \in DOMAIN b : b[k].kind = "fixed"
      BY <2>5, <3>1, <3>2, <3>3
    <3> QED
      BY <1>1, <3>4 DEF IsArray
  <2> QED
    BY <1>1, <1>13, <2>2, <2>4, <2>5
<1>14. CASE PlainPattern(p) /\ FortranFrom(p) # {}
  <2>1. inner = AddDims(SubSeq(ls, 1, first - 1), FortranTail(ls, first))
    BY <1>1, <1>8, <1>14 DEF PlainPattern
  <2>2. first \in FortranFrom(p)
    BY <1>7, <1>14
  <2>3. first \in 1 .. Len(ls) /\ b = <<>>
    BY <1>6, <1>10, <2>2
  <2>4. PICK tail : tail = FortranTail(ls, first)
    OBVIOUS
  <2>5. /\ Laid(tbl, p, <<>>, 0, inner) /\ Packed(inner)
        /\ SuffixOf(inner, first) = tail /\ Packed(tail) /\ IsFContiguous(tail)
    <3>1. \A k \in 1 .. Len(p.dims) : p.dims[k].kind # "array"
      BY <1>14 DEF PlainPattern
    <3>2. \A k \in 1 .. Len(ls) : ls[k] \in Nat
      BY <1>11, <1>14
    <3>3. LET t == FortranTail(ls, first)
              dims == AddDims(SubSeq(ls, 1, first - 1), t)
          IN /\ Laid(tbl, p, <<>>, 0, dims) /\ Packed(dims)
             /\ SuffixOf(dims, first) = t /\ Packed(t) /\ IsFContiguous(t)
      BY <1>2, <1>6, <2>3, <3>1, <3>2, FortranInner
    <3> QED
      BY <2>1, <2>4, <3>3
  <2>6. ASSUME NEW i, FortranFrom(p) = {i}
        PROVE  Packed(SuffixOf(inner, i)) /\ IsFContiguous(SuffixOf(inner, i))
    <3>1. i = first
      BY <2>2, <2>6
    <3> QED
      BY <2>5, <3>1
  <2> QED
    BY <1>1, <1>14, <2>3, <2>5, <2>6
<1> QED
  BY <1>12, <1>13, <1>14

\* What is known of a named ellipsis when all arguments are matched.
LEMMA EllipsisLengths ==
  ASSUME Inferring, Ellipsis # "none", NEW ell, ell = Ellipsis
  PROVE  /\ ell = "array" => \E n \in Nat : Holds(tbl, ell, "ArraySeq", n)
         /\ ell \notin {"...", "array"} => \E w : AreLengths(w) /\ Holds(tbl, ell, "FixedSeq", w)
         /\ ell = "..." => AreLengths(tbl[ell].value)
<1>1. CASE ell = "..."
  BY <1>1, SharedShape DEF Inferring, AreLengths
<1>2. CASE ell # "..."
  <2>1. sig.nin # 0
    <3>1. PICK s : s = sig
      OBVIOUS
    <3>2. SignatureOK(s) /\ IsSeq(s.types)
      BY <3>1, ArityProperties DEF Inferring, Matched, CallInv
    <3>3. s.types # <<>> /\ s.types[1].ell # "none"
      BY <3>1 DEF Ellipsis
    <3>4. 1 \in DOMAIN s.types
      <4>1. Len(s.types) \in Nat /\ Len(s.types) # 0 /\ DOMAIN s.types = 1 .. Len(s.types)
        BY <3>2, <3>3, IsSeqProperties
      <4> QED
        BY <4>1
    <3>5. s.nin = 0 => \A i \in DOMAIN s.types : s.types[i].ell = "none"
      BY <3>2, Zenon DEF SignatureOK
    <3> QED
      BY <3>1, <3>3, <3>4, <3>5
  <2>2. 1 \in 1 .. Len(Args)
    BY <2>1, ArityProperties DEF Inferring, Matched
  <2>3. PICK q, c, t : q = sig.types[1] /\ c = Args[1] /\ t = tbl
    OBVIOUS
  <2>4. ArgFits(t, q, c) /\ IsTypePattern(q) /\ q.ell = ell /\ IsType(c) /\ ell # "var"
    BY <2>2, <2>3, MatchedAll DEF Inferring, Matched
  <2>5. IsSeq(q.dims) /\ IsSeq(c.dims) /\ CanTake(q, c)
    BY <2>4 DEF IsTypePattern, IsPattern, IsType, ArgFits
  <2>6. CASE ell = "array"
    <3>1. Taken(q, c) >= 0
      BY <2>5 DEF CanTake
    <3>2. Taken(q, c) \in Nat
      BY <2>5, <3>1, OuterOfProperties
    <3>3. Holds(t, "array", "ArraySeq", Taken(q, c))
      BY <2>4, <2>6 DEF ArgFits
    <3> QED
      BY <1>2, <2>3, <2>6, <3>2, <3>3
  <2>7. CASE ell # "array"
    <3>1. PICK w : w = OuterOf(q, c)
      OBVIOUS
    <3>2. IsSeq(w) /\ \A k \in 1 .. Len(w) : w[k] \in Nat
      BY <2>4, <2>5, <2>7, <3>1, OuterOfArg
    <3>3. Holds(t, ell, "FixedSeq", w)
      BY <1>2, <2>4, <2>7, <3>1 DEF ArgFits
    <3>4. AreLengths(w)
      BY <3>2 DEF AreLengths
    <3> QED
      BY <1>2, <2>3, <2>7, <3>3, <3>4
  <2> QED
    BY <2>6, <2>7
<1> QED
  BY <1>1, <1>2

\* The type that is inferred for an output, with all its dimensions.
Inferred(p) ==
  LET u == SubstituteInner(p) IN
  CASE p.ell = "none" -> u
    [] p.ell = "array" -> Type(ArrayDims(tbl["array"].value) \o u.dims, u.dtype)
    [] OTHER -> Type(AddDims(tbl[p.ell].value, u.dims), u.dtype)

\* The n dimensions that an ellipsis puts around those of inner.
Around(u, p, n, inner, dims) ==
  /\ n \in Nat /\ EndsWith(dims, n, inner)
  /\ p.ell = "none" => n = 0 /\ dims = inner
  /\ p.ell = "array" => Holds(u, "array", "ArraySeq", n) /\ dims = ArrayDims(n) \o inner
  /\ p.ell \notin {"none", "array"} =>
       \E w : /\ AreLengths(w) /\ Len(w) = n /\ dims = AddDims(w, inner)
              /\ p.ell # "..." => Holds(u, p.ell, "FixedSeq", w)

LEMMA OuterLaid ==
  ASSUME Inferring, NEW j \in 1 .. Len(sig.types)
  PROVE  LET p == sig.types[j]
             c == Inferred(p)
         IN /\ \E n : Around(tbl, p, n, SubstituteInner(p).dims, c.dims)
            /\ c.dtype = Base(p).dtype /\ c = Type(c.dims, c.dtype) /\ AreDims(c.dims)
<1>1. PICK p, c, inner : p = sig.types[j] /\ c = Inferred(p) /\ inner = SubstituteInner(p).dims
  OBVIOUS
<1>2. p.ell = Ellipsis /\ Ellipsis # "var" /\ AreDims(inner) /\ IsSeq(inner)
  BY <1>1, OutputPatterns, InnerDims, ZenonT(40) DEF Inferring, Matched, AreDims
<1>3. SubstituteInner(p) = Type(inner, Base(p).dtype)
  BY <1>1 DEF SubstituteInner, Type
<1>4. PICK ell : ell = p.ell
  OBVIOUS
<1>5. CASE ell = "none"
  <2>1. c = Type(inner, Base(p).dtype)
    BY <1>1, <1>3, <1>4, <1>5 DEF Inferred
  <2>2. c.dims = inner /\ c.dtype = Base(p).dtype
    BY <2>1 DEF Type
  <2>3. Around(tbl, p, 0, inner, c.dims)
    BY <1>2, <1>4, <1>5, <2>2, EndsItself DEF Around
  <2> QED
    BY <1>1, <1>2, <2>1, <2>2, <2>3
<1>6. CASE ell = "array"
  <2>1. PICK n \in Nat : Holds(tbl, ell, "ArraySeq", n)
    BY <1>2, <1>4, <1>6, EllipsisLengths
  <2>2. tbl["array"].value = n
    BY <1>6, <2>1 DEF Holds
  <2>3. c = Type(ArrayDims(n) \o inner, Base(p).dtype)
    <3>1. c = Type(ArrayDims(tbl["array"].value) \o SubstituteInner(p).dims, SubstituteInner(p).dtype)
      BY <1>1, <1>4, <1>6 DEF Inferred
    <3>2. SubstituteInner(p).dims = inner /\ SubstituteInner(p).dtype = Base(p).dtype
      BY <1>3 DEF Type
    <3> QED
      BY <2>2, <3>1, <3>2
  <2>4. c.dims = ArrayDims(n) \o inner /\ c.dtype = Base(p).dtype
    BY <2>3 DEF Type
  <2>5. EndsWith(c.dims, n, inner) /\ AreDims(c.dims)
    BY <1>2, <2>4, ArraysEnd, AddedArrayDims
  <2>6. Around(tbl, p, n, inner, c.dims)
    BY <1>4, <1>6, <2>1, <2>4, <2>5 DEF Around
  <2> QED
    BY <1>1, <2>3, <2>4, <2>5, <2>6
<1>7. CASE ell \notin {"none", "array"}
  <2>1. PICK w : AreLengths(w) /\ w = tbl[ell].value /\ (ell # "..." => Holds(tbl, ell, "FixedSeq", w))
    <3>1. CASE ell = "..."
      BY <1>2, <1>4, <1>7, <3>1, EllipsisLengths
    <3>2. CASE ell # "..."
      <4>1. PICK w : AreLengths(w) /\ Holds(tbl, ell, "FixedSeq", w)
        BY <1>2, <1>4, <1>7, <3>2, EllipsisLengths
      <4>2. w = tbl[ell].value
        BY <4>1 DEF Holds
      <4> QED
        BY <4>1, <4>2
    <3> QED
      BY <3>1, <3>2
  <2>2. c = Type(AddDims(w, inner), Base(p).dtype)
    <3>1. c = Type(AddDims(tbl[ell].value, SubstituteInner(p).dims), SubstituteInner(p).dtype)
      BY <1>1, <1>4, <1>7 DEF Inferred
    <3>2. SubstituteInner(p).dims = inner /\ SubstituteInner(p).dtype = Base(p).dtype
      BY <1>3 DEF Type
    <3> QED
      BY <2>1, <3>1, <3>2
  <2>3. c.dims = AddDims(w, inner) /\ c.dtype = Base(p).dtype
    BY <2>2 DEF Type
  <2>4. IsSeq(w) /\ Len(w) \in Nat /\ \A k \in 1 .. Len(w) : w[k] \in Nat
    BY <2>1, IsSeqProperties DEF AreLengths
  <2>5. EndsWith(c.dims, Len(w), inner) /\ AreDims(c.dims)
    BY <1>2, <2>3, <2>4, AddedEnds, AddedDims
  <2>6. Around(tbl, p, Len(w), inner, c.dims)
    BY <1>4, <1>7, <2>1, <2>3, <2>4, <2>5 DEF Around
  <2> QED
    BY <1>1, <2>2, <2>3, <2>5, <2>6
<1> QED
  BY <1>5, <1>6, <1>7

\* An output with an ellipsis of Fortran order is brought into that order.
Reversed(p) == p.ell # "none" /\ p.order = "F"

Final(p) ==
  IF Reversed(p) THEN Type(ToFortran(Inferred(p).dims), Inferred(p).dtype) ELSE Inferred(p)

LEMMA ArrayDimsFixed ==
  ASSUME NEW c, IsSeq(c.dims), IsArray(c)
  PROVE  \A k \in 1 .. Len(c.dims) : c.dims[k].kind = "fixed"
BY IsSeqProperties DEF IsArray

\* An inferred array has no gap.
LEMMA FinalPacked ==
  ASSUME Inferring, NEW j \in 1 .. Len(sig.types), sig.types[j].dtype.kind # "any",
         Reversed(sig.types[j]) => IsArray(Inferred(sig.types[j])),
         IsArray(Final(sig.types[j])), ~BringsSteps(sig.types[j])
  PROVE  Packed(Final(sig.types[j]).dims)
<1>1. PICK p, c, inner : p = sig.types[j] /\ c = Inferred(p) /\ inner = SubstituteInner(p).dims
  OBVIOUS
<1>2. PICK n : Around(tbl, p, n, inner, c.dims)
  BY <1>1, OuterLaid
<1>3. AreDims(c.dims)
  BY <1>1, OuterLaid
<1>4. IsArray(c)
  BY <1>1 DEF Final
<1>5. PICK dims : dims = c.dims
  OBVIOUS
<1>6. IsSeq(dims) /\ \A k \in 1 .. Len(dims) : dims[k].kind = "fixed" /\ dims[k].shape \in Nat
  BY <1>3, <1>4, <1>5, ArrayDimsFixed DEF AreDims
<1>7. CASE Reversed(p)
  <2>1. Packed(ToFortran(dims))
    BY <1>6, FortranPacked
  <2>2. Final(p).dims = ToFortran(dims)
    BY <1>1, <1>5, <1>7 DEF Final, Type
  <2> QED
    BY <1>1, <2>1, <2>2
<1>8. CASE ~Reversed(p)
  <2>1. Final(p).dims = dims
    BY <1>1, <1>5, <1>8 DEF Final
  <2>2. n \in Nat /\ EndsWith(dims, n, inner) /\ Around(tbl, p, n, inner, dims)
    BY <1>2, <1>5 DEF Around
  <2>3. IsSeq(inner)
    BY <1>1, InnerLaid DEF Laid
  <2>4. \A k \in 1 .. Len(inner) : inner[k].kind = "fixed"
    <3>1. Len(inner) \in Nat /\ Len(dims) = n + Len(inner)
      BY <2>2, <2>3, IsSeqProperties DEF EndsWith
    <3>2. \A k \in 1 .. Len(inner) : n + k \in 1 .. Len(dims)
      BY <2>2, <3>1
    <3> QED
      BY <1>6, <2>2, <3>2 DEF EndsWith
  <2>5. Packed(inner)
    BY <1>1, <2>4, InnerLaid
  <2>6. CASE p.ell = "none"
    BY <1>1, <2>1, <2>2, <2>5, <2>6 DEF Around
  <2>7. CASE p.ell = "array"
    <3>1. dims = ArrayDims(n) \o inner
      BY <2>2, <2>7 DEF Around
    <3>2. \A k \in 1 .. n : dims[k].kind = "array"
      BY <2>2, <2>3, <3>1, ArraysEnd
    <3>3. n = 0
      <4>1. SUFFICES ASSUME n # 0
                     PROVE  FALSE
        OBVIOUS
      <4>2. PICK m \in Nat : m = Len(inner) /\ Len(dims) = n + m
        BY <2>2, <2>3, IsSeqProperties DEF EndsWith
      <4>3. 1 \in 1 .. n /\ 1 \in 1 .. Len(dims)
        BY <2>2, <4>1, <4>2
      <4> QED
        BY <1>6, <3>2, <4>3
    <3>4. SuffixOf(dims, 1) = inner
      <4>1. SuffixOf(dims, n + 1) = inner /\ n + 1 = 1
        BY <2>2, <2>3, <3>3, EndsSuffix
      <4> QED
        BY <4>1
    <3>5. dims = inner
      BY <1>6, <3>4, WholeSuffix
    <3> QED
      BY <1>1, <2>1, <2>5, <3>5
  <2>8. CASE p.ell \notin {"none", "array"}
    <3>1. PICK w : AreLengths(w) /\ dims = AddDims(w, inner)
      BY <2>2, <2>8 DEF Around
    <3>2. Packed(dims)
      BY <2>5, <3>1, AddedPacked
    <3> QED
      BY <1>1, <2>1, <3>2
  <2> QED
    BY <2>6, <2>7, <2>8
<1> QED
  BY <1>7, <1>8

\* From the dimensions of the pattern on, nothing but them is seen.
LEMMA EndsSuffixAt ==
  ASSUME NEW inner, IsSeq(inner), NEW n \in Nat, NEW dims, EndsWith(dims, n, inner), NEW k \in 1 .. Len(inner) + 1
  PROVE  SuffixOf(dims, n + k) = SuffixOf(inner, k)
<1>1. PICK m, l : m = Len(inner) /\ l = Len(dims)
  OBVIOUS
<1>2. IsSeq(dims) /\ m \in Nat /\ l \in Nat /\ l = n + m
  BY <1>1, IsSeqProperties DEF EndsWith
<1>3. PICK i : i = n + 1
  OBVIOUS
<1>4. i \in 1 .. l + 1 /\ k \in 1 .. l - i + 2 /\ i + k - 1 = n + k
  <2>1. k \in 1 .. m + 1 /\ k \in Nat /\ i \in Nat
    BY <1>1, <1>2, <1>3
  <2>2. l - i + 2 = m + 1
    BY <1>2, <1>3
  <2> QED
    BY <1>2, <1>3, <2>1, <2>2
<1>5. SuffixOf(SuffixOf(dims, i), k) = SuffixOf(dims, i + k - 1)
  <2>1. IsSeq(dims)
    BY <1>2
  <2>2. i \in 1 .. Len(dims) + 1 /\ k \in 1 .. Len(dims) - i + 2
    BY <1>1, <1>4
  <2> QED
    BY <2>1, <2>2, SuffixSuffix
<1>6. SuffixOf(dims, i) = inner
  BY <1>3, EndsSuffix
<1> QED
  BY <1>4, <1>5, <1>6

\* Below fixed dimensions an accepted output has fixed ones only.
LEMMA NotMixed ==
  ASSUME NEW p, IsSeq(p.dims), PlainPattern(p), NEW k \in 1 .. Len(p.dims), ~Mixes(p)
  PROVE  IsArray(Base(p))
<1>1. SUFFICES ASSUME NEW i \in DOMAIN Base(p).dims
               PROVE  Base(p).dims[i].kind = "fixed"
  BY DEF IsArray
<1>2. k \in DOMAIN p.dims /\ p.dims[k].kind # "array"
  BY IsSeqProperties DEF PlainPattern
<1>3. PICK I, N, B, K :
        /\ I = { IF p.dims[j].kind = "array" THEN "array" ELSE "fixed" : j \in DOMAIN p.dims }
        /\ N = CASE p.ell \in {"none", "...", "var"} -> {}
                 [] p.ell = "array" -> IF tbl["array"].value = 0 THEN {} ELSE {"array"}
                 [] OTHER -> IF tbl[p.ell].value = <<>> THEN {} ELSE {"fixed"}
        /\ B = { Base(p).dims[j].kind : j \in DOMAIN Base(p).dims }
        /\ K = N \cup I \cup B
  OBVIOUS
<1>4. ~(\E x, y \in K : x # y)
  BY <1>3, Zenon DEF Mixes
<1>5. "fixed" \in I
  BY <1>2, <1>3
<1>6. Base(p).dims[i].kind \in B
  BY <1>1, <1>3
<1> QED
  BY <1>3, <1>4, <1>5, <1>6

\* No order is asked for.
LEMMA NoOrder ==
  ASSUME NEW c
  PROVE  Ordered("NA", c)
BY DEF Ordered

LEMMA OrderC ==
  ASSUME NEW c, InOrder(c.dims)
  PROVE  Ordered("C", c)
<1>1. IsArray(c)
  BY IsSeqProperties DEF InOrder, AreFixed, IsArray
<1> QED
  BY <1>1 DEF InOrder, Ordered

LEMMA OrderF ==
  ASSUME NEW c, Packed(c.dims), IsFContiguous(c.dims)
  PROVE  Ordered("F", c)
<1>1. IsArray(c)
  BY IsSeqProperties DEF Packed, AreFixed, IsArray
<1> QED
  BY <1>1 DEF Ordered

\* An ellipsis of array dimensions has no order.
LEMMA NoOrderOfArrays ==
  ASSUME Matched, NEW j \in 1 .. Len(sig.types), sig.types[j].ell = "array"
  PROVE  sig.types[j].order = "NA"
<1>1. PICK s : s = sig
  OBVIOUS
<1>2. SignatureOK(s) /\ IsSeq(s.types)
  BY <1>1, ArityProperties DEF Matched, CallInv
<1>3. \A i \in DOMAIN s.types : s.types[i].ell \in {"var", "array"} => s.types[i].order = "NA"
  BY <1>2, Zenon DEF SignatureOK
<1>4. j \in DOMAIN s.types
  BY <1>1, <1>2, IsSeqProperties
<1> QED
  BY <1>1, <1>3, <1>4

\* An inferred output has the order that is asked for.
LEMMA FinalOrdered ==
  ASSUME Inferring, NEW j \in 1 .. Len(sig.types), NEW p, p = sig.types[j], p.dtype.kind # "any",
         Reversed(p) => IsArray(Inferred(p)), ~Mixes(p), GetsOrder(p),
         NEW n, Around(tbl, p, n, SubstituteInner(p).dims, Inferred(p).dims)
  PROVE  /\ \A k \in 1 .. Len(p.dims) : Ordered(p.dims[k].order, From(Final(p), n + k))
         /\ p.ell # "none" => Ordered(p.order, Final(p))
<1>1. PICK c, inner, m, b : c = Inferred(p) /\ inner = SubstituteInner(p).dims /\ m = Len(p.dims) /\ b = Base(p)
  OBVIOUS
<1>2. IsSeq(p.dims) /\ m \in Nat /\ DOMAIN p.dims = 1 .. m /\ p.ell = Ellipsis
  BY <1>1, OutputPatterns, IsSeqProperties DEF Inferring
<1>3. AreConcrete(b.dims) /\ (p.ell # "none" => b.dims = <<>>)
  BY <1>1, <1>2, BaseFits
<1>4. /\ Laid(tbl, p, b.dims, 0, inner)
      /\ PlainPattern(p) /\ FortranFrom(p) = {} /\ IsArray(b) /\ ~BringsSteps(p) => InOrder(inner)
      /\ \A i : FortranFrom(p) = {i} => Packed(SuffixOf(inner, i)) /\ IsFContiguous(SuffixOf(inner, i))
  BY <1>1, InnerLaid
<1>5. IsSeq(inner) /\ m <= Len(inner) /\ Len(inner) \in Nat
  <2>1. IsSeq(inner) /\ Len(inner) = 0 + m + Len(b.dims) /\ IsSeq(b.dims)
    BY <1>1, <1>3, <1>4 DEF Laid, AreConcrete, AreDims
  <2>2. Len(b.dims) \in Nat /\ Len(inner) \in Nat
    BY <2>1, IsSeqProperties
  <2> QED
    BY <1>2, <2>1, <2>2
<1>6. AreDims(c.dims) /\ Around(tbl, p, n, inner, c.dims) /\ n \in Nat /\ EndsWith(c.dims, n, inner)
  BY <1>1, OuterLaid DEF Around
<1>7. ASSUME NEW k \in 1 .. m
      PROVE  From(c, n + k).dims = SuffixOf(inner, k)
  <2>1. k \in 1 .. Len(inner) + 1
    BY <1>2, <1>5
  <2>2. SuffixOf(c.dims, n + k) = SuffixOf(inner, k)
    BY <1>5, <1>6, <2>1, EndsSuffixAt
  <2> QED
    BY <2>2 DEF From, Type, SuffixOf
<1>8. PICK outside, orders :
        /\ outside = IF p.ell = "none" THEN "NA" ELSE p.order
        /\ orders = { p.dims[k].order : k \in DOMAIN p.dims }
  OBVIOUS
<1>9. \A k \in 1 .. m : p.dims[k].order \in orders
  BY <1>2, <1>8, SMTT(30)
<1>10. \/ {outside} \cup orders \subseteq {"NA"}
       \/ {outside} \cup orders \subseteq {"NA", "C"} /\ ~BringsSteps(p) /\ PlainPattern(p)
       \/ outside = "F" /\ orders \subseteq {"NA"}
       \/ outside = "NA" /\ \E i \in FortranFrom(p) : \A k \in 1 .. m : k # i => p.dims[k].order = "NA"
  BY <1>1, <1>2, <1>8, ZenonT(40) DEF GetsOrder, PlainPattern
<1>11. CASE {outside} \cup orders \subseteq {"NA"}
  BY <1>1, <1>8, <1>9, <1>11, NoOrder
<1>12. CASE {outside} \cup orders \subseteq {"NA", "C"} /\ ~BringsSteps(p) /\ PlainPattern(p)
  <2>1. FortranFrom(p) = {}
    <3>1. \A i \in FortranFrom(p) : i \in 1 .. m /\ p.dims[i].order = "F"
      BY <1>2 DEF FortranFrom
    <3> QED
      BY <1>9, <1>12, <3>1
  <2>2. Final(p) = c
    BY <1>1, <1>8, <1>12 DEF Final, Reversed
  <2>3. IsArray(b) => InOrder(inner)
    BY <1>4, <1>12, <2>1
  <2>4. ASSUME NEW k \in 1 .. m
        PROVE  Ordered(p.dims[k].order, From(c, n + k))
    <3>1. p.dims[k].order \in {"NA", "C"}
      BY <1>9, <1>12
    <3>2. CASE p.dims[k].order = "NA"
      BY <3>2, NoOrder
    <3>3. CASE p.dims[k].order = "C"
      <4>1. IsArray(b)
        BY <1>1, <1>2, <1>12, NotMixed
      <4>2. k \in 1 .. Len(inner) + 1
        BY <1>2, <1>5
      <4>3. InOrder(SuffixOf(inner, k))
        BY <2>3, <4>1, <4>2, SuffixInOrder
      <4> QED
        BY <1>7, <3>3, <4>3, OrderC
    <3> QED
      BY <3>1, <3>2, <3>3
  <2>5. ASSUME p.ell # "none"
        PROVE  Ordered(p.order, c)
    <3>1. p.order \in {"NA", "C"}
      BY <1>8, <1>12, <2>5
    <3>2. CASE p.order = "NA"
      BY <3>2, NoOrder
    <3>3. CASE p.order = "C"
      <4>1. p.ell # "array"
        BY <3>3, NoOrderOfArrays DEF Inferring
      <4>2. PICK w : AreLengths(w) /\ c.dims = AddDims(w, inner)
        BY <1>6, <2>5, <4>1 DEF Around
      <4>3. IsArray(b)
        <5>1. b.dims = <<>>
          BY <1>3, <2>5
        <5> QED
          BY <5>1 DEF IsArray
      <4>4. InOrder(inner)
        BY <2>3, <4>3
      <4>5. InOrder(c.dims)
        BY <4>2, <4>4, InOrderPacked, AddedPacked
      <4> QED
        BY <3>3, <4>5, OrderC
    <3> QED
      BY <3>1, <3>2, <3>3
  <2> QED
    BY <1>1, <2>2, <2>4, <2>5
<1>13. CASE outside = "F" /\ orders \subseteq {"NA"}
  <2>1. Reversed(p) /\ p.order = "F"
    BY <1>8, <1>13 DEF Reversed
  <2>2. Final(p).dims = ToFortran(c.dims)
    BY <1>1, <2>1 DEF Final, Type
  <2>3. IsSeq(c.dims) /\ \A k \in 1 .. Len(c.dims) : c.dims[k].shape \in Nat
    BY <1>1, <1>6, <2>1, ArrayDimsFixed DEF AreDims
  <2>4. Packed(Final(p).dims) /\ IsFContiguous(Final(p).dims)
    BY <2>2, <2>3, FortranPacked
  <2>5. Ordered("F", Final(p))
    BY <2>4, OrderF
  <2>6. \A k \in 1 .. m : p.dims[k].order = "NA"
    BY <1>9, <1>13
  <2> QED
    BY <1>1, <2>1, <2>5, <2>6, NoOrder
<1>14. CASE outside = "NA" /\ \E i \in FortranFrom(p) : \A k \in 1 .. m : k # i => p.dims[k].order = "NA"
  <2>1. PICK i \in FortranFrom(p) : \A k \in 1 .. m : k # i => p.dims[k].order = "NA"
    BY <1>14
  <2>2. \A k \in FortranFrom(p) : k \in 1 .. m /\ p.dims[k].order = "F"
    BY <1>2 DEF FortranFrom
  <2>3. FortranFrom(p) = {i}
    BY <2>1, <2>2
  <2>4. Final(p) = c
    BY <1>1, <1>8, <1>14 DEF Final, Reversed
  <2>5. Ordered("F", From(c, n + i))
    BY <1>4, <1>7, <2>2, <2>3, OrderF
  <2>6. \A k \in 1 .. m : Ordered(p.dims[k].order, From(c, n + k))
    BY <2>1, <2>2, <2>5, NoOrder
  <2>7. p.ell # "none" => Ordered(p.order, c)
    BY <1>8, <1>14, NoOrder
  <2> QED
    BY <1>1, <2>4, <2>6, <2>7
<1> QED
  BY <1>10, <1>11, <1>12, <1>13, <1>14

\* The type c has the dimensions that p tells, n of them for the ellipsis.
FollowsType(p, n, c) ==
  /\ c = Type(c.dims, c.dtype) /\ c.dtype = Base(p).dtype /\ IsSeq(c.dims)
  /\ Laid(tbl, p, Base(p).dims, n, c.dims)
  /\ p.ell # "none" => \A k \in 1 .. n : c.dims[k].kind = EllipsisKind(p.ell)
  /\ p.ell \notin {"none", "...", "array"} =>
       \E w : /\ IsSeq(w) /\ Len(w) = n /\ Holds(tbl, p.ell, "FixedSeq", w)
              /\ \A k \in 1 .. n : c.dims[k].shape = w[k]

LEMMA FinalLaid ==
  ASSUME Inferring, NEW j \in 1 .. Len(sig.types), NEW p, p = sig.types[j], p.dtype.kind # "any",
         Reversed(p) => IsArray(Inferred(p)),
         NEW n, Around(tbl, p, n, SubstituteInner(p).dims, Inferred(p).dims)
  PROVE  FollowsType(p, n, Final(p))
<1>0. PICK c : c = Final(p)
  OBVIOUS
<1>1. PICK a, inner, b, dims : a = Inferred(p) /\ inner = SubstituteInner(p).dims /\ b = Base(p).dims /\ dims = a.dims
  OBVIOUS
<1>2. IsSeq(p.dims) /\ p.ell = Ellipsis /\ p.ell # "var"
  BY OutputPatterns DEF Inferring, Matched
<1>3. AreConcrete(b) /\ (p.ell # "none" => b = <<>>) /\ IsSeq(b)
  BY <1>1, <1>2, BaseFits DEF AreConcrete, AreDims
<1>4. Laid(tbl, p, b, 0, inner)
  BY <1>1, InnerLaid
<1>5. a.dtype = Base(p).dtype /\ a = Type(dims, a.dtype) /\ IsSeq(dims)
  BY <1>1, OuterLaid DEF AreDims
<1>6. n \in Nat /\ EndsWith(dims, n, inner) /\ IsSeq(inner) /\ Around(tbl, p, n, inner, dims)
  BY <1>1, <1>4 DEF Around, Laid
<1>7. Laid(tbl, p, b, n, dims)
  BY <1>2, <1>3, <1>4, <1>6, EndsLaid
<1>8. p.ell # "none" => \A k \in 1 .. n : dims[k].kind = EllipsisKind(p.ell)
  <2>1. CASE p.ell = "array"
    <3>1. dims = ArrayDims(n) \o inner
      BY <1>6, <2>1 DEF Around
    <3> QED
      BY <1>6, <2>1, <3>1, ArraysEnd DEF EllipsisKind
  <2>2. CASE p.ell \notin {"none", "array"}
    <3>1. PICK w : IsSeq(w) /\ Len(w) = n /\ dims = AddDims(w, inner)
      BY <1>6, <2>2 DEF Around, AreLengths
    <3>2. \A k \in 1 .. n : dims[k].kind = "fixed"
      BY <1>6, <3>1, AddDimsProperties
    <3> QED
      BY <1>2, <2>2, <3>2 DEF EllipsisKind
  <2> QED
    BY <2>1, <2>2
<1>9. p.ell \notin {"none", "...", "array"} =>
        \E w : /\ IsSeq(w) /\ Len(w) = n /\ Holds(tbl, p.ell, "FixedSeq", w)
               /\ \A k \in 1 .. n : dims[k].shape = w[k]
  <2> SUFFICES ASSUME p.ell \notin {"none", "...", "array"}
               PROVE  \E w : /\ IsSeq(w) /\ Len(w) = n /\ Holds(tbl, p.ell, "FixedSeq", w)
                             /\ \A k \in 1 .. n : dims[k].shape = w[k]
    OBVIOUS
  <2>1. PICK w : IsSeq(w) /\ Len(w) = n /\ dims = AddDims(w, inner) /\ Holds(tbl, p.ell, "FixedSeq", w)
    BY <1>6 DEF Around, AreLengths
  <2>2. \A k \in 1 .. n : dims[k].shape = w[k]
    BY <1>6, <2>1, AddDimsProperties
  <2> QED
    BY <2>1, <2>2
<1>10. CASE ~Reversed(p)
  <2>1. c = a
    BY <1>0, <1>1, <1>10 DEF Final
  <2> QED
    BY <1>0, <1>1, <1>5, <1>7, <1>8, <1>9, <2>1 DEF FollowsType
<1>11. CASE Reversed(p)
  <2>1. PICK f : f = ToFortran(dims)
    OBVIOUS
  <2>2. c = Type(f, a.dtype)
    BY <1>0, <1>1, <1>11, <2>1 DEF Final
  <2>3. c.dims = f /\ c.dtype = a.dtype
    BY <2>2 DEF Type
  <2>4. \A k \in 1 .. Len(dims) : dims[k].kind = "fixed"
    BY <1>1, <1>5, <1>11, ArrayDimsFixed
  <2>5. p.ell # "none" /\ p.ell # "array"
    BY <1>11, NoOrderOfArrays DEF Reversed, Inferring
  <2>6. Laid(tbl, p, b, n, f)
    BY <1>2, <1>3, <1>6, <1>7, <2>1, <2>4, <2>5, FortranLaid
  <2>7. /\ IsSeq(f) /\ Len(f) = Len(dims)
        /\ \A k \in 1 .. Len(dims) : f[k].shape = dims[k].shape /\ f[k].kind = "fixed"
    BY <1>5, <2>1, FortranDims
  <2>8. \A k \in 1 .. n : k \in 1 .. Len(dims)
    <3>1. PICK m \in Nat : m = Len(inner) /\ Len(dims) = n + m
      BY <1>6, IsSeqProperties DEF EndsWith
    <3> QED
      BY <1>6, <3>1
  <2>9. EllipsisKind(p.ell) = "fixed"
    BY <1>2, <2>5 DEF EllipsisKind
  <2>10. p.ell \notin {"none", "...", "array"} =>
           \E w : /\ IsSeq(w) /\ Len(w) = n /\ Holds(tbl, p.ell, "FixedSeq", w)
                  /\ \A k \in 1 .. n : f[k].shape = w[k]
    BY <1>9, <2>7, <2>8
  <2> QED
    BY <1>0, <1>1, <1>5, <2>2, <2>3, <2>6, <2>7, <2>8, <2>9, <2>10 DEF FollowsType
<1> QED
  BY <1>10, <1>11

\* An inferred output is what its type in the signature stands for.
LEMMA FinalDenotes ==
  ASSUME Inferring, NEW j \in 1 .. Len(sig.types), NEW p, p = sig.types[j], p.dtype.kind # "any",
         Reversed(p) => IsArray(Inferred(p)), ~Mixes(p), GetsOrder(p),
         NEW c, c = Final(p)
  PROVE  Denotes(Binding, p, c)
<1>1. PICK n : Around(tbl, p, n, SubstituteInner(p).dims, Inferred(p).dims)
  BY OuterLaid
<1>2. PICK base, m : base = Base(p) /\ m = Len(p.dims)
  OBVIOUS
<1>3. /\ c = Type(c.dims, c.dtype) /\ c.dtype = base.dtype /\ IsSeq(c.dims)
      /\ Laid(tbl, p, base.dims, n, c.dims)
      /\ p.ell # "none" => \A k \in 1 .. n : c.dims[k].kind = EllipsisKind(p.ell)
      /\ p.ell \notin {"none", "...", "array"} =>
           \E w : /\ IsSeq(w) /\ Len(w) = n /\ Holds(tbl, p.ell, "FixedSeq", w)
                  /\ \A k \in 1 .. n : c.dims[k].shape = w[k]
  <2>1. FollowsType(p, n, c)
    BY <1>1, FinalLaid
  <2> QED
    BY <1>2, <2>1 DEF FollowsType
<1>4. /\ \A k \in 1 .. m : Ordered(p.dims[k].order, From(c, n + k))
      /\ p.ell # "none" => Ordered(p.order, c)
  <2>1. /\ \A k \in 1 .. Len(p.dims) : Ordered(p.dims[k].order, From(Final(p), n + k))
        /\ p.ell # "none" => Ordered(p.order, Final(p))
    BY <1>1, FinalOrdered
  <2> QED
    BY <1>2, <2>1, Zenon
<1>5. IsPattern(p) /\ p.ell = Ellipsis /\ p.ell # "var" /\ IsSeq(p.dims) /\ m \in Nat
  BY <1>2, OutputPatterns, IsSeqProperties DEF Inferring, Matched
<1>6. /\ AreConcrete(base.dims) /\ base = Type(base.dims, base.dtype) /\ FitsDtype(tbl, p.dtype, base)
      /\ p.ell # "none" => base.dims = <<>>
  BY <1>2, <1>5, BaseFits
<1>7. IsSeq(base.dims) /\ Len(base.dims) \in Nat /\ (p.ell # "none" => Len(base.dims) = 0)
  BY <1>6, IsSeqProperties DEF AreConcrete, AreDims
<1>8. n \in Nat /\ (p.ell = "none" => n = 0)
  BY <1>1 DEF Around
<1>9. Fits(tbl, p, From(c, n + 1))
  <2>1. \A k \in 1 .. Len(p.dims) :
          /\ p.dims[k].kind \in {"fixed", "sym", "array"}
          /\ p.dims[k].kind = "sym" => IsLength(tbl, p.dims[k].name)
          /\ Ordered(p.dims[k].order, From(c, n + k))
    BY <1>2, <1>4, OutputLengths
  <2> QED
    BY <1>3, <1>5, <1>6, <1>7, <1>8, <2>1, LaidFits
<1>10. ArgFits(tbl, p, c)
  <2>1. CASE p.ell = "none"
    <3>1. From(c, n + 1) = c
      <4>1. n + 1 = 1
        BY <1>8, <2>1
      <4>2. SuffixOf(c.dims, 1) = c.dims
        BY <1>3, WholeSuffix
      <4>3. From(c, n + 1) = Type(SuffixOf(c.dims, 1), c.dtype)
        BY <4>1 DEF From, SuffixOf
      <4> QED
        BY <1>3, <4>2, <4>3
    <3> QED
      BY <1>9, <2>1, <3>1 DEF ArgFits
  <2>2. CASE p.ell # "none"
    <3>1. Taken(p, c) = n
      <4>1. Len(c.dims) = n + m + Len(base.dims)
        BY <1>2, <1>3 DEF Laid
      <4>2. Len(c.dims) = n + m
        BY <1>5, <1>7, <1>8, <2>2, <4>1
      <4> QED
        BY <1>2, <1>5, <1>8, <4>2 DEF Taken
    <3>2. CanTake(p, c)
      BY <1>3, <1>8, <2>2, <3>1 DEF CanTake
    <3>3. p.ell = "array" => Holds(tbl, "array", "ArraySeq", Taken(p, c))
      BY <1>1, <3>1 DEF Around
    <3>4. p.ell \notin {"...", "array"} => Holds(tbl, p.ell, "FixedSeq", OuterOf(p, c))
      <4> SUFFICES ASSUME p.ell \notin {"...", "array"}
                   PROVE  Holds(tbl, p.ell, "FixedSeq", OuterOf(p, c))
        OBVIOUS
      <4>1. PICK w : /\ IsSeq(w) /\ Len(w) = n /\ Holds(tbl, p.ell, "FixedSeq", w)
                     /\ \A k \in 1 .. n : c.dims[k].shape = w[k]
        BY <1>3, <2>2
      <4>2. PICK v : v = OuterOf(p, c)
        OBVIOUS
      <4>3. IsSeq(v) /\ Len(v) = n /\ \A k \in 1 .. n : v[k] = c.dims[k].shape
        <5>1. Taken(p, c) >= 0
          BY <1>8, <3>1
        <5> QED
          BY <1>3, <1>5, <3>1, <4>2, <5>1, OuterOfProperties
      <4>4. v = w
        BY <4>1, <4>3, SameSeq
      <4> QED
        BY <4>1, <4>2, <4>4
    <3> QED
      BY <1>4, <1>9, <2>2, <3>1, <3>2, <3>3, <3>4 DEF ArgFits
  <2> QED
    BY <2>1, <2>2
<1> QED
  BY <1>3, <1>5, <1>10, ArgFitsDenotes DEF Binding
-----------------------------------------------------------------------------
(***************************************************************************)
(* The outputs on their way through a check.                               *)
(***************************************************************************)
\* What is inferred for an output, step by step; an explicit output that is
\* checked stays as it is.
OutInv ==
  Ellipsis # "var" /\ pc \in {"broadcast", "order", "ok"} =>
    \A i \in sig.nin + 1 .. Len(types) :
      LET p == sig.types[i] IN
      IF Given THEN call.check => types[i] = Args[i]
      ELSE /\ ~Refused(p)
           /\ pc = "broadcast" => types[i] = Substitute(p)
           /\ pc = "order" => types[i] = Inferred(p)
           /\ pc = "ok" => types[i] = Final(p) /\ (Reversed(p) => IsArray(Inferred(p)))

\* With the table the types of the outputs stay the same.
LEMMA SameOutputs ==
  ASSUME tbl' = tbl
  PROVE  \A p : /\ Substitute(p)' = Substitute(p) /\ Inferred(p)' = Inferred(p) /\ Final(p)' = Final(p)
                /\ (Refused(p)' <=> Refused(p)) /\ (Reversed(p)' <=> Reversed(p))
<1>1. \A p : Base(p)' = Base(p)
  BY DEF Base
<1>2. \A p : SubstituteInner(p)' = SubstituteInner(p)
  BY <1>1 DEF SubstituteInner
<1>3. \A p : Substitute(p)' = Substitute(p)
  BY <1>2 DEF Substitute
<1>4. \A p : Inferred(p)' = Inferred(p)
  BY <1>2 DEF Inferred
<1>5. \A p : Final(p)' = Final(p) /\ (Reversed(p)' <=> Reversed(p))
  BY <1>4 DEF Final, Reversed
<1>6. ASSUME NEW p
      PROVE  Refused(p)' <=> Refused(p)
  <2> DEFINE K(t, b) ==
        (CASE p.ell \in {"none", "...", "var"} -> {}
           [] p.ell = "array" -> IF t["array"].value = 0 THEN {} ELSE {"array"}
           [] OTHER -> IF t[p.ell].value = <<>> THEN {} ELSE {"fixed"})
        \cup { IF p.dims[i].kind = "array" THEN "array" ELSE "fixed" : i \in DOMAIN p.dims }
        \cup { b.dims[i].kind : i \in DOMAIN b.dims }
  <2>1. Mixes(p) <=> \E k, l \in K(tbl, Base(p)) : k # l
    BY Zenon DEF Mixes
  <2>2. Mixes(p)' <=> \E k, l \in K(tbl', Base(p)') : k # l
    BY Zenon DEF Mixes
  <2> HIDE DEF K
  <2>3. Mixes(p)' <=> Mixes(p)
    BY <1>1, <2>1, <2>2
  <2> QED
    BY <2>3 DEF Refused
<1> QED
  BY <1>3, <1>4, <1>5, <1>6

\* The unnamed ellipsis of an output has nothing to stretch.
LEMMA OutputGrows ==
  ASSUME NEW dims, IsSeq(dims), NEW shape, IsSeq(shape), NEW n, n = Len(dims)
  PROVE  BroadcastTo(dims, shape, n, TRUE) = AddDims(shape, dims)
<1>1. n \in Nat /\ Len(shape) \in Nat
  BY IsSeqProperties
<1>2. PICK kept : kept = Kept(dims, shape, 0, Len(shape))
  OBVIOUS
<1>3. kept = dims
  <2>1. 0 \in Nat /\ 0 <= Len(dims)
    BY <1>1
  <2>2. IsSeq(kept) /\ Len(kept) = Len(dims) /\ \A k \in 0 + 1 .. Len(dims) : kept[k] = dims[k]
    BY <1>1, <1>2, <2>1, KeptProperties
  <2>3. 0 + 1 = 1
    OBVIOUS
  <2> QED
    BY <2>2, <2>3, SameSeq
<1>4. SubSeq(shape, 1, Len(shape)) = shape
  BY WholeSuffix DEF SuffixOf
<1>5. Len(dims) - n = 0 /\ Len(shape) - 0 = Len(shape)
  BY <1>1
<1>6. BroadcastTo(dims, shape, n, TRUE) = AddDims(SubSeq(shape, 1, Len(shape)), kept)
  BY <1>2, <1>5 DEF BroadcastTo, Kept
<1> QED
  BY <1>3, <1>4, <1>6

LEMMA InferOut ==
  ASSUME CallInv, TableInv, ShapeInv, Ellipsis # "var", Infer
  PROVE  OutInv'
<1>1. pc = "infer" /\ Arity
  BY DEF Infer, CallInv
<1>2. Inferring
  BY <1>1 DEF Inferring, Matched, TableInv
<1>3. CASE Fail
  BY <1>3 DEF Fail, OutInv
<1>4. CASE ~Fail
  <2>1. /\ types' = call.ins \o (IF Given THEN call.outs
                                 ELSE [i \in 1 .. sig.nout |-> Substitute(sig.types[sig.nin + i])])
        /\ pc' = "broadcast" /\ call' = call /\ tbl' = tbl
        /\ ~Given => \A i \in 1 .. sig.nout : ~Refused(sig.types[sig.nin + i])
    BY <1>4 DEF Infer
  <2>2. sig' = sig /\ Args' = Args /\ (Given' <=> Given) /\ call'.check = call.check
    BY <2>1, SameCall
  <2>3. PICK outs : outs = [i \in 1 .. sig.nout |-> Substitute(sig.types[sig.nin + i])]
    OBVIOUS
  <2>4. /\ sig.nin \in Nat /\ sig.nout \in Nat /\ Len(sig.types) = sig.nin + sig.nout
        /\ Len(call.ins) = sig.nin /\ IsSeq(call.ins)
    BY <1>1, ArityProperties, ArgsProperties
  <2>5. PICK ts : ts = types'
    OBVIOUS
  <2>6. ASSUME Given
        PROVE  ts = Args
    BY <2>1, <2>5, <2>6 DEF Args
  <2>7. ASSUME ~Given, NEW i \in sig.nin + 1 .. Len(ts)
        PROVE  ~Refused(sig.types[i]) /\ ts[i] = Substitute(sig.types[i])
    <3>1. outs = [k \in 1 .. sig.nout |-> outs[k]]
      BY <2>3
    <3>2. IsSeq(outs) /\ Len(outs) = sig.nout
      BY <2>4, <3>1, FunctionIsSeq, Zenon
    <3>3. PICK ins : ins = call.ins
      OBVIOUS
    <3>4. ts = ins \o outs /\ IsSeq(ins) /\ Len(ins) = sig.nin
      BY <2>1, <2>3, <2>4, <2>5, <2>7, <3>3
    <3>5. Len(ts) = Len(ins) + Len(outs) /\ \A k \in 1 .. Len(outs) : ts[Len(ins) + k] = outs[k]
      <4>1. /\ Len(ins \o outs) = Len(ins) + Len(outs)
            /\ \A k \in 1 .. Len(outs) : (ins \o outs)[Len(ins) + k] = outs[k]
        <5>1. IsSeq(ins) /\ IsSeq(outs)
          BY <3>2, <3>4
        <5> QED
          BY <5>1, ConcatIsSeq
      <4> QED
        BY <3>4, <4>1
    <3>6. PICK k \in 1 .. sig.nout : i = sig.nin + k
      <4>1. PICK m, n : m = sig.nin /\ n = sig.nout
        OBVIOUS
      <4>2. m \in Nat /\ n \in Nat /\ Len(ts) = m + n
        BY <2>4, <3>2, <3>4, <3>5, <4>1
      <4>3. i \in m + 1 .. m + n
        BY <2>7, <4>1, <4>2
      <4>4. i - m \in 1 .. n /\ i = m + (i - m)
        BY <4>2, <4>3
      <4> QED
        BY <4>1, <4>4
    <3>7. ts[i] = outs[k]
      BY <3>2, <3>4, <3>5, <3>6
    <3>8. outs[k] = Substitute(sig.types[i])
      BY <2>3, <3>6
    <3> QED
      BY <2>1, <2>7, <3>6, <3>7, <3>8
  <2>8. \A p : Substitute(p)' = Substitute(p) /\ (Refused(p)' <=> Refused(p))
    BY <2>1, SameOutputs
  <2>9. ASSUME NEW i \in sig.nin + 1 .. Len(ts)
        PROVE  IF Given THEN ts[i] = Args[i]
               ELSE ~Refused(sig.types[i])' /\ ts[i] = Substitute(sig.types[i])'
    BY <2>2, <2>6, <2>7, <2>8, <2>9
  <2> QED
    BY <2>1, <2>2, <2>5, <2>9 DEF OutInv
<1> QED
  BY <1>3, <1>4

\* What Substitute leaves to broadcasting.
LEMMA SubstituteIs ==
  ASSUME Matched, NEW i \in 1 .. Len(sig.types), NEW p, p = sig.types[i]
  PROVE  /\ p.ell = Ellipsis
         /\ Ellipsis # "..." => Substitute(p) = Inferred(p)
         /\ Ellipsis = "..." => /\ Substitute(p) = SubstituteInner(p)
                                /\ Inferred(p) = Type(AddDims(tbl["..."].value, SubstituteInner(p).dims),
                                                      SubstituteInner(p).dtype)
<1>1. p.ell = Ellipsis /\ Ellipsis # "var"
  BY OutputPatterns DEF Matched
<1>2. CASE p.ell = "..."
  BY <1>1, <1>2 DEF Substitute, Inferred
<1>3. CASE p.ell # "..."
  BY <1>1, <1>3 DEF Substitute, Inferred
<1> QED
  BY <1>1, <1>2, <1>3

LEMMA BroadcastOut ==
  ASSUME CallInv, TableInv, ShapeInv, TypesInv, OutInv, Ellipsis # "var", BroadcastAll
  PROVE  OutInv'
<1>1. pc = "broadcast" /\ Arity
  BY DEF BroadcastAll, CallInv
<1>2. Matched
  BY <1>1 DEF Matched, TableInv
<1>3. CASE Fail
  BY <1>3 DEF Fail, OutInv
<1>4. CASE ~Fail
  <2>1. /\ pc' = "order" /\ call' = call /\ tbl' = tbl
        /\ Ellipsis # "..." => types' = types
        /\ Ellipsis = "..." =>
             /\ types' = [i \in DOMAIN types |-> Broadcasted(i)]
             /\ call.check => \A i \in sig.nin + 1 .. Len(types) : Broadcasted(i) = types[i]
    BY <1>4 DEF BroadcastAll
  <2>2. sig' = sig /\ Args' = Args /\ (Given' <=> Given) /\ call'.check = call.check
    BY <2>1, SameCall
  <2>3. /\ IsSeq(types) /\ Len(types) = Len(sig.types) /\ Len(types) \in Nat /\ DOMAIN types = 1 .. Len(types)
        /\ sig.nin \in Nat
    <3>1. IsSeq(types) /\ Len(types) = Len(sig.types)
      BY <1>1 DEF TypesInv
    <3> QED
      BY <1>1, <3>1, ArityProperties, IsSeqProperties
  <2>4. PICK ts, n : ts = types' /\ n = Len(types)
    OBVIOUS
  <2>5. Len(ts) = n
    <3>1. CASE Ellipsis # "..."
      BY <2>1, <2>4, <3>1
    <3>2. CASE Ellipsis = "..."
      <4>1. ts = [i \in 1 .. n |-> Broadcasted(i)]
        BY <2>1, <2>3, <2>4, <3>2
      <4>2. ts = [i \in 1 .. n |-> ts[i]]
        BY <4>1
      <4> QED
        BY <2>3, <2>4, <4>2, FunctionIsSeq, ZenonT(40)
    <3> QED
      BY <3>1, <3>2
  <2>6. ASSUME NEW i \in sig.nin + 1 .. n
        PROVE  IF Given THEN call.check => ts[i] = Args[i]
               ELSE ~Refused(sig.types[i]) /\ ts[i] = Inferred(sig.types[i])
    <3>1. i \in 1 .. n /\ i > sig.nin
      BY <2>3, <2>4
    <3>2. PICK p, c : p = sig.types[i] /\ c = types[i]
      OBVIOUS
    <3>3. IF Given THEN call.check => c = Args[i] ELSE ~Refused(p) /\ c = Substitute(p)
      BY <1>1, <2>4, <3>2 DEF OutInv
    <3>4. /\ Ellipsis # "..." => Substitute(p) = Inferred(p)
          /\ Ellipsis = "..." => /\ Substitute(p) = SubstituteInner(p)
                                 /\ Inferred(p) = Type(AddDims(tbl["..."].value, SubstituteInner(p).dims),
                                                       SubstituteInner(p).dtype)
      BY <1>2, <2>3, <2>4, <3>1, <3>2, SubstituteIs
    <3>5. CASE Ellipsis # "..."
      BY <2>1, <2>4, <3>2, <3>3, <3>4, <3>5
    <3>6. CASE Ellipsis = "..."
      <4>1. ts[i] = Broadcasted(i)
        BY <2>1, <2>3, <2>4, <3>1, <3>6
      <4>2. CASE Given
        BY <2>1, <2>4, <3>2, <3>3, <3>6, <4>1, <4>2
      <4>3. CASE ~Given
        <5>1. PICK V : V = tbl["..."].value
          OBVIOUS
        <5>2. c = SubstituteInner(p) /\ ~Refused(p) /\ Inferred(p) = Type(AddDims(V, c.dims), c.dtype)
          BY <3>3, <3>4, <3>6, <4>3, <5>1
        <5>3. IsSeq(c.dims) /\ Len(c.dims) = Len(p.dims)
          BY <1>1, <2>4, <3>2, <3>6, <4>3 DEF TypesInv, IsType
        <5>4. IsSeq(V)
          BY <1>2, <3>6, <5>1, SharedShape
        <5>5. BroadcastTo(c.dims, V, Len(p.dims), TRUE) = AddDims(V, c.dims)
          BY <5>3, <5>4, OutputGrows
        <5>6. BroadcastTo(c.dims, V, Len(p.dims), i > sig.nin) = BroadcastTo(c.dims, V, Len(p.dims), TRUE)
          BY <3>1, Zenon DEF BroadcastTo
        <5>7. Broadcasted(i) = Type(BroadcastTo(c.dims, V, Len(p.dims), i > sig.nin), c.dtype)
          BY <3>2, <5>1 DEF Broadcasted
        <5>8. Broadcasted(i) = Inferred(p)
          BY <5>2, <5>5, <5>6, <5>7
        <5> QED
          BY <3>2, <4>1, <4>3, <5>2, <5>8
      <4> QED
        BY <4>2, <4>3
    <3> QED
      BY <3>5, <3>6
  <2>7. \A p : Inferred(p)' = Inferred(p) /\ (Refused(p)' <=> Refused(p))
    BY <2>1, SameOutputs
  <2>8. ASSUME NEW i \in sig.nin + 1 .. Len(ts)
        PROVE  IF Given THEN call.check => ts[i] = Args[i]
               ELSE ~Refused(sig.types[i])' /\ ts[i] = Inferred(sig.types[i])'
    BY <2>2, <2>5, <2>6, <2>7, <2>8
  <2> QED
    BY <2>1, <2>2, <2>4, <2>8 DEF OutInv
<1> QED
  BY <1>3, <1>4

LEMMA OrderOut ==
  ASSUME CallInv, TableInv, ShapeInv, TypesInv, OutInv, Ellipsis # "var", OrderOutputs
  PROVE  OutInv'
<1>1. pc = "order" /\ Arity
  BY DEF OrderOutputs, CallInv
<1>2. CASE Fail
  BY <1>2 DEF Fail, OutInv
<1>3. CASE ~Fail
  <2> DEFINE New(i) == IF ~Given /\ i > sig.nin /\ Reversed(sig.types[i])
                       THEN Type(ToFortran(types[i].dims), types[i].dtype) ELSE types[i]
  <2>1. /\ pc' = "ok" /\ call' = call /\ tbl' = tbl
        /\ types' = [i \in DOMAIN types |-> New(i)]
    BY <1>3 DEF OrderOutputs, Reversed
  <2>2. \A i \in sig.nin + 1 .. Len(types) : ~Given /\ Reversed(sig.types[i]) => IsArray(types[i])
    BY <1>3 DEF OrderOutputs, Ordered, Reversed
  <2>3. sig' = sig /\ Args' = Args /\ (Given' <=> Given) /\ call'.check = call.check
    BY <2>1, SameCall
  <2>4. /\ Len(types) \in Nat /\ DOMAIN types = 1 .. Len(types) /\ sig.nin \in Nat
    BY <1>1, ArityProperties, IsSeqProperties DEF TypesInv
  <2>5. PICK ts, n : ts = types' /\ n = Len(types)
    OBVIOUS
  <2>6. Len(ts) = n /\ \A i \in 1 .. n : ts[i] = New(i)
    <3>1. ts = [i \in 1 .. n |-> New(i)]
      BY <2>1, <2>4, <2>5
    <3> HIDE DEF New
    <3>2. ts = [i \in 1 .. n |-> ts[i]]
      BY <3>1
    <3>3. Len(ts) = n
      BY <2>4, <2>5, <3>2, FunctionIsSeq, Zenon
    <3> QED
      BY <3>1, <3>3
  <2>7. ASSUME NEW i \in sig.nin + 1 .. n
        PROVE  IF Given THEN call.check => ts[i] = Args[i]
               ELSE LET p == sig.types[i] IN
                    ~Refused(p) /\ ts[i] = Final(p) /\ (Reversed(p) => IsArray(Inferred(p)))
    <3>1. i \in 1 .. n /\ i > sig.nin
      BY <2>4, <2>5
    <3>2. PICK p, c : p = sig.types[i] /\ c = types[i]
      OBVIOUS
    <3>3. IF Given THEN call.check => c = Args[i] ELSE ~Refused(p) /\ c = Inferred(p)
      BY <1>1, <2>5, <3>2 DEF OutInv
    <3>4. ts[i] = New(i)
      BY <2>6, <3>1
    <3>5. CASE Given
      BY <3>2, <3>3, <3>4, <3>5
    <3>6. CASE ~Given /\ Reversed(p)
      <4>1. ts[i] = Type(ToFortran(c.dims), c.dtype)
        BY <3>1, <3>2, <3>4, <3>6
      <4>2. ts[i] = Final(p)
        BY <3>3, <3>6, <4>1 DEF Final
      <4> QED
        BY <2>2, <2>5, <3>2, <3>3, <3>6, <4>2
    <3>7. CASE ~Given /\ ~Reversed(p)
      <4>1. ts[i] = c
        BY <3>2, <3>4, <3>7
      <4>2. ts[i] = Final(p)
        BY <3>3, <3>7, <4>1 DEF Final
      <4> QED
        BY <3>2, <3>3, <3>7, <4>2
    <3> QED
      BY <3>5, <3>6, <3>7
  <2>8. \A p : /\ Inferred(p)' = Inferred(p) /\ Final(p)' = Final(p)
               /\ (Refused(p)' <=> Refused(p)) /\ (Reversed(p)' <=> Reversed(p))
    BY <2>1, SameOutputs
  <2>9. \A p : IsArray(Inferred(p))' <=> IsArray(Inferred(p))
    BY <2>8 DEF IsArray
  <2>10. ASSUME NEW i \in sig.nin + 1 .. Len(ts)
         PROVE  IF Given THEN call.check => ts[i] = Args[i]
                ELSE /\ ~Refused(sig.types[i])' /\ ts[i] = Final(sig.types[i])'
                     /\ Reversed(sig.types[i])' => IsArray(Inferred(sig.types[i]))'
    <3>1. PICK p : p = sig.types[i]
      OBVIOUS
    <3>2. IF Given THEN call.check => ts[i] = Args[i]
          ELSE ~Refused(p) /\ ts[i] = Final(p) /\ (Reversed(p) => IsArray(Inferred(p)))
      BY <2>6, <2>7, <3>1
    <3>3. sig.types[i]' = p
      BY <2>3, <3>1
    <3> QED
      BY <2>8, <2>9, <3>2, <3>3
  <2> QED
    BY <2>1, <2>3, <2>5, <2>10 DEF OutInv
<1> QED
  BY <1>2, <1>3

LEMMA NextOut ==
  ASSUME Inv, OutInv, [Next]_vars
  PROVE  OutInv'
<1>1. CASE UNCHANGED vars
  <2>1. call' = call /\ tbl' = tbl /\ types' = types /\ pc' = pc
    BY <1>1 DEF vars
  <2>2. sig' = sig /\ Args' = Args /\ (Given' <=> Given) /\ Ellipsis' = Ellipsis
    BY <2>1, SameCall
  <2>3. \A p : /\ Substitute(p)' = Substitute(p) /\ Inferred(p)' = Inferred(p) /\ Final(p)' = Final(p)
               /\ (Refused(p)' <=> Refused(p)) /\ (Reversed(p)' <=> Reversed(p))
    BY <2>1, SameOutputs
  <2>4. \A p : IsArray(Inferred(p))' <=> IsArray(Inferred(p))
    BY <2>3 DEF IsArray
  <2> QED
    BY <2>1, <2>2, <2>3, <2>4 DEF OutInv
<1>2. CASE Ellipsis' = "var" \/ pc' \notin {"broadcast", "order", "ok"}
  BY <1>2 DEF OutInv
<1>3. CASE Next /\ Ellipsis' # "var" /\ pc' \in {"broadcast", "order", "ok"}
  <2>1. Infer \/ BroadcastAll \/ OrderOutputs
    BY <1>3 DEF Next, CheckArity, MatchArg, ResolveConstraint, CheckAgain, Fail
  <2>2. call' = call
    BY <2>1 DEF Infer, BroadcastAll, OrderOutputs, Fail
  <2>3. Ellipsis # "var"
    BY <1>3, <2>2, SameCall
  <2>4. CallInv /\ TableInv /\ ShapeInv /\ TypesInv
    BY <2>3 DEF Inv
  <2> QED
    BY <2>1, <2>3, <2>4, InferOut, BroadcastOut, OrderOut
<1> QED
  BY <1>1, <1>2, <1>3

LEMMA InvOutputs ==
  ASSUME Inv, OutInv, Ellipsis # "var"
  PROVE  OutputsHaveTheirPlaces
<1>1. SUFFICES ASSUME pc = "ok", NEW i \in sig.nin + 1 .. Len(types)
               PROVE  IF Given THEN call.check => types[i] = Args[i]
                      ELSE /\ GetsOrder(sig.types[i]) => Denotes(Binding, sig.types[i], types[i])
                           /\ IsArray(types[i]) /\ ~BringsSteps(sig.types[i]) =>
                                LET ixs == Indices(Shape(types[i].dims)) IN
                                { Address(types[i].dims, ix) : ix \in ixs } = 0 .. Cardinality(ixs) - 1
  BY DEF OutputsHaveTheirPlaces
<1>2. Inferring
  BY <1>1 DEF Inv, Inferring, Matched, CallInv, TableInv
<1>3. i \in 1 .. Len(sig.types)
  <2>1. Len(types) = Len(sig.types) /\ sig.nin \in Nat /\ Len(sig.types) \in Nat
    BY <1>1, <1>2, ArityProperties, IsSeqProperties DEF Inv, Inferring, Matched, TypesInv
  <2> QED
    BY <2>1
<1>4. CASE Given
  BY <1>1, <1>4 DEF OutInv
<1>5. CASE ~Given
  <2>1. PICK p, c : p = sig.types[i] /\ c = types[i]
    OBVIOUS
  <2>2. ~Refused(p) /\ c = Final(p) /\ (Reversed(p) => IsArray(Inferred(p)))
    BY <1>1, <1>5, <2>1 DEF OutInv
  <2>3. p.dtype.kind # "any" /\ ~Mixes(p)
    BY <2>2 DEF Refused
  <2>4. GetsOrder(p) => Denotes(Binding, p, c)
    BY <1>2, <1>3, <2>1, <2>2, <2>3, FinalDenotes
  <2>5. ASSUME IsArray(c), ~BringsSteps(p)
        PROVE  LET ixs == Indices(Shape(c.dims)) IN
               { Address(c.dims, ix) : ix \in ixs } = 0 .. Cardinality(ixs) - 1
    <3>1. Packed(Final(p).dims)
      BY <1>2, <1>3, <2>1, <2>2, <2>3, <2>5, FinalPacked
    <3>2. Packed(c.dims)
      BY <2>2, <3>1
    <3> QED
      BY <3>2, PackedPlaces
  <2> QED
    BY <1>5, <2>1, <2>4, <2>5
<1> QED
  BY <1>4, <1>5

\* The type that ndt_substitute infers for an output is one that its type in
\* the signature stands for, with the order that is asked for; an inferred
\* array has one place for each index and leaves no place unused, whether its
\* dimensions are added around a type (ndt_fixed_dim), put into Fortran order
\* (ndt_to_fortran) or broadcast (broadcast in match.c), unless it is put around
\* an argument that has gaps; and an output that is checked again is taken as it
\* is.  Ragged dimensions are left out.
THEOREM OutputsHaveTheirPlacesHolds == Spec => [](Ellipsis # "var" => OutputsHaveTheirPlaces)
<1>1. Init => OutInv
  BY DEF Init, OutInv
<1>2. Inv /\ OutInv /\ [Next]_vars => OutInv'
  BY NextOut
<1>3. Inv /\ OutInv => (Ellipsis # "var" => OutputsHaveTheirPlaces)
  BY InvOutputs
<1> QED
  BY <1>1, <1>2, <1>3, InvHolds, PTL DEF Spec
=============================================================================
