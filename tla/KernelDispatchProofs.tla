------------------------- MODULE KernelDispatchProofs ------------------------
(***************************************************************************)
(* What the calls of MCKernelDispatch show of xnd_split and select_kernel  *)
(* holds whatever their bounds.                                            *)
(*                                                                         *)
(* That the chosen kernel finds every element (KernelFits): the address of *)
(* an element splits into the dimensions that the loops follow and those   *)
(* that the kernel follows (AddressSplit); what the flags leave of the     *)
(* kernels fits the layout of the latter (Fit, ChosenFits), so that the    *)
(* kernel's own order leads to the same address (FitFinds); and a slice    *)
(* keeps the steps, and the inner dimensions, that this rests on (FitCut). *)
(***************************************************************************)
EXTENDS MCKernelDispatch, SplitProofs

-----------------------------------------------------------------------------
(* Calls.                                                                  *)

\* Init gives a call of one operation.
LEMMA Operations ==
  /\ ChooseLink => call.op = "link"
  /\ ChooseSplit => call.op = "split"
  /\ ChooseSelect => call.op = "select"
  /\ ChooseLookup => call.op = "lookup"
  /\ ChooseBinary \/ ChooseCopy \/ ChooseReduce => call.op = "apply"
<1>1. ChooseLink => call.op = "link"
  BY DEF ChooseLink
<1>2. ChooseSplit => call.op = "split"
  <2>1. \A nparts, dims, max_outer :
          [op |-> "split", nparts |-> nparts, dims |-> dims, max_outer |-> max_outer].op = "split"
    OBVIOUS
  <2> QED
    BY <2>1, Zenon DEF ChooseSplit
<1>3. ChooseSelect => call.op = "select"
  <2>1. \A args, outer, set :
          [op |-> "select", args |-> args, outer |-> outer, set |-> set].op = "select"
    OBVIOUS
  <2> QED
    BY <2>1, Zenon DEF ChooseSelect
<1>4. ChooseLookup => call.op = "lookup"
  <2>1. \A device, f, args, out, dims_match :
          [op |-> "lookup", device |-> device, f |-> f, args |-> args, out |-> out,
           dims_match |-> dims_match].op = "lookup"
    OBVIOUS
  <2>2. ASSUME ChooseLookup
        PROVE  \E device, f, args, out, dims_match :
                 call = [op |-> "lookup", device |-> device, f |-> f, args |-> args, out |-> out,
                         dims_match |-> dims_match]
    BY <2>2, Zenon DEF ChooseLookup
  <2> QED
    BY <2>1, <2>2, Zenon
<1>5. ChooseBinary \/ ChooseCopy \/ ChooseReduce => call.op = "apply"
  <2>1. \A kernel, name, sync, stack :
          [op |-> "apply", kernel |-> kernel, name |-> name, sync |-> sync,
           stack |-> stack].op = "apply"
    OBVIOUS
  <2> DEFINE HasResult ==
        \E kernel, name, sync, stack :
           call = [op |-> "apply", kernel |-> kernel, name |-> name, sync |-> sync,
                   stack |-> stack]
  <2>2. ChooseBinary => HasResult
    BY ZenonT(60) DEF ChooseBinary
  <2>3. ChooseCopy => HasResult
    BY Zenon DEF ChooseCopy
  <2>4. ChooseReduce => HasResult
    BY Zenon DEF ChooseReduce
  <2> QED
    BY <2>1, <2>2, <2>3, <2>4, Zenon
<1> QED
  BY <1>1, <1>2, <1>3, <1>4, <1>5

-----------------------------------------------------------------------------
(* Splitting.                                                              *)

\* A call of xnd_split is given with any number of parts and any shape, and has
\* no other result than that of xnd_split.
SplitInv ==
  call.op = "split" =>
    /\ call.nparts \in Int /\ call.dims \in Seq(Nat) /\ call.max_outer \in Nat
    /\ result # NotYet => result = xnd_split(call.nparts, call.dims, call.max_outer)

LEMMA SplitCalls ==
  ASSUME ChooseSplit
  PROVE  call.nparts \in Int /\ call.dims \in Seq(Nat) /\ call.max_outer \in Nat
<1>1. MaxParts \in Nat /\ MaxDims \in Nat /\ MaxShape \in Nat
  BY BoundsAssumption
<1>2. PICK nparts \in 0..MaxParts, max_outer \in 1..MaxDims :
        \E dims \in UNION {[1..len -> 0..MaxShape] : len \in 0..MaxDims} :
            call = [op |-> "split", nparts |-> nparts, dims |-> dims, max_outer |-> max_outer]
  BY DEF ChooseSplit
<1>3. PICK len \in 0..MaxDims : \E dims \in [1..len -> 0..MaxShape] :
        call = [op |-> "split", nparts |-> nparts, dims |-> dims, max_outer |-> max_outer]
  BY <1>2
<1>4. PICK dims \in [1..len -> 0..MaxShape] :
        call = [op |-> "split", nparts |-> nparts, dims |-> dims, max_outer |-> max_outer]
  BY <1>3
<1>5. len \in Nat /\ dims \in [1..len -> Nat]
  BY <1>1
<1>6. dims \in Seq(Nat)
  BY <1>5, FunctionsAreSequences
<1>7. nparts \in Int /\ max_outer \in Nat
  BY <1>1
<1> QED
  BY <1>4, <1>6, <1>7

LEMMA SplitInvInit ==
  ASSUME Init
  PROVE  SplitInv
<1>1. result = NotYet
  BY DEF Init
<1>2. CASE ChooseSplit
  BY <1>1, <1>2, SplitCalls DEF SplitInv
<1>3. CASE ~ChooseSplit
  <2>1. call.op # "split"
    BY <1>3, Operations DEF Init
  <2> QED
    BY <2>1 DEF SplitInv
<1> QED
  BY <1>2, <1>3

LEMMA SplitInvNext ==
  ASSUME SplitInv, [Next]_vars
  PROVE  SplitInv'
<1>1. CASE CutForThreads
  BY <1>1 DEF CutForThreads, Is, SplitInv
<1>2. CASE Select \/ LookUp \/ Link \/ Apply
  <2>1. call' = call /\ call.op # "split"
    BY <1>2 DEF Select, LookUp, Link, Apply, Is
  <2> QED
    BY <2>1 DEF SplitInv
<1>3. CASE UNCHANGED vars
  BY <1>3 DEF vars, SplitInv
<1> QED
  BY <1>1, <1>2, <1>3 DEF Next

\* Every call of xnd_split cuts the outer dimensions into a partition, for all
\* bounds on the number of parts and on the dimensions.
THEOREM PartitionHolds == Spec => []Partition
<1>1. SplitInv => Partition
  <2> SUFFICES ASSUME SplitInv, SplitOk
               PROVE  Partitions(result.rows, call.nparts, Outer)
    BY DEF Partition
  <2>1. /\ call.nparts \in Int /\ call.dims \in Seq(Nat) /\ call.max_outer \in Nat
        /\ result = xnd_split(call.nparts, call.dims, call.max_outer)
        /\ result.ok
    BY DEF SplitInv, SplitOk, Given
  <2> QED
    BY <2>1, SplitPartitions DEF Outer
<1> QED
  BY <1>1, SplitInvInit, SplitInvNext, PTL DEF Spec

-----------------------------------------------------------------------------
(* Sums and products.                                                      *)

\* What MapThenFoldSet computes on the positions of s: its recursion holds for
\* any function that it may choose.
LEMMA SumRuns ==
  ASSUME NEW n \in Nat, NEW s \in [1..n -> Int]
  PROVE  \E g \in [0..n -> Int] : /\ g[0] = 0 /\ Sum(s) = g[n]
                                  /\ \A i \in 1..n : g[i] = g[i - 1] + s[i]
<1> DEFINE P == SUBSET (1..n)
           iter[S \in SUBSET DOMAIN s] ==
              IF S = {} THEN 0 ELSE LET x == Max(S) IN iter[S \ {x}] + s[x]
           Rule(f) == [S \in P |-> IF S = {} THEN 0 ELSE f[S \ {Max(S)}] + s[Max(S)]]
           h == [i \in 1..n |-> [a \in Int |-> a + s[i]]]
<1>1. Sum(s) = iter[1..n]
  BY DEF Sum, FoldLeft, MapThenFoldSet
<1>2. iter = CHOOSE f : f = Rule(f)
  OBVIOUS
<1>3. PICK F \in [P -> Int] : Iterates(F, n, 0, h)
  <2>1. h \in [1..n -> [Int -> Int]] /\ 0 \in Int
    OBVIOUS
  <2> HIDE DEF h
  <2> QED
    BY <2>1, Iteration
<1>4. ASSUME NEW S \in P, S # {}
      PROVE  F[S] = F[S \ {Max(S)}] + s[Max(S)]
  <2>1. PICK m \in 1..n, T \in P : m = Max(S) /\ T = S \ {m} /\ S = T \cup {m}
                                  /\ T \in SUBSET (1..(m - 1))
    BY <1>4, LargestPosition
  <2>2. F[S] = h[m][F[T]]
    <3> HIDE DEF h
    <3>1. F[T \cup {m}] = h[m][F[T]]
      BY <1>3, <2>1, Zenon DEF Iterates
    <3> QED
      BY <2>1, <3>1
  <2>3. F[T] \in Int
    OBVIOUS
  <2>4. h[m][F[T]] = F[T] + s[m]
    BY <2>3
  <2> QED
    BY <2>1, <2>2, <2>4
<1>5. F = Rule(F)
  <2>1. F[{}] = 0
    BY <1>3 DEF Iterates
  <2> HIDE DEF P
  <2> QED
    BY <1>3, <1>4, <2>1
<1> HIDE DEF iter, P, h
<1>6. iter = Rule(iter)
  <2> HIDE DEF Rule
  <2> QED
    BY <1>2, <1>5, Zenon
<1>7. iter[{}] = 0
  BY <1>6 DEF P
<1>8. ASSUME NEW i \in 1..n
      PROVE  iter[1..i] = iter[1..(i - 1)] + s[i]
  <2>1. Max(1..i) = i /\ (1..i) \ {i} = 1..(i - 1) /\ 1..i # {} /\ 1..i \in P
    BY UpToMax DEF P
  <2>2. iter[1..i] = iter[(1..i) \ {Max(1..i)}] + s[Max(1..i)]
    BY <1>6, <2>1
  <2> QED
    BY <2>1, <2>2
<1> DEFINE G == [i \in 0..n |-> iter[1..i]]
<1>9. \A i \in 0..n : G[i] \in Int
  <2> DEFINE S == {i \in Nat : i <= n => iter[1..i] \in Int}
  <2>1. 0 \in S
    <3>1. 1..0 = {}
      OBVIOUS
    <3> QED
      BY <1>7, <3>1
  <2>2. ASSUME NEW i \in Nat, i \in S
        PROVE  i + 1 \in S
    <3> SUFFICES ASSUME i + 1 <= n
                 PROVE  iter[1..(i + 1)] \in Int
      OBVIOUS
    <3>1. i + 1 \in 1..n /\ (i + 1) - 1 = i /\ iter[1..i] \in Int
      BY <2>2
    <3>2. iter[1..(i + 1)] = iter[1..i] + s[i + 1]
      BY <1>8, <3>1
    <3> QED
      BY <3>1, <3>2
  <2> HIDE DEF S
  <2>3. \A i \in Nat : i \in S
    BY <2>1, <2>2, NatSetInduction
  <2> QED
    BY <2>3 DEF S
<1>10. G \in [0..n -> Int] /\ G[0] = 0 /\ G[n] = Sum(s)
  <2>1. 1..0 = {}
    OBVIOUS
  <2> QED
    BY <1>1, <1>7, <1>9, <2>1
<1>11. \A i \in 1..n : G[i] = G[i - 1] + s[i]
  BY <1>8
<1> HIDE DEF G
<1> QED
  BY <1>10, <1>11

LEMMA SumInt ==
  ASSUME NEW n \in Nat, NEW s \in [1..n -> Int]
  PROVE  Sum(s) \in Int
BY SumRuns

\* A sum is that of the first m terms and that of the others.
LEMMA SumSplit ==
  ASSUME NEW n \in Nat, NEW s \in [1..n -> Int], NEW m \in 0..n
  PROVE  Sum(s) = Sum([i \in 1..m |-> s[i]]) + Sum([i \in 1..(n - m) |-> s[m + i]])
<1> DEFINE front == [i \in 1..m |-> s[i]]
           back == [i \in 1..(n - m) |-> s[m + i]]
<1>1. PICK k \in Nat : k = n - m /\ m \in Nat
  OBVIOUS
<1>2. front \in [1..m -> Int] /\ back \in [1..k -> Int]
  BY <1>1
<1>3. PICK g \in [0..n -> Int] : /\ g[0] = 0 /\ Sum(s) = g[n]
                                 /\ \A i \in 1..n : g[i] = g[i - 1] + s[i]
  BY SumRuns
<1>4. PICK f \in [0..m -> Int] : /\ f[0] = 0 /\ Sum(front) = f[m]
                                 /\ \A i \in 1..m : f[i] = f[i - 1] + s[i]
  <2>1. \A i \in 1..m : front[i] = s[i]
    OBVIOUS
  <2> HIDE DEF front
  <2>2. PICK f \in [0..m -> Int] : /\ f[0] = 0 /\ Sum(front) = f[m]
                                   /\ \A i \in 1..m : f[i] = f[i - 1] + front[i]
    BY <1>1, <1>2, SumRuns
  <2> QED
    BY <2>1, <2>2
<1>5. PICK b \in [0..k -> Int] : /\ b[0] = 0 /\ Sum(back) = b[k]
                                 /\ \A i \in 1..k : b[i] = b[i - 1] + s[m + i]
  <2>1. \A i \in 1..k : back[i] = s[m + i]
    BY <1>1
  <2> HIDE DEF back
  <2>2. PICK b \in [0..k -> Int] : /\ b[0] = 0 /\ Sum(back) = b[k]
                                   /\ \A i \in 1..k : b[i] = b[i - 1] + back[i]
    BY <1>1, <1>2, SumRuns
  <2> QED
    BY <2>1, <2>2
<1> HIDE DEF front, back
<1>6. \A i \in Nat : i \in {j \in Nat : j <= m => g[j] = f[j]}
  <2> DEFINE S == {j \in Nat : j <= m => g[j] = f[j]}
  <2>1. 0 \in S
    BY <1>3, <1>4
  <2>2. ASSUME NEW j \in Nat, j \in S
        PROVE  j + 1 \in S
    <3> SUFFICES ASSUME j + 1 <= m
                 PROVE  g[j + 1] = f[j + 1]
      OBVIOUS
    <3>1. j + 1 \in 1..m /\ j + 1 \in 1..n /\ (j + 1) - 1 = j /\ g[j] = f[j]
      BY <1>1, <2>2
    <3> QED
      BY <1>3, <1>4, <3>1
  <2> HIDE DEF S
  <2> QED
    BY <2>1, <2>2, NatSetInduction DEF S
<1>7. g[m] = f[m]
  BY <1>1, <1>6
<1>8. \A i \in Nat : i \in {j \in Nat : j <= k => g[m + j] = g[m] + b[j]}
  <2> DEFINE S == {j \in Nat : j <= k => g[m + j] = g[m] + b[j]}
  <2>1. 0 \in S
    BY <1>1, <1>3, <1>5
  <2>2. ASSUME NEW j \in Nat, j \in S
        PROVE  j + 1 \in S
    <3> SUFFICES ASSUME j + 1 <= k
                 PROVE  g[m + (j + 1)] = g[m] + b[j + 1]
      OBVIOUS
    <3>1. PICK i \in 1..n : i = m + (j + 1) /\ i - 1 = m + j
      BY <1>1
    <3>2. g[i] = g[i - 1] + s[i]
      BY <1>3
    <3>3. j + 1 \in 1..k /\ (j + 1) - 1 = j /\ g[m + j] = g[m] + b[j]
      BY <1>1, <2>2
    <3>4. b[j + 1] = b[j] + s[i]
      BY <1>5, <3>1, <3>3
    <3>5. g[m] \in Int /\ b[j] \in Int /\ s[i] \in Int
      BY <1>1, <3>3
    <3>6. (g[m] + b[j]) + s[i] = g[m] + (b[j] + s[i])
      BY <3>5
    <3> QED
      BY <3>1, <3>2, <3>3, <3>4, <3>6
  <2> HIDE DEF S
  <2> QED
    BY <2>1, <2>2, NatSetInduction DEF S
<1>9. g[n] = g[m] + b[k]
  <2>1. k \in Nat /\ k <= k /\ m + k = n
    BY <1>1
  <2>2. g[m + k] = g[m] + b[k]
    BY <1>8, <2>1
  <2> QED
    BY <2>1, <2>2
<1> QED
  BY <1>3, <1>4, <1>5, <1>7, <1>9 DEF front, back

\* A product of integers is one.
LEMMA ProductInt ==
  ASSUME NEW n \in Nat, NEW s \in [1..n -> Int]
  PROVE  Product(s) \in Int
<1> DEFINE P == SUBSET (1..n)
           iter[S \in SUBSET DOMAIN s] ==
              IF S = {} THEN 1 ELSE LET x == Max(S) IN iter[S \ {x}] * s[x]
           Rule(f) == [S \in P |-> IF S = {} THEN 1 ELSE f[S \ {Max(S)}] * s[Max(S)]]
           h == [i \in 1..n |-> [a \in Int |-> a * s[i]]]
<1>1. Product(s) = iter[1..n]
  BY DEF Product, FoldLeft, MapThenFoldSet
<1>2. iter = CHOOSE f : f = Rule(f)
  OBVIOUS
<1>3. PICK F \in [P -> Int] : Iterates(F, n, 1, h)
  <2>1. \A i \in 1..n : \A a \in Int : a * s[i] \in Int
    <3> SUFFICES ASSUME NEW i \in 1..n, NEW a \in Int
                 PROVE  a * s[i] \in Int
      OBVIOUS
    <3>1. PICK c \in Int : c = s[i]
      OBVIOUS
    <3> QED
      BY <3>1
  <2>2. h \in [1..n -> [Int -> Int]] /\ 1 \in Int
    BY <2>1
  <2> HIDE DEF h
  <2> QED
    BY <2>2, Iteration
<1>4. ASSUME NEW S \in P, S # {}
      PROVE  F[S] = F[S \ {Max(S)}] * s[Max(S)]
  <2>1. PICK m \in 1..n, T \in P : m = Max(S) /\ T = S \ {m} /\ S = T \cup {m}
                                  /\ T \in SUBSET (1..(m - 1))
    BY <1>4, LargestPosition
  <2>2. F[S] = h[m][F[T]]
    <3> HIDE DEF h
    <3>1. F[T \cup {m}] = h[m][F[T]]
      BY <1>3, <2>1, Zenon DEF Iterates
    <3> QED
      BY <2>1, <3>1
  <2>3. F[T] \in Int
    OBVIOUS
  <2>4. h[m][F[T]] = F[T] * s[m]
    BY <2>3
  <2> QED
    BY <2>1, <2>2, <2>4
<1>5. F = Rule(F)
  <2>1. F[{}] = 1
    BY <1>3 DEF Iterates
  <2> HIDE DEF P
  <2> QED
    BY <1>3, <1>4, <2>1
<1> HIDE DEF iter, P, h
<1>6. iter = Rule(iter)
  <2> HIDE DEF Rule
  <2> QED
    BY <1>2, <1>5, Zenon
<1>7. iter[{}] = 1
  BY <1>6 DEF P
<1>8. ASSUME NEW i \in 1..n
      PROVE  iter[1..i] = iter[1..(i - 1)] * s[i]
  <2>1. Max(1..i) = i /\ (1..i) \ {i} = 1..(i - 1) /\ 1..i # {} /\ 1..i \in P
    BY UpToMax DEF P
  <2>2. iter[1..i] = iter[(1..i) \ {Max(1..i)}] * s[Max(1..i)]
    BY <1>6, <2>1
  <2> QED
    BY <2>1, <2>2
<1> DEFINE S == {i \in Nat : i <= n => iter[1..i] \in Int}
<1>9. 0 \in S
  <2>1. 1..0 = {}
    OBVIOUS
  <2> QED
    BY <1>7, <2>1
<1>10. ASSUME NEW i \in Nat, i \in S
       PROVE  i + 1 \in S
  <2> SUFFICES ASSUME i + 1 <= n
               PROVE  iter[1..(i + 1)] \in Int
    OBVIOUS
  <2>1. i + 1 \in 1..n /\ (i + 1) - 1 = i
    OBVIOUS
  <2>2. PICK a \in Int, c \in Int : a = iter[1..i] /\ c = s[i + 1]
    BY <1>10, <2>1
  <2>3. iter[1..(i + 1)] = a * c
    BY <1>8, <2>1, <2>2
  <2> QED
    BY <2>3
<1> HIDE DEF S
<1>11. n \in S
  BY <1>9, <1>10, NatSetInduction
<1> QED
  BY <1>1, <1>11 DEF S

-----------------------------------------------------------------------------
(* Arrays.                                                                 *)

Dim == [shape : Nat, step : Int]
IsArray(x) == x.dims \in Seq(Dim) /\ x.index \in Int

LEMMA ArrayProperties ==
  ASSUME NEW x, IsArray(x)
  PROVE  /\ Ndim(x) \in Nat /\ DOMAIN x.dims = 1..Ndim(x) /\ x.index \in Int
         /\ \A d \in 1..Ndim(x) : x.dims[d].shape \in Nat /\ x.dims[d].step \in Int
         /\ ShapeOf(x) \in Seq(Nat) /\ Len(ShapeOf(x)) = Ndim(x)
         /\ \A d \in 1..Ndim(x) : ShapeOf(x)[d] = x.dims[d].shape
<1>1. PICK n \in Nat : n = Ndim(x) /\ DOMAIN x.dims = 1..n
  BY LenProperties DEF Ndim, IsArray
<1>2. \A d \in 1..n : x.dims[d] \in Dim
  BY <1>1, ElementOfSeq DEF IsArray, Ndim
<1>3. \A d \in 1..n : x.dims[d].shape \in Nat /\ x.dims[d].step \in Int
  BY <1>2 DEF Dim
<1>4. ShapeOf(x) \in [1..n -> Nat] /\ \A d \in 1..n : ShapeOf(x)[d] = x.dims[d].shape
  BY <1>1, <1>3 DEF ShapeOf
<1> QED
  BY <1>1, <1>3, <1>4, FunctionsAreSequences DEF IsArray

\* The steps of contiguous arrays are integers.
LEMMA ContiguousSteps ==
  ASSUME NEW x, IsArray(x), NEW outer \in 0..Ndim(x)
  PROVE  /\ \A d \in 1..Ndim(x) : CStep(x, d) \in Int
         /\ \A d \in (outer + 1)..Ndim(x) : FStep(x, outer, d) \in Int
<1>1. PICK n \in Nat, shape \in Seq(Nat) : n = Ndim(x) /\ shape = ShapeOf(x) /\ Len(shape) = n
  BY ArrayProperties
<1>2. ASSUME NEW a \in 1..(n + 1), NEW b \in 0..n, a <= b + 1
      PROVE  Product(SubSeq(shape, a, b)) \in Int
  <2>1. SubSeq(shape, a, b) \in Seq(Nat)
    BY <1>1, <1>2
  <2>2. PICK s \in Seq(Nat), l \in Nat : s = SubSeq(shape, a, b) /\ l = Len(s)
    BY <2>1, LenProperties
  <2>3. s \in [1..l -> Int]
    <3>1. s \in [1..l -> Nat]
      BY <2>2, LenProperties
    <3> QED
      BY <3>1
  <2> QED
    BY <2>2, <2>3, ProductInt
<1>3. \A d \in 1..n : d + 1 \in 1..(n + 1) /\ n \in 0..n /\ d + 1 <= n + 1
  OBVIOUS
<1>4. \A d \in (outer + 1)..n : outer + 1 \in 1..(n + 1) /\ d - 1 \in 0..n /\ outer + 1 <= (d - 1) + 1
  BY <1>1
<1> QED
  BY <1>1, <1>2, <1>3, <1>4 DEF CStep, FStep

-----------------------------------------------------------------------------
(* Addresses.                                                              *)

LEMMA NextIsInt ==
  ASSUME NEW x, IsArray(x), NEW v, NEW n \in 0..Ndim(x), \A d \in 1..n : v[d] \in Int
  PROVE  xnd_fixed_dim_next(x, v, n) \in Int
<1>1. [d \in 1..n |-> v[d] * x.dims[d].step] \in [1..n -> Int] /\ n \in Nat
  <2>1. ASSUME NEW d \in 1..n
        PROVE  v[d] * x.dims[d].step \in Int
    <3>1. d \in 1..Ndim(x)
      BY ArrayProperties
    <3>2. x.dims[d].step \in Int
      BY <3>1, ArrayProperties
    <3>3. PICK a \in Int, b \in Int : a = v[d] /\ b = x.dims[d].step
      BY <3>2
    <3> QED
      BY <3>3
  <2> QED
    BY <2>1
<1>2. Sum([d \in 1..n |-> v[d] * x.dims[d].step]) \in Int
  BY <1>1, SumInt
<1> QED
  BY <1>2, ArrayProperties DEF xnd_fixed_dim_next

\* After n dimensions the others are followed.
LEMMA AddressSplit ==
  ASSUME NEW x, IsArray(x), NEW v, \A d \in 1..Ndim(x) : v[d] \in Int, NEW n \in 0..Ndim(x)
  PROVE  Address(x, v) = xnd_fixed_dim_next(x, v, n)
                         + Sum([i \in 1..(Ndim(x) - n) |-> v[n + i] * x.dims[n + i].step])
<1>1. PICK N \in Nat : N = Ndim(x)
  BY ArrayProperties
<1>2. PICK t : t = [d \in 1..N |-> v[d] * x.dims[d].step]
  OBVIOUS
<1>3. \A d \in 1..N : t[d] = v[d] * x.dims[d].step
  BY <1>2
<1>4. t \in [1..N -> Int]
  <2>1. ASSUME NEW d \in 1..N
        PROVE  v[d] * x.dims[d].step \in Int
    <3>1. PICK a \in Int, b \in Int : a = v[d] /\ b = x.dims[d].step
      BY <1>1, ArrayProperties
    <3> QED
      BY <3>1
  <2> QED
    BY <1>2, <2>1
<1>5. n \in 0..N
  BY <1>1
<1>6. Sum(t) = Sum([i \in 1..n |-> t[i]]) + Sum([i \in 1..(N - n) |-> t[n + i]])
  BY <1>4, <1>5, SumSplit
<1>7. [i \in 1..n |-> t[i]] = [d \in 1..n |-> v[d] * x.dims[d].step]
  <2>1. \A d \in 1..n : d \in 1..N
    BY <1>5
  <2> QED
    BY <1>3, <2>1
<1>8. [i \in 1..(N - n) |-> t[n + i]] = [i \in 1..(N - n) |-> v[n + i] * x.dims[n + i].step]
  <2>1. \A i \in 1..(N - n) : n + i \in 1..N
    BY <1>5
  <2> QED
    BY <1>3, <2>1
<1>9. PICK a \in Int, b \in Int : /\ a = Sum([d \in 1..n |-> v[d] * x.dims[d].step])
                                  /\ b = Sum([i \in 1..(N - n) |-> v[n + i] * x.dims[n + i].step])
  <2>1. [i \in 1..n |-> t[i]] \in [1..n -> Int] /\ n \in Nat
    BY <1>4, <1>5
  <2>2. [i \in 1..(N - n) |-> t[n + i]] \in [1..(N - n) -> Int] /\ N - n \in Nat
    BY <1>4, <1>5
  <2> QED
    BY <1>7, <1>8, <2>1, <2>2, SumInt
<1>10. Sum(t) = a + b
  BY <1>6, <1>7, <1>8, <1>9
<1>11. Address(x, v) = x.index + Sum(t)
  BY <1>1, <1>2 DEF Address, xnd_fixed_dim_next
<1>12. xnd_fixed_dim_next(x, v, n) = x.index + a
  BY <1>9 DEF xnd_fixed_dim_next
<1> QED
  BY <1>1, <1>9, <1>10, <1>11, <1>12, ArrayProperties

LEMMA NextStep ==
  ASSUME NEW x, IsArray(x), NEW v, \A d \in 1..Ndim(x) : v[d] \in Int, NEW n \in 1..Ndim(x)
  PROVE  xnd_fixed_dim_next(x, v, n) = xnd_fixed_dim_next(x, v, n - 1) + v[n] * x.dims[n].step
<1>1. PICK t : t = [d \in 1..n |-> v[d] * x.dims[d].step]
  OBVIOUS
<1>2. n \in Nat /\ n - 1 \in Nat /\ n - 1 \in 0..n /\ n \in 1..n
  BY ArrayProperties
<1>3. t \in [1..n -> Int]
  <2>1. ASSUME NEW d \in 1..n
        PROVE  v[d] * x.dims[d].step \in Int
    <3>1. d \in 1..Ndim(x)
      BY <1>2, ArrayProperties
    <3>2. PICK a \in Int, b \in Int : a = v[d] /\ b = x.dims[d].step
      BY <3>1, ArrayProperties
    <3> QED
      BY <3>2
  <2> QED
    BY <1>1, <2>1
<1>4. PICK g \in [0..n -> Int] : g[0] = 0 /\ Sum(t) = g[n] /\ \A i \in 1..n : g[i] = g[i - 1] + t[i]
  BY <1>2, <1>3, SumRuns
<1>5. PICK u : u = [d \in 1..(n - 1) |-> t[d]]
  OBVIOUS
<1>6. u = [d \in 1..(n - 1) |-> v[d] * x.dims[d].step]
  <2>1. \A d \in 1..(n - 1) : d \in 1..n
    BY <1>2
  <2> QED
    BY <1>1, <1>5, <2>1
<1>7. Sum(t) = Sum(u) + Sum([i \in 1..(n - (n - 1)) |-> t[(n - 1) + i]])
  BY <1>2, <1>3, <1>5, SumSplit
<1>8. Sum([i \in 1..(n - (n - 1)) |-> t[(n - 1) + i]]) = t[n]
  <2>1. PICK w : w = [i \in 1..(n - (n - 1)) |-> t[(n - 1) + i]]
    OBVIOUS
  <2>2. n - (n - 1) = 1 /\ (n - 1) + 1 = n
    BY <1>2
  <2>3. w \in [1..1 -> Int] /\ w[1] = t[n] /\ t[n] \in Int
    BY <1>2, <1>3, <2>1, <2>2
  <2>4. PICK f \in [0..1 -> Int] : f[0] = 0 /\ Sum(w) = f[1] /\ \A i \in 1..1 : f[i] = f[i - 1] + w[i]
    BY <2>3, SumRuns
  <2>5. f[1] = f[0] + w[1]
    <3>1. 1 \in 1..1 /\ 1 - 1 = 0
      OBVIOUS
    <3> QED
      BY <2>4, <3>1
  <2> QED
    BY <2>1, <2>3, <2>4, <2>5
<1>9. PICK a \in Int, b \in Int : a = Sum(u) /\ b = t[n]
  <2>1. u \in [1..(n - 1) -> Int]
    BY <1>2, <1>3, <1>5
  <2>2. Sum(u) \in Int
    <3>1. PICK m \in Nat : m = n - 1 /\ u \in [1..m -> Int]
      BY <1>2, <2>1
    <3> QED
      BY <3>1, SumInt
  <2>3. t[n] \in Int
    BY <1>2, <1>3
  <2> QED
    BY <2>2, <2>3
<1>10. xnd_fixed_dim_next(x, v, n) = x.index + (a + b)
  BY <1>1, <1>7, <1>8, <1>9 DEF xnd_fixed_dim_next
<1>11. xnd_fixed_dim_next(x, v, n - 1) = x.index + a /\ b = v[n] * x.dims[n].step
  BY <1>1, <1>2, <1>6, <1>9 DEF xnd_fixed_dim_next
<1>12. x.index \in Int
  BY ArrayProperties
<1>13. x.index + (a + b) = (x.index + a) + b
  BY <1>12
<1> QED
  BY <1>10, <1>11, <1>13

-----------------------------------------------------------------------------
(* What a kernel relies on.                                                *)

InPlace(x, d, s) == ~Broken(x, d, s)

\* The layout of the dimensions that the kernel goes through.
Fit(kernel, x, outer) ==
  /\ kernel \in {"OptC", "OptZ", "OptS", "C", "Fortran", "Xnd"}
  /\ kernel \in {"OptC", "OptZ", "OptS"} => outer > 0
  /\ kernel \in {"OptC", "OptZ", "C"} =>
       \A d \in (outer + 1)..Ndim(x) : InPlace(x, d, CStep(x, d))
  /\ kernel = "OptC" => InPlace(x, outer, CStep(x, outer))
  /\ kernel = "OptZ" => InPlace(x, outer, CStep(x, outer)) \/ x.dims[outer].step = 0
  /\ kernel = "Fortran" => \A d \in (outer + 1)..Ndim(x) : InPlace(x, d, FStep(x, outer, d))

LEMMA ElementsProperties ==
  ASSUME NEW x, IsArray(x), NEW v \in Indices(ShapeOf(x))
  PROVE  \A d \in 1..Ndim(x) : v[d] \in Nat /\ v[d] < x.dims[d].shape
<1>1. PICK n \in Nat, shape \in Seq(Nat) : n = Ndim(x) /\ shape = ShapeOf(x) /\ DOMAIN shape = 1..n
  BY ArrayProperties, LenProperties
<1>2. \A d \in 1..n : shape[d] \in Nat /\ shape[d] = x.dims[d].shape
  BY <1>1, ArrayProperties
<1>3. PICK U : U = UNION {0..(shape[d] - 1) : d \in DOMAIN shape}
  OBVIOUS
<1>4. U \subseteq Nat
  BY <1>1, <1>2, <1>3
<1>5. v \in [1..n -> U] /\ \A d \in 1..n : v[d] < shape[d]
  BY <1>1, <1>3 DEF Indices
<1> QED
  BY <1>1, <1>2, <1>4, <1>5

\* An index is 0 where the step is not in place.
LEMMA SameDistance ==
  ASSUME NEW x, IsArray(x), NEW v \in Indices(ShapeOf(x)), NEW d \in 1..Ndim(x),
         NEW t \in Int, InPlace(x, d, t)
  PROVE  v[d] * x.dims[d].step = v[d] * t
<1>1. PICK i \in Nat, m \in Nat, s \in Int : i = v[d] /\ m = x.dims[d].shape /\ s = x.dims[d].step
  BY ArrayProperties, ElementsProperties
<1>2. i < m
  BY <1>1, ElementsProperties
<1>3. m > 1 => s = t
  BY <1>1 DEF InPlace, Broken
<1>4. CASE m > 1
  BY <1>1, <1>3, <1>4
<1>5. CASE ~(m > 1)
  <2>1. i = 0
    BY <1>2, <1>5
  <2>2. 0 * s = 0 /\ 0 * t = 0
    BY SMT
  <2> QED
    BY <1>1, <2>1, <2>2
<1> QED
  BY <1>4, <1>5

LEMMA CFinds ==
  ASSUME NEW x, IsArray(x), NEW v \in Indices(ShapeOf(x)), NEW n \in 0..Ndim(x),
         \A d \in (n + 1)..Ndim(x) : InPlace(x, d, CStep(x, d))
  PROVE  xnd_fixed_dim_next(x, v, n) + COrder(x, v, n) = Address(x, v)
<1>1. PICK N \in Nat : N = Ndim(x)
  BY ArrayProperties
<1>2. \A d \in 1..N : v[d] \in Int
  BY <1>1, ElementsProperties
<1>3. ASSUME NEW i \in 1..(N - n)
      PROVE  v[n + i] * x.dims[n + i].step = v[n + i] * CStep(x, n + i)
  <2>1. n + i \in 1..N /\ n + i \in (n + 1)..N
    BY <1>1
  <2>2. CStep(x, n + i) \in Int
    BY <1>1, <2>1, ContiguousSteps
  <2> QED
    BY <1>1, <2>1, <2>2, SameDistance
<1>4. [i \in 1..(N - n) |-> v[n + i] * x.dims[n + i].step]
        = [i \in 1..(N - n) |-> v[n + i] * CStep(x, n + i)]
  BY <1>3
<1>5. Address(x, v) = xnd_fixed_dim_next(x, v, n)
                      + Sum([i \in 1..(Ndim(x) - n) |-> v[n + i] * x.dims[n + i].step])
  BY <1>1, <1>2, AddressSplit
<1>6. COrder(x, v, n) = Sum([i \in 1..(Ndim(x) - n) |-> v[n + i] * CStep(x, n + i)])
  BY DEF COrder
<1>7. Sum([i \in 1..(Ndim(x) - n) |-> v[n + i] * x.dims[n + i].step]) = COrder(x, v, n)
  BY <1>1, <1>4, <1>6, Zenon
<1> QED
  BY <1>5, <1>7, Zenon

LEMMA FFinds ==
  ASSUME NEW x, IsArray(x), NEW v \in Indices(ShapeOf(x)), NEW n \in 0..Ndim(x),
         \A d \in (n + 1)..Ndim(x) : InPlace(x, d, FStep(x, n, d))
  PROVE  xnd_fixed_dim_next(x, v, n) + FOrder(x, v, n) = Address(x, v)
<1>1. PICK N \in Nat : N = Ndim(x)
  BY ArrayProperties
<1>2. \A d \in 1..N : v[d] \in Int
  BY <1>1, ElementsProperties
<1>3. ASSUME NEW i \in 1..(N - n)
      PROVE  v[n + i] * x.dims[n + i].step = v[n + i] * FStep(x, n, n + i)
  <2>1. n + i \in 1..N /\ n + i \in (n + 1)..N
    BY <1>1
  <2>2. FStep(x, n, n + i) \in Int
    BY <1>1, <2>1, ContiguousSteps
  <2> QED
    BY <1>1, <2>1, <2>2, SameDistance
<1>4. [i \in 1..(N - n) |-> v[n + i] * x.dims[n + i].step]
        = [i \in 1..(N - n) |-> v[n + i] * FStep(x, n, n + i)]
  BY <1>3
<1>5. Address(x, v) = xnd_fixed_dim_next(x, v, n)
                      + Sum([i \in 1..(Ndim(x) - n) |-> v[n + i] * x.dims[n + i].step])
  BY <1>1, <1>2, AddressSplit
<1>6. FOrder(x, v, n) = Sum([i \in 1..(Ndim(x) - n) |-> v[n + i] * FStep(x, n, n + i)])
  BY DEF FOrder
<1>7. Sum([i \in 1..(Ndim(x) - n) |-> v[n + i] * x.dims[n + i].step]) = FOrder(x, v, n)
  BY <1>1, <1>4, <1>6, Zenon
<1> QED
  BY <1>5, <1>7, Zenon

\* A kernel that fits the layout finds each element at its address.
LEMMA FitFinds ==
  ASSUME NEW x, IsArray(x), NEW v \in Indices(ShapeOf(x)), NEW outer \in 0..Ndim(x),
         NEW kernel, Fit(kernel, x, outer)
  PROVE  gm_xnd_map(kernel, x, v, outer) = Address(x, v)
<1>1. PICK N \in Nat : N = Ndim(x) /\ outer \in Nat
  BY ArrayProperties
<1>2. \A d \in 1..N : v[d] \in Int
  BY <1>1, ElementsProperties
<1>3. CASE kernel = "C"
  <2>1. LoopDims(kernel, outer) = outer
    BY <1>3 DEF LoopDims
  <2>2. gm_xnd_map(kernel, x, v, outer) = xnd_fixed_dim_next(x, v, outer) + COrder(x, v, outer)
    BY <1>3, <2>1 DEF gm_xnd_map
  <2> QED
    BY <1>3, <2>2, CFinds DEF Fit
<1>4. CASE kernel = "Fortran"
  <2>1. LoopDims(kernel, outer) = outer
    BY <1>4 DEF LoopDims
  <2>2. gm_xnd_map(kernel, x, v, outer) = xnd_fixed_dim_next(x, v, outer) + FOrder(x, v, outer)
    BY <1>4, <2>1 DEF gm_xnd_map
  <2> QED
    BY <1>4, <2>2, FFinds DEF Fit
<1>5. CASE kernel = "OptC"
  <2>1. LoopDims(kernel, outer) = outer - 1
    BY <1>5 DEF LoopDims
  <2>2. gm_xnd_map(kernel, x, v, outer)
          = xnd_fixed_dim_next(x, v, outer - 1) + COrder(x, v, outer - 1)
    BY <1>5, <2>1 DEF gm_xnd_map
  <2>3. outer - 1 \in 0..Ndim(x) /\ (outer - 1) + 1 = outer
    BY <1>1, <1>5 DEF Fit
  <2>4. \A d \in outer..Ndim(x) : InPlace(x, d, CStep(x, d))
    <3>1. \A d \in outer..Ndim(x) : d = outer \/ d \in (outer + 1)..Ndim(x)
      BY <1>1
    <3> QED
      BY <1>5, <3>1 DEF Fit
  <2> QED
    BY <2>2, <2>3, <2>4, CFinds
<1>6. CASE kernel = "OptZ"
  <2>1. LoopDims(kernel, outer) = outer - 1
    BY <1>6 DEF LoopDims
  <2>2. gm_xnd_map(kernel, x, v, outer)
          = xnd_fixed_dim_next(x, v, outer - 1) + COrder(x, v, outer)
            + (IF x.dims[outer].step = 0 THEN 0 ELSE v[outer] * CStep(x, outer))
    BY <1>6, <2>1 DEF gm_xnd_map
  <2>3. outer \in 1..N
    BY <1>1, <1>6 DEF Fit
  <2>4. xnd_fixed_dim_next(x, v, outer)
          = xnd_fixed_dim_next(x, v, outer - 1) + v[outer] * x.dims[outer].step
    BY <1>1, <1>2, <2>3, NextStep
  <2>5. (IF x.dims[outer].step = 0 THEN 0 ELSE v[outer] * CStep(x, outer)) = v[outer] * x.dims[outer].step
    <3>1. CASE x.dims[outer].step = 0
      <4>1. v[outer] * 0 = 0
        BY <1>2, <2>3
      <4> QED
        BY <3>1, <4>1
    <3>2. CASE x.dims[outer].step # 0
      <4>1. InPlace(x, outer, CStep(x, outer)) /\ CStep(x, outer) \in Int
        BY <1>1, <1>6, <2>3, <3>2, ContiguousSteps DEF Fit
      <4>2. v[outer] * x.dims[outer].step = v[outer] * CStep(x, outer)
        BY <1>1, <2>3, <4>1, SameDistance
      <4> QED
        BY <3>2, <4>2
    <3> QED
      BY <3>1, <3>2
  <2>6. xnd_fixed_dim_next(x, v, outer) + COrder(x, v, outer) = Address(x, v)
    BY <1>6, CFinds DEF Fit
  <2>7. PICK a \in Int, b \in Int, c \in Int :
          /\ a = xnd_fixed_dim_next(x, v, outer - 1) /\ b = COrder(x, v, outer)
          /\ c = v[outer] * x.dims[outer].step
    <3>1. outer - 1 \in 0..N /\ \A d \in 1..(outer - 1) : d \in 1..N
      BY <1>1, <2>3
    <3>2. xnd_fixed_dim_next(x, v, outer - 1) \in Int
      BY <1>1, <1>2, <3>1, NextIsInt
    <3>3. v[outer] * x.dims[outer].step \in Int
      <4>1. PICK i \in Int, s \in Int : i = v[outer] /\ s = x.dims[outer].step
        BY <1>1, <1>2, <2>3, ArrayProperties
      <4> QED
        BY <4>1
    <3>4. COrder(x, v, outer) \in Int
      <4>1. ASSUME NEW i \in 1..(N - outer)
            PROVE  v[outer + i] * CStep(x, outer + i) \in Int
        <5>1. outer + i \in 1..N
          BY <1>1
        <5>2. PICK j \in Int, s \in Int : j = v[outer + i] /\ s = CStep(x, outer + i)
          BY <1>1, <1>2, <5>1, ContiguousSteps
        <5> QED
          BY <5>2
      <4>2. [i \in 1..(N - outer) |-> v[outer + i] * CStep(x, outer + i)] \in [1..(N - outer) -> Int]
        BY <4>1
      <4>3. N - outer \in Nat
        BY <1>1
      <4> QED
        BY <1>1, <4>2, <4>3, SumInt DEF COrder
    <3> QED
      BY <3>2, <3>3, <3>4
  <2>8. gm_xnd_map(kernel, x, v, outer) = a + b + c
    BY <2>2, <2>5, <2>7
  <2>9. Address(x, v) = (a + c) + b
    BY <2>4, <2>6, <2>7
  <2> QED
    BY <2>7, <2>8, <2>9
<1>7. CASE kernel \in {"OptS", "Xnd"}
  BY <1>7 DEF gm_xnd_map
<1> QED
  BY <1>3, <1>4, <1>5, <1>6, <1>7 DEF Fit

-----------------------------------------------------------------------------
(* Cuts.                                                                   *)

\* An argument that is an ndarray.
Ndarray == [var : BOOLEAN, dims : Seq(Dim), index : Int]

\* The slices of a row keep the steps and never make a dimension larger.
LEMMA SlicedProperties ==
  ASSUME NEW x \in Ndarray, NEW row \in Seq(Slice), Len(row) <= Ndim(x),
         \A d \in 1..Len(row) : /\ row[d].start < row[d].stop
                                /\ row[d].stop <= x.dims[d].shape
  PROVE  /\ IsArray(Sliced(x, row)) /\ Ndim(Sliced(x, row)) = Ndim(x)
         /\ \A d \in 1..Ndim(x) : /\ Sliced(x, row).dims[d].step = x.dims[d].step
                                  /\ Sliced(x, row).dims[d].shape <= x.dims[d].shape
                                  /\ d > Len(row) => Sliced(x, row).dims[d].shape = x.dims[d].shape
<1>1. IsArray(x)
  BY DEF IsArray, Ndarray
<1>2. PICK N \in Nat, l \in Nat : N = Ndim(x) /\ l = Len(row) /\ DOMAIN x.dims = 1..N /\ DOMAIN row = 1..l
  BY <1>1, ArrayProperties, LenProperties
<1>3. \A d \in 1..l : d \in 1..N /\ row[d].start \in Nat /\ row[d].stop \in Nat
  <2>1. \A d \in 1..l : row[d] \in Slice /\ d \in 1..N
    BY <1>2, ElementOfSeq
  <2> QED
    BY <2>1 DEF Slice
<1>4. \A d \in 1..N : x.dims[d] \in Dim
  BY <1>2, ElementOfSeq DEF Ndarray, Ndim
<1> DEFINE first == [d \in DOMAIN row |-> row[d].start]
           cut(d) == IF d \in DOMAIN row
                     THEN [x.dims[d] EXCEPT !.shape = row[d].stop - row[d].start]
                     ELSE x.dims[d]
           dims == [d \in DOMAIN x.dims |-> cut(d)]
           y == Sliced(x, row)
<1>5. y.dims = dims /\ y.index = xnd_fixed_dim_next(x, first, Len(row))
  BY DEF Sliced, Ndarray
<1>6. y.index \in Int
  <2>1. \A d \in 1..l : first[d] \in Int
    BY <1>2, <1>3
  <2>2. l \in 0..Ndim(x)
    BY <1>2
  <2> HIDE DEF first, y
  <2> QED
    BY <1>1, <1>2, <1>5, <2>1, <2>2, NextIsInt
<1>7. ASSUME NEW d \in 1..N
      PROVE  /\ cut(d) \in Dim /\ cut(d).step = x.dims[d].step /\ cut(d).shape <= x.dims[d].shape
             /\ d > l => cut(d).shape = x.dims[d].shape
  <2>1. PICK m \in Nat, s \in Int : x.dims[d] = [shape |-> m, step |-> s]
    BY <1>4 DEF Dim
  <2>2. CASE d \in 1..l
    <3>1. PICK a \in Nat, b \in Nat : a = row[d].start /\ b = row[d].stop /\ a < b /\ b <= m
      BY <1>2, <1>3, <2>1, <2>2
    <3>2. cut(d) = [shape |-> b - a, step |-> s]
      BY <1>2, <2>1, <2>2, <3>1
    <3>3. b - a \in Nat /\ b - a <= m
      BY <3>1
    <3> HIDE DEF cut
    <3> QED
      BY <1>2, <2>1, <2>2, <3>2, <3>3 DEF Dim
  <2>3. CASE d \notin 1..l
    <3>1. cut(d) = [shape |-> m, step |-> s]
      BY <1>2, <2>1, <2>3
    <3> HIDE DEF cut
    <3> QED
      BY <2>1, <3>1 DEF Dim
  <2> QED
    BY <2>2, <2>3
<1> HIDE DEF cut, y
<1>8. \A d \in 1..N : dims[d] = cut(d)
  BY <1>2
<1>9. dims \in [1..N -> Dim]
  BY <1>2, <1>7
<1>10. dims \in Seq(Dim) /\ Len(dims) = N
  <2> HIDE DEF dims
  <2> QED
    BY <1>9, FunctionsAreSequences
<1> HIDE DEF dims
<1>11. IsArray(y) /\ Ndim(y) = N
  BY <1>5, <1>6, <1>10 DEF IsArray, Ndim
<1> QED
  BY <1>2, <1>5, <1>7, <1>8, <1>11 DEF y

LEMMA SameParts ==
  ASSUME NEW N \in Nat, NEW s \in Seq(Nat), NEW t \in Seq(Nat), Len(s) = N, Len(t) = N,
         NEW a \in 1..(N + 1), NEW b \in 0..N, a <= b + 1, \A i \in a..b : s[i] = t[i]
  PROVE  SubSeq(t, a, b) = SubSeq(s, a, b)
<1>1. SubSeq(t, a, b) \in Seq(Nat)
  OBVIOUS
<1>2. SubSeq(s, a, b) \in Seq(Nat)
  OBVIOUS
<1>3. PICK u \in Seq(Nat) : u = SubSeq(t, a, b)
  BY <1>1
<1>4. PICK w \in Seq(Nat) : w = SubSeq(s, a, b)
  BY <1>2
<1>5. Len(u) = b - a + 1 /\ \A i \in 1..(b - a + 1) : u[i] = t[a + i - 1]
  BY <1>3
<1>6. Len(w) = b - a + 1 /\ \A i \in 1..(b - a + 1) : w[i] = s[a + i - 1]
  BY <1>4
<1>7. \A i \in 1..(b - a + 1) : u[i] = w[i]
  BY <1>5, <1>6
<1>8. u \in [1..(b - a + 1) -> Nat] /\ w \in [1..(b - a + 1) -> Nat]
  BY <1>5, <1>6, LenProperties
<1>9. u = w
  BY <1>7, <1>8
<1> QED
  BY <1>3, <1>4, <1>9

\* Where the inner dimensions are the same, contiguous steps are.
LEMMA SameSteps ==
  ASSUME NEW x, NEW y, IsArray(x), IsArray(y), Ndim(y) = Ndim(x), NEW outer \in 0..Ndim(x),
         \A d \in (outer + 1)..Ndim(x) : y.dims[d].shape = x.dims[d].shape
  PROVE  /\ \A d \in outer..Ndim(x) : CStep(y, d) = CStep(x, d)
         /\ \A d \in (outer + 1)..Ndim(x) : FStep(y, outer, d) = FStep(x, outer, d)
<1>1. PICK N \in Nat, s \in Seq(Nat) : /\ N = Ndim(x) /\ s = ShapeOf(x) /\ Len(s) = N
                                     /\ \A d \in 1..N : s[d] = x.dims[d].shape
  <2>1. /\ Ndim(x) \in Nat /\ ShapeOf(x) \in Seq(Nat) /\ Len(ShapeOf(x)) = Ndim(x)
        /\ \A d \in 1..Ndim(x) : ShapeOf(x)[d] = x.dims[d].shape
    BY ArrayProperties, Zenon
  <2> QED
    BY <2>1, Zenon
<1>2. PICK t \in Seq(Nat) : /\ t = ShapeOf(y) /\ Len(t) = N
                           /\ \A d \in 1..N : t[d] = y.dims[d].shape
  <2>1. /\ ShapeOf(y) \in Seq(Nat) /\ Len(ShapeOf(y)) = Ndim(y)
        /\ \A d \in 1..Ndim(y) : ShapeOf(y)[d] = y.dims[d].shape
    <3>1. \A z : IsArray(z) =>
            /\ ShapeOf(z) \in Seq(Nat) /\ Len(ShapeOf(z)) = Ndim(z)
            /\ \A d \in 1..Ndim(z) : ShapeOf(z)[d] = z.dims[d].shape
      BY ArrayProperties, Zenon
    <3> QED
      BY <3>1
  <2>2. Ndim(y) = N
    BY <1>1
  <2>3. Len(ShapeOf(y)) = N /\ \A d \in 1..N : ShapeOf(y)[d] = y.dims[d].shape
    BY <2>1, <2>2
  <2> QED
    BY <2>1, <2>3, Zenon
<1>3. outer \in Nat
  BY <1>1
<1>4. \A d \in (outer + 1)..N : s[d] = t[d]
  <2>1. \A d \in (outer + 1)..N : d \in 1..N
    BY <1>3
  <2> QED
    BY <1>1, <1>2, <2>1, Zenon
<1>5. ASSUME NEW a \in 1..(N + 1), NEW b \in 0..N, a > outer, a <= b + 1
      PROVE  SubSeq(t, a, b) = SubSeq(s, a, b)
  <2>1. \A i \in a..b : i \in (outer + 1)..N
    BY <1>3, <1>5
  <2>2. \A i \in a..b : s[i] = t[i]
    BY <1>4, <2>1, Zenon
  <2> QED
    BY <1>1, <1>2, <1>5, <2>2, SameParts
<1>6. \A d \in outer..N : SubSeq(t, d + 1, N) = SubSeq(s, d + 1, N)
  <2>1. \A d \in outer..N : d + 1 \in 1..(N + 1) /\ d + 1 > outer /\ N \in 0..N /\ d + 1 <= N + 1
    BY <1>3
  <2> QED
    BY <1>5, <2>1
<1>7. \A d \in (outer + 1)..N : SubSeq(t, outer + 1, d - 1) = SubSeq(s, outer + 1, d - 1)
  <2>1. \A d \in (outer + 1)..N : /\ outer + 1 \in 1..(N + 1) /\ outer + 1 > outer
                                  /\ d - 1 \in 0..N /\ outer + 1 <= (d - 1) + 1
    BY <1>3
  <2> QED
    BY <1>5, <2>1
<1>8. \A d : CStep(x, d) = Product(SubSeq(s, d + 1, N)) /\ CStep(y, d) = Product(SubSeq(t, d + 1, N))
  BY <1>1, <1>2 DEF CStep
<1>9. \A d : /\ FStep(x, outer, d) = Product(SubSeq(s, outer + 1, d - 1))
             /\ FStep(y, outer, d) = Product(SubSeq(t, outer + 1, d - 1))
  BY <1>1, <1>2 DEF FStep
<1> QED
  BY <1>1, <1>6, <1>7, <1>8, <1>9

\* A kernel that fits the whole array fits what is left of it when outer
\* dimensions are cut.
LEMMA FitCut ==
  ASSUME NEW x \in Ndarray, NEW outer \in 0..Ndim(x), NEW kernel, Fit(kernel, x, outer),
         NEW row \in Seq(Slice), Len(row) <= outer,
         \A d \in 1..Len(row) : /\ row[d].start < row[d].stop
                                /\ row[d].stop <= x.dims[d].shape
  PROVE  /\ IsArray(Sliced(x, row)) /\ Ndim(Sliced(x, row)) = Ndim(x)
         /\ Fit(kernel, Sliced(x, row), outer)
<1>1. IsArray(x) /\ outer \in Nat /\ Ndim(x) \in Nat
  <2>1. IsArray(x)
    BY DEF IsArray, Ndarray
  <2> QED
    BY <2>1, ArrayProperties
<1>2. PICK y : y = Sliced(x, row)
  OBVIOUS
<1>3. /\ IsArray(y) /\ Ndim(y) = Ndim(x)
      /\ \A d \in 1..Ndim(x) : /\ y.dims[d].step = x.dims[d].step
                               /\ y.dims[d].shape <= x.dims[d].shape
                               /\ d > Len(row) => y.dims[d].shape = x.dims[d].shape
  <2>1. Len(row) <= Ndim(x)
    BY <1>1, LenProperties
  <2> QED
    BY <1>2, <2>1, SlicedProperties
<1>4. /\ \A d \in outer..Ndim(x) : CStep(y, d) = CStep(x, d)
      /\ \A d \in (outer + 1)..Ndim(x) : FStep(y, outer, d) = FStep(x, outer, d)
  <2>1. \A d \in (outer + 1)..Ndim(x) : d \in 1..Ndim(x) /\ d > Len(row)
    BY <1>1, LenProperties
  <2>2. \A d \in (outer + 1)..Ndim(x) : y.dims[d].shape = x.dims[d].shape
    BY <1>3, <2>1
  <2> QED
    BY <1>1, <1>3, <2>2, SameSteps
<1>5. ASSUME NEW d \in 1..Ndim(x), NEW s, InPlace(x, d, s)
      PROVE  InPlace(y, d, s)
  <2>1. PICK m \in Nat, l \in Nat : m = y.dims[d].shape /\ l = x.dims[d].shape /\ m <= l
    BY <1>1, <1>3, ArrayProperties
  <2>2. m > 1 => l > 1
    BY <2>1
  <2> QED
    BY <1>3, <1>5, <2>1, <2>2 DEF InPlace, Broken
<1>6. \A d \in (outer + 1)..Ndim(x) : d \in 1..Ndim(x) /\ d \in outer..Ndim(x)
  BY <1>1
<1>7. outer > 0 => outer \in 1..Ndim(x) /\ outer \in outer..Ndim(x)
  BY <1>1
<1>8. Fit(kernel, y, outer)
  <2>1. kernel \in {"OptC", "OptZ", "C"} =>
          \A d \in (outer + 1)..Ndim(y) : InPlace(y, d, CStep(y, d))
    BY <1>3, <1>4, <1>5, <1>6 DEF Fit
  <2>2. kernel = "OptC" => InPlace(y, outer, CStep(y, outer))
    BY <1>4, <1>5, <1>7 DEF Fit
  <2>3. kernel = "OptZ" => InPlace(y, outer, CStep(y, outer)) \/ y.dims[outer].step = 0
    BY <1>3, <1>4, <1>5, <1>7 DEF Fit
  <2>4. kernel = "Fortran" => \A d \in (outer + 1)..Ndim(y) : InPlace(y, d, FStep(y, outer, d))
    BY <1>3, <1>4, <1>5, <1>6 DEF Fit
  <2> QED
    BY <2>1, <2>2, <2>3, <2>4 DEF Fit
<1> QED
  BY <1>2, <1>3, <1>8

-----------------------------------------------------------------------------
(* The kernel that is chosen.                                              *)

LEMMA SmallestPosition ==
  ASSUME NEW S \in SUBSET Nat, S # {}
  PROVE  Min(S) \in S
<1>1. PICK m \in S : \A y \in S : m <= y
  BY Least
<1> QED
  BY <1>1 DEF Min

\* A kernel is chosen only for flags that it asks for.
LEMMA ChosenIsRequested ==
  ASSUME NEW flags, NEW set, select_kernel(flags, set) # NoKernel
  PROVE  /\ select_kernel(flags, set) \in {"OptC", "OptZ", "OptS", "C", "Fortran", "Strided", "Xnd"}
         /\ Request(select_kernel(flags, set), flags)
<1> DEFINE fit == {i \in DOMAIN Preference : Preference[i] \in set /\ Request(Preference[i], flags)}
<1>1. DOMAIN Preference = 1..7
  BY DEF Preference
<1>2. select_kernel(flags, set) = IF fit = {} THEN NoKernel ELSE Preference[Min(fit)]
  BY DEF select_kernel
<1>3. fit # {}
  BY <1>2
<1>4. fit \in SUBSET Nat
  BY <1>1
<1>5. PICK i \in fit : select_kernel(flags, set) = Preference[i]
  BY <1>2, <1>3, <1>4, SmallestPosition
<1>6. i \in 1..7 /\ Request(Preference[i], flags)
  BY <1>1, <1>5
<1>7. i = 1 \/ i = 2 \/ i = 3 \/ i = 4 \/ i = 5 \/ i = 6 \/ i = 7
  BY <1>6
<1>8. Preference[i] \in {"OptC", "OptZ", "OptS", "C", "Fortran", "Strided", "Xnd"}
  BY <1>7 DEF Preference
<1> QED
  BY <1>5, <1>6, <1>8

\* What the flags that an ndarray leaves to the call say of it.
LEMMA FlagsHold ==
  ASSUME NEW x, NEW outer
  PROVE  /\ InnerC \notin check_c(x, outer) =>
              \A d \in (outer + 1)..Ndim(x) : InPlace(x, d, CStep(x, d))
         /\ ExtC \notin check_c(x, outer) => outer # 0 /\ InPlace(x, outer, CStep(x, outer))
         /\ ExtZero \notin check_c(x, outer) =>
              outer # 0 /\ (InPlace(x, outer, CStep(x, outer)) \/ x.dims[outer].step = 0)
         /\ ExtStrided \notin check_strided(outer) => outer # 0
         /\ InnerF \notin check_f(x, outer) =>
              \A d \in (outer + 1)..Ndim(x) : InPlace(x, d, FStep(x, outer, d))
<1>1. InnerC \notin check_c(x, outer) => \A d \in (outer + 1)..Ndim(x) : InPlace(x, d, CStep(x, d))
  BY DEF check_c, InPlace, InnerC
<1>2. ExtC \notin check_c(x, outer) => outer # 0 /\ InPlace(x, outer, CStep(x, outer))
  BY DEF check_c, InPlace, ExtC
<1>3. ExtZero \notin check_c(x, outer) =>
        outer # 0 /\ (InPlace(x, outer, CStep(x, outer)) \/ x.dims[outer].step = 0)
  BY DEF check_c, InPlace, ExtZero
<1>4. ExtStrided \notin check_strided(outer) => outer # 0
  BY DEF check_strided
<1>5. InnerF \notin check_f(x, outer) =>
        \A d \in (outer + 1)..Ndim(x) : InPlace(x, d, FStep(x, outer, d))
  BY DEF check_f, InPlace
<1> QED
  BY <1>1, <1>2, <1>3, <1>4, <1>5

\* The kernel fits every argument that is an ndarray, and is an Xnd kernel if
\* any has var dimensions.
LEMMA ChosenFits ==
  ASSUME NEW args, NEW outer \in Nat, NEW set, select_flags(args, outer).ok,
         NEW kernel, kernel = select_kernel(select_flags(args, outer).flags, set),
         kernel # NoKernel, NEW i \in DOMAIN args
  PROVE  /\ args[i].var => kernel = "Xnd"
         /\ ~args[i].var /\ kernel # "Strided" => Fit(kernel, args[i], outer)
<1> DEFINE flags == select_flags(args, outer).flags
<1>1. flags = AllFlags \ UNION {Lost(args[j], outer) : j \in DOMAIN args}
  BY DEF select_flags
<1>2. PICK x : x = args[i]
  OBVIOUS
<1>3. \A f \in flags : f \notin Lost(x, outer)
  BY <1>1, <1>2
<1>4. /\ kernel \in {"OptC", "OptZ", "OptS", "C", "Fortran", "Strided", "Xnd"}
      /\ Request(kernel, flags)
  BY ChosenIsRequested
<1> HIDE DEF flags
<1>5. CASE x.var
  <2>1. flags \subseteq {InnerXnd}
    <3>1. flags \cap check_var = {}
      BY <1>3, <1>5 DEF Lost
    <3>2. flags \subseteq AllFlags
      BY <1>1
    <3> QED
      BY <3>1, <3>2 DEF check_var
  <2>2. /\ InnerC \notin flags /\ InnerF \notin flags /\ ExtStrided \notin flags
        /\ InnerStrided \notin flags
    BY <2>1 DEF InnerC, InnerF, ExtStrided, InnerXnd, InnerStrided
  <2> QED
    BY <1>2, <1>4, <1>5, <2>2 DEF Request
<1>6. CASE ~x.var
  <2>1. \A f \in flags : f \notin check_strided(outer) /\ f \notin check_c(x, outer)
                         /\ f \notin check_f(x, outer)
    BY <1>3, <1>6 DEF Lost
  <2>2. CASE kernel = "OptC"
    <3>1. ExtC \in flags /\ InnerC \in flags
      BY <1>4, <2>2 DEF Request
    <3> QED
      BY <1>2, <1>6, <2>1, <2>2, <3>1, FlagsHold DEF Fit
  <2>3. CASE kernel = "OptZ"
    <3>1. InnerC \in flags /\ (ExtC \in flags \/ ExtZero \in flags)
      BY <1>4, <2>3 DEF Request
    <3> QED
      BY <1>2, <1>6, <2>1, <2>3, <3>1, FlagsHold DEF Fit
  <2>4. CASE kernel = "OptS"
    <3>1. ExtStrided \in flags
      BY <1>4, <2>4 DEF Request
    <3> QED
      BY <1>2, <1>6, <2>1, <2>4, <3>1, FlagsHold DEF Fit
  <2>5. CASE kernel = "C"
    <3>1. InnerC \in flags
      BY <1>4, <2>5 DEF Request
    <3> QED
      BY <1>2, <1>6, <2>1, <2>5, <3>1, FlagsHold DEF Fit
  <2>6. CASE kernel = "Fortran"
    <3>1. InnerF \in flags
      BY <1>4, <2>6 DEF Request
    <3> QED
      BY <1>2, <1>6, <2>1, <2>6, <3>1, FlagsHold DEF Fit
  <2>7. CASE kernel = "Xnd"
    BY <1>2, <1>6, <2>7 DEF Fit
  <2>8. CASE kernel = "Strided"
    BY <1>2, <1>6, <2>8
  <2> QED
    BY <1>4, <2>2, <2>3, <2>4, <2>5, <2>6, <2>7, <2>8
<1> QED
  BY <1>5, <1>6

\* The rows of a cut are slices of the outer dimensions.
LEMMA CutRows ==
  ASSUME NEW x, IsArray(x), NEW outer \in Nat, NEW n \in Int, xnd_split(n, ShapeOf(x), outer).ok,
         NEW i \in DOMAIN xnd_split(n, ShapeOf(x), outer).rows
  PROVE  LET row == xnd_split(n, ShapeOf(x), outer).rows[i] IN
         /\ row \in Seq(Slice) /\ Len(row) <= outer
         /\ \A d \in 1..Len(row) : row[d].start < row[d].stop /\ row[d].stop <= x.dims[d].shape
<1>1. PICK shape \in Seq(Nat) : /\ shape = ShapeOf(x) /\ Len(shape) \in Nat
                               /\ \A d \in 1..Len(shape) : shape[d] = x.dims[d].shape
  BY ArrayProperties, LenProperties
<1>2. PICK R : R = xnd_split(n, shape, outer).rows
  OBVIOUS
<1>3. PICK k \in 0..Len(shape) : /\ k <= outer
                                /\ CutsInto(R, n, SubSeq(shape, 1, k))
  BY <1>1, <1>2, SplitCuts
<1>4. PICK dims : dims = SubSeq(shape, 1, k) /\ Len(dims) = k /\ \A d \in 1..k : dims[d] = shape[d]
  <2>1. PICK dims : dims = SubSeq(shape, 1, k)
    OBVIOUS
  <2>2. Len(dims) = k
    BY <1>1, <2>1
  <2>3. \A d \in 1..k : dims[d] = shape[d]
    BY <1>1, <2>1
  <2> QED
    BY <2>1, <2>2, <2>3
<1>5. CutsInto(R, n, dims)
  BY <1>3, <1>4
<1>6. R \in Seq(Seq(Slice)) /\ \A j \in 1..Len(R) : RowFits(R[j], dims)
  BY <1>5 DEF CutsInto
<1>7. i \in 1..Len(R)
  BY <1>1, <1>2, <1>6, LenProperties
<1>8. PICK row : row = R[i] /\ RowFits(row, dims)
  BY <1>6, <1>7
<1>9. row \in Seq(Slice) /\ Len(row) \in Nat /\ Len(row) <= k
  BY <1>4, <1>8, LenProperties DEF RowFits
<1>10. Len(row) <= outer
  BY <1>1, <1>3, <1>9
<1>11. \A d \in 1..Len(row) : d \in 1..k /\ d \in 1..Len(shape)
  BY <1>1, <1>3, <1>9
<1>12. \A d \in 1..Len(row) : row[d].start < row[d].stop /\ row[d].stop <= x.dims[d].shape
  <2>1. \A d \in 1..Len(row) : row[d].start < row[d].stop /\ row[d].stop <= dims[d]
    BY <1>8 DEF RowFits
  <2>2. \A d \in 1..Len(row) : dims[d] = x.dims[d].shape
    BY <1>1, <1>4, <1>11
  <2> QED
    BY <2>1, <2>2
<1> QED
  BY <1>1, <1>2, <1>8, <1>9, <1>10, <1>12

\* A kernel that fits an argument finds the elements of every cut of it.
LEMMA CutsFind ==
  ASSUME NEW x \in Ndarray, call.outer \in 0..Ndim(x), NEW kernel, Fit(kernel, x, call.outer),
         NEW y \in Cuts(x), NEW v \in Elements(y)
  PROVE  gm_xnd_map(kernel, y, v, call.outer) = Address(y, v)
<1>1. PICK outer : outer = call.outer
  OBVIOUS
<1>2. outer \in 0..Ndim(x) /\ outer \in Nat /\ Fit(kernel, x, outer)
  BY <1>1
<1>3. IsArray(x)
  BY DEF IsArray, Ndarray
<1>4. CASE y = x
  BY <1>1, <1>2, <1>3, <1>4, FitFinds DEF Elements
<1>5. CASE y # x
  <2>1. PICK n \in 2..MaxCuts :
          y \in LET parts == xnd_split(n, ShapeOf(x), outer) IN
                IF parts.ok THEN {Sliced(x, parts.rows[i]) : i \in DOMAIN parts.rows} ELSE {}
    BY <1>1, <1>5 DEF Cuts
  <2>2. xnd_split(n, ShapeOf(x), outer).ok
    BY <2>1
  <2>3. PICK i \in DOMAIN xnd_split(n, ShapeOf(x), outer).rows :
          y = Sliced(x, xnd_split(n, ShapeOf(x), outer).rows[i])
    BY <2>1, <2>2
  <2>4. PICK row : row = xnd_split(n, ShapeOf(x), outer).rows[i]
    OBVIOUS
  <2>5. n \in Int
    OBVIOUS
  <2>6. /\ row \in Seq(Slice) /\ Len(row) <= outer
        /\ \A d \in 1..Len(row) : row[d].start < row[d].stop /\ row[d].stop <= x.dims[d].shape
    BY <1>2, <1>3, <2>2, <2>4, <2>5, CutRows
  <2>7. y = Sliced(x, row)
    BY <2>3, <2>4
  <2>8. IsArray(y) /\ Ndim(y) = Ndim(x) /\ Fit(kernel, y, outer)
    BY <1>2, <2>6, <2>7, FitCut
  <2> QED
    BY <1>1, <1>2, <2>8, FitFinds DEF Elements
<1> QED
  BY <1>4, <1>5

-----------------------------------------------------------------------------
(* Room for the dimensions and steps of strided kernels.                   *)

LEMMA SumTwo ==
  ASSUME NEW s \in [1..2 -> Int]
  PROVE  Sum(s) = s[1] + s[2]
<1>1. PICK n \in Nat : n = 2 /\ s \in [1..n -> Int]
  OBVIOUS
<1>2. PICK g \in [0..n -> Int] : /\ g[0] = 0 /\ Sum(s) = g[n]
                                 /\ \A i \in 1..n : g[i] = g[i - 1] + s[i]
  BY <1>1, SumRuns
<1>3. g[1] = g[0] + s[1] /\ g[2] = g[1] + s[2]
  BY <1>1, <1>2
<1> QED
  BY <1>1, <1>2, <1>3

LEMMA FlattenTwo ==
  ASSUME NEW ss \in Seq(Seq(Int)), Len(ss) = 2
  PROVE  FlattenSeq(ss) \in Seq(Int) /\ Len(FlattenSeq(ss)) = Len(ss[1]) + Len(ss[2])
<1>1. PICK n : n = Len(ss)
  OBVIOUS
<1>2. PICK F \in Seq(Int) : F = FlattenSeq(ss) /\ Concatenation(F, ss)
  <2>1. Len(ss) # 0
    OBVIOUS
  <2>2. FlattenSeq(ss) \in Seq(Int) /\ Concatenation(FlattenSeq(ss), ss)
    BY <2>1, Flatten, Zenon
  <2> QED
    BY <2>2, Zenon
<1>3. PICK off \in [0..n -> Nat] :
        off[0] = 0 /\ (\A i \in 1..n : off[i] = off[i - 1] + Len(ss[i])) /\ Len(F) = off[n]
  BY <1>1, <1>2 DEF Concatenation
<1>4. n = 2 /\ 1 \in 1..n /\ 2 \in 1..n
  BY <1>1
<1>5. PICK a \in Nat, b \in Nat : a = Len(ss[1]) /\ b = Len(ss[2])
  <2>1. ss[1] \in Seq(Int) /\ ss[2] \in Seq(Int)
    <3>1. 1 \in 1..Len(ss) /\ 2 \in 1..Len(ss)
      OBVIOUS
    <3> QED
      BY <3>1, ElementOfSeq, Zenon
  <2> QED
    BY <2>1, LenProperties
<1>6. off[1] = off[0] + a /\ off[2] = off[1] + b
  BY <1>3, <1>4, <1>5
<1> QED
  BY <1>2, <1>3, <1>4, <1>5, <1>6

\* n sequences of two items each.
LEMMA FlattenPairs ==
  ASSUME NEW n \in Nat, NEW ss \in Seq(Seq(Int)), Len(ss) = n, \A i \in 1..n : Len(ss[i]) = 2
  PROVE  FlattenSeq(ss) \in Seq(Int) /\ Len(FlattenSeq(ss)) = 2 * n
<1>1. CASE n = 0
  <2>1. ss = << >>
    BY <1>1, EmptySeq
  <2>2. FlattenSeq(ss) = << >>
    BY <1>1, <2>1 DEF FlattenSeq
  <2> QED
    BY <1>1, <2>2
<1>2. CASE n # 0
  <2>1. PICK F \in Seq(Int) : F = FlattenSeq(ss) /\ Concatenation(F, ss)
    BY <1>2, Flatten
  <2>2. PICK off \in [0..n -> Nat] :
          off[0] = 0 /\ (\A i \in 1..n : off[i] = off[i - 1] + Len(ss[i])) /\ Len(F) = off[n]
    BY <2>1 DEF Concatenation
  <2>3. \A i \in 1..n : off[i] = off[i - 1] + 2
    BY <2>2
  <2> DEFINE S == {i \in Nat : i <= n => off[i] = 2 * i}
  <2>4. 0 \in S
    BY <2>2
  <2>5. ASSUME NEW i \in Nat, i \in S
        PROVE  i + 1 \in S
    <3> SUFFICES ASSUME i + 1 <= n
                 PROVE  off[i + 1] = 2 * (i + 1)
      OBVIOUS
    <3>1. off[i] = 2 * i
      BY <2>5
    <3>2. i + 1 \in 1..n /\ (i + 1) - 1 = i
      OBVIOUS
    <3>3. off[i + 1] = off[i] + 2
      BY <2>3, <3>2
    <3> QED
      BY <3>1, <3>3
  <2> HIDE DEF S
  <2>6. n \in S
    BY <2>4, <2>5, NatSetInduction
  <2>7. off[n] = 2 * n
    BY <2>6 DEF S
  <2> QED
    BY <2>1, <2>2, <2>7
<1> QED
  BY <1>1, <1>2

\* The inner dimensions of an argument as a strided kernel gets them.
InnerRoom(x, outer) == IF Inner(x, outer) = 0 THEN 1 ELSE Inner(x, outer)

LEMMA InnerIsSmall ==
  ASSUME NEW x \in Ndarray, NEW outer \in 0..Ndim(x)
  PROVE  /\ InnerRoom(x, outer) \in Nat
         /\ Inner(gm_as_ndarray(x), outer) \in Nat
         /\ Inner(gm_as_ndarray(x), outer) <= InnerRoom(x, outer)
         /\ \A d \in 1..Inner(gm_as_ndarray(x), outer) :
              /\ gm_as_ndarray(x).dims[outer + d].shape \in Int
              /\ gm_as_ndarray(x).dims[outer + d].step \in Int
<1>1. IsArray(x)
  BY DEF IsArray, Ndarray
<1>2. PICK N \in Nat : N = Ndim(x) /\ outer \in Nat /\ outer <= N
  BY <1>1, ArrayProperties
<1>3. Inner(x, outer) = N - outer /\ N - outer \in Nat
  BY <1>2 DEF Inner
<1>4. CASE x.dims = << >>
  <2>1. N = 0 /\ outer = 0
    BY <1>2, <1>4 DEF Ndim
  <2>2. PICK nd : nd = gm_as_ndarray(x)
    OBVIOUS
  <2>3. nd.dims = <<[shape |-> 1, step |-> 0]>>
    BY <1>4, <2>2 DEF gm_as_ndarray, Ndarray
  <2>4. Inner(nd, outer) = 1
    BY <2>1, <2>3 DEF Inner, Ndim
  <2>5. InnerRoom(x, outer) = 1
    BY <1>3, <2>1 DEF InnerRoom
  <2>6. \A d \in 1..1 : outer + d = 1
    BY <2>1
  <2>7. nd.dims[1].shape = 1 /\ nd.dims[1].step = 0
    BY <2>3
  <2> QED
    BY <2>2, <2>4, <2>5, <2>6, <2>7
<1>5. CASE x.dims # << >>
  <2>1. gm_as_ndarray(x) = x
    BY <1>5 DEF gm_as_ndarray
  <2>2. InnerRoom(x, outer) \in Nat /\ N - outer <= InnerRoom(x, outer)
    BY <1>3 DEF InnerRoom
  <2>3. \A d \in 1..(N - outer) : outer + d \in 1..N
    BY <1>2
  <2>4. \A d \in 1..N : x.dims[d].shape \in Int /\ x.dims[d].step \in Int
    BY <1>1, <1>2, ArrayProperties
  <2> QED
    BY <1>3, <2>1, <2>2, <2>3, <2>4
<1> QED
  BY <1>4, <1>5

\* "Unexpected array overflow" is not reported for two arguments.
LEMMA RoomForStrided ==
  ASSUME NEW x \in Ndarray, NEW y \in Ndarray, NEW outer \in Nat,
         outer \in 0..Ndim(x), outer \in 0..Ndim(y), NEW args, args = <<x, y>>
  PROVE  /\ Len(np_dimensions(args, outer)) <= outer + sum_inner_dimensions(args, outer)
         /\ Len(np_steps(args, outer)) <= Len(args) * outer + sum_inner_dimensions(args, outer)
<1>1. DOMAIN args = 1..2 /\ Len(args) = 2 /\ args[1] = x /\ args[2] = y
  OBVIOUS
<1>2. \A k \in 1..2 : args[k] \in Ndarray /\ outer \in 0..Ndim(args[k])
  BY <1>1
<1>3. PICK room : room = [k \in 1..2 |-> InnerRoom(args[k], outer)]
  OBVIOUS
<1>4. PICK inner : inner = [k \in 1..2 |-> Inner(gm_as_ndarray(args[k]), outer)]
  OBVIOUS
<1>5. /\ room \in [1..2 -> Int] /\ inner \in [1..2 -> Nat]
      /\ \A k \in 1..2 : inner[k] <= room[k] /\ room[k] \in Nat
  BY <1>2, <1>3, <1>4, InnerIsSmall
<1>6. sum_inner_dimensions(args, outer) = room[1] + room[2]
  <2>1. sum_inner_dimensions(args, outer) = Sum(room)
    BY <1>1, <1>3 DEF sum_inner_dimensions, InnerRoom
  <2> QED
    BY <1>5, <2>1, SumTwo
<1> DEFINE shapes == [k \in 1..2 |-> [d \in 1..inner[k] |-> gm_as_ndarray(args[k]).dims[outer + d].shape]]
           steps == [k \in 1..2 |-> [d \in 1..inner[k] |-> gm_as_ndarray(args[k]).dims[outer + d].step]]
           front == [d \in 1..outer |-> args[1].dims[d].shape]
           loops == [d \in 1..outer |-> [k \in 1..2 |-> args[k].dims[d].step]]
<1>7. \A k \in 1..2 : \A d \in 1..inner[k] :
        /\ gm_as_ndarray(args[k]).dims[outer + d].shape \in Int
        /\ gm_as_ndarray(args[k]).dims[outer + d].step \in Int
  BY <1>2, <1>4, InnerIsSmall
<1>8. \A k \in 1..2 : IsArray(args[k])
  BY <1>2 DEF IsArray, Ndarray
<1>9. \A k \in 1..2 : \A d \in 1..outer : args[k].dims[d].shape \in Int /\ args[k].dims[d].step \in Int
  <2>1. ASSUME NEW k \in 1..2, NEW d \in 1..outer
        PROVE  args[k].dims[d].shape \in Int /\ args[k].dims[d].step \in Int
    <3>1. PICK z : z = args[k] /\ IsArray(z) /\ outer \in 0..Ndim(z)
      BY <1>2, <1>8
    <3>2. d \in 1..Ndim(z)
      BY <3>1, ArrayProperties
    <3>3. z.dims[d].shape \in Nat /\ z.dims[d].step \in Int
      BY <3>1, <3>2, ArrayProperties
    <3> QED
      BY <3>1, <3>3
  <2> QED
    BY <2>1
<1>10. FlattenSeq(shapes) \in Seq(Int) /\ Len(FlattenSeq(shapes)) = inner[1] + inner[2]
  <2>1. ASSUME NEW k \in 1..2
        PROVE  shapes[k] \in Seq(Int) /\ Len(shapes[k]) = inner[k]
    <3>1. inner[k] \in Nat /\ shapes[k] \in [1..inner[k] -> Int]
      BY <1>5, <1>7
    <3> HIDE DEF shapes
    <3> QED
      BY <3>1, FunctionsAreSequences
  <2>2. shapes \in [1..2 -> Seq(Int)]
    BY <2>1
  <2> HIDE DEF shapes
  <2>3. shapes \in Seq(Seq(Int)) /\ Len(shapes) = 2
    BY <2>2, FunctionsAreSequences
  <2>4. FlattenSeq(shapes) \in Seq(Int) /\ Len(FlattenSeq(shapes)) = Len(shapes[1]) + Len(shapes[2])
    BY <2>3, FlattenTwo
  <2>5. Len(shapes[1]) = inner[1] /\ Len(shapes[2]) = inner[2]
    <3>1. 1 \in 1..2 /\ 2 \in 1..2
      OBVIOUS
    <3> QED
      BY <2>1, <3>1, Zenon
  <2> QED
    BY <2>4, <2>5, Zenon
<1>11. FlattenSeq(steps) \in Seq(Int) /\ Len(FlattenSeq(steps)) = inner[1] + inner[2]
  <2>1. ASSUME NEW k \in 1..2
        PROVE  steps[k] \in Seq(Int) /\ Len(steps[k]) = inner[k]
    <3>1. inner[k] \in Nat /\ steps[k] \in [1..inner[k] -> Int]
      BY <1>5, <1>7
    <3> HIDE DEF steps
    <3> QED
      BY <3>1, FunctionsAreSequences
  <2>2. steps \in [1..2 -> Seq(Int)]
    BY <2>1
  <2> HIDE DEF steps
  <2>3. steps \in Seq(Seq(Int)) /\ Len(steps) = 2
    BY <2>2, FunctionsAreSequences
  <2>4. FlattenSeq(steps) \in Seq(Int) /\ Len(FlattenSeq(steps)) = Len(steps[1]) + Len(steps[2])
    BY <2>3, FlattenTwo
  <2>5. Len(steps[1]) = inner[1] /\ Len(steps[2]) = inner[2]
    <3>1. 1 \in 1..2 /\ 2 \in 1..2
      OBVIOUS
    <3> QED
      BY <2>1, <3>1, Zenon
  <2> QED
    BY <2>4, <2>5, Zenon
<1>12. front \in Seq(Int) /\ Len(front) = outer
  <2>1. front \in [1..outer -> Int]
    BY <1>9
  <2> HIDE DEF front
  <2> QED
    BY <2>1, FunctionsAreSequences
<1>13. FlattenSeq(loops) \in Seq(Int) /\ Len(FlattenSeq(loops)) = 2 * outer
  <2>1. ASSUME NEW d \in 1..outer
        PROVE  loops[d] \in Seq(Int) /\ Len(loops[d]) = 2
    <3>1. loops[d] \in [1..2 -> Int]
      BY <1>9
    <3> HIDE DEF loops
    <3> QED
      BY <3>1, FunctionsAreSequences
  <2>2. loops \in [1..outer -> Seq(Int)]
    BY <2>1
  <2> HIDE DEF loops
  <2>3. loops \in Seq(Seq(Int)) /\ Len(loops) = outer
    BY <2>2, FunctionsAreSequences
  <2> QED
    BY <2>1, <2>3, FlattenPairs
<1>14. np_dimensions(args, outer) = front \o FlattenSeq(shapes)
  BY <1>1, <1>4 DEF np_dimensions
<1>15. np_steps(args, outer) = FlattenSeq(loops) \o FlattenSeq(steps)
  BY <1>1, <1>4 DEF np_steps
<1> HIDE DEF shapes, steps, front, loops
<1>16. Len(np_dimensions(args, outer)) = outer + (inner[1] + inner[2])
  BY <1>10, <1>12, <1>14, ConcatProperties
<1>17. Len(np_steps(args, outer)) = 2 * outer + (inner[1] + inner[2])
  BY <1>11, <1>13, <1>15, ConcatProperties
<1>18. inner[1] + inner[2] <= room[1] + room[2]
  BY <1>5
<1>19. PICK a \in Nat, b \in Nat : a = inner[1] + inner[2] /\ b = room[1] + room[2]
  BY <1>5
<1> QED
  BY <1>1, <1>6, <1>16, <1>17, <1>18, <1>19

-----------------------------------------------------------------------------
(* The calls of select_kernel.                                             *)

\* An argument of a call: an ndarray, or the one with var dimensions.
IsArgument(x) == x \in Ndarray /\ (x.var <=> x = VarArgument)

\* A call of select_kernel is given with two arguments of any layout, and has no
\* other result than that of select_kernel for the flags of the arguments.
SelectInv ==
  call.op = "select" =>
    /\ call.outer \in Nat
    /\ \E x, y : call.args = <<x, y>> /\ IsArgument(x) /\ IsArgument(y)
    /\ result # NotYet =>
         LET selected == select_flags(call.args, call.outer) IN
         selected.ok /\ result = [kernel |-> select_kernel(selected.flags, call.set)]

LEMMA LayoutsAreArguments ==
  ASSUME NEW max \in Nat, NEW x \in Layouts(max)
  PROVE  IsArgument(x) /\ ~x.var
<1>1. PICK n \in 0..max : \E dims \in [1..n -> [shape : Shapes, step : Steps]] :
        x = [var |-> FALSE, dims |-> dims, index |-> IndexOf(dims)]
  BY DEF Layouts
<1>2. PICK dims \in [1..n -> [shape : Shapes, step : Steps]] :
        x = [var |-> FALSE, dims |-> dims, index |-> IndexOf(dims)]
  BY <1>1
<1>3. n \in Nat /\ DOMAIN dims = 1..n
  OBVIOUS
<1>4. \A d \in 1..n : dims[d] \in Dim /\ dims[d].shape \in Int /\ dims[d].step \in Int
  <2>1. Shapes \subseteq Nat /\ Steps \subseteq Int
    BY BoundsAssumption
  <2>2. ASSUME NEW d \in 1..n
        PROVE  dims[d] \in Dim /\ dims[d].shape \in Int /\ dims[d].step \in Int
    <3>1. PICK a \in Shapes, b \in Steps : dims[d] = [shape |-> a, step |-> b]
      OBVIOUS
    <3>2. a \in Nat /\ b \in Int
      BY <2>1
    <3> QED
      BY <3>1, <3>2 DEF Dim
  <2> QED
    BY <2>2
<1>5. dims \in [1..n -> Dim]
  BY <1>4
<1>6. dims \in Seq(Dim)
  BY <1>3, <1>5, FunctionsAreSequences
<1>7. IndexOf(dims) \in Int
  <2>1. ASSUME NEW d \in 1..n
        PROVE  (IF dims[d].step < 0 THEN (dims[d].shape - 1) * (0 - dims[d].step) ELSE 0) \in Int
    <3>1. PICK a \in Int, b \in Int : a = dims[d].shape - 1 /\ b = 0 - dims[d].step
      BY <1>4
    <3>2. a * b \in Int
      OBVIOUS
    <3> QED
      BY <3>1, <3>2
  <2>2. PICK s : s = [d \in 1..n |-> IF dims[d].step < 0
                                     THEN (dims[d].shape - 1) * (0 - dims[d].step) ELSE 0]
    OBVIOUS
  <2>3. s \in [1..n -> Int]
    BY <2>1, <2>2
  <2>4. IndexOf(dims) = Sum(s)
    BY <1>3, <2>2 DEF IndexOf
  <2> QED
    BY <1>3, <2>3, <2>4, SumInt
<1>8. x \in Ndarray /\ ~x.var
  BY <1>2, <1>6, <1>7 DEF Ndarray
<1>9. x # VarArgument
  BY <1>8 DEF VarArgument
<1> QED
  BY <1>8, <1>9 DEF IsArgument

LEMMA SelectCalls ==
  ASSUME ChooseSelect
  PROVE  /\ call.outer \in Nat
         /\ \E x, y : call.args = <<x, y>> /\ IsArgument(x) /\ IsArgument(y)
<1>1. PICK rank \in Ranks : \E x \in Layouts(rank[1]), y \in Layouts(rank[2]) \cup {VarArgument} :
        \E outer \in 0..(IF y.var THEN rank[1] ELSE Smaller(Ndim(x), Ndim(y))), set \in Sets :
            call = [op |-> "select", args |-> <<x, y>>, outer |-> outer, set |-> set]
  BY DEF ChooseSelect
<1>2. PICK x \in Layouts(rank[1]), y \in Layouts(rank[2]) \cup {VarArgument} :
        \E outer \in 0..(IF y.var THEN rank[1] ELSE Smaller(Ndim(x), Ndim(y))), set \in Sets :
            call = [op |-> "select", args |-> <<x, y>>, outer |-> outer, set |-> set]
  BY <1>1
<1>3. PICK outer \in 0..(IF y.var THEN rank[1] ELSE Smaller(Ndim(x), Ndim(y))), set \in Sets :
        call = [op |-> "select", args |-> <<x, y>>, outer |-> outer, set |-> set]
  BY <1>2
<1>4. rank[1] \in Nat /\ rank[2] \in Nat
  <2>1. Ranks \subseteq Nat \X Nat
    BY BoundsAssumption
  <2> QED
    BY <2>1
<1>5. IsArgument(x)
  BY <1>4, LayoutsAreArguments
<1>6. IsArgument(y)
  <2>1. CASE y = VarArgument
    <3>1. VarArgument \in Ndarray /\ VarArgument.var
      BY DEF VarArgument, Ndarray
    <3> QED
      BY <2>1, <3>1 DEF IsArgument
  <2>2. CASE y # VarArgument
    BY <1>4, <2>2, LayoutsAreArguments
  <2> QED
    BY <2>1, <2>2
<1>7. outer \in Nat
  <2>1. \A b : \A i \in 0..b : i \in Nat
    OBVIOUS
  <2> QED
    BY <2>1, Zenon
<1> QED
  BY <1>3, <1>5, <1>6, <1>7

LEMMA SelectInvInit ==
  ASSUME Init
  PROVE  SelectInv
<1>1. result = NotYet
  BY DEF Init
<1>2. CASE ChooseSelect
  BY <1>1, <1>2, SelectCalls DEF SelectInv
<1>3. CASE ~ChooseSelect
  <2>1. call.op # "select"
    BY <1>3, Operations DEF Init
  <2> QED
    BY <2>1 DEF SelectInv
<1> QED
  BY <1>2, <1>3

LEMMA SelectInvNext ==
  ASSUME SelectInv, [Next]_vars
  PROVE  SelectInv'
<1>1. CASE Select
  BY <1>1 DEF Select, Is, SelectInv
<1>2. CASE CutForThreads \/ LookUp \/ Link \/ Apply
  <2>1. call' = call /\ call.op # "select"
    BY <1>2 DEF CutForThreads, LookUp, Link, Apply, Is
  <2> QED
    BY <2>1 DEF SelectInv
<1>3. CASE UNCHANGED vars
  BY <1>3 DEF vars, SelectInv
<1> QED
  BY <1>1, <1>2, <1>3 DEF Next

\* For all ranks, shapes, steps and numbers of threads: the kernel that is chosen
\* finds every element of every argument at its address, also in the slices that
\* the arguments are cut into.
THEOREM KernelFitsHolds == Spec => []KernelFits
<1>1. SelectInv => KernelFits
  <2> SUFFICES ASSUME SelectInv, Given("select")
               PROVE  KernelFits
    BY DEF KernelFits, FindsElements, HasItsDimensions, SomeChosen
  <2>1. PICK x, y : call.args = <<x, y>> /\ IsArgument(x) /\ IsArgument(y)
    BY DEF SelectInv, Given
  <2>2. PICK args, outer, kernel :
          /\ args = call.args /\ outer = call.outer /\ outer \in Nat /\ kernel = result.kernel
          /\ select_flags(args, outer).ok
          /\ kernel = select_kernel(select_flags(args, outer).flags, call.set)
    BY DEF SelectInv, Given
  <2>3. /\ DOMAIN args = {1, 2} /\ args[1] = x /\ args[2] = y
        /\ \A i \in DOMAIN args : IsArgument(args[i])
    BY <2>1, <2>2
  <2>4. ASSUME NEW i \in DOMAIN args, ~args[i].var
        PROVE  outer \in 0..Ndim(args[i])
    <3>1. ~(outer > Ndim(args[i]))
      BY <2>2, <2>4 DEF select_flags
    <3>2. Ndim(args[i]) \in Nat
      BY <2>3, ArrayProperties DEF IsArgument, Ndarray, IsArray
    <3> QED
      BY <2>2, <3>1, <3>2
  <2>5. FindsElements
    <3> SUFFICES ASSUME SomeChosen, NEW z \in Ndarrays, NEW c \in Cuts(z), NEW v \in Elements(c)
                 PROVE  gm_xnd_map(result.kernel, c, v, call.outer) = Address(c, v)
      BY DEF FindsElements
    <3>1. kernel # NoKernel /\ kernel # "Strided"
      BY <2>2 DEF SomeChosen
    <3>2. PICK i \in DOMAIN args : z = args[i] /\ z # VarArgument
      BY <2>2 DEF Ndarrays
    <3>3. z \in Ndarray /\ ~z.var
      BY <2>3, <3>2 DEF IsArgument
    <3>4. Fit(kernel, z, outer) /\ outer \in 0..Ndim(z)
      BY <2>2, <2>4, <3>1, <3>2, <3>3, ChosenFits
    <3> QED
      BY <2>2, <3>3, <3>4, CutsFind
  <2>6. HasItsDimensions
    <3>1. kernel \in {"OptC", "OptZ", "OptS"} => outer > 0
      <4> SUFFICES ASSUME kernel \in {"OptC", "OptZ", "OptS"}
                   PROVE  outer > 0
        OBVIOUS
      <4>1. kernel # NoKernel /\ kernel # "Xnd" /\ kernel # "Strided"
        BY DEF NoKernel
      <4>2. 1 \in DOMAIN args
        BY <2>3
      <4>3. Fit(kernel, args[1], outer)
        BY <2>2, <4>1, <4>2, ChosenFits
      <4> QED
        BY <4>3 DEF Fit
    <3>2. ASSUME NEW i \in DOMAIN args, args[i].var
          PROVE  kernel \in {NoKernel, "Xnd"}
      BY <2>2, <3>2, ChosenFits
    <3>3. ASSUME kernel = "Strided"
          PROVE  LET sum == sum_inner_dimensions(args, outer) IN
                 /\ Len(np_dimensions(args, outer)) <= outer + sum
                 /\ Len(np_steps(args, outer)) <= Len(args) * outer + sum
      <4>1. \A i \in DOMAIN args : ~args[i].var
        BY <3>2, <3>3 DEF NoKernel
      <4>2. x \in Ndarray /\ y \in Ndarray /\ outer \in 0..Ndim(x) /\ outer \in 0..Ndim(y)
        BY <2>3, <2>4, <4>1 DEF IsArgument
      <4> QED
        BY <2>1, <2>2, <4>2, RoomForStrided
    <3> QED
      BY <2>2, <3>1, <3>2, <3>3 DEF HasItsDimensions
  <2> QED
    BY <2>5, <2>6 DEF KernelFits
<1> QED
  BY <1>1, SelectInvInit, SelectInvNext, PTL DEF Spec
=============================================================================
