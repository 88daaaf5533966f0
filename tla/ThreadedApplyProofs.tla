------------------------- MODULE ThreadedApplyProofs -------------------------
(***************************************************************************)
(* gm_apply_thread is correct for any arguments, any number of threads, any*)
(* set of elements on which the kernel fails, and any schedule.            *)
(*                                                                         *)
(* The shares of the threads are what SplitProofs says of the rows of      *)
(* xnd_split: they have no element in common, follow each other in memory  *)
(* order and make up the output.  The invariant Inv says for each place    *)
(* the caller is at how far every thread is with its share, and whose      *)
(* error the caller has taken over.                                        *)
(***************************************************************************)
EXTENDS ThreadedApply, SplitProofs

-----------------------------------------------------------------------------
(* The order of the elements.                                              *)

LEMMA ArgumentsAndShape ==
  /\ OuterDims \in Nat \ {0} /\ MaxThreads \in Nat
  /\ Len(Dims) \in Nat \ {0} /\ Arg = 1..Len(Dims)
  /\ \A a \in Arg : Dims[a] \in Seq(Nat) /\ OuterDims <= Len(Dims[a]) /\ SubSeq(Dims[a], 1, OuterDims) = Shape
  /\ Shape \in Seq(Nat) /\ Len(Shape) = OuterDims /\ DOMAIN Shape = 1..OuterDims
<1>1. OuterDims \in Nat \ {0} /\ MaxThreads \in Nat /\ Dims \in Seq(Seq(Nat)) /\ Dims # << >>
  BY ApplyAssumption
<1>2. Len(Dims) \in Nat /\ DOMAIN Dims = 1..Len(Dims) /\ Len(Dims) # 0
  BY <1>1, LenProperties, EmptySeq
<1>3. \A a \in Arg : Dims[a] \in Seq(Nat)
  BY <1>1, <1>2, ElementOfSeq DEF Arg
<1>4. \A a \in Arg : OuterDims <= Len(Dims[a]) /\ SubSeq(Dims[a], 1, OuterDims) = Shape
  BY ApplyAssumption
<1>5. 1 \in Arg
  BY <1>2 DEF Arg
<1>6. PICK s : s = Dims[1]
  OBVIOUS
<1>7. s \in Seq(Nat) /\ Shape = SubSeq(s, 1, OuterDims) /\ OuterDims <= Len(s)
  BY <1>3, <1>4, <1>5, <1>6
<1>8. Shape \in Seq(Nat) /\ Len(Shape) = OuterDims
  <2>1. 1 \in 1..(Len(s) + 1) /\ OuterDims \in 0..Len(s)
    BY <1>1, <1>7, LenProperties
  <2> QED
    BY <1>1, <1>7, <2>1, SubSeqProperties
<1>9. DOMAIN Shape = 1..OuterDims
  BY <1>8, LenProperties
<1> QED
  BY <1>1, <1>2, <1>3, <1>4, <1>8, <1>9 DEF Arg

LEMMA ElementsAreVectors == Element \subseteq [1..OuterDims -> Nat]
<1>1. DOMAIN Shape = 1..OuterDims
  BY ArgumentsAndShape
<1>2. UNION {0..(Shape[d] - 1) : d \in 1..OuterDims} \subseteq Nat
  OBVIOUS
<1> QED
  BY <1>1, <1>2 DEF Element, Indices

\* Row-major order is total, and has no cycles of two.
LEMMA BeforeOrders ==
  ASSUME NEW x \in [1..OuterDims -> Nat], NEW y \in [1..OuterDims -> Nat]
  PROVE  /\ ~(Before(x, y) /\ Before(y, x))
         /\ x = y \/ Before(x, y) \/ Before(y, x)
<1> DEFINE n == OuterDims
<1>1. n \in Nat
  BY ArgumentsAndShape
<1> HIDE DEF n
<1>2. x \in [1..n -> Nat] /\ y \in [1..n -> Nat]
  BY DEF n
<1>3. ~(Before(x, y) /\ Before(y, x))
  <2> SUFFICES ASSUME Before(x, y), Before(y, x)
               PROVE  FALSE
    OBVIOUS
  <2>1. PICK d \in 1..n : x[d] < y[d] /\ \A e \in 1..(d - 1) : x[e] = y[e]
    BY <1>2 DEF Before
  <2>2. PICK c \in 1..n : y[c] < x[c] /\ \A e \in 1..(c - 1) : y[e] = x[e]
    BY <1>2 DEF Before
  <2>3. x[d] \in Nat /\ y[d] \in Nat /\ x[c] \in Nat /\ y[c] \in Nat
    BY <1>2
  <2>4. CASE d < c
    BY <2>1, <2>2, <2>3, <2>4
  <2>5. CASE c < d
    BY <2>1, <2>2, <2>3, <2>5
  <2>6. CASE c = d
    BY <2>1, <2>2, <2>3, <2>6
  <2> QED
    BY <2>4, <2>5, <2>6
<1>4. ASSUME x # y
      PROVE  Before(x, y) \/ Before(y, x)
  <2> DEFINE D == {d \in 1..n : x[d] # y[d]}
  <2>1. D # {} /\ D \in SUBSET Nat
    <3>1. x = [d \in 1..n |-> x[d]] /\ y = [d \in 1..n |-> y[d]]
      BY <1>2, Zenon
    <3>2. ~(\A d \in 1..n : x[d] = y[d])
      BY <1>4, <3>1
    <3> QED
      BY <3>2
  <2>2. PICK d \in D : \A e \in D : d <= e
    BY <2>1, Least
  <2>3. \A e \in 1..(d - 1) : x[e] = y[e]
    BY <1>1, <2>2
  <2>4. x[d] \in Nat /\ y[d] \in Nat /\ x[d] # y[d] /\ d \in 1..n
    BY <1>2, <2>2
  <2>5. DOMAIN x = 1..n /\ DOMAIN y = 1..n
    BY <1>2, Zenon
  <2>6. x[d] < y[d] \/ y[d] < x[d]
    BY <2>4
  <2> HIDE DEF D
  <2> QED
    BY <2>3, <2>4, <2>5, <2>6 DEF Before
<1> QED
  BY <1>3, <1>4

\* Some elements, if any, have a first one.
LEMMA FirstProperties ==
  ASSUME NEW S, S \subseteq Element, S # {}
  PROVE  First(S) \in S /\ \A y \in S : ~Before(y, First(S))
<1> DEFINE L == LexProductOrdering(OpToRel(<, Nat), Nat, OuterDims)
           V == [1..OuterDims -> Nat]
<1>1. IsWellFoundedOn(L, V)
  <2>1. OuterDims \in Nat
    BY ArgumentsAndShape
  <2>2. IsWellFoundedOn(OpToRel(<, Nat), Nat)
    BY NatLessThanWellFounded, Zenon
  <2> QED
    BY <2>1, <2>2, WFLexProductOrdering
<1>2. \A x, y \in V : Before(x, y) => <<x, y>> \in L
  <2> SUFFICES ASSUME NEW x \in V, NEW y \in V, Before(x, y)
               PROVE  <<x, y>> \in L
    OBVIOUS
  <2>1. PICK d \in 1..OuterDims : x[d] < y[d] /\ \A e \in 1..(d - 1) : x[e] = y[e]
    BY DEF Before
  <2>2. x[d] \in Nat /\ y[d] \in Nat
    OBVIOUS
  <2>3. <<x[d], y[d]>> \in OpToRel(<, Nat)
    BY <2>1, <2>2 DEF OpToRel
  <2> HIDE DEF V
  <2>4. <<x, y>> \in V \X V /\ <<x, y>>[1] = x /\ <<x, y>>[2] = y
    OBVIOUS
  <2> QED
    BY <2>1, <2>3, <2>4, Zenon DEF LexProductOrdering, V
<1>3. S \subseteq V
  BY ElementsAreVectors
<1> HIDE DEF L, V
<1>4. PICK x \in S : \A y \in S : ~(<<y, x>> \in L)
  BY <1>1, <1>3, WFMin
<1>5. \E z \in S : \A y \in S : ~Before(y, z)
  BY <1>2, <1>3, <1>4
<1> QED
  BY <1>5, Zenon DEF First

LEMMA FirstUnique ==
  ASSUME NEW S, S \subseteq Element, NEW x \in S, \A y \in S : ~Before(y, x)
  PROVE  First(S) = x
<1>1. First(S) \in S /\ ~Before(x, First(S)) /\ ~Before(First(S), x)
  BY FirstProperties
<1>2. x \in [1..OuterDims -> Nat] /\ First(S) \in [1..OuterDims -> Nat]
  BY <1>1, ElementsAreVectors
<1> QED
  BY <1>1, <1>2, BeforeOrders

-----------------------------------------------------------------------------
(* The slices of the arguments.                                            *)

\* What an argument was split into, for nthreads threads.
Columns == schedule(nthreads, Shape)
Parts == Len(Columns)
PartNumber == 1..Parts

\* The elements of the t-th column of slices.
Share(t) == Selected(Columns[t], Shape)

LEMMA RowsOfArguments ==
  ASSUME nthreads \in 1..MaxThreads, NEW a \in Arg, Rows(a).ok
  PROVE  Rows(a).rows = Columns /\ IsShape(Shape)
<1>1. nthreads \in Nat \ {0} /\ Rows(a) = xnd_split(nthreads, Dims[a], OuterDims)
  BY ArgumentsAndShape DEF Rows, Splits
<1> DEFINE outer == get_shape(Dims[a], OuterDims)
<1>2. outer.ok /\ Rows(a).rows = schedule(nthreads, outer.shape)
  BY <1>1 DEF xnd_split
<1>3. \A i \in DOMAIN Dims[a] : ~(Dims[a][i] <= 0)
  BY <1>2 DEF get_shape
<1>4. PICK s : s = Dims[a]
  OBVIOUS
<1>5. s \in Seq(Nat) /\ Len(s) \in Nat /\ OuterDims <= Len(s) /\ SubSeq(s, 1, OuterDims) = Shape
  BY <1>4, ArgumentsAndShape, LenProperties
<1>6. outer.shape = Shape
  <2>1. outer.shape = SubSeq(s, 1, IF OuterDims < Len(s) THEN OuterDims ELSE Len(s))
    BY <1>3, <1>4 DEF get_shape
  <2>2. (IF OuterDims < Len(s) THEN OuterDims ELSE Len(s)) = OuterDims
    BY <1>5, ArgumentsAndShape
  <2> QED
    BY <1>5, <2>1, <2>2
<1>7. \A d \in 1..OuterDims : Shape[d] \in Nat \ {0}
  <2> SUFFICES ASSUME NEW d \in 1..OuterDims
               PROVE  Shape[d] \in Nat \ {0}
    OBVIOUS
  <2>1. d \in 1..Len(s) /\ DOMAIN s = 1..Len(s)
    BY <1>5, LenProperties, ArgumentsAndShape
  <2>2. s[d] \in Nat /\ ~(s[d] <= 0)
    BY <1>3, <1>4, <1>5, <2>1, ElementOfSeq
  <2>3. OuterDims \in Nat /\ OuterDims \in 0..Len(s)
    BY <1>5, ArgumentsAndShape
  <2>4. SubSeq(s, 1, OuterDims)[d] = s[d]
    BY <1>5, <2>1, <2>3, SubSeqProperties
  <2> QED
    BY <1>5, <2>2, <2>4
<1>8. IsShape(Shape)
  BY <1>7, ArgumentsAndShape, IsASeq DEF IsShape
<1> QED
  BY <1>2, <1>6, <1>8 DEF Columns

\* The shares are parts of the output that have no element in common, follow
\* each other, and make up all of it.
LEMMA Shares ==
  ASSUME nthreads \in 1..MaxThreads, IsShape(Shape)
  PROVE  /\ Parts \in Nat \ {0} /\ Parts <= nthreads /\ PartNumber \subseteq Thread
         /\ Columns \in Seq(Seq(Slice))
         /\ \A t \in PartNumber : Share(t) \subseteq Element
         /\ \A x \in Element : \E t \in PartNumber : x \in Share(t)
         /\ \A t, u \in PartNumber : t < u => \A x \in Share(t), y \in Share(u) : Before(x, y)
         /\ \A t, u \in PartNumber : t # u => Share(t) \cap Share(u) = {}
<1>1. nthreads \in Nat \ {0} /\ MaxThreads \in Nat
  BY ArgumentsAndShape
<1>2. CutsInto(Columns, nthreads, Shape) /\ Counted(Shape)
  BY <1>1, ScheduleCuts DEF Columns
<1>3. /\ Columns \in Seq(Seq(Slice))
      /\ Parts = IF Count(Shape) < nthreads THEN Count(Shape) ELSE nthreads
      /\ \A x \in Element : \E t \in PartNumber : x \in Share(t)
      /\ \A t, u \in PartNumber : t < u => \A x \in Share(t), y \in Share(u) : Before(x, y)
  BY <1>2 DEF CutsInto, Parts, PartNumber, Share, Element
<1>4. Parts \in Nat \ {0} /\ Parts <= nthreads
  BY <1>1, <1>2, <1>3 DEF Counted
<1>5. PartNumber \subseteq Thread
  BY <1>1, <1>4 DEF PartNumber, Thread
<1>6. \A t \in PartNumber : Share(t) \subseteq Element
  BY DEF Share, Selected, Element
<1>7. \A t, u \in PartNumber : t < u => Share(t) \cap Share(u) = {}
  <2> SUFFICES ASSUME NEW t \in PartNumber, NEW u \in PartNumber, t < u,
                      NEW x \in Share(t), x \in Share(u)
               PROVE  FALSE
    OBVIOUS
  <2>1. Before(x, x) /\ x \in [1..OuterDims -> Nat]
    BY <1>3, <1>6, ElementsAreVectors
  <2> QED
    BY <2>1, BeforeOrders
<1>8. \A t, u \in PartNumber : t # u => t < u \/ u < t
  BY <1>4 DEF PartNumber
<1> QED
  BY <1>3, <1>4, <1>5, <1>6, <1>7, <1>8

-----------------------------------------------------------------------------
(* The inductive invariant.                                                *)

Executor == {Caller} \cup Thread
Errors == {None} \cup {Failed(x) : x \in Element}

TypeOK ==
  /\ nthreads \in 0..MaxThreads /\ large \in BOOLEAN /\ bad \subseteq Element
  /\ pc \in {"enter", "direct", "split", "create", "join", "done"}
  /\ tnum \in Nat \ {0}
  /\ todo \in [Executor -> SUBSET Element]
  /\ copied \in [Thread -> Nat]
  /\ state \in [Thread -> {"none", "copy", "apply", "exited"}]
  /\ tctx \in [Thread -> Errors]
  /\ writes \in [Element -> Nat]

\* An executor that has the share S and the elements T of it ahead: it has
\* written the others, none of which is bad, or has stopped at the first bad one.
Working(S, T, error) ==
  /\ T \subseteq S
  /\ error = None =>
       /\ bad \cap S \subseteq T
       /\ \A x \in S : writes[x] = IF x \in T THEN 0 ELSE 1
  /\ error # None =>
       /\ T = {} /\ bad \cap S # {} /\ error = Failed(First(bad \cap S))
       /\ \A x \in S : writes[x] \in {0, 1}

\* What is left when the error was handed over.
Finished(S) ==
  /\ \A x \in S : writes[x] \in {0, 1}
  /\ bad \cap S = {} => \A x \in S : writes[x] = 1

\* A thread before, while and after it works on its share; those before joined
\* have been joined.
Waiting(t) ==
  /\ state[t] \in {"none", "copy"} /\ tctx[t] = None
  /\ \A x \in Share(t) : writes[x] = 0

Running(t) ==
  \/ state[t] = "apply" /\ Working(Share(t), todo[t], tctx[t])
  \/ state[t] = "exited" /\ Working(Share(t), {}, tctx[t])

ThreadInv(t, joined) ==
  IF t < joined THEN state[t] = "exited" /\ Finished(Share(t))
  ELSE Waiting(t) \/ Running(t)

Threaded(joined) ==
  /\ use_threads /\ Rows(1).ok
  /\ \A t \in PartNumber : ThreadInv(t, joined)
  /\ \A t \in Thread : t \notin PartNumber => state[t] = "none"

\* The caller has the error of the first thread that failed, among those before
\* joined.
Clean(k) == \A t \in PartNumber : t < k => bad \cap Share(t) = {}

FirstError(joined) ==
  \/ ctx = None /\ Clean(joined)
  \/ \E t \in PartNumber : /\ t < joined /\ Clean(t) /\ bad \cap Share(t) # {}
                           /\ ctx = Failed(First(bad \cap Share(t)))

NoThreads == \A t \in Thread : state[t] = "none"
Quiet ==
  /\ NoThreads /\ \A t \in Thread : tctx[t] = None
  /\ \A x \in Element : writes[x] = 0

SplitSoFar ==
  /\ use_threads
  /\ slices \in Seq({Columns}) /\ Len(slices) <= Len(Dims)
  /\ \A a \in 1..Len(slices) : Rows(a).ok

InvEnter == Quiet /\ slices = <<>> /\ tinfo = "none" /\ tnum = 1 /\ ctx = None

InvDirect ==
  /\ NoThreads /\ ~use_threads /\ slices = <<>> /\ tinfo = "none"
  /\ Working(Element, todo[Caller], ctx)

InvSplit == Quiet /\ SplitSoFar /\ tinfo = "none" /\ tnum = 1 /\ ctx = None

InvCreate ==
  /\ SplitSoFar /\ Len(slices) = Len(Dims) /\ tinfo = "live" /\ tnum <= Parts + 1
  /\ Threaded(1) /\ ctx = None
  /\ \A t \in Thread : tnum <= t => state[t] = "none"

InvJoin ==
  /\ SplitSoFar /\ Len(slices) = Len(Dims) /\ tinfo = "live" /\ tnum <= Parts + 1
  /\ Threaded(tnum) /\ FirstError(tnum)

InvDone ==
  /\ slices = <<>> /\ tinfo # "live"
  /\ \/ NoThreads /\ ~use_threads /\ Working(Element, {}, ctx)
     \/ Quiet /\ ctx = OutOfMemory
     \/ Threaded(1) /\ ctx = NoThread
     \/ Threaded(Parts + 1) /\ FirstError(Parts + 1)

Inv ==
  /\ TypeOK
  /\ pc = "enter" => InvEnter
  /\ pc = "direct" => InvDirect
  /\ pc = "split" => InvSplit
  /\ pc = "create" => InvCreate
  /\ pc = "join" => InvJoin
  /\ pc = "done" => InvDone

-----------------------------------------------------------------------------
(* Executors.                                                              *)

LEMMA ErrorsDiffer ==
  /\ \A x : Failed(x) # None /\ Failed(x) # OutOfMemory /\ Failed(x) # NoThread /\ Failed(x) # Unequal
  /\ None # OutOfMemory /\ None # NoThread /\ None # Unequal
  /\ OutOfMemory # NoThread /\ OutOfMemory # Unequal /\ NoThread # Unequal
  /\ None.kind = "none" /\ OutOfMemory.kind = "memory" /\ NoThread.kind = "create"
  /\ \A x : Failed(x).kind = "kernel"
<1>1. \A x : Failed(x).kind = "kernel"
  BY DEF Failed
<1>2. /\ None.kind = "none" /\ OutOfMemory.kind = "memory" /\ NoThread.kind = "create"
      /\ Unequal.kind = "unequal"
  BY DEF None, OutOfMemory, NoThread, Unequal
<1>3. /\ "none" # "kernel" /\ "none" # "memory" /\ "none" # "create" /\ "none" # "unequal"
      /\ "memory" # "kernel" /\ "memory" # "create" /\ "memory" # "unequal"
      /\ "create" # "kernel" /\ "create" # "unequal" /\ "kernel" # "unequal"
  OBVIOUS
<1> QED
  BY <1>1, <1>2, <1>3

\* One application changes what its executor has ahead, and one element of it.
LEMMA ComputeChanges ==
  ASSUME TypeOK, NEW t \in Executor, Compute(t)
  PROVE  LET x == First(todo[t]) IN
         /\ x \in todo[t] /\ x \in Element /\ \A y \in todo[t] : ~Before(y, x)
         /\ Error(t) \in Errors
         /\ todo' \in [Executor -> SUBSET Element] /\ writes' \in [Element -> Nat]
         /\ \A u \in Executor : u # t => todo'[u] = todo[u]
         /\ x \in bad => todo'[t] = {} /\ Error(t) = Failed(x) /\ writes' = writes
         /\ x \notin bad => /\ todo'[t] = todo[t] \ {x} /\ Error(t) = None
                            /\ writes'[x] = writes[x] + 1
                            /\ \A y \in Element : y # x => writes'[y] = writes[y]
<1>1. todo[t] \subseteq Element /\ todo[t] # {}
  BY DEF Compute, TypeOK
<1>2. PICK x : x = First(todo[t])
  OBVIOUS
<1>3. x \in todo[t] /\ x \in Element /\ \A y \in todo[t] : ~Before(y, x)
  BY <1>1, <1>2, FirstProperties
<1>4. CASE x \in bad
  <2>1. todo' = [todo EXCEPT ![t] = {}] /\ writes' = writes /\ Error(t) = Failed(x)
    BY <1>2, <1>4 DEF Compute, Error
  <2> QED
    BY <1>2, <1>3, <1>4, <2>1 DEF TypeOK, Errors
<1>5. CASE x \notin bad
  <2>1. /\ todo' = [todo EXCEPT ![t] = @ \ {x}] /\ writes' = [writes EXCEPT ![x] = @ + 1]
        /\ Error(t) = None
    BY <1>2, <1>5 DEF Compute, Error
  <2>2. writes' \in [Element -> Nat] /\ writes'[x] = writes[x] + 1
        /\ \A y \in Element : y # x => writes'[y] = writes[y]
    BY <1>3, <2>1 DEF TypeOK
  <2>3. todo' \in [Executor -> SUBSET Element] /\ todo'[t] = todo[t] \ {x}
        /\ \A u \in Executor : u # t => todo'[u] = todo[u]
    BY <1>1, <2>1 DEF TypeOK
  <2> QED
    BY <1>2, <1>3, <1>5, <2>1, <2>2, <2>3 DEF Errors
<1> QED
  BY <1>4, <1>5

\* It keeps what is said of the executor, and leaves the shares of others alone.
LEMMA ComputeWorks ==
  ASSUME TypeOK, NEW t \in Executor, Compute(t), bad' = bad,
         NEW S, S \subseteq Element, NEW e, Working(S, todo[t], e)
  PROVE  /\ \A f : f = Error(t) => Working(S, todo[t], f)'
         /\ \A y \in Element : y \notin S => writes'[y] = writes[y]
<1>1. PICK x : x = First(todo[t])
  OBVIOUS
<1>2. /\ x \in todo[t] /\ x \in Element /\ \A y \in todo[t] : ~Before(y, x)
      /\ x \in bad => todo'[t] = {} /\ Error(t) = Failed(x) /\ writes' = writes
      /\ x \notin bad => /\ todo'[t] = todo[t] \ {x} /\ Error(t) = None
                         /\ writes'[x] = writes[x] + 1
                         /\ \A y \in Element : y # x => writes'[y] = writes[y]
  BY <1>1, ComputeChanges
<1>3. /\ e = None /\ todo[t] \subseteq S /\ bad \cap S \subseteq todo[t]
      /\ \A y \in S : writes[y] = IF y \in todo[t] THEN 0 ELSE 1
  BY <1>2 DEF Working
<1>4. CASE x \in bad
  <2>1. First(bad \cap S) = x
    <3>1. x \in bad \cap S /\ \A y \in bad \cap S : ~Before(y, x)
      BY <1>2, <1>3, <1>4
    <3>2. bad \cap S \subseteq Element
      OBVIOUS
    <3> QED
      BY <3>1, <3>2, FirstUnique
  <2>2. Error(t) # None
    BY <1>2, <1>4, ErrorsDiffer
  <2>3. ASSUME NEW f, f = Error(t)
        PROVE  Working(S, todo[t], f)'
    BY <1>2, <1>3, <1>4, <2>1, <2>2, <2>3 DEF Working
  <2> QED
    BY <1>2, <1>4, <2>3
<1>5. CASE x \notin bad
  <2>1. ASSUME NEW y \in S
        PROVE  writes'[y] = IF y \in todo'[t] THEN 0 ELSE 1
    BY <1>2, <1>3, <1>5
  <2>2. bad \cap S \subseteq todo'[t] /\ todo'[t] \subseteq S
    BY <1>2, <1>3, <1>5
  <2>3. ASSUME NEW f, f = Error(t)
        PROVE  Working(S, todo[t], f)'
    BY <1>2, <1>5, <2>1, <2>2, <2>3 DEF Working
  <2>4. \A y \in Element : y \notin S => writes'[y] = writes[y]
    BY <1>2, <1>3, <1>5
  <2> QED
    BY <2>3, <2>4
<1> QED
  BY <1>4, <1>5

LEMMA WorkingFinishes ==
  ASSUME NEW S, NEW e, Working(S, {}, e)
  PROVE  /\ Finished(S)
         /\ e = None => bad \cap S = {}
         /\ e # None => bad \cap S # {} /\ e = Failed(First(bad \cap S))
BY DEF Working, Finished

-----------------------------------------------------------------------------
(* Steps that leave threads alone.                                         *)

\* What the shares are does not change.
LEMMA SharesStay ==
  ASSUME UNCHANGED inputs
  PROVE  /\ Columns' = Columns /\ Parts' = Parts /\ PartNumber' = PartNumber
         /\ use_threads' = use_threads
         /\ \A t : Share(t)' = Share(t)
         /\ \A a : Rows(a)' = Rows(a)
BY DEF inputs, Columns, Parts, PartNumber, use_threads, Share, Rows

LEMMA QuietStays ==
  ASSUME UNCHANGED <<inputs, workers>>
  PROVE  /\ Quiet' = Quiet /\ NoThreads' = NoThreads
         /\ \A S, T, e : Working(S, T, e)' = Working(S, T, e)
         /\ \A S : Finished(S)' = Finished(S)
BY DEF inputs, workers, Quiet, NoThreads, Working, Finished

LEMMA ThreadedStays ==
  ASSUME UNCHANGED <<inputs, workers>>, NEW joined, Threaded(joined)
  PROVE  Threaded(joined)'
<1>1. UNCHANGED inputs
  OBVIOUS
<1>2. ASSUME NEW t
      PROVE  Waiting(t)' = Waiting(t) /\ Running(t)' = Running(t)
  <2>1. state' = state /\ tctx' = tctx /\ writes' = writes /\ todo' = todo
    BY DEF workers
  <2> QED
    BY <1>1, <2>1, SharesStay, QuietStays DEF Waiting, Running
<1>3. ASSUME NEW t
      PROVE  ThreadInv(t, joined)' = ThreadInv(t, joined)
  <2>1. state' = state
    BY DEF workers
  <2> QED
    BY <1>1, <1>2, <2>1, SharesStay, QuietStays DEF ThreadInv
<1>4. state' = state
  BY DEF workers
<1> QED
  BY <1>1, <1>3, <1>4, SharesStay DEF Threaded

\* Once all arguments are split, there is a column for every thread.
LEMMA AllSplit ==
  ASSUME TypeOK, SplitSoFar, Len(slices) = Len(Dims)
  PROVE  /\ nthreads \in 1..MaxThreads /\ Rows(1).ok /\ 1 \in Arg
         /\ ncols = Parts /\ \A a \in Arg : Len(slices[a]) = Parts
<1>1. Len(Dims) \in Nat \ {0} /\ Arg = 1..Len(Dims) /\ MaxThreads \in Nat
  BY ArgumentsAndShape
<1>2. nthreads \in 1..MaxThreads
  BY <1>1 DEF TypeOK, SplitSoFar, use_threads
<1>3. Rows(1).ok /\ 1 \in Arg
  BY <1>1 DEF SplitSoFar
<1>4. \A a \in 1..Len(Dims) : slices[a] = Columns
  <2>1. slices \in Seq({Columns}) /\ Len(slices) = Len(Dims)
    BY DEF SplitSoFar
  <2> QED
    BY <2>1, ElementOfSeq
<1> QED
  BY <1>1, <1>2, <1>3, <1>4 DEF ncols, Parts

LEMMA ThreadNumbers ==
  ASSUME TypeOK, Rows(1).ok, use_threads
  PROVE  /\ nthreads \in 1..MaxThreads /\ IsShape(Shape) /\ Rows(1).rows = Columns
         /\ Parts \in Nat \ {0} /\ Parts <= nthreads /\ PartNumber \subseteq Thread
         /\ \A t \in PartNumber : Share(t) \subseteq Element
<1>1. 1 \in Arg /\ MaxThreads \in Nat
  BY ArgumentsAndShape
<1>2. nthreads \in 1..MaxThreads
  BY <1>1 DEF TypeOK, use_threads
<1> QED
  BY <1>1, <1>2, RowsOfArguments, Shares

-----------------------------------------------------------------------------
(* The caller.                                                             *)

LEMMA InitHolds ==
  ASSUME Init
  PROVE  Inv
<1>1. TypeOK
  <2>1. 1 \in Nat \ {0} /\ {} \in SUBSET Element /\ None \in Errors
    BY DEF Errors
  <2> QED
    BY <2>1 DEF Init, TypeOK, Executor
<1>2. InvEnter
  BY DEF Init, InvEnter, Quiet, NoThreads
<1> QED
  BY <1>1, <1>2 DEF Inv, Init

LEMMA EnterKeeps ==
  ASSUME Inv, Enter
  PROVE  Inv'
<1>1. TypeOK /\ InvEnter /\ UNCHANGED inputs
  BY DEF Inv, Enter
<1>2. TypeOK'
  <2>1. Element \in SUBSET Element /\ Caller \in Executor
    BY DEF Executor
  <2> QED
    BY <1>1, <2>1 DEF TypeOK, Enter, inputs
<1>3. CASE use_threads
  <2>1. UNCHANGED <<inputs, workers>> /\ pc' = "split" /\ UNCHANGED <<slices, tinfo, tnum, ctx>>
    BY <1>3 DEF Enter, workers
  <2>2. SplitSoFar'
    <3>1. use_threads' /\ slices' = << >>
      BY <1>1, <1>3, <2>1, SharesStay DEF InvEnter
    <3>2. << >> \in Seq({Columns'}) /\ Len(<< >>) = 0 /\ 0 <= Len(Dims) /\ 1..0 = {}
      BY ArgumentsAndShape
    <3> QED
      BY <3>1, <3>2 DEF SplitSoFar
  <2>3. InvSplit'
    BY <1>1, <2>1, <2>2, QuietStays DEF InvEnter, InvSplit
  <2> QED
    BY <1>2, <2>1, <2>3 DEF Inv
<1>4. CASE ~use_threads
  <2>1. /\ pc' = "direct" /\ todo'[Caller] = Element
        /\ UNCHANGED <<slices, tinfo, ctx, state, writes, inputs>>
    BY <1>1, <1>4 DEF Enter, TypeOK, Executor
  <2>2. Working(Element, todo[Caller], ctx)'
    <3>1. ctx' = None /\ bad' \subseteq Element /\ \A x \in Element : writes'[x] = 0
      BY <1>1, <2>1 DEF InvEnter, Quiet, TypeOK, inputs
    <3> QED
      BY <2>1, <3>1 DEF Working
  <2>3. InvDirect'
    BY <1>1, <1>4, <2>1, <2>2, SharesStay DEF InvDirect, InvEnter, Quiet, NoThreads
  <2> QED
    BY <1>2, <2>1, <2>3 DEF Inv
<1> QED
  BY <1>3, <1>4

LEMMA DirectKeeps ==
  ASSUME Inv, Direct
  PROVE  Inv'
<1>1. TypeOK /\ InvDirect /\ UNCHANGED <<inputs, slices, tinfo, tnum, copied, state, tctx>>
  BY DEF Inv, Direct
<1>2. UNCHANGED inputs /\ bad' = bad /\ Caller \in Executor
  BY <1>1 DEF inputs, Executor
<1>3. CASE Compute(Caller) /\ ctx' = Error(Caller) /\ pc' = pc
  <2>1. todo' \in [Executor -> SUBSET Element] /\ writes' \in [Element -> Nat]
    BY <1>1, <1>2, <1>3, ComputeChanges
  <2>2. TypeOK'
    BY <1>1, <1>3, <2>1 DEF TypeOK, inputs
  <2>3. Working(Element, todo[Caller], ctx)'
    <3>1. Working(Element, todo[Caller], ctx)
      BY <1>1 DEF InvDirect
    <3> QED
      BY <1>1, <1>2, <1>3, <3>1, ComputeWorks
  <2>4. InvDirect'
    BY <1>1, <1>2, <2>3, SharesStay DEF InvDirect, NoThreads
  <2> QED
    BY <1>3, <2>2, <2>4 DEF Inv, Direct
<1>4. CASE todo[Caller] = {} /\ pc' = "done" /\ UNCHANGED <<todo, writes, ctx>>
  <2>1. UNCHANGED <<inputs, workers>>
    BY <1>1, <1>4 DEF workers
  <2>2. TypeOK'
    BY <1>1, <1>4 DEF TypeOK, inputs
  <2>3. InvDone'
    BY <1>1, <1>2, <1>4, <2>1, SharesStay, QuietStays DEF InvDirect, InvDone
  <2> QED
    BY <1>4, <2>2, <2>3 DEF Inv
<1> QED
  BY <1>3, <1>4 DEF Direct

LEMMA SplitKeeps ==
  ASSUME Inv, SplitArgument
  PROVE  Inv'
<1>1. /\ TypeOK /\ InvSplit /\ pc = "split" /\ Len(slices) < Len(Dims) /\ Rows(Len(slices) + 1).ok
      /\ slices' = Append(slices, Rows(Len(slices) + 1).rows)
      /\ UNCHANGED <<inputs, workers>> /\ UNCHANGED inputs /\ UNCHANGED <<pc, tinfo, tnum, ctx>>
  BY DEF Inv, SplitArgument
<1>2. TypeOK'
  BY <1>1 DEF TypeOK, inputs, workers
<1>3. PICK n : n = Len(slices)
  OBVIOUS
<1>4. slices \in Seq({Columns}) /\ n \in Nat /\ n < Len(Dims) /\ Len(Dims) \in Nat
  BY <1>1, <1>3, ArgumentsAndShape, LenProperties DEF InvSplit, SplitSoFar
<1>5. Rows(n + 1).rows = Columns
  <2>1. n + 1 \in Arg /\ MaxThreads \in Nat
    BY <1>4, ArgumentsAndShape
  <2>2. nthreads \in 1..MaxThreads
    BY <1>1, <2>1 DEF TypeOK, InvSplit, SplitSoFar, use_threads
  <2> QED
    BY <1>1, <1>3, <2>1, <2>2, RowsOfArguments
<1>6. slices' \in Seq({Columns}) /\ Len(slices') = n + 1
  BY <1>1, <1>3, <1>4, <1>5, AppendProperties
<1>7. SplitSoFar'
  <2>1. n + 1 <= Len(Dims)
    BY <1>4
  <2>2. \A a \in 1..(n + 1) : Rows(a).ok
    <3>1. \A a \in 1..(n + 1) : a \in 1..n \/ a = n + 1
      BY <1>4
    <3> QED
      BY <1>1, <1>3, <3>1 DEF InvSplit, SplitSoFar
  <2> QED
    BY <1>1, <1>6, <2>1, <2>2, SharesStay DEF SplitSoFar, InvSplit
<1>8. InvSplit'
  BY <1>1, <1>7, QuietStays DEF InvSplit
<1> QED
  BY <1>1, <1>2, <1>8 DEF Inv

LEMMA SplitFailsKeeps ==
  ASSUME Inv, SplitFails
  PROVE  Inv'
<1>1. /\ TypeOK /\ InvSplit /\ UNCHANGED <<inputs, workers>> /\ UNCHANGED inputs /\ tnum' = tnum
      /\ pc' = "done" /\ ctx' = OutOfMemory /\ slices' = << >>
      /\ tinfo' = IF tinfo = "live" THEN "freed" ELSE tinfo
  BY DEF Inv, SplitFails, GiveUp
<1>2. TypeOK'
  BY <1>1 DEF TypeOK, inputs, workers
<1>3. InvDone'
  BY <1>1, QuietStays DEF InvSplit, InvDone
<1> QED
  BY <1>1, <1>2, <1>3 DEF Inv

LEMMA CompareKeeps ==
  ASSUME Inv, Compare
  PROVE  Inv'
<1>1. /\ TypeOK /\ InvSplit /\ pc = "split" /\ Len(slices) = Len(Dims)
      /\ UNCHANGED <<inputs, workers>> /\ UNCHANGED inputs /\ tnum' = tnum
  BY DEF Inv, Compare
<1>2. /\ nthreads \in 1..MaxThreads /\ Rows(1).ok /\ ncols = Parts
      /\ \A a \in Arg : Len(slices[a]) = ncols
  BY <1>1, AllSplit DEF InvSplit
<1>3. \/ pc' = "create" /\ tinfo' = "live" /\ UNCHANGED <<slices, ctx>>
      \/ GiveUp(OutOfMemory)
  BY <1>2 DEF Compare
<1>4. TypeOK'
  BY <1>1, <1>3 DEF TypeOK, inputs, workers, GiveUp
<1>5. CASE pc' = "create" /\ tinfo' = "live" /\ UNCHANGED <<slices, ctx>>
  <2>1. SplitSoFar'
    BY <1>1, <1>5, SharesStay DEF SplitSoFar, InvSplit
  <2>2. use_threads
    BY <1>1 DEF InvSplit, SplitSoFar
  <2>3. Parts \in Nat /\ PartNumber \subseteq Thread /\ \A t \in PartNumber : Share(t) \subseteq Element
    BY <1>1, <1>2, <2>2, ThreadNumbers
  <2>4. Threaded(1)
    <3>1. \A t \in PartNumber : Waiting(t)
      BY <1>1, <2>3 DEF InvSplit, Quiet, NoThreads, Waiting
    <3>2. \A t \in PartNumber : ~(t < 1)
      BY <2>3 DEF PartNumber
    <3>3. NoThreads
      BY <1>1 DEF InvSplit, Quiet
    <3> QED
      BY <1>2, <2>2, <3>1, <3>2, <3>3 DEF Threaded, ThreadInv, NoThreads
  <2>5. Threaded(1)'
    BY <1>1, <2>4, ThreadedStays
  <2>6. tnum' <= Parts' + 1
    BY <1>1, <2>3, SharesStay DEF InvSplit
  <2>7. InvCreate'
    BY <1>1, <1>5, <2>1, <2>5, <2>6, QuietStays DEF InvSplit, InvCreate, Quiet, NoThreads
  <2> QED
    BY <1>4, <1>5, <2>7 DEF Inv
<1>6. CASE GiveUp(OutOfMemory)
  <2>1. /\ pc' = "done" /\ ctx' = OutOfMemory /\ slices' = << >>
        /\ tinfo' = IF tinfo = "live" THEN "freed" ELSE tinfo
    BY <1>6 DEF GiveUp
  <2>2. InvDone'
    BY <1>1, <2>1, QuietStays DEF InvSplit, InvDone
  <2> QED
    BY <1>4, <2>1, <2>2 DEF Inv
<1> QED
  BY <1>3, <1>5, <1>6

LEMMA CreateKeeps ==
  ASSUME Inv, Create
  PROVE  Inv'
<1>1. /\ TypeOK /\ InvCreate /\ pc = "create" /\ tnum <= ncols /\ tnum' = tnum + 1
      /\ state' = [state EXCEPT ![tnum] = "copy"]
      /\ UNCHANGED <<inputs, pc, slices, tinfo, todo, copied, tctx, writes, ctx>> /\ UNCHANGED inputs
  BY DEF Inv, Create
<1>2. ncols = Parts
  BY <1>1, AllSplit DEF InvCreate
<1>3. Threaded(1) /\ use_threads /\ Rows(1).ok
  BY <1>1 DEF InvCreate, Threaded
<1>4. Parts \in Nat /\ PartNumber \subseteq Thread
  BY <1>1, <1>3, ThreadNumbers
<1>5. tnum \in PartNumber /\ tnum \in Thread /\ tnum \in Nat
  BY <1>1, <1>2, <1>4 DEF TypeOK, PartNumber
<1>6. /\ state' \in [Thread -> {"none", "copy", "apply", "exited"}]
      /\ state'[tnum] = "copy" /\ \A t \in Thread : t # tnum => state'[t] = state[t]
  BY <1>1, <1>5 DEF TypeOK
<1>7. TypeOK'
  BY <1>1, <1>5, <1>6 DEF TypeOK, inputs
<1>8. SplitSoFar'
  BY <1>1, SharesStay DEF InvCreate, SplitSoFar
<1>9. \A t \in PartNumber : ThreadInv(t, 1) /\ ~(t < 1)
  BY <1>3, <1>4 DEF Threaded, PartNumber
<1>10. Waiting(tnum)
  BY <1>1, <1>5, <1>9 DEF InvCreate, ThreadInv, Running
<1>11. ASSUME NEW t \in PartNumber, t = tnum
       PROVE  Waiting(t)'
  <2>1. state'[t] = "copy" /\ tctx' = tctx /\ writes' = writes
    BY <1>1, <1>6, <1>11
  <2>2. Waiting(t)
    BY <1>10, <1>11
  <2> QED
    BY <1>1, <2>1, <2>2, SharesStay DEF Waiting
<1>12. ASSUME NEW t \in PartNumber, t # tnum
       PROVE  (Waiting(t) \/ Running(t))'
  <2>1. state'[t] = state[t] /\ todo' = todo /\ tctx' = tctx /\ writes' = writes /\ bad' = bad
    BY <1>1, <1>4, <1>6, <1>12 DEF inputs
  <2>2. Waiting(t) \/ Running(t)
    BY <1>9 DEF ThreadInv
  <2> QED
    BY <1>1, <2>1, <2>2, SharesStay DEF Waiting, Running, Working
<1>13. ASSUME NEW t \in PartNumber
       PROVE  ThreadInv(t, 1)'
  <2>1. (Waiting(t) \/ Running(t))'
    BY <1>11, <1>12
  <2> QED
    BY <1>9, <2>1 DEF ThreadInv
<1>14. Threaded(1)'
  BY <1>1, <1>3, <1>5, <1>6, <1>13, SharesStay DEF Threaded
<1>15. tnum' <= Parts' + 1
  BY <1>1, <1>2, <1>4, <1>5, SharesStay
<1>16. \A t \in Thread : tnum' <= t => state'[t] = "none"
  <2>1. \A t \in Thread : tnum + 1 <= t => t # tnum /\ tnum <= t
    BY <1>5 DEF Thread
  <2> QED
    BY <1>1, <1>6, <2>1 DEF InvCreate
<1>17. InvCreate'
  BY <1>1, <1>8, <1>14, <1>15, <1>16 DEF InvCreate
<1> QED
  BY <1>1, <1>7, <1>17 DEF Inv

LEMMA CreateFailsKeeps ==
  ASSUME Inv, CreateFails
  PROVE  Inv'
<1>1. /\ TypeOK /\ InvCreate /\ UNCHANGED <<inputs, workers>> /\ UNCHANGED inputs /\ tnum' = tnum
      /\ pc' = "done" /\ ctx' = NoThread /\ slices' = << >>
      /\ tinfo' = IF tinfo = "live" THEN "freed" ELSE tinfo
  BY DEF Inv, CreateFails, GiveUp
<1>2. TypeOK'
  BY <1>1 DEF TypeOK, inputs, workers
<1>3. Threaded(1)'
  BY <1>1, ThreadedStays DEF InvCreate
<1>4. InvDone'
  BY <1>1, <1>3 DEF InvCreate, InvDone
<1> QED
  BY <1>1, <1>2, <1>4 DEF Inv

LEMMA CreatedKeeps ==
  ASSUME Inv, Created
  PROVE  Inv'
<1>1. /\ TypeOK /\ InvCreate /\ pc' = "join" /\ tnum' = 1
      /\ UNCHANGED <<inputs, workers>> /\ UNCHANGED <<slices, tinfo, ctx>> /\ UNCHANGED inputs
  BY DEF Inv, Created
<1>2. TypeOK'
  BY <1>1 DEF TypeOK, inputs, workers
<1>3. use_threads /\ Rows(1).ok /\ Threaded(1)
  BY <1>1 DEF InvCreate, Threaded
<1>4. Parts \in Nat
  BY <1>1, <1>3, ThreadNumbers
<1>5. Threaded(1)'
  BY <1>1, <1>3, ThreadedStays
<1>6. SplitSoFar' /\ Len(slices') = Len(Dims) /\ tnum' <= Parts' + 1
  BY <1>1, <1>4, SharesStay DEF InvCreate, SplitSoFar
<1>7. FirstError(tnum)'
  <2>1. \A t \in PartNumber : ~(t < 1)
    BY <1>4 DEF PartNumber
  <2>2. ctx' = None
    BY <1>1 DEF InvCreate
  <2> QED
    BY <1>1, <2>1, <2>2, SharesStay DEF FirstError, Clean
<1>8. InvJoin'
  BY <1>1, <1>5, <1>6, <1>7 DEF InvCreate, InvJoin
<1> QED
  BY <1>1, <1>2, <1>8 DEF Inv

LEMMA JoinKeeps ==
  ASSUME Inv, Join
  PROVE  Inv'
<1>1. /\ TypeOK /\ InvJoin /\ pc = "join" /\ tnum <= ncols /\ state[tnum] = "exited"
      /\ ctx' = (IF ctx = None THEN tctx[tnum] ELSE ctx)
      /\ tctx' = [tctx EXCEPT ![tnum] = None] /\ tnum' = tnum + 1
      /\ UNCHANGED <<inputs, pc, slices, tinfo, todo, copied, state, writes>> /\ UNCHANGED inputs
  BY DEF Inv, Join
<1>2. ncols = Parts
  BY <1>1, AllSplit DEF InvJoin
<1>3. Threaded(tnum) /\ use_threads /\ Rows(1).ok
  BY <1>1 DEF InvJoin, Threaded
<1>4. Parts \in Nat /\ PartNumber \subseteq Thread
  BY <1>1, <1>3, ThreadNumbers
<1>5. tnum \in PartNumber /\ tnum \in Thread /\ tnum \in Nat
  BY <1>1, <1>2, <1>4 DEF TypeOK, PartNumber
<1>6. /\ tctx' \in [Thread -> Errors] /\ \A t \in Thread : t # tnum => tctx'[t] = tctx[t]
  <2>1. None \in Errors
    BY DEF Errors
  <2> QED
    BY <1>1, <1>5, <2>1 DEF TypeOK
<1>7. TypeOK'
  BY <1>1, <1>5, <1>6 DEF TypeOK, inputs
<1>8. SplitSoFar' /\ tnum' <= Parts' + 1
  BY <1>1, <1>2, <1>4, <1>5, SharesStay DEF InvJoin, SplitSoFar
<1>9. Working(Share(tnum), {}, tctx[tnum])
  <2>1. ThreadInv(tnum, tnum) /\ ~(tnum < tnum)
    BY <1>3, <1>5 DEF Threaded
  <2> QED
    BY <1>1, <2>1 DEF ThreadInv, Waiting, Running
<1>10. /\ Finished(Share(tnum))
       /\ tctx[tnum] = None => bad \cap Share(tnum) = {}
       /\ tctx[tnum] # None => /\ bad \cap Share(tnum) # {}
                               /\ tctx[tnum] = Failed(First(bad \cap Share(tnum)))
  BY <1>9 DEF Working, Finished
<1>11. \A t \in PartNumber : t < tnum + 1 <=> t < tnum \/ t = tnum
  BY <1>5 DEF PartNumber
<1>12. \A S : Finished(S)' = Finished(S)
  BY <1>1 DEF Finished, inputs
<1>13. ASSUME NEW t \in PartNumber
       PROVE  ThreadInv(t, tnum)'
  <2>1. ThreadInv(t, tnum)
    BY <1>3 DEF Threaded
  <2>2. CASE t < tnum \/ t = tnum
    <3>1. state'[t] = "exited" /\ Finished(Share(t))
      BY <1>1, <1>10, <2>1, <2>2 DEF ThreadInv
    <3>2. t < tnum' /\ Finished(Share(t))'
      BY <1>1, <1>11, <1>12, <2>2, <3>1, SharesStay
    <3> QED
      BY <3>1, <3>2 DEF ThreadInv
  <2>3. CASE ~(t < tnum \/ t = tnum)
    <3>1. tctx'[t] = tctx[t] /\ ~(t < tnum') /\ (Waiting(t) \/ Running(t))
      BY <1>1, <1>4, <1>6, <1>11, <2>1, <2>3 DEF ThreadInv
    <3>2. (Waiting(t) \/ Running(t))'
      BY <1>1, <3>1, SharesStay DEF Waiting, Running, Working, inputs
    <3> QED
      BY <3>1, <3>2 DEF ThreadInv
  <2> QED
    BY <2>2, <2>3
<1>14. Threaded(tnum)'
  BY <1>1, <1>3, <1>13, SharesStay DEF Threaded
<1>15. FirstError(tnum)'
  <2>1. \A k : Clean(k)' = Clean(k)
    BY <1>1, SharesStay DEF Clean, inputs
  <2>2. CASE ctx = None /\ tctx[tnum] = None
    <3>1. Clean(tnum)
      BY <1>1, <2>2, ErrorsDiffer DEF InvJoin, FirstError
    <3>2. Clean(tnum + 1)
      BY <1>10, <1>11, <2>2, <3>1 DEF Clean
    <3> QED
      BY <1>1, <2>1, <2>2, <3>2 DEF FirstError
  <2>3. CASE ctx = None /\ tctx[tnum] # None
    <3>1. Clean(tnum)
      BY <1>1, <2>3, ErrorsDiffer DEF InvJoin, FirstError
    <3>2. ctx' = Failed(First(bad \cap Share(tnum))) /\ bad \cap Share(tnum) # {} /\ tnum < tnum'
      BY <1>1, <1>5, <1>10, <2>3
    <3>3. PICK u : u = tnum
      OBVIOUS
    <3> QED
      BY <1>1, <1>5, <2>1, <3>1, <3>2, <3>3, SharesStay DEF FirstError, inputs
  <2>4. CASE ctx # None
    <3>1. PICK t \in PartNumber : /\ t < tnum /\ Clean(t) /\ bad \cap Share(t) # {}
                                  /\ ctx = Failed(First(bad \cap Share(t)))
      BY <1>1, <2>4 DEF InvJoin, FirstError
    <3>2. t < tnum' /\ ctx' = ctx
      BY <1>1, <1>11, <2>4, <3>1
    <3> QED
      BY <1>1, <2>1, <3>1, <3>2, SharesStay DEF FirstError, inputs
  <2> QED
    BY <2>2, <2>3, <2>4
<1>16. InvJoin'
  BY <1>1, <1>8, <1>14, <1>15 DEF InvJoin
<1> QED
  BY <1>1, <1>7, <1>16 DEF Inv

LEMMA JoinedKeeps ==
  ASSUME Inv, Joined
  PROVE  Inv'
<1>1. /\ TypeOK /\ InvJoin /\ tnum > ncols /\ UNCHANGED <<inputs, workers>> /\ UNCHANGED inputs
      /\ tnum' = tnum /\ pc' = "done" /\ ctx' = ctx /\ slices' = << >>
      /\ tinfo' = IF tinfo = "live" THEN "freed" ELSE tinfo
  BY DEF Inv, Joined, GiveUp
<1>2. TypeOK'
  BY <1>1 DEF TypeOK, inputs, workers
<1>3. ncols = Parts
  BY <1>1, AllSplit DEF InvJoin
<1>4. use_threads /\ Rows(1).ok
  BY <1>1 DEF InvJoin, Threaded
<1>5. tnum = Parts + 1
  <2>1. Parts \in Nat /\ tnum \in Nat
    BY <1>1, <1>4, ThreadNumbers DEF TypeOK
  <2> QED
    BY <1>1, <1>3, <2>1 DEF InvJoin
<1>6. Threaded(tnum)' /\ FirstError(tnum)'
  <2>1. Threaded(tnum)'
    BY <1>1, ThreadedStays DEF InvJoin
  <2>2. FirstError(tnum)'
    BY <1>1, SharesStay DEF InvJoin, FirstError, Clean, inputs
  <2> QED
    BY <2>1, <2>2
<1>7. Threaded(Parts + 1)' /\ FirstError(Parts + 1)'
  BY <1>1, <1>5, <1>6, SharesStay
<1>8. InvDone'
  BY <1>1, <1>7 DEF InvDone
<1> QED
  BY <1>1, <1>2, <1>8 DEF Inv

-----------------------------------------------------------------------------
(* The threads.                                                            *)

\* Where threads are at work.
LEMMA SomeThreaded ==
  ASSUME Inv, NEW t \in Thread, Active(t)
  PROVE  /\ pc \in {"create", "join", "done"}
         /\ \/ pc = "create" /\ Threaded(1)
            \/ pc = "join" /\ Threaded(tnum)
            \/ pc = "done" /\ ctx = NoThread /\ Threaded(1)
<1>1. TypeOK /\ state[t] # "none" /\ state[t] # "exited"
  BY DEF Inv, Active
<1>2. ~NoThreads /\ ~Quiet
  BY <1>1 DEF NoThreads, Quiet
<1>3. pc # "enter" /\ pc # "direct" /\ pc # "split"
  BY <1>2 DEF Inv, InvEnter, InvDirect, InvSplit
<1>4. ~Threaded(Parts + 1)
  <2> SUFFICES ASSUME Threaded(Parts + 1)
               PROVE  FALSE
    OBVIOUS
  <2>1. t \in PartNumber /\ ThreadInv(t, Parts + 1)
    BY <1>1 DEF Threaded
  <2>2. Parts \in Nat
    BY <1>1, ThreadNumbers DEF Threaded
  <2>3. t < Parts + 1
    BY <2>1, <2>2 DEF PartNumber
  <2> QED
    BY <1>1, <2>1, <2>3 DEF ThreadInv
<1>5. pc = "create" => Threaded(1)
  BY DEF Inv, InvCreate
<1>6. pc = "join" => Threaded(tnum)
  BY DEF Inv, InvJoin
<1>7. pc = "done" => ctx = NoThread /\ Threaded(1)
  BY <1>2, <1>4 DEF Inv, InvDone
<1> QED
  BY <1>1, <1>3, <1>5, <1>6, <1>7 DEF TypeOK

LEMMA ActiveThread ==
  ASSUME Inv, NEW t \in Thread, Active(t)
  PROVE  /\ use_threads /\ Rows(1).ok /\ t \in PartNumber
         /\ Waiting(t) \/ Running(t)
<1>1. state[t] # "none" /\ state[t] # "exited"
  BY DEF Active
<1>2. PICK joined : Threaded(joined)
  BY SomeThreaded
<1>3. t \in PartNumber /\ ThreadInv(t, joined)
  BY <1>1, <1>2 DEF Threaded
<1> QED
  BY <1>1, <1>2, <1>3 DEF Threaded, ThreadInv

\* A thread that moves on in its share alone.
Moves(t) ==
  /\ UNCHANGED <<inputs, pc, slices, tinfo, tnum, ctx>>
  /\ (Waiting(t) \/ Running(t))'
  /\ \A u \in Thread : u # t =>
        state'[u] = state[u] /\ tctx'[u] = tctx[u] /\ todo'[u] = todo[u]
  /\ \A x \in Element : x \notin Share(t) => writes'[x] = writes[x]

LEMMA MovesKeepThreaded ==
  ASSUME TypeOK, NEW t \in PartNumber, Active(t), Moves(t), NEW joined, Threaded(joined)
  PROVE  Threaded(joined)'
<1>1. UNCHANGED inputs /\ bad' = bad
  BY DEF Moves, inputs
<1>2. use_threads /\ Rows(1).ok /\ ~(t < joined)
  BY DEF Threaded, ThreadInv, Active
<1>3. /\ PartNumber \subseteq Thread
      /\ \A u \in PartNumber : Share(u) \subseteq Element /\ (u # t => Share(t) \cap Share(u) = {})
  BY <1>2, ThreadNumbers, Shares
<1>4. ASSUME NEW u \in PartNumber, u # t
      PROVE  ThreadInv(u, joined)'
  <2>1. state'[u] = state[u] /\ tctx'[u] = tctx[u] /\ todo'[u] = todo[u]
    BY <1>3, <1>4 DEF Moves
  <2>2. \A x \in Share(u) : writes'[x] = writes[x]
    BY <1>3, <1>4 DEF Moves
  <2>3. Share(u)' = Share(u) /\ ThreadInv(u, joined)
    BY <1>1, SharesStay DEF Threaded
  <2>4. Waiting(u) => Waiting(u)'
    BY <2>1, <2>2, <2>3 DEF Waiting
  <2>5. \A T, e : Working(Share(u), T, e) => Working(Share(u), T, e)'
    BY <1>1, <2>2, <2>3 DEF Working
  <2>6. Running(u) => Running(u)'
    BY <2>1, <2>5 DEF Running
  <2>7. Finished(Share(u)) => Finished(Share(u))'
    BY <1>1, <2>2, <2>3 DEF Finished
  <2> QED
    BY <2>1, <2>3, <2>4, <2>6, <2>7 DEF ThreadInv
<1>5. ThreadInv(t, joined)'
  BY <1>2 DEF ThreadInv, Moves
<1>6. \A u \in Thread : u \notin PartNumber => state'[u] = "none"
  BY DEF Threaded, Moves
<1> QED
  BY <1>1, <1>2, <1>4, <1>5, <1>6, SharesStay DEF Threaded

LEMMA MovesKeep ==
  ASSUME Inv, TypeOK', NEW t \in Thread, Active(t), Moves(t)
  PROVE  Inv'
<1>1. /\ UNCHANGED <<inputs, pc, slices, tinfo, tnum, ctx>> /\ UNCHANGED inputs
      /\ TypeOK /\ t \in PartNumber
  BY ActiveThread DEF Moves, Inv
<1>2. SplitSoFar => SplitSoFar'
  BY <1>1, SharesStay DEF SplitSoFar
<1>3. CASE pc = "create"
  <2>1. Threaded(1)'
    BY <1>1, <1>3, SomeThreaded, MovesKeepThreaded
  <2>2. \A u \in Thread : tnum' <= u => state'[u] = "none"
    BY <1>1, <1>3 DEF Inv, InvCreate, Moves, Active
  <2>3. InvCreate'
    BY <1>1, <1>2, <1>3, <2>1, <2>2, SharesStay DEF Inv, InvCreate
  <2> QED
    BY <1>1, <1>3, <2>3 DEF Inv
<1>4. CASE pc = "join"
  <2>1. PICK joined : joined = tnum
    OBVIOUS
  <2>2. Threaded(joined)'
    BY <1>1, <1>4, <2>1, SomeThreaded, MovesKeepThreaded
  <2>3. Threaded(tnum)'
    BY <1>1, <2>1, <2>2
  <2>4. FirstError(tnum)'
    BY <1>1, <1>4, SharesStay DEF Inv, InvJoin, FirstError, Clean, inputs
  <2>5. InvJoin'
    BY <1>1, <1>2, <1>4, <2>3, <2>4, SharesStay DEF Inv, InvJoin
  <2> QED
    BY <1>1, <1>4, <2>5 DEF Inv
<1>5. CASE pc = "done"
  <2>1. Threaded(1)'
    BY <1>1, <1>5, SomeThreaded, MovesKeepThreaded
  <2>2. ctx' = NoThread
    BY <1>1, <1>5, SomeThreaded
  <2>3. InvDone'
    BY <1>1, <1>5, <2>1, <2>2 DEF Inv, InvDone
  <2> QED
    BY <1>1, <1>5, <2>3 DEF Inv
<1> QED
  BY <1>3, <1>4, <1>5, SomeThreaded

LEMMA CopyKeeps ==
  ASSUME Inv, NEW t \in Thread, Copy(t)
  PROVE  Inv'
<1>1. /\ TypeOK /\ Active(t) /\ copied' = [copied EXCEPT ![t] = @ + 1]
      /\ UNCHANGED <<inputs, pc, slices, tinfo, tnum, todo, state, tctx, writes, ctx>>
  BY DEF Inv, Copy, Active
<1>2. TypeOK'
  BY <1>1 DEF TypeOK, inputs
<1>3. Waiting(t)'
  <2>1. Waiting(t)
    BY <1>1, ActiveThread DEF Running, Copy
  <2> QED
    BY <1>1, <2>1, SharesStay DEF Waiting
<1>4. Moves(t)
  BY <1>1, <1>3 DEF Moves
<1> QED
  BY <1>1, <1>2, <1>4, MovesKeep

LEMMA StartApplyKeeps ==
  ASSUME Inv, NEW t \in Thread, StartApply(t)
  PROVE  Inv'
<1>1. /\ TypeOK /\ Active(t) /\ state[t] = "copy" /\ state' = [state EXCEPT ![t] = "apply"]
      /\ todo' = [todo EXCEPT ![t] = Selected(Column(t), Shape)]
      /\ UNCHANGED <<inputs, pc, slices, tinfo, tnum, copied, tctx, writes, ctx>>
  BY DEF Inv, StartApply, Active
<1>2. use_threads /\ Rows(1).ok /\ t \in PartNumber /\ Waiting(t)
  BY <1>1, ActiveThread DEF Running
<1>3. Selected(Column(t), Shape) = Share(t) /\ Share(t) \subseteq Element
  BY <1>1, <1>2, ThreadNumbers DEF Column, Share
<1>4. t \in Executor
  BY DEF Executor
<1>5. /\ state'[t] = "apply" /\ todo'[t] = Share(t)
      /\ \A u \in Thread : u # t => state'[u] = state[u] /\ todo'[u] = todo[u]
  BY <1>1, <1>3, <1>4 DEF TypeOK, Executor
<1>6. TypeOK'
  BY <1>1, <1>3, <1>4 DEF TypeOK, inputs
<1>7. Running(t)'
  <2>1. tctx'[t] = None /\ \A x \in Share(t) : writes'[x] = 0
    BY <1>1, <1>2 DEF Waiting
  <2>2. Share(t)' = Share(t)
    BY <1>1, SharesStay
  <2> QED
    BY <1>5, <2>1, <2>2 DEF Running, Working
<1>8. Moves(t)
  BY <1>1, <1>5, <1>7 DEF Moves
<1> QED
  BY <1>1, <1>6, <1>8, MovesKeep

LEMMA ApplyKeeps ==
  ASSUME Inv, NEW t \in Thread, Apply(t)
  PROVE  Inv'
<1>1. /\ TypeOK /\ Active(t) /\ state[t] = "apply" /\ Compute(t)
      /\ tctx' = [tctx EXCEPT ![t] = Error(t)]
      /\ UNCHANGED <<inputs, pc, slices, tinfo, tnum, copied, state, ctx>>
      /\ UNCHANGED inputs /\ bad' = bad
  BY DEF Inv, Apply, Active, inputs
<1>2. use_threads /\ Rows(1).ok /\ t \in PartNumber /\ Working(Share(t), todo[t], tctx[t])
  BY <1>1, ActiveThread DEF Running, Waiting
<1>3. Share(t) \subseteq Element /\ t \in Executor
  BY <1>1, <1>2, ThreadNumbers DEF Executor
<1>4. /\ Error(t) \in Errors
      /\ todo' \in [Executor -> SUBSET Element] /\ writes' \in [Element -> Nat]
      /\ \A u \in Executor : u # t => todo'[u] = todo[u]
  BY <1>1, <1>3, ComputeChanges
<1>5. TypeOK'
  BY <1>1, <1>4 DEF TypeOK, inputs
<1>6. tctx'[t] = Error(t) /\ \A u \in Thread : u # t => tctx'[u] = tctx[u]
  BY <1>1 DEF TypeOK
<1>7. PICK S : S = Share(t)
  OBVIOUS
<1>8. /\ \A f : f = Error(t) => Working(S, todo[t], f)'
      /\ \A y \in Element : y \notin S => writes'[y] = writes[y]
  BY <1>1, <1>2, <1>3, <1>7, ComputeWorks
<1>9. Running(t)'
  <2>1. Working(Share(t), todo[t], tctx[t])'
    BY <1>1, <1>6, <1>7, <1>8, SharesStay
  <2> QED
    BY <1>1, <2>1 DEF Running
<1>10. Moves(t)
  BY <1>1, <1>4, <1>6, <1>7, <1>8, <1>9 DEF Moves, Executor
<1> QED
  BY <1>1, <1>5, <1>10, MovesKeep

LEMMA ExitKeeps ==
  ASSUME Inv, NEW t \in Thread, Exit(t)
  PROVE  Inv'
<1>1. /\ TypeOK /\ Active(t) /\ state[t] = "apply" /\ todo[t] = {}
      /\ state' = [state EXCEPT ![t] = "exited"]
      /\ UNCHANGED <<inputs, pc, slices, tinfo, tnum, todo, copied, tctx, writes, ctx>>
      /\ UNCHANGED inputs /\ bad' = bad
  BY DEF Inv, Exit, Active, inputs
<1>2. TypeOK'
  BY <1>1 DEF TypeOK, inputs
<1>3. state'[t] = "exited" /\ \A u \in Thread : u # t => state'[u] = state[u]
  BY <1>1 DEF TypeOK
<1>4. Working(Share(t), {}, tctx[t])
  BY <1>1, ActiveThread DEF Running, Waiting
<1>5. Running(t)'
  BY <1>1, <1>3, <1>4, SharesStay DEF Running, Working
<1>6. Moves(t)
  BY <1>1, <1>3, <1>5 DEF Moves
<1> QED
  BY <1>1, <1>2, <1>6, MovesKeep

LEMMA NextKeeps ==
  ASSUME Inv, [Next]_vars
  PROVE  Inv'
<1>1. CASE CallerStep
  BY <1>1, EnterKeeps, DirectKeeps, SplitKeeps, SplitFailsKeeps, CompareKeeps, CreateKeeps,
     CreateFailsKeeps, CreatedKeeps, JoinKeeps, JoinedKeeps DEF CallerStep
<1>2. CASE \E t \in Thread : apply_thread(t)
  BY <1>2, CopyKeeps, StartApplyKeeps, ApplyKeeps, ExitKeeps DEF apply_thread
<1>3. CASE UNCHANGED vars
  <2>1. /\ UNCHANGED <<inputs, workers>> /\ UNCHANGED <<pc, slices, tinfo, tnum, ctx>>
        /\ UNCHANGED inputs /\ UNCHANGED <<todo, copied, state, tctx, writes>>
    BY <1>3 DEF vars, workers
  <2>2. TypeOK => TypeOK'
    BY <2>1 DEF TypeOK, inputs
  <2>3. \A joined : Threaded(joined) => Threaded(joined)'
    BY <2>1, ThreadedStays
  <2>4. \A joined : FirstError(joined) => FirstError(joined)'
    BY <2>1, SharesStay DEF FirstError, Clean, inputs
  <2>5. (SplitSoFar => SplitSoFar') /\ tnum' = tnum /\ Parts' = Parts /\ use_threads' = use_threads
    BY <2>1, SharesStay DEF SplitSoFar
  <2>6. InvEnter => InvEnter'
    BY <2>1, QuietStays DEF InvEnter
  <2>7. InvDirect => InvDirect'
    BY <2>1, <2>5, QuietStays DEF InvDirect
  <2>8. InvSplit => InvSplit'
    BY <2>1, <2>5, QuietStays DEF InvSplit
  <2>9. InvCreate => InvCreate'
    BY <2>1, <2>3, <2>5 DEF InvCreate
  <2>10. InvJoin => InvJoin'
    BY <2>1, <2>3, <2>4, <2>5 DEF InvJoin
  <2>11. InvDone => InvDone'
    BY <2>1, <2>3, <2>4, <2>5, QuietStays DEF InvDone
  <2> QED
    BY <2>1, <2>2, <2>6, <2>7, <2>8, <2>9, <2>10, <2>11 DEF Inv
<1> QED
  BY <1>1, <1>2, <1>3 DEF Next

\* The invariant holds of all behaviors, for all arguments, numbers of threads
\* and elements on which the kernel fails.
THEOREM InvHolds == Spec => []Inv
  BY InitHolds, NextKeeps, PTL DEF Spec

-----------------------------------------------------------------------------
(* The properties.                                                         *)

LEMMA InvData ==
  ASSUME Inv
  PROVE  ThreadsKeepTheirData
<1> SUFFICES ASSUME ctx # NoThread, NEW t \in Thread, Active(t)
             PROVE  pc # "done" /\ tinfo = "live" /\ Len(slices) = Len(Dims)
  BY DEF ThreadsKeepTheirData
<1>1. pc = "create" \/ pc = "join"
  BY SomeThreaded
<1> QED
  BY <1>1 DEF Inv, InvCreate, InvJoin

LEMMA InvReleases ==
  ASSUME Inv
  PROVE  ReleasesAll
<1>1. pc = "done" => slices = <<>> /\ tinfo # "live"
  BY DEF Inv, InvDone
<1>2. \A joined : FirstError(joined) => ctx # Unequal
  BY ErrorsDiffer DEF FirstError
<1>3. \A S, T : Working(S, T, ctx) => ctx # Unequal
  BY ErrorsDiffer DEF Working
<1>4. ctx # Unequal
  BY <1>2, <1>3, ErrorsDiffer
     DEF Inv, TypeOK, InvEnter, InvDirect, InvSplit, InvCreate, InvJoin, InvDone
<1> QED
  BY <1>1, <1>4 DEF ReleasesAll

\* When threads work on an array, no element has been written twice.
LEMMA ThreadedWrites ==
  ASSUME Inv, NEW joined, Threaded(joined)
  PROVE  /\ \A x \in Element : writes[x] <= 1
         /\ joined = Parts + 1 /\ Clean(joined) => bad = {} /\ \A x \in Element : writes[x] = 1
<1>1. TypeOK /\ use_threads /\ Rows(1).ok
  BY DEF Inv, Threaded
<1>2. /\ nthreads \in 1..MaxThreads /\ IsShape(Shape) /\ Parts \in Nat
      /\ \A x \in Element : \E t \in PartNumber : x \in Share(t)
  BY <1>1, ThreadNumbers, Shares
<1>3. ASSUME NEW t \in PartNumber, NEW x \in Share(t)
      PROVE  writes[x] \in {0, 1}
  <2>1. ThreadInv(t, joined)
    BY DEF Threaded
  <2> QED
    BY <2>1 DEF ThreadInv, Finished, Waiting, Running, Working
<1>4. ASSUME joined = Parts + 1, Clean(joined), NEW t \in PartNumber
      PROVE  bad \cap Share(t) = {} /\ \A x \in Share(t) : writes[x] = 1
  <2>1. t < joined /\ ThreadInv(t, joined)
    BY <1>2, <1>4 DEF Threaded, PartNumber
  <2> QED
    BY <1>4, <2>1 DEF ThreadInv, Finished, Clean
<1>5. bad \subseteq Element
  BY <1>1 DEF TypeOK
<1> QED
  BY <1>2, <1>3, <1>4, <1>5

LEMMA InvWrites ==
  ASSUME Inv
  PROVE  EachElementOnce
<1>1. \A T, e : Working(Element, T, e) => \A x \in Element : writes[x] \in {0, 1}
  BY DEF Working
<1>2. Quiet => \A x \in Element : writes[x] = 0
  BY DEF Quiet
<1>3. \A x \in Element : writes[x] <= 1
  BY <1>1, <1>2, ThreadedWrites
     DEF Inv, TypeOK, InvEnter, InvDirect, InvSplit, InvCreate, InvJoin, InvDone
<1>4. ASSUME pc = "done", ctx = None
      PROVE  \A x \in Element : writes[x] = 1
  <2>1. \/ Working(Element, {}, ctx)
        \/ Threaded(Parts + 1) /\ FirstError(Parts + 1)
    BY <1>4, ErrorsDiffer DEF Inv, InvDone
  <2>2. FirstError(Parts + 1) => Clean(Parts + 1)
    BY <1>4, ErrorsDiffer DEF FirstError
  <2> QED
    BY <1>4, <2>1, <2>2, ThreadedWrites DEF Working
<1> QED
  BY <1>3, <1>4 DEF EachElementOnce

LEMMA InvError ==
  ASSUME Inv
  PROVE  SequentialError
<1> SUFFICES ASSUME pc = "done", ctx.kind \in {"none", "kernel"}
             PROVE  ctx = IF bad = {} THEN None ELSE Failed(First(bad))
  BY DEF SequentialError
<1>1. TypeOK /\ bad \subseteq Element
  BY DEF Inv, TypeOK
<1>2. \/ Working(Element, {}, ctx)
      \/ Threaded(Parts + 1) /\ FirstError(Parts + 1)
  BY ErrorsDiffer DEF Inv, InvDone
<1>3. CASE Working(Element, {}, ctx)
  <2>1. bad \cap Element = bad
    BY <1>1
  <2> QED
    BY <1>3, <2>1 DEF Working
<1>4. CASE Threaded(Parts + 1) /\ ctx = None /\ Clean(Parts + 1)
  BY <1>4, ThreadedWrites
<1>5. CASE Threaded(Parts + 1) /\ FirstError(Parts + 1) /\ ~(ctx = None /\ Clean(Parts + 1))
  <2>1. PICK t \in PartNumber : /\ Clean(t) /\ bad \cap Share(t) # {}
                                /\ ctx = Failed(First(bad \cap Share(t)))
    BY <1>5 DEF FirstError
  <2>2. /\ nthreads \in 1..MaxThreads /\ IsShape(Shape) /\ Parts \in Nat
        /\ Share(t) \subseteq Element
        /\ \A x \in Element : \E u \in PartNumber : x \in Share(u)
        /\ \A s, u \in PartNumber : s < u => \A x \in Share(s), y \in Share(u) : Before(x, y)
    BY <1>1, <1>5, ThreadNumbers, Shares DEF Threaded
  <2>3. PICK x : x = First(bad \cap Share(t))
    OBVIOUS
  <2>4. x \in bad /\ x \in Share(t) /\ \A y \in bad \cap Share(t) : ~Before(y, x)
    <3>1. bad \cap Share(t) \subseteq Element
      BY <1>1
    <3> QED
      BY <2>1, <2>3, <3>1, FirstProperties
  <2>5. ASSUME NEW y \in bad
        PROVE  ~Before(y, x)
    <3>1. PICK u \in PartNumber : y \in Share(u)
      BY <1>1, <2>2
    <3>2. ~(u < t)
      BY <2>1, <3>1 DEF Clean
    <3>3. CASE u = t
      BY <2>4, <3>1, <3>3
    <3>4. CASE u # t
      <4>1. t < u
        BY <2>2, <3>2, <3>4 DEF PartNumber
      <4>2. Before(x, y)
        BY <2>2, <2>4, <3>1, <4>1
      <4>3. x \in [1..OuterDims -> Nat] /\ y \in [1..OuterDims -> Nat]
        BY <1>1, <2>4, ElementsAreVectors
      <4> QED
        BY <4>2, <4>3, BeforeOrders
    <3> QED
      BY <3>3, <3>4
  <2>6. First(bad) = x
    BY <1>1, <2>4, <2>5, FirstUnique
  <2> QED
    BY <2>1, <2>3, <2>4, <2>6
<1> QED
  BY <1>2, <1>3, <1>4, <1>5

\* Running threads find the slices, the records and the caller's frame in place,
\* unless a thread could not be created.
THEOREM DataKept == Spec => []ThreadsKeepTheirData
  BY InvHolds, InvData, PTL

\* The caller returns without slices or records, whichever step failed.
THEOREM AllReleased == Spec => []ReleasesAll
  BY InvHolds, InvReleases, PTL

\* No element is written twice; on success every element has been written.
THEOREM WrittenOnce == Spec => []EachElementOnce
  BY InvHolds, InvWrites, PTL

\* The error is that of the first bad element in memory order, as without threads.
THEOREM ErrorIsSequential == Spec => []SequentialError
  BY InvHolds, InvError, PTL
=============================================================================
